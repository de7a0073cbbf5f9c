------------------------------ MODULE SecretSync ------------------------------
(***************************************************************************)
(* reconcileSecrets in detail: the application Secret rendered from         *)
(* spec.secretTemplate and the Envoy Secret, with their names, owners, role *)
(* labels and data, where OIDCApplicationReconciler only knows whether they *)
(* are there.  Everything is read through the informer cache, and others    *)
(* create, change and delete Secrets of the namespace at any time.          *)
(*                                                                          *)
(* Data: the value of a key is told apart by its origin.  "raw" is the      *)
(* client secret as the operator puts it into the Envoy Secret, "rendered"  *)
(* a template entry made with the client secret, "plain" any other entry.   *)
(* Authentik may omit the client secret of a provider that exists; entries  *)
(* that need it then keep what they had.                                    *)
(*                                                                          *)
(* Abstracted: whether an entry needs the client secret is part of the spec *)
(* (secret_template.go decides it), templates that do not parse, lists and  *)
(* gets that fail without effect other than ending the reconcile.           *)
(***************************************************************************)
EXTENDS Integers, Sequences

CONSTANTS
  Names,      \* names of Secrets in the namespace
  EnvoyName,  \* <app>-envoy-oidc
  Keys,       \* keys of Secret data
  ClientKey,  \* "client-secret"
  AppSpecs,   \* what users ask for
  Taken,      \* names that Secrets of others may have before the resource is there
  MaxEdits,   \* bound: edits of the spec, and changes of what Authentik answers
  MaxOutside, \* bound: what others do to Secrets
  MaxFaults,  \* bound: failing calls and crashes
  MaxChanges, \* bound: all of these together
  None

ASSUME NamesAssumption == EnvoyName \in Names /\ ClientKey \in Keys /\ None \notin Names

Origins == {"raw", "rendered", "plain"}
Data == [Keys -> Origins \union {"absent"}]
NoData == [k \in Keys |-> "absent"]

Owners == {"app", "other", "nobody"}
Roles == {"application", "envoy", "none"}
Secret == [owner : Owners, role : Roles, data : Data]

ASSUME AbsentAssumption == None \notin Secret

\* template: per key no entry, one without and one with the client secret;
\* name: the application Secret's; routes: whether there are targetRefs.
AppSpec == [template : [Keys -> {"absent", "plain", "secret"}], name : Names, routes : BOOLEAN]

Templated(spec) == \E k \in Keys : spec.template[k] # "absent"

ASSUME BoundsAssumption == MaxEdits \in Nat /\ MaxOutside \in Nat /\ MaxFaults \in Nat

\* The webhook refuses an application Secret named like the Envoy Secret.
ASSUME AppSpecsAssumption ==
  /\ AppSpecs \subseteq AppSpec
  /\ \A s \in AppSpecs : Templated(s) /\ s.routes => s.name # EnvoyName

VARIABLES
  store,     \* the Secrets in the API server, None where there is none
  cache,     \* the Secrets in the informer cache
  pending,   \* changes of Secrets the watch has yet to deliver, oldest first
  object,    \* the OIDCApplication: its spec and status.secretName
  seen,      \* the object in the informer cache
  seenFresh, \* it carries the current resourceVersion
  omits,     \* Authentik omits the client secret
  pc, loc,   \* the running reconcile
  fresh,     \* its copy of the object is current
  edits, faults, outside

secretVars == <<store, cache, pending>>
objectVars == <<object, seen, seenFresh>>
workerVars == <<pc, loc, fresh>>
vars == <<secretVars, objectVars, omits, workerVars, edits, faults, outside>>

Object == [spec : AppSpecs, secretName : Names \union {None}]
Stages == {"idle", "writeApplication", "writeEnvoy", "listStale", "deleteStale", "record"}

\* application, envoy: the data to write; named, found: deletion candidates;
\* sound, for the properties only: no Secret was written from an old copy.
Work == [object : Object \union {None}, application : Data, envoy : Data,
         named : SUBSET Names, found : SUBSET Names, sound : BOOLEAN]
NoWork == [object |-> None, application |-> NoData, envoy |-> NoData,
           named |-> {}, found |-> {}, sound |-> TRUE]

TypeOK ==
  /\ store \in [Names -> Secret \union {None}]
  /\ cache \in [Names -> Secret \union {None}]
  /\ pending \in Seq([name : Names, secret : Secret \union {None}])
  /\ object \in Object /\ seen \in Object
  /\ omits \in BOOLEAN /\ fresh \in BOOLEAN /\ seenFresh \in BOOLEAN
  /\ pc \in Stages /\ loc \in Work
  /\ edits \in 0..MaxEdits /\ faults \in 0..MaxFaults /\ outside \in 0..MaxOutside

\* Secrets of other owners may be there before the resource.
Init ==
  /\ store \in [Names -> {None, [owner |-> "nobody", role |-> "none", data |-> NoData],
                                [owner |-> "other", role |-> "application", data |-> NoData]}]
  /\ \A n \in Names \ Taken : store[n] = None
  /\ cache = store
  /\ pending = <<>>
  /\ \E spec \in AppSpecs : object = [spec |-> spec, secretName |-> None]
  /\ seen = object /\ seenFresh = TRUE
  /\ omits \in BOOLEAN
  /\ pc = "idle" /\ loc = NoWork
  /\ fresh = FALSE
  /\ edits = 0 /\ faults = 0 /\ outside = 0

-----------------------------------------------------------------------------
(* How a stage ends. *)

Continue(stage, work) == pc' = stage /\ loc' = work /\ UNCHANGED fresh

Bounded == edits + outside + faults < MaxChanges

Return == pc' = "idle" /\ loc' = NoWork /\ fresh' = FALSE

Fault ==
  /\ faults < MaxFaults /\ Bounded
  /\ faults' = faults + 1

-----------------------------------------------------------------------------
(* What a copy of the object asks for. *)

ApplicationName(spec) == IF Templated(spec) THEN spec.name ELSE None
EnvoySecretName(spec) == IF spec.routes THEN EnvoyName ELSE None
DesiredNames(spec) == {ApplicationName(spec), EnvoySecretName(spec)} \ {None}

Owned(secret) == secret # None /\ secret.owner = "app"

\* SetControllerReference refuses a Secret that another one controls.
Controllable(secret) == ~(secret # None /\ secret.owner = "other")

\* getSecret: nothing when there is no name.
Cached(name) == IF name = None THEN None ELSE cache[name]

\* Mutant: nothing is carried over from a Secret of another name.
DesiredApplication(obj) ==
  LET desired == Cached(ApplicationName(obj.spec)) IN IF Owned(desired) THEN desired ELSE None

\* The Secret whose data may be reused: the one the status names if that is
\* another or the desired one is missing, else the desired one; if owned.
PreviousApplication(obj) ==
  LET desired == ApplicationName(obj.spec)
      tracked ==
        /\ obj.secretName # None
        /\ Cached(desired) = None \/ obj.secretName # desired
      previous == Cached(IF tracked THEN obj.secretName ELSE desired)
  IN IF Owned(previous) THEN previous ELSE None

\* Mutant: the Secret the status names comes first.
TrackedData(obj) ==
  LET previous == PreviousApplication(obj) IN
  IF previous # None THEN previous.data ELSE NoData

PreviousData(obj) ==
  LET desired == Cached(ApplicationName(obj.spec))
      previous == PreviousApplication(obj)
  IN CASE Owned(desired) -> desired.data
       [] ~Owned(desired) /\ previous # None -> previous.data
       [] OTHER -> NoData

\* An entry that cannot be rendered is "absent".
ApplicationData(obj) ==
  [k \in Keys |->
     CASE obj.spec.template[k] = "secret" /\ omits -> PreviousData(obj)[k]
       [] obj.spec.template[k] = "secret" /\ ~omits -> "rendered"
       [] OTHER -> obj.spec.template[k]]

EnvoyData ==
  LET kept == IF Owned(cache[EnvoyName]) THEN cache[EnvoyName].data[ClientKey] ELSE "absent"
  IN [NoData EXCEPT ![ClientKey] = IF omits THEN kept ELSE "raw"]

\* Every entry can be rendered and no desired Secret is another's.
Valid(obj) ==
  /\ \A k \in Keys : obj.spec.template[k] # "absent" => ApplicationData(obj)[k] # "absent"
  /\ obj.spec.routes => EnvoyData[ClientKey] # "absent"
  /\ \A name \in DesiredNames(obj.spec) : Controllable(cache[name])

-----------------------------------------------------------------------------
(* reconcileSecrets. *)

\* All that is read, rendered and validated before the first write.  If it is
\* not valid the reconcile ends and nothing has changed.
Prepare ==
  /\ pc = "idle"
  /\ Valid(seen)
  /\ pc' = CASE Templated(seen.spec) -> "writeApplication"
             [] ~Templated(seen.spec) /\ seen.spec.routes -> "writeEnvoy"
             [] OTHER -> "listStale"
  /\ loc' = [NoWork EXCEPT !.object = seen, !.application = ApplicationData(seen),
                           !.envoy = EnvoyData]
  /\ fresh' = seenFresh
  /\ UNCHANGED <<secretVars, objectVars, omits, edits, faults, outside>>

\* The API server's side of a change to one Secret: the cache lags behind.
StoreSecret(name, secret) ==
  /\ store' = [store EXCEPT ![name] = secret]
  /\ pending' = Append(pending, [name |-> name, secret |-> secret])
  /\ UNCHANGED cache

\* The cached copy carries the current resourceVersion.
Current(name) == \A i \in DOMAIN pending : pending[i].name # name

\* A create is refused if the name is taken, an update or a deletion if the
\* copy it is based on is old.
Accepted(name) == IF cache[name] = None THEN store[name] = None ELSE Current(name)

\* CreateOrUpdate: an update that would change nothing is not sent.
UpToDate(name, written) == cache[name] = written

WriteSecret(name, role, data, next) ==
  LET written == [owner |-> "app", role |-> role, data |-> data]
      done == Continue(next, [loc EXCEPT !.sound = @ /\ Current(name)])
  IN
  /\ \/ UpToDate(name, written) /\ UNCHANGED <<secretVars, faults>> /\ done
     \/ /\ ~UpToDate(name, written) /\ Controllable(cache[name]) /\ Accepted(name)
        /\ StoreSecret(name, written)
        /\ (done /\ UNCHANGED faults) \/ (Return /\ Fault)
     \/ /\ ~UpToDate(name, written) /\ ~(Controllable(cache[name]) /\ Accepted(name))
        /\ UNCHANGED <<secretVars, faults>> /\ Return
  /\ UNCHANGED <<objectVars, omits, edits, outside>>

WriteApplication ==
  /\ pc = "writeApplication"
  /\ WriteSecret(loc.object.spec.name, "application", loc.application,
                 IF loc.object.spec.routes THEN "writeEnvoy" ELSE "listStale")

WriteEnvoy ==
  /\ pc = "writeEnvoy"
  /\ WriteSecret(EnvoyName, "envoy", loc.envoy, "listStale")

AfterDeletion(named, found) ==
  Continue(IF named \union found = {} THEN "record" ELSE "deleteStale",
           [loc EXCEPT !.named = named, !.found = found])

\* Mutant: a Secret that is still asked for is stale when it has another name.
KeptUnnamed(spec) == {None}

Kept(spec) == DesiredNames(spec) \union {None}

\* Candidates by name, whatever their label, and owned ones by their label.
ListStale ==
  LET named == {loc.object.secretName, EnvoyName}
      labelled == {n \in Names : Owned(cache[n]) /\ cache[n].role = "application"}
      kept == Kept(loc.object.spec)
  IN
  /\ pc = "listStale"
  /\ AfterDeletion(named \ kept, labelled \ (named \union kept))
  /\ UNCHANGED <<secretVars, objectVars, omits, edits, faults, outside>>

\* Mutant: ownership is not looked at again.
DeletableOnce(n) == cache[n] # None

\* Read again: still owned and, if found by its label, still labelled.
Deletable(n) == Owned(cache[n]) /\ (n \in loc.found => cache[n].role = "application")

DeleteStale(n) ==
  LET rest == AfterDeletion(loc.named \ {n}, loc.found \ {n}) IN
  /\ pc = "deleteStale"
  /\ n \in loc.named \union loc.found
  /\ \/ ~Deletable(n) /\ rest /\ UNCHANGED <<secretVars, faults>>
     \/ Deletable(n) /\ store[n] = None /\ rest /\ UNCHANGED <<secretVars, faults>>
     \/ /\ Deletable(n) /\ store[n] # None /\ Accepted(n)
        /\ StoreSecret(n, None)
        /\ (rest /\ UNCHANGED faults) \/ (Return /\ Fault)
     \/ /\ Deletable(n) /\ store[n] # None /\ ~Accepted(n)
        /\ Return /\ UNCHANGED <<secretVars, faults>>
  /\ UNCHANGED <<objectVars, omits, edits, outside>>

\* The status write at the end of Reconcile; it conflicts if the copy is old.
Record ==
  LET recorded == [object EXCEPT !.secretName = ApplicationName(loc.object.spec)] IN
  /\ pc = "record"
  /\ \/ /\ fresh
        /\ object' = recorded
        /\ seenFresh' = (seenFresh /\ recorded = object)
     \/ ~fresh /\ UNCHANGED <<object, seenFresh>>
  /\ Return
  /\ UNCHANGED <<secretVars, seen, omits, edits, faults, outside>>

\* Mutant: a failed write of the application Secret is only logged.
FailsUnnoticed ==
  /\ pc = "writeApplication"
  /\ Fault
  /\ Continue("listStale", loc)
  /\ UNCHANGED <<secretVars, objectVars, omits, edits, outside>>

\* A call fails without effect.
Fails ==
  /\ pc # "idle"
  /\ Fault
  /\ Return
  /\ UNCHANGED <<secretVars, objectVars, omits, edits, outside>>

\* The process dies; the next one lists everything afresh.
Crash ==
  /\ pc # "idle"
  /\ Fault
  /\ Return
  /\ cache' = store /\ pending' = <<>>
  /\ seen' = object /\ seenFresh' = TRUE
  /\ UNCHANGED <<store, object, omits, edits, outside>>

-----------------------------------------------------------------------------
(* Everything else that moves. *)

EditSpec ==
  /\ edits < MaxEdits /\ Bounded
  /\ edits' = edits + 1
  /\ \E s \in AppSpecs \ {object.spec} : object' = [object EXCEPT !.spec = s]
  /\ fresh' = FALSE /\ seenFresh' = FALSE
  /\ UNCHANGED <<secretVars, seen, omits, pc, loc, faults, outside>>

\* Authentik begins or stops to answer with the client secret.
AuthentikChanges ==
  /\ edits < MaxEdits /\ Bounded
  /\ edits' = edits + 1
  /\ omits' = ~omits
  /\ UNCHANGED <<secretVars, objectVars, workerVars, faults, outside>>

\* The watches bring the caches up to date.
WatchObject ==
  /\ ~seenFresh
  /\ seen' = object
  /\ seenFresh' = TRUE
  /\ UNCHANGED <<secretVars, object, omits, workerVars, edits, faults, outside>>

WatchSecrets ==
  /\ pending # <<>>
  /\ cache' = [cache EXCEPT ![Head(pending).name] = Head(pending).secret]
  /\ pending' = Tail(pending)
  /\ UNCHANGED <<store, objectVars, omits, workerVars, edits, faults, outside>>

\* Others delete a Secret, put one of theirs in its place, or change its label.
Others(n) ==
  /\ outside < MaxOutside /\ Bounded
  /\ outside' = outside + 1
  /\ \/ store[n] # None /\ StoreSecret(n, None)
     \/ /\ store[n] # None => store[n].owner = "app"
        /\ \E owner \in {"other", "nobody"} :
             StoreSecret(n, [owner |-> owner, role |-> "application", data |-> NoData])
     \/ store[n] # None /\ store[n].role # "none" /\ StoreSecret(n, [store[n] EXCEPT !.role = "none"])
  /\ UNCHANGED <<objectVars, omits, workerVars, edits, faults>>

Reconcile == Prepare \/ WriteApplication \/ WriteEnvoy \/ ListStale
             \/ (\E n \in Names : DeleteStale(n)) \/ Record

Next ==
  \/ Reconcile \/ Fails \/ Crash
  \/ WatchObject \/ WatchSecrets
  \/ EditSpec \/ AuthentikChanges \/ \E n \in Names : Others(n)

Spec == Init /\ [][Next]_vars

\* The work queue retries and the watches deliver; nobody else owes anything.
FairSpec == Spec /\ WF_vars(Reconcile) /\ WF_vars(WatchObject) /\ WF_vars(WatchSecrets)
=============================================================================
