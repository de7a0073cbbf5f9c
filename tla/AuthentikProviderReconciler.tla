--------------------- MODULE AuthentikProviderReconciler ---------------------
(***************************************************************************)
(* The controller of the AuthentikProviders: it checks that the API token   *)
(* can be read and that both flows resolve, and publishes the outcome in    *)
(* the status that the OIDCApplication controller works from.               *)
(*                                                                          *)
(* Specs and token Secrets reach the controller as watch events, through an *)
(* informer cache that lags behind; of flows nothing tells it, only its     *)
(* timers make it look again.  Status writes carry the resourceVersion of   *)
(* the copy that was read.                                                  *)
(*                                                                          *)
(* Abstracted: the condition is its reason, Connected is true with the      *)
(* reason APIReachable; messages, times and the metric are left out.        *)
(***************************************************************************)
EXTENDS AuthentikProviders

CONSTANT MaxFaults   \* bound: failing calls and crashes

ASSUME MaxFaultsAssumption == MaxFaults \in Nat

VARIABLES
  cached,       \* the AuthentikProviders in the informer cache
  cachedFresh,  \* those whose cached copy has the current resourceVersion
  cachedToken,  \* what the informer cache knows of the token Secrets
  queue,        \* AuthentikProviders waiting to be reconciled
  timers,       \* AuthentikProviders that will be requeued
  stage, work,  \* the running reconcile
  fresh,        \* its copy has the current resourceVersion
  faults,
  unwatched     \* history: something has happened that no event tells of

cacheVars == <<cached, cachedFresh, cachedToken>>
workerVars == <<stage, work, fresh>>
vars == <<surroundings, cacheVars, queue, timers, workerVars, faults, unwatched>>

Reasons == {"none", "SecretNotFound", "TokenEmpty", "FlowResolutionFailed",
            "FlowNotFound", "APIReachable"}
Status == [reason : Reasons, auth : Uid \union {None}, inval : Uid \union {None}]
NewStatus == [reason |-> "none", auth |-> None, inval |-> None]
Provider == [exists : BOOLEAN, spec : ProviderSpec, status : Status]

\* The copy in hand, with the status to be written; the token that was read;
\* the authorization flow's uid, kept aside until both are known.
Job == [name : Providers, copy : Provider, token : Tokens, auth : Uid \union {None}]
Work == Job \union {None}

TypeOK ==
  /\ SurroundingsTypeOK
  /\ provider \in [Providers -> Provider] /\ cached \in [Providers -> Provider]
  /\ cachedFresh \subseteq Providers /\ cachedToken \in [Secrets -> Tokens]
  /\ queue \subseteq Providers /\ timers \subseteq Providers
  /\ stage \in {"idle", "authFlow", "invalFlow", "write"} /\ work \in Work
  /\ fresh \in BOOLEAN /\ unwatched \in BOOLEAN /\ faults \in 0..MaxFaults

\* The first lists of the informers enqueue every object.
Listed ==
  /\ cached' = provider /\ cachedFresh' = Providers /\ cachedToken' = token
  /\ queue' = {p \in Providers : provider[p].exists} /\ timers' = {}

Init ==
  /\ SurroundingsInit(NewStatus)
  /\ cached = provider /\ cachedFresh = Providers /\ cachedToken = token
  /\ queue = DOMAIN Initial /\ timers = {}
  /\ stage = "idle" /\ work = None /\ fresh = FALSE
  /\ faults = 0 /\ unwatched = FALSE

Fault == faults < MaxFaults /\ faults' = faults + 1

-----------------------------------------------------------------------------
(* The administrators, the watches and the timers. *)

\* An effective write makes every copy of the object old.
Written == {p \in Providers : provider'[p] # provider[p]}

ChangeSurroundings ==
  /\ Administrate(NewStatus)
  /\ cachedFresh' = cachedFresh \ Written
  /\ fresh' = (fresh /\ work.name \notin Written)
  /\ unwatched' = (unwatched \/ flow' # flow)
  /\ UNCHANGED <<cached, cachedToken, queue, timers, stage, work, faults>>

WatchProvider(p) ==
  /\ p \notin cachedFresh
  /\ cached' = [cached EXCEPT ![p] = provider[p]]
  /\ cachedFresh' = cachedFresh \union {p}
  /\ queue' = queue \union {p}
  /\ UNCHANGED <<surroundings, cachedToken, timers, workerVars, faults, unwatched>>

\* Mutant: the watch of Secrets is missing.
NoProviders(secret) == {}

\* Mutant: the requests carry the name of the Secret.
SecretNames(secret) == {secret}

\* mapSecretToProviders
SecretToProviders(secret) ==
  {p \in Providers : cached[p].exists /\ cached[p].spec.secret = secret}

WatchSecret(secret) ==
  /\ cachedToken[secret] # token[secret]
  /\ cachedToken' = [cachedToken EXCEPT ![secret] = token[secret]]
  /\ queue' = queue \union SecretToProviders(secret)
  /\ UNCHANGED <<surroundings, cached, cachedFresh, timers, workerVars, faults, unwatched>>

\* RequeueAfter: one minute after a failed check, ten after a good one.
Resync(p) ==
  /\ p \in timers
  /\ timers' = timers \ {p}
  /\ queue' = queue \union {p}
  /\ UNCHANGED <<surroundings, cacheVars, workerVars, faults, unwatched>>

-----------------------------------------------------------------------------
(* Reconcile: read, look up both flows, write the status. *)

Stop == stage' = "idle" /\ work' = None /\ fresh' = FALSE

\* Only with a token are the flows looked up.
Start(p) ==
  LET copy == cached[p]
      held == cachedToken[copy.spec.secret]
      Begin(next, reason) ==
        /\ stage' = next
        /\ work' = [name |-> p, copy |-> [copy EXCEPT !.status.reason = reason],
                    token |-> held, auth |-> None]
        /\ fresh' = (p \in cachedFresh)
  IN /\ stage = "idle" /\ p \in queue
     /\ queue' = queue \ {p}
     /\ CASE ~copy.exists -> Stop
          [] copy.exists /\ held = "absent" -> Begin("write", "SecretNotFound")
          [] copy.exists /\ held = "empty" -> Begin("write", "TokenEmpty")
          [] OTHER -> Begin("authFlow", copy.status.reason)
     /\ UNCHANGED <<surroundings, cacheVars, timers, faults, unwatched>>

GoOn(next, w) == stage' = next /\ work' = w

\* Mutant: a failed check forgets them.
FailAfresh(reason) ==
  GoOn("write", [work EXCEPT !.copy.status = [NewStatus EXCEPT !.reason = reason]])

\* A failed check keeps the uids there are.
Fail(reason) == GoOn("write", [work EXCEPT !.copy.status.reason = reason])

Resolved(slug) == FlowBySlug(work.copy.spec.host, slug)

LookUpFails(slug) ==
  \/ /\ work.token = "refused"
     /\ Fail("FlowResolutionFailed")
     /\ UNCHANGED <<faults, unwatched>>
  \/ Fault /\ unwatched' = TRUE /\ Fail("FlowResolutionFailed")
  \/ /\ work.token = "valid" /\ Resolved(slug) = None
     /\ Fail("FlowNotFound")
     /\ UNCHANGED <<faults, unwatched>>

LookUpSucceeds(slug) ==
  /\ work.token = "valid" /\ Resolved(slug) # None
  /\ UNCHANGED <<faults, unwatched>>

LookUpAuthorizationFlow ==
  LET slug == work.copy.spec.auth IN
  /\ stage = "authFlow"
  /\ \/ LookUpFails(slug)
     \/ /\ LookUpSucceeds(slug)
        /\ GoOn("invalFlow", [work EXCEPT !.auth = Resolved(slug)])
  /\ UNCHANGED <<surroundings, cacheVars, queue, timers, fresh>>

LookUpInvalidationFlow ==
  LET slug == work.copy.spec.inval
      status == [reason |-> "APIReachable", auth |-> work.auth, inval |-> Resolved(slug)]
  IN /\ stage = "invalFlow"
     /\ \/ LookUpFails(slug)
        \/ LookUpSucceeds(slug) /\ GoOn("write", [work EXCEPT !.copy.status = status])
     /\ UNCHANGED <<surroundings, cacheVars, queue, timers, fresh>>

Publish(status) ==
  /\ provider' = [provider EXCEPT ![work.name].status = status]
  /\ cachedFresh' = cachedFresh \ Written
  /\ timers' = timers \union {work.name}
  /\ UNCHANGED queue

\* Mutant: the status is patched whatever the object has become.
PatchStatus ==
  /\ stage = "write"
  /\ Publish(work.copy.status)
  /\ Stop
  /\ UNCHANGED <<token, flow, changes, cached, cachedToken, faults, unwatched>>

\* Refused when the copy is old; an error has the object reconciled again.
WriteStatus ==
  /\ stage = "write"
  /\ \/ fresh /\ Publish(work.copy.status) /\ UNCHANGED faults
     \/ /\ IF fresh THEN Fault ELSE UNCHANGED faults
        /\ queue' = queue \union {work.name}
        /\ UNCHANGED <<provider, cachedFresh, timers>>
  /\ Stop
  /\ UNCHANGED <<token, flow, changes, cached, cachedToken, unwatched>>

Reconcile ==
  \/ \E p \in Providers : Start(p)
  \/ LookUpAuthorizationFlow
  \/ LookUpInvalidationFlow
  \/ WriteStatus

Restart ==
  /\ Fault
  /\ Listed
  /\ Stop
  /\ UNCHANGED <<surroundings, unwatched>>

Next ==
  \/ ChangeSurroundings
  \/ \E p \in Providers : WatchProvider(p) \/ Resync(p)
  \/ \E s \in Secrets : WatchSecret(s)
  \/ Reconcile
  \/ Restart

Spec == Init /\ [][Next]_vars

-----------------------------------------------------------------------------
(* Fairness: the worker and the watches go on, the queue is first in, first  *)
(* out.  The timers count only after something that no event tells of.       *)

FairSpec ==
  /\ Spec
  /\ WF_vars(Reconcile)
  /\ \A p \in Providers :
       /\ SF_vars(Start(p))
       /\ WF_vars(WatchProvider(p))
       /\ WF_vars(unwatched /\ Resync(p))
  /\ \A s \in Secrets : WF_vars(WatchSecret(s))

-----------------------------------------------------------------------------
(* The promise. *)

Published(p) ==
  [exists |-> p.exists, spec |-> p.spec,
   status |-> [connected |-> p.status.reason = "APIReachable",
               auth |-> p.status.auth, inval |-> p.status.inval]]

Promise == INSTANCE ProviderStatus WITH provider <- [p \in Providers |-> Published(provider[p])]

\* Every status the controller publishes is one that ProviderStatus allows: a
\* status that says Connected has the uids of flows the spec in force names,
\* whatever was edited since the reconcile read it
\* (authentikprovider_controller.go:115-124).
KeepsPromise == Promise!StatusSpec

\* Once nobody changes anything any more, the status is that of a check which
\* sees everything as it is: of the token, the spec and both flows, and its
\* reason tells what is wrong.  After changes of specs and token Secrets alone
\* no timer is needed for that (authentikprovider_controller.go:141-144).
StatusSettles ==
  /\ Promise!StatusSettles
  /\ <>[](\A p \in Providers : provider[p].exists =>
            provider[p].status.reason = Verdict(provider[p].spec))

-----------------------------------------------------------------------------
(* The inductive invariant behind it, in parts. *)

\* A copy that carries the current version shows the object; the running
\* reconcile keeps spec and uids of its copy unless the check succeeds.
FreshCopies ==
  /\ \A p \in cachedFresh : cached[p] = provider[p]
  /\ stage # "idle" => work \in Job /\ work.copy.exists
  /\ stage # "idle" /\ fresh =>
       LET object == provider[work.name] IN
       /\ object.exists /\ object.spec = work.copy.spec
       /\ \/ stage = "write" /\ work.copy.status.reason = "APIReachable"
          \/ /\ work.copy.status.auth = object.status.auth
             /\ work.copy.status.inval = object.status.inval

\* The uids of all flows there are or were under a slug.
KnownUids(host, slug) ==
  {[host |-> host, slug |-> slug, made |-> n] : n \in 0..flow[host][slug].made}

\* What has been looked up belongs to the spec of the copy.
LookedUp ==
  LET spec == work.copy.spec
      status == work.copy.status
  IN /\ stage = "invalFlow" => work.auth \in KnownUids(spec.host, spec.auth)
     /\ stage = "write" /\ status.reason = "APIReachable" =>
          /\ status.auth \in KnownUids(spec.host, spec.auth)
          /\ status.inval \in KnownUids(spec.host, spec.inval)

\* Together they are inductive: a status that is about to be written is the
\* outcome of a check of its copy, and lands only on what was copied.
StatusInv == TypeOK /\ FreshCopies /\ LookedUp
=============================================================================
