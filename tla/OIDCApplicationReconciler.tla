---------------------- MODULE OIDCApplicationReconciler ----------------------
(***************************************************************************)
(* The OIDCApplication controller at work on one object: Reconcile, its     *)
(* groups, bindings, Secrets and SecurityPolicies, and cleanup.  A          *)
(* controller runs one worker, so one reconcile of the object is in flight  *)
(* at a time; users, admins and the watch move between any two of its       *)
(* calls, each call may fail with or without its effect, and the process    *)
(* may die anywhere and start again.                                        *)
(*                                                                          *)
(* A stage (pc) is one call to Authentik or to the API server.  snap is the *)
(* copy of the object the reconcile works on, read from the cache at Start; *)
(* loc holds the local variables of the code.                               *)
(*                                                                          *)
(* Abstracted: signing key, scope mappings, flow and hostname lookups are   *)
(* one call that may fail; the order in which the code walks spec.groups,   *)
(* targetRefs and Authentik's lists is left open; Secrets are present or    *)
(* absent; metrics, events and messages are left out.                       *)
(***************************************************************************)
EXTENDS Authentik, Cluster

CONSTANTS
  Adopted,     \* may the slug's application exist before the resource?
  MaxFaults,   \* bound: calls that fail, and crashes
  MaxOutside   \* bound: interferences of admins and users

ASSUME BoundsAssumption ==
  /\ Adopted \subseteq BOOLEAN /\ Adopted # {}
  /\ MaxFaults \in Nat
  /\ MaxOutside \in Nat

ASSUME NoneAssumption == None \notin Groups \union Application \union Object

VARIABLES
  pc,           \* the stage of the running reconcile, or "idle"
  snap,         \* the copy of the object it works on
  loc,          \* its local variables
  everCreated,  \* history: groups whose creation the operator was granted
  faults,
  outside

workerVars == <<pc, snap, loc, fresh>>
vars == <<authentikVars, clusterVars, pc, snap, loc, everCreated, faults, outside>>

\* Stages whose errors end in failRequeue, and in a plain error.
RequeueStages == {"resolveProvider", "resolveGroups", "createGroup", "resolveReferences",
                  "writeSecrets", "deleteStaleSecrets"}
ErrorStages == {"getApplication", "getProvider", "findProvider", "updateProvider",
                "createProvider", "ensureApplication", "listBindings", "fetchDiscovery",
                "syncPolicies", "readCredentials", "unbind", "deleteApplication",
                "deleteProvider", "cleanGroups"}
\* Stages whose call errors are only logged, and those that write the object.
LoggedStages == {"deleteBindings", "createBindings", "deletePolicies"}
WriteStages == {"addFinalizer", "updateStatus", "failRequeue", "removeFinalizer"}

Cleanup == {"readCredentials", "unbind", "deleteApplication", "deleteProvider",
            "cleanGroups", "removeFinalizer"}
Stages == RequeueStages \union ErrorStages \union LoggedStages \union WriteStages

\* todo, refs: what a loop has left; uuids: groupUUIDs; created: createdGroups;
\* current: the application as read; provider: oauthProvider.PK; stale: the
\* bindings listed for deletion; allBound: every binding was created.
Work == [todo : SUBSET Groups, group : Groups \union {None}, uuids : [Groups -> Nat],
         created : SUBSET Groups, current : Application \union {None}, provider : Nat,
         stale : [Groups -> Nat], allBound : BOOLEAN, refs : SUBSET Routes]

NoWork == [todo |-> {}, group |-> None, uuids |-> [g \in Groups |-> 0],
           created |-> {}, current |-> None, provider |-> 0,
           stale |-> [g \in Groups |-> 0], allBound |-> TRUE, refs |-> {}]

TypeOK ==
  /\ AuthentikTypeOK
  /\ ClusterTypeOK
  /\ pc \in Stages \union {"idle"}
  /\ snap \in Object \union {None}
  /\ loc \in Work
  /\ everCreated \subseteq Groups
  /\ faults \in 0..MaxFaults
  /\ outside \in 0..MaxOutside

AuthentikInit ==
  /\ groups \in [Groups -> {[owner |-> "absent", uuid |-> 0], [owner |-> "admin", uuid |-> 0]}]
  /\ bindings = [g \in Groups |-> 0]
  /\ \E adopted \in Adopted, cfg \in Cfgs :
       IF adopted
       THEN /\ providers = {[pk |-> 1, cfg |-> cfg]}
            /\ application = [provider |-> 1, cfg |-> cfg]
            /\ lastPK = 1
       ELSE /\ providers = {}
            /\ application = None
            /\ lastPK = 0

Init ==
  /\ AuthentikInit
  /\ ClusterInit
  /\ pc = "idle"
  /\ snap = None
  /\ loc = NoWork
  /\ everCreated = {}
  /\ faults = 0
  /\ outside = 0

-----------------------------------------------------------------------------
(* How a stage ends. *)

Continue(stage, work) ==
  /\ pc' = stage
  /\ loc' = work
  /\ UNCHANGED <<snap, fresh>>

Return ==
  /\ pc' = "idle"
  /\ snap' = None
  /\ fresh' = FALSE
  /\ loc' = NoWork

\* An error is either reported in the status first or handed to the queue.
Abort ==
  IF pc \in RequeueStages THEN Continue("failRequeue", loc) ELSE Return

Fault == faults < MaxFaults /\ faults' = faults + 1

\* A call took effect; its answer arrives, or it is lost and seen as an error.
Answered(stage, work) ==
  \/ Continue(stage, work) /\ UNCHANGED faults
  \/ Fault /\ Abort

\* Mutant: the resourceVersion is not checked, the last writer wins.
UpdateUnconditionally(obj) ==
  /\ \/ Store(obj) /\ UNCHANGED faults
     \/ Fault /\ UNCHANGED <<app, cachedFresh>>
  /\ Return
  /\ UNCHANGED <<authentikVars, cached, ownedVars, edits, everCreated, outside>>

\* An update of the object: conflicts when the copy is old, or fails.
Update(obj) ==
  /\ \/ fresh /\ Store(obj) /\ UNCHANGED faults
     \/ ~fresh /\ UNCHANGED <<app, cachedFresh, faults>>
     \/ fresh /\ Fault /\ UNCHANGED <<app, cachedFresh>>
  /\ Return
  /\ UNCHANGED <<authentikVars, cached, ownedVars, edits, everCreated, outside>>

\* A call that only reads, or whose outcome needs no request.
Reads ==
  UNCHANGED <<authentikVars, app, cached, cachedFresh, ownedVars, edits,
              everCreated, faults, outside>>

\* A request to Authentik: it leaves the cluster as it is.
Requests ==
  UNCHANGED <<app, cached, cachedFresh, ownedVars, edits, outside>>

\* Any call may fail before it has any effect.
CallFails ==
  /\ pc \in RequeueStages \union ErrorStages
  /\ Fault
  /\ Abort
  /\ UNCHANGED <<authentikVars, app, cached, cachedFresh, ownedVars, edits,
                 everCreated, outside>>

-----------------------------------------------------------------------------
(* Reconcile, from the read of the object to the finalizer. *)

\* Mutant: the finalizer is taken for granted.
FirstStageUnguarded(obj) ==
  CASE obj.deleting /\ obj.status.tracked -> "readCredentials"
    [] obj.deleting /\ ~obj.status.tracked -> "removeFinalizer"
    [] OTHER -> "resolveProvider"

\* Where Reconcile goes with the copy it read.
FirstStage(obj) ==
  CASE obj.deleting /\ obj.status.tracked -> "readCredentials"
    [] obj.deleting /\ ~obj.status.tracked -> "removeFinalizer"
    [] ~obj.deleting /\ ~obj.finalizer -> "addFinalizer"
    [] OTHER -> "resolveProvider"

\* An object on its way out without the finalizer is left alone.
Start ==
  /\ pc = "idle"
  /\ cached.exists
  /\ cached.deleting => cached.finalizer
  /\ snap' = cached
  /\ fresh' = cachedFresh
  /\ pc' = FirstStage(cached)
  /\ UNCHANGED <<authentikVars, app, cached, cachedFresh, ownedVars, edits, loc,
                 everCreated, faults, outside>>

AddFinalizer ==
  /\ pc = "addFinalizer"
  /\ Update([snap EXCEPT !.finalizer = TRUE])

\* The AuthentikProvider is read, connected, and its token Secret is there.
ResolveProvider ==
  /\ pc = "resolveProvider"
  /\ Continue("resolveGroups", [loc EXCEPT !.todo = snap.spec.groups])
  /\ Reads

-----------------------------------------------------------------------------
(* resolveGroups. *)

AfterGroup(g) == IF loc.todo = {g} THEN "resolveReferences" ELSE "resolveGroups"

Resolved(g, uuid) ==
  [loc EXCEPT !.todo = @ \ {g}, !.group = None, !.uuids = [@ EXCEPT ![g] = uuid]]

\* createdGroups gains the group.
ResolvedNew(g, uuid) ==
  [Resolved(g, uuid) EXCEPT !.created = @ \union {g}]

\* A group that is there is used as it is; one that is not is created if the
\* spec says so, else the reconcile fails.
ResolveGroup(g) ==
  /\ pc = "resolveGroups"
  /\ g \in loc.todo
  /\ \/ /\ Present(g)
        /\ Continue(AfterGroup(g), Resolved(g, groups[g].uuid))
     \/ /\ ~Present(g) /\ g \in snap.spec.create
        /\ Continue("createGroup", [loc EXCEPT !.group = g])
     \/ /\ ~Present(g) /\ g \notin snap.spec.create
        /\ Abort
  /\ Reads

\* The name must still be free when the request arrives.
CreateGroup ==
  LET g == loc.group IN
  /\ pc = "createGroup"
  /\ \/ /\ ~Present(g)
        /\ PutGroup(g, "operator")
        /\ everCreated' = everCreated \union {g}
        /\ Answered(AfterGroup(g), ResolvedNew(g, groups[g].uuid + 1))
     \/ /\ Present(g)
        /\ Abort
        /\ UNCHANGED <<authentikVars, everCreated, faults>>
  /\ Requests

\* Signing key, scope mappings, HTTPRoutes and redirect URIs.
ResolveReferences ==
  /\ pc = "resolveReferences"
  /\ Continue("getApplication", loc)
  /\ Reads

-----------------------------------------------------------------------------
(* The application and its provider. *)

\* Mutant: no application is taken to mean no provider.
GetApplicationOnly ==
  /\ pc = "getApplication"
  /\ Continue(IF application = None THEN "createProvider" ELSE "getProvider",
              [loc EXCEPT !.current = application])
  /\ Reads

GetApplication ==
  /\ pc = "getApplication"
  /\ Continue(IF application = None THEN "findProvider" ELSE "getProvider",
              [loc EXCEPT !.current = application])
  /\ Reads

\* Go on with a provider that was found, updating it if it differs.
UseProvider(p) ==
  Continue(IF p.cfg = snap.spec.cfg THEN "ensureApplication" ELSE "updateProvider",
           [loc EXCEPT !.provider = p.pk])

GetProvider ==
  /\ pc = "getProvider"
  /\ \/ \E p \in providers : p.pk = loc.current.provider /\ UseProvider(p)
     \/ loc.current.provider \notin PKs /\ Continue("findProvider", loc)
  /\ Reads

\* Mutant: only a provider that is right already is recovered by name.
FindSameProvider ==
  /\ pc = "findProvider"
  /\ \/ \E p \in providers : p.cfg = snap.spec.cfg /\ UseProvider(p)
     \/ (\A p \in providers : p.cfg # snap.spec.cfg) /\ Continue("createProvider", loc)
  /\ Reads

FindProvider ==
  /\ pc = "findProvider"
  /\ \/ \E p \in providers : UseProvider(p)
     \/ providers = {} /\ Continue("createProvider", loc)
  /\ Reads

UpdateProvider ==
  /\ pc = "updateProvider"
  /\ \/ /\ loc.provider \in PKs
        /\ SetProvider(loc.provider, snap.spec.cfg)
        /\ Answered("ensureApplication", loc)
     \/ /\ loc.provider \notin PKs
        /\ Abort
        /\ UNCHANGED <<authentikVars, faults>>
  /\ Requests
  /\ UNCHANGED everCreated

CreateProvider ==
  /\ pc = "createProvider"
  /\ PutProvider(snap.spec.cfg)
  /\ Answered("ensureApplication", [loc EXCEPT !.provider = lastPK + 1])
  /\ Requests
  /\ UNCHANGED everCreated

ApplicationNeedsUpdate(current) ==
  current.provider # loc.provider \/ current.cfg # snap.spec.cfg

\* Created if it was not there, updated if it differs; Authentik refuses a
\* link to a provider that is gone and an update of an application that is.
EnsureApplication ==
  LET done == [loc EXCEPT !.current = None]
      accepted == loc.provider \in PKs /\ (loc.current = None <=> application = None)
      asIs == loc.current # None /\ ~ApplicationNeedsUpdate(loc.current)
  IN
  /\ pc = "ensureApplication"
  /\ \/ /\ asIs
        /\ Continue("listBindings", done)
        /\ UNCHANGED <<authentikVars, faults>>
     \/ /\ ~asIs /\ accepted
        /\ SetApplication(loc.provider, snap.spec.cfg)
        /\ Answered("listBindings", done)
     \/ /\ ~asIs /\ ~accepted
        /\ Abort
        /\ UNCHANGED <<authentikVars, faults>>
  /\ Requests
  /\ UNCHANGED everCreated

-----------------------------------------------------------------------------
(* Policy bindings: kept if they are exactly the desired ones, else all are *)
(* deleted and created anew. *)

AfterBindings == IF snap.spec.template THEN "fetchDiscovery" ELSE "writeSecrets"

\* Mutant: only the number of bindings is compared.
AsManyBindings ==
  Cardinality({g \in Groups : bindings[g] > 0}) = Cardinality(snap.spec.groups)

\* Mutant: the bindings are compared with the groups created this time.
BindingsMatchCreated == bindings = [g \in Groups |-> IF g \in loc.created THEN 1 ELSE 0]

BindingsMatch == bindings = [g \in Groups |-> IF g \in snap.spec.groups THEN 1 ELSE 0]

NoneBound == [g \in Groups |-> 0]

ListBindings ==
  /\ pc = "listBindings"
  /\ \/ BindingsMatch /\ Continue(AfterBindings, loc)
     \/ /\ ~BindingsMatch
        /\ Continue(IF bindings = NoneBound THEN "createBindings" ELSE "deleteBindings",
                    [loc EXCEPT !.stale = bindings, !.todo = snap.spec.groups])
  /\ Reads

\* Mutant: one too many.
ListedOrNot(g) == loc.stale[g] >= 0

\* A listed binding of the group has not been dealt with yet.
Listed(g) == loc.stale[g] > 0

\* A deletion that fails is only logged.
DeleteBinding(g) ==
  LET left == [loc.stale EXCEPT ![g] = @ - 1] IN
  /\ pc = "deleteBindings"
  /\ Listed(g)
  /\ \/ DropBinding(g) /\ UNCHANGED faults
     \/ Fault /\ UNCHANGED authentikVars
  /\ Continue(IF left = NoneBound THEN "createBindings" ELSE "deleteBindings",
              [loc EXCEPT !.stale = left])
  /\ Requests
  /\ UNCHANGED everCreated

\* Mutant: failures are logged and forgotten.
AllBoundAlways(ok) == TRUE

AllBound(ok) == loc.allBound /\ ok

\* A binding that cannot be created, or whose answer is lost, fails the
\* reconcile once the others have been tried.
CreateBinding(g) ==
  LET bound(ok) ==
        LET all == AllBound(ok)
            rest == loc.todo \ {g}
        IN Continue(CASE rest # {} -> "createBindings"
                      [] rest = {} /\ all -> AfterBindings
                      [] OTHER -> "failRequeue",
                    [loc EXCEPT !.todo = rest, !.allBound = all])
      accepted == AcceptsBinding(g, loc.uuids[g])
  IN
  /\ pc = "createBindings"
  /\ g \in loc.todo
  /\ \/ accepted /\ PutBinding(g) /\ bound(TRUE) /\ UNCHANGED faults
     \/ accepted /\ PutBinding(g) /\ bound(FALSE) /\ Fault
     \/ accepted /\ UNCHANGED authentikVars /\ bound(FALSE) /\ Fault
     \/ ~accepted /\ UNCHANGED <<authentikVars, faults>> /\ bound(FALSE)
  /\ Requests
  /\ UNCHANGED everCreated

-----------------------------------------------------------------------------
(* Discovery, Secrets and SecurityPolicies. *)

\* The discovery document is served for a slug whose application is linked.
FetchDiscovery ==
  /\ pc = "fetchDiscovery"
  /\ \/ Linked /\ Continue("writeSecrets", loc)
     \/ ~Linked /\ Abort
  /\ Reads

Desired == DesiredSecrets(snap.spec)

\* The application Secret is written before the Envoy Secret.
WriteSecrets ==
  /\ pc = "writeSecrets"
  /\ \/ /\ secrets' = secrets \union Desired
        /\ Continue("deleteStaleSecrets", loc)
        /\ UNCHANGED faults
     \/ /\ \E written \in {Desired, Desired \ {"envoy"}} : secrets' = secrets \union written
        /\ Fault /\ Abort
  /\ UNCHANGED <<authentikVars, app, cached, cachedFresh, policies, edits, everCreated, outside>>

\* SecurityPolicies the status names and the spec no longer targets.
Orphans == snap.status.policies \ snap.spec.routes

SyncRest(rest) ==
  Continue(IF rest = {} THEN "updateStatus" ELSE "syncPolicies", [loc EXCEPT !.refs = rest])

\* Stale ones are deleted in any order.
DeleteStaleSecrets ==
  /\ pc = "deleteStaleSecrets"
  /\ \/ /\ secrets' = secrets \intersect Desired
        /\ IF Orphans = {} THEN SyncRest(snap.spec.routes)
           ELSE Continue("deletePolicies", [loc EXCEPT !.refs = Orphans])
        /\ UNCHANGED faults
     \/ /\ \E deleted \in SUBSET (secrets \ Desired) : secrets' = secrets \ deleted
        /\ Fault /\ Abort
  /\ UNCHANGED <<authentikVars, app, cached, cachedFresh, policies, edits, everCreated, outside>>

\* A deletion that fails is only logged.
DeleteOrphanPolicy(r) ==
  /\ pc = "deletePolicies"
  /\ r \in loc.refs
  /\ \/ policies' = policies \ {r} /\ UNCHANGED faults
     \/ Fault /\ UNCHANGED policies
  /\ IF loc.refs = {r} THEN SyncRest(snap.spec.routes)
     ELSE Continue("deletePolicies", [loc EXCEPT !.refs = @ \ {r}])
  /\ UNCHANGED <<authentikVars, app, cached, cachedFresh, secrets, edits, everCreated, outside>>

SyncPolicy(r) ==
  /\ pc = "syncPolicies"
  /\ r \in loc.refs
  /\ policies' = policies \union {r}
  /\ \/ SyncRest(loc.refs \ {r}) /\ UNCHANGED faults
     \/ Fault /\ Abort
  /\ UNCHANGED <<authentikVars, app, cached, cachedFresh, secrets, edits, everCreated, outside>>

-----------------------------------------------------------------------------
(* The status. *)

\* Groups created in earlier reconciles stay candidates for cleanup.
MergeCreated(previous, justCreated) == previous \union justCreated

ReadyStatus == [ready |-> TRUE, tracked |-> TRUE, provider |-> loc.provider,
                bound |-> snap.spec.groups,
                created |-> MergeCreated(snap.status.created, loc.created),
                policies |-> snap.spec.routes]

UpdateStatus ==
  /\ pc = "updateStatus"
  /\ Update([snap EXCEPT !.status = ReadyStatus])

\* Mutant: a status of its own says no more than that it failed.
FailRequeueAfresh ==
  /\ pc = "failRequeue"
  /\ Update([snap EXCEPT !.status = EmptyStatus])

\* Only the condition changes: what the status tracked is kept as it was read.
FailRequeue ==
  /\ pc = "failRequeue"
  /\ Update([snap EXCEPT !.status.ready = FALSE])

-----------------------------------------------------------------------------
(* cleanup: skipped when the status tracks nothing (FirstStage). *)

\* The AuthentikProvider and its token Secret are there.
ReadCredentials ==
  /\ pc = "readCredentials"
  /\ Continue("unbind", [loc EXCEPT !.todo = snap.status.bound])
  /\ Reads

\* A recorded binding is deleted, or was replaced or gone already (404).
Unbind(g) ==
  /\ pc = "unbind"
  /\ g \in loc.todo
  /\ DropBinding(g) \/ UNCHANGED authentikVars
  /\ Answered(IF loc.todo = {g} THEN "deleteApplication" ELSE "unbind",
              [loc EXCEPT !.todo = @ \ {g}])
  /\ Requests
  /\ UNCHANGED everCreated

\* Mutant: an error is logged and the cleanup goes on.
DeleteApplicationLogged ==
  /\ pc = "deleteApplication"
  /\ \/ DropApplication /\ Answered("deleteProvider", loc)
     \/ UNCHANGED authentikVars /\ Continue("deleteProvider", loc) /\ Fault
  /\ Requests
  /\ UNCHANGED everCreated

DeleteApplication ==
  /\ pc = "deleteApplication"
  /\ DropApplication
  /\ Answered("deleteProvider", loc)
  /\ Requests
  /\ UNCHANGED everCreated

\* Mutant: whether the operator created them is not asked.
CleanupAsked == snap.spec.cleanup

\* Groups the operator created and the spec wants cleaned up.
CleanupGroups == snap.status.created \intersect snap.spec.cleanup

CleanRest(rest) ==
  Answered(IF rest = {} THEN "removeFinalizer" ELSE "cleanGroups", [loc EXCEPT !.todo = rest])

\* Mutant: a provider that is gone is an error.
DeleteExistingProvider ==
  /\ pc = "deleteProvider"
  /\ \/ /\ snap.status.provider \in PKs
        /\ DropProvider(snap.status.provider)
        /\ CleanRest(CleanupGroups)
     \/ /\ snap.status.provider \notin PKs
        /\ Abort
        /\ UNCHANGED <<authentikVars, faults>>
  /\ Requests
  /\ UNCHANGED everCreated

DeleteProvider ==
  /\ pc = "deleteProvider"
  /\ DropProvider(snap.status.provider)
  /\ CleanRest(CleanupGroups)
  /\ Requests
  /\ UNCHANGED everCreated

\* Found by name and deleted by uuid, or gone already.
CleanGroup(g) ==
  /\ pc = "cleanGroups"
  /\ g \in loc.todo
  /\ IF Present(g) THEN DropGroup(g) ELSE UNCHANGED authentikVars
  /\ CleanRest(loc.todo \ {g})
  /\ Requests
  /\ UNCHANGED everCreated

RemoveFinalizer ==
  /\ pc = "removeFinalizer"
  /\ Update([snap EXCEPT !.finalizer = FALSE])

-----------------------------------------------------------------------------
(* Everything else that moves. *)

\* The process dies; the next one lists the object afresh.
Crash ==
  /\ pc # "idle"
  /\ Fault
  /\ Return
  /\ cached' = app
  /\ cachedFresh' = TRUE
  /\ UNCHANGED <<authentikVars, app, ownedVars, edits, everCreated, outside>>

\* Admins delete and create objects in Authentik, users delete owned objects.
AdminActs ==
  /\ \/ \E p \in providers : DropProvider(p.pk)
     \/ application # None /\ DropApplication
     \/ \E g \in Groups : Present(g) /\ DropGroup(g)
     \/ \E g \in Groups : ~Present(g) /\ PutGroup(g, "admin")
     \/ \E g \in Groups : bindings[g] > 0 /\ DropBinding(g)
  /\ UNCHANGED ownedVars

UserActs ==
  /\ \/ \E r \in policies : policies' = policies \ {r} /\ UNCHANGED secrets
     \/ \E s \in secrets : secrets' = secrets \ {s} /\ UNCHANGED policies
  /\ UNCHANGED authentikVars

Interference ==
  /\ outside < MaxOutside
  /\ outside' = outside + 1
  /\ AdminActs \/ UserActs
  /\ UNCHANGED <<objectVars, pc, snap, loc, everCreated, faults>>

ClusterActs ==
  /\ EditSpec \/ DeleteApp \/ WatchEvent \/ CollectGarbage
  /\ UNCHANGED <<authentikVars, pc, snap, loc, everCreated, faults, outside>>

-----------------------------------------------------------------------------
Provision ==
  \/ AddFinalizer \/ ResolveProvider \/ ResolveReferences
  \/ \E g \in Groups : ResolveGroup(g)
  \/ CreateGroup
  \/ GetApplication \/ GetProvider \/ FindProvider \/ UpdateProvider \/ CreateProvider
  \/ EnsureApplication
  \/ ListBindings
  \/ \E g \in Groups : DeleteBinding(g) \/ CreateBinding(g)
  \/ FetchDiscovery \/ WriteSecrets \/ DeleteStaleSecrets
  \/ \E r \in Routes : DeleteOrphanPolicy(r) \/ SyncPolicy(r)
  \/ UpdateStatus \/ FailRequeue

CleanUp ==
  \/ ReadCredentials
  \/ \E g \in Groups : Unbind(g) \/ CleanGroup(g)
  \/ DeleteApplication \/ DeleteProvider \/ RemoveFinalizer

\* The worker moves on.
Reconcile == Start \/ Provision \/ CleanUp \/ CallFails

Next == Reconcile \/ Crash \/ ClusterActs \/ Interference

Spec == Init /\ [][Next]_vars

\* A reconcile in flight runs to its end; every end is followed by another one
\* (watch events, back-off on errors, RequeueAfter 30s and 5m); the watch
\* delivers.  Users, admins and crashes owe nothing.
FairSpec ==
  /\ Spec
  /\ WF_vars(Reconcile)
  /\ WF_vars(WatchEvent /\ UNCHANGED <<authentikVars, pc, snap, loc, everCreated, faults, outside>>)
=============================================================================
