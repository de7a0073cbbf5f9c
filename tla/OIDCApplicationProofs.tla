------------------------ MODULE OIDCApplicationProofs ------------------------
(***************************************************************************)
(* Theorems about the OIDCApplication controller, for every set of groups,  *)
(* routes, configurations and specs and for every bound: its invariants,    *)
(* and what it guarantees to those who look at it from outside.  It         *)
(* implements Lifecycle: every step of the worker, of users, admins, the    *)
(* watch and of a crash is, through the refinement mapping of               *)
(* OIDCApplicationProperties, a step of Lifecycle or one that leaves its    *)
(* variables alone.  And Ready is earned: what the reconcile relies on,     *)
(* stage by stage, is an invariant while nobody interferes, and the one     *)
(* write that says Ready lands only on the version whose spec has been      *)
(* served.                                                                  *)
(***************************************************************************)
EXTENDS OIDCApplicationProperties, TLAPS

-----------------------------------------------------------------------------
(* Effects of requests to Authentik keep its types. *)

\* Creating and deleting groups keeps the set of groups one of groups.
LEMMA GroupEffects ==
  ASSUME AuthentikTypeOK, NEW g \in Groups,
         DropGroup(g) \/ \E owner \in Owners : PutGroup(g, owner)
  PROVE  AuthentikTypeOK'
  <1>1. CASE DropGroup(g)
    <2>1. groups' \in [Groups -> Group]
      BY <1>1 DEF AuthentikTypeOK, DropGroup, Group, Owners
    <2> QED BY <1>1, <2>1 DEF AuthentikTypeOK, DropGroup
  <1>2. CASE \E owner \in Owners : PutGroup(g, owner)
    <2>1. groups' \in [Groups -> Group]
      BY <1>2 DEF AuthentikTypeOK, PutGroup, Group, Owners
    <2> QED BY <1>2, <2>1 DEF AuthentikTypeOK, PutGroup
  <1> QED BY <1>1, <1>2

\* Creating and deleting policy bindings keeps bindings between typed groups.
LEMMA BindingEffects ==
  ASSUME AuthentikTypeOK, NEW g \in Groups, DropBinding(g) \/ PutBinding(g)
  PROVE  AuthentikTypeOK'
  BY DEF AuthentikTypeOK, DropBinding, PutBinding

\* Creating, updating and deleting providers keeps the set of providers typed.
LEMMA ProviderEffects ==
  ASSUME AuthentikTypeOK, NEW pk \in Nat, NEW cfg \in Cfgs,
         PutProvider(cfg) \/ SetProvider(pk, cfg) \/ DropProvider(pk)
  PROVE  AuthentikTypeOK'
  BY DEF AuthentikTypeOK, PutProvider, SetProvider, DropProvider, Provider, Application

\* Creating, updating and deleting the application keeps it an application or none.
LEMMA ApplicationEffects ==
  ASSUME AuthentikTypeOK, NEW pk \in Nat, NEW cfg \in Cfgs,
         SetApplication(pk, cfg) \/ DropApplication
  PROVE  AuthentikTypeOK'
  BY DEF AuthentikTypeOK, SetApplication, DropApplication, Application

-----------------------------------------------------------------------------
(* Writes to the object keep its type. *)

\* What is stored is an object, whatever is left of its finalizers.
LEMMA StoreTypes ==
  ASSUME NEW obj \in Object, cachedFresh \in BOOLEAN, Store(obj)
  PROVE  app' \in Object /\ cachedFresh' \in BOOLEAN
  BY DEF Store, Settled, Object

\* The worker at rest has no work of the right type.
LEMMA NoWorkType == NoWork \in Work
  BY DEF NoWork, Work

-----------------------------------------------------------------------------
(* How a stage ends, in types. *)

WorkerTypeOK == pc \in Stages \union {"idle"} /\ snap \in Object \union {None} /\ loc \in Work
                /\ fresh \in BOOLEAN

\* Moving to another stage keeps stage and work typed.
LEMMA ContinueTypes ==
  ASSUME WorkerTypeOK, NEW stage \in Stages, NEW work \in Work, Continue(stage, work)
  PROVE  WorkerTypeOK'
  BY DEF WorkerTypeOK, Continue

\* So does ending the reconcile.
LEMMA ReturnTypes ==
  ASSUME Return
  PROVE  WorkerTypeOK'
  BY NoWorkType DEF WorkerTypeOK, Return

\* And failing, whether the failure is reported in the status first or not.
LEMMA AbortTypes ==
  ASSUME WorkerTypeOK, Abort
  PROVE  WorkerTypeOK'
  <1>1. "failRequeue" \in Stages
    BY DEF Stages, WriteStages
  <1>2. loc \in Work
    BY DEF WorkerTypeOK
  <1> QED BY <1>1, <1>2, ContinueTypes, ReturnTypes DEF Abort

\* The count of failures stays within its bound.
LEMMA FaultTypes ==
  ASSUME faults \in 0..MaxFaults, Fault \/ UNCHANGED faults
  PROVE  faults' \in 0..MaxFaults
  BY BoundsAssumption DEF Fault

\* A request that is answered or whose answer is lost keeps the worker typed.
LEMMA AnsweredTypes ==
  ASSUME WorkerTypeOK, faults \in 0..MaxFaults,
         NEW stage \in Stages, NEW work \in Work, Answered(stage, work)
  PROVE  WorkerTypeOK' /\ faults' \in 0..MaxFaults
  BY ContinueTypes, AbortTypes, FaultTypes DEF Answered

\* A write of the object keeps object and worker typed.
LEMMA UpdateTypes ==
  ASSUME TypeOK, NEW obj \in Object, Update(obj)
  PROVE  TypeOK'
  <1>1. app' \in Object /\ cachedFresh' \in BOOLEAN
    BY StoreTypes DEF Update, TypeOK, ClusterTypeOK
  <1>2. WorkerTypeOK'
    BY ReturnTypes DEF Update
  <1>3. faults' \in 0..MaxFaults
    BY FaultTypes DEF Update, TypeOK
  <1>4. AuthentikTypeOK'
    BY DEF Update, TypeOK, AuthentikTypeOK, authentikVars
  <1> QED
    BY <1>1, <1>2, <1>3, <1>4 DEF Update, TypeOK, ClusterTypeOK, WorkerTypeOK, ownedVars

\* A step that only reads keeps everything typed.
LEMMA ReadsTypes ==
  ASSUME TypeOK, Reads, WorkerTypeOK'
  PROVE  TypeOK'
  BY DEF TypeOK, Reads, ClusterTypeOK, AuthentikTypeOK, WorkerTypeOK, authentikVars, ownedVars

\* A step that asks Authentik keeps everything typed if its effect does.
LEMMA RequestTypes ==
  ASSUME TypeOK, Requests, WorkerTypeOK', AuthentikTypeOK',
         faults' \in 0..MaxFaults, everCreated' \subseteq Groups
  PROVE  TypeOK'
  BY DEF TypeOK, Requests, ClusterTypeOK, WorkerTypeOK, ownedVars

\* A step that leaves Authentik alone keeps its types.
LEMMA AuthentikUnchanged ==
  ASSUME AuthentikTypeOK, UNCHANGED authentikVars
  PROVE  AuthentikTypeOK'
  BY DEF AuthentikTypeOK, authentikVars

\* What is known of a resolved group is typed.
LEMMA ResolvedTypes ==
  ASSUME loc \in Work, NEW g \in Groups, NEW uuid \in Nat
  PROVE  /\ Resolved(g, uuid) \in Work
         /\ Resolved(g, uuid).created = loc.created
         /\ ResolvedNew(g, uuid) \in Work
         /\ ResolvedNew(g, uuid).created = loc.created \union {g}
  <1>1. Resolved(g, uuid) \in Work /\ Resolved(g, uuid).created = loc.created
    <2>1. [loc.uuids EXCEPT ![g] = uuid] \in [Groups -> Nat]
      BY DEF Work
    <2> QED BY <2>1 DEF Resolved, Work
  <1> QED BY <1>1 DEF ResolvedNew, Work

-----------------------------------------------------------------------------
(* Type correctness of every step. *)

\* Every step of Reconcile on the way to Ready keeps the types.
LEMMA ProvisionTypes ==
  ASSUME TypeOK, StageFacts, Provision
  PROVE  TypeOK'
  <1> USE DEF Stages, RequeueStages, ErrorStages, LoggedStages, WriteStages
  <1>w. WorkerTypeOK /\ faults \in 0..MaxFaults /\ AuthentikTypeOK /\ everCreated \subseteq Groups
    BY DEF TypeOK, WorkerTypeOK, ClusterTypeOK
  <1>l. loc \in Work
    BY <1>w DEF WorkerTypeOK
  <1>s. pc # "idle" => /\ snap \in Object
                      /\ snap.spec \in AppSpec
                      /\ snap.status \in Status
    BY DEF StageFacts, Object
  <1>1. CASE AddFinalizer
    BY <1>1, <1>s, UpdateTypes DEF AddFinalizer, Object
  <1>2. CASE ResolveProvider
    <2>1. [loc EXCEPT !.todo = snap.spec.groups] \in Work
      BY <1>2, <1>l, <1>s DEF ResolveProvider, Work, AppSpec
    <2> QED BY <1>2, <1>w, <2>1, ContinueTypes, ReadsTypes DEF ResolveProvider
  <1>3. CASE ResolveReferences
    BY <1>3, <1>w, <1>l, ContinueTypes, ReadsTypes DEF ResolveReferences
  <1>4. ASSUME NEW g \in Groups, ResolveGroup(g) PROVE TypeOK'
    <2>1. Resolved(g, groups[g].uuid) \in Work
      BY <1>l, <1>w, ResolvedTypes DEF AuthentikTypeOK, Group
    <2>2. [loc EXCEPT !.group = g] \in Work
      BY <1>l DEF Work
    <2>3. WorkerTypeOK'
      BY <1>4, <2>1, <2>2, <1>w, ContinueTypes, AbortTypes DEF ResolveGroup, AfterGroup
    <2> QED BY <1>4, <2>3, ReadsTypes DEF ResolveGroup
  <1>5. CASE CreateGroup
    <2> DEFINE g == loc.group
               work == ResolvedNew(g, groups[g].uuid + 1)
    <2>1. g \in Groups
      BY <1>5 DEF CreateGroup, StageFacts
    <2>2. work \in Work
      <3>1. groups[g].uuid + 1 \in Nat
        BY <2>1, <1>w DEF AuthentikTypeOK, Group
      <3> QED BY <2>1, <3>1, <1>l, ResolvedTypes
    <2>3. CASE PutGroup(g, "operator") /\ everCreated' = everCreated \union {g}
               /\ Answered(AfterGroup(g), work)
      <3>1. AuthentikTypeOK'
        BY <2>1, <2>3, <1>w, GroupEffects DEF Owners
      <3>2. WorkerTypeOK' /\ faults' \in 0..MaxFaults
        BY <2>2, <2>3, <1>w, AnsweredTypes DEF AfterGroup
      <3> QED BY <1>5, <1>w, <2>1, <2>3, <3>1, <3>2, RequestTypes DEF CreateGroup
    <2>4. CASE Abort /\ UNCHANGED <<authentikVars, everCreated, faults>>
      BY <1>5, <1>w, <2>4, AbortTypes, AuthentikUnchanged, RequestTypes DEF CreateGroup
    <2> QED BY <1>5, <2>3, <2>4 DEF CreateGroup
  <1>6. CASE GetApplication
    <2>1. [loc EXCEPT !.current = application] \in Work
      BY <1>l, <1>w DEF Work, AuthentikTypeOK
    <2> QED BY <1>6, <1>w, <2>1, ContinueTypes, ReadsTypes DEF GetApplication
  <1>p. ASSUME NEW p \in providers PROVE [loc EXCEPT !.provider = p.pk] \in Work
    BY <1>l, <1>w DEF Work, AuthentikTypeOK, Provider
  <1>7. CASE GetProvider
    BY <1>7, <1>w, <1>l, <1>p, ContinueTypes, ReadsTypes DEF GetProvider, UseProvider
  <1>8. CASE FindProvider
    BY <1>8, <1>w, <1>l, <1>p, ContinueTypes, ReadsTypes DEF FindProvider, UseProvider
  <1>c. pc # "idle" => snap.spec.cfg \in Cfgs
    BY <1>s DEF AppSpec
  <1>n. loc.provider \in Nat /\ lastPK \in Nat
    BY <1>l, <1>w DEF Work, AuthentikTypeOK
  <1>9. CASE UpdateProvider
    <2>1. AuthentikTypeOK'
      BY <1>9, <1>c, <1>n, <1>w, ProviderEffects, AuthentikUnchanged DEF UpdateProvider
    <2>2. WorkerTypeOK' /\ faults' \in 0..MaxFaults
      BY <1>9, <1>l, <1>w, AnsweredTypes, AbortTypes DEF UpdateProvider
    <2> QED BY <1>9, <1>w, <2>1, <2>2, RequestTypes DEF UpdateProvider
  <1>10. CASE CreateProvider
    <2>1. AuthentikTypeOK'
      BY <1>10, <1>c, <1>n, <1>w, ProviderEffects DEF CreateProvider
    <2>2. [loc EXCEPT !.provider = lastPK + 1] \in Work
      BY <1>l, <1>n DEF Work
    <2>3. WorkerTypeOK' /\ faults' \in 0..MaxFaults
      BY <1>10, <2>2, <1>w, AnsweredTypes DEF CreateProvider
    <2> QED BY <1>10, <1>w, <2>1, <2>3, RequestTypes DEF CreateProvider
  <1>11. CASE EnsureApplication
    <2>1. [loc EXCEPT !.current = None] \in Work
      BY <1>l DEF Work
    <2>2. AuthentikTypeOK'
      BY <1>11, <1>c, <1>n, <1>w, ApplicationEffects, AuthentikUnchanged DEF EnsureApplication
    <2>3. WorkerTypeOK' /\ faults' \in 0..MaxFaults
      BY <1>11, <2>1, <1>w, AnsweredTypes, ContinueTypes, AbortTypes DEF EnsureApplication
    <2> QED BY <1>11, <1>w, <2>2, <2>3, RequestTypes DEF EnsureApplication
  <1>12. CASE ListBindings
    <2>1. pc # "idle" => [loc EXCEPT !.stale = bindings, !.todo = snap.spec.groups] \in Work
      BY <1>l, <1>s, <1>w DEF Work, AuthentikTypeOK, AppSpec
    <2> QED BY <1>12, <1>w, <1>l, <2>1, ContinueTypes, ReadsTypes DEF ListBindings, AfterBindings
  <1>13. ASSUME NEW g \in Groups, DeleteBinding(g) PROVE TypeOK'
    <2>1. [loc EXCEPT !.stale = [loc.stale EXCEPT ![g] = @ - 1]] \in Work
      BY <1>13, <1>l DEF DeleteBinding, Listed, Work
    <2>2. AuthentikTypeOK'
      BY <1>13, <1>w, BindingEffects, AuthentikUnchanged DEF DeleteBinding
    <2>3. WorkerTypeOK'
      BY <1>13, <1>w, <2>1, ContinueTypes DEF DeleteBinding
    <2> QED BY <1>13, <1>w, <2>2, <2>3, FaultTypes, RequestTypes DEF DeleteBinding
  <1>14. ASSUME NEW g \in Groups, CreateBinding(g) PROVE TypeOK'
    <2>1. AuthentikTypeOK'
      BY <1>14, <1>w, BindingEffects, AuthentikUnchanged DEF CreateBinding
    <2>2. ASSUME NEW all \in BOOLEAN
          PROVE  [loc EXCEPT !.todo = loc.todo \ {g}, !.allBound = all] \in Work
      BY <1>l DEF Work
    <2>3. \A ok \in BOOLEAN : AllBound(ok) \in BOOLEAN
      BY <1>l DEF Work, AllBound
    <2>4. WorkerTypeOK'
      BY <1>14, <1>w, <2>2, <2>3, ContinueTypes DEF CreateBinding, AfterBindings
    <2> QED BY <1>14, <1>w, <2>1, <2>4, FaultTypes, RequestTypes DEF CreateBinding
  <1>15. CASE FetchDiscovery
    BY <1>15, <1>w, <1>l, ContinueTypes, AbortTypes, ReadsTypes DEF FetchDiscovery
  <1>o. ASSUME NEW rest \in SUBSET Routes, SyncRest(rest) PROVE WorkerTypeOK'
    <2>1. [loc EXCEPT !.refs = rest] \in Work
      BY <1>l DEF Work
    <2> QED BY <1>o, <1>w, <2>1, ContinueTypes DEF SyncRest
  <1>16. CASE WriteSecrets
    <2>1. WorkerTypeOK'
      BY <1>16, <1>w, <1>l, ContinueTypes, AbortTypes DEF WriteSecrets
    <2>2. secrets' \subseteq SecretRoles
      BY <1>16 DEF WriteSecrets, Desired, DesiredSecrets, TypeOK, ClusterTypeOK
    <2>3. faults' \in 0..MaxFaults
      BY <1>16, <1>w, FaultTypes DEF WriteSecrets
    <2> QED
      BY <1>16, <1>w, <2>1, <2>2, <2>3, AuthentikUnchanged
      DEF WriteSecrets, TypeOK, ClusterTypeOK, WorkerTypeOK
  <1>17. CASE DeleteStaleSecrets
    <2>1. snap.spec.routes \in SUBSET Routes /\ Orphans \in SUBSET Routes
      BY <1>17, <1>s DEF DeleteStaleSecrets, Orphans, AppSpec, Status
    <2>2. [loc EXCEPT !.refs = Orphans] \in Work
      BY <1>l, <2>1 DEF Work
    <2>3. WorkerTypeOK'
      BY <1>17, <1>w, <1>o, <2>1, <2>2, ContinueTypes, AbortTypes DEF DeleteStaleSecrets
    <2>4. secrets' \subseteq SecretRoles
      BY <1>17 DEF DeleteStaleSecrets, TypeOK, ClusterTypeOK
    <2>5. faults' \in 0..MaxFaults
      BY <1>17, <1>w, FaultTypes DEF DeleteStaleSecrets
    <2> QED
      BY <1>17, <1>w, <2>3, <2>4, <2>5, AuthentikUnchanged
      DEF DeleteStaleSecrets, TypeOK, ClusterTypeOK, WorkerTypeOK
  <1>18. ASSUME NEW r \in Routes, DeleteOrphanPolicy(r) PROVE TypeOK'
    <2>1. snap.spec.routes \in SUBSET Routes
      BY <1>18, <1>s DEF DeleteOrphanPolicy, AppSpec
    <2>2. [loc EXCEPT !.refs = @ \ {r}] \in Work
      BY <1>l DEF Work
    <2>3. WorkerTypeOK'
      BY <1>18, <1>w, <1>o, <2>1, <2>2, ContinueTypes DEF DeleteOrphanPolicy
    <2>4. faults' \in 0..MaxFaults
      BY <1>18, <1>w, FaultTypes DEF DeleteOrphanPolicy
    <2> QED
      BY <1>18, <1>w, <2>3, <2>4, AuthentikUnchanged
      DEF DeleteOrphanPolicy, TypeOK, ClusterTypeOK, WorkerTypeOK
  <1>19. ASSUME NEW r \in Routes, SyncPolicy(r) PROVE TypeOK'
    <2>1. loc.refs \ {r} \in SUBSET Routes
      BY <1>l DEF Work
    <2>3. WorkerTypeOK'
      BY <1>19, <1>w, <1>o, <2>1, AbortTypes DEF SyncPolicy
    <2>4. faults' \in 0..MaxFaults
      BY <1>19, <1>w, FaultTypes DEF SyncPolicy
    <2> QED
      BY <1>19, <1>w, <2>3, <2>4, AuthentikUnchanged
      DEF SyncPolicy, TypeOK, ClusterTypeOK, WorkerTypeOK
  <1>20. CASE UpdateStatus
    <2>1. ReadyStatus \in Status
      BY <1>20, <1>l, <1>s DEF UpdateStatus, ReadyStatus, MergeCreated, Status, AppSpec, Work
    <2>2. [snap EXCEPT !.status = ReadyStatus] \in Object
      BY <1>20, <2>1, <1>s DEF UpdateStatus, Object
    <2> QED BY <1>20, <2>2, UpdateTypes DEF UpdateStatus
  <1>21. CASE FailRequeue
    <2>1. [snap EXCEPT !.status.ready = FALSE] \in Object
      BY <1>21, <1>s DEF FailRequeue, Object, Status
    <2> QED BY <1>21, <2>1, UpdateTypes DEF FailRequeue
  <1> QED
    BY <1>1, <1>2, <1>3, <1>4, <1>5, <1>6, <1>7, <1>8, <1>9, <1>10, <1>11, <1>12, <1>13,
       <1>14, <1>15, <1>16, <1>17, <1>18, <1>19, <1>20, <1>21
    DEF Provision

\* So does every step of cleanup.
LEMMA CleanUpTypes ==
  ASSUME TypeOK, StageFacts, CleanUp
  PROVE  TypeOK'
  <1> USE DEF Stages, RequeueStages, ErrorStages, LoggedStages, WriteStages
  <1>w. WorkerTypeOK /\ faults \in 0..MaxFaults /\ AuthentikTypeOK /\ everCreated \subseteq Groups
    BY DEF TypeOK, WorkerTypeOK, ClusterTypeOK
  <1>l. loc \in Work
    BY <1>w DEF WorkerTypeOK
  <1>s. pc # "idle" => /\ snap \in Object
                      /\ snap.spec \in AppSpec
                      /\ snap.status \in Status
    BY DEF StageFacts, Object
  <1>r. ASSUME NEW rest \in SUBSET Groups, CleanRest(rest)
        PROVE  WorkerTypeOK' /\ faults' \in 0..MaxFaults
    <2>1. [loc EXCEPT !.todo = rest] \in Work
      BY <1>l DEF Work
    <2> QED BY <1>r, <1>w, <2>1, AnsweredTypes DEF CleanRest
  <1>1. CASE ReadCredentials
    <2>1. [loc EXCEPT !.todo = snap.status.bound] \in Work
      BY <1>1, <1>l, <1>s DEF ReadCredentials, Work, Status
    <2> QED BY <1>1, <1>w, <2>1, ContinueTypes, ReadsTypes DEF ReadCredentials
  <1>2. ASSUME NEW g \in Groups, Unbind(g) PROVE TypeOK'
    <2>1. [loc EXCEPT !.todo = @ \ {g}] \in Work
      BY <1>l DEF Work
    <2>2. AuthentikTypeOK'
      BY <1>2, <1>w, BindingEffects, AuthentikUnchanged DEF Unbind
    <2>3. WorkerTypeOK' /\ faults' \in 0..MaxFaults
      BY <1>2, <1>w, <2>1, AnsweredTypes DEF Unbind
    <2> QED BY <1>2, <1>w, <2>2, <2>3, RequestTypes DEF Unbind
  <1>3. CASE DeleteApplication
    <2>1. AuthentikTypeOK'
      BY <1>3, <1>w DEF DeleteApplication, DropApplication, AuthentikTypeOK
    <2>2. WorkerTypeOK' /\ faults' \in 0..MaxFaults
      BY <1>3, <1>w, <1>l, AnsweredTypes DEF DeleteApplication
    <2> QED BY <1>3, <1>w, <2>1, <2>2, RequestTypes DEF DeleteApplication
  <1>4. CASE DeleteProvider
    <2>1. CleanupGroups \in SUBSET Groups /\ snap.status.provider \in Nat /\ snap.spec.cfg \in Cfgs
      BY <1>4, <1>s DEF DeleteProvider, CleanupGroups, Status, AppSpec
    <2>2. AuthentikTypeOK'
      BY <1>4, <1>w, <2>1, ProviderEffects DEF DeleteProvider
    <2> QED BY <1>4, <1>w, <1>r, <2>1, <2>2, RequestTypes DEF DeleteProvider
  <1>5. ASSUME NEW g \in Groups, CleanGroup(g) PROVE TypeOK'
    <2>1. loc.todo \ {g} \in SUBSET Groups
      BY <1>l DEF Work
    <2>2. AuthentikTypeOK'
      BY <1>5, <1>w, GroupEffects, AuthentikUnchanged DEF CleanGroup
    <2> QED BY <1>5, <1>w, <1>r, <2>1, <2>2, RequestTypes DEF CleanGroup
  <1>6. CASE RemoveFinalizer
    <2>1. [snap EXCEPT !.finalizer = FALSE] \in Object
      BY <1>6, <1>s DEF RemoveFinalizer, Object
    <2> QED BY <1>6, <2>1, UpdateTypes DEF RemoveFinalizer
  <1> QED BY <1>1, <1>2, <1>3, <1>4, <1>5, <1>6 DEF CleanUp

\* A user's write keeps the object typed.
LEMMA UserWriteTypes ==
  ASSUME ClusterTypeOK, NEW obj \in Object, UserWrites(obj), edits' \in 0..MaxEdits
  PROVE  ClusterTypeOK'
  <1>1. app' \in Object /\ cachedFresh' \in BOOLEAN
    BY StoreTypes DEF UserWrites, ClusterTypeOK
  <1> QED BY <1>1 DEF UserWrites, ClusterTypeOK

\* So do crashes, admins, users, the watch and the garbage collector.
LEMMA EnvironmentTypes ==
  ASSUME TypeOK, ClusterActs \/ Interference
  PROVE  TypeOK'
  <1>1. CASE ClusterActs
    <2>1. ClusterTypeOK
      BY DEF TypeOK
    <2>2. ASSUME EditSpec PROVE ClusterTypeOK'
      <3>1. edits' \in 0..MaxEdits
        BY <2>1, <2>2, MaxEditsAssumption DEF EditSpec, ClusterTypeOK
      <3>2. \A spec \in Specs : [app EXCEPT !.spec = spec] \in Object
        BY <2>1, SpecsAssumption DEF ClusterTypeOK, Object
      <3> QED BY <2>1, <2>2, <3>1, <3>2, UserWriteTypes DEF EditSpec
    <2>3. ASSUME DeleteApp PROVE ClusterTypeOK'
      <3>1. edits' \in 0..MaxEdits /\ [app EXCEPT !.deleting = TRUE] \in Object
        BY <2>1, <2>3 DEF DeleteApp, ClusterTypeOK, Object
      <3> QED BY <2>1, <2>3, <3>1, UserWriteTypes DEF DeleteApp
    <2>4. ASSUME WatchEvent PROVE ClusterTypeOK'
      BY <2>1, <2>4 DEF WatchEvent, ClusterTypeOK
    <2>5. ASSUME CollectGarbage PROVE ClusterTypeOK'
      BY <2>1, <2>5 DEF CollectGarbage, ClusterTypeOK, objectVars
    <2>6. ClusterTypeOK'
      BY <1>1, <2>2, <2>3, <2>4, <2>5 DEF ClusterActs
    <2> QED BY <1>1, <2>6, AuthentikUnchanged DEF ClusterActs, TypeOK
  <1>2. CASE Interference
    <2>1. outside' \in 0..MaxOutside
      BY <1>2, BoundsAssumption DEF Interference, TypeOK
    <2>2. CASE AdminActs
      <3>1. AuthentikTypeOK
        BY DEF TypeOK
      <3>2. ASSUME NEW p \in providers, DropProvider(p.pk) PROVE AuthentikTypeOK'
        BY <3>1, <3>2 DEF DropProvider, AuthentikTypeOK, Application
      <3>3. ASSUME DropApplication PROVE AuthentikTypeOK'
        BY <3>1, <3>3 DEF DropApplication, AuthentikTypeOK
      <3>4. AuthentikTypeOK'
        BY <2>2, <3>1, <3>2, <3>3, GroupEffects, BindingEffects DEF AdminActs, Owners
      <3> QED
        BY <1>2, <2>1, <2>2, <3>4
        DEF Interference, AdminActs, ownedVars, objectVars, TypeOK, ClusterTypeOK
    <2>3. CASE UserActs
      <3>1. policies' \subseteq Routes /\ secrets' \subseteq SecretRoles
        BY <2>3 DEF UserActs, TypeOK, ClusterTypeOK
      <3> QED
        BY <1>2, <2>1, <2>3, <3>1, AuthentikUnchanged
        DEF Interference, UserActs, objectVars, TypeOK, ClusterTypeOK
    <2> QED BY <1>2, <2>2, <2>3 DEF Interference
  <1> QED BY <1>1, <1>2

\* Hence every step does.
LEMMA TypeStep ==
  ASSUME TypeOK, StageFacts, [Next]_vars
  PROVE  TypeOK'
  <1>w. WorkerTypeOK /\ faults \in 0..MaxFaults /\ AuthentikTypeOK
    BY DEF TypeOK, WorkerTypeOK, ClusterTypeOK
  <1>1. CASE Start
    <2>1. WorkerTypeOK'
      BY <1>1, <1>w
      DEF Start, FirstStage, WorkerTypeOK, TypeOK, ClusterTypeOK, Stages, RequeueStages,
          ErrorStages, WriteStages
    <2> QED BY <1>1, <1>w, <2>1, ReadsTypes DEF Start, Reads
  <1>2. CASE CallFails
    <2>1. WorkerTypeOK' /\ faults' \in 0..MaxFaults
      BY <1>2, <1>w, AbortTypes, FaultTypes DEF CallFails
    <2> QED
      BY <1>2, <1>w, <2>1, AuthentikUnchanged
      DEF CallFails, TypeOK, ClusterTypeOK, WorkerTypeOK, ownedVars
  <1>3. CASE Crash
    <2>1. WorkerTypeOK' /\ faults' \in 0..MaxFaults
      BY <1>3, <1>w, ReturnTypes, FaultTypes DEF Crash
    <2> QED
      BY <1>3, <1>w, <2>1, AuthentikUnchanged
      DEF Crash, TypeOK, ClusterTypeOK, WorkerTypeOK, ownedVars
  <1>4. CASE UNCHANGED vars
    BY <1>4, <1>w, AuthentikUnchanged DEF vars, clusterVars, TypeOK, ClusterTypeOK
  <1> QED
    BY <1>1, <1>2, <1>3, <1>4, ProvisionTypes, CleanUpTypes, EnvironmentTypes DEF Next, Reconcile

-----------------------------------------------------------------------------
(* The shape of the worker's steps: a stage either moves on within its phase *)
(* on the same copy, or ends the reconcile; only four write the object.      *)

Moves ==
  /\ UNCHANGED <<snap, fresh>>
  /\ \/ pc \in Provisioning /\ pc' \in Provisioning
     \/ /\ pc \in Cleanup /\ pc' \in Cleanup
        /\ pc # "removeFinalizer"
  /\ pc' = "createGroup" => loc'.group \in Groups

Writes == AddFinalizer \/ UpdateStatus \/ FailRequeue \/ RemoveFinalizer

\* A failing reconcile ends, or goes on to report it on the same copy.
LEMMA AbortShape ==
  ASSUME StageFacts, pc \in Provisioning \union Cleanup, Abort
  PROVE  Moves \/ Return
  BY DEF Abort, Continue, Moves, Provisioning, Cleanup, Stages, RequeueStages, ErrorStages,
         LoggedStages, WriteStages

\* After a request the reconcile moves on, on the same copy, or ends.
LEMMA AnsweredShape ==
  ASSUME StageFacts, NEW stage, NEW work, Answered(stage, work), stage # "createGroup",
         \/ pc \in Provisioning /\ stage \in Provisioning
         \/ pc \in Cleanup \ {"removeFinalizer"} /\ stage \in Cleanup
  PROVE  Moves \/ Return
  BY AbortShape DEF Answered, Continue, Moves, Provisioning, Cleanup

\* A provisioning step moves on or ends, and few of them write the object.
LEMMA ProvisionShape ==
  ASSUME TypeOK, StageFacts, Provision
  PROVE  (Moves \/ Return) /\ (Writes \/ UNCHANGED <<app, cached, cachedFresh>>)
  <1> USE DEF Stages, RequeueStages, ErrorStages, LoggedStages, WriteStages, Cleanup, Provisioning
  <1>w. WorkerTypeOK
    BY DEF TypeOK, WorkerTypeOK, ClusterTypeOK
  <1>1. CASE AddFinalizer \/ UpdateStatus \/ FailRequeue
    BY <1>1 DEF Writes, AddFinalizer, UpdateStatus, FailRequeue, Update
  <1>2. CASE ResolveProvider \/ ResolveReferences \/ GetApplication \/ ListBindings
    BY <1>2
    DEF ResolveProvider, ResolveReferences, GetApplication, ListBindings, AfterBindings,
        Continue, Moves, Reads
  <1>3. ASSUME NEW g \in Groups, ResolveGroup(g)
        PROVE  (Moves \/ Return) /\ UNCHANGED <<app, cached, cachedFresh>>
    <2>1. [loc EXCEPT !.group = g].group = g
      BY <1>w DEF WorkerTypeOK, Work
    <2> QED BY <1>3, <2>1, AbortShape DEF ResolveGroup, AfterGroup, Continue, Moves, Reads
  <1>4. CASE CreateGroup
    BY <1>4, AnsweredShape, AbortShape DEF CreateGroup, AfterGroup, Requests
  <1>5. CASE GetProvider \/ FindProvider
    BY <1>5 DEF GetProvider, FindProvider, UseProvider, Continue, Moves, Reads
  <1>6. CASE UpdateProvider \/ CreateProvider
    BY <1>6, AnsweredShape, AbortShape DEF UpdateProvider, CreateProvider, Requests
  <1>7. CASE EnsureApplication
    <2>1. Moves \/ Return
      BY <1>7, AnsweredShape, AbortShape DEF EnsureApplication, Continue, Moves
    <2> QED BY <1>7, <2>1 DEF EnsureApplication, Requests
  <1>8. ASSUME NEW g \in Groups, DeleteBinding(g) \/ CreateBinding(g)
        PROVE  Moves /\ UNCHANGED <<app, cached, cachedFresh>>
    BY <1>8 DEF DeleteBinding, CreateBinding, AfterBindings, Continue, Moves, Requests
  <1>9. CASE FetchDiscovery
    BY <1>9, AbortShape DEF FetchDiscovery, Continue, Moves, Reads
  <1>10. CASE WriteSecrets
    BY <1>10, AbortShape DEF WriteSecrets, Continue, Moves
  <1>11. CASE DeleteStaleSecrets
    BY <1>11, AbortShape DEF DeleteStaleSecrets, SyncRest, Continue, Moves
  <1>12. ASSUME NEW r \in Routes, DeleteOrphanPolicy(r) \/ SyncPolicy(r)
         PROVE  (Moves \/ Return) /\ UNCHANGED <<app, cached, cachedFresh>>
    BY <1>12, AbortShape DEF DeleteOrphanPolicy, SyncPolicy, SyncRest, Continue, Moves
  <1> QED
    BY <1>1, <1>2, <1>3, <1>4, <1>5, <1>6, <1>7, <1>8, <1>9, <1>10, <1>11, <1>12 DEF Provision

\* A cleanup step moves on or ends, and only the last one writes the object.
LEMMA CleanUpShape ==
  ASSUME StageFacts, CleanUp
  PROVE  (Moves \/ Return) /\ (Writes \/ UNCHANGED <<app, cached, cachedFresh>>)
  <1> USE DEF Stages, RequeueStages, ErrorStages, LoggedStages, WriteStages, Cleanup, Provisioning
  <1>1. CASE ReadCredentials
    BY <1>1 DEF ReadCredentials, Continue, Moves, Reads
  <1>2. ASSUME NEW g \in Groups, Unbind(g) \/ CleanGroup(g)
        PROVE  (Moves \/ Return) /\ UNCHANGED <<app, cached, cachedFresh>>
    BY <1>2, AnsweredShape DEF Unbind, CleanGroup, CleanRest, Requests
  <1>3. CASE DeleteApplication \/ DeleteProvider
    BY <1>3, AnsweredShape DEF DeleteApplication, DeleteProvider, CleanRest, Requests
  <1>4. CASE RemoveFinalizer
    BY <1>4 DEF Writes, RemoveFinalizer, Update
  <1> QED BY <1>1, <1>2, <1>3, <1>4 DEF CleanUp

\* The same for every step of the worker.
LEMMA WorkerShape ==
  ASSUME TypeOK, StageFacts, Provision \/ CleanUp \/ CallFails
  PROVE  (Moves \/ Return) /\ (Writes \/ UNCHANGED <<app, cached, cachedFresh>>)
  <1>1. CASE CallFails
    BY <1>1, AbortShape
    DEF CallFails, Provisioning, Cleanup, Stages, RequeueStages, ErrorStages
  <1> QED BY <1>1, ProvisionShape, CleanUpShape

\* Users, admins and the watch leave the worker alone but for its version.
LEMMA EnvironmentShape ==
  ASSUME TypeOK, ClusterActs \/ Interference
  PROVE  UNCHANGED <<pc, snap, loc>> /\ (fresh' => fresh)
  <1>1. UNCHANGED <<pc, snap, loc>>
    BY DEF ClusterActs, Interference
  <1>2. CASE EditSpec \/ DeleteApp
    <2>1. PICK obj : UserWrites(obj)
      BY <1>2 DEF EditSpec, DeleteApp
    <2>2. fresh' = (fresh /\ obj = app)
      BY <2>1 DEF UserWrites
    <2> QED BY <1>1, <2>2
  <1>3. CASE WatchEvent \/ CollectGarbage \/ Interference
    BY <1>1, <1>3 DEF WatchEvent, CollectGarbage, Interference, objectVars
  <1> QED BY <1>2, <1>3 DEF ClusterActs

\* What each stage may assume of its copy is kept by every step.
LEMMA StageFactsStep ==
  ASSUME IInv, [Next]_vars
  PROVE  StageFacts'
  <1> USE DEF IInv
  <1>1. CASE Provision \/ CleanUp \/ CallFails
    <2>1. CASE Return
      BY <2>1
      DEF Return, StageFacts, Provisioning, Cleanup, Stages, RequeueStages, ErrorStages,
          LoggedStages, WriteStages
    <2>2. CASE Moves
      BY <2>2
      DEF Moves, StageFacts, Provisioning, Cleanup, Stages, RequeueStages, ErrorStages,
          LoggedStages, WriteStages
    <2> QED BY <1>1, <2>1, <2>2, WorkerShape
  <1>2. CASE Start
    BY <1>2
    DEF Start, FirstStage, StageFacts, Provisioning, Cleanup, Stages, RequeueStages, ErrorStages,
        LoggedStages, WriteStages, TypeOK, ClusterTypeOK, Object, Status
  <1>3. CASE Crash
    BY <1>3
    DEF Crash, Return, StageFacts, Provisioning, Cleanup, Stages, RequeueStages, ErrorStages,
        LoggedStages, WriteStages
  <1>4. CASE ClusterActs \/ Interference
    BY <1>4, EnvironmentShape DEF StageFacts
  <1>5. CASE UNCHANGED vars
    BY <1>5 DEF vars, clusterVars, StageFacts
  <1> QED BY <1>1, <1>2, <1>3, <1>4, <1>5 DEF Next, Reconcile

-----------------------------------------------------------------------------
(* Writes of the object. *)

\* A user's write makes every copy old.
LEMMA UserWriteEffect ==
  ASSUME TypeOK, EditSpec \/ DeleteApp
  PROVE  /\ cachedFresh' = FALSE /\ fresh' = FALSE /\ cached' = cached
         /\ app.exists
         /\ app'.finalizer = app.finalizer /\ app'.status = app.status
         /\ app.finalizer => app'.exists
         /\ app'.exists /\ app'.deleting => app'.finalizer
  <1>0. app \in Object
    BY DEF TypeOK, ClusterTypeOK
  <1>1. CASE EditSpec
    <2>1. PICK spec \in Specs \ {app.spec} : UserWrites([app EXCEPT !.spec = spec])
      BY <1>1 DEF EditSpec
    <2>2. [app EXCEPT !.spec = spec] # app
      BY <1>0, <2>1 DEF Object
    <2> QED BY <1>0, <1>1, <2>1, <2>2 DEF EditSpec, UserWrites, Store, Settled, Object
  <1>2. CASE DeleteApp
    <2>1. [app EXCEPT !.deleting = TRUE] # app
      BY <1>0, <1>2 DEF DeleteApp, Object
    <2> QED BY <1>0, <1>2, <2>1 DEF DeleteApp, UserWrites, Store, Settled, Object
  <1> QED BY <1>1, <1>2

\* A store keeps the object as given until cleanup is over, and leaves the cache
\* current only if nothing changed.
LEMMA StoreEffect ==
  ASSUME NEW obj, Store(obj)
  PROVE  /\ obj.finalizer \/ ~obj.deleting => app' = obj
         /\ cachedFresh' => cachedFresh /\ obj = app
  BY DEF Store, Settled

\* A write either leaves object and cache alone or lands on the version read.
LEMMA UpdateEffect ==
  ASSUME IInv, NEW obj, Update(obj)
  PROVE  /\ cached' = cached /\ Return
         /\ \/ app' = app /\ cachedFresh' = cachedFresh
            \/ snap = app /\ cached = app /\ Store(obj)
  BY DEF IInv, Update, FreshCopies

\* The worker's writes land only on the version it read; those that provision
\* keep the object, the finalizer and the deletion mark, cleanup's removes
\* the object.
LEMMA WriteEffect ==
  ASSUME IInv, Writes
  PROVE  /\ cached' = cached /\ Return
         /\ cachedFresh' => cached = app'
         /\ \/ app' = app
            \/ /\ snap = app /\ cached = app /\ app.exists
               /\ \/ /\ pc # "removeFinalizer" /\ ~app.deleting
                     /\ app'.exists /\ app'.finalizer /\ ~app'.deleting
                     /\ app'.spec = app.spec
                     /\ pc = "addFinalizer" => ~app.finalizer /\ app'.status = app.status
                     /\ app.status.created \subseteq app'.status.created
                     /\ app'.status.created \subseteq app.status.created \union loc.created
                  \/ /\ pc = "removeFinalizer" /\ app.deleting
                     /\ ~app'.exists /\ ~app'.finalizer
                     /\ app'.spec = app.spec /\ app'.status = app.status
  <1> USE DEF IInv
  <1>0. pc # "idle" => snap \in Object
    BY DEF StageFacts
  <1>1. CASE AddFinalizer
    <2>1. snap \in Object /\ snap.exists /\ ~snap.deleting /\ ~snap.finalizer
      BY <1>1 DEF AddFinalizer, StageFacts
    <2>2. PICK obj \in Object : /\ Update(obj) /\ obj = [snap EXCEPT !.finalizer = TRUE]
      BY <1>1, <2>1 DEF AddFinalizer, Object
    <2>3. /\ obj.exists /\ obj.finalizer /\ ~obj.deleting
          /\ obj.spec = snap.spec /\ obj.status = snap.status
      BY <2>1, <2>2 DEF Object
    <2>4. pc = "addFinalizer"
      BY <1>1 DEF AddFinalizer
    <2> QED
      BY <2>1, <2>2, <2>3, <2>4, UpdateEffect, StoreEffect DEF FreshCopies
  <1>2. CASE UpdateStatus \/ FailRequeue
    <2>1. snap \in Object /\ snap.exists /\ ~snap.deleting /\ snap.finalizer
      BY <1>2
      DEF UpdateStatus, FailRequeue, StageFacts, Provisioning, Cleanup, Stages, WriteStages
    <2>2. PICK obj \in {[snap EXCEPT !.status = ReadyStatus],
                       [snap EXCEPT !.status.ready = FALSE]} : Update(obj)
      BY <1>2 DEF UpdateStatus, FailRequeue
    <2>3. /\ obj.exists /\ obj.finalizer /\ ~obj.deleting /\ obj.spec = snap.spec
          /\ snap.status.created \subseteq obj.status.created
          /\ obj.status.created \subseteq snap.status.created \union loc.created
      BY <2>1, <2>2 DEF Object, Status, ReadyStatus, MergeCreated
    <2>4. pc # "removeFinalizer" /\ pc # "addFinalizer"
      BY <1>2 DEF UpdateStatus, FailRequeue
    <2> QED
      BY <2>1, <2>2, <2>3, <2>4, UpdateEffect, StoreEffect DEF FreshCopies
  <1>3. CASE RemoveFinalizer
    <2>1. snap \in Object /\ snap.exists /\ snap.deleting /\ snap.finalizer
      BY <1>3 DEF RemoveFinalizer, StageFacts, Cleanup
    <2>2. PICK obj \in Object : /\ Update(obj) /\ obj = [snap EXCEPT !.finalizer = FALSE]
      BY <1>3, <2>1 DEF RemoveFinalizer, Object
    <2>3. ~obj.finalizer /\ obj # snap
      BY <2>1, <2>2 DEF Object
    <2>4. Settled(obj) = [snap EXCEPT !.finalizer = FALSE, !.exists = FALSE]
      BY <2>1, <2>2 DEF Settled, Object
    <2>5. pc = "removeFinalizer"
      BY <1>3 DEF RemoveFinalizer
    <2>6. CASE app' = app /\ cachedFresh' = cachedFresh
      BY <2>2, <2>6, UpdateEffect DEF FreshCopies
    <2>7. CASE snap = app /\ cached = app /\ Store(obj)
      <3>1. ~cachedFresh'
        BY <2>3, <2>7, StoreEffect
      <3>2. app' = [app EXCEPT !.finalizer = FALSE, !.exists = FALSE]
        BY <2>4, <2>7 DEF Store
      <3>3. /\ ~app'.exists /\ ~app'.finalizer
            /\ app'.spec = app.spec /\ app'.status = app.status
        BY <2>1, <2>7, <3>2 DEF Object
      <3> QED BY <2>1, <2>2, <2>5, <2>7, <3>1, <3>3, UpdateEffect
    <2> QED BY <2>2, <2>6, <2>7, UpdateEffect
  <1> QED BY <1>1, <1>2, <1>3 DEF Writes

-----------------------------------------------------------------------------
(* Old copies, and the finalizer they show. *)

\* Copies that carry the current version stay equal to the object.
LEMMA FreshCopiesStep ==
  ASSUME IInv, [Next]_vars
  PROVE  FreshCopies'
  <1> USE DEF IInv
  <1>1. CASE Writes
    <2>1. ~fresh'
      BY <1>1, WriteEffect DEF Return
    <2>2. cachedFresh' => cached' = app'
      BY <1>1, WriteEffect
    <2> QED BY <2>1, <2>2 DEF FreshCopies
  <1>2. CASE (Provision \/ CleanUp \/ CallFails) /\ ~Writes
    <2>1. UNCHANGED <<app, cached, cachedFresh>> /\ (Moves \/ Return)
      BY <1>2, WorkerShape
    <2>2. CASE Moves
      BY <2>1, <2>2 DEF Moves, FreshCopies
    <2>3. CASE Return
      BY <2>1, <2>3 DEF Return, FreshCopies
    <2> QED BY <2>1, <2>2, <2>3
  <1>3. CASE Start
    BY <1>3 DEF Start, FreshCopies
  <1>4. CASE Crash
    BY <1>4 DEF Crash, Return, FreshCopies
  <1>5. CASE EditSpec \/ DeleteApp
    BY <1>5, UserWriteEffect DEF FreshCopies
  <1>6. CASE ClusterActs /\ (WatchEvent \/ CollectGarbage)
    BY <1>6 DEF ClusterActs, WatchEvent, CollectGarbage, objectVars, FreshCopies
  <1>7. CASE Interference
    BY <1>7 DEF Interference, objectVars, FreshCopies
  <1>8. CASE UNCHANGED vars
    BY <1>8 DEF vars, clusterVars, FreshCopies
  <1> QED
    BY <1>1, <1>2, <1>3, <1>4, <1>5, <1>6, <1>7, <1>8 DEF Next, Reconcile, ClusterActs

\* No step makes a copy wrong about the finalizer it shows.
LEMMA FinalizerHeldStep ==
  ASSUME IInv, [Next]_vars
  PROVE  FinalizerHeld'
  <1> USE DEF IInv
  <1>1. CASE Writes
    BY <1>1, WriteEffect DEF Return, FinalizerHeld
  <1>2. CASE (Provision \/ CleanUp \/ CallFails) /\ ~Writes
    <2>1. UNCHANGED <<app, cached>> /\ ((snap' = snap /\ pc # "idle") \/ pc' = "idle")
      BY <1>2, WorkerShape
      DEF Moves, Return, Provisioning, Cleanup, Stages, RequeueStages, ErrorStages,
          LoggedStages, WriteStages
    <2> QED BY <2>1 DEF FinalizerHeld
  <1>3. CASE Start
    BY <1>3 DEF Start, FinalizerHeld
  <1>4. CASE Crash
    BY <1>4 DEF Crash, Return, FinalizerHeld
  <1>5. CASE ClusterActs /\ (EditSpec \/ DeleteApp)
    <2>1. UNCHANGED <<pc, snap>>
      BY <1>5 DEF ClusterActs
    <2> QED BY <1>5, <2>1, UserWriteEffect DEF FinalizerHeld
  <1>6. CASE ClusterActs /\ (WatchEvent \/ CollectGarbage)
    BY <1>6 DEF ClusterActs, WatchEvent, CollectGarbage, objectVars, FinalizerHeld
  <1>7. CASE Interference
    BY <1>7 DEF Interference, objectVars, FinalizerHeld
  <1>8. CASE UNCHANGED vars
    BY <1>8 DEF vars, clusterVars, FinalizerHeld
  <1> QED
    BY <1>1, <1>2, <1>3, <1>4, <1>5, <1>6, <1>7, <1>8 DEF Next, Reconcile, ClusterActs

-----------------------------------------------------------------------------
(* One provider. *)

\* No step makes a second provider for the slug.
LEMMA ProviderUniqueStep ==
  ASSUME IInv, [Next]_vars
  PROVE  ProviderUnique'
  <1> USE DEF IInv, ProviderUnique, OneProvider
  <1>1. CASE FindProvider \/ GetProvider
    BY <1>1 DEF FindProvider, GetProvider, UseProvider, Continue, Reads, authentikVars
  <1>2. CASE CreateProvider
    <2>1. pc' # "createProvider"
      BY <1>2 DEF CreateProvider, Answered, Abort, Continue, Return
    <2> QED BY <1>2, <2>1 DEF CreateProvider, PutProvider
  <1>3. CASE UpdateProvider
    <2>1. pc' # "createProvider"
      BY <1>3 DEF UpdateProvider, Answered, Abort, Continue, Return
    <2>2. CASE UNCHANGED authentikVars
      BY <2>1, <2>2 DEF authentikVars
    <2>3. CASE loc.provider \in PKs /\ SetProvider(loc.provider, snap.spec.cfg)
      BY <2>1, <2>3 DEF SetProvider, PKs
    <2> QED BY <1>3, <2>2, <2>3 DEF UpdateProvider
  <1>p. ASSUME Provision, ~(FindProvider \/ GetProvider \/ CreateProvider \/ UpdateProvider)
        PROVE  providers' = providers /\ pc' # "createProvider"
    <2> USE DEF Continue, Return, Abort, Answered, Reads, authentikVars
    <2>1. CASE AddFinalizer \/ UpdateStatus \/ FailRequeue
      BY <2>1 DEF AddFinalizer, UpdateStatus, FailRequeue, Update
    <2>2. CASE ResolveProvider \/ ResolveReferences \/ GetApplication \/ ListBindings \/ FetchDiscovery
      BY <2>2
      DEF ResolveProvider, ResolveReferences, GetApplication, ListBindings, FetchDiscovery,
          AfterBindings
    <2>3. ASSUME NEW g \in Groups, ResolveGroup(g) PROVE providers' = providers /\ pc' # "createProvider"
      BY <2>3 DEF ResolveGroup, AfterGroup
    <2>4. CASE CreateGroup
      BY <2>4 DEF CreateGroup, AfterGroup, PutGroup
    <2>5. CASE EnsureApplication
      BY <2>5 DEF EnsureApplication, SetApplication
    <2>6. ASSUME NEW g \in Groups, DeleteBinding(g) \/ CreateBinding(g)
          PROVE  providers' = providers /\ pc' # "createProvider"
      BY <2>6 DEF DeleteBinding, CreateBinding, DropBinding, PutBinding, AfterBindings
    <2>7. CASE WriteSecrets \/ DeleteStaleSecrets
      BY <2>7 DEF WriteSecrets, DeleteStaleSecrets, SyncRest
    <2>8. ASSUME NEW r \in Routes, DeleteOrphanPolicy(r) \/ SyncPolicy(r)
          PROVE  providers' = providers /\ pc' # "createProvider"
      BY <2>8 DEF DeleteOrphanPolicy, SyncPolicy, SyncRest
    <2> QED BY <1>p, <2>1, <2>2, <2>3, <2>4, <2>5, <2>6, <2>7, <2>8 DEF Provision
  <1>4. CASE Provision
    BY <1>1, <1>2, <1>3, <1>4, <1>p
  <1>5. CASE CleanUp
    <2>1. pc' # "createProvider"
      BY <1>5, CleanUpShape
      DEF CleanUp, ReadCredentials, Unbind, CleanGroup, DeleteApplication, DeleteProvider,
          RemoveFinalizer, Moves, Return, Cleanup, Provisioning
    <2>2. providers' \subseteq providers
      BY <1>5
      DEF CleanUp, ReadCredentials, Unbind, CleanGroup, DeleteApplication, DeleteProvider,
          RemoveFinalizer, Reads, Update, authentikVars, DropBinding, DropGroup, DropApplication,
          DropProvider
    <2> QED BY <2>1, <2>2
  <1>6. CASE CallFails \/ Crash
    BY <1>6 DEF CallFails, Crash, Abort, Continue, Return, authentikVars
  <1>7. CASE Start
    BY <1>7 DEF Start, FirstStage, authentikVars
  <1>8. CASE ClusterActs
    BY <1>8 DEF ClusterActs, authentikVars
  <1>9. CASE Interference
    <2>1. pc' = pc /\ providers' \subseteq providers
      BY <1>9
      DEF Interference, AdminActs, UserActs, authentikVars, DropProvider, DropApplication,
          DropGroup, PutGroup, DropBinding
    <2> QED BY <2>1
  <1>10. CASE UNCHANGED vars
    BY <1>10 DEF vars, authentikVars
  <1> QED BY <1>4, <1>5, <1>6, <1>7, <1>8, <1>9, <1>10 DEF Next, Reconcile

-----------------------------------------------------------------------------
(* Groups the operator created. *)

\* The history only grows, and a provisioning step adds to createdGroups only
\* what it adds to the history.
LEMMA ProvisionCreates ==
  ASSUME TypeOK, StageFacts, Provision
  PROVE  /\ everCreated \subseteq everCreated'
         /\ loc'.created \subseteq loc.created \union everCreated'
         /\ pc' # "cleanGroups"
  <1> USE DEF Continue, Return, Abort, Answered, NoWork, Reads, Requests
  <1>w. loc \in Work
    BY DEF TypeOK
  <1>1. CASE AddFinalizer \/ UpdateStatus \/ FailRequeue
    BY <1>1 DEF AddFinalizer, UpdateStatus, FailRequeue, Update
  <1>2. CASE ResolveProvider \/ ResolveReferences \/ GetApplication \/ ListBindings \/ FetchDiscovery
    <2>1. /\ [loc EXCEPT !.todo = snap.spec.groups].created = loc.created
          /\ [loc EXCEPT !.current = application].created = loc.created
          /\ [loc EXCEPT !.stale = bindings, !.todo = snap.spec.groups].created = loc.created
      BY <1>w DEF Work
    <2>2. CASE ResolveProvider \/ ResolveReferences \/ GetApplication
      BY <2>1, <2>2 DEF ResolveProvider, ResolveReferences, GetApplication
    <2>3. CASE ListBindings
      BY <2>1, <2>3 DEF ListBindings, AfterBindings
    <2>4. CASE FetchDiscovery
      BY <2>4 DEF FetchDiscovery
    <2> QED BY <1>2, <2>2, <2>3, <2>4
  <1>3. ASSUME NEW g \in Groups, ResolveGroup(g)
        PROVE  /\ everCreated' = everCreated /\ loc'.created \subseteq loc.created
               /\ pc' # "cleanGroups"
    <2>1. groups[g].uuid \in Nat
      BY DEF TypeOK, AuthentikTypeOK, Group
    <2>2. [loc EXCEPT !.group = g].created = loc.created
      BY <1>w DEF Work
    <2>3. Resolved(g, groups[g].uuid).created = loc.created
      BY <1>w, <2>1, ResolvedTypes
    <2>4. CASE Continue(AfterGroup(g), Resolved(g, groups[g].uuid))
      BY <1>3, <2>3, <2>4 DEF ResolveGroup, AfterGroup
    <2>5. CASE Continue("createGroup", [loc EXCEPT !.group = g])
      BY <1>3, <2>2, <2>5 DEF ResolveGroup
    <2>6. CASE Abort
      BY <1>3, <2>6 DEF ResolveGroup
    <2> QED BY <1>3, <2>4, <2>5, <2>6 DEF ResolveGroup
  <1>4. CASE CreateGroup
    <2>1. loc.group \in Groups
      BY <1>4 DEF CreateGroup, StageFacts
    <2>2. groups[loc.group].uuid + 1 \in Nat
      BY <2>1 DEF TypeOK, AuthentikTypeOK, Group
    <2> QED BY <1>4, <1>w, <2>1, <2>2, ResolvedTypes DEF CreateGroup, AfterGroup
  <1>5. CASE GetProvider \/ FindProvider
    BY <1>5, <1>w DEF GetProvider, FindProvider, UseProvider, Work
  <1>6. CASE UpdateProvider \/ CreateProvider \/ EnsureApplication
    BY <1>6, <1>w DEF UpdateProvider, CreateProvider, EnsureApplication, Work
  <1>7. ASSUME NEW g \in Groups, DeleteBinding(g) \/ CreateBinding(g)
        PROVE  /\ everCreated' = everCreated /\ loc'.created \subseteq loc.created
               /\ pc' # "cleanGroups"
    BY <1>7, <1>w DEF DeleteBinding, CreateBinding, AfterBindings, Work
  <1>8. CASE WriteSecrets \/ DeleteStaleSecrets
    BY <1>8, <1>w DEF WriteSecrets, DeleteStaleSecrets, SyncRest, Work
  <1>9. ASSUME NEW r \in Routes, DeleteOrphanPolicy(r) \/ SyncPolicy(r)
        PROVE  /\ everCreated' = everCreated /\ loc'.created \subseteq loc.created
               /\ pc' # "cleanGroups"
    BY <1>9, <1>w DEF DeleteOrphanPolicy, SyncPolicy, SyncRest, Work
  <1> QED BY <1>1, <1>2, <1>3, <1>4, <1>5, <1>6, <1>7, <1>8, <1>9 DEF Provision

\* cleanup creates no group, and deletes only what the status says was created.
LEMMA CleanUpCreates ==
  ASSUME IInv, CleanUp
  PROVE  /\ everCreated' = everCreated
         /\ loc'.created \subseteq loc.created
         /\ pc' = "cleanGroups" => loc'.todo \subseteq everCreated
  <1> USE DEF Continue, Return, Abort, Answered, NoWork, Reads, Requests, CleanRest
  <1>w. loc \in Work
    BY DEF IInv, TypeOK
  <1>1. CASE ReadCredentials \/ DeleteApplication \/ RemoveFinalizer
    BY <1>1, <1>w DEF ReadCredentials, DeleteApplication, RemoveFinalizer, Update, Work
  <1>2. ASSUME NEW g \in Groups, Unbind(g)
        PROVE  /\ everCreated' = everCreated /\ loc'.created \subseteq loc.created
               /\ pc' # "cleanGroups"
    BY <1>2, <1>w DEF Unbind, Work
  <1>3. CASE DeleteProvider
    <2>1. CleanupGroups \subseteq everCreated
      BY <1>3 DEF DeleteProvider, CleanupGroups, IInv, CreatedByOperator
    <2> QED BY <1>3, <1>w, <2>1 DEF DeleteProvider, Work
  <1>4. ASSUME NEW g \in Groups, CleanGroup(g)
        PROVE  /\ everCreated' = everCreated /\ loc'.created \subseteq loc.created
               /\ pc' = "cleanGroups" => loc'.todo \subseteq everCreated
    <2>1. loc.todo \ {g} \subseteq everCreated
      BY <1>4 DEF CleanGroup, IInv, CreatedByOperator
    <2> QED BY <1>4, <1>w, <2>1 DEF CleanGroup, Work
  <1> QED BY <1>1, <1>2, <1>3, <1>4 DEF CleanUp

\* Every created group that is tracked was created by the operator.
LEMMA CreatedByOperatorStep ==
  ASSUME IInv, [Next]_vars
  PROVE  CreatedByOperator'
  <1> USE DEF IInv
  <1>1. CASE Provision \/ CleanUp
    <2>1. /\ everCreated \subseteq everCreated'
          /\ loc'.created \subseteq everCreated'
          /\ pc' = "cleanGroups" => loc'.todo \subseteq everCreated'
      BY <1>1, ProvisionCreates, CleanUpCreates DEF CreatedByOperator
    <2>2. cached' = cached /\ app'.status.created \subseteq app.status.created \union loc.created
      BY <1>1, WorkerShape, WriteEffect
    <2>3. pc' # "idle" => pc # "idle" /\ snap' = snap
      BY <1>1, WorkerShape
      DEF Moves, Return, Provisioning, Cleanup, Stages, RequeueStages, ErrorStages,
          LoggedStages, WriteStages
    <2> QED BY <2>1, <2>2, <2>3 DEF CreatedByOperator
  <1>2. CASE CallFails
    <2>1. pc # "idle" /\ pc' # "cleanGroups"
      BY <1>2 DEF CallFails, Abort, Continue, Return, RequeueStages, ErrorStages
    <2>2. Abort
      BY <1>2 DEF CallFails
    <2>3. UNCHANGED <<app, cached, everCreated>>
      BY <1>2 DEF CallFails
    <2>4. CASE pc \in RequeueStages
      BY <2>1, <2>2, <2>3, <2>4 DEF Abort, Continue, CreatedByOperator
    <2>5. CASE pc \notin RequeueStages
      BY <2>1, <2>2, <2>3, <2>5 DEF Abort, Return, CreatedByOperator, NoWork
    <2> QED BY <2>4, <2>5
  <1>3. CASE Start
    BY <1>3 DEF Start, FirstStage, CreatedByOperator
  <1>4. CASE Crash
    BY <1>4 DEF Crash, Return, NoWork, CreatedByOperator
  <1>5. CASE ClusterActs /\ (EditSpec \/ DeleteApp)
    BY <1>5, UserWriteEffect DEF ClusterActs, CreatedByOperator
  <1>6. CASE ClusterActs /\ (WatchEvent \/ CollectGarbage)
    BY <1>6 DEF ClusterActs, WatchEvent, CollectGarbage, objectVars, CreatedByOperator
  <1>7. CASE Interference
    BY <1>7 DEF Interference, objectVars, CreatedByOperator
  <1>8. CASE UNCHANGED vars
    BY <1>8 DEF vars, clusterVars, CreatedByOperator
  <1> QED
    BY <1>1, <1>2, <1>3, <1>4, <1>5, <1>6, <1>7, <1>8 DEF Next, Reconcile, ClusterActs

-----------------------------------------------------------------------------
(* Cleanup, and what it has got rid of. *)

\* cleanup only removes things from Authentik.
LEMMA CleanUpShrinks ==
  ASSUME TypeOK, CleanUp
  PROVE  /\ lastPK' = lastPK /\ providers' \subseteq providers
         /\ application = None => application' = None
         /\ \A g \in Groups : /\ groups'[g].uuid = groups[g].uuid
                            /\ groups'[g].owner \in {groups[g].owner, "absent"}
                            /\ ~(bindings'[g] > bindings[g])
  <1> DEFINE Shrinks ==
        /\ lastPK' = lastPK /\ providers' \subseteq providers
        /\ application = None => application' = None
        /\ \A g \in Groups : /\ groups'[g].uuid = groups[g].uuid
                           /\ groups'[g].owner \in {groups[g].owner, "absent"}
                           /\ ~(bindings'[g] > bindings[g])
  <1> USE DEF TypeOK, AuthentikTypeOK, Group
  <1>1. ASSUME UNCHANGED authentikVars PROVE Shrinks
    BY <1>1 DEF authentikVars
  <1>2. ASSUME NEW g \in Groups, DropBinding(g) PROVE Shrinks
    BY <1>2 DEF DropBinding
  <1>3. ASSUME NEW g \in Groups, DropGroup(g) PROVE Shrinks
    BY <1>3 DEF DropGroup
  <1>4. ASSUME DropApplication PROVE Shrinks
    BY <1>4 DEF DropApplication
  <1>5. ASSUME NEW pk, DropProvider(pk) PROVE Shrinks
    BY <1>5 DEF DropProvider
  <1>6. Shrinks
    BY <1>1, <1>2, <1>3, <1>4, <1>5
    DEF CleanUp, ReadCredentials, Unbind, CleanGroup, DeleteApplication, DeleteProvider,
        RemoveFinalizer, Reads, Update
  <1> QED BY <1>6

\* Admins never create an application or a provider, nor a group in the
\* operator's name.
LEMMA InterferenceShrinks ==
  ASSUME TypeOK, Interference
  PROVE  /\ providers' \subseteq providers
         /\ application = None => application' = None
         /\ \A g \in Groups : groups'[g].owner = "operator" => groups[g].owner = "operator"
  <1> DEFINE Shrinks ==
        /\ providers' \subseteq providers
        /\ application = None => application' = None
        /\ \A g \in Groups : groups'[g].owner = "operator" => groups[g].owner = "operator"
  <1> USE DEF TypeOK, AuthentikTypeOK, Group
  <1>1. ASSUME UNCHANGED authentikVars PROVE Shrinks
    BY <1>1 DEF authentikVars
  <1>2. ASSUME NEW g \in Groups, DropBinding(g) \/ DropGroup(g) \/ PutGroup(g, "admin") PROVE Shrinks
    BY <1>2 DEF DropBinding, DropGroup, PutGroup
  <1>3. ASSUME DropApplication PROVE Shrinks
    BY <1>3 DEF DropApplication
  <1>4. ASSUME NEW pk, DropProvider(pk) PROVE Shrinks
    BY <1>4 DEF DropProvider
  <1>5. Shrinks
    BY <1>1, <1>2, <1>3, <1>4 DEF Interference, AdminActs, UserActs
  <1> QED BY <1>5

\* What a cleanup has passed stays removed until it ends.
LEMMA CleanedUpStep ==
  ASSUME IInv, [Next]_vars
  PROVE  CleanedUp'
  <1> USE DEF IInv
  <1>c. Cleanup \intersect Provisioning = {} /\ "idle" \notin Cleanup
    BY DEF Cleanup, Provisioning
  <1>1. CASE Provision \/ CallFails \/ Crash
    <2>1. pc' \notin Cleanup
      <3>1. CASE Provision
        <4>1. pc \notin Cleanup
          BY <3>1
          DEF Provision, AddFinalizer, ResolveProvider, ResolveReferences, ResolveGroup,
              CreateGroup, GetApplication, GetProvider, FindProvider, UpdateProvider,
              CreateProvider, EnsureApplication, ListBindings, DeleteBinding, CreateBinding,
              FetchDiscovery, WriteSecrets, DeleteStaleSecrets, DeleteOrphanPolicy, SyncPolicy,
              UpdateStatus, FailRequeue, Cleanup
        <4> QED BY <3>1, <4>1, <1>c, ProvisionShape DEF Moves, Return
      <3>2. CASE CallFails \/ Crash
        BY <3>2 DEF CallFails, Crash, Abort, Continue, Return, Cleanup
      <3> QED BY <1>1, <3>1, <3>2
    <2> QED BY <2>1 DEF CleanedUp
  <1>2. CASE CleanUp
    <2>1. snap' = snap \/ pc' = "idle"
      BY <1>2, CleanUpShape DEF Moves, Return
    <2>2. SUFFICES ASSUME pc' \in Cleanup, snap' = snap, snap.status.tracked
                   PROVE  CleanedUp'
      BY <2>1 DEF CleanedUp, Cleanup
    <2>3. pc \in Cleanup
      BY <1>2
      DEF CleanUp, ReadCredentials, Unbind, CleanGroup, DeleteApplication, DeleteProvider,
          RemoveFinalizer, Cleanup
    <2>4. CASE ReadCredentials
      BY <2>4 DEF ReadCredentials, Continue, CleanedUp
    <2>5. ASSUME NEW g \in Groups, Unbind(g) PROVE CleanedUp'
      BY <2>5 DEF Unbind, Answered, Continue, Abort, Return, CleanedUp, RequeueStages
    <2>6. CASE DeleteApplication
      BY <2>6
      DEF DeleteApplication, DropApplication, Answered, Continue, Abort, Return, CleanedUp,
          RequeueStages
    <2>7. CASE DeleteProvider
      <3>1. \/ pc' = "idle"
            \/ /\ pc' = IF CleanupGroups = {} THEN "removeFinalizer" ELSE "cleanGroups"
               /\ loc' = [loc EXCEPT !.todo = CleanupGroups]
        BY <2>7 DEF DeleteProvider, CleanRest, Answered, Continue, Abort, Return, RequeueStages
      <3>2. loc' = [loc EXCEPT !.todo = CleanupGroups] => loc'.todo = CleanupGroups
        BY DEF TypeOK, Work
      <3>3. CleanupGroups' = CleanupGroups
        BY <2>2 DEF CleanupGroups
      <3>4. application' = None /\ snap.status.provider \notin PKs'
        BY <2>3, <2>7, <2>2 DEF DeleteProvider, DropProvider, CleanedUp, PKs
      <3> QED BY <2>2, <3>1, <3>2, <3>3, <3>4 DEF CleanedUp, Cleanup
    <2>8. ASSUME NEW g \in Groups, CleanGroup(g) PROVE CleanedUp'
      <3>1. \/ pc' = "idle"
            \/ /\ pc' = IF loc.todo = {g} THEN "removeFinalizer" ELSE "cleanGroups"
               /\ loc' = [loc EXCEPT !.todo = loc.todo \ {g}]
        BY <2>8 DEF CleanGroup, CleanRest, Answered, Continue, Abort, Return, RequeueStages
      <3>2. loc' = [loc EXCEPT !.todo = loc.todo \ {g}] => loc'.todo = loc.todo \ {g}
        BY DEF TypeOK, Work
      <3>3. CleanupGroups' = CleanupGroups
        BY <2>2 DEF CleanupGroups
      <3>4. application' = application /\ PKs' = PKs
        BY <2>8 DEF CleanGroup, DropGroup, authentikVars, PKs
      <3>5. groups'[g].owner # "operator"
        BY <2>8 DEF CleanGroup, DropGroup, authentikVars, Present, TypeOK, AuthentikTypeOK, Group
      <3>6. \A h \in Groups : groups'[h].owner = "operator" => groups[h].owner = "operator"
        BY <1>2, CleanUpShrinks
      <3>7. pc = "cleanGroups" /\ CleanupGroups \subseteq Groups
        BY <2>8, <2>3 DEF CleanGroup, CleanupGroups, StageFacts, Object, Status, Cleanup
      <3> QED
        BY <2>2, <2>3, <3>1, <3>2, <3>3, <3>4, <3>5, <3>6, <3>7 DEF CleanedUp, Cleanup
    <2>9. CASE RemoveFinalizer
      BY <2>9, <2>2 DEF RemoveFinalizer, Update, Return, Cleanup
    <2> QED BY <1>2, <2>4, <2>5, <2>6, <2>7, <2>8, <2>9 DEF CleanUp
  <1>3. CASE Start
    BY <1>3 DEF Start, FirstStage, CleanedUp
  <1>4. CASE ClusterActs \/ UNCHANGED vars
    BY <1>4 DEF ClusterActs, vars, authentikVars, CleanedUp, PKs, CleanupGroups
  <1>5. CASE Interference
    <2>1. UNCHANGED <<pc, snap, loc>> /\ CleanupGroups' = CleanupGroups
      BY <1>5 DEF Interference, CleanupGroups
    <2>2. PKs' \subseteq PKs
      BY <1>5, InterferenceShrinks DEF PKs
    <2>3. pc \in Cleanup => CleanupGroups \subseteq Groups
      BY DEF CleanupGroups, StageFacts, Object, Status, Cleanup
    <2> QED BY <1>5, <2>1, <2>2, <2>3, InterferenceShrinks DEF CleanedUp
  <1> QED BY <1>1, <1>2, <1>3, <1>4, <1>5 DEF Next, Reconcile

\* The last step of cleanup finds everything tracked gone.
LEMMA CleanupCompleteStep ==
  ASSUME IInv, [Next]_vars
  PROVE  CleanupComplete'
  <1> USE DEF IInv
  <1>1. SUFFICES ASSUME ~app'.exists, app'.status.tracked
                 PROVE  CleanupComplete'
    BY DEF CleanupComplete
  <1>c. app.status.created \intersect app.spec.cleanup \subseteq Groups
    BY DEF TypeOK, ClusterTypeOK, Object, Status
  \* An object that is gone is not written again.
  <1>2. ASSUME ~app.exists PROVE CleanupComplete'
    <2>1. pc \notin Provisioning
      BY <1>2
      DEF StageFacts, FinalizerHeld, Provisioning, Stages, RequeueStages, ErrorStages,
          LoggedStages, WriteStages
    <2>2. app' = app
      <3>1. CASE EditSpec \/ DeleteApp
        BY <1>2, <3>1 DEF EditSpec, DeleteApp
      <3>2. CASE Provision \/ CleanUp \/ CallFails
        BY <1>2, <3>2, WorkerShape, WriteEffect
      <3> QED
        BY <3>1, <3>2
        DEF Next, Reconcile, Start, Crash, ClusterActs, WatchEvent, CollectGarbage, objectVars,
            Interference, vars, clusterVars
    <2>3. CASE CleanUp
      BY <1>2, <1>c, <2>2, <2>3, CleanUpShrinks DEF CleanupComplete, PKs
    <2>4. CASE Interference
      BY <1>2, <1>c, <2>2, <2>4, InterferenceShrinks DEF CleanupComplete, PKs
    <2>5. CASE UNCHANGED authentikVars
      BY <1>2, <2>2, <2>5 DEF CleanupComplete, PKs, authentikVars
    <2>6. Provision => UNCHANGED authentikVars
      BY <2>1
      DEF Provision, AddFinalizer, ResolveProvider, ResolveReferences, ResolveGroup,
          CreateGroup, GetApplication, GetProvider, FindProvider, UpdateProvider,
          CreateProvider, EnsureApplication, ListBindings, DeleteBinding, CreateBinding,
          FetchDiscovery, WriteSecrets, DeleteStaleSecrets, DeleteOrphanPolicy, SyncPolicy,
          UpdateStatus, FailRequeue, Update, Provisioning, Cleanup, Stages, RequeueStages,
          ErrorStages, LoggedStages, WriteStages
    <2> QED
      BY <2>3, <2>4, <2>5, <2>6 DEF Next, Reconcile, Start, CallFails, Crash, ClusterActs, vars
  \* It goes in one way once it tracks anything: through cleanup's last step.
  <1>3. ASSUME app.exists PROVE CleanupComplete'
    <2>1. CASE EditSpec \/ DeleteApp
      BY <1>1, <1>3, <2>1, UserWriteEffect DEF FinalizerHeld
    <2>2. CASE Writes
      <3>1. /\ snap = app /\ pc = "removeFinalizer"
            /\ app'.spec = app.spec /\ app'.status = app.status
        BY <1>1, <1>3, <2>2, WriteEffect
      <3>2. UNCHANGED authentikVars
        BY <2>2 DEF Writes, AddFinalizer, UpdateStatus, FailRequeue, RemoveFinalizer, Update
      <3>3. /\ application = None /\ snap.status.provider \notin PKs
            /\ \A g \in CleanupGroups : groups[g].owner # "operator"
        BY <1>1, <3>1 DEF CleanedUp, Cleanup
      <3> QED BY <3>1, <3>2, <3>3 DEF CleanupComplete, CleanupGroups, authentikVars, PKs
    <2>3. CASE app' = app
      BY <1>1, <1>3, <2>3
    <2>4. \/ EditSpec \/ DeleteApp \/ Writes
          \/ app' = app
      BY WorkerShape
      DEF Next, Reconcile, Start, Crash, ClusterActs, WatchEvent, CollectGarbage, objectVars,
          Interference, vars, clusterVars
    <2> QED BY <2>1, <2>2, <2>3, <2>4
  <1> QED BY <1>2, <1>3

-----------------------------------------------------------------------------
(* The theorems. *)

\* The invariant holds when the resource is submitted.
LEMMA InitIInv ==
  ASSUME Init
  PROVE  IInv
  <1> USE DEF Init, AuthentikInit, ClusterInit
  <1>1. PICK spec \in Specs : app = NewObject(spec)
    OBVIOUS
  <1>2. app \in Object /\ app.exists /\ ~app.finalizer /\ ~app.deleting /\ app.status = EmptyStatus
    BY <1>1, SpecsAssumption DEF NewObject, Object, Status, EmptyStatus
  <1>3. AuthentikTypeOK
    BY DEF AuthentikTypeOK, Group, Owners, Provider, Application
  <1>4. TypeOK
    <2>1. 0 \in 0..MaxFaults /\ 0 \in 0..MaxOutside /\ 0 \in 0..MaxEdits
      BY BoundsAssumption, MaxEditsAssumption
    <2>2. ClusterTypeOK
      BY <1>2, <2>1 DEF ClusterTypeOK
    <2> QED BY <1>3, <2>1, <2>2, NoWorkType DEF TypeOK
  <1>5. FreshCopies /\ StageFacts /\ FinalizerHeld
    BY <1>2
    DEF FreshCopies, StageFacts, FinalizerHeld, EmptyStatus, Provisioning, Cleanup, Stages,
        RequeueStages, ErrorStages, LoggedStages, WriteStages
  <1>6. ProviderUnique /\ CreatedByOperator
    BY <1>2 DEF ProviderUnique, OneProvider, CreatedByOperator, EmptyStatus, NoWork
  <1>7. CleanedUp /\ CleanupComplete
    BY <1>2 DEF CleanedUp, CleanupComplete, Cleanup
  <1> QED BY <1>4, <1>5, <1>6, <1>7 DEF IInv

\* The invariant is inductive.
LEMMA StepIInv == IInv /\ [Next]_vars => IInv'
  <1> SUFFICES ASSUME IInv, [Next]_vars PROVE IInv'
    OBVIOUS
  <1>1. TypeOK'
    BY TypeStep DEF IInv
  <1> QED
    BY <1>1, StageFactsStep, FreshCopiesStep, FinalizerHeldStep, ProviderUniqueStep,
       CreatedByOperatorStep, CleanedUpStep, CleanupCompleteStep
    DEF IInv

\* Every reachable state satisfies the inductive invariant: it holds when the
\* resource is submitted and every step of the controller, the users, the
\* admins, the watch and a crash keeps it.
THEOREM Invariance == Spec => []IInv
  <1>1. Init => IInv
    BY InitIInv
  <1> QED BY <1>1, StepIInv, PTL DEF Spec

\* The state stays within its types.
THEOREM TypeCorrect == Spec => []TypeOK
  <1>1. IInv => TypeOK
    BY DEF IInv
  <1> QED BY <1>1, Invariance, PTL

\* There is never a second OAuth2 provider for the slug, whatever answers are
\* lost and wherever the operator is restarted.
THEOREM ProviderIsUnique == Spec => []OneProvider
  <1>1. IInv => OneProvider
    BY DEF IInv, ProviderUnique
  <1> QED BY <1>1, Invariance, PTL

\* An object that went through cleanup left no application, no recorded
\* provider and no tracked group to be cleaned up behind.
THEOREM CleanupIsComplete == Spec => []CleanupComplete
  <1>1. IInv => CleanupComplete
    BY DEF IInv
  <1> QED BY <1>1, Invariance, PTL

-----------------------------------------------------------------------------
(* What a step may never do. *)

\* A step that creates in Authentik is a step of provisioning.
LEMMA Creation ==
  ASSUME IInv, [Next]_vars, OperatorActs,
         \/ lastPK' > lastPK
         \/ application = None /\ application' # None
         \/ \E g \in Groups : groups'[g].uuid > groups[g].uuid \/ bindings'[g] > bindings[g]
  PROVE  app.exists /\ app.finalizer
  <1> USE DEF IInv
  <1>1. ~UNCHANGED authentikVars
    <2>1. lastPK \in Nat /\ \A g \in Groups : groups[g].uuid \in Nat /\ bindings[g] \in Nat
      BY DEF TypeOK, AuthentikTypeOK, Group
    <2> QED BY <2>1 DEF authentikVars
  <1>2. ~Interference
    BY DEF Interference, OperatorActs, TypeOK
  <1>3. ~CleanUp
    <2>1. SUFFICES ASSUME CleanUp PROVE FALSE
      OBVIOUS
    <2>2. lastPK \in Nat /\ \A g \in Groups : groups[g].uuid \in Nat
      BY DEF TypeOK, AuthentikTypeOK, Group
    <2> QED BY <2>1, <2>2, CleanUpShrinks
  <1>4. Provision
    BY <1>1, <1>2, <1>3 DEF Next, Reconcile, Start, CallFails, Crash, ClusterActs, vars
  <1>5. ~AddFinalizer
    BY <1>1 DEF AddFinalizer, Update
  <1>6. pc \in Provisioning
    BY <1>4, <1>5
    DEF Provision, ResolveProvider, ResolveReferences, ResolveGroup, CreateGroup,
        GetApplication, GetProvider, FindProvider, UpdateProvider, CreateProvider,
        EnsureApplication, ListBindings, DeleteBinding, CreateBinding, FetchDiscovery,
        WriteSecrets, DeleteStaleSecrets, DeleteOrphanPolicy, SyncPolicy, UpdateStatus,
        FailRequeue, Provisioning, Cleanup, Stages, RequeueStages, ErrorStages, LoggedStages,
        WriteStages
  <1>7. pc # "idle"
    BY <1>6 DEF Provisioning, Stages, RequeueStages, ErrorStages, LoggedStages, WriteStages
  <1> QED BY <1>6, <1>7 DEF StageFacts, FinalizerHeld

\* Nothing is created in Authentik but for an object that exists and carries
\* the finalizer, on however old a copy the reconcile works.
THEOREM CreationGuarded == Spec => CreationIsGuarded
  <1>1. IInv /\ [Next]_vars =>
          [ /\ OperatorActs
            /\ \/ lastPK' > lastPK
               \/ application = None /\ application' # None
               \/ \E g \in Groups : groups'[g].uuid > groups[g].uuid \/ bindings'[g] > bindings[g]
            => app.exists /\ app.finalizer ]_vars
    BY Creation
  <1> QED BY <1>1, Invariance, PTL DEF Spec, CreationIsGuarded

\* A step that writes the status keeps the tracked groups.
LEMMA Kept ==
  ASSUME IInv, [Next]_vars
  PROVE  app.status.created \subseteq app'.status.created
  <1> USE DEF IInv
  <1>1. CASE EditSpec \/ DeleteApp
    BY <1>1, UserWriteEffect
  <1>2. CASE Provision \/ CleanUp \/ CallFails
    <2>1. CASE Writes
      <3>1. CASE pc = "addFinalizer"
        BY <2>1, <3>1, WriteEffect
      <3>2. CASE pc # "addFinalizer"
        BY <2>1, <3>2, WriteEffect
      <3> QED BY <3>1, <3>2
    <2>2. CASE ~Writes
      BY <1>2, <2>2, WorkerShape
    <2> QED BY <2>1, <2>2
  <1> QED
    BY <1>1, <1>2
    DEF Next, Reconcile, Start, Crash, ClusterActs, WatchEvent, CollectGarbage, objectVars,
        Interference, vars, clusterVars

\* What the status tracks as created is never forgotten, though every
\* reconcile writes the whole status anew.
THEOREM TrackingIsKept == Spec => CreatedGroupsKept
  <1>1. IInv /\ [Next]_vars => [app.status.created \subseteq app'.status.created]_vars
    BY Kept
  <1> QED BY <1>1, Invariance, PTL DEF Spec, CreatedGroupsKept

\* A step of the operator that deletes a group is a step of cleanup.
LEMMA Deletion ==
  ASSUME IInv, [Next]_vars, NEW g \in Groups,
         OperatorActs, Present(g), groups'[g].owner = "absent"
  PROVE  g \in everCreated
  <1> USE DEF IInv
  <1>1. groups' # groups
    BY DEF Present
  <1>2. ~Interference
    BY DEF Interference, OperatorActs, TypeOK
  <1>3. ~Provision
    <2>1. SUFFICES ASSUME Provision PROVE FALSE
      OBVIOUS
    <2>2. ~CreateGroup
      <3>1. SUFFICES ASSUME CreateGroup PROVE FALSE
        OBVIOUS
      <3>2. loc.group \in Groups
        BY <3>1 DEF CreateGroup, StageFacts
      <3>3. PutGroup(loc.group, "operator")
        BY <1>1, <3>1 DEF CreateGroup, authentikVars
      <3> QED BY <3>2, <3>3 DEF PutGroup, Present, TypeOK, AuthentikTypeOK, Group
    <2> QED
      BY <1>1, <2>1, <2>2
      DEF Provision, AddFinalizer, ResolveProvider, ResolveReferences, ResolveGroup,
          GetApplication, GetProvider, FindProvider, UpdateProvider, CreateProvider,
          EnsureApplication, ListBindings, DeleteBinding, CreateBinding, FetchDiscovery,
          WriteSecrets, DeleteStaleSecrets, DeleteOrphanPolicy, SyncPolicy, UpdateStatus,
          FailRequeue, Reads, Update, authentikVars, DropBinding, PutBinding, PutProvider,
          SetProvider, SetApplication
  <1>4. CleanUp
    BY <1>1, <1>2, <1>3
    DEF Next, Reconcile, Start, CallFails, Crash, ClusterActs, vars, authentikVars
  <1>5. PICK h \in Groups : CleanGroup(h)
    BY <1>1, <1>4
    DEF CleanUp, ReadCredentials, Unbind, DeleteApplication, DeleteProvider, RemoveFinalizer,
        Reads, Update, authentikVars, DropBinding, DropApplication, DropProvider
  <1>6. h = g
    BY <1>5 DEF CleanGroup, DropGroup, Present, authentikVars, TypeOK, AuthentikTypeOK
  <1> QED BY <1>5, <1>6 DEF CleanGroup, CreatedByOperator

\* The operator deletes groups only under names it once created itself.
THEOREM DeletionIsGuarded == Spec => OnlyCreatedNamesDeleted
  <1>1. IInv /\ [Next]_vars =>
          [ \A g \in Groups :
              OperatorActs /\ Present(g) /\ groups'[g].owner = "absent" => g \in everCreated ]_vars
    BY Deletion
  <1> QED BY <1>1, Invariance, PTL DEF Spec, OnlyCreatedNamesDeleted
-----------------------------------------------------------------------------
(* The mapping to Lifecycle. *)

\* Life's view of the object changes only with the object.
LEMMA ObjectKeepsView ==
  ASSUME app' = app
  PROVE  /\ PhaseOf(app)' = PhaseOf(app)
         /\ Recorded(app.status)' = Recorded(app.status)
         /\ GroupThings(app.spec.cleanup)' = GroupThings(app.spec.cleanup)
  BY DEF PhaseOf, Recorded, GroupThings, ProviderThings, TheApplication

\* Life's view of Authentik changes only with Authentik.
LEMMA AuthentikKeepsAssets ==
  ASSUME UNCHANGED authentikVars
  PROVE  Assets' = Assets
  BY DEF Assets, authentikVars, PKs, GroupThings, ProviderThings, TheApplication

\* The three kinds of things are told apart, and each by its identity.
LEMMA AssetKinds ==
  /\ \A g \in Groups : Thing("group", g) \in Assets <=> groups[g].owner = "operator"
  /\ \A pk : Thing("provider", pk) \in Assets <=> pk \in PKs
  /\ Thing("application", 0) \in Assets <=> application # None
  /\ \A t \in Assets : \/ \E g \in Groups : t = Thing("group", g)
                       \/ \E pk \in PKs : t = Thing("provider", pk)
                       \/ t = Thing("application", 0)
  <1> USE DEF Assets, GroupThings, ProviderThings, TheApplication, Thing
  <1>1. \A g \in Groups : Thing("group", g) \in Assets <=> groups[g].owner = "operator"
    OBVIOUS
  <1>2. \A pk : Thing("provider", pk) \in Assets <=> pk \in PKs
    OBVIOUS
  <1>3. Thing("application", 0) \in Assets <=> application # None
    OBVIOUS
  <1>4. \A t \in Assets : \/ \E g \in Groups : t = Thing("group", g)
                          \/ \E pk \in PKs : t = Thing("provider", pk)
                          \/ t = Thing("application", 0)
    OBVIOUS
  <1> QED BY <1>1, <1>2, <1>3, <1>4

\* The phases of an object, one by one.
LEMMA Phases ==
  ASSUME NEW obj, obj \in Object
  PROVE  /\ ~obj.exists => PhaseOf(obj) = "gone"
         /\ obj.exists /\ obj.deleting => PhaseOf(obj) = "deleting"
         /\ obj.exists /\ ~obj.deleting /\ obj.finalizer => PhaseOf(obj) = "guarded"
         /\ obj.exists /\ ~obj.deleting /\ ~obj.finalizer => PhaseOf(obj) = "new"
  BY Zenon DEF PhaseOf

-----------------------------------------------------------------------------
(* What steps do to Authentik, as Lifecycle sees it. *)

\* A step that only takes away, takes assets away.
LEMMA LessIsLost ==
  ASSUME /\ providers' \subseteq providers
         /\ application = None => application' = None
         /\ \A g \in Groups : groups'[g].owner = "operator" => groups[g].owner = "operator"
  PROVE  Assets' \subseteq Assets
  BY DEF Assets, PKs, GroupThings, ProviderThings, TheApplication

\* A step that takes nothing away keeps the assets.
LEMMA MoreIsKept ==
  ASSUME /\ PKs \subseteq PKs'
         /\ application # None => application' # None
         /\ \A g \in Groups : groups[g].owner = "operator" => groups'[g].owner = "operator"
  PROVE  Assets \subseteq Assets'
  BY DEF Assets, GroupThings, ProviderThings, TheApplication

\* Provisioning takes no application, provider or group of the operator away.
LEMMA ProvisionKeeps ==
  ASSUME IInv, Provision
  PROVE  Assets \subseteq Assets'
  <1> USE DEF IInv
  <1> DEFINE Keeps == /\ PKs \subseteq PKs'
                      /\ application # None => application' # None
                      /\ \A g \in Groups : groups[g].owner = "operator" =>
                                             groups'[g].owner = "operator"
  <1> SUFFICES Keeps
    BY MoreIsKept
  <1>1. ASSUME UNCHANGED authentikVars PROVE Keeps
    BY <1>1 DEF authentikVars, PKs
  <1>2. CASE CreateGroup
    <2>1. CASE ~Present(loc.group) /\ PutGroup(loc.group, "operator")
      BY <2>1 DEF PutGroup, Present, PKs, TypeOK, AuthentikTypeOK, Group
    <2> QED BY <1>1, <1>2, <2>1 DEF CreateGroup
  <1>3. CASE UpdateProvider
    <2>1. CASE loc.provider \in PKs /\ SetProvider(loc.provider, snap.spec.cfg)
      <3>1. [pk |-> loc.provider, cfg |-> snap.spec.cfg] \in providers'
        BY <2>1 DEF SetProvider
      <3>2. \A p \in providers : p.pk = loc.provider \/ p \in providers'
        BY <2>1 DEF SetProvider
      <3>3. PKs \subseteq PKs'
        BY <3>1, <3>2 DEF PKs
      <3> QED BY <2>1, <3>3 DEF SetProvider
    <2> QED BY <1>1, <1>3, <2>1 DEF UpdateProvider
  <1>4. CASE CreateProvider
    BY <1>4 DEF CreateProvider, PutProvider, PKs
  <1>5. CASE EnsureApplication
    <2>1. pc # "idle"
      BY <1>5 DEF EnsureApplication
    <2>2. [provider |-> loc.provider, cfg |-> snap.spec.cfg] \in Application
      BY <2>1 DEF TypeOK, Work, StageFacts, Object, AppSpec, Application
    <2>3. CASE SetApplication(loc.provider, snap.spec.cfg)
      BY <2>2, <2>3, NoneAssumption DEF SetApplication, PKs
    <2> QED BY <1>1, <1>5, <2>3 DEF EnsureApplication
  <1>6. ASSUME NEW g \in Groups, DeleteBinding(g) \/ CreateBinding(g) PROVE Keeps
    BY <1>1, <1>6 DEF DeleteBinding, CreateBinding, DropBinding, PutBinding, PKs
  <1> QED
    BY <1>1, <1>2, <1>3, <1>4, <1>5, <1>6
    DEF Provision, AddFinalizer, ResolveProvider, ResolveReferences, ResolveGroup,
        GetApplication, GetProvider, FindProvider, ListBindings, FetchDiscovery, WriteSecrets,
        DeleteStaleSecrets, DeleteOrphanPolicy, SyncPolicy, UpdateStatus, FailRequeue, Reads,
        Update

-----------------------------------------------------------------------------
(* What steps do to the object, as Lifecycle sees it. *)

\* An edit changes what is wanted cleaned up, or nothing that counts here.
LEMMA EditIsEdit ==
  ASSUME IInv, EditSpec, UNCHANGED authentikVars
  PROVE  [Life!Next]_(Life!vars)
  <1>0. app \in Object /\ app.exists
    BY DEF IInv, TypeOK, ClusterTypeOK, EditSpec
  <1>1. PICK spec \in Specs : UserWrites([app EXCEPT !.spec = spec])
    BY DEF EditSpec
  <1>2. app' = [app EXCEPT !.spec = spec]
    BY <1>0, <1>1 DEF UserWrites, Store, Settled, IInv, FinalizerHeld, Object
  <1>3. /\ app' \in Object /\ app'.status = app.status
        /\ app'.exists = app.exists /\ app'.deleting = app.deleting
        /\ app'.finalizer = app.finalizer
    BY <1>0, <1>2, SpecsAssumption DEF Object
  <1>4. PhaseOf(app)' = PhaseOf(app) /\ PhaseOf(app) # "gone"
    BY <1>0, <1>3, Phases
  <1>5. Recorded(app.status)' = Recorded(app.status)
    BY <1>3 DEF Recorded, GroupThings, ProviderThings, TheApplication
  <1> QED
    BY <1>4, <1>5, AuthentikKeepsAssets DEF Life!Next, Life!Edit, Life!vars

\* A user's deletion marks a guarded object and removes any other.
LEMMA DeleteIsDelete ==
  ASSUME IInv, DeleteApp, UNCHANGED authentikVars
  PROVE  Life!Delete
  <1>0. app \in Object /\ app.exists /\ ~app.deleting
    BY DEF IInv, TypeOK, ClusterTypeOK, DeleteApp
  <1>1. app' = Settled([app EXCEPT !.deleting = TRUE])
    BY DEF DeleteApp, UserWrites, Store
  <1>2. /\ app' \in Object /\ app'.status = app.status /\ app'.spec = app.spec
        /\ app'.deleting /\ (app'.exists <=> app.finalizer)
    BY <1>0, <1>1 DEF Settled, Object
  <1>3. \/ PhaseOf(app) = "new" /\ PhaseOf(app)' = "gone"
        \/ PhaseOf(app) = "guarded" /\ PhaseOf(app)' = "deleting"
    BY <1>0, <1>2, Phases
  <1>4. /\ Recorded(app.status)' = Recorded(app.status)
        /\ GroupThings(app.spec.cleanup)' = GroupThings(app.spec.cleanup)
    BY <1>2 DEF Recorded, GroupThings, ProviderThings, TheApplication
  <1> QED BY <1>3, <1>4, AuthentikKeepsAssets DEF Life!Delete

\* Adding the finalizer guards a new object.
LEMMA FinalizerGuards ==
  ASSUME IInv, TypeOK', AddFinalizer, app' # app
  PROVE  Life!Guard
  <1> USE DEF IInv
  <1>1. Writes /\ pc = "addFinalizer" /\ UNCHANGED authentikVars
    BY DEF Writes, AddFinalizer, Update
  <1>2. /\ app.exists /\ ~app.deleting /\ ~app.finalizer
        /\ app'.exists /\ ~app'.deleting /\ app'.finalizer
        /\ app'.spec = app.spec /\ app'.status = app.status
    BY <1>1, WriteEffect
  <1>3. PhaseOf(app) = "new" /\ PhaseOf(app)' = "guarded"
    BY <1>2, Phases DEF TypeOK, ClusterTypeOK
  <1>4. /\ Recorded(app.status)' = Recorded(app.status)
        /\ GroupThings(app.spec.cleanup)' = GroupThings(app.spec.cleanup)
    BY <1>2 DEF Recorded, GroupThings, ProviderThings, TheApplication
  <1> QED BY <1>1, <1>3, <1>4, AuthentikKeepsAssets DEF Life!Guard

\* A status that is written tracks what the last one tracked.
LEMMA StatusWriteTracks ==
  ASSUME IInv, UpdateStatus \/ FailRequeue, app' # app
  PROVE  app.status.tracked => app'.status.tracked
  <1>1. snap \in Object /\ ~snap.deleting
    BY DEF IInv, StageFacts, UpdateStatus, FailRequeue, Provisioning, Cleanup, Stages,
           WriteStages
  <1>2. PICK obj \in {[snap EXCEPT !.status = ReadyStatus],
                      [snap EXCEPT !.status.ready = FALSE]} : Update(obj)
    BY DEF UpdateStatus, FailRequeue
  <1>3. snap = app /\ Store(obj)
    BY <1>2, UpdateEffect
  <1>4. ~obj.deleting /\ (snap.status.tracked => obj.status.tracked)
    BY <1>1, <1>2 DEF Object, Status, ReadyStatus
  <1> QED BY <1>3, <1>4, StoreEffect

\* Writing the status records, for a guarded object, and forgets nothing but a
\* provider.
LEMMA StatusIsRecord ==
  ASSUME IInv, TypeOK', UpdateStatus \/ FailRequeue, app' # app
  PROVE  Life!Record
  <1> USE DEF IInv
  <1>1. Writes /\ pc \in {"updateStatus", "failRequeue"} /\ UNCHANGED authentikVars
    BY DEF Writes, UpdateStatus, FailRequeue, Update
  <1>2. pc \in Provisioning
    BY <1>1 DEF Provisioning, Cleanup, Stages, WriteStages
  <1>3. /\ snap = app /\ app.exists /\ ~app.deleting
        /\ app'.exists /\ ~app'.deleting /\ app'.finalizer /\ app'.spec = app.spec
        /\ app.status.created \subseteq app'.status.created
    BY <1>1, WriteEffect
  <1>4. app.finalizer
    BY <1>2, <1>3 DEF StageFacts
  <1>5. PhaseOf(app) = "guarded" /\ PhaseOf(app)' = "guarded"
    BY <1>3, <1>4, Phases DEF TypeOK, ClusterTypeOK
  <1>6. {t \in Recorded(app.status) : t.kind # "provider"} \subseteq Recorded(app.status)'
    BY <1>3, StatusWriteTracks
    DEF Recorded, GroupThings, ProviderThings, TheApplication, Thing
  <1>7. GroupThings(app.spec.cleanup)' = GroupThings(app.spec.cleanup)
    BY <1>3 DEF GroupThings
  <1> QED BY <1>1, <1>5, <1>6, <1>7, AuthentikKeepsAssets DEF Life!Record

\* Removing the finalizer releases an object when nothing it is obliged to
\* clean up is left.
LEMMA FinalizerReleases ==
  ASSUME IInv, TypeOK', RemoveFinalizer, app' # app
  PROVE  Life!Release
  <1> USE DEF IInv
  <1>1. Writes /\ pc = "removeFinalizer" /\ UNCHANGED authentikVars
    BY DEF Writes, RemoveFinalizer, Update
  <1>2. /\ snap = app /\ app.exists /\ app.deleting /\ ~app'.exists
        /\ app'.spec = app.spec /\ app'.status = app.status
    BY <1>1, WriteEffect
  <1>3. PhaseOf(app) = "deleting" /\ PhaseOf(app)' = "gone"
    BY <1>2, Phases DEF TypeOK, ClusterTypeOK
  <1>4. /\ Recorded(app.status)' = Recorded(app.status)
        /\ GroupThings(app.spec.cleanup)' = GroupThings(app.spec.cleanup)
    BY <1>2 DEF Recorded, GroupThings, ProviderThings, TheApplication
  <1>5. app.status.tracked =>
          /\ application = None /\ app.status.provider \notin PKs
          /\ \A g \in app.status.created \intersect app.spec.cleanup :
               groups[g].owner # "operator"
    BY <1>1, <1>2 DEF CleanedUp, CleanupGroups, Cleanup
  <1>6. app.status.created \subseteq Groups
    BY DEF TypeOK, ClusterTypeOK, Object, Status
  <1>7. ASSUME NEW t \in Recorded(app.status),
               t.kind = "group" => t \in GroupThings(app.spec.cleanup)
        PROVE  t \notin Assets
    <2>1. app.status.tracked
      BY <1>7 DEF Recorded
    <2>2. CASE t \in GroupThings(app.status.created)
      BY <1>5, <1>6, <1>7, <2>1, <2>2, AssetKinds DEF GroupThings, Thing
    <2>3. CASE t = Thing("provider", app.status.provider)
      BY <1>5, <2>1, <2>3, AssetKinds
    <2>4. CASE t = Thing("application", 0)
      BY <1>5, <2>1, <2>4, AssetKinds
    <2> QED
      BY <1>7, <2>1, <2>2, <2>3, <2>4 DEF Recorded, ProviderThings, TheApplication
  <1>8. Life!Obliged \intersect Assets = {}
    BY <1>7 DEF Life!Obliged
  <1> QED BY <1>1, <1>3, <1>4, <1>8, AuthentikKeepsAssets DEF Life!Release

-----------------------------------------------------------------------------
(* Every step is one of Lifecycle. *)

\* The worker's calls to Authentik make things for a guarded object, or lose
\* some; its writes guard, record and release.
LEMMA WorkerRefines ==
  ASSUME IInv, TypeOK', Provision \/ CleanUp \/ CallFails
  PROVE  [Life!Next]_(Life!vars)
  <1> USE DEF IInv
  <1>1. CASE Writes /\ app' # app
    BY <1>1, FinalizerGuards, StatusIsRecord, FinalizerReleases DEF Writes, Life!Next
  <1>2. CASE Writes /\ app' = app
    <2>1. UNCHANGED authentikVars
      BY <1>2 DEF Writes, AddFinalizer, UpdateStatus, FailRequeue, RemoveFinalizer, Update
    <2> QED BY <1>2, <2>1, ObjectKeepsView, AuthentikKeepsAssets DEF Life!vars
  <1>3. CASE CallFails
    <2>1. app' = app /\ UNCHANGED authentikVars
      BY <1>3 DEF CallFails
    <2> QED BY <2>1, ObjectKeepsView, AuthentikKeepsAssets DEF Life!vars
  <1>4. CASE ~Writes /\ Provision
    <2>1. app' = app
      BY <1>4, WorkerShape
    <2>2. pc \in Provisioning
      BY <1>4
      DEF Writes, Provision, ResolveProvider, ResolveReferences, ResolveGroup, CreateGroup,
          GetApplication, GetProvider, FindProvider, UpdateProvider, CreateProvider,
          EnsureApplication, ListBindings, DeleteBinding, CreateBinding, FetchDiscovery,
          WriteSecrets, DeleteStaleSecrets, DeleteOrphanPolicy, SyncPolicy, Provisioning,
          Cleanup, Stages, RequeueStages, ErrorStages, LoggedStages, WriteStages
    <2>3. app.exists /\ app.finalizer
      BY <2>2
      DEF StageFacts, FinalizerHeld, Provisioning, Stages, RequeueStages, ErrorStages,
          LoggedStages, WriteStages
    <2>4. PhaseOf(app) \in {"guarded", "deleting"}
      BY <2>3, Phases DEF TypeOK, ClusterTypeOK
    <2>5. Life!Make
      BY <1>4, <2>1, <2>4, ProvisionKeeps, ObjectKeepsView DEF Life!Make
    <2> QED BY <2>5 DEF Life!Next
  <1>5. CASE ~Writes /\ CleanUp
    <2>1. app' = app
      BY <1>5, WorkerShape
    <2>2. \A g \in Groups : groups'[g].owner = "operator" => groups[g].owner = "operator"
      BY <1>5, CleanUpShrinks
    <2>3. Life!Lose
      BY <1>5, <2>1, <2>2, CleanUpShrinks, LessIsLost, ObjectKeepsView DEF Life!Lose
    <2> QED BY <2>3 DEF Life!Next
  <1> QED BY <1>1, <1>2, <1>3, <1>4, <1>5

\* Every step of the system is one of Lifecycle or leaves it alone.
LEMMA StepRefines == IInv /\ IInv' /\ [Next]_vars => [Life!Next]_(Life!vars)
  <1> SUFFICES ASSUME IInv, IInv', [Next]_vars PROVE [Life!Next]_(Life!vars)
    OBVIOUS
  <1>t. TypeOK /\ TypeOK'
    BY DEF IInv
  <1>1. ASSUME app' = app, UNCHANGED authentikVars PROVE UNCHANGED Life!vars
    BY <1>1, ObjectKeepsView, AuthentikKeepsAssets DEF Life!vars
  <1>2. CASE Provision \/ CleanUp \/ CallFails
    BY <1>2, <1>t, WorkerRefines
  <1>3. CASE Start \/ Crash \/ UNCHANGED vars
    BY <1>1, <1>3 DEF Start, Crash, vars, clusterVars
  <1>4. CASE ClusterActs
    <2>1. UNCHANGED authentikVars
      BY <1>4 DEF ClusterActs
    <2>2. CASE WatchEvent \/ CollectGarbage
      BY <1>1, <2>1, <2>2 DEF WatchEvent, CollectGarbage, objectVars
    <2> QED BY <1>4, <2>1, <2>2, EditIsEdit, DeleteIsDelete DEF ClusterActs, Life!Next
  <1>5. CASE Interference
    <2>1. app' = app
      BY <1>5 DEF Interference, objectVars
    <2>2. Life!Lose
      BY <1>5, <1>t, <2>1, InterferenceShrinks, LessIsLost, ObjectKeepsView DEF Life!Lose
    <2> QED BY <2>2 DEF Life!Next
  <1> QED BY <1>2, <1>3, <1>4, <1>5 DEF Next, Reconcile

\* An object that has just been submitted is new and records nothing.
LEMMA InitRefines == Init => Life!Init
  <1> SUFFICES ASSUME Init PROVE Life!Init
    OBVIOUS
  <1>1. PICK spec \in Specs : app = NewObject(spec)
    BY DEF Init, ClusterInit
  <1>2. app \in Object /\ app.exists /\ ~app.finalizer /\ ~app.deleting /\ ~app.status.tracked
    BY <1>1, SpecsAssumption DEF NewObject, Object, Status, EmptyStatus
  <1> QED BY <1>2, Phases DEF Recorded, Life!Init

\* The controller, whatever fails, restarts, is edited or deleted around it,
\* implements Lifecycle: guarded by the finalizer before anything is made,
\* recorded and then not forgotten, released only when nothing recorded that
\* is to be cleaned up is left.
THEOREM LifecycleImplemented == Spec => ImplementsLifecycle
  BY InitRefines, StepRefines, Invariance, PTL DEF Spec, ImplementsLifecycle, Life!Spec

-----------------------------------------------------------------------------
(* Ready is earned.  Stages before anything has been done, and those of     *)
(* cleanup. *)

Unserved == {"idle", "addFinalizer", "resolveProvider", "resolveGroups", "createGroup",
             "resolveReferences", "getApplication", "failRequeue"} \union Cleanup

\* A stage with nothing done yet owes nothing.
LEMMA NothingServed ==
  ASSUME pc' \in Unserved
  PROVE  ServedSoFar'
  BY DEF Unserved, ServedSoFar, Cleanup, AfterApplication, AfterBinding, AfterSecrets

\* A failing call sends the reconcile to one of those.
LEMMA AbortServes ==
  ASSUME Abort
  PROVE  ServedSoFar'
  BY NothingServed DEF Abort, Continue, Return, Unserved

-----------------------------------------------------------------------------
(* The provider and the application. *)

\* The provider that is used is the only one; it is right, or is put right next.
LEMMA UseProviderServes ==
  ASSUME IInv, UNCHANGED authentikVars, loc.current = application,
         NEW p \in providers, UseProvider(p)
  PROVE  ServedSoFar'
  <1>1. providers = {p}
    BY DEF IInv, ProviderUnique, OneProvider
  <1>2. /\ loc'.current = loc.current /\ loc'.provider = p.pk
        /\ snap' = snap
        /\ pc' = IF p.cfg = snap.spec.cfg THEN "ensureApplication" ELSE "updateProvider"
    BY DEF UseProvider, Continue, IInv, TypeOK, Work
  <1> QED
    BY <1>1, <1>2
    DEF ServedSoFar, AfterApplication, AfterBinding, AfterSecrets, authentikVars, PKs

\* Looking up the application and its provider learns what is there.
LEMMA LookUpServes ==
  ASSUME IInv, ServedSoFar, outside = 0, GetApplication \/ GetProvider \/ FindProvider
  PROVE  ServedSoFar'
  <1>1. CASE GetApplication
    <2>1. loc'.current = application /\ application' = application
      BY <1>1 DEF GetApplication, Continue, Reads, authentikVars, IInv, TypeOK, Work
    <2> QED
      BY <1>1, <2>1
      DEF GetApplication, Continue, ServedSoFar, AfterApplication, AfterBinding, AfterSecrets
  <1>2. CASE GetProvider \/ FindProvider
    <2>1. loc.current = application /\ UNCHANGED authentikVars
      BY <1>2 DEF GetProvider, FindProvider, Reads, ServedSoFar
    <2>2. ASSUME NEW p \in providers, UseProvider(p) PROVE ServedSoFar'
      BY <2>1, <2>2, UseProviderServes
    <2>3. CASE Continue("findProvider", loc) \/ Continue("createProvider", loc)
      BY <2>1, <2>3
      DEF Continue, ServedSoFar, AfterApplication, AfterBinding, AfterSecrets, authentikVars
    <2> QED BY <1>2, <2>2, <2>3 DEF GetProvider, FindProvider
  <1> QED BY <1>1, <1>2

\* An updated or a new provider is the only one, and as the spec wants it.
LEMMA ProviderServes ==
  ASSUME IInv, ServedSoFar, outside = 0, UpdateProvider \/ CreateProvider
  PROVE  ServedSoFar'
  <1>1. CASE Abort
    BY <1>1, AbortServes
  <1>2. CASE UpdateProvider /\ ~Abort
    <2>1. /\ loc.provider \in PKs /\ SetProvider(loc.provider, snap.spec.cfg)
          /\ Continue("ensureApplication", loc)
      BY <1>2 DEF UpdateProvider, Answered
    <2>2. providers' = {[pk |-> loc.provider, cfg |-> snap.spec.cfg]}
      BY <2>1 DEF SetProvider, PKs, IInv, ProviderUnique, OneProvider
    <2>3. loc.current = application
      BY <1>2 DEF UpdateProvider, ServedSoFar
    <2>4. /\ loc' = loc /\ snap' = snap /\ pc' = "ensureApplication"
          /\ application' = application
      BY <2>1 DEF SetProvider, Continue
    <2>5. loc'.provider \in PKs' /\ \A p \in providers' : p.cfg = snap'.spec.cfg
      BY <2>2, <2>4 DEF PKs
    <2> QED
      BY <2>3, <2>4, <2>5 DEF ServedSoFar, AfterApplication, AfterBinding, AfterSecrets
  <1>3. CASE CreateProvider /\ ~Abort
    <2>1. providers' = {[pk |-> lastPK + 1, cfg |-> snap.spec.cfg]}
      BY <1>3 DEF CreateProvider, PutProvider, IInv, ProviderUnique
    <2>2. /\ loc'.provider = lastPK + 1 /\ loc'.current = application
          /\ application' = application /\ snap' = snap /\ pc' = "ensureApplication"
      <3>1. loc.current = application
        BY <1>3 DEF CreateProvider, ServedSoFar
      <3>2. loc' = [loc EXCEPT !.provider = lastPK + 1] /\ snap' = snap
            /\ pc' = "ensureApplication"
        BY <1>3 DEF CreateProvider, Answered, Continue
      <3>3. loc \in Work /\ application' = application
        BY <1>3 DEF CreateProvider, PutProvider, IInv, TypeOK
      <3> QED BY <3>1, <3>2, <3>3 DEF Work
    <2> QED
      BY <2>1, <2>2 DEF ServedSoFar, PKs, AfterApplication, AfterBinding, AfterSecrets
  <1> QED BY <1>1, <1>2, <1>3

\* The application is left, created or updated with a link to that provider.
LEMMA ApplicationServes ==
  ASSUME IInv, ServedSoFar, outside = 0, EnsureApplication
  PROVE  ServedSoFar'
  <1>1. CASE Abort
    BY <1>1, AbortServes
  <1>2. CASE ~Abort
    <2>1. /\ loc.current = application /\ loc.provider \in PKs
          /\ \A p \in providers : p.cfg = snap.spec.cfg
      BY DEF EnsureApplication, ServedSoFar
    <2>2. pc' = "listBindings" /\ snap' = snap
      BY <1>2 DEF EnsureApplication, Answered, Continue
    <2>3. application # None /\ application.provider = loc.provider
          /\ application.cfg = snap.spec.cfg /\ UNCHANGED authentikVars
          => Configured'
      BY <2>1, <2>2 DEF Configured, Linked, PKs, authentikVars
    <2>4. SetApplication(loc.provider, snap.spec.cfg) => Configured'
      <3>1. pc # "idle"
        BY DEF EnsureApplication
      <3>2. [provider |-> loc.provider, cfg |-> snap.spec.cfg] \in Application
        BY <3>1 DEF IInv, TypeOK, Work, StageFacts, Object, AppSpec, Application
      <3> QED
        BY <2>1, <2>2, <3>2, NoneAssumption DEF SetApplication, Configured, Linked, PKs
    <2>5. Configured'
      BY <1>2, <2>1, <2>3, <2>4 DEF EnsureApplication, ApplicationNeedsUpdate
    <2> QED
      BY <2>2, <2>5 DEF ServedSoFar, AfterApplication, AfterBinding, AfterSecrets
  <1> QED BY <1>1, <1>2

-----------------------------------------------------------------------------
(* The bindings. *)

\* No listing, deletion or creation of bindings is done before every group of
\* the spec is bound; a binding that could not be created ends the reconcile.
LEMMA BindingsServe ==
  ASSUME IInv, ServedSoFar, outside = 0,
         ListBindings \/ \E g \in Groups : DeleteBinding(g) \/ CreateBinding(g)
  PROVE  ServedSoFar'
  <1> USE DEF AfterApplication, AfterBinding, AfterSecrets
  <1>1. /\ pc \in {"listBindings", "deleteBindings", "createBindings"}
        /\ UNCHANGED <<providers, application>> /\ snap' = snap
    BY DEF ListBindings, DeleteBinding, CreateBinding, Continue, Reads, authentikVars,
           DropBinding, PutBinding
  <1>2. Configured'
    BY <1>1 DEF ServedSoFar, Configured, Linked, PKs
  <1>3. snap.spec.groups \subseteq Groups
    BY <1>1 DEF IInv, StageFacts, Object, AppSpec
  <1>l. loc \in Work /\ bindings \in [Groups -> Nat]
    BY DEF IInv, TypeOK, AuthentikTypeOK
  <1>4. CASE ListBindings /\ BindingsMatch
    <2>1. \A g \in snap.spec.groups : bindings'[g] > 0
      BY <1>3, <1>4 DEF BindingsMatch, ListBindings, Reads, authentikVars
    <2>2. pc' \in {"fetchDiscovery", "writeSecrets"}
      BY <1>4 DEF ListBindings, Continue, AfterBindings
    <2> QED BY <1>1, <1>2, <2>1, <2>2 DEF ServedSoFar
  <1>5. CASE ListBindings /\ ~BindingsMatch
    <2>1. loc'.todo = snap.spec.groups
      BY <1>5, <1>l DEF ListBindings, Continue, Work
    <2>2. pc' \in {"createBindings", "deleteBindings"}
      BY <1>5 DEF ListBindings, Continue
    <2> QED BY <1>1, <1>2, <2>1, <2>2 DEF ServedSoFar
  <1>6. ASSUME NEW g \in Groups, DeleteBinding(g) PROVE ServedSoFar'
    <2>1. snap.spec.groups \subseteq loc'.todo
      BY <1>6, <1>l DEF DeleteBinding, Continue, Work, ServedSoFar
    <2>2. pc' \in {"createBindings", "deleteBindings"}
      BY <1>6 DEF DeleteBinding, Continue
    <2> QED BY <1>1, <1>2, <2>1, <2>2 DEF ServedSoFar
  <1>7. ASSUME NEW g \in Groups, CreateBinding(g) PROVE ServedSoFar'
    <2> DEFINE rest == loc.todo \ {g}
               Bound(ok) == /\ loc'.todo = rest
                            /\ loc'.allBound = AllBound(ok)
                            /\ \/ pc' = "createBindings"
                               \/ rest = {} /\ AllBound(ok) /\ pc' = AfterBindings
                               \/ pc' = "failRequeue"
    <2>1. \/ PutBinding(g) /\ Bound(TRUE)
          \/ (PutBinding(g) \/ UNCHANGED authentikVars) /\ Bound(FALSE)
      <3>1. ASSUME NEW all \in BOOLEAN, loc' = [loc EXCEPT !.todo = rest, !.allBound = all]
            PROVE  loc'.todo = rest /\ loc'.allBound = all
        BY <3>1, <1>l DEF Work
      <3>2. AllBound(TRUE) \in BOOLEAN /\ AllBound(FALSE) \in BOOLEAN
        BY <1>l DEF AllBound, Work
      <3> QED BY <1>7, <3>1, <3>2 DEF CreateBinding, Continue
    <2>2. pc = "createBindings"
      BY <1>7 DEF CreateBinding
    <2>3. CASE pc' = "failRequeue"
      BY <2>3, NothingServed DEF Unserved
    <2>4. CASE PutBinding(g) /\ Bound(TRUE) /\ pc' # "failRequeue"
      <3>1. \A h \in Groups : bindings'[h] > 0 <=> h = g \/ bindings[h] > 0
        BY <1>l, <2>4 DEF PutBinding
      <3>2. AllBound(TRUE) => \A h \in snap.spec.groups \ rest : bindings'[h] > 0
        BY <1>3, <2>2, <3>1 DEF AllBound, ServedSoFar
      <3> QED BY <1>1, <1>2, <2>4, <3>2 DEF ServedSoFar, AfterBindings
    <2>5. CASE Bound(FALSE) /\ pc' # "failRequeue"
      BY <1>1, <1>2, <2>5 DEF ServedSoFar, AllBound
    <2> QED BY <2>1, <2>3, <2>4, <2>5
  <1> QED BY <1>4, <1>5, <1>6, <1>7

-----------------------------------------------------------------------------
(* Secrets and SecurityPolicies. *)

\* The desired Secrets are written first and never deleted as stale; every
\* route of the spec gets its policy before the status is written.
LEMMA OwnedServe ==
  ASSUME IInv, ServedSoFar, outside = 0,
         \/ FetchDiscovery \/ WriteSecrets \/ DeleteStaleSecrets
         \/ \E r \in Routes : DeleteOrphanPolicy(r) \/ SyncPolicy(r)
  PROVE  ServedSoFar'
  <1> USE DEF AfterApplication, AfterBinding, AfterSecrets
  <1>1. CASE Abort
    BY <1>1, AbortServes
  <1>2. CASE ~Abort
    <2>1. /\ UNCHANGED authentikVars /\ snap' = snap
          /\ pc \in {"fetchDiscovery", "writeSecrets"} \union AfterSecrets
      BY <1>2
      DEF FetchDiscovery, WriteSecrets, DeleteStaleSecrets, DeleteOrphanPolicy, SyncPolicy,
          SyncRest, Continue, Reads
    <2>2. /\ Configured' /\ \A g \in snap'.spec.groups : bindings'[g] > 0
          /\ Desired' = Desired
      BY <2>1 DEF ServedSoFar, Configured, Linked, PKs, authentikVars, Desired
    <2>l. loc \in Work
      BY DEF IInv, TypeOK
    <2>3. ASSUME NEW rest, SyncRest(rest),
                 Desired \subseteq secrets', snap.spec.routes \ rest \subseteq policies'
          PROVE  ServedSoFar'
      <3>1. /\ loc'.refs = rest
            /\ pc' = IF rest = {} THEN "updateStatus" ELSE "syncPolicies"
        BY <2>3, <2>l DEF SyncRest, Continue, Work
      <3> QED BY <2>1, <2>2, <2>3, <3>1 DEF ServedSoFar
    <2>4. CASE FetchDiscovery
      BY <1>2, <2>2, <2>4 DEF FetchDiscovery, Continue, ServedSoFar
    <2>5. CASE WriteSecrets
      BY <1>2, <2>2, <2>5 DEF WriteSecrets, Continue, ServedSoFar
    <2>6. CASE DeleteStaleSecrets
      <3>1. Desired \subseteq secrets'
        BY <1>2, <2>6 DEF DeleteStaleSecrets, ServedSoFar
      <3>2. CASE pc' = "deletePolicies"
        BY <2>2, <3>1, <3>2 DEF ServedSoFar
      <3>3. CASE SyncRest(snap.spec.routes)
        BY <2>3, <3>1, <3>3
      <3> QED BY <1>2, <2>6, <3>2, <3>3 DEF DeleteStaleSecrets, Continue
    <2>7. ASSUME NEW r \in Routes, DeleteOrphanPolicy(r) PROVE ServedSoFar'
      <3>1. Desired \subseteq secrets'
        BY <2>7 DEF DeleteOrphanPolicy, ServedSoFar
      <3>2. CASE pc' = "deletePolicies"
        BY <2>2, <3>1, <3>2 DEF ServedSoFar
      <3>3. CASE SyncRest(snap.spec.routes)
        BY <2>3, <3>1, <3>3
      <3> QED BY <2>7, <3>2, <3>3 DEF DeleteOrphanPolicy, Continue
    <2>8. ASSUME NEW r \in Routes, SyncPolicy(r) PROVE ServedSoFar'
      <3>1. Desired \subseteq secrets' /\ SyncRest(loc.refs \ {r})
        BY <1>2, <2>8 DEF SyncPolicy, ServedSoFar
      <3>2. snap.spec.routes \ (loc.refs \ {r}) \subseteq policies'
        BY <2>8 DEF SyncPolicy, ServedSoFar
      <3> QED BY <2>3, <3>1, <3>2
    <2> QED BY <2>4, <2>5, <2>6, <2>7, <2>8
  <1> QED BY <1>1, <1>2

-----------------------------------------------------------------------------
(* Every step keeps what has been served. *)

\* Nothing that has been done for the spec is undone while nobody interferes:
\* the garbage collector spares an object that is still provisioned.
LEMMA ServedSoFarStep == IInv /\ ServedSoFar /\ [Next]_vars => ServedSoFar'
  <1> SUFFICES ASSUME IInv, ServedSoFar, [Next]_vars, outside' = 0 PROVE ServedSoFar'
    BY DEF ServedSoFar
  <1>1. ~Interference
    BY DEF Interference, IInv, TypeOK
  <1>2. CASE UNCHANGED <<authentikVars, pc, snap, loc, outside, policies, secrets>>
    BY <1>2
    DEF ServedSoFar, authentikVars, Configured, Linked, PKs, Desired
  <1>3. CASE ClusterActs
    <2>1. CASE CollectGarbage
      <3>1. pc \notin AfterSecrets
        BY <2>1
        DEF CollectGarbage, AfterSecrets, IInv, StageFacts, FinalizerHeld, Provisioning,
            Cleanup, Stages, RequeueStages, ErrorStages, LoggedStages, WriteStages
      <3> QED
        BY <1>3, <3>1
        DEF ClusterActs, ServedSoFar, authentikVars, Configured, Linked, PKs, AfterSecrets
    <2> QED
      BY <1>2, <1>3, <2>1
      DEF ClusterActs, EditSpec, DeleteApp, UserWrites, WatchEvent
  <1>4. CASE Start \/ Crash \/ CallFails \/ Writes
    <2>1. pc' \in Unserved \/ Abort
      BY <1>4
      DEF Start, FirstStage, Crash, CallFails, Writes, AddFinalizer, UpdateStatus, FailRequeue,
          RemoveFinalizer, Update, Return, Unserved, Cleanup
    <2> QED BY <2>1, NothingServed, AbortServes
  <1>5. CASE CleanUp
    <2>1. pc' \in Unserved
      <3>1. pc \in Cleanup
        BY <1>5
        DEF CleanUp, ReadCredentials, Unbind, CleanGroup, DeleteApplication, DeleteProvider,
            RemoveFinalizer, Cleanup
      <3> QED BY <1>5, <3>1, CleanUpShape DEF IInv, Moves, Return, Unserved, Provisioning
    <2> QED BY <2>1, NothingServed
  <1>6. CASE ResolveProvider \/ ResolveReferences \/ CreateGroup
             \/ \E g \in Groups : ResolveGroup(g)
    <2>1. pc' \in Unserved \/ Abort
      BY <1>6
      DEF ResolveProvider, ResolveReferences, CreateGroup, ResolveGroup, AfterGroup, Answered,
          Continue, Unserved
    <2> QED BY <2>1, NothingServed, AbortServes
  <1>7. CASE Provision
    <2>1. outside = 0
      BY <1>7, <1>1
      DEF Provision, AddFinalizer, ResolveProvider, ResolveReferences, ResolveGroup, CreateGroup,
          GetApplication, GetProvider, FindProvider, UpdateProvider, CreateProvider,
          EnsureApplication, ListBindings, DeleteBinding, CreateBinding, FetchDiscovery,
          WriteSecrets, DeleteStaleSecrets, DeleteOrphanPolicy, SyncPolicy, UpdateStatus,
          FailRequeue, Reads, Requests, Update
    <2> QED
      BY <1>4, <1>6, <1>7, <2>1, LookUpServes, ProviderServes, ApplicationServes, BindingsServe,
         OwnedServe
      DEF Provision, Writes
  <1> QED
    BY <1>1, <1>2, <1>3, <1>4, <1>5, <1>7 DEF Next, Reconcile, vars, clusterVars

\* A reconcile that nobody interferes with has, at each stage, done for its
\* copy's spec all that the earlier stages are there to do.
THEOREM ServiceStands == Spec => []ServedSoFar
  <1>1. Init => ServedSoFar
    BY DEF Init, ServedSoFar, AfterApplication, AfterBinding, AfterSecrets
  <1> QED BY <1>1, ServedSoFarStep, Invariance, PTL DEF Spec

-----------------------------------------------------------------------------
(* Ready. *)

\* Only the last stage of provisioning writes a status that says Ready, and it
\* lands only on the version the reconcile worked for.
LEMMA ReadyServes ==
  ASSUME IInv, ServedSoFar, [Next]_vars,
         app'.status # app.status, app'.status.ready, outside' = 0
  PROVE  Served(app.spec)
  <1> USE DEF IInv
  <1>1. ~(EditSpec \/ DeleteApp)
    BY UserWriteEffect
  <1>2. Writes
    BY <1>1, WorkerShape
    DEF Next, Reconcile, Start, Crash, ClusterActs, WatchEvent, CollectGarbage, objectVars,
        Interference, vars, clusterVars
  <1>3. ~AddFinalizer /\ ~RemoveFinalizer
    BY <1>2, WriteEffect DEF AddFinalizer, RemoveFinalizer
  <1>4. ~FailRequeue
    <2>1. SUFFICES ASSUME FailRequeue PROVE FALSE
      OBVIOUS
    <2>2. PICK obj : obj = [snap EXCEPT !.status.ready = FALSE] /\ Update(obj)
      BY <2>1 DEF FailRequeue
    <2>3. snap \in Object /\ ~snap.deleting
      BY <2>1
      DEF FailRequeue, StageFacts, Provisioning, Cleanup, Stages, WriteStages
    <2>4. ~obj.deleting /\ ~obj.status.ready
      BY <2>2, <2>3 DEF Object, Status
    <2>5. Store(obj)
      BY <2>2, UpdateEffect
    <2> QED BY <2>4, <2>5, StoreEffect
  <1>5. UpdateStatus
    BY <1>2, <1>3, <1>4 DEF Writes
  <1>6. snap = app /\ outside = 0 /\ pc = "updateStatus"
    BY <1>5, UpdateEffect DEF UpdateStatus, Update
  <1> QED
    BY <1>6
    DEF ServedSoFar, Served, Configured, Desired, AfterApplication, AfterBinding, AfterSecrets

\* The status says Ready only when the object's current spec is served, though
\* the reconcile read its copy long before and read nothing again.
THEOREM ReadinessIsEarned == Spec => ReadyIsEarned
  <1>1. IInv /\ ServedSoFar /\ [Next]_vars =>
          [ /\ app'.status # app.status /\ app'.status.ready
            /\ outside' = 0
            => Served(app.spec) ]_vars
    BY ReadyServes
  <1> QED BY <1>1, Invariance, ServiceStands, PTL DEF Spec, ReadyIsEarned
=============================================================================
