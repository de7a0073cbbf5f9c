--------------------------- MODULE NamespaceProofs ---------------------------
(***************************************************************************)
(* For any number of applications, routes and groups that share a           *)
(* namespace, whatever names they make: nothing of an application stays in  *)
(* Authentik when its resource goes; and as long as nothing is pending for  *)
(* an application that says Ready, what it has been provided with stands.   *)
(***************************************************************************)
EXTENDS Namespace, TLAPS

-----------------------------------------------------------------------------
(* Names and slugs. *)

\* The slugs and the names of SecurityPolicies are those the specs can make.
LEMMA NamesTypes ==
  /\ \A a \in Apps : \A spec \in Specs[a] : EffectiveSlug(a, spec) \in Slugs
  /\ \A a \in Apps : \A r \in Routes : PolicyName(a, r) \in PolicyNames
  <1>1. ASSUME NEW a \in Apps, NEW spec \in Specs[a]
        PROVE  EffectiveSlug(a, spec) \in Slugs
    <2> DEFINE p == <<a, spec>>
    <2>1. p \in UNION {{b} \X Specs[b] : b \in Apps}
      OBVIOUS
    <2>2. p[1] = a /\ p[2] = spec
      OBVIOUS
    <2>3. EffectiveSlug(p[1], p[2]) \in Slugs
      BY <2>1, Zenon DEF Slugs
    <2> HIDE DEF p
    <2> QED BY <2>2, <2>3
  <1>2. ASSUME NEW a \in Apps, NEW r \in Routes
        PROVE  PolicyName(a, r) \in PolicyNames
    <2> DEFINE p == <<a, r>>
    <2>1. p \in Apps \X Routes /\ p[1] = a /\ p[2] = r
      OBVIOUS
    <2>2. PolicyName(p[1], p[2]) \in PolicyNames
      BY <2>1, Zenon DEF PolicyNames
    <2> HIDE DEF p
    <2> QED BY <2>1, <2>2
  <1> QED BY <1>1, <1>2

\* Specs have the fields of specs.
LEMMA SpecTypes ==
  ASSUME NEW a \in Apps, NEW spec \in Specs[a]
  PROVE  /\ spec.groups \in SUBSET Groups /\ spec.create \in SUBSET Groups
         /\ spec.cleanup \in SUBSET Groups /\ spec.routes \in SUBSET Routes
         /\ spec.explicit \in BOOLEAN
         /\ spec \in UNION {Specs[b] : b \in Apps}
         /\ EffectiveSlug(a, spec) \in Slugs
  <1>1. spec \in AppSpec
    BY SpecsAssumption
  <1> QED BY <1>1, NamesTypes DEF AppSpec

-----------------------------------------------------------------------------
(* Types, in parts. *)

RoutesOK == route \in [Routes -> RouteStates] /\ cachedRoute \in [Routes -> RouteStates]
PoliciesOK == policy \in [PolicyNames -> Policy \union {None}]
ServerOK == server \in [Slugs -> Application \union {None}] /\ groups \subseteq Groups
QueuesOK == queue \subseteq Apps /\ timers \subseteq Apps
Stages == {"idle", "resolve", "provision", "orphans", "policies", "record", "fail",
           "cleanup", "release"}
WorkerOK == stage \in Stages /\ work \in Job \union {None} /\ fresh \in BOOLEAN
BoundsOK == changes \in 0..MaxChanges /\ faults \in 0..MaxFaults
MadeOK == made \in [Apps -> SUBSET Slugs]

\* The parts are the type invariant, before a step and after it.
LEMMA TypeOKInParts ==
  /\ TypeOK <=> app \in [Apps -> App] /\ RoutesOK /\ PoliciesOK /\ ServerOK /\ QueuesOK
                /\ WorkerOK /\ BoundsOK /\ MadeOK /\ unwatched \in BOOLEAN
  /\ TypeOK' <=> app' \in [Apps -> App] /\ RoutesOK' /\ PoliciesOK' /\ ServerOK' /\ QueuesOK'
                 /\ WorkerOK' /\ BoundsOK' /\ MadeOK' /\ unwatched' \in BOOLEAN
  BY DEF TypeOK, RoutesOK, PoliciesOK, ServerOK, QueuesOK, WorkerOK, BoundsOK, MadeOK, Stages

\* Faults and changes are counted.
LEMMA Counted ==
  ASSUME BoundsOK, Fault \/ UNCHANGED faults, Change \/ UNCHANGED changes
  PROVE  BoundsOK'
  BY BoundsAssumption DEF BoundsOK, Fault, Change

\* A write of a SecurityPolicy enqueues applications.
LEMMA WritePolicyEffect ==
  ASSUME PoliciesOK, QueuesOK, NEW n \in PolicyNames, NEW object \in Policy \union {None},
         WritePolicy(n, object), timers' \subseteq Apps
  PROVE  PoliciesOK' /\ QueuesOK'
  <1>1. PoliciesOK'
    BY DEF PoliciesOK, WritePolicy
  <1>2. Owners(n) \subseteq Apps
    BY DEF PoliciesOK, Owners, Policy
  <1>3. (IF object = None THEN {} ELSE {object.owner}) \subseteq Apps
    BY DEF Policy
  <1>4. queue' \subseteq Apps
    BY <1>2, <1>3 DEF WritePolicy, QueuesOK
  <1> QED BY <1>1, <1>4 DEF QueuesOK

\* With its groups, bindings go and nothing else.
LEMMA WriteGroupsEffect ==
  ASSUME ServerOK, NEW set \in SUBSET Groups, WriteGroups(set)
  PROVE  ServerOK' /\ \A s \in Slugs : server[s] = None => server'[s] = None
  <1>1. ASSUME NEW s \in Slugs, server[s] # None
        PROVE  [server[s] EXCEPT !.bound = @ \intersect set] \in Application
    BY <1>1 DEF ServerOK, Application
  <1>2. ServerOK'
    BY <1>1 DEF ServerOK, WriteGroups
  <1> QED BY <1>2 DEF WriteGroups, ServerOK

\* A write of an application enqueues it.
LEMMA WriteAppEffect ==
  ASSUME app \in [Apps -> App], QueuesOK, NEW a \in Apps, NEW object \in App,
         WriteApp(a, object), timers' \subseteq Apps
  PROVE  /\ app' \in [Apps -> App] /\ QueuesOK'
         /\ app'[a] = object /\ \A b \in Apps \ {a} : app'[b] = app[b]
  BY DEF WriteApp, QueuesOK

\* History is a Boolean.
LEMMA GroupsUnheardEffect ==
  ASSUME unwatched \in BOOLEAN, NEW a, NEW set, GroupsUnheard(a, set)
  PROVE  unwatched' \in BOOLEAN
  <1> DEFINE heard == \E b \in Apps \ {a} :
                  /\ app[b].phase # "gone"
                  /\ app[b].spec.groups \intersect ((set \ groups) \union (groups \ set)) # {}
  <1>1. unwatched' = (unwatched \/ heard)
    BY Zenon DEF GroupsUnheard
  <1> HIDE DEF heard
  <1> QED BY <1>1, Zenon

\* A reconcile that has ended has no copy.
LEMMA ReturnEffect ==
  ASSUME Return
  PROVE  WorkerOK' /\ CopyHasTheSlug' /\ SlugReleased'
  BY DEF Return, WorkerOK, Stages, CopyHasTheSlug, SlugReleased

-----------------------------------------------------------------------------
(* What the steps leave alone. *)

\* Who touches neither an application nor the running reconcile, and puts nothing
\* under a slug, does not disturb the invariant.
LEMMA Aside ==
  ASSUME SlugsInv, UNCHANGED <<app, made, workerVars>>,
         \A s \in Slugs : server[s] = None => server'[s] = None
  PROVE  WorkerOK' /\ SlugForLife' /\ CopyHasTheSlug' /\ SlugReleased'
  <1>1. WorkerOK /\ SlugForLife /\ CopyHasTheSlug /\ SlugReleased
    BY TypeOKInParts DEF SlugsInv
  <1>2. WorkerOK' /\ SlugForLife' /\ CopyHasTheSlug'
    BY <1>1 DEF WorkerOK, SlugForLife, CopyHasTheSlug, workerVars
  <1>3. SlugReleased'
    <2> SUFFICES ASSUME stage = "release", work.copy.tracked
                 PROVE  server'[EffectiveSlug(work.name, work.copy.spec)] = None
      BY DEF SlugReleased, workerVars
    <2>1. work \in Job /\ work.copy.spec \in Specs[work.name]
      BY <1>1 DEF CopyHasTheSlug
    <2>2. EffectiveSlug(work.name, work.copy.spec) \in Slugs
      BY <2>1, NamesTypes DEF Job
    <2> QED BY <1>1, <2>2 DEF SlugReleased
  <1> QED BY <1>2, <1>3

\* A reconcile that moves on keeps its application and its copy of the spec.
LEMMA MovingOn ==
  ASSUME SlugsInv, stage # "idle", UNCHANGED app, UNCHANGED fresh,
         stage' \in Stages \ {"idle"}, work' \in Job,
         work'.name = work.name, work'.copy.spec = work.copy.spec,
         work'.copy.tracked = work.copy.tracked
  PROVE  WorkerOK' /\ CopyHasTheSlug'
  BY TypeOKInParts DEF SlugsInv, CopyHasTheSlug, WorkerOK

\* An application that keeps its spec keeps its slug.
LEMMA SlugKept ==
  ASSUME SlugForLife, UNCHANGED made, \A a \in Apps : app'[a].spec = app[a].spec
  PROVE  SlugForLife'
  BY DEF SlugForLife

-----------------------------------------------------------------------------
(* Users, admins, the watches, the timers. *)

\* The webhook admits no other slug, so that old copies have the right one.
LEMMA EditStep ==
  ASSUME SlugsInv, NEW a \in Apps, EditSpec(a) \/ DeleteApp(a)
  PROVE  SlugsInv'
  <1>1. TypeOK /\ SlugForLife /\ CopyHasTheSlug /\ SlugReleased
    BY DEF SlugsInv
  <1>2. PICK object \in App :
          /\ UserWrites(a, object) /\ object.spec \in Specs[a]
          /\ EffectiveSlug(a, object.spec) = EffectiveSlug(a, app[a].spec)
          /\ object.tracked = app[a].tracked
    <2>1. app[a] \in App /\ app[a].spec \in Specs[a]
      BY <1>1 DEF TypeOK, SlugForLife
    <2>2. CASE EditSpec(a)
      <3>1. PICK spec \in Specs[a] : Admitted(a, spec) /\ UserWrites(a, [app[a] EXCEPT !.spec = spec])
        BY <2>2 DEF EditSpec
      <3>2. spec \in UNION {Specs[b] : b \in Apps}
        BY SpecTypes
      <3> DEFINE object == [app[a] EXCEPT !.spec = spec]
      <3>3. object \in App /\ object.spec = spec /\ object.tracked = app[a].tracked
        BY <2>1, <3>2 DEF App
      <3>4. EffectiveSlug(a, spec) = EffectiveSlug(a, app[a].spec)
        BY <3>1 DEF Admitted
      <3> QED BY <3>1, <3>3, <3>4
    <2>3. CASE DeleteApp(a)
      <3> DEFINE object == [app[a] EXCEPT !.phase = "deleting"]
      <3>1. object \in App /\ object.spec = app[a].spec /\ object.tracked = app[a].tracked
        BY <2>1 DEF App
      <3>2. UserWrites(a, object)
        BY <2>3 DEF DeleteApp
      <3> QED BY <2>1, <3>1, <3>2
    <2> QED BY <2>2, <2>3
  <1>3. /\ Change /\ WriteApp(a, object) /\ fresh' = (fresh /\ work.name # a)
        /\ UNCHANGED <<route, cachedRoute, policy, serverVars, timers, stage, work, faults, made,
                       unwatched>>
    BY <1>2 DEF UserWrites
  <1>4. /\ app' \in [Apps -> App] /\ QueuesOK'
        /\ app'[a] = object /\ \A b \in Apps \ {a} : app'[b] = app[b]
    BY <1>1, <1>3, WriteAppEffect, TypeOKInParts DEF QueuesOK
  <1>5. fresh' \in BOOLEAN /\ (fresh' => fresh /\ work.name # a)
    BY <1>3, Zenon
  <1>6. TypeOK'
    <2>1. BoundsOK'
      BY <1>1, <1>3, Counted, TypeOKInParts
    <2>2. RoutesOK' /\ PoliciesOK' /\ ServerOK' /\ WorkerOK' /\ MadeOK' /\ unwatched' \in BOOLEAN
      BY <1>1, <1>3, <1>5, TypeOKInParts
         DEF RoutesOK, PoliciesOK, ServerOK, WorkerOK, MadeOK, serverVars
    <2> QED BY <1>4, <2>1, <2>2, TypeOKInParts
  <1>7. SlugForLife'
    <2> SUFFICES ASSUME NEW b \in Apps
                 PROVE  app'[b].spec \in Specs[b] /\ made[b] \subseteq {EffectiveSlug(b, app'[b].spec)}
      BY <1>3 DEF SlugForLife
    <2>1. CASE b = a
      BY <1>1, <1>2, <1>4, <2>1 DEF SlugForLife
    <2>2. CASE b # a
      BY <1>1, <1>4, <2>2 DEF SlugForLife
    <2> QED BY <2>1, <2>2
  <1>8. CopyHasTheSlug'
    <2> SUFFICES ASSUME stage # "idle"
                 PROVE  /\ work \in Job /\ work.copy.spec \in Specs[work.name]
                        /\ EffectiveSlug(work.name, work.copy.spec)
                             = EffectiveSlug(work.name, app'[work.name].spec)
                        /\ fresh' => work.copy.tracked = app'[work.name].tracked
      BY <1>3 DEF CopyHasTheSlug
    <2>1. /\ work \in Job /\ work.copy.spec \in Specs[work.name] /\ work.name \in Apps
          /\ EffectiveSlug(work.name, work.copy.spec) = EffectiveSlug(work.name, app[work.name].spec)
          /\ fresh => work.copy.tracked = app[work.name].tracked
      BY <1>1 DEF CopyHasTheSlug, Job
    <2>2. CASE work.name = a
      BY <1>2, <1>4, <1>5, <2>1, <2>2
    <2>3. CASE work.name # a
      BY <1>4, <1>5, <2>1, <2>3
    <2> QED BY <2>2, <2>3
  <1>9. SlugReleased'
    BY <1>1, <1>3 DEF SlugReleased, serverVars
  <1> QED BY <1>6, <1>7, <1>8, <1>9 DEF SlugsInv

\* HTTPRoutes, SecurityPolicies, groups and timers.
LEMMA SurroundingsStep ==
  ASSUME SlugsInv,
         \/ \E r \in Routes : ChangeRoute(r) \/ WatchRoute(r)
         \/ \E n \in PolicyNames : DropPolicy(n) \/ CollectGarbage(n)
         \/ \E g \in Groups : ChangeGroup(g)
         \/ \E a \in Apps : Resync(a)
  PROVE  SlugsInv'
  <1>1. /\ app \in [Apps -> App] /\ RoutesOK /\ PoliciesOK /\ ServerOK /\ QueuesOK
        /\ WorkerOK /\ BoundsOK /\ MadeOK /\ unwatched \in BOOLEAN
    BY TypeOKInParts DEF SlugsInv
  <1>2. UNCHANGED <<app, made, workerVars>>
    BY DEF ChangeRoute, WatchRoute, DropPolicy, CollectGarbage, ChangeGroup, Resync, clusterVars,
           workerVars
  <1>3. BoundsOK'
    BY <1>1, Counted
       DEF ChangeRoute, WatchRoute, DropPolicy, CollectGarbage, ChangeGroup, Resync
  <1> DEFINE Unharmed ==
        /\ RoutesOK' /\ PoliciesOK' /\ ServerOK' /\ QueuesOK' /\ unwatched' \in BOOLEAN
        /\ \A s \in Slugs : server[s] = None => server'[s] = None
  <1>4. Unharmed
    <2>1. ASSUME NEW r \in Routes, ChangeRoute(r) PROVE Unharmed
      BY <1>1, <2>1 DEF ChangeRoute, RoutesOK, PoliciesOK, ServerOK, QueuesOK, serverVars
    <2>2. ASSUME NEW r \in Routes, WatchRoute(r) PROVE Unharmed
      <3>1. AppsOf(r) \subseteq Apps
        BY DEF AppsOf
      <3> QED BY <1>1, <2>2, <3>1 DEF WatchRoute, RoutesOK, PoliciesOK, ServerOK, QueuesOK, serverVars
    <2>3. ASSUME NEW n \in PolicyNames, DropPolicy(n) \/ CollectGarbage(n) PROVE Unharmed
      <3>1. WritePolicy(n, None) /\ timers' = timers
        BY <2>3 DEF DropPolicy, CollectGarbage
      <3>2. PoliciesOK' /\ QueuesOK'
        BY <1>1, <3>1, WritePolicyEffect DEF QueuesOK
      <3> QED BY <1>1, <2>3, <3>2 DEF DropPolicy, CollectGarbage, RoutesOK, ServerOK, serverVars
    <2>4. ASSUME NEW g \in Groups, ChangeGroup(g) PROVE Unharmed
      <3> DEFINE set == IF g \in groups THEN groups \ {g} ELSE groups \union {g}
      <3>1. set \in SUBSET Groups /\ WriteGroups(set)
        BY <1>1, <2>4 DEF ChangeGroup, ServerOK
      <3>2. ServerOK' /\ \A s \in Slugs : server[s] = None => server'[s] = None
        BY <1>1, <3>1, WriteGroupsEffect
      <3> QED BY <1>1, <2>4, <3>2 DEF ChangeGroup, RoutesOK, PoliciesOK, QueuesOK, clusterVars
    <2>5. ASSUME NEW a \in Apps, Resync(a) PROVE Unharmed
      BY <1>1, <2>5 DEF Resync, RoutesOK, PoliciesOK, ServerOK, QueuesOK, serverVars, clusterVars
    <2> QED BY <2>1, <2>2, <2>3, <2>4, <2>5
  <1>5. MadeOK'
    BY <1>1, <1>2 DEF MadeOK
  <1>6. WorkerOK' /\ SlugForLife' /\ CopyHasTheSlug' /\ SlugReleased'
    BY <1>2, <1>4, Aside
  <1> QED BY <1>1, <1>2, <1>3, <1>4, <1>5, <1>6, TypeOKInParts DEF SlugsInv

-----------------------------------------------------------------------------
(* The running reconcile. *)

\* What a reconcile works with.
LEMMA AtWork ==
  ASSUME SlugsInv, stage # "idle"
  PROVE  /\ work \in Job /\ work.name \in Apps /\ work.copy \in App
         /\ work.created \in SUBSET Groups /\ work.todo \in SUBSET Routes
         /\ work.copy.spec \in Specs[work.name]
         /\ work.copy.spec.groups \in SUBSET Groups /\ work.copy.spec.routes \in SUBSET Routes
         /\ EffectiveSlug(work.name, work.copy.spec) \in Slugs
         /\ EffectiveSlug(work.name, work.copy.spec) = EffectiveSlug(work.name, app[work.name].spec)
         /\ DesiredNames(work) \in SUBSET PolicyNames /\ Orphans(work) \in SUBSET PolicyNames
  <1>1. work \in Job /\ work.copy.spec \in Specs[work.name]
        /\ EffectiveSlug(work.name, work.copy.spec) = EffectiveSlug(work.name, app[work.name].spec)
    BY DEF SlugsInv, CopyHasTheSlug
  <1>2. work.name \in Apps /\ work.copy \in App /\ work.copy.policies \in SUBSET PolicyNames
        /\ work.created \in SUBSET Groups /\ work.todo \in SUBSET Routes
    BY <1>1 DEF Job, App
  <1>3. work.copy.spec.groups \in SUBSET Groups /\ work.copy.spec.routes \in SUBSET Routes
        /\ EffectiveSlug(work.name, work.copy.spec) \in Slugs
    BY <1>1, <1>2, SpecTypes
  <1>4. DesiredNames(work) \in SUBSET PolicyNames
    BY <1>2, <1>3, NamesTypes DEF DesiredNames
  <1> QED BY <1>1, <1>2, <1>3, <1>4 DEF Orphans

\* After the provider come the SecurityPolicies and the status.
LEMMA AfterProviderStages ==
  ASSUME NEW w
  PROVE  AfterProvider(w) \in {"orphans", "policies", "record"}
  <1>1. ASSUME Orphans(w) # {} PROVE AfterProvider(w) = "orphans"
    BY <1>1, Zenon DEF AfterProvider
  <1>2. ASSUME Orphans(w) = {}, w.todo # {} PROVE AfterProvider(w) = "policies"
    BY <1>2, Zenon DEF AfterProvider
  <1>3. ASSUME Orphans(w) = {}, w.todo = {} PROVE AfterProvider(w) = "record"
    BY <1>3, Zenon DEF AfterProvider
  <1> QED BY <1>1, <1>2, <1>3

\* A reconcile begins with the current application.
LEMMA StartStep ==
  ASSUME SlugsInv, NEW a \in Apps, Start(a)
  PROVE  SlugsInv'
  <1>1. /\ app \in [Apps -> App] /\ RoutesOK /\ PoliciesOK /\ ServerOK /\ QueuesOK
        /\ WorkerOK /\ BoundsOK /\ MadeOK /\ unwatched \in BOOLEAN
        /\ SlugForLife
    BY TypeOKInParts DEF SlugsInv
  <1>2. /\ queue' = queue \ {a}
        /\ UNCHANGED <<clusterVars, serverVars, timers, changes, faults, made, unwatched>>
    BY DEF Start
  <1>3. /\ app' \in [Apps -> App] /\ RoutesOK' /\ PoliciesOK' /\ ServerOK' /\ QueuesOK'
        /\ BoundsOK' /\ MadeOK' /\ unwatched' \in BOOLEAN /\ SlugForLife'
    BY <1>1, <1>2
       DEF clusterVars, serverVars, RoutesOK, PoliciesOK, ServerOK, QueuesOK, BoundsOK, MadeOK,
           SlugForLife
  <1>4. WorkerOK' /\ CopyHasTheSlug' /\ SlugReleased'
    <2>1. CASE app[a].phase = "gone"
      BY <2>1, ReturnEffect DEF Start
    <2>2. CASE app[a].phase # "gone"
      <3> DEFINE job == [name |-> a, copy |-> app[a], created |-> {},
                         redirects |-> [explicit |-> app[a].spec.explicit, hosts |-> {}],
                         todo |-> app[a].spec.routes]
      <3>1. stage' = (IF app[a].phase = "live" THEN "resolve"
                      ELSE IF app[a].tracked THEN "cleanup" ELSE "release")
            /\ work' = job /\ fresh' = TRUE
        BY <2>2 DEF Start
      <3>2. app[a] \in App /\ app[a].spec \in Specs[a] /\ app' = app
        BY <1>1, <1>2 DEF SlugForLife, clusterVars
      <3>3. app[a].spec.routes \in SUBSET Routes /\ app[a].spec.explicit \in BOOLEAN
        BY <3>2, SpecTypes
      <3>4. job \in Job
        BY <3>2, <3>3 DEF Job, Redirects
      <3>5. job.name = a /\ job.copy = app[a]
        OBVIOUS
      <3> HIDE DEF job
      <3>6. stage' \in {"resolve", "cleanup", "release"}
            /\ (stage' = "release" => ~app[a].tracked)
        BY <3>1
      <3>7. WorkerOK'
        BY <3>1, <3>4, <3>6 DEF WorkerOK, Stages
      <3>8. CopyHasTheSlug'
        BY <3>1, <3>2, <3>4, <3>5 DEF CopyHasTheSlug
      <3>9. SlugReleased'
        BY <3>1, <3>5, <3>6 DEF SlugReleased
      <3> QED BY <3>7, <3>8, <3>9
    <2> QED BY <2>1, <2>2
  <1> QED BY <1>3, <1>4, TypeOKInParts DEF SlugsInv

\* Groups and routes are resolved, or a requeue follows.
LEMMA ResolveStep ==
  ASSUME SlugsInv, Resolve \/ ResolveFails
  PROVE  SlugsInv'
  <1> DEFINE spec == work.copy.spec
             missing == spec.groups \ groups
             hosts == {r \in spec.routes : cachedRoute[r] = "named"}
             resolved == [work EXCEPT !.created = missing, !.redirects.hosts = hosts]
  <1>1. /\ app \in [Apps -> App] /\ RoutesOK /\ PoliciesOK /\ ServerOK /\ QueuesOK
        /\ WorkerOK /\ BoundsOK /\ MadeOK /\ unwatched \in BOOLEAN
        /\ SlugForLife
    BY TypeOKInParts DEF SlugsInv
  <1>2. /\ stage = "resolve" /\ work \in Job
        /\ spec.groups \in SUBSET Groups /\ spec.routes \in SUBSET Routes
    BY AtWork DEF Resolve, ResolveFails
  <1>3. /\ UNCHANGED <<clusterVars, queue, timers, changes, made>>
        /\ Fault \/ UNCHANGED faults
    BY DEF Resolve, ResolveFails
  <1>4. BoundsOK'
    BY <1>1, <1>3, Counted
  <1>5. /\ app' \in [Apps -> App] /\ RoutesOK' /\ PoliciesOK' /\ QueuesOK' /\ MadeOK'
        /\ SlugForLife'
    BY <1>1, <1>3
       DEF clusterVars, RoutesOK, PoliciesOK, QueuesOK, MadeOK, SlugForLife
  <1>6. ServerOK' /\ unwatched' \in BOOLEAN
    <2>1. CASE UNCHANGED <<serverVars, unwatched>> \/ (UNCHANGED serverVars /\ unwatched' = TRUE)
      BY <1>1, <2>1 DEF serverVars, ServerOK
    <2>2. CASE WriteGroups(groups \union missing) /\ GroupsUnheard(work.name, groups \union missing)
      <3>1. groups \union missing \in SUBSET Groups
        BY <1>1, <1>2 DEF ServerOK
      <3>2. ServerOK'
        BY <1>1, <2>2, <3>1, WriteGroupsEffect
      <3>3. unwatched' \in BOOLEAN
        BY <1>1, <2>2, GroupsUnheardEffect
      <3> QED BY <3>2, <3>3
    <2>3. CASE UNCHANGED serverVars /\ GroupsUnheard(work.name, groups \union missing)
      <3>1. ServerOK'
        BY <1>1, <2>3 DEF serverVars, ServerOK
      <3>2. unwatched' \in BOOLEAN
        BY <1>1, <2>3, GroupsUnheardEffect
      <3> QED BY <3>1, <3>2
    <2> QED BY <2>1, <2>2, <2>3 DEF Resolve, ResolveFails
  <1>7. resolved \in Job /\ resolved.name = work.name /\ resolved.copy = work.copy
    BY <1>2 DEF Job, Redirects
  <1>8. \/ stage' = "fail" /\ work' = work /\ fresh' = fresh
        \/ stage' = "provision" /\ work' = resolved /\ fresh' = fresh
    BY DEF Resolve, ResolveFails, Proceed
  <1> HIDE DEF resolved
  <1>9. WorkerOK' /\ CopyHasTheSlug'
    <2>1. stage' \in Stages \ {"idle"} /\ stage # "idle" /\ fresh' = fresh
      BY <1>2, <1>8 DEF Stages
    <2>2. app' = app
      BY <1>3 DEF clusterVars
    <2>3. work' \in Job /\ work'.name = work.name /\ work'.copy = work.copy
      BY <1>2, <1>7, <1>8
    <2> QED BY <2>1, <2>2, <2>3, MovingOn
  <1>10. SlugReleased'
    BY <1>8 DEF SlugReleased
  <1> QED BY <1>4, <1>5, <1>6, <1>9, <1>10, TypeOKInParts DEF SlugsInv

\* Provider and application are made under the slug of the application.
LEMMA ProvisionStep ==
  ASSUME SlugsInv, Provision
  PROVE  SlugsInv'
  <1> DEFINE slug == EffectiveSlug(work.name, work.copy.spec)
             made1 == [redirects |-> work.redirects, bound |-> work.copy.spec.groups]
  <1>1. /\ app \in [Apps -> App] /\ RoutesOK /\ PoliciesOK /\ ServerOK /\ QueuesOK
        /\ WorkerOK /\ BoundsOK /\ MadeOK /\ unwatched \in BOOLEAN
        /\ SlugForLife
    BY TypeOKInParts DEF SlugsInv
  <1>2. /\ stage = "provision" /\ work \in Job /\ work.name \in Apps
        /\ work.copy.spec.groups \in SUBSET Groups /\ work.redirects \in Redirects
        /\ slug \in Slugs /\ slug = EffectiveSlug(work.name, app[work.name].spec)
    BY AtWork DEF Provision, Job
  <1>3. /\ server' = [server EXCEPT ![slug] = made1]
        /\ made' = [made EXCEPT ![work.name] = @ \union {slug}]
        /\ stage' = AfterProvider(work) /\ work' = work /\ fresh' = fresh
        /\ UNCHANGED <<clusterVars, groups, queue, timers, changes, faults, unwatched>>
    BY DEF Provision, Proceed
  <1>4. made1 \in Application
    BY <1>2 DEF Application
  <1> HIDE DEF slug, made1
  <1>5. ServerOK'
    BY <1>1, <1>2, <1>3, <1>4 DEF ServerOK
  <1>6. MadeOK'
    BY <1>1, <1>2, <1>3 DEF MadeOK
  <1>7. app' = app /\ RoutesOK' /\ PoliciesOK' /\ QueuesOK' /\ BoundsOK' /\ unwatched' \in BOOLEAN
    BY <1>1, <1>3 DEF clusterVars, RoutesOK, PoliciesOK, QueuesOK, BoundsOK
  <1>8. SlugForLife'
    <2> SUFFICES ASSUME NEW b \in Apps
                 PROVE  app[b].spec \in Specs[b] /\ made'[b] \subseteq {EffectiveSlug(b, app[b].spec)}
      BY <1>7 DEF SlugForLife
    <2>1. CASE b = work.name
      BY <1>1, <1>2, <1>3, <2>1 DEF SlugForLife, MadeOK
    <2>2. CASE b # work.name
      BY <1>1, <1>2, <1>3, <2>2 DEF SlugForLife, MadeOK
    <2> QED BY <2>1, <2>2
  <1>9. stage' \in {"orphans", "policies", "record"}
    BY <1>3, AfterProviderStages
  <1>10. WorkerOK' /\ CopyHasTheSlug'
    BY <1>2, <1>3, <1>7, <1>9, MovingOn DEF Stages
  <1>11. SlugReleased'
    BY <1>9 DEF SlugReleased
  <1> QED BY <1>1, <1>5, <1>6, <1>7, <1>8, <1>10, <1>11, TypeOKInParts DEF SlugsInv

\* A reconcile that fails is repeated.
LEMMA FailureStep ==
  ASSUME SlugsInv, ProvisionFails \/ SyncPolicyFails \/ CleanupFails
  PROVE  SlugsInv'
  <1>1. /\ app \in [Apps -> App] /\ RoutesOK /\ PoliciesOK /\ ServerOK /\ QueuesOK
        /\ WorkerOK /\ BoundsOK /\ MadeOK /\ unwatched \in BOOLEAN
        /\ SlugForLife
    BY TypeOKInParts DEF SlugsInv
  <1>2. stage # "idle" /\ UNCHANGED <<clusterVars, serverVars, timers, changes, made, unwatched>>
    BY DEF ProvisionFails, SyncPolicyFails, CleanupFails
  <1>3. work \in Job /\ work.name \in Apps
    BY <1>2, AtWork
  <1>4. \/ Fault /\ Return /\ queue' = queue \union {work.name}
        \/ /\ UNCHANGED <<queue, faults>>
           /\ stage' = "fail" /\ work' = work /\ fresh' = fresh
    BY DEF ProvisionFails, SyncPolicyFails, CleanupFails, ReturnError, Proceed
  <1>5. /\ app' = app /\ RoutesOK' /\ PoliciesOK' /\ ServerOK' /\ QueuesOK' /\ MadeOK'
        /\ unwatched' \in BOOLEAN /\ SlugForLife'
    BY <1>1, <1>2, <1>3, <1>4
       DEF clusterVars, serverVars, RoutesOK, PoliciesOK, ServerOK, QueuesOK, MadeOK, SlugForLife
  <1>6. BoundsOK'
    BY <1>1, <1>2, <1>4, Counted
  <1>7. WorkerOK' /\ CopyHasTheSlug' /\ SlugReleased'
    <2>1. CASE Return
      BY <2>1, ReturnEffect
    <2>2. CASE stage' = "fail" /\ work' = work /\ fresh' = fresh
      <3>1. WorkerOK' /\ CopyHasTheSlug'
        BY <1>2, <1>3, <1>5, <2>2, MovingOn DEF Stages
      <3> QED BY <2>2, <3>1 DEF SlugReleased
    <2> QED BY <1>4, <2>1, <2>2
  <1> QED BY <1>1, <1>5, <1>6, <1>7, TypeOKInParts DEF SlugsInv

\* SecurityPolicies go and come one after the other.
LEMMA PolicyStep ==
  ASSUME SlugsInv,
         (\E n \in PolicyNames : DeleteOrphan(n)) \/ (\E r \in Routes : SyncPolicy(r))
  PROVE  SlugsInv'
  <1>1. /\ app \in [Apps -> App] /\ RoutesOK /\ PoliciesOK /\ ServerOK /\ QueuesOK
        /\ WorkerOK /\ BoundsOK /\ MadeOK /\ unwatched \in BOOLEAN
        /\ SlugForLife
    BY TypeOKInParts DEF SlugsInv
  <1>2. /\ stage # "idle"
        /\ UNCHANGED <<app, route, cachedRoute, serverVars, timers, changes, made, unwatched>>
        /\ Fault \/ UNCHANGED faults
    BY DEF DeleteOrphan, SyncPolicy
  <1>3. /\ work \in Job /\ work.name \in Apps /\ work.copy \in App /\ work.todo \in SUBSET Routes
        /\ work.copy.spec \in Specs[work.name] /\ work.copy.spec.groups \in SUBSET Groups
        /\ EffectiveSlug(work.name, work.copy.spec) \in Slugs
    BY <1>2, AtWork
  <1> DEFINE Moves(w) == /\ w.name = work.name /\ w.copy.spec = work.copy.spec
                         /\ w.copy.tracked = work.copy.tracked
                         /\ stage' = AfterProvider(w) /\ work' = w /\ fresh' = fresh
                         /\ PoliciesOK' /\ QueuesOK'
  <1>4. PICK rest \in Job : Moves(rest)
    <2>1. ASSUME NEW n \in PolicyNames, DeleteOrphan(n) PROVE \E w \in Job : Moves(w)
      <3> DEFINE rest == [work EXCEPT !.copy.policies = @ \ {n}]
      <3>1. /\ rest \in Job /\ rest.name = work.name /\ rest.copy.spec = work.copy.spec
            /\ rest.copy.tracked = work.copy.tracked
        BY <1>3 DEF Job, App
      <3>2. stage' = AfterProvider(rest) /\ work' = rest /\ fresh' = fresh
        BY <2>1 DEF DeleteOrphan, Proceed
      <3>3. PoliciesOK' /\ QueuesOK'
        <4>1. CASE WritePolicy(n, None)
          BY <1>1, <1>2, <4>1, WritePolicyEffect DEF QueuesOK
        <4>2. CASE UNCHANGED <<policy, queue>>
          BY <1>1, <1>2, <4>2 DEF PoliciesOK, QueuesOK
        <4> QED BY <2>1, <4>1, <4>2 DEF DeleteOrphan
      <3> QED BY <3>1, <3>2, <3>3
    <2>2. ASSUME NEW r \in Routes, SyncPolicy(r) PROVE \E w \in Job : Moves(w)
      <3> DEFINE rest == [work EXCEPT !.todo = @ \ {r}]
                 built == BuildSecurityPolicy(work.name, work.copy.spec, r)
      <3>1. /\ rest \in Job /\ rest.name = work.name /\ rest.copy.spec = work.copy.spec
            /\ rest.copy.tracked = work.copy.tracked
        BY <1>3 DEF Job
      <3>2. stage' = AfterProvider(rest) /\ work' = rest /\ fresh' = fresh
        BY <2>2 DEF SyncPolicy, Proceed
      <3>3. built \in Policy
        BY <1>3 DEF BuildSecurityPolicy, Policy
      <3>4. PolicyName(work.name, r) \in PolicyNames /\ WritePolicy(PolicyName(work.name, r), built)
        BY <1>3, <2>2, NamesTypes DEF SyncPolicy
      <3> HIDE DEF built, rest
      <3>5. PoliciesOK' /\ QueuesOK'
        BY <1>1, <1>2, <3>3, <3>4, WritePolicyEffect DEF QueuesOK
      <3> QED BY <3>1, <3>2, <3>5
    <2> QED BY <2>1, <2>2
  <1>5. stage' \in {"orphans", "policies", "record"}
    BY <1>4, AfterProviderStages
  <1>6. WorkerOK' /\ CopyHasTheSlug'
    <2>1. stage' \in Stages \ {"idle"}
      BY <1>5 DEF Stages
    <2> QED BY <1>2, <1>4, <2>1, MovingOn
  <1>7. SlugReleased'
    BY <1>5 DEF SlugReleased
  <1>8. BoundsOK'
    BY <1>1, <1>2, Counted
  <1>9. /\ app' = app /\ RoutesOK' /\ ServerOK' /\ MadeOK' /\ unwatched' \in BOOLEAN
        /\ SlugForLife'
    BY <1>1, <1>2 DEF serverVars, RoutesOK, ServerOK, MadeOK, SlugForLife
  <1> QED BY <1>1, <1>4, <1>6, <1>7, <1>8, <1>9, TypeOKInParts DEF SlugsInv

\* The status is written on the current object, which keeps its spec and phase.
LEMMA StatusStep ==
  ASSUME SlugsInv, Record \/ FailRequeue
  PROVE  SlugsInv' /\ \A a \in Apps : app'[a].phase = app[a].phase
  <1>1. /\ app \in [Apps -> App] /\ RoutesOK /\ PoliciesOK /\ ServerOK /\ QueuesOK
        /\ WorkerOK /\ BoundsOK /\ MadeOK /\ unwatched \in BOOLEAN
        /\ SlugForLife
    BY TypeOKInParts DEF SlugsInv
  <1>2. stage # "idle"
    BY DEF Record, FailRequeue
  <1>3. /\ work.name \in Apps /\ work.created \in SUBSET Groups
        /\ DesiredNames(work) \in SUBSET PolicyNames
    BY <1>2, AtWork
  <1> DEFINE old == app[work.name]
             Next1(object) == /\ UpdateStatus(object) /\ object \in App
                              /\ object.spec = old.spec /\ object.phase = old.phase
  <1>4. PICK object : Next1(object)
    <2>1. CASE Record
      <3> DEFINE object == [old EXCEPT !.ready = TRUE, !.tracked = TRUE,
                              !.policies = DesiredNames(work), !.created = @ \union work.created]
      <3>1. object \in App /\ object.spec = old.spec /\ object.phase = old.phase
        BY <1>1, <1>3 DEF App
      <3>2. UpdateStatus(object)
        BY <2>1 DEF Record
      <3> QED BY <3>1, <3>2
    <2>2. CASE FailRequeue
      <3> DEFINE object == [old EXCEPT !.ready = FALSE]
      <3>1. old \in App
        BY <1>1, <1>3
      <3>2. \A b \in BOOLEAN :
              LET o == [old EXCEPT !.ready = b] IN
              o \in App /\ o.spec = old.spec /\ o.phase = old.phase
        BY <3>1 DEF App
      <3>3. object \in App /\ object.spec = old.spec /\ object.phase = old.phase
        BY <3>2, Zenon
      <3>4. UpdateStatus(object)
        BY <2>2 DEF FailRequeue
      <3> QED BY <3>3, <3>4
    <2> QED BY <2>1, <2>2
  <1>5. /\ UNCHANGED <<route, cachedRoute, policy, serverVars, changes, made, unwatched>>
        /\ \/ /\ WriteApp(work.name, object) /\ timers' = timers \union {work.name}
              /\ Return /\ UNCHANGED faults
           \/ /\ Fault \/ UNCHANGED faults
              /\ Return /\ queue' = queue \union {work.name} /\ UNCHANGED <<app, timers>>
    BY <1>4 DEF UpdateStatus, ReturnError
  <1>6. /\ app' \in [Apps -> App] /\ QueuesOK'
        /\ \A a \in Apps : app'[a].spec = app[a].spec /\ app'[a].phase = app[a].phase
    <2>1. CASE WriteApp(work.name, object) /\ timers' = timers \union {work.name}
      <3>1. timers' \subseteq Apps
        BY <1>1, <1>3, <2>1 DEF QueuesOK
      <3>2. /\ app' \in [Apps -> App] /\ QueuesOK'
            /\ app'[work.name] = object /\ \A b \in Apps \ {work.name} : app'[b] = app[b]
        BY <1>1, <1>3, <1>4, <2>1, <3>1, WriteAppEffect
      <3> QED BY <1>3, <1>4, <3>2
    <2>2. CASE queue' = queue \union {work.name} /\ UNCHANGED <<app, timers>>
      BY <1>1, <1>3, <2>2 DEF QueuesOK
    <2> QED BY <1>5, <2>1, <2>2
  <1>7. SlugForLife'
    BY <1>1, <1>5, <1>6, SlugKept
  <1>8. WorkerOK' /\ CopyHasTheSlug' /\ SlugReleased'
    BY <1>5, ReturnEffect
  <1>9. BoundsOK'
    BY <1>1, <1>5, Counted
  <1>10. RoutesOK' /\ PoliciesOK' /\ ServerOK' /\ MadeOK' /\ unwatched' \in BOOLEAN
    BY <1>1, <1>5 DEF RoutesOK, PoliciesOK, ServerOK, MadeOK, serverVars
  <1> QED BY <1>6, <1>7, <1>8, <1>9, <1>10, TypeOKInParts DEF SlugsInv

\* Whatever is under the slug goes.
LEMMA CleanupStep ==
  ASSUME SlugsInv, Cleanup
  PROVE  SlugsInv'
  <1> DEFINE spec == work.copy.spec
             slug == EffectiveSlug(work.name, spec)
             left == groups \ (work.copy.created \intersect spec.cleanup)
             bound(application) == [application EXCEPT !.bound = @ \intersect left]
  <1>1. /\ app \in [Apps -> App] /\ RoutesOK /\ PoliciesOK /\ ServerOK /\ QueuesOK
        /\ WorkerOK /\ BoundsOK /\ MadeOK /\ unwatched \in BOOLEAN
        /\ SlugForLife
    BY TypeOKInParts DEF SlugsInv
  <1>2. stage = "cleanup" /\ work \in Job /\ slug \in Slugs
    BY AtWork DEF Cleanup
  <1>3. /\ groups' = left
        /\ server' = [s \in Slugs |->
             IF s = slug \/ server[s] = None THEN None ELSE bound(server[s])]
        /\ GroupsUnheard(work.name, left)
        /\ stage' = "release" /\ work' = work /\ fresh' = fresh
        /\ UNCHANGED <<clusterVars, queue, timers, changes, faults, made>>
    BY DEF Cleanup, Proceed
  <1>4. left \subseteq Groups
    BY <1>1 DEF ServerOK
  <1>5. unwatched' \in BOOLEAN
    BY <1>1, <1>3, GroupsUnheardEffect
  <1>6. ASSUME NEW s \in Slugs, server[s] # None PROVE bound(server[s]) \in Application
    BY <1>1, <1>6 DEF ServerOK, Application
  <1> HIDE DEF slug, left
  <1>7. ServerOK' /\ server'[slug] = None
    BY <1>2, <1>3, <1>4, <1>6 DEF ServerOK
  <1>8. /\ app' = app /\ RoutesOK' /\ PoliciesOK' /\ QueuesOK' /\ BoundsOK' /\ MadeOK'
        /\ SlugForLife'
    BY <1>1, <1>3
       DEF clusterVars, RoutesOK, PoliciesOK, QueuesOK, BoundsOK, MadeOK, SlugForLife
  <1>9. WorkerOK' /\ CopyHasTheSlug'
    BY <1>2, <1>3, <1>8, MovingOn DEF Stages
  <1>10. SlugReleased'
    BY <1>3, <1>7 DEF SlugReleased, slug
  <1> QED BY <1>1, <1>5, <1>7, <1>8, <1>9, <1>10, TypeOKInParts DEF SlugsInv

\* The resource goes when its copy is current and its slug released; after a
\* restart everything is enqueued anew.
LEMMA EndingStep ==
  ASSUME SlugsInv, Release \/ Restart
  PROVE  SlugsInv'
  <1>1. /\ app \in [Apps -> App] /\ RoutesOK /\ PoliciesOK /\ ServerOK /\ QueuesOK
        /\ WorkerOK /\ BoundsOK /\ MadeOK /\ unwatched \in BOOLEAN
        /\ SlugForLife
    BY TypeOKInParts DEF SlugsInv
  <1>2. /\ UNCHANGED <<route, policy, serverVars, changes, made, unwatched>>
        /\ Fault \/ UNCHANGED faults
        /\ Return /\ cachedRoute' \in {cachedRoute, route}
    BY DEF Release, Restart, ReturnError
  <1>3. /\ app' \in [Apps -> App] /\ QueuesOK'
        /\ \A a \in Apps : app'[a].spec = app[a].spec
    <2>1. CASE Release
      <3> DEFINE a == work.name
                 object == [app[a] EXCEPT !.phase = "gone"]
      <3>1. stage # "idle"
        BY <2>1 DEF Release
      <3>2. a \in Apps
        BY <3>1, AtWork
      <3>3. object \in App /\ object.spec = app[a].spec
        BY <1>1, <3>2 DEF App
      <3>4. timers' = timers /\ (WriteApp(a, object) \/ (app' = app /\ queue' = queue \union {a}))
        BY <2>1 DEF Release, ReturnError
      <3>5. CASE WriteApp(a, object)
        <4>1. timers' \subseteq Apps
          BY <1>1, <3>4 DEF QueuesOK
        <4>2. /\ app' \in [Apps -> App] /\ QueuesOK'
              /\ app'[a] = object /\ \A b \in Apps \ {a} : app'[b] = app[b]
          <5> HIDE DEF a, object
          <5> QED BY <1>1, <3>2, <3>3, <3>5, <4>1, WriteAppEffect
        <4> HIDE DEF a, object
        <4> QED BY <3>3, <4>2
      <3>6. CASE app' = app /\ queue' = queue \union {a}
        BY <1>1, <3>2, <3>4, <3>6 DEF QueuesOK
      <3> QED BY <3>4, <3>5, <3>6
    <2>2. CASE Restart
      BY <1>1, <2>2 DEF Restart, QueuesOK
    <2> QED BY <2>1, <2>2
  <1>4. SlugForLife'
    BY <1>1, <1>2, <1>3, SlugKept
  <1>5. WorkerOK' /\ CopyHasTheSlug' /\ SlugReleased'
    BY <1>2, ReturnEffect
  <1>6. BoundsOK'
    BY <1>1, <1>2, Counted
  <1>7. RoutesOK' /\ PoliciesOK' /\ ServerOK' /\ MadeOK' /\ unwatched' \in BOOLEAN
    BY <1>1, <1>2 DEF RoutesOK, PoliciesOK, ServerOK, MadeOK, serverVars
  <1> QED BY <1>3, <1>4, <1>5, <1>6, <1>7, TypeOKInParts DEF SlugsInv

-----------------------------------------------------------------------------
(* The theorems. *)

\* Initially nothing is provisioned and nothing runs.
LEMMA InitSlugsInv == Init => SlugsInv
  <1> SUFFICES ASSUME Init PROVE SlugsInv
    OBVIOUS
  <1>1. \A a \in Apps : Initial[a] \in Specs[a] /\ NewApp(Initial[a]) \in App
    <2> SUFFICES ASSUME NEW a \in Apps
                 PROVE  Initial[a] \in Specs[a] /\ NewApp(Initial[a]) \in App
      OBVIOUS
    <2>1. Initial[a] \in Specs[a]
      BY SpecsAssumption
    <2>2. Initial[a] \in UNION {Specs[b] : b \in Apps}
      BY <2>1, SpecTypes
    <2> QED BY <2>1, <2>2 DEF NewApp, App
  <1>2. app = [a \in Apps |-> NewApp(Initial[a])] /\ app \in [Apps -> App]
    BY <1>1 DEF Init
  <1>3. RoutesOK /\ PoliciesOK /\ ServerOK /\ QueuesOK
    BY DEF Init, RoutesOK, RouteStates, PoliciesOK, ServerOK, QueuesOK
  <1>4. WorkerOK /\ BoundsOK /\ MadeOK /\ unwatched \in BOOLEAN
    <2>1. WorkerOK /\ unwatched \in BOOLEAN
      BY DEF Init, WorkerOK, Stages
    <2>2. BoundsOK
      BY BoundsAssumption DEF Init, BoundsOK
    <2>3. MadeOK
      BY DEF Init, MadeOK
    <2> QED BY <2>1, <2>2, <2>3
  <1>5. SlugForLife
    <2>1. \A a \in Apps : app[a] = NewApp(Initial[a])
      BY <1>2
    <2>2. \A a \in Apps : app[a].spec = Initial[a]
      <3>1. \A a \in Apps : NewApp(Initial[a]).spec = Initial[a]
        BY DEF NewApp
      <3> QED BY <2>1, <3>1, Zenon
    <2>3. \A a \in Apps : made[a] = {}
      BY DEF Init
    <2> QED BY <1>1, <2>2, <2>3 DEF SlugForLife
  <1>6. CopyHasTheSlug /\ SlugReleased
    BY DEF Init, CopyHasTheSlug, SlugReleased
  <1> QED BY <1>2, <1>3, <1>4, <1>5, <1>6, TypeOKInParts DEF SlugsInv

\* Whatever happens next.
LEMMA SlugsStep == SlugsInv /\ [Next]_vars => SlugsInv'
  <1> SUFFICES ASSUME SlugsInv, [Next]_vars PROVE SlugsInv'
    OBVIOUS
  <1>1. CASE \E a \in Apps : EditSpec(a) \/ DeleteApp(a)
    BY <1>1, EditStep
  <1>2. CASE \/ \E r \in Routes : ChangeRoute(r) \/ WatchRoute(r)
             \/ \E n \in PolicyNames : DropPolicy(n) \/ CollectGarbage(n)
             \/ \E g \in Groups : ChangeGroup(g)
             \/ \E a \in Apps : Resync(a)
    BY <1>2, SurroundingsStep
  <1>3. CASE \E a \in Apps : Start(a)
    BY <1>3, StartStep
  <1>4. CASE (\E n \in PolicyNames : DeleteOrphan(n)) \/ (\E r \in Routes : SyncPolicy(r))
    BY <1>4, PolicyStep
  <1>5. CASE \/ Resolve \/ ResolveFails \/ Provision \/ ProvisionFails \/ SyncPolicyFails
             \/ Record \/ FailRequeue \/ Cleanup \/ CleanupFails \/ Release \/ Restart
    BY <1>5, ResolveStep, ProvisionStep, FailureStep, StatusStep, CleanupStep, EndingStep
  <1>6. CASE UNCHANGED vars
    <2>1. /\ UNCHANGED <<app, made, workerVars>>
          /\ \A s \in Slugs : server[s] = None => server'[s] = None
      BY <1>6 DEF vars, clusterVars, serverVars
    <2>2. WorkerOK' /\ SlugForLife' /\ CopyHasTheSlug' /\ SlugReleased'
      BY <2>1, Aside
    <2>3. /\ app \in [Apps -> App] /\ RoutesOK /\ PoliciesOK /\ ServerOK /\ QueuesOK
          /\ BoundsOK /\ MadeOK /\ unwatched \in BOOLEAN
      BY TypeOKInParts DEF SlugsInv
    <2>4. /\ app' \in [Apps -> App] /\ RoutesOK' /\ PoliciesOK' /\ ServerOK' /\ QueuesOK'
          /\ BoundsOK' /\ MadeOK' /\ unwatched' \in BOOLEAN
      BY <1>6, <2>3 DEF vars, clusterVars, serverVars, RoutesOK, PoliciesOK, ServerOK, QueuesOK,
                        BoundsOK, MadeOK
    <2> QED BY <2>2, <2>4, TypeOKInParts DEF SlugsInv
  <1> QED BY <1>1, <1>2, <1>3, <1>4, <1>5, <1>6 DEF Next, Reconcile

\* However old a reconcile's copy, it provisions and cleans up under the one slug
\* its application has for life, and what it has cleaned up is away while the
\* resource is released.
THEOREM OneSlugForLife == Spec => []SlugsInv
  BY InitSlugsInv, SlugsStep, PTL DEF Spec

\* Every variable keeps its type, however many applications share the namespace.
THEOREM NamespaceTypes == Spec => []TypeOK
  <1>1. SlugsInv => TypeOK
    BY DEF SlugsInv
  <1> QED BY <1>1, OneSlugForLife, PTL

\* Only the release makes an application go.
LEMMA OnlyReleaseRemoves ==
  ASSUME SlugsInv, Next, NEW a \in Apps, app[a].phase # "gone", app'[a].phase = "gone"
  PROVE  Release
  <1>1. app \in [Apps -> App]
    BY DEF SlugsInv, TypeOK
  <1>2. ASSUME NEW b \in Apps, EditSpec(b) PROVE FALSE
    <2>1. PICK spec \in Specs[b] : UserWrites(b, [app[b] EXCEPT !.spec = spec])
      BY <1>2 DEF EditSpec
    <2>2. app' = [app EXCEPT ![b] = [app[b] EXCEPT !.spec = spec]]
      BY <2>1 DEF UserWrites, WriteApp
    <2>3. app[b] \in App
      BY <1>1
    <2>4. app'[b].phase = app[b].phase /\ (a # b => app'[a] = app[a])
      BY <1>1, <2>2, <2>3 DEF App
    <2> QED BY <2>4
  <1>3. ASSUME NEW b \in Apps, DeleteApp(b) PROVE FALSE
    <2>1. app' = [app EXCEPT ![b] = [app[b] EXCEPT !.phase = "deleting"]]
      BY <1>3 DEF DeleteApp, UserWrites, WriteApp
    <2>2. app[b] \in App
      BY <1>1
    <2>3. app'[b].phase = "deleting" /\ (a # b => app'[a] = app[a])
      BY <1>1, <2>1, <2>2 DEF App
    <2> QED BY <2>3
  <1>4. CASE Record \/ FailRequeue
    BY <1>4, StatusStep
  <1>5. app' # app
    OBVIOUS
  <1>6. CASE UNCHANGED app
    BY <1>5, <1>6
  <1>7. ASSUME NEW b \in Apps, Start(b) \/ Resync(b) PROVE UNCHANGED app
    BY <1>7 DEF Start, Resync, clusterVars
  <1>8. ASSUME NEW r \in Routes, ChangeRoute(r) \/ WatchRoute(r) \/ SyncPolicy(r)
        PROVE  UNCHANGED app
    BY <1>8 DEF ChangeRoute, WatchRoute, SyncPolicy
  <1>9. ASSUME NEW n \in PolicyNames, DropPolicy(n) \/ CollectGarbage(n) \/ DeleteOrphan(n)
        PROVE  UNCHANGED app
    BY <1>9 DEF DropPolicy, CollectGarbage, DeleteOrphan
  <1>10. ASSUME NEW g \in Groups, ChangeGroup(g) PROVE UNCHANGED app
    BY <1>10 DEF ChangeGroup, clusterVars
  <1>11. ASSUME \/ Resolve \/ ResolveFails \/ Provision \/ ProvisionFails \/ SyncPolicyFails
                \/ Cleanup \/ CleanupFails \/ Restart
         PROVE  UNCHANGED app
    BY <1>11 DEF Resolve, ResolveFails, Provision, ProvisionFails, SyncPolicyFails, Cleanup,
                 CleanupFails, Restart, clusterVars
  <1> QED BY <1>2, <1>3, <1>4, <1>6, <1>7, <1>8, <1>9, <1>10, <1>11 DEF Next, Reconcile

\* The release is that of an application whose slug is free.
LEMMA ReleaseIsClean ==
  ASSUME SlugsInv, Release, NEW a \in Apps, app[a].phase # "gone", app'[a].phase = "gone",
         app[a].tracked, NEW s \in made[a]
  PROVE  server'[s] = None
  <1>1. app \in [Apps -> App] /\ SlugForLife /\ CopyHasTheSlug /\ SlugReleased
    BY DEF SlugsInv, TypeOK
  <1>2. stage = "release" /\ server' = server
    BY DEF Release, serverVars
  <1>3. fresh /\ app' = [app EXCEPT ![work.name] = [app[work.name] EXCEPT !.phase = "gone"]]
    BY DEF Release, WriteApp
  <1>4. a = work.name
    BY <1>1, <1>3
  <1>5. work.copy.tracked = app[a].tracked
        /\ EffectiveSlug(work.name, work.copy.spec) = EffectiveSlug(a, app[a].spec)
    BY <1>1, <1>2, <1>3, <1>4 DEF CopyHasTheSlug
  <1>6. s = EffectiveSlug(a, app[a].spec)
    BY <1>1 DEF SlugForLife
  <1> QED BY <1>1, <1>2, <1>5, <1>6 DEF SlugReleased

\* Whatever a recorded application has provisioned is gone from Authentik when
\* its resource goes, whoever shares its groups, routes or names.
THEOREM NothingIsLeft == Spec => SlugsCleanedUp
  <1> DEFINE Clean ==
        \A a \in Apps :
          app[a].phase # "gone" /\ app'[a].phase = "gone" /\ app[a].tracked =>
            \A s \in made[a] : server'[s] = None
  <1>1. SlugsInv /\ [Next]_vars => [Clean]_vars
    BY OnlyReleaseRemoves, ReleaseIsClean
  <1>2. SlugsCleanedUp <=> [][Clean]_vars
    BY DEF SlugsCleanedUp
  <1> HIDE DEF Clean
  <1> QED BY <1>1, <1>2, OneSlugForLife, PTL DEF Spec

-----------------------------------------------------------------------------
(* Ready stands: what steps write, and who hears of it. *)

\* A written condition leaves the rest of an application as it is.
LEMMA ReadyWritten ==
  ASSUME NEW object \in App, NEW b \in BOOLEAN
  PROVE  LET o == [object EXCEPT !.ready = b] IN
         o \in App /\ o.spec = object.spec /\ o.phase = object.phase
  BY DEF App

\* Applications change one at a time, keep their slug, and go only when released.
LEMMA AppsChange ==
  ASSUME SlugsInv, Next
  PROVE  \/ UNCHANGED app
         \/ \E b \in Apps, object \in App :
              /\ WriteApp(b, object)
              /\ EffectiveSlug(b, object.spec) = EffectiveSlug(b, app[b].spec)
              /\ object.phase = "gone" => app[b].phase = "gone" \/ (Release /\ b = work.name)
  <1> DEFINE Changes(b, object) ==
        /\ object \in App /\ WriteApp(b, object)
        /\ EffectiveSlug(b, object.spec) = EffectiveSlug(b, app[b].spec)
        /\ object.phase = "gone" => app[b].phase = "gone" \/ (Release /\ b = work.name)
  <1> SUFFICES UNCHANGED app \/ \E b \in Apps : \E object \in App : Changes(b, object)
    OBVIOUS
  <1>1. app \in [Apps -> App]
    BY DEF SlugsInv, TypeOK
  <1>2. \A b \in Apps : app[b] \in App /\ app[b].spec \in UNION {Specs[c] : c \in Apps}
    BY <1>1 DEF App
  <1>3. ASSUME NEW b \in Apps, EditSpec(b) PROVE \E object \in App : Changes(b, object)
    <2>1. PICK spec \in Specs[b] : Admitted(b, spec) /\ UserWrites(b, [app[b] EXCEPT !.spec = spec])
      BY <1>3 DEF EditSpec
    <2>2. spec \in UNION {Specs[c] : c \in Apps}
      BY SpecTypes
    <2> DEFINE object == [app[b] EXCEPT !.spec = spec]
    <2>3. object \in App /\ object.spec = spec /\ object.phase = app[b].phase
      BY <1>2, <2>2 DEF App
    <2>4. WriteApp(b, object) /\ app[b].phase # "gone"
      BY <1>3, <2>1 DEF UserWrites, EditSpec
    <2>5. EffectiveSlug(b, spec) = EffectiveSlug(b, app[b].spec)
      BY <2>1 DEF Admitted
    <2> HIDE DEF object
    <2> QED BY <2>3, <2>4, <2>5
  <1>4. ASSUME NEW b \in Apps, DeleteApp(b) PROVE \E object \in App : Changes(b, object)
    <2> DEFINE object == [app[b] EXCEPT !.phase = "deleting"]
    <2>1. object \in App /\ object.spec = app[b].spec /\ object.phase = "deleting"
      BY <1>2 DEF App
    <2>2. WriteApp(b, object)
      BY <1>4 DEF DeleteApp, UserWrites
    <2> HIDE DEF object
    <2> QED BY <2>1, <2>2
  <1>5. CASE Release
    <2> DEFINE b == work.name
               object == [app[b] EXCEPT !.phase = "gone"]
    <2>1. b \in Apps
      BY <1>5, AtWork DEF Release
    <2>2. object \in App /\ object.spec = app[b].spec
      BY <1>2, <2>1 DEF App
    <2>3. UNCHANGED app \/ WriteApp(b, object)
      BY <1>5 DEF Release
    <2> HIDE DEF object
    <2> QED BY <1>5, <2>1, <2>2, <2>3
  <1>6. CASE Record \/ FailRequeue
    <2> DEFINE b == work.name
               recorded == [app[b] EXCEPT !.ready = TRUE, !.tracked = TRUE,
                              !.policies = DesiredNames(work), !.created = @ \union work.created]
               failed == [app[b] EXCEPT !.ready = FALSE]
    <2>1. b \in Apps /\ work.created \in SUBSET Groups /\ DesiredNames(work) \in SUBSET PolicyNames
      BY <1>6, AtWork DEF Record, FailRequeue
    <2>2. recorded \in App /\ recorded.spec = app[b].spec /\ recorded.phase = app[b].phase
      BY <1>2, <2>1 DEF App
    <2>3. failed \in App /\ failed.spec = app[b].spec /\ failed.phase = app[b].phase
      BY <1>2, <2>1, ReadyWritten
    <2>4. UNCHANGED app \/ WriteApp(b, recorded) \/ WriteApp(b, failed)
      BY <1>6 DEF Record, FailRequeue, UpdateStatus
    <2> HIDE DEF recorded, failed
    <2> QED BY <2>1, <2>2, <2>3, <2>4
  <1>7. ASSUME NEW b \in Apps, Start(b) \/ Resync(b) PROVE UNCHANGED app
    BY <1>7 DEF Start, Resync, clusterVars
  <1>8. ASSUME NEW r \in Routes, ChangeRoute(r) \/ WatchRoute(r) \/ SyncPolicy(r)
        PROVE  UNCHANGED app
    BY <1>8 DEF ChangeRoute, WatchRoute, SyncPolicy
  <1>9. ASSUME NEW n \in PolicyNames, DropPolicy(n) \/ CollectGarbage(n) \/ DeleteOrphan(n)
        PROVE  UNCHANGED app
    BY <1>9 DEF DropPolicy, CollectGarbage, DeleteOrphan
  <1>10. ASSUME NEW g \in Groups, ChangeGroup(g) PROVE UNCHANGED app
    BY <1>10 DEF ChangeGroup, clusterVars
  <1>11. ASSUME \/ Resolve \/ ResolveFails \/ Provision \/ ProvisionFails \/ SyncPolicyFails
                \/ Cleanup \/ CleanupFails \/ Restart
         PROVE  UNCHANGED app
    BY <1>11 DEF Resolve, ResolveFails, Provision, ProvisionFails, SyncPolicyFails, Cleanup,
                 CleanupFails, Restart, clusterVars
  <1> HIDE DEF Changes
  <1> QED BY <1>3, <1>4, <1>5, <1>6, <1>7, <1>8, <1>9, <1>10, <1>11 DEF Next, Reconcile

\* SecurityPolicies change one at a time, and always to something or nothing.
LEMMA PoliciesChange ==
  ASSUME SlugsInv, Next
  PROVE  \/ UNCHANGED policy
         \/ \E n \in PolicyNames : \E object \in Policy \union {None} : WritePolicy(n, object)
  <1>1. ASSUME NEW r \in Routes, SyncPolicy(r)
        PROVE  \E n \in PolicyNames : \E object \in Policy \union {None} : WritePolicy(n, object)
    <2> DEFINE built == BuildSecurityPolicy(work.name, work.copy.spec, r)
    <2>1. /\ work.name \in Apps /\ work.copy.spec.groups \in SUBSET Groups
          /\ EffectiveSlug(work.name, work.copy.spec) \in Slugs
      BY <1>1, AtWork DEF SyncPolicy
    <2>2. built \in Policy
      BY <2>1 DEF BuildSecurityPolicy, Policy
    <2>3. WritePolicy(PolicyName(work.name, r), built)
      BY <1>1 DEF SyncPolicy
    <2> HIDE DEF built
    <2> QED BY <2>1, <2>2, <2>3, NamesTypes
  <1>2. ASSUME NEW n \in PolicyNames, DropPolicy(n) \/ CollectGarbage(n) \/ DeleteOrphan(n)
        PROVE  UNCHANGED policy \/ WritePolicy(n, None)
    BY <1>2 DEF DropPolicy, CollectGarbage, DeleteOrphan
  <1>3. ASSUME NEW a \in Apps, EditSpec(a) \/ DeleteApp(a) \/ Start(a) \/ Resync(a)
        PROVE  UNCHANGED policy
    BY <1>3 DEF EditSpec, DeleteApp, UserWrites, Start, Resync, clusterVars
  <1>4. ASSUME NEW r \in Routes, ChangeRoute(r) \/ WatchRoute(r) PROVE UNCHANGED policy
    BY <1>4 DEF ChangeRoute, WatchRoute
  <1>5. ASSUME NEW g \in Groups, ChangeGroup(g) PROVE UNCHANGED policy
    BY <1>5 DEF ChangeGroup, clusterVars
  <1>6. ASSUME \/ Resolve \/ ResolveFails \/ Provision \/ ProvisionFails \/ SyncPolicyFails
               \/ Record \/ FailRequeue \/ Cleanup \/ CleanupFails \/ Release \/ Restart
        PROVE  UNCHANGED policy
    BY <1>6 DEF Resolve, ResolveFails, Provision, ProvisionFails, SyncPolicyFails, Record,
                FailRequeue, UpdateStatus, Cleanup, CleanupFails, Release, Restart, clusterVars
  <1> QED BY <1>1, <1>2, <1>3, <1>4, <1>5, <1>6 DEF Next, Reconcile

\* Requests leave the queue only when they are taken up.
LEMMA QueueKept ==
  ASSUME Next, NEW a \in Apps, app[a].phase # "gone", a \notin queue', ~Start(a)
  PROVE  a \notin queue
  <1> SUFFICES ASSUME a \in queue PROVE a \in queue'
    OBVIOUS
  <1>1. CASE queue' = queue
    BY <1>1
  <1>2. ASSUME NEW b \in Apps, Start(b) PROVE a \in queue'
    BY <1>2 DEF Start
  <1>3. ASSUME NEW b \in Apps, EditSpec(b) \/ DeleteApp(b) \/ Resync(b) PROVE a \in queue'
    BY <1>3 DEF EditSpec, DeleteApp, UserWrites, WriteApp, Resync
  <1>4. ASSUME NEW n \in PolicyNames, DropPolicy(n) \/ CollectGarbage(n) \/ DeleteOrphan(n)
        PROVE  a \in queue'
    BY <1>4 DEF DropPolicy, CollectGarbage, DeleteOrphan, WritePolicy
  <1>5. ASSUME NEW r \in Routes, ChangeRoute(r) \/ WatchRoute(r) \/ SyncPolicy(r)
        PROVE  a \in queue'
    BY <1>5 DEF ChangeRoute, WatchRoute, SyncPolicy, WritePolicy
  <1>6. CASE \/ ProvisionFails \/ SyncPolicyFails \/ Record \/ FailRequeue \/ CleanupFails
             \/ Release
    BY <1>6 DEF ProvisionFails, SyncPolicyFails, Record, FailRequeue, UpdateStatus, CleanupFails,
                Release, ReturnError, WriteApp
  <1>7. CASE Resolve \/ ResolveFails \/ Provision \/ Cleanup
    BY <1>7 DEF Resolve, ResolveFails, Provision, Cleanup
  <1>8. ASSUME NEW g \in Groups, ChangeGroup(g) PROVE a \in queue'
    BY <1>8 DEF ChangeGroup
  <1>9. CASE Restart
    BY <1>9 DEF Restart
  <1> QED BY <1>2, <1>3, <1>4, <1>5, <1>6, <1>7, <1>8, <1>9 DEF Next, Reconcile

\* Who writes an application enqueues it.
LEMMA AppHeard ==
  ASSUME SlugsInv, [Next]_vars, NEW a \in Apps, a \notin queue'
  PROVE  app'[a] = app[a]
  <1>1. CASE UNCHANGED app
    BY <1>1
  <1>2. ASSUME NEW b \in Apps, NEW object \in App, WriteApp(b, object)
        PROVE  app'[a] = app[a]
    <2>1. app \in [Apps -> App]
      BY DEF SlugsInv, TypeOK
    <2>2. CASE object = app[b]
      BY <1>2, <2>1, <2>2 DEF WriteApp
    <2>3. CASE object # app[b]
      BY <1>2, <2>1, <2>3 DEF WriteApp
    <2> QED BY <2>2, <2>3
  <1>3. CASE Next
    BY <1>1, <1>2, <1>3, AppsChange
  <1> QED BY <1>1, <1>3 DEF vars, clusterVars

\* Who writes a SecurityPolicy enqueues the one who owned it.
LEMMA PolicyHeard ==
  ASSUME SlugsInv, [Next]_vars, NEW a \in Apps, a \notin queue',
         NEW m \in PolicyNames, policy[m] # None, policy[m].owner = a
  PROVE  policy'[m] = policy[m]
  <1>1. CASE UNCHANGED policy
    BY <1>1
  <1>2. ASSUME NEW n \in PolicyNames, NEW object \in Policy \union {None}, WritePolicy(n, object)
        PROVE  policy'[m] = policy[m]
    <2>1. policy' = [policy EXCEPT ![n] = object]
          /\ policy \in [PolicyNames -> Policy \union {None}]
      BY <1>2 DEF WritePolicy, SlugsInv, TypeOK
    <2>2. CASE m # n \/ object = policy[n]
      BY <2>1, <2>2
    <2>3. CASE m = n /\ object # policy[n]
      <3>1. Owners(n) = {a}
        BY <2>3 DEF Owners
      <3> QED BY <1>2, <2>3, <3>1 DEF WritePolicy
    <2> QED BY <2>2, <2>3
  <1>3. CASE Next
    BY <1>1, <1>2, <1>3, PoliciesChange
  <1> QED BY <1>1, <1>3 DEF vars, clusterVars

\* A change of a route that the cache learns of enqueues those who refer to it.
LEMMA RouteHeard ==
  ASSUME SlugsInv, [Next]_vars, NEW a \in Apps, a \notin queue', app[a].phase # "gone",
         NEW r \in app[a].spec.routes
  PROVE  cachedRoute'[r] = cachedRoute[r]
  <1>1. CASE UNCHANGED cachedRoute
    BY <1>1
  <1>2. ASSUME NEW q \in Routes, WatchRoute(q) PROVE cachedRoute'[r] = cachedRoute[r]
    <2>1. cachedRoute \in [Routes -> RouteStates] /\ app[a].spec \in Specs[a]
      BY DEF SlugsInv, TypeOK, SlugForLife
    <2>2. r \in Routes
      BY <2>1, SpecTypes
    <2>3. q # r
      BY <1>2 DEF WatchRoute, AppsOf
    <2> QED BY <1>2, <2>1, <2>2, <2>3 DEF WatchRoute
  <1>3. CASE Restart
    BY <1>3 DEF Restart
  <1>4. ASSUME NEW b \in Apps, EditSpec(b) \/ DeleteApp(b) \/ Start(b) \/ Resync(b)
        PROVE  UNCHANGED cachedRoute
    BY <1>4 DEF EditSpec, DeleteApp, UserWrites, Start, Resync, clusterVars
  <1>5. ASSUME NEW q \in Routes, ChangeRoute(q) \/ SyncPolicy(q) PROVE UNCHANGED cachedRoute
    BY <1>5 DEF ChangeRoute, SyncPolicy
  <1>6. ASSUME NEW n \in PolicyNames, DropPolicy(n) \/ CollectGarbage(n) \/ DeleteOrphan(n)
        PROVE  UNCHANGED cachedRoute
    BY <1>6 DEF DropPolicy, CollectGarbage, DeleteOrphan
  <1>7. ASSUME NEW g \in Groups, ChangeGroup(g) PROVE UNCHANGED cachedRoute
    BY <1>7 DEF ChangeGroup, clusterVars
  <1>8. ASSUME \/ Resolve \/ ResolveFails \/ Provision \/ ProvisionFails \/ SyncPolicyFails
               \/ Record \/ FailRequeue \/ Cleanup \/ CleanupFails \/ Release
        PROVE  UNCHANGED cachedRoute
    BY <1>8 DEF Resolve, ResolveFails, Provision, ProvisionFails, SyncPolicyFails, Record,
                FailRequeue, UpdateStatus, Cleanup, CleanupFails, Release, clusterVars
  <1>9. CASE UNCHANGED vars
    BY <1>9 DEF vars, clusterVars
  <1> QED BY <1>1, <1>2, <1>3, <1>4, <1>5, <1>6, <1>7, <1>8, <1>9 DEF Next, Reconcile

\* Nobody ever comes to share a slug, nor stops to.
LEMMA SoleKept ==
  ASSUME SlugsInv, [Next]_vars, NEW a \in Apps
  PROVE  Sole(a)' <=> Sole(a)
  <1>1. \A b \in Apps : EffectiveSlug(b, app'[b].spec) = EffectiveSlug(b, app[b].spec)
    <2>1. CASE UNCHANGED app
      BY <2>1
    <2>2. ASSUME NEW b \in Apps, NEW object \in App, WriteApp(b, object),
                 EffectiveSlug(b, object.spec) = EffectiveSlug(b, app[b].spec), NEW c \in Apps
          PROVE  EffectiveSlug(c, app'[c].spec) = EffectiveSlug(c, app[c].spec)
      <3>1. app' = [app EXCEPT ![b] = object] /\ app \in [Apps -> App]
        BY <2>2 DEF WriteApp, SlugsInv, TypeOK
      <3>2. CASE c = b
        BY <2>2, <3>1, <3>2
      <3>3. CASE c # b
        BY <3>1, <3>3
      <3> QED BY <3>2, <3>3
    <2>3. CASE Next
      BY <2>1, <2>2, <2>3, AppsChange
    <2> QED BY <2>1, <2>3 DEF vars, clusterVars
  <1> QED BY <1>1, Zenon DEF Sole

\* History is not forgotten.
LEMMA UnwatchedStays ==
  ASSUME [Next]_vars, unwatched
  PROVE  unwatched'
  <1>1. CASE UNCHANGED unwatched
    BY <1>1
  <1>2. ASSUME NEW a, NEW set, GroupsUnheard(a, set) PROVE unwatched'
    BY <1>2, Zenon DEF GroupsUnheard
  <1>3. CASE Resolve \/ ResolveFails \/ Cleanup
    BY <1>1, <1>2, <1>3 DEF Resolve, ResolveFails, Cleanup
  <1>4. ASSUME NEW g \in Groups, ChangeGroup(g) PROVE unwatched'
    BY <1>4 DEF ChangeGroup
  <1>5. ASSUME NEW b \in Apps, EditSpec(b) \/ DeleteApp(b) \/ Start(b) \/ Resync(b)
        PROVE  UNCHANGED unwatched
    BY <1>5 DEF EditSpec, DeleteApp, UserWrites, Start, Resync
  <1>6. ASSUME NEW r \in Routes, ChangeRoute(r) \/ WatchRoute(r) \/ SyncPolicy(r)
        PROVE  UNCHANGED unwatched
    BY <1>6 DEF ChangeRoute, WatchRoute, SyncPolicy
  <1>7. ASSUME NEW n \in PolicyNames, DropPolicy(n) \/ CollectGarbage(n) \/ DeleteOrphan(n)
        PROVE  UNCHANGED unwatched
    BY <1>7 DEF DropPolicy, CollectGarbage, DeleteOrphan
  <1>8. ASSUME \/ Provision \/ ProvisionFails \/ SyncPolicyFails \/ Record \/ FailRequeue
               \/ CleanupFails \/ Release \/ Restart
        PROVE  UNCHANGED unwatched
    BY <1>8 DEF Provision, ProvisionFails, SyncPolicyFails, Record, FailRequeue, UpdateStatus,
                CleanupFails, Release, Restart
  <1>9. CASE UNCHANGED vars
    BY <1>9 DEF vars
  <1> QED BY <1>1, <1>3, <1>4, <1>5, <1>6, <1>7, <1>8, <1>9 DEF Next, Reconcile

-----------------------------------------------------------------------------
(* Ready stands: what is in Authentik. *)

\* Bindings for groups that stay, stay.
LEMMA BindingsStay ==
  ASSUME NEW application \in Application, NEW set, application.bound \subseteq set
  PROVE  [application EXCEPT !.bound = @ \intersect set] = application
  <1>1. application.bound \intersect set = application.bound
    OBVIOUS
  <1>2. application = [redirects |-> application.redirects, bound |-> application.bound]
    BY DEF Application
  <1> QED BY <1>1, <1>2 DEF Application

\* The steps that leave Authentik alone, besides those of a reconcile that
\* resolves, provisions or cleans up.
LEMMA AuthentikAlone ==
  ASSUME [Next]_vars
  PROVE  \/ UNCHANGED serverVars \/ Resolve \/ Provision \/ Cleanup
         \/ \E g \in Groups : ChangeGroup(g)
  <1>1. ASSUME NEW b \in Apps, EditSpec(b) \/ DeleteApp(b) \/ Start(b) \/ Resync(b)
        PROVE  UNCHANGED serverVars
    BY <1>1 DEF EditSpec, DeleteApp, UserWrites, Start, Resync
  <1>2. ASSUME NEW r \in Routes, ChangeRoute(r) \/ WatchRoute(r) \/ SyncPolicy(r)
        PROVE  UNCHANGED serverVars
    BY <1>2 DEF ChangeRoute, WatchRoute, SyncPolicy
  <1>3. ASSUME NEW n \in PolicyNames, DropPolicy(n) \/ CollectGarbage(n) \/ DeleteOrphan(n)
        PROVE  UNCHANGED serverVars
    BY <1>3 DEF DropPolicy, CollectGarbage, DeleteOrphan
  <1>4. ASSUME \/ ResolveFails \/ ProvisionFails \/ SyncPolicyFails \/ Record \/ FailRequeue
               \/ CleanupFails \/ Release \/ Restart
        PROVE  UNCHANGED serverVars
    BY <1>4 DEF ResolveFails, ProvisionFails, SyncPolicyFails, Record, FailRequeue, UpdateStatus,
                CleanupFails, Release, Restart
  <1>5. CASE UNCHANGED vars
    BY <1>5 DEF vars
  <1> QED BY <1>1, <1>2, <1>3, <1>4, <1>5 DEF Next, Reconcile

\* A reconcile that resolves its groups takes nothing away from anyone.
LEMMA ResolveAddsGroups ==
  ASSUME SlugsInv, BoundGroupsExist, Resolve
  PROVE  UNCHANGED server /\ groups \subseteq groups'
  <1> DEFINE set == groups \union (work.copy.spec.groups \ groups)
  <1>1. CASE UNCHANGED serverVars
    BY <1>1 DEF serverVars
  <1>2. CASE WriteGroups(set)
    <2>1. server \in [Slugs -> Application \union {None}]
      BY DEF SlugsInv, TypeOK
    <2>2. ASSUME NEW s \in Slugs, server[s] # None
          PROVE  [server[s] EXCEPT !.bound = @ \intersect set] = server[s]
      <3>1. server[s] \in Application /\ server[s].bound \subseteq set
        BY <2>1, <2>2 DEF BoundGroupsExist
      <3> HIDE DEF set
      <3> QED BY <3>1, BindingsStay
    <2>3. groups' = set /\ server' = [s \in Slugs |->
            IF server[s] = None THEN None ELSE [server[s] EXCEPT !.bound = @ \intersect set]]
      BY <1>2 DEF WriteGroups
    <2>4. groups \subseteq groups'
      BY <2>3
    <2> HIDE DEF set
    <2> QED BY <2>1, <2>2, <2>3, <2>4
  <1> QED BY <1>1, <1>2 DEF Resolve

\* Bindings are for groups that exist.
LEMMA BoundGroupsStep ==
  ASSUME SlugsInv, BoundGroupsExist, [Next]_vars
  PROVE  BoundGroupsExist'
  <1>1. server \in [Slugs -> Application \union {None}]
    BY DEF SlugsInv, TypeOK
  <1>2. ASSUME NEW s \in Slugs, server[s] # None, NEW set
        PROVE  [server[s] EXCEPT !.bound = @ \intersect set].bound \subseteq set
    BY <1>1, <1>2 DEF Application
  <1>3. CASE UNCHANGED serverVars
    BY <1>3 DEF serverVars, BoundGroupsExist
  <1>4. CASE Resolve
    BY <1>4, ResolveAddsGroups DEF BoundGroupsExist
  <1>5. CASE Provision
    <2> DEFINE slug == EffectiveSlug(work.name, work.copy.spec)
               made1 == [redirects |-> work.redirects, bound |-> work.copy.spec.groups]
    <2>1. made1.bound \subseteq groups /\ groups' = groups
          /\ server' = [server EXCEPT ![slug] = made1]
      BY <1>5 DEF Provision
    <2> HIDE DEF slug, made1
    <2> QED BY <1>1, <2>1 DEF BoundGroupsExist
  <1>6. CASE Cleanup
    <2> DEFINE slug == EffectiveSlug(work.name, work.copy.spec)
               left == groups \ (work.copy.created \intersect work.copy.spec.cleanup)
    <2>1. groups' = left
          /\ server' = [s \in Slugs |-> IF s = slug \/ server[s] = None THEN None
                                        ELSE [server[s] EXCEPT !.bound = @ \intersect left]]
      BY <1>6, Zenon DEF Cleanup
    <2> HIDE DEF slug, left
    <2> QED BY <1>2, <2>1 DEF BoundGroupsExist
  <1>7. ASSUME NEW g \in Groups, ChangeGroup(g) PROVE BoundGroupsExist'
    <2> DEFINE set == IF g \in groups THEN groups \ {g} ELSE groups \union {g}
    <2>1. WriteGroups(set)
      BY <1>7 DEF ChangeGroup
    <2> HIDE DEF set
    <2> QED BY <1>2, <2>1 DEF WriteGroups, BoundGroupsExist
  <1> QED BY <1>3, <1>4, <1>5, <1>6, <1>7, AuthentikAlone

\* What an application that alone has its slug has in Authentik stays, bound to
\* its groups, until it provisions or cleans up itself or something goes unheard.
LEMMA ProvisionStands ==
  ASSUME SlugsInv, BoundGroupsExist, [Next]_vars,
         NEW a \in Apps, app[a].phase # "gone", Sole(a), ~unwatched',
         ~((Provision \/ Cleanup) /\ work.name = a),
         NEW application \in Application, application.bound = app[a].spec.groups,
         server[EffectiveSlug(a, app[a].spec)] = application
  PROVE  server'[EffectiveSlug(a, app[a].spec)] = application
  <1> DEFINE slug == EffectiveSlug(a, app[a].spec)
             other == EffectiveSlug(work.name, work.copy.spec)
  <1>1. server \in [Slugs -> Application \union {None}] /\ slug \in Slugs
    <2>1. app[a].spec \in Specs[a] /\ server \in [Slugs -> Application \union {None}]
      BY DEF SlugsInv, TypeOK, SlugForLife
    <2> QED BY <2>1, NamesTypes
  <1>2. CASE UNCHANGED server
    BY <1>2
  <1>3. ASSUME NEW g \in Groups, ChangeGroup(g) PROVE FALSE
    BY <1>3 DEF ChangeGroup
  <1>4. ASSUME Provision \/ Cleanup
        PROVE  other \in Slugs /\ other # slug /\ work.name # a
    <2>1. work.name # a
      BY <1>4
    <2>2. /\ work.name \in Apps /\ other \in Slugs
          /\ other = EffectiveSlug(work.name, app[work.name].spec)
      BY <1>4, AtWork DEF Provision, Cleanup
    <2> HIDE DEF other, slug
    <2> QED BY <2>1, <2>2 DEF Sole, slug
  <1>5. CASE Provision
    <2> DEFINE made1 == [redirects |-> work.redirects, bound |-> work.copy.spec.groups]
    <2>1. server' = [server EXCEPT ![other] = made1]
      BY <1>5 DEF Provision
    <2> HIDE DEF other, slug, made1
    <2> QED BY <1>1, <1>4, <1>5, <2>1 DEF slug
  <1>6. CASE Cleanup
    <2> DEFINE left == groups \ (work.copy.created \intersect work.copy.spec.cleanup)
    <2>1. server' = [s \in Slugs |-> IF s = other \/ server[s] = None THEN None
                                     ELSE [server[s] EXCEPT !.bound = @ \intersect left]]
      BY <1>6, Zenon DEF Cleanup
    <2>2. GroupsUnheard(work.name, left) /\ left \subseteq groups
      BY <1>6 DEF Cleanup
    <2> HIDE DEF other, slug, left
    <2>3. app[a].spec.groups \intersect (groups \ left) = {}
      BY <1>4, <1>6, <2>2 DEF GroupsUnheard
    <2>4. CASE application # None
      <3>1. application.bound \subseteq left
        BY <1>1, <2>3, <2>4 DEF BoundGroupsExist, slug
      <3>2. [application EXCEPT !.bound = @ \intersect left] = application
        BY <3>1, BindingsStay
      <3> QED BY <1>1, <1>4, <1>6, <2>1, <2>4, <3>2 DEF slug
    <2>5. CASE application = None
      BY <1>1, <2>1, <2>5 DEF slug
    <2> QED BY <2>4, <2>5
  <1> QED BY <1>2, <1>3, <1>5, <1>6, AuthentikAlone, ResolveAddsGroups DEF serverVars

-----------------------------------------------------------------------------
(* Ready stands: the running reconcile. *)

\* What the whole of a reconcile's work is.
Applied(a, spec, r) == policy[PolicyName(a, r)] = BuildSecurityPolicy(a, spec, r)

\* SecurityPolicies in sync stay so, or their owner is enqueued.
LEMMA AppliedStands ==
  ASSUME SlugsInv, [Next]_vars, NEW a \in Apps, a \notin queue',
         NEW spec \in Specs[a], NEW r \in spec.routes, Applied(a, spec, r)
  PROVE  Applied(a, spec, r)'
  <1>1. r \in Routes /\ spec.groups \in SUBSET Groups /\ EffectiveSlug(a, spec) \in Slugs
    BY SpecTypes
  <1>2. BuildSecurityPolicy(a, spec, r) \in Policy /\ BuildSecurityPolicy(a, spec, r).owner = a
    BY <1>1 DEF BuildSecurityPolicy, Policy
  <1>3. PolicyName(a, r) \in PolicyNames /\ policy[PolicyName(a, r)] = BuildSecurityPolicy(a, spec, r)
    BY <1>1, NamesTypes DEF Applied
  <1>4. policy[PolicyName(a, r)] # None /\ policy[PolicyName(a, r)].owner = a
    BY <1>2, <1>3, NoneAssumption
  <1>5. policy'[PolicyName(a, r)] = policy[PolicyName(a, r)]
    BY <1>3, <1>4, PolicyHeard
  <1> QED BY <1>3, <1>5 DEF Applied, BuildSecurityPolicy

\* The redirect URIs that have been read are those of the routes in the cache,
\* or the application is enqueued.
LEMMA RedirectsStand ==
  ASSUME SlugsInv, [Next]_vars, NEW a \in Apps, a \notin queue', app[a].phase # "gone"
  PROVE  RedirectsOf(app[a].spec, cachedRoute') = RedirectsOf(app[a].spec, cachedRoute)
  <1>1. \A r \in app[a].spec.routes : cachedRoute'[r] = cachedRoute[r]
    BY RouteHeard
  <1> QED BY <1>1 DEF RedirectsOf

\* What a new reconcile has in hand.
LEMMA Starting ==
  ASSUME SlugsInv, NEW a \in Apps, Start(a), stage' # "idle"
  PROVE  /\ app[a].phase # "gone" /\ app' = app
         /\ stage' \in {"resolve", "cleanup", "release"}
         /\ work'.name = a /\ work'.copy = app[a]
         /\ work'.redirects.explicit = app[a].spec.explicit
         /\ work'.todo = app[a].spec.routes
  <1>1. app[a].phase # "gone" /\ app' = app
    BY DEF Start, Return, clusterVars
  <1>2. /\ stage' = (IF app[a].phase = "live" THEN "resolve"
                     ELSE IF app[a].tracked THEN "cleanup" ELSE "release")
        /\ work' = [name |-> a, copy |-> app[a], created |-> {},
                    redirects |-> [explicit |-> app[a].spec.explicit, hosts |-> {}],
                    todo |-> app[a].spec.routes]
    BY <1>1 DEF Start
  <1>3. stage' \in {"resolve", "cleanup", "release"}
    BY <1>2
  <1> QED BY <1>1, <1>2, <1>3

\* What it has resolved.
Resolved(w) ==
  /\ w.name = work.name /\ w.copy = work.copy /\ w.todo = work.todo
  /\ w.redirects = [explicit |-> work.redirects.explicit,
                    hosts |-> {r \in work.copy.spec.routes : cachedRoute[r] = "named"}]

\* How a reconcile goes on.
LEMMA Continuing ==
  ASSUME SlugsInv, [Next]_vars, stage' # "idle", \A a \in Apps : ~Start(a)
  PROVE  /\ stage # "idle"
         /\ \/ UNCHANGED <<stage, work>>
            \/ stage' \in {"fail", "release"} /\ work' = work
            \/ Resolve /\ stage = "resolve" /\ stage' = "provision" /\ Resolved(work')
            \/ Provision
            \/ \E n \in PolicyNames : DeleteOrphan(n)
            \/ \E r \in Routes : SyncPolicy(r)
  <1>1. CASE UNCHANGED <<stage, work>>
    BY <1>1
  <1>2. ASSUME Resolve, stage' # "fail"
        PROVE  stage = "resolve" /\ stage' = "provision" /\ Resolved(work')
    <2> DEFINE spec == work.copy.spec
               missing == spec.groups \ groups
               hosts == {r \in spec.routes : cachedRoute[r] = "named"}
               resolved == [work EXCEPT !.created = missing, !.redirects.hosts = hosts]
    <2>1. stage = "resolve" /\ stage' = "provision" /\ work' = resolved
      BY <1>2 DEF Resolve, Proceed
    <2>2. work \in Job
      BY <2>1, AtWork
    <2> HIDE DEF missing, hosts
    <2>3. /\ resolved.name = work.name /\ resolved.copy = work.copy /\ resolved.todo = work.todo
          /\ resolved.redirects = [work.redirects EXCEPT !.hosts = hosts]
      BY <2>2 DEF Job
    <2>4. work.redirects \in Redirects
      BY <2>2 DEF Job
    <2>5. [work.redirects EXCEPT !.hosts = hosts]
            = [explicit |-> work.redirects.explicit, hosts |-> hosts]
      BY <2>4 DEF Redirects
    <2> HIDE DEF resolved
    <2> QED BY <2>1, <2>3, <2>5 DEF Resolved, hosts
  <1>3. CASE Resolve
    BY <1>2, <1>3 DEF Resolve, Proceed
  <1>4. CASE ResolveFails \/ ProvisionFails \/ Cleanup
    BY <1>4 DEF ResolveFails, ProvisionFails, Cleanup, Proceed, ReturnError, Return
  <1>5. CASE SyncPolicyFails \/ Record \/ FailRequeue \/ CleanupFails \/ Release \/ Restart
    BY <1>5 DEF SyncPolicyFails, Record, FailRequeue, UpdateStatus, CleanupFails, Release, Restart,
                ReturnError, Return
  <1>6. CASE \/ Provision \/ (\E n \in PolicyNames : DeleteOrphan(n))
             \/ (\E r \in Routes : SyncPolicy(r))
    BY <1>6 DEF Provision, DeleteOrphan, SyncPolicy
  <1>7. ASSUME NEW b \in Apps, EditSpec(b) \/ DeleteApp(b) \/ Resync(b)
        PROVE  UNCHANGED <<stage, work>>
    BY <1>7 DEF EditSpec, DeleteApp, UserWrites, Resync, workerVars
  <1>8. ASSUME NEW r \in Routes, ChangeRoute(r) \/ WatchRoute(r) PROVE UNCHANGED <<stage, work>>
    BY <1>8 DEF ChangeRoute, WatchRoute, workerVars
  <1>9. ASSUME NEW n \in PolicyNames, DropPolicy(n) \/ CollectGarbage(n)
        PROVE  UNCHANGED <<stage, work>>
    BY <1>9 DEF DropPolicy, CollectGarbage, workerVars
  <1>10. ASSUME NEW g \in Groups, ChangeGroup(g) PROVE UNCHANGED <<stage, work>>
    BY <1>10 DEF ChangeGroup, workerVars
  <1>11. CASE UNCHANGED vars
    BY <1>11 DEF vars, workerVars
  <1> QED BY <1>1, <1>3, <1>4, <1>5, <1>6, <1>7, <1>8, <1>9, <1>10, <1>11 DEF Next, Reconcile

\* The status is written when nothing is left to do.
LEMMA NothingToDo ==
  ASSUME NEW w, AfterProvider(w) = "record"
  PROVE  w.todo = {}
  <1>1. ASSUME Orphans(w) # {} PROVE AfterProvider(w) = "orphans"
    BY <1>1, Zenon DEF AfterProvider
  <1>2. ASSUME Orphans(w) = {}, w.todo # {} PROVE AfterProvider(w) = "policies"
    BY <1>2, Zenon DEF AfterProvider
  <1> QED BY <1>1, <1>2

\* The provider is followed by what is left to do.
LEMMA Provisioning ==
  ASSUME Provision
  PROVE  /\ stage = "provision" /\ work' = work /\ stage' = AfterProvider(work)
         /\ stage' \in {"orphans", "policies", "record"}
         /\ stage' = "record" => work.todo = {}
  <1>1. stage = "provision" /\ work' = work /\ stage' = AfterProvider(work)
    BY DEF Provision, Proceed
  <1> QED BY <1>1, AfterProviderStages, NothingToDo

\* So is a SecurityPolicy that is deleted.
LEMMA Deleting ==
  ASSUME SlugsInv, NEW n \in PolicyNames, DeleteOrphan(n)
  PROVE  /\ work'.name = work.name /\ work'.copy.spec = work.copy.spec
         /\ work'.redirects = work.redirects /\ work'.todo = work.todo
         /\ stage = "orphans" /\ stage' \in {"orphans", "policies", "record"}
         /\ stage' = "record" => work'.todo = {}
  <1> DEFINE rest == [work EXCEPT !.copy.policies = @ \ {n}]
  <1>1. work \in Job /\ work.copy \in App /\ stage = "orphans"
    BY AtWork DEF DeleteOrphan
  <1>2. stage' = AfterProvider(rest) /\ work' = rest
    BY DEF DeleteOrphan, Proceed
  <1>3. /\ rest.name = work.name /\ rest.copy.spec = work.copy.spec
        /\ rest.redirects = work.redirects /\ rest.todo = work.todo
    BY <1>1 DEF Job, App
  <1> HIDE DEF rest
  <1> QED BY <1>1, <1>2, <1>3, AfterProviderStages, NothingToDo

\* And one that is brought in sync.
LEMMA Applying ==
  ASSUME SlugsInv, NEW r \in Routes, SyncPolicy(r)
  PROVE  /\ work'.name = work.name /\ work'.copy.spec = work.copy.spec
         /\ work'.redirects = work.redirects /\ work'.todo = work.todo \ {r}
         /\ stage = "policies" /\ stage' \in {"orphans", "policies", "record"}
         /\ stage' = "record" => work'.todo = {}
         /\ policy' = [policy EXCEPT ![PolicyName(work.name, r)] =
                         BuildSecurityPolicy(work.name, work.copy.spec, r)]
  <1> DEFINE rest == [work EXCEPT !.todo = @ \ {r}]
  <1>1. work \in Job /\ stage = "policies"
    BY AtWork DEF SyncPolicy
  <1>2. stage' = AfterProvider(rest) /\ work' = rest
    BY DEF SyncPolicy, Proceed
  <1>3. /\ rest.name = work.name /\ rest.copy.spec = work.copy.spec
        /\ rest.redirects = work.redirects /\ rest.todo = work.todo \ {r}
    BY <1>1 DEF Job
  <1>4. policy' = [policy EXCEPT ![PolicyName(work.name, r)] =
                     BuildSecurityPolicy(work.name, work.copy.spec, r)]
    BY DEF SyncPolicy, WritePolicy
  <1> HIDE DEF rest
  <1> QED BY <1>1, <1>2, <1>3, <1>4, AfterProviderStages, NothingToDo

\* A reconcile under way keeps its application and its copy of the spec.
LEMMA SameWork ==
  ASSUME SlugsInv, [Next]_vars, stage' # "idle", \A a \in Apps : ~Start(a)
  PROVE  /\ stage # "idle" /\ work.name \in Apps /\ work.copy.spec \in Specs[work.name]
         /\ work'.name = work.name /\ work'.copy.spec = work.copy.spec
  <1>1. stage # "idle"
    BY Continuing
  <1>2. work.name \in Apps /\ work.copy.spec \in Specs[work.name]
    BY <1>1, AtWork
  <1>3. work'.name = work.name /\ work'.copy.spec = work.copy.spec
    BY Continuing, Provisioning, Deleting, Applying DEF Resolved
  <1> QED BY <1>1, <1>2, <1>3

\* The copy of a reconcile that nothing is pending for is current.
LEMMA CopyStep ==
  ASSUME SlugsInv, CopyIsCurrent, [Next]_vars
  PROVE  CopyIsCurrent'
  <1> SUFFICES ASSUME stage' # "idle"
               PROVE  /\ app'[work'.name].phase # "gone"
                      /\ work'.name \notin queue' => work'.copy.spec = app'[work'.name].spec
    BY DEF CopyIsCurrent
  <1>1. ASSUME NEW a \in Apps, Start(a)
        PROVE  app'[work'.name].phase # "gone" /\ work'.copy.spec = app'[work'.name].spec
    BY <1>1, Starting
  <1>2. ASSUME \A a \in Apps : ~Start(a)
        PROVE  /\ app'[work'.name].phase # "gone"
               /\ work'.name \notin queue' => work'.copy.spec = app'[work'.name].spec
    <2> DEFINE a == work.name
    <2>1. /\ stage # "idle" /\ a \in Apps /\ work'.name = a /\ work'.copy.spec = work.copy.spec
      BY <1>2, SameWork
    <2>2. app[a].phase # "gone" /\ app \in [Apps -> App]
      BY <2>1 DEF CopyIsCurrent, SlugsInv, TypeOK
    <2>3. app'[a].phase # "gone"
      <3>1. CASE UNCHANGED app
        BY <2>2, <3>1
      <3>2. ASSUME NEW b \in Apps, NEW object \in App, WriteApp(b, object),
                   object.phase = "gone" => app[b].phase = "gone" \/ (Release /\ b = work.name)
            PROVE  app'[a].phase # "gone"
        <4>1. ~Release
          BY DEF Release, Return, ReturnError
        <4> HIDE DEF a
        <4> QED BY <2>1, <2>2, <3>2, <4>1 DEF WriteApp
      <3>3. CASE Next
        BY <3>1, <3>2, <3>3, AppsChange
      <3> QED BY <3>1, <3>3 DEF vars, clusterVars
    <2>4. ASSUME a \notin queue' PROVE work.copy.spec = app'[a].spec
      <3>1. a \notin queue
        BY <1>2, <2>1, <2>2, <2>4, QueueKept DEF vars
      <3>2. app'[a] = app[a]
        BY <2>1, <2>4, AppHeard
      <3> QED BY <2>1, <3>1, <3>2 DEF CopyIsCurrent
    <2> QED BY <2>1, <2>3, <2>4
  <1> QED BY <1>1, <1>2

\* What is left to do is what the stage says.
LEMMA TodoStep ==
  ASSUME SlugsInv, TodoInv, [Next]_vars
  PROVE  TodoInv'
  <1>1. CASE stage' = "idle"
    BY <1>1 DEF TodoInv
  <1>2. ASSUME NEW a \in Apps, Start(a), stage' # "idle" PROVE TodoInv'
    BY <1>2, Starting DEF TodoInv
  <1>3. ASSUME stage' # "idle", \A a \in Apps : ~Start(a) PROVE TodoInv'
    <2>1. CASE UNCHANGED <<stage, work>>
      BY <2>1 DEF TodoInv
    <2>2. CASE stage' \in {"fail", "release"}
      BY <2>2 DEF TodoInv
    <2>3. CASE stage = "resolve" /\ stage' = "provision" /\ Resolved(work')
      BY <2>3 DEF TodoInv, Resolved
    <2>4. CASE Provision
      BY <2>4, Provisioning DEF TodoInv
    <2>5. ASSUME NEW n \in PolicyNames, DeleteOrphan(n) PROVE TodoInv'
      BY <2>5, Deleting DEF TodoInv
    <2>6. ASSUME NEW r \in Routes, SyncPolicy(r) PROVE TodoInv'
      BY <2>6, Applying DEF TodoInv
    <2> QED BY <1>3, <2>1, <2>2, <2>3, <2>4, <2>5, <2>6, Continuing
  <1> QED BY <1>1, <1>2, <1>3

\* What a reconcile has done stands as long as nothing is pending for it.
LEMMA DoneStep ==
  ASSUME SlugsInv, CopyIsCurrent, TodoInv, stage # "idle" => DoneInv, BoundGroupsExist,
         [Next]_vars, stage' # "idle"
  PROVE  DoneInv'
  <1>1. ASSUME NEW a \in Apps, Start(a) PROVE DoneInv'
    <2>1. stage' \in {"resolve", "cleanup", "release"}
      BY <1>1, Starting
    <2> QED BY <2>1 DEF DoneInv
  <1>2. ASSUME \A a \in Apps : ~Start(a), work'.name \notin queue' PROVE DoneInv'
    <2> DEFINE a == work.name
               spec == work.copy.spec
               slug == EffectiveSlug(a, spec)
               provided == [redirects |-> work.redirects, bound |-> spec.groups]
    <2>1. /\ stage # "idle" /\ a \in Apps /\ spec \in Specs[a]
          /\ work'.name = a /\ work'.copy.spec = spec
      BY <1>2, SameWork
    <2>2. app[a].phase # "gone" /\ a \notin queue'
      BY <1>2, <2>1 DEF CopyIsCurrent
    <2>3. a \notin queue
      BY <1>2, <2>1, <2>2, QueueKept DEF vars
    <2>4. spec = app[a].spec
      BY <2>1, <2>3 DEF CopyIsCurrent
    <2>5. /\ stage \in {"provision", "orphans", "policies", "record"} =>
               work.redirects = RedirectsOf(spec, cachedRoute)
          /\ stage \in {"orphans", "policies", "record"} =>
               /\ \A r \in spec.routes \ work.todo : Applied(a, spec, r)
               /\ Sole(a) /\ ~unwatched => server[slug] = provided
      BY <2>1, <2>3 DEF DoneInv, Applied
    <2>6. spec.routes \in SUBSET Routes /\ work.redirects \in Redirects
          /\ spec.groups \in SUBSET Groups
      BY <2>1, AtWork DEF Job
    <2>7. stage' \in {"provision", "orphans", "policies", "record"} =>
            work'.redirects = RedirectsOf(spec, cachedRoute')
      <3>1. RedirectsOf(spec, cachedRoute') = RedirectsOf(spec, cachedRoute)
        BY <2>1, <2>2, <2>4, RedirectsStand
      <3>2. CASE Resolved(work') /\ stage = "resolve"
        BY <3>1, <3>2 DEF Resolved, TodoInv, RedirectsOf
      <3>3. CASE UNCHANGED <<stage, work>> \/ Provision
        BY <2>5, <3>1, <3>3, Provisioning
      <3>4. CASE \/ \E n \in PolicyNames : DeleteOrphan(n)
                 \/ \E r \in Routes : SyncPolicy(r)
        BY <2>5, <3>1, <3>4, Deleting, Applying
      <3> QED BY <1>2, <3>2, <3>3, <3>4, Continuing
    <2>8. ASSUME stage' \in {"orphans", "policies", "record"}, NEW r \in spec.routes \ work'.todo
          PROVE  Applied(a, spec, r)'
      <3>1. r \in Routes
        BY <2>6
      <3>2. CASE Applied(a, spec, r)
        BY <2>1, <2>2, <3>2, AppliedStands
      <3>3. CASE UNCHANGED <<stage, work>> \/ \E n \in PolicyNames : DeleteOrphan(n)
        <4>1. stage \in {"orphans", "policies", "record"} /\ work'.todo = work.todo
          BY <2>8, <3>3, Deleting
        <4> QED BY <2>5, <2>8, <3>2, <4>1
      <3>4. CASE Provision
        BY <2>8, <3>4, Provisioning DEF TodoInv
      <3>5. ASSUME NEW q \in Routes, SyncPolicy(q) PROVE Applied(a, spec, r)'
        <4>1. CASE r = q
          <5>1. policy \in [PolicyNames -> Policy \union {None}] /\ PolicyName(a, q) \in PolicyNames
            BY <2>1, NamesTypes DEF SlugsInv, TypeOK
          <5>2. policy' = [policy EXCEPT ![PolicyName(a, q)] = BuildSecurityPolicy(a, spec, q)]
            BY <3>5, Applying
          <5> QED BY <2>1, <4>1, <5>1, <5>2 DEF Applied, BuildSecurityPolicy
        <4>2. CASE r # q
          <5>1. work'.todo = work.todo \ {q} /\ stage = "policies"
            BY <3>5, Applying
          <5> QED BY <2>5, <2>8, <3>2, <4>2, <5>1
        <4> QED BY <4>1, <4>2
      <3> QED BY <1>2, <2>8, <3>3, <3>4, <3>5, Continuing
    <2>9. ASSUME stage' \in {"orphans", "policies", "record"}, Sole(a)', ~unwatched'
          PROVE  server'[slug] = [redirects |-> work'.redirects, bound |-> spec.groups]
      <3>1. Sole(a) /\ ~unwatched
        BY <2>1, <2>9, SoleKept, UnwatchedStays
      <3>2. CASE Provision
        <4>1. server' = [server EXCEPT ![slug] = provided] /\ work' = work
          BY <3>2 DEF Provision, Proceed
        <4>2. slug \in Slugs /\ server \in [Slugs -> Application \union {None}]
          BY <2>1, NamesTypes DEF SlugsInv, TypeOK
        <4> HIDE DEF slug
        <4> QED BY <4>1, <4>2
      <3>3. CASE ~Provision
        <4>1. ~Cleanup
          BY <2>9 DEF Cleanup, Proceed
        <4>2. stage \in {"orphans", "policies", "record"} /\ work'.redirects = work.redirects
          BY <1>2, <2>9, <3>3, Continuing, Deleting, Applying
        <4>3. provided \in Application /\ provided.bound = app[a].spec.groups
          BY <2>4, <2>6 DEF Application
        <4>4. server[EffectiveSlug(a, app[a].spec)] = provided
          BY <2>4, <2>5, <3>1, <4>2
        <4> HIDE DEF a, provided
        <4>5. server'[EffectiveSlug(a, app[a].spec)] = provided
          BY <2>1, <2>2, <2>9, <3>1, <3>3, <4>1, <4>3, <4>4, ProvisionStands
        <4> QED BY <2>4, <4>2, <4>5 DEF provided, a
      <3> QED BY <3>2, <3>3
    <2> QED BY <2>1, <2>7, <2>8, <2>9 DEF DoneInv, Applied
  <1> QED BY <1>1, <1>2 DEF DoneInv

\* A reconcile that ends without a request for another one has recorded its work,
\* said that it is not ready or released the resource.
LEMMA Ending ==
  ASSUME SlugsInv, CopyIsCurrent, [Next]_vars, stage # "idle", stage' = "idle",
         work.name \notin queue'
  PROVE  /\ Record \/ FailRequeue \/ Release
         /\ Record => stage = "record"
         /\ FailRequeue => ~app'[work.name].ready
         /\ Release => app'[work.name].phase = "gone"
  <1> DEFINE a == work.name
  <1>1. a \in Apps /\ app[a] \in App /\ app[a].phase # "gone" /\ app \in [Apps -> App]
    BY AtWork DEF CopyIsCurrent, SlugsInv, TypeOK
  <1>2. ~ReturnError
    BY DEF ReturnError
  <1>3. FailRequeue => ~app'[a].ready
    <2> SUFFICES ASSUME FailRequeue PROVE ~app'[a].ready
      OBVIOUS
    <2> DEFINE object == [app[a] EXCEPT !.ready = FALSE]
    <2>1. object.ready = FALSE
      BY <1>1 DEF App
    <2>2. app' = [app EXCEPT ![a] = object]
      BY <1>2 DEF FailRequeue, UpdateStatus, WriteApp
    <2> HIDE DEF object, a
    <2> QED BY <1>1, <2>1, <2>2
  <1>4. Release => app'[a].phase = "gone"
    <2> SUFFICES ASSUME Release PROVE app'[a].phase = "gone"
      OBVIOUS
    <2> DEFINE object == [app[a] EXCEPT !.phase = "gone"]
    <2>1. object.phase = "gone"
      BY <1>1 DEF App
    <2>2. app' = [app EXCEPT ![a] = object]
      BY <1>2 DEF Release, WriteApp
    <2> HIDE DEF object, a
    <2> QED BY <1>1, <2>1, <2>2
  <1>5. ASSUME NEW b \in Apps, EditSpec(b) \/ DeleteApp(b) \/ Start(b) \/ Resync(b) PROVE FALSE
    BY <1>5 DEF EditSpec, DeleteApp, UserWrites, Start, Resync, workerVars
  <1>6. ASSUME NEW r \in Routes, ChangeRoute(r) \/ WatchRoute(r) \/ SyncPolicy(r) PROVE FALSE
    BY <1>6, Applying DEF ChangeRoute, WatchRoute, workerVars
  <1>7. ASSUME NEW n \in PolicyNames, DropPolicy(n) \/ CollectGarbage(n) \/ DeleteOrphan(n)
        PROVE  FALSE
    BY <1>7, Deleting DEF DropPolicy, CollectGarbage, workerVars
  <1>8. ASSUME NEW g \in Groups, ChangeGroup(g) PROVE FALSE
    BY <1>8 DEF ChangeGroup, workerVars
  <1>9. ASSUME \/ Resolve \/ ResolveFails \/ Provision \/ ProvisionFails \/ SyncPolicyFails
               \/ Cleanup \/ CleanupFails
        PROVE  FALSE
    BY <1>2, <1>9, Provisioning
       DEF Resolve, ResolveFails, ProvisionFails, SyncPolicyFails, Cleanup, CleanupFails, Proceed
  <1>10. ASSUME Restart PROVE FALSE
    BY <1>1, <1>10 DEF Restart
  <1>11. ASSUME UNCHANGED vars PROVE FALSE
    BY <1>11 DEF vars, workerVars
  <1>12. Record => stage = "record"
    BY DEF Record
  <1> QED BY <1>3, <1>4, <1>5, <1>6, <1>7, <1>8, <1>9, <1>10, <1>11, <1>12 DEF Next, Reconcile

\* An application that says Ready and is left alone has been served and stays so.
LEMMA ReadyStep ==
  ASSUME SlugsInv, ReadyInv, [Next]_vars
  PROVE  ReadyStands'
  <1> SUFFICES ASSUME NEW a \in Apps, app'[a].phase = "live", app'[a].ready,
                      a \notin queue', stage' = "idle" \/ work'.name # a
               PROVE  /\ Protected(a)'
                      /\ Sole(a)' /\ ~unwatched' => Provisioned(a, cachedRoute)'
    BY DEF ReadyStands, Settled
  <1> DEFINE spec == app[a].spec
             slug == EffectiveSlug(a, spec)
             provided == [redirects |-> RedirectsOf(spec, cachedRoute), bound |-> spec.groups]
  <1>1. app'[a] = app[a] /\ app[a].phase # "gone" /\ spec \in Specs[a]
    BY AppHeard DEF SlugsInv, SlugForLife
  <1>2. ~Start(a)
    <2>1. ASSUME Start(a) PROVE stage' # "idle" /\ work'.name = a
      BY <1>1, <2>1 DEF Start
    <2> QED BY <2>1
  <1>3. a \notin queue
    BY <1>1, <1>2, QueueKept DEF vars
  <1>4. /\ \A r \in spec.routes : Applied(a, spec, r)
        /\ Sole(a) /\ ~unwatched => server[slug] = provided
        /\ ~((Provision \/ Cleanup) /\ work.name = a)
    <2>1. CASE Settled(a)
      <3>1. ~((Provision \/ Cleanup) /\ work.name = a)
        BY <2>1 DEF Settled, Provision, Cleanup
      <3> QED BY <1>1, <2>1, <3>1 DEF ReadyInv, ReadyStands, Protected, Applied, Provisioned
    <2>2. CASE ~Settled(a)
      <3>1. stage # "idle" /\ work.name = a
        BY <1>3, <2>2 DEF Settled
      <3>2. stage' = "idle"
        <4>1. \A b \in Apps : ~Start(b)
          BY <3>1 DEF Start
        <4> QED BY <3>1, <4>1, SameWork
      <3>3. Record /\ stage = "record"
        BY <1>1, <3>1, <3>2, Ending DEF ReadyInv
      <3>4. work.copy.spec = spec /\ work.todo = {}
            /\ work.redirects = RedirectsOf(spec, cachedRoute)
        BY <1>3, <3>1, <3>3 DEF ReadyInv, CopyIsCurrent, TodoInv, DoneInv
      <3>5. /\ \A r \in spec.routes : Applied(a, spec, r)
            /\ Sole(a) /\ ~unwatched => server[slug] = provided
        BY <1>3, <3>1, <3>3, <3>4 DEF ReadyInv, DoneInv, Applied
      <3>6. ~Provision /\ ~Cleanup
        BY <3>3 DEF Provision, Cleanup
      <3> QED BY <3>5, <3>6
    <2> QED BY <2>1, <2>2
  <1>5. Protected(a)'
    <2>1. ASSUME NEW r \in spec.routes PROVE Applied(a, spec, r)'
      BY <1>1, <1>4, AppliedStands
    <2> QED BY <1>1, <2>1 DEF Protected, Applied, BuildSecurityPolicy
  <1>6. ASSUME Sole(a)', ~unwatched' PROVE Provisioned(a, cachedRoute)'
    <2>1. Sole(a) /\ ~unwatched
      BY <1>6, SoleKept, UnwatchedStays
    <2>2. provided \in Application /\ provided.bound = spec.groups
      <3>1. spec.groups \in SUBSET Groups /\ spec.routes \in SUBSET Routes
            /\ spec.explicit \in BOOLEAN
        BY <1>1, SpecTypes
      <3> QED BY <3>1 DEF Application, Redirects, RedirectsOf
    <2>3. server[slug] = provided
      BY <1>4, <2>1
    <2> HIDE DEF provided
    <2>4. server'[slug] = provided
      BY <1>1, <1>4, <1>6, <2>1, <2>2, <2>3, ProvisionStands DEF ReadyInv
    <2>5. RedirectsOf(spec, cachedRoute') = RedirectsOf(spec, cachedRoute)
      BY <1>1, RedirectsStand
    <2> QED BY <1>1, <2>4, <2>5 DEF Provisioned, provided
  <1> QED BY <1>5, <1>6

\* The invariant holds initially and with every step.
LEMMA InitReadyInv == Init => ReadyInv
  <1> SUFFICES ASSUME Init PROVE ReadyInv
    OBVIOUS
  <1>1. CopyIsCurrent /\ TodoInv /\ (stage # "idle" => DoneInv)
    BY DEF Init, CopyIsCurrent, TodoInv
  <1>2. BoundGroupsExist
    BY DEF Init, BoundGroupsExist
  <1>3. ReadyStands
    BY DEF Init, ReadyStands, Settled
  <1> QED BY <1>1, <1>2, <1>3 DEF ReadyInv

LEMMA ReadyInvStep == SlugsInv /\ ReadyInv /\ [Next]_vars => ReadyInv'
  <1> SUFFICES ASSUME SlugsInv, ReadyInv, [Next]_vars PROVE ReadyInv'
    OBVIOUS
  <1>1. CopyIsCurrent' /\ TodoInv' /\ BoundGroupsExist'
    BY CopyStep, TodoStep, BoundGroupsStep DEF ReadyInv
  <1>2. stage' # "idle" => DoneInv'
    BY DoneStep DEF ReadyInv
  <1> QED BY <1>1, <1>2, ReadyStep DEF ReadyInv

\* What a reconcile that nothing is pending for has done stands at each of its
\* stages, and after it.
THEOREM WorkStands == Spec => []ReadyInv
  BY InitReadyInv, ReadyInvStep, OneSlugForLife, PTL DEF Spec

\* An application that says Ready and for which nothing is pending is protected
\* on each of its routes and provisioned in Authentik as its routes and groups
\* have it, whatever the others in the namespace do with the routes, the groups
\* and the names they share.
THEOREM ReadyIsKept == Spec => []ReadyStands
  <1>1. ReadyInv => ReadyStands
    BY DEF ReadyInv
  <1> QED BY <1>1, WorkStands, PTL
=============================================================================
