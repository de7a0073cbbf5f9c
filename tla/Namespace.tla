------------------------------ MODULE Namespace ------------------------------
(***************************************************************************)
(* OIDCApplications that share a namespace and an Authentik.  They meet in  *)
(* the HTTPRoutes they refer to, in the names of their SecurityPolicies and *)
(* Authentik objects, and in the groups they use.                           *)
(*                                                                          *)
(* One worker reconciles them in turn.  A changed HTTPRoute or a changed    *)
(* SecurityPolicy has the applications that refer to it or own it           *)
(* reconciled; of groups that come and go nothing tells the operator.       *)
(*                                                                          *)
(* Names are sequences of the segments that hyphens join, so that two pairs *)
(* of names may make the same name.  A SecurityPolicy is what               *)
(* BuildSecurityPolicy takes from the application and its reference: issuer,*)
(* client and Secret follow from owner and slug.                            *)
(*                                                                          *)
(* Abstracted: the caches of OIDCApplications and SecurityPolicies are      *)
(* current; Secrets, bindings one by one and cleanup call by call are in    *)
(* SecretSync and OIDCApplicationReconciler; hostnames of a route are there *)
(* or not.                                                                  *)
(***************************************************************************)
EXTENDS Integers, Sequences

CONSTANTS
  Apps,        \* names of OIDCApplications
  Routes,      \* names of HTTPRoutes
  Groups,      \* names of groups
  Specs,       \* per OIDCApplication what its user asks for
  Initial,     \* and at the start
  NamespaceName,  \* the name of the namespace
  MaxChanges,  \* bound: what users and admins change
  MaxFaults,   \* bound: failing calls and crashes
  None

Name == Seq(STRING)

\* slug: None for the default; groups, create, cleanup: the groups and those
\* with either flag; explicit: there are redirectURIs.
AppSpec == [slug : {None} \union Name, groups : SUBSET Groups, create : SUBSET Groups,
            cleanup : SUBSET Groups, routes : SUBSET Routes, explicit : BOOLEAN]

ASSUME NamesAssumption == Apps \subseteq Name /\ Routes \subseteq Name /\ NamespaceName \in Name
ASSUME SpecsAssumption ==
  \A a \in Apps : Specs[a] \subseteq AppSpec /\ Initial[a] \in Specs[a] /\ Initial[a].groups # {}
ASSUME BoundsAssumption == MaxChanges \in Nat /\ MaxFaults \in Nat

VARIABLES
  app,           \* the OIDCApplications
  route,         \* the HTTPRoutes: absent, without hostnames or with
  cachedRoute,   \* the HTTPRoutes in the informer cache
  policy,        \* the SecurityPolicies by name
  server,        \* per slug the provider and application in Authentik
  groups,        \* the groups in Authentik
  queue,         \* OIDCApplications waiting to be reconciled
  timers,        \* OIDCApplications that will be requeued
  stage, work,   \* the running reconcile
  fresh,         \* its copy has the current resourceVersion
  changes, faults,
  made,          \* history: per application the slugs it has provisioned
  unwatched      \* history: something has happened that no event tells of

clusterVars == <<app, route, cachedRoute, policy>>
serverVars == <<server, groups>>
workerVars == <<stage, work, fresh>>
vars == <<clusterVars, serverVars, queue, timers, workerVars, changes, faults, made, unwatched>>

EffectiveSlug(a, spec) == IF spec.slug # None THEN spec.slug ELSE NamespaceName \o a
PolicyName(a, r) == a \o r

Slugs == {EffectiveSlug(p[1], p[2]) : p \in UNION {{a} \X Specs[a] : a \in Apps}}
PolicyNames == {PolicyName(p[1], p[2]) : p \in Apps \X Routes}

\* tracked: status.authentik is set; policies: status.securityPolicies.
NewApp(spec) == [phase |-> "live", spec |-> spec, ready |-> FALSE, tracked |-> FALSE,
                 policies |-> {}, created |-> {}]

App == [phase : {"live", "deleting", "gone"}, spec : UNION {Specs[a] : a \in Apps},
        ready : BOOLEAN, tracked : BOOLEAN, policies : SUBSET PolicyNames,
        created : SUBSET Groups]
RouteStates == {"absent", "bare", "named"}
Policy == [owner : Apps, target : Routes, slug : Slugs, groups : SUBSET Groups]

ASSUME NoneAssumption == None \notin Policy

Redirects == [explicit : BOOLEAN, hosts : SUBSET Routes]
Application == [redirects : Redirects, bound : SUBSET Groups]

\* created: the groups this reconcile has made; todo: references whose
\* SecurityPolicy is not yet in sync.
Job == [name : Apps, copy : App, redirects : Redirects, created : SUBSET Groups,
        todo : SUBSET Routes]

TypeOK ==
  /\ app \in [Apps -> App]
  /\ route \in [Routes -> RouteStates] /\ cachedRoute \in [Routes -> RouteStates]
  /\ policy \in [PolicyNames -> Policy \union {None}]
  /\ server \in [Slugs -> Application \union {None}] /\ groups \subseteq Groups
  /\ queue \subseteq Apps /\ timers \subseteq Apps
  /\ stage \in {"idle", "resolve", "provision", "orphans", "policies", "record", "fail",
                "cleanup", "release"}
  /\ work \in Job \union {None}
  /\ fresh \in BOOLEAN /\ unwatched \in BOOLEAN
  /\ changes \in 0..MaxChanges /\ faults \in 0..MaxFaults
  /\ made \in [Apps -> SUBSET Slugs]

Init ==
  /\ app = [a \in Apps |-> NewApp(Initial[a])]
  /\ route = [r \in Routes |-> "named"] /\ cachedRoute = route
  /\ policy = [n \in PolicyNames |-> None]
  /\ server = [s \in Slugs |-> None] /\ groups = {}
  /\ queue = Apps /\ timers = {}
  /\ stage = "idle" /\ work = None /\ fresh = FALSE
  /\ changes = 0 /\ faults = 0
  /\ made = [a \in Apps |-> {}] /\ unwatched = FALSE

Change == changes < MaxChanges /\ changes' = changes + 1
Fault == faults < MaxFaults /\ faults' = faults + 1

-----------------------------------------------------------------------------
(* Writes and the events they cause. *)

\* For: every effective write has the object reconciled.
WriteApp(a, object) ==
  /\ app' = [app EXCEPT ![a] = object]
  /\ queue' = IF object # app[a] THEN queue \union {a} ELSE queue

Owners(n) == IF policy[n] = None THEN {} ELSE {policy[n].owner}

\* Mutant: SecurityPolicies are not watched.
WritePolicyUnseen(n, object) ==
  /\ policy' = [policy EXCEPT ![n] = object]
  /\ UNCHANGED queue

\* Owns: the owner before and the owner after the change are reconciled.
WritePolicy(n, object) ==
  /\ policy' = [policy EXCEPT ![n] = object]
  /\ queue' = IF object = policy[n] THEN queue
              ELSE queue \union Owners(n)
                         \union (IF object = None THEN {} ELSE {object.owner})

\* A binding does not outlive its group.
WriteGroups(set) ==
  /\ groups' = set
  /\ server' = [s \in Slugs |->
       IF server[s] = None THEN None ELSE [server[s] EXCEPT !.bound = @ \intersect set]]

\* Others who use a group do not hear of it.
GroupsUnheard(a, set) ==
  unwatched' = (unwatched \/ \E b \in Apps \ {a} :
                  /\ app[b].phase # "gone"
                  /\ app[b].spec.groups \intersect ((set \ groups) \union (groups \ set)) # {})

-----------------------------------------------------------------------------
(* Users of the namespace and admins of Authentik. *)

\* Mutant: the slug may be edited.
AnyUpdate(a, spec) == spec.groups # {}

\* validateOIDCApplication and ValidateUpdate
Admitted(a, spec) ==
  /\ spec.groups # {}
  /\ EffectiveSlug(a, spec) = EffectiveSlug(a, app[a].spec)

UserWrites(a, object) ==
  /\ Change
  /\ object # app[a]
  /\ WriteApp(a, object)
  /\ fresh' = (fresh /\ work.name # a)
  /\ UNCHANGED <<route, cachedRoute, policy, serverVars, timers, stage, work, faults, made,
                 unwatched>>

EditSpec(a) ==
  /\ app[a].phase # "gone"
  /\ \E spec \in Specs[a] : Admitted(a, spec) /\ UserWrites(a, [app[a] EXCEPT !.spec = spec])

DeleteApp(a) ==
  /\ app[a].phase = "live"
  /\ UserWrites(a, [app[a] EXCEPT !.phase = "deleting"])

ChangeRoute(r) ==
  /\ Change
  /\ \E state \in RouteStates \ {route[r]} : route' = [route EXCEPT ![r] = state]
  /\ UNCHANGED <<app, cachedRoute, policy, serverVars, queue, timers, workerVars, faults, made,
                 unwatched>>

DropPolicy(n) ==
  /\ Change
  /\ policy[n] # None
  /\ WritePolicy(n, None)
  /\ UNCHANGED <<app, route, cachedRoute, serverVars, timers, workerVars, faults, made,
                 unwatched>>

ChangeGroup(g) ==
  /\ Change
  /\ WriteGroups(IF g \in groups THEN groups \ {g} ELSE groups \union {g})
  /\ unwatched' = TRUE
  /\ UNCHANGED <<clusterVars, queue, timers, workerVars, faults, made>>

-----------------------------------------------------------------------------
(* The watch of HTTPRoutes, the garbage collector and the timers. *)

\* Mutant: the requests carry the name of the HTTPRoute.
RouteNames(r) == {r}

\* mapHTTPRouteToApplications
AppsOf(r) == {a \in Apps : app[a].phase # "gone" /\ r \in app[a].spec.routes}

WatchRoute(r) ==
  /\ cachedRoute[r] # route[r]
  /\ cachedRoute' = [cachedRoute EXCEPT ![r] = route[r]]
  /\ queue' = queue \union AppsOf(r)
  /\ UNCHANGED <<app, route, policy, serverVars, timers, workerVars, changes, faults, made,
                 unwatched>>

CollectGarbage(n) ==
  /\ \E a \in Owners(n) : app[a].phase = "gone"
  /\ WritePolicy(n, None)
  /\ UNCHANGED <<app, route, cachedRoute, serverVars, timers, workerVars, changes, faults, made,
                 unwatched>>

\* RequeueAfter: 30 seconds after a failure, 5 minutes after a good reconcile.
Resync(a) ==
  /\ a \in timers
  /\ timers' = timers \ {a}
  /\ queue' = queue \union {a}
  /\ UNCHANGED <<clusterVars, serverVars, workerVars, changes, faults, made, unwatched>>

-----------------------------------------------------------------------------
(* Reconcile of one application. *)

Proceed(next, w) == stage' = next /\ work' = w /\ UNCHANGED fresh

Return == stage' = "idle" /\ work' = None /\ fresh' = FALSE

ReturnError ==
  /\ Return
  /\ queue' = queue \union {work.name}

Start(a) ==
  /\ stage = "idle" /\ a \in queue
  /\ queue' = queue \ {a}
  /\ IF app[a].phase = "gone"
     THEN Return
     ELSE /\ stage' = IF app[a].phase = "live" THEN "resolve"
                      ELSE IF app[a].tracked THEN "cleanup" ELSE "release"
          /\ work' = [name |-> a, copy |-> app[a], created |-> {},
                      redirects |-> [explicit |-> app[a].spec.explicit, hosts |-> {}],
                      todo |-> app[a].spec.routes]
          /\ fresh' = TRUE
  /\ UNCHANGED <<clusterVars, serverVars, timers, changes, faults, made, unwatched>>

\* resolveGroups, the HTTPRoutes and the redirect URIs they give.  Groups that
\* were made stay when the reconcile fails afterwards.
Resolve ==
  LET spec == work.copy.spec
      missing == spec.groups \ groups
      hosts == {r \in spec.routes : cachedRoute[r] = "named"}
      resolved == [work EXCEPT !.created = missing, !.redirects.hosts = hosts]
      Fails == Proceed("fail", work)
  IN /\ stage = "resolve"
     /\ IF missing \subseteq spec.create
        THEN /\ IF missing = {} THEN UNCHANGED serverVars ELSE WriteGroups(groups \union missing)
             /\ GroupsUnheard(work.name, groups \union missing)
             /\ IF \/ \E r \in spec.routes : cachedRoute[r] = "absent"
                   \/ spec.routes # {} /\ ~spec.explicit /\ hosts = {}
                THEN Fails
                ELSE Proceed("provision", resolved)
        ELSE Fails /\ UNCHANGED <<serverVars, unwatched>>
     /\ UNCHANGED <<clusterVars, queue, timers, changes, faults, made>>

\* Any call up to here may fail.
ResolveFails ==
  /\ stage = "resolve"
  /\ Fault /\ unwatched' = TRUE
  /\ Proceed("fail", work)
  /\ UNCHANGED <<clusterVars, serverVars, queue, timers, changes, made>>

DesiredNames(w) == {PolicyName(w.name, r) : r \in w.copy.spec.routes}
Orphans(w) == w.copy.policies \ DesiredNames(w)

\* Mutant: the status follows the orphans.
AfterOrphans(w) == IF Orphans(w) # {} THEN "orphans" ELSE "record"

\* Orphaned SecurityPolicies, then those of the references, then the status.
AfterProvider(w) ==
  CASE Orphans(w) # {} -> "orphans"
    [] Orphans(w) = {} /\ w.todo # {} -> "policies"
    [] OTHER -> "record"

\* The provider and the application by slug, adopted or made, and the bindings.
Provision ==
  LET slug == EffectiveSlug(work.name, work.copy.spec)
      bound == work.copy.spec.groups
  IN /\ stage = "provision"
     /\ bound \subseteq groups
     /\ server' = [server EXCEPT ![slug] = [redirects |-> work.redirects, bound |-> bound]]
     /\ made' = [made EXCEPT ![work.name] = @ \union {slug}]
     /\ Proceed(AfterProvider(work), work)
     /\ UNCHANGED <<clusterVars, groups, queue, timers, changes, faults, unwatched>>

\* A group that went away in between cannot be bound.
ProvisionFails ==
  /\ stage = "provision"
  /\ IF work.copy.spec.groups \subseteq groups
     THEN Fault /\ ReturnError
     ELSE UNCHANGED <<queue, faults>> /\ Proceed("fail", work)
  /\ UNCHANGED <<clusterVars, serverVars, timers, changes, made, unwatched>>

\* One after the other; a deletion that fails is only logged.
DeleteOrphan(n) ==
  LET rest == [work EXCEPT !.copy.policies = @ \ {n}] IN
  /\ stage = "orphans" /\ n \in Orphans(work)
  /\ \/ WritePolicy(n, None) /\ UNCHANGED faults
     \/ policy[n] # None /\ Fault /\ UNCHANGED <<policy, queue>>
  /\ Proceed(AfterProvider(rest), rest)
  /\ UNCHANGED <<app, route, cachedRoute, serverVars, timers, changes, made, unwatched>>

BuildSecurityPolicy(a, spec, r) ==
  [owner |-> a, target |-> r, slug |-> EffectiveSlug(a, spec), groups |-> spec.groups]

\* CreateOrUpdate takes over whatever has the name.
SyncPolicy(r) ==
  LET rest == [work EXCEPT !.todo = @ \ {r}] IN
  /\ stage = "policies" /\ r \in work.todo
  /\ WritePolicy(PolicyName(work.name, r), BuildSecurityPolicy(work.name, work.copy.spec, r))
  /\ Proceed(AfterProvider(rest), rest)
  /\ UNCHANGED <<app, route, cachedRoute, serverVars, timers, changes, faults, made, unwatched>>

SyncPolicyFails ==
  /\ stage = "policies"
  /\ Fault /\ ReturnError
  /\ UNCHANGED <<clusterVars, serverVars, timers, changes, made, unwatched>>

UpdateStatus(object) ==
  /\ \/ /\ fresh
        /\ WriteApp(work.name, object)
        /\ timers' = timers \union {work.name}
        /\ Return
        /\ UNCHANGED faults
     \/ /\ IF fresh THEN Fault ELSE UNCHANGED faults
        /\ ReturnError
        /\ UNCHANGED <<app, timers>>
  /\ UNCHANGED <<route, cachedRoute, policy, serverVars, changes, made, unwatched>>

Record ==
  /\ stage = "record"
  /\ UpdateStatus([app[work.name] EXCEPT
       !.ready = TRUE, !.tracked = TRUE, !.policies = DesiredNames(work),
       !.created = @ \union work.created])

FailRequeue ==
  /\ stage = "fail"
  /\ UpdateStatus([app[work.name] EXCEPT !.ready = FALSE])

\* Everything under the slug, and the groups it made and is to clean up.
Cleanup ==
  LET spec == work.copy.spec
      left == groups \ (work.copy.created \intersect spec.cleanup)
      bound(application) == [application EXCEPT !.bound = @ \intersect left]
  IN /\ stage = "cleanup"
     /\ groups' = left
     /\ server' = [s \in Slugs |->
          IF s = EffectiveSlug(work.name, spec) \/ server[s] = None THEN None
          ELSE bound(server[s])]
     /\ GroupsUnheard(work.name, left)
     /\ Proceed("release", work)
     /\ UNCHANGED <<clusterVars, queue, timers, changes, faults, made>>

CleanupFails ==
  /\ stage = "cleanup"
  /\ Fault /\ ReturnError
  /\ UNCHANGED <<clusterVars, serverVars, timers, changes, made, unwatched>>

\* The finalizer is removed.
Release ==
  /\ stage = "release"
  /\ \/ /\ fresh
        /\ WriteApp(work.name, [app[work.name] EXCEPT !.phase = "gone"])
        /\ Return /\ UNCHANGED faults
     \/ /\ IF fresh THEN Fault ELSE UNCHANGED faults
        /\ ReturnError /\ UNCHANGED app
  /\ UNCHANGED <<route, cachedRoute, policy, serverVars, timers, changes, made, unwatched>>

Reconcile ==
  \/ \E a \in Apps : Start(a)
  \/ Resolve \/ ResolveFails \/ Provision \/ ProvisionFails
  \/ \E n \in PolicyNames : DeleteOrphan(n)
  \/ \E r \in Routes : SyncPolicy(r)
  \/ SyncPolicyFails \/ Record \/ FailRequeue
  \/ Cleanup \/ CleanupFails \/ Release

\* The first lists of the informers enqueue every object.
Restart ==
  /\ Fault
  /\ cachedRoute' = route
  /\ queue' = {a \in Apps : app[a].phase # "gone"} /\ timers' = {}
  /\ Return
  /\ UNCHANGED <<app, route, policy, serverVars, changes, made, unwatched>>

Next ==
  \/ \E a \in Apps : EditSpec(a) \/ DeleteApp(a) \/ Resync(a)
  \/ \E r \in Routes : ChangeRoute(r) \/ WatchRoute(r)
  \/ \E n \in PolicyNames : DropPolicy(n) \/ CollectGarbage(n)
  \/ \E g \in Groups : ChangeGroup(g)
  \/ Reconcile
  \/ Restart

Spec == Init /\ [][Next]_vars

\* The worker goes on, and so do the watch and the garbage collector (each runs
\* out of work, so one fairness for both is enough); the queue is first in, first
\* out.  The timers count only after something that no event tells of.
FairSpec ==
  /\ Spec
  /\ WF_vars(Reconcile)
  /\ \A a \in Apps : SF_vars(Start(a)) /\ WF_vars(unwatched /\ Resync(a))
  /\ WF_vars(\/ \E r \in Routes : WatchRoute(r)
             \/ \E n \in PolicyNames : CollectGarbage(n))

-----------------------------------------------------------------------------
(* Properties. *)

\* What a reconcile can make good: routes that exist and give redirect URIs,
\* groups that exist or may be made.
Serviceable(a) ==
  LET spec == app[a].spec IN
  /\ spec.groups \subseteq groups \union spec.create
  /\ \A r \in spec.routes : route[r] # "absent"
  /\ spec.routes # {} => spec.explicit \/ \E r \in spec.routes : route[r] = "named"

Protected(a) ==
  \A r \in app[a].spec.routes :
    policy[PolicyName(a, r)] = BuildSecurityPolicy(a, app[a].spec, r)

\* The redirect URIs that routes in these states give.
RedirectsOf(spec, states) ==
  [explicit |-> spec.explicit, hosts |-> {r \in spec.routes : states[r] = "named"}]

Provisioned(a, states) ==
  LET spec == app[a].spec IN
  server[EffectiveSlug(a, spec)] =
    [redirects |-> RedirectsOf(spec, states), bound |-> spec.groups]

\* Two applications may ask for SecurityPolicies of one name.
Contested(a) ==
  \E b \in Apps \ {a}, r \in app[a].spec.routes :
    /\ app[b].phase = "live"
    /\ \E q \in app[b].spec.routes : PolicyName(a, r) = PolicyName(b, q)

\* Once users and admins leave things alone, every application is Ready if it
\* can be served and not Ready if it cannot; a Ready one has in Authentik the
\* redirect URIs of its routes and bindings for its groups and, unless another
\* application still asks for the same name, a SecurityPolicy of its own for
\* each of its routes that lets its groups in, whoever took it over or deleted
\* it before (oidcapplication_controller.go:116-421).
Served ==
  <>[](\A a \in Apps : app[a].phase = "live" =>
         /\ app[a].ready <=> Serviceable(a)
         /\ app[a].ready => Provisioned(a, route) /\ (Contested(a) \/ Protected(a)))

\* Whatever a recorded application has provisioned under any slug is gone from
\* Authentik when its resource goes (oidcapplication_controller.go:456-468).
SlugsCleanedUp ==
  [][\A a \in Apps :
       app[a].phase # "gone" /\ app'[a].phase = "gone" /\ app[a].tracked =>
         \A s \in made[a] : server'[s] = None]_vars

-----------------------------------------------------------------------------
(* The inductive invariant behind SlugsCleanedUp, in parts. *)

\* An application is only known in Authentik under the slug it has for life.
SlugForLife ==
  \A a \in Apps :
    app[a].spec \in Specs[a] /\ made[a] \subseteq {EffectiveSlug(a, app[a].spec)}

\* However old its copy of the application, a reconcile has its slug; and what a
\* current copy says of the status is so.
CopyHasTheSlug ==
  stage # "idle" =>
    /\ work \in Job /\ work.copy.spec \in Specs[work.name]
    /\ EffectiveSlug(work.name, work.copy.spec) = EffectiveSlug(work.name, app[work.name].spec)
    /\ fresh => work.copy.tracked = app[work.name].tracked

\* From the cleanup on nothing is there under its slug, on whose behalf it was made.
SlugReleased ==
  stage = "release" /\ work.copy.tracked =>
    server[EffectiveSlug(work.name, work.copy.spec)] = None

SlugsInv == TypeOK /\ SlugForLife /\ CopyHasTheSlug /\ SlugReleased

-----------------------------------------------------------------------------
(* Ready stands. *)

Sole(a) ==
  \A b \in Apps \ {a} : EffectiveSlug(b, app[b].spec) # EffectiveSlug(a, app[a].spec)

\* Nothing is pending or under way for it.
Settled(a) == a \notin queue /\ (stage = "idle" \/ work.name # a)

\* An application that says Ready and for which nothing is pending is protected
\* on each of its routes by a SecurityPolicy of its own for its groups, also when
\* another application asks for the same name, and has in Authentik under its
\* slug, which no other uses, the redirect URIs of its routes as the cache has
\* them and bindings for its groups, unless something has happened that no event
\* tells of: whoever takes that away has it reconciled again
\* (oidcapplication_controller.go:518-562).
ReadyStands ==
  \A a \in Apps : app[a].phase = "live" /\ app[a].ready /\ Settled(a) =>
    /\ Protected(a)
    /\ Sole(a) /\ ~unwatched => Provisioned(a, cachedRoute)

\* The inductive invariant behind it, in parts.  Without a pending event the
\* copy a reconcile works on is current.
CopyIsCurrent ==
  stage # "idle" =>
    /\ app[work.name].phase # "gone"
    /\ work.name \notin queue => work.copy.spec = app[work.name].spec

\* What a reconcile has left to do at each of its stages.
TodoInv ==
  /\ stage = "resolve" => work.redirects.explicit = work.copy.spec.explicit
  /\ stage \in {"resolve", "provision"} => work.todo = work.copy.spec.routes
  /\ stage = "record" => work.todo = {}

\* Without a pending event what it has done stands: the redirect URIs it read,
\* what it wrote under its slug, the SecurityPolicies it brought in sync.
DoneInv ==
  work.name \notin queue =>
    LET a == work.name
        spec == work.copy.spec
    IN /\ stage \in {"provision", "orphans", "policies", "record"} =>
            work.redirects = RedirectsOf(spec, cachedRoute)
       /\ stage \in {"orphans", "policies", "record"} =>
            /\ \A r \in spec.routes \ work.todo :
                 policy[PolicyName(a, r)] = BuildSecurityPolicy(a, spec, r)
            /\ Sole(a) /\ ~unwatched =>
                 server[EffectiveSlug(a, spec)] = [redirects |-> work.redirects, bound |-> spec.groups]

BoundGroupsExist == \A s \in Slugs : server[s] # None => server[s].bound \subseteq groups

\* It rests on SlugsInv.
ReadyInv ==
  CopyIsCurrent /\ TodoInv /\ (stage # "idle" => DoneInv) /\ BoundGroupsExist /\ ReadyStands
=============================================================================
