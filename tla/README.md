# authentik-envoy-operator in TLA+

TLA+ models, TLC configurations and TLAPS proofs for the Kubernetes operator in
`src/`: it watches `OIDCApplication` and `AuthentikProvider` resources,
provisions groups, OAuth2 providers, applications and policy bindings in an
Authentik server over HTTP, and writes Secrets and Envoy `SecurityPolicy`
objects next to the routes that are to be protected.

The operator holds no state of its own. Everything it knows it reads again in
each reconcile, from a cache that may lag and from two servers that others
change as well, and everything it does takes ten to forty separate calls, each
of which can fail, succeed without an answer, or be the last before a restart.
What can go wrong is therefore in the order of steps and in old copies, and
that is what the models are about.

## Inventory

| Component | State | Operations | Interacts with | Hard behaviour |
|---|---|---|---|---|
| **OIDCApplication controller** `internal/controller/oidcapplication_controller.go`, `groups.go` | locals of one reconcile; finalizer and status of the object | `Reconcile`, `resolveGroups`, `cleanup`, `failRequeue` | Authentik, API server, the status of the `AuthentikProvider` | old copies, lost answers, crash between create and status write, deletion during a reconcile, partial failure of loops |
| **Secret synchronisation** `oidcapplication_secrets.go` | names, owner references, role labels and data of two Secrets; `status.secretName` | render, validate, write, list, delete stale | API server through the informer cache | renames, lagging Secret cache, client secret that Authentik omits, Secrets of others under the same name |
| **Secret templates** `secret_template.go` | the entries of the application Secret | render, static analysis of `.ClientSecret` | Secret synchronisation | a wrong analysis renders an empty secret |
| **Comparison and update of attributes** `internal/authentik/compare.go`, `types.go` | none | `ProviderNeedsUpdate`, `ApplicationNeedsUpdate`, PUT bodies with `omitempty` | controller, Authentik | endless updates, drift that is never seen |
| **Authentik client** `internal/authentik/*.go` | token, 30 s timeout | one request per method | Authentik | a request that took effect and was reported as failed |
| **Authentik** (external) | groups, bindings, providers, application | | admins | anyone may change it at any time |
| **API server, informer cache, garbage collector** (external) | objects with resourceVersions | | users, other controllers | conflicts, caches that lag, deletion with finalizers |
| **AuthentikProvider controller** `authentikprovider_controller.go` | `Connected`, flow uids in the status | health check, flow lookup | Authentik; its status feeds the OIDCApplication controller | status that is older than its spec |
| **SecurityPolicy builder** `securitypolicy_builder.go` | none | `BuildSecurityPolicy` | controller, other applications | name collisions |
| **Admission webhook** `internal/webhook/v1alpha1` | none | validate create, update | API server | slug is immutable; a name may not be both Secrets' |
| **Watch mappings** (`SetupWithManager`) | none | which change triggers which reconcile | work queue | a missed trigger |
| **Manager, leader election, metrics** `cmd/main.go`, `internal/metrics` | | wiring | | |

What makes each correct:

* controller: nothing is created that would not be cleaned up; one provider per
  slug; cleanup removes all that is tracked and nothing else; Ready is written
  only for what is served; everything converges, then nothing is written any
  more; deletion ends.
* Secret synchronisation: no foreign Secret is touched; a value that Authentik
  will not tell again is found where it is and not lost on its way to another
  Secret; Secrets and status end up as the spec says.
* comparison: one update is enough, and every difference is seen.
* templates: an entry made with the client secret survives its omission, one that
  does not need it is refreshed; a key that cannot be rendered leaves all as it was.
* AuthentikProvider controller: a status never mixes two specs, and in the end
  says what a check would find.
* both controllers, and several applications: once nobody changes anything each
  application is Ready exactly if it can be served, and is served.

`PROJECT.json` lists every component with what is and is not modelled, and under
`hazards` every place of this code where something hard to test can go wrong,
with the properties that would notice.

## Modules

```
OIDCApplicationTypes          spec, status, object
   |            |
Authentik    Cluster          the two servers, as far as one resource sees them
    \          /
OIDCApplicationReconciler     Reconcile, resolveGroups, cleanup, failRequeue
         |                           Lifecycle    what users rely on (abstract)
OIDCApplicationProperties ......implements......'
    /          \              properties, doc claims, the inductive invariants
MCOIDCApplication    OIDCApplicationProofs

AuthentikProviders            specs, token Secrets, flows, and who changes them
   |            \
ProviderStatus   AuthentikProviderReconciler -- MCAuthentikProviders, AuthentikProviderProofs
   |      '........implements........'   the other controller, and what it promises
Connection -- MCConnection, ConnectionProofs     an application on top of that promise
                       (AuthentikProvidersProofs: lemmas both of these proofs use)

Namespace -- MCNamespace, NamespaceProofs              several applications
SecretSync -- SecretSyncProperties -- MCSecretSync, SecretSyncProofs
                                                       reconcileSecrets in detail
SecretRendering -- SecretRenderingProofs               renderSecretTemplate, whatever the
      |                                                templates and the analysis are
SecretTemplate -- MCSecretTemplate                     both of them: secret_template.go in detail
Attributes -- MCAttributes, AttributesProofs           compare.go and the PUTs in detail
```

The whole operator in one model is out of TLC's reach, so each module takes one
place where steps of several actors meet, models everything the code does there,
and takes the rest as its neighbours promise it:

* `Connection` uses `ProviderStatus`, which `AuthentikProviderReconciler` is
  shown to implement;
* `OIDCApplicationReconciler` sees one object call by call; `Namespace` sees
  several in larger steps;
* its `cfg` (is an update enough?) is `Attributes`, its `secrets` are
  `SecretSync`, whose entries are `SecretRendering`.

### OIDCApplicationReconciler

Both controllers run one worker each, so one reconcile of an object is in
flight at a time. `pc` is the call it is about to make, `snap` the copy of the
object it read at its start, `loc` its local variables under (nearly) the names
they have in the code. A stage is one call to Authentik or to the API server
with the code around it; loops (groups, bindings, SecurityPolicies) are one
stage per iteration. Between any two stages everybody else may act.

| Stage | Code (`oidcapplication_controller.go` unless said otherwise) |
|---|---|
| `Start` (with `FirstStage`) | the cached read, deletion and finalizer tests, 57-81 |
| `AddFinalizer` | 77-81, a pass of its own |
| `ResolveProvider` | the AuthentikProvider, its `Connected` condition, its token, 83-114 |
| `ResolveGroup`, `CreateGroup` | `groups.go` 13-40 |
| `ResolveReferences` | signing key, mappings, routes, redirect URIs, 123-208 |
| `GetApplication`, `GetProvider`, `FindProvider`, `UpdateProvider`, `CreateProvider` | 210-257 |
| `EnsureApplication` | 259-279 |
| `ListBindings`, `DeleteBinding`, `CreateBinding` | 281-326 |
| `FetchDiscovery` | 328-348 |
| `WriteSecrets`, `DeleteStaleSecrets` | `oidcapplication_secrets.go` (summary; detail in SecretSync) |
| `DeleteOrphanPolicy`, `SyncPolicy` | 354-400 |
| `UpdateStatus`, `FailRequeue` | 401-421, 496-516 |
| `ReadCredentials`, `Unbind`, `DeleteApplication`, `DeleteProvider`, `CleanGroup` | `cleanup`, 424-494 |
| `RemoveFinalizer` | 63-74 |

How failures enter: `CallFails` is a call that fails without effect;
`Answered` lets a call take effect and its answer be lost, which the code sees
as an error (30 s timeout of the client, or a crash of the connection);
`Crash` ends the reconcile anywhere, and the restarted process lists its cache
afresh. Errors go where the code sends them: stages in `RequeueStages` write a
condition first (`failRequeue`), those in `ErrorStages` return the error, those
in `LoggedStages` log it and go on.

`Cluster` models optimistic concurrency: a write lands only if the copy carries
the current resourceVersion (`fresh`), a write that changes nothing keeps it,
an object that is being deleted goes with its last finalizer, the cache lags
(`cached`, `WatchEvent`) and the garbage collector follows. The last spec and
status of an object that is gone remain in `app` for the properties.

`Authentik` has one operator per request. A group has an incarnation number
(its uuid) and an owner (who made this incarnation), so a group that was
deleted and made anew by an admin can be told from the operator's.

### Lifecycle

What a user may rely on, without calls, copies, retries or crashes: an object is
`new`, `guarded` by the finalizer, `deleting`, `gone`; things are made for it
only while it is guarded or deleting, what its status has recorded is not
forgotten, and it goes only when nothing of that is left (groups only if the spec
wants them cleaned up). `OIDCApplicationProperties` maps the detailed state to it
(`PhaseOf`, `Assets`, `Recorded`), and `ImplementsLifecycle` says that every step
of the controller, of users, admins and crashes is one of `Lifecycle`'s, or none.

### AuthentikProviders, ProviderStatus, AuthentikProviderReconciler

`AuthentikProviders` has what administrators own: the resources, the token
Secrets and, per Authentik, the flows. Everything may change at any time, and a
flow that is made anew has another uid.

`AuthentikProviderReconciler` is `Reconcile` of
`authentikprovider_controller.go`: the cached read and the token (`Start`,
38-73), the two lookups (75-111) and the status write (113-124), with the reason
of each failure. Events arrive late through the caches of AuthentikProviders and
of Secrets and reach the queue by `mapSecretToProviders`; the timers (one and ten
minutes) are the only thing that notices a changed flow.

`ProviderStatus` is what the other controller may rely on: the status may turn
to not connected at any moment, and turns to connected only with uids of flows
that the spec *of that moment* names, or named before. `KeepsPromise` is the
refinement; a status write from an old copy would break it.

### Connection

One application that may refer to two AuthentikProviders, and nothing of the
other controller but `ProviderStatus`. It keeps what depends on the connection:
the API client made from the cached resource and Secret, the flow uids in the
provider request, `failRequeue`, the error path for a missing token Secret, and
cleanup, which needs the connection again. A provider in Authentik stands for
all that is kept with it. `repointed` records that the reference or a host has
changed under a recorded pk, `unwatched` that something happened which no event
reports.

### Namespace

Applications in one namespace, reconciled in turn by one worker, that meet in
HTTPRoutes, in the names of SecurityPolicies, in groups and in slugs. Names are
sequences of segments, so that `a` + `b-c` and `a-b` + `c` do make the same name.
Groups, provider, application and bindings are one step each (they are apart in
`OIDCApplicationReconciler`); every write of a SecurityPolicy is a step with the
events it causes. `Contested` is the case in which two live applications ask for
one name: then there is no state in which both are content, and `Served`
leaves the policy open until one of them gives the name up.

`Served` says that everything comes right in the end. `ReadyStands` says what
holds before that: an application that says Ready *is* protected and provisioned
as it says, or an event for it is pending or its reconcile under way, or something
has happened that no event tells of. A missing watch, a mapping that forgets an
owner, or a status written from an old copy would break it at once, also in
behaviours in which a timer repairs the damage later. Even a `Contested` policy is
no exception, since whoever takes the policy over has its owner reconciled again.

### SecretSync

`OIDCApplicationReconciler` only knows whether each Secret is there. SecretSync
models `reconcileSecrets` with names, owner references, role labels and, per
key, the *origin* of the value: `raw` is the client secret as put into the Envoy
Secret, `rendered` a template entry made with the client secret, `plain` any
other entry. What is abstracted is the template (that is `SecretRendering`). All
that the function reads and validates before its first write is one action
(`Prepare`): it reads from the cache and has no effect. Each write and each
deletion is an action, with the preconditions the API server checks. The Secret
cache receives changes in order and late (`pending`, `WatchSecrets`); others
delete, replace and relabel Secrets (`Others`). `loc.sound` is a history bit that
only `EntryKept` and `SyncInv` read.

Two properties are about a value Authentik may never tell again. `EntryFound`: a
reconcile whose caches are right finds it in `Source`, which is the Secret of the
desired name if the application controls that one, and else the one the status
names, whatever happened before; a lookup that forgets one of the two, or asks
them in the other order, violates it. `EntryKept`: a reconcile that has the entry
in hand leaves it somewhere, through the write, the cleanup and any failure, if
the copy of the Secret it overwrites is current when it is written. `Settles`
then says that it arrives: a rename is completed also while Authentik omits the
client secret.

### SecretRendering, SecretTemplate

`SecretRendering` is `renderSecretTemplate` as one step of a Secret through which
templates are edited, public fields change and Authentik tells or omits the client
secret. What a template makes (`Rendered`) and what the analysis says of it
(`UsesClientSecret`) are constants, so that what is proved there holds for every
template and every analysis. `source` remembers from which template and which
version of the public fields each entry was made. `RenderingIsAtomic` compares the
entries before and after a pass: they are all as they were, or each is made anew
or, if it needs what Authentik omits, carried over.

`SecretTemplate` gives these constants their values. A template is the tree the
parser yields; `Analyze...` is the code's analyzer case by case with its scopes,
`Eval...` and `Exec...` are `text/template` for those nodes (variables as a
stack, `with` and `range` rebinding dot, `break`, nested templates, parentheses,
pipelines). Its properties compare what the analyzer decided with what rendering
yields.

### Attributes

`ProviderNeedsUpdate` and `ApplicationNeedsUpdate` attribute by attribute,
`redirectURIsEqual` (counting) and `StringSetEqual` (sorting) as the code computes
them, compared in `DriftSeen` with the definition of a permutation, and the effect of a PUT whose
empty `omitempty` values are not in the body. `OIDCApplicationReconciler` uses
the outcome as a single abstract configuration `cfg`, of which it assumes that
an update makes it equal; `UpdatesSettle` and `DriftSeen` are that assumption,
and the doc claim shows where it does not hold.

## What is checked

All bounds are constants with a comment in their module. `CHECK_DEADLOCK` is off
everywhere because the system may stop: an object that is gone, or a model in
which every bounded action is used up and no reconcile has anything to do.

| Run | Instance | Shows |
|---|---|---|
| `safety` | 2 groups, 2 routes, both Secrets, 3 specs, application that may exist before, 1 edit, 1 failure or crash, 1 interference (2.3 million states) | `TypeOK`, `OneProvider`, `CleanupComplete`, `CreationIsGuarded`, `OnlyCreatedNamesDeleted`, `CreatedGroupsKept`, `ReadyIsEarned` with `ServedSoFar`, and `ImplementsLifecycle` |
| `live` | 2 groups, 1 route, edit, failure, interference; fairness | `Converges`, `Quiesces`, `DeletionCompletes`, and `IInv`, the inductive invariant of the proofs |
| `secrets` | 3 names, 2 keys, 4 specs, a name that others may have first; at most 3 edits (of the spec or of what Authentik tells), 1 outside change and 1 failure or crash, 3 of all these together; fairness (0.9 million states) | `ForeignKept`, `EntryFound` and `EntryKept` with `SyncInv`, `Settles` |
| `templates` | some 15,000 templates: every branch with bodies of up to 2 nodes, every pipeline of up to 2 commands over arguments nested once, templates that call each other; 2 entries, 1 edit, also to a template that cannot be rendered | `TameEntriesRetained`, `IndependentEntriesRefreshed`, `OmissionIsJudged`, `RenderingIsAtomic` |
| `attributes` | 3 provider and 2 application requests, 1 edit, 1 change by an admin | `UpdatesSettle`, `DriftSeen` |
| `health` | 2 AuthentikProviders, 2 Authentiks, 2 token Secrets, 2 flows, 2 changes, 1 failure or crash; fairness | `KeepsPromise` (refinement) with `StatusInv`, `StatusSettles` |
| `connection` | 2 AuthentikProviders, 2 Authentiks, 2 changes, 1 failure or crash; fairness | `ApplicationSettles`, `DeletionSettles`, `CleanupHitsItsOwn` with `CleanupInv` |
| `namespace` | 2 applications, 2 routes that make one policy name twice, 2 groups, 2 changes, 1 failure or crash; fairness | `Served`, `ReadyStands` with `ReadyInv`, `SlugsCleanedUp` with `SlugsInv` |

Every run but `templates` has a type invariant beside these (in `secrets` it is
a part of `SyncInv`). What a property is listed "with" is the inductive
invariant its proof rests on, checked first.

Why these bounds are enough for the cases that matter: every hazard listed needs
one failure (lost answer, crash, failed call), one user action (edit or
deletion; in the first two runs a deletion is not counted, it happens once) and
one outside action at an arbitrary point; two groups are needed for one that is
cleaned up next to one that is not and for a swap of bindings, two routes for one
that is dropped next to one that stays, two names beside the Envoy Secret's for a
rename, three edits for an omission and a rename there and back, two changes in `connection` for a
reference that is changed and an application that is deleted after it, two in
`namespace` for an application that takes something over and goes. Safety
properties that survive one fault in every position and every order are the ones
the theorems then lift to any number.

### Fairness

The worker's steps and the watches have weak fairness. The code justifies both:
every error, conflict and `failRequeue` returns an error or a `RequeueAfter` to
controller-runtime's rate-limited queue, requests to Authentik have a timeout,
the process is restarted by its Deployment, and informers re-list after a broken
watch. Where several objects wait, `Start` of each has strong fairness: the queue
is first in, first out, so an object is not overtaken for ever.

The timers (`RequeueAfter`: 30 seconds and 5 minutes, 1 and 10 minutes) would hide
a missed event, since they repeat everything. In `health`, `connection` and
`namespace` they are therefore fair only once something has happened that no
event tells of (`unwatched`: a flow, a token in the cache of the other
controller, a group, an outage of Authentik). What is left is what the watches
must bring about by themselves.

Nothing is assumed of users, admins, crashes or failures, except that their
number is bounded in an instance: the liveness properties say what happens once
they are quiet. `ApplicationSettles` in addition assumes that the status of the
AuthentikProviders settles, which `StatusSettles` says of the other controller.
In `SecretSync` the fairness of `Prepare` needs the validation to succeed; where
it does not (`Refused`, or Authentik omits a client secret that is neither in the
owned Secret of the desired name nor, if there is none, in the one the status
names), `Settles` says so.

### Where docs and code differ

Each of these runs has one property that a comment or a doc states, and TLC
finds the behaviour of the code that violates it. The quotations are in
`PROJECT.json` under `findings`.

| Run | What happens |
|---|---|
| `doc_orphan_provider` | The object is deleted during its first reconcile: the status write conflicts, cleanup sees no `status.authentik`, does nothing and lets the finalizer go; provider and application stay. |
| `doc_repointed` | `providerRef` (or the host behind it) changes and the object is deleted: cleanup asks the new Authentik for the old pk, takes the 404 for done, and what is at the old one stays. |
| `doc_template_shadow` | A variable declared in both arms of a branch under an outer variable's name: the analyzer carries its flag out of the branch and takes the outer one for harmless. The entry loses the client secret when Authentik omits it. |
| `doc_emptied_lists` | `redirectURIs` or `propertyMappings` that are emptied are compared but never sent: an update in every reconcile, without effect. |

What holds instead: `CleanupComplete` and `ImplementsLifecycle` (everything the
status *tracks* is cleaned up), `CleanupHitsItsOwn` (as long as the reference and
the hosts stay), `TameEntriesRetained` (no branch body declares a variable, and
no range body assigns one: the analyzer looks at a body once, so what one
iteration assigns for the next is the other thing it does not see).

Limits of the same kind that have no run of their own:

* A group is created and the reconcile ends before its status write (an error, a
  crash, or any later `failRequeue`): the next one takes the group for somebody
  else's, and `cleanup: true` does not delete it.
* A SecurityPolicy made by a reconcile without a status write is never a
  candidate for deletion; it stays until the application goes.
* An application Secret named like the later Envoy Secret (allowed while there
  are no routes) becomes its source when Authentik omits the client secret.
* `issuer_mode` is sent but not compared: drift stays.
* Two live applications whose `<app>-<route>` names coincide take one
  SecurityPolicy from each other for ever, each write bringing the other back:
  one route of the two is unprotected at any time. The webhook does not know.
* A group that one application created and cleans up may be in use by another,
  whose bindings go with it; that one notices at its next periodic reconcile.
* An old binding that cannot be deleted is only logged, so its group keeps its
  access until a later reconcile while `boundGroups` no longer lists it
  (`Converges` says that the window closes).
* Cleanup deletes groups by name, also one that an admin made anew under a name
  the operator once created (`OnlyCreatedNamesDeleted` says no more than that).
* While Authentik omits the client secret a Secret is renamed from A to B and back
  to A before the status names B: the value is in B, which the application
  controls but the code does not look into. The reconcile fails, and keeps B,
  until Authentik tells the client secret again. It is the same when the owned
  Secret of the desired name lacks a key that the one the status names has.
  `EntryFound` and `Settles` are about the Secrets the code takes data from
  (`Source`), and leave these two out.
* A write of a Secret is skipped when an old copy in the cache looks right: after
  a rename from A to B and back the cache may still show the deleted A when B is
  deleted, which is why `EntryKept` asks that the cache was right about the
  Secret when it was written.
* The previous data are read from the cache before the first write, and
  `CreateOrUpdate` does not look at them again: what was prepared from an old copy
  may replace a newer rendered value once the cache has caught up, and a plain
  entry that an earlier template had under the same key is retained in its place.
  This is why `EntryFound` asks that the caches are right when the data are read.
* The finalizer is removed with an update that passes the webhook: an object that
  is not admitted any more cannot be released.

## What is proved

Each theorem holds for every set of groups, routes, Secrets, providers,
applications and specs and every value of the bounds, so for any number of edits,
failures and interferences, since a bound of any size is allowed.

| Module | Theorem | Property |
|---|---|---|
| `OIDCApplicationProofs` | `Invariance` | `Spec => []IInv` |
| | `TypeCorrect` | `Spec => []TypeOK` |
| | `ProviderIsUnique` | `Spec => []OneProvider` |
| | `CleanupIsComplete` | `Spec => []CleanupComplete` |
| | `CreationGuarded` | `Spec => CreationIsGuarded` |
| | `TrackingIsKept` | `Spec => CreatedGroupsKept` |
| | `DeletionIsGuarded` | `Spec => OnlyCreatedNamesDeleted` |
| | `LifecycleImplemented` | `Spec => ImplementsLifecycle` |
| | `ServiceStands` | `Spec => []ServedSoFar` |
| | `ReadinessIsEarned` | `Spec => ReadyIsEarned` |
| `AuthentikProviderProofs` | `StatusIsOfTheCopy` | `Spec => []StatusInv` |
| | `StatusTypes` | `Spec => []TypeOK` |
| | `PromiseKept` | `Spec => KeepsPromise` |
| `ConnectionProofs` | `CleanupIsAimed` | `Spec => []CleanupInv` |
| | `ConnectionTypes` | `Spec => []TypeOK` |
| | `OnlyItsOwnIsCleanedUp` | `Spec => CleanupHitsItsOwn` |
| `SecretSyncProofs` | `EntriesReachTheirSecret` | `Spec => []SyncInv` |
| | `SecretTypes` | `Spec => []TypeOK` |
| | `OthersSecretsAreSafe` | `Spec => ForeignKept` |
| | `EntriesAreFound` | `Spec => []EntryFound` |
| | `EntriesSurvive` | `Spec => EntryKept` |
| `NamespaceProofs` | `OneSlugForLife` | `Spec => []SlugsInv` |
| | `NamespaceTypes` | `Spec => []TypeOK` |
| | `NothingIsLeft` | `Spec => SlugsCleanedUp` |
| | `WorkStands` | `Spec => []ReadyInv` |
| | `ReadyIsKept` | `Spec => []ReadyStands` |
| `AttributesProofs` | `AttributeTypes` | `Spec => []TypeOK` |
| | `NoDriftUnseen` | `Spec => []DriftSeen` |
| | `OneUpdateSettles` | `Spec => UpdatesSettle` |
| `SecretRenderingProofs` | `AllOrNothing` | `Spec => RenderingIsAtomic` |
| | `OmissionsAreJudged` | `Spec => []OmissionIsJudged` |
| | `RetentionIsAsGoodAsTheAnalysis` | see below |

They rest on the named assumptions about the constants only, which TLC evaluates
in every run of the module: bounds are numbers, specs have the shape the CRD gives
them and are admitted by the webhook (a Secret with templates and routes does not
take the Envoy Secret's name; there are groups), each AuthentikProvider has some
spec to choose from, attributes a request needs are not empty, items of lists are
numbers in their sort order, and `None` is no value. About the templates and the
analysis, the constants of `SecretRendering`, nothing is assumed.

`PromiseKept` and `OnlyItsOwnIsCleanedUp` go together: `Connection` lets the other
controller do whatever `ProviderStatus` allows, and that controller is proved to
do no more.

### Along which arguments

None of the safety properties is inductive, because a reconcile acts on an old
copy. The inductive invariants say how far that can mislead it.

**The controller.** `OneProvider` says nothing of a reconcile that has looked for a
provider, found none and is about to create one; `CleanupComplete` nothing of what
a cleanup under way has deleted. `IInv` adds what is missing:

* `FreshCopies`: a copy that carries the current version *is* the object. This
  is what makes a write that lands trustworthy.
* `StageFacts`: what `FirstStage` decided on the copy is still true of the copy.
* `FinalizerHeld`: a copy, however old, that shows the finalizer and no deletion
  is not wrong about the finalizer, because only cleanup takes it away, and only
  from the current object, which is deleted. Hence `CreationIsGuarded`. And an
  object without the finalizer tracks nothing, which the refinement needs when
  such an object is deleted.
* `ProviderUnique`: there is no provider when one is about to be created. The
  only other creator is the operator's own earlier reconcile, and that has ended.
* `CreatedByOperator`: every created group that is recorded anywhere (object,
  cached copy, working copy, locals) was created by the operator once.
* `CleanedUp`: what each stage of cleanup has got rid of stays away until the
  finalizer goes; admins do not make groups in the operator's name, and no other
  reconcile of the object runs.

The proof has one lemma per part (`...Step`), each split by the actions that can
disturb it, over two layers of lemmas: the effects of requests in types, and the
*shape* of the worker's steps (a stage moves on within its phase on the same
copy, or ends the reconcile; only four stages write the object), which keeps the
other parts from unfolding every action.

**Lifecycle.** The refinement takes each step of the detailed specification to one
of `Lifecycle` or to a stutter, from `IInv`: what comes into being does so under a
finalizer (`CreationIsGuarded`), what the status loses is lost because another
write recorded more, and the object goes only from a `removeFinalizer` whose copy
is current, so that `CleanedUp` speaks of what the object itself has recorded.

**Ready.** `ServedSoFar` lists, per stage, what the reconcile has provided by then
for the spec of its copy: application and provider configured and linked, bindings
present, Secrets and SecurityPolicies written. It is relative to that copy and
holds as long as `outside = 0`; the status write lands only if the copy is
current, so Ready is written for the spec in force.

**AuthentikProvider.** The two uids of a status are looked up one after the other,
from a copy. `LookedUp` says that they belong to the spec *of the copy*,
`FreshCopies` that the write lands only if the copy has the spec in force; a
failed check keeps the uids the status had, which are those of the object as long
as the write can land at all.

**Connection.** pks are numbers a server hands out, so the pk of the recorded
provider may be that of a stranger at another host. `OneHost` says that as long as
nothing is repointed, every copy from which a host is taken means the same one;
`PKsApart` that there the application's pks are larger than those others had;
`ReleasedClean` that the finalizer goes after the provider.

**Secrets.** `CacheCatchesUp` ties the cache to the store through the pending
events: the last event of a name carries what is there, so a name without events
is cached as it is. A change that the API server accepts was therefore made with
the Secret itself in view, and the ownership checks, which read the cache, are
right about it: `ForeignKept`. `StageRight` says that nothing the object's copy
asks for is a candidate for deletion, `EntriesWritten` that an entry in hand is in
its Secret from the write to the end of the reconcile; with the webhook's rule
that the two Secrets have two names, that is `EntryKept`. `EntryFound` is a case
analysis of `PreviousApplication` and `PreviousData`: what the caches show of the
two Secrets is what is there (`CacheCatchesUp`), and a copy of the object that
counts as current is the object (`FreshCopies`, an invariant of its own).

**Namespace.** `SlugForLife` and `CopyHasTheSlug`: the webhook admits no other slug,
so a copy that is wrong about everything else is right about it, and all an
application has ever provisioned is under one slug. `SlugReleased`: once cleaned
up it stays empty until the resource is released, because the one worker is busy
with that.

`ReadyStands` rests on one rule the code follows for all but groups: *whoever
takes something away has its owner reconciled again*. `CopyIsCurrent` says that a
reconcile with no event pending for its object works on the current spec, because
every edit enqueues; `TodoInv` which of its SecurityPolicies it has still to bring
in sync; `DoneInv` that all the others, the redirect URIs it read and what it has
written to Authentik stand, unless an event is pending. Every write of a SecurityPolicy, by
whomever, enqueues the applications that owned it before or own it after; a route's
hostnames reach the cache together with the events of all applications that refer to
it; what Authentik has under a slug that no other application uses is written by its
own reconcile only, except that a group may go, and with it bindings, which no event
tells of (`unwatched`). So the
last stage, which writes Ready, has all routes done, and from then on the same
arguments keep it.

**Attributes.** That lists which agree item by item, counting, are permutations of
each other, and that sorting decides it, looks like induction over lists, which the
prover cannot do. The proof avoids it. A reordering is a bijection of the positions.
If no item is more often in one list than in the other there is, per item, an
injection of its positions in the one into those in the other; chosen for every item,
these make one injection of all positions, and as the lists are of one length it is a
bijection. Sorting sends each position to its rank, the number of
positions before it, which is a bijection, so a sorted reordering exists; two sorted
reorderings agree at each position, because what is at a position is determined by
how many items are smaller. `ProviderComparisonDecides` then says of the comparison of
`compare.go` what a reader takes it to mean, and both properties follow.

**Rendering.** What one pass makes of an entry (`Rendering`) is the entry before, which
was there, or what the template makes, which is no error; `AllOrNothing` follows step
by step. `OmissionIsJudged` is inductive. `OmissionsAreJudged` needs no more of the
templates than that retention asks the analysis; with it,
`RetentionIsAsGoodAsTheAnalysis` says that no entry lacks the client secret whose
template the analysis is right about (it says "uses the secret", or leaving the
secret out makes no difference). What is left to the analysis itself is
`TameEntriesRetained`, on small templates.

### Only model-checked

* Liveness (`Converges`, `Quiesces`, `DeletionCompletes`, `Settles`,
  `StatusSettles`, `ApplicationSettles`, `DeletionSettles`, `Served`): fairness and
  ENABLED are beyond the prover.
* What the analysis in `SecretTemplate` says of a template (`TameEntriesRetained`,
  `IndependentEntriesRefreshed`): analyzer and evaluator are RECURSIVE operators,
  and comparing them is an induction over templates.
* That the models fit together where the README says that one summarises another
  (`cfg` and `Attributes`, `secrets` and `SecretSync`): only `ProviderStatus` and
  `Lifecycle` are stated as refinements.

## What is not modelled

* Two applications with one slug. The operator owns any Authentik object under
  the slug (`README.md:115`), so they overwrite each other's provider and
  application by design, and no property of either can hold.
* Field validation in the webhook: string matching on single fields, without
  state.
* Cookies, scopes, URLs in SecurityPolicies: copied from the spec.
* Paging and encoding in the client, the wire format, the lookups of signing
  keys and mappings beyond their failing.
* Metrics, events, logging, `cmd/main.go`: nothing reads them back, or wiring. The
  operator is deployed with one replica and a leader lease, so one process acts.
* Lists that name a group twice: `spec.groups` is a set here. The webhook admits
  them; the code then makes a binding per mention and compares with multiplicity
  (`StringSetEqual`), so such a list is as stable as any other.
* In `Connection`: the single deletions of a cleanup, of the application, its
  bindings and the provider (one step there, call by call in
  `OIDCApplicationReconciler`), reconciles that end early for a missing HTTPRoute
  or for want of redirect URIs, and an empty token as something else than a
  refused one.
* Templates that do not parse: they end `reconcileSecrets` before its first
  write, as an entry without a previous value does (`Valid`).
* An Authentik behind a changed host that is the same one; tokens valid at one
  host and not at another.

## Plan

Done, in this order: types, servers and the controller with its properties and
proofs; Secret synchronisation; attributes; the AuthentikProvider controller and
its promise; the connection of the two controllers; applications that share a
namespace; the analysis of templates; `Lifecycle`; the proofs above. Not done:

1. Lemmas that state the summaries of `OIDCApplicationReconciler` (an update makes
   `cfg` equal, Secrets are there after `WriteSecrets`) of the detailed modules.
   `OneUpdateSettles`, `EntriesAreFound` and `EntriesSurvive` are the facts they
   would rest on.
2. `ReadyStands` for groups: it stops at `unwatched`, because the operator hears of
   a group that goes only at the next periodic reconcile.

## Running

```
tlc -workers 2 -config MCSafety.cfg MCOIDCApplication     # likewise MCLive, ViolNoOrphanProvider
tlc -workers 2 -config MCSecretSync.cfg MCSecretSync
tlc -workers 2 -config MCTemplates.cfg MCSecretTemplate   # likewise ViolDependentEntriesRetained
tlc -workers 2 -config MCAttributes.cfg MCAttributes      # likewise ViolEmptiedListsSettle
tlc -workers 2 -config MCAuthentikProviders.cfg MCAuthentikProviders
tlc -workers 2 -config MCConnection.cfg MCConnection      # likewise ViolNothingOrphaned
tlc -workers 2 -config MCNamespace.cfg MCNamespace
for m in OIDCApplicationProofs AuthentikProvidersProofs AuthentikProviderProofs \
         ConnectionProofs SecretSyncProofs NamespaceProofs AttributesProofs \
         SecretRenderingProofs
do tlapm $m.tla; done
```
