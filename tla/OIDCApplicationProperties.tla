---------------------- MODULE OIDCApplicationProperties ----------------------
(***************************************************************************)
(* What makes the OIDCApplication controller correct, what its docs and     *)
(* comments claim beyond that, and the inductive invariant behind the       *)
(* safety properties.                                                       *)
(***************************************************************************)
EXTENDS OIDCApplicationReconciler

-----------------------------------------------------------------------------
(* Properties. *)

OperatorActs == outside' = outside

\* The objects in Authentik and the cluster are what the spec asks for.
Served(spec) ==
  /\ Linked
  /\ application.cfg = spec.cfg
  /\ \A p \in providers : p.cfg = spec.cfg
  /\ \A g \in spec.groups : bindings[g] > 0
  /\ spec.routes \subseteq policies
  /\ DesiredSecrets(spec) \subseteq secrets

\* Nothing is created in Authentik unless the object is there and carries the
\* finalizer that will clean up behind it, however old the copy the reconcile
\* works on (Reconcile adds the finalizer in a pass of its own and returns).
CreationIsGuarded ==
  [][ /\ OperatorActs
      /\ \/ lastPK' > lastPK
         \/ application = None /\ application' # None
         \/ \E g \in Groups : groups'[g].uuid > groups[g].uuid \/ bindings'[g] > bindings[g]
      => app.exists /\ app.finalizer ]_vars

\* Lost answers, crashes and deletions by admins never lead to a second OAuth2
\* provider for the slug: one is looked up by name before it is created.
OneProvider == \A p, q \in providers : p = q

\* Once the object is gone after a cleanup, its application, the provider its
\* status recorded and the groups that were created and wanted cleaned up are
\* gone too, whatever failed, was repeated or was edited on the way.
CleanupComplete ==
  ~app.exists /\ app.status.tracked =>
    /\ application = None
    /\ app.status.provider \notin PKs
    /\ \A g \in app.status.created \intersect app.spec.cleanup : groups[g].owner # "operator"

\* The operator deletes a group only under a name it once created: a group
\* that was there first survives its OIDCApplication.
OnlyCreatedNamesDeleted ==
  [][ \A g \in Groups :
        OperatorActs /\ Present(g) /\ groups'[g].owner = "absent" => g \in everCreated ]_vars

\* A group the status tracks as created stays tracked: no later reconcile, on
\* however old a copy, makes the operator forget what cleanup must delete.
CreatedGroupsKept == [][app.status.created \subseteq app'.status.created]_vars

\* Ready is written only when the current spec, not the one the reconcile
\* started from, is served (as long as no admin or user interferes).
ReadyIsEarned ==
  [][ /\ app'.status # app.status /\ app'.status.ready
      /\ outside' = 0
      => Served(app.spec) ]_vars

\* A group the spec wants but does not allow to create is missing.
Blocked == \E g \in app.spec.groups \ app.spec.create : ~Present(g)

InSync ==
  /\ Served(app.spec)
  /\ bindings = [g \in Groups |-> IF g \in app.spec.groups THEN 1 ELSE 0]
  /\ app.status.ready
  /\ app.status.bound = app.spec.groups
  /\ app.status.policies = app.spec.routes

\* Once users, admins and failures are quiet, the object is Ready and served,
\* with exactly the bindings of its spec, or it is being deleted, or it lacks
\* a group it may not create.
Converges == <>[](app.deleting \/ Blocked \/ InSync)

\* And then the periodic reconciles change nothing any more: no endless
\* update of Authentik, of the status, of Secrets or SecurityPolicies.
Quiesces == <>[][UNCHANGED <<authentikVars, app, policies, secrets>>]_vars

\* A deleted object goes away: cleanup is retried until it is through, and
\* what is gone already does not stop it.
DeletionCompletes == app.deleting ~> ~app.exists

-----------------------------------------------------------------------------
(* The refinement. *)

Thing(kind, id) == [kind |-> kind, id |-> id]
GroupThings(set) == {Thing("group", g) : g \in set}
ProviderThings(pks) == {Thing("provider", pk) : pk \in pks}
TheApplication == {Thing("application", 0)}

PhaseOf(object) ==
  CASE ~object.exists -> "gone"
    [] object.exists /\ object.deleting -> "deleting"
    [] object.exists /\ ~object.deleting -> IF object.finalizer THEN "guarded" ELSE "new"

Assets ==
  GroupThings({g \in Groups : groups[g].owner = "operator"})
    \union ProviderThings(PKs)
    \union (IF application = None THEN {} ELSE TheApplication)

Recorded(status) ==
  IF ~status.tracked THEN {}
  ELSE GroupThings(status.created) \union ProviderThings({status.provider})
         \union TheApplication

Life == INSTANCE Lifecycle WITH
  phase <- PhaseOf(app),
  assets <- Assets,
  recorded <- Recorded(app.status),
  wanted <- GroupThings(app.spec.cleanup)

\* Every step of the controller, of a crash, of users and of admins is one that
\* Lifecycle allows: guarded before anything is made, recorded and then not
\* forgotten, released only when nothing recorded is left
\* (oidcapplication_controller.go:62-81, 401-422, 424-494).
ImplementsLifecycle == Life!Spec

-----------------------------------------------------------------------------
(* What docs and comments say, and the code does not do. *)

\* The finalizer is kept so that nothing is orphaned: with the object gone,
\* no provider of its slug is left.
NoOrphanProvider == ~app.exists => providers = {}

-----------------------------------------------------------------------------
(* The inductive invariant, in parts. *)

Provisioning == Stages \ (Cleanup \union {"addFinalizer"})

\* A copy that carries the current version is the current object.
FreshCopies ==
  /\ cachedFresh => cached = app
  /\ fresh => cachedFresh /\ snap = app

\* What the stage says of the copy and of the locals.
StageFacts ==
  /\ pc = "idle" => ~fresh /\ loc = NoWork
  /\ pc # "idle" => snap \in Object /\ snap.exists
  /\ pc \in Provisioning => ~snap.deleting /\ snap.finalizer
  /\ pc = "addFinalizer" => ~snap.deleting /\ ~snap.finalizer
  /\ pc \in Cleanup => snap.deleting /\ snap.finalizer
  /\ pc \in Cleanup \ {"removeFinalizer"} => snap.status.tracked
  /\ pc = "createGroup" => loc.group \in Groups

\* A copy that shows the finalizer and no deletion is never wrong about the
\* finalizer: only cleanup removes it, on the current, deleted object.
FinalizerHeld ==
  /\ cached.finalizer /\ ~cached.deleting => app.exists /\ app.finalizer
  /\ pc # "idle" /\ snap.finalizer /\ ~snap.deleting => app.exists /\ app.finalizer
  /\ app.finalizer => app.exists
  /\ app.exists /\ app.deleting => app.finalizer
  /\ app.exists /\ ~app.finalizer => ~app.status.tracked

\* No provider is there when one is about to be created.
ProviderUnique ==
  /\ OneProvider
  /\ pc = "createProvider" => providers = {}

\* Whatever a copy or the running reconcile takes for created was created.
CreatedByOperator ==
  /\ app.status.created \subseteq everCreated
  /\ cached.status.created \subseteq everCreated
  /\ pc # "idle" => snap.status.created \subseteq everCreated
  /\ loc.created \subseteq everCreated
  /\ pc = "cleanGroups" => loc.todo \subseteq everCreated

\* What cleanup has got rid of stays away until the finalizer goes.
CleanedUp ==
  pc \in Cleanup /\ snap.status.tracked =>
    /\ pc \in {"deleteProvider", "cleanGroups", "removeFinalizer"} => application = None
    /\ pc \in {"cleanGroups", "removeFinalizer"} =>
         /\ snap.status.provider \notin PKs
         /\ \A g \in CleanupGroups :
              groups[g].owner = "operator" => pc = "cleanGroups" /\ g \in loc.todo

\* The application and its provider are as the copy's spec wants them.
Configured ==
  /\ Linked
  /\ application.cfg = snap.spec.cfg
  /\ \A p \in providers : p.cfg = snap.spec.cfg

AfterSecrets == {"deleteStaleSecrets", "deletePolicies", "syncPolicies", "updateStatus"}
AfterBinding == {"fetchDiscovery", "writeSecrets"} \union AfterSecrets
AfterApplication == {"listBindings", "deleteBindings", "createBindings"} \union AfterBinding

\* What a reconcile has done so far for the spec it works on still stands when
\* it moves on, on whatever copy, as long as nobody interferes: this is what
\* lets the status say Ready at the end.
ServedSoFar ==
  outside = 0 =>
    /\ pc \in {"getProvider", "findProvider", "createProvider", "updateProvider",
              "ensureApplication"} => loc.current = application
    /\ pc = "ensureApplication" =>
         loc.provider \in PKs /\ \A p \in providers : p.cfg = snap.spec.cfg
    /\ pc \in AfterApplication => Configured
    /\ pc = "deleteBindings" => snap.spec.groups \subseteq loc.todo
    /\ pc = "createBindings" /\ loc.allBound =>
         \A g \in snap.spec.groups \ loc.todo : bindings[g] > 0
    /\ pc \in AfterBinding => \A g \in snap.spec.groups : bindings[g] > 0
    /\ pc \in AfterSecrets => Desired \subseteq secrets
    /\ pc = "syncPolicies" => snap.spec.routes \ loc.refs \subseteq policies
    /\ pc = "updateStatus" => snap.spec.routes \subseteq policies

\* Together they are inductive: the parts say how far an old copy of the
\* object can mislead a reconcile, and what each stage has achieved.
IInv ==
  /\ TypeOK
  /\ FreshCopies
  /\ StageFacts
  /\ FinalizerHeld
  /\ ProviderUnique
  /\ CreatedByOperator
  /\ CleanedUp
  /\ CleanupComplete
=============================================================================
