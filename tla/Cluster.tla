------------------------------- MODULE Cluster -------------------------------
(***************************************************************************)
(* The Kubernetes side of one OIDCApplication: the object in the API        *)
(* server, the operator's informer cache of it, and the SecurityPolicies    *)
(* and Secrets it owns.                                                     *)
(*                                                                          *)
(* The operator reads through the cache and writes to the API server, which *)
(* refuses a write that carries an old resourceVersion.  A version is not   *)
(* counted: cachedFresh says whether the cached copy carries the server's   *)
(* version, fresh whether the copy in the hands of the running reconcile    *)
(* does.  Every effective write to the object clears both.                  *)
(*                                                                          *)
(* Users edit the spec and delete the object at any time; the API server    *)
(* removes a deleted object once it holds no finalizer, and the garbage     *)
(* collector removes what it owned.  An object that is gone keeps its last  *)
(* spec and status here, for properties to speak of.                        *)
(***************************************************************************)
EXTENDS OIDCApplicationTypes

CONSTANT MaxEdits   \* bound: edits of the spec

ASSUME MaxEditsAssumption == MaxEdits \in Nat

VARIABLES
  app,          \* the object in the API server
  cached,       \* the object in the informer cache
  cachedFresh,  \* the cached copy carries the current resourceVersion
  fresh,        \* the running reconcile's copy carries it
  policies,     \* routes with a SecurityPolicy <app>-<route>
  secrets,      \* roles with an owned Secret
  edits         \* spec edits so far

objectVars == <<app, cached, cachedFresh, fresh, edits>>
ownedVars == <<policies, secrets>>
clusterVars == <<app, cached, cachedFresh, fresh, policies, secrets, edits>>

ClusterTypeOK ==
  /\ app \in Object
  /\ cached \in Object
  /\ cachedFresh \in BOOLEAN
  /\ fresh \in BOOLEAN
  /\ policies \subseteq Routes
  /\ secrets \subseteq SecretRoles
  /\ edits \in 0..MaxEdits

\* A spec has just been submitted and the cache has seen it.
ClusterInit ==
  /\ \E spec \in Specs : app = NewObject(spec)
  /\ cached = app
  /\ cachedFresh = TRUE
  /\ fresh = FALSE
  /\ policies = {}
  /\ secrets = {}
  /\ edits = 0

-----------------------------------------------------------------------------
(* Writes to the object. *)

\* A deleted object goes away with its last finalizer.
Settled(obj) ==
  IF obj.deleting /\ ~obj.finalizer THEN [obj EXCEPT !.exists = FALSE] ELSE obj

\* A write that changes nothing keeps the resourceVersion.
Store(obj) ==
  /\ app' = Settled(obj)
  /\ cachedFresh' = (cachedFresh /\ obj = app)

UserWrites(obj) ==
  /\ Store(obj)
  /\ fresh' = (fresh /\ obj = app)
  /\ UNCHANGED <<cached, policies, secrets>>

-----------------------------------------------------------------------------
(* The users, the watch and the garbage collector. *)

\* The webhook keeps the slug; everything else may change, even while the
\* object waits for its finalizer.
EditSpec ==
  /\ app.exists
  /\ edits < MaxEdits
  /\ edits' = edits + 1
  /\ \E spec \in Specs \ {app.spec} : UserWrites([app EXCEPT !.spec = spec])

DeleteApp ==
  /\ app.exists
  /\ ~app.deleting
  /\ UserWrites([app EXCEPT !.deleting = TRUE])
  /\ UNCHANGED edits

\* The watch brings the cache up to date; versions in between may be skipped.
WatchEvent ==
  /\ ~cachedFresh
  /\ cached' = app
  /\ cachedFresh' = TRUE
  /\ UNCHANGED <<app, fresh, policies, secrets, edits>>

CollectGarbage ==
  /\ ~app.exists
  /\ policies # {} \/ secrets # {}
  /\ policies' = {}
  /\ secrets' = {}
  /\ UNCHANGED objectVars
=============================================================================
