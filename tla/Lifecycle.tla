------------------------------ MODULE Lifecycle ------------------------------
(***************************************************************************)
(* The life of an OIDCApplication as its users and the admins of Authentik  *)
(* may rely on it: an object is guarded by the finalizer before anything is *)
(* made for it, what its status records is not forgotten, and it goes only  *)
(* when nothing of that is left.                                            *)
(*                                                                          *)
(* A thing in Authentik has a kind, "application", "provider" or "group",   *)
(* and an identity.  Calls, copies, retries and crashes have no place here: *)
(* OIDCApplicationReconciler is shown to do nothing that this does not do.  *)
(***************************************************************************)

VARIABLES
  phase,     \* "new", "guarded" by the finalizer, "deleting", "gone"
  assets,    \* things the operator has made in Authentik, or adopted
  recorded,  \* things the status accounts for
  wanted     \* groups that the spec has cleaned up

vars == <<phase, assets, recorded, wanted>>

Init == phase = "new" /\ recorded = {}

\* What has to be gone before the object goes.
Obliged == {t \in recorded : t.kind = "group" => t \in wanted}

Guard ==
  /\ phase = "new" /\ phase' = "guarded"
  /\ UNCHANGED <<assets, recorded, wanted>>

\* A reconcile that works on an old copy may still make things for an object
\* that is being deleted, as long as the finalizer is there.
Make ==
  /\ phase \in {"guarded", "deleting"}
  /\ assets \subseteq assets'
  /\ UNCHANGED <<phase, recorded, wanted>>

\* Others delete things too.
Lose ==
  /\ assets' \subseteq assets
  /\ UNCHANGED <<phase, recorded, wanted>>

\* Another provider may take the place of the one recorded; nothing else is
\* ever dropped.
Record ==
  /\ phase = "guarded"
  /\ {t \in recorded : t.kind # "provider"} \subseteq recorded'
  /\ UNCHANGED <<phase, assets, wanted>>

\* Users.
Edit ==
  /\ phase # "gone"
  /\ wanted' # wanted
  /\ UNCHANGED <<phase, assets, recorded>>

Delete ==
  /\ \/ phase = "new" /\ phase' = "gone"
     \/ phase = "guarded" /\ phase' = "deleting"
  /\ UNCHANGED <<assets, recorded, wanted>>

Release ==
  /\ phase = "deleting" /\ phase' = "gone"
  /\ Obliged \intersect assets = {}
  /\ UNCHANGED <<assets, recorded, wanted>>

Next == Guard \/ Make \/ Lose \/ Record \/ Edit \/ Delete \/ Release

Spec == Init /\ [][Next]_vars
=============================================================================
