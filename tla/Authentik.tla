------------------------------ MODULE Authentik ------------------------------
(***************************************************************************)
(* The part of an Authentik server that one OIDCApplication is about: the   *)
(* groups its spec may name, and the OAuth2 provider, the application and   *)
(* the policy bindings that carry its slug.  Authentik is external; every   *)
(* operator below is the effect of one request of internal/authentik, as    *)
(* the operator's own code relies on it.                                    *)
(*                                                                          *)
(* Covered: existence and identity of each object, who made the present     *)
(* incarnation of a group, cascades (a deleted group or application takes   *)
(* its bindings along, a deleted provider leaves its application unlinked). *)
(* Not covered: the attributes behind a provider's or an application's      *)
(* configuration (one abstract value each), signing keys, scope mappings,   *)
(* flows, the order and flags of a binding, other slugs.                    *)
(***************************************************************************)
EXTENDS OIDCApplicationTypes

VARIABLES
  groups,       \* per name: who made the present incarnation, and its uuid
  bindings,     \* per group: how many bindings tie it to the application
  providers,    \* the OAuth2 providers named after the slug
  application,  \* the application with the slug, or None
  lastPK        \* the newest primary key a provider was given

authentikVars == <<groups, bindings, providers, application, lastPK>>

Owners == {"absent", "admin", "operator"}

Group == [owner : Owners, uuid : Nat]

Provider == [pk : Nat, cfg : Cfgs]

\* An application links its provider by primary key; 0 is the JSON null of an
\* application whose provider is gone.
Application == [provider : Nat, cfg : Cfgs]

AuthentikTypeOK ==
  /\ groups \in [Groups -> Group]
  /\ bindings \in [Groups -> Nat]
  /\ providers \subseteq Provider
  /\ application \in Application \union {None}
  /\ lastPK \in Nat

Present(g) == groups[g].owner # "absent"

PKs == {p.pk : p \in providers}

Linked == application # None /\ application.provider \in PKs

-----------------------------------------------------------------------------
(* Groups.  A name is unique; each incarnation has a uuid of its own. *)

PutGroup(g, owner) ==
  /\ groups' = [groups EXCEPT ![g] = [owner |-> owner, uuid |-> @.uuid + 1]]
  /\ UNCHANGED <<bindings, providers, application, lastPK>>

DropGroup(g) ==
  /\ groups' = [groups EXCEPT ![g].owner = "absent"]
  /\ bindings' = [bindings EXCEPT ![g] = 0]
  /\ UNCHANGED <<providers, application, lastPK>>

-----------------------------------------------------------------------------
(* Policy bindings between a group and the application. *)

AcceptsBinding(g, uuid) ==
  application # None /\ Present(g) /\ groups[g].uuid = uuid

PutBinding(g) ==
  /\ bindings' = [bindings EXCEPT ![g] = @ + 1]
  /\ UNCHANGED <<groups, providers, application, lastPK>>

\* Deleting a binding that is gone already answers 404 and changes nothing.
DropBinding(g) ==
  /\ bindings' = [bindings EXCEPT ![g] = IF @ = 0 THEN 0 ELSE @ - 1]
  /\ UNCHANGED <<groups, providers, application, lastPK>>

-----------------------------------------------------------------------------
(* Providers. *)

PutProvider(cfg) ==
  /\ lastPK' = lastPK + 1
  /\ providers' = providers \union {[pk |-> lastPK + 1, cfg |-> cfg]}
  /\ UNCHANGED <<groups, bindings, application>>

SetProvider(pk, cfg) ==
  /\ providers' = {p \in providers : p.pk # pk} \union {[pk |-> pk, cfg |-> cfg]}
  /\ UNCHANGED <<groups, bindings, application, lastPK>>

DropProvider(pk) ==
  /\ providers' = {p \in providers : p.pk # pk}
  /\ application' = IF application # None /\ application.provider = pk
                    THEN [application EXCEPT !.provider = 0]
                    ELSE application
  /\ UNCHANGED <<groups, bindings, lastPK>>

-----------------------------------------------------------------------------
(* The application.  Its provider must exist when it is written. *)

SetApplication(pk, cfg) ==
  /\ application' = [provider |-> pk, cfg |-> cfg]
  /\ UNCHANGED <<groups, bindings, providers, lastPK>>

DropApplication ==
  /\ application' = None
  /\ bindings' = [g \in Groups |-> 0]
  /\ UNCHANGED <<groups, providers, lastPK>>
=============================================================================
