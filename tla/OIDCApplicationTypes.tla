------------------------ MODULE OIDCApplicationTypes ------------------------
(***************************************************************************)
(* The custom resource OIDCApplication, as far as control goes: what a spec *)
(* asks for, what a status records, and the names both are made of.         *)
(* Abstracted: a group is listed once, though the webhook admits more.      *)
(***************************************************************************)
EXTENDS Integers, FiniteSets

CONSTANTS
  Groups,  \* group names
  Routes,  \* HTTPRoutes in the application's namespace
  Cfgs,    \* configurations of a provider and its application
  Specs,   \* the specs users submit
  None     \* the absent application, group or copy

\* groups with their create and cleanup flags, targetRefs, whether there is a
\* secretTemplate, and all that ends up in the provider and the application
\* as one configuration.
AppSpec == [groups : SUBSET Groups, create : SUBSET Groups, cleanup : SUBSET Groups,
            routes : SUBSET Routes, template : BOOLEAN, cfg : Cfgs]

ASSUME SpecsAssumption ==
  /\ Specs \subseteq AppSpec
  /\ \A s \in Specs : s.groups # {} /\ s.create \subseteq s.groups
                                     /\ s.cleanup \subseteq s.groups

\* tracked: status.authentik is set; created, bound, provider: its
\* createdGroups, boundGroups and providerID; policies: securityPolicies.
Status == [ready : BOOLEAN, tracked : BOOLEAN, provider : Nat,
           bound : SUBSET Groups, created : SUBSET Groups, policies : SUBSET Routes]

EmptyStatus == [ready |-> FALSE, tracked |-> FALSE, provider |-> 0,
                bound |-> {}, created |-> {}, policies |-> {}]

Object == [exists : BOOLEAN, finalizer : BOOLEAN, deleting : BOOLEAN,
           spec : AppSpec, status : Status]

NewObject(spec) == [exists |-> TRUE, finalizer |-> FALSE, deleting |-> FALSE,
                    spec |-> spec, status |-> EmptyStatus]

SecretRoles == {"application", "envoy"}

\* targetRefs need the Envoy Secret, a secretTemplate the application Secret.
DesiredSecrets(spec) ==
  {role \in SecretRoles : \/ role = "application" /\ spec.template
                          \/ role = "envoy" /\ spec.routes # {}}
=============================================================================
