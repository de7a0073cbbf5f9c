--------------------------- MODULE MCOIDCApplication ---------------------------
(***************************************************************************)
(* Instances of OIDCApplicationReconciler for TLC: the specs users submit.  *)
(***************************************************************************)
EXTENDS OIDCApplicationProperties

CONSTANTS g1, g2, r1, r2, c1, c2

SpecOf(gs, create, cleanup, routes, template, cfg) ==
  [groups |-> gs, create |-> create, cleanup |-> cleanup, routes |-> routes,
   template |-> template, cfg |-> cfg]

\* Two groups and two routes.  Edits drop a group, one route or both, withdraw
\* the cleanup, change the configuration, and want or no longer want either
\* Secret.
SafetySpecs == {
  SpecOf({g1, g2}, {g1}, {g1}, {r1, r2}, FALSE, c1),
  SpecOf({g1}, {g1}, {g1}, {r1}, TRUE, c2),
  SpecOf({g1, g2}, {g1, g2}, {}, {}, TRUE, c1)}

\* For liveness: the edit swaps the group, drops the route and changes the
\* configuration, or brings them back.
LiveSpecs == {
  SpecOf({g1}, {g1}, {g1}, {r1}, FALSE, c1),
  SpecOf({g2}, {}, {}, {}, TRUE, c2)}
===============================================================================
