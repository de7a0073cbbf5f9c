------------------------ MODULE MCAuthentikProviders ------------------------
(***************************************************************************)
(* Two AuthentikProviders that share a token Secret; the first may move to  *)
(* the other Authentik and to another Secret.                               *)
(***************************************************************************)
EXTENDS AuthentikProviderReconciler

CONSTANTS p1, p2, h1, h2, s1, s2, auth, inval

MCProviders == {p1, p2}
MCHosts == {h1, h2}
MCSecrets == {s1, s2}
MCSlugs == {auth, inval}

At(h, s) == [host |-> h, secret |-> s, auth |-> auth, inval |-> inval]
MCInitial == [p \in {p1} |-> At(h1, s1)]
MCProviderSpecs ==
  [p \in MCProviders |-> IF p = p1 THEN {At(h1, s1), At(h2, s2)} ELSE {At(h2, s1)}]
=============================================================================
