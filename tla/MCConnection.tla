---------------------------- MODULE MCConnection ----------------------------
(***************************************************************************)
(* Two AuthentikProviders that share a token Secret; the first may move to  *)
(* the Authentik of the second.  One flow serves for both purposes.         *)
(***************************************************************************)
EXTENDS Connection

CONSTANTS p1, p2, h1, h2, s1, consent

MCProviders == {p1, p2}
MCHosts == {h1, h2}
MCSecrets == {s1}
MCSlugs == {consent}

At(h) == [host |-> h, secret |-> s1, auth |-> consent, inval |-> consent]
MCInitial == [p \in {p1} |-> At(h1)]
MCProviderSpecs == [p \in MCProviders |-> IF p = p1 THEN {At(h1), At(h2)} ELSE {At(h2)}]

\* The pk that the first gives out belongs to somebody else at the second.
MCForeign == [h \in MCHosts |-> IF h = h1 THEN 0 ELSE 1]
=============================================================================
