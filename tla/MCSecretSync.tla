---------------------------- MODULE MCSecretSync ----------------------------
(***************************************************************************)
(* Instances of SecretSync for TLC: two names for the application Secret    *)
(* next to the Envoy Secret's, two keys.                                    *)
(***************************************************************************)
EXTENDS SecretSyncProperties, TLC

CONSTANTS a, b, envoy, client, other

SpecOf(c, o, name, routes) ==
  [template |-> (client :> c @@ other :> o), name |-> name, routes |-> routes]

\* Two names; the client secret is in every template.  The Envoy Secret stays in
\* a rename, which can then succeed while Authentik omits the client secret.
RenameSpecs == {
  SpecOf("absent", "secret", a, TRUE),
  SpecOf("plain", "secret", b, TRUE),
  SpecOf("absent", "absent", a, TRUE),
  SpecOf("absent", "absent", a, FALSE)}
==============================================================================
