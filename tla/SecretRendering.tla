--------------------------- MODULE SecretRendering ---------------------------
(***************************************************************************)
(* renderSecretTemplate: the entries of an application Secret, made anew    *)
(* from the templates of the spec in every reconcile, with the client       *)
(* secret or without it when Authentik omits it.                            *)
(*                                                                          *)
(* What a template makes, and what the static analysis says of it, are      *)
(* constants here; SecretTemplate defines both.  The issuer stands for all  *)
(* public fields.                                                           *)
(***************************************************************************)
EXTENDS Integers

CONSTANTS
  Keys,      \* the entries of the Secret
  Specs,     \* spec.secretTemplate at first: functions from keys to templates
  Edits,     \* what users may change it to
  None,      \* an entry that is not there
  MaxEdits,  \* bound: changes of the spec and of the issuer
  UsesClientSecret(_),  \* what the analysis says of a template
  Rendered(_, _, _)     \* what a template makes of a client secret and an issuer, or Failed

VARIABLES
  spec,    \* spec.secretTemplate
  issuer,  \* the version of the public fields
  entry,   \* the Secret's data
  source,  \* history: what each entry was last rendered from
  edits

vars == <<spec, issuer, entry, source, edits>>

Failed == <<"error">>
Known == <<"secret">>
Omitted == <<>>

\* Mutant: whatever Authentik omits is rendered as empty.
NeverRetained(templates, secret) == FALSE

Retained(templates, secret) == secret = Omitted /\ UsesClientSecret(templates)

\* Mutant: an entry that cannot be made keeps what it had.
ValueOrOld(key, secret) ==
  LET made == Rendered(spec[key], secret, issuer) IN
  IF Retained(spec[key], secret) \/ made = Failed THEN entry[key] ELSE made

Value(key, secret) ==
  IF Retained(spec[key], secret) THEN entry[key] ELSE Rendered(spec[key], secret, issuer)

\* One entry that cannot be made fails them all.
Renderable(values) == \A k \in Keys : values[k] \notin {None, Failed}

Render(secret) ==
  LET values == [k \in Keys |-> Value(k, secret)] IN
  /\ Renderable(values)
  /\ entry' = values
  /\ source' = [k \in Keys |-> IF Retained(spec[k], secret) THEN source[k]
                               ELSE [templates |-> spec[k], version |-> issuer]]
  /\ UNCHANGED <<spec, issuer, edits>>

\* Authentik tells the client secret or omits it.
RenderSecretTemplate == \E secret \in {Known, Omitted} : Render(secret)

\* Users edit the templates; the discovery document changes.
Edit ==
  /\ edits < MaxEdits
  /\ edits' = edits + 1
  /\ \/ spec' \in Edits /\ UNCHANGED issuer
     \/ issuer' = issuer + 1 /\ UNCHANGED spec
  /\ UNCHANGED <<entry, source>>

Init ==
  /\ spec \in Specs
  /\ issuer = 1
  /\ entry = [k \in Keys |-> None]
  /\ source = [k \in Keys |-> None]
  /\ edits = 0

Next == RenderSecretTemplate \/ Edit

Spec == Init /\ [][Next]_vars

-----------------------------------------------------------------------------
(* Properties. *)

Anew(k, secret) ==
  entry'[k] = Rendered(spec[k], secret, issuer) /\ entry'[k] \notin {None, Failed}

CarriedOver(k) == UsesClientSecret(spec[k]) /\ entry'[k] = entry[k] /\ entry[k] # None

\* "Rendering is atomic": a key that cannot be rendered leaves all the entries as
\* they were.  No pass mixes old entries with new ones: all are made anew from
\* what Authentik and the spec say now, but for those that need a client secret
\* Authentik omits (renderSecretTemplate, secret_template.go:44-66).
RenderingIsAtomic ==
  [][ \/ UNCHANGED entry
      \/ \E secret \in {Known, Omitted} : \A k \in Keys :
           Anew(k, secret) \/ (secret = Omitted /\ CarriedOver(k)) ]_vars

\* The entry is what its template makes with the client secret.
MadeWithSecret(key) == entry[key] = Rendered(source[key].templates, Known, source[key].version)

\* Through edits of the templates, and however long Authentik omits the client
\* secret, an entry is what its template made with the secret, unless the
\* analysis says that this template does not need it: an entry that was ever
\* made without it can only be wrong where the analysis is.
OmissionIsJudged ==
  \A k \in Keys : entry[k] # None =>
    \/ MadeWithSecret(k)
    \/ /\ ~UsesClientSecret(source[k].templates)
       /\ entry[k] = Rendered(source[k].templates, Omitted, source[k].version)
=============================================================================
