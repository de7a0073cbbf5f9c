------------------------ MODULE SecretRenderingProofs -------------------------
(***************************************************************************)
(* Theorems about renderSecretTemplate, for every set of keys, whatever     *)
(* templates users write, whatever the analysis says of them and whatever   *)
(* they make: the analysis and the evaluator are constants here.            *)
(***************************************************************************)
EXTENDS SecretRendering, TLAPS

\* What one pass makes of an entry is neither missing nor an error, and comes from
\* the entry before, which was there, or from the template of this pass.
LEMMA Rendering ==
  ASSUME NEW secret \in {Known, Omitted}, Render(secret), NEW k \in Keys
  PROVE  /\ entry'[k] \notin {None, Failed}
         /\ \/ /\ Retained(spec[k], secret)
               /\ entry'[k] = entry[k]
               /\ source'[k] = source[k]
            \/ /\ ~Retained(spec[k], secret)
               /\ entry'[k] = Rendered(spec[k], secret, issuer)
               /\ source'[k] = [templates |-> spec[k], version |-> issuer]
  <1> DEFINE values == [l \in Keys |-> Value(l, secret)]
  <1>1. entry' = values /\ Renderable(values)
    BY DEF Render
  <1>2. entry'[k] = Value(k, secret) /\ entry'[k] \notin {None, Failed}
    BY <1>1 DEF Renderable
  <1>3. source'[k] = IF Retained(spec[k], secret) THEN source[k]
                     ELSE [templates |-> spec[k], version |-> issuer]
    BY DEF Render
  <1> QED BY <1>2, <1>3 DEF Value

\* A step renders, or leaves the Secret alone.
LEMMA RenderingSteps ==
  ASSUME [Next]_vars
  PROVE  \/ \E secret \in {Known, Omitted} : Render(secret)
         \/ UNCHANGED <<entry, source>>
  BY DEF Next, RenderSecretTemplate, Edit, vars

\* No pass mixes old entries with new ones, whatever fails: each entry is what the
\* spec's template makes of what Authentik says now, or one that needs a client
\* secret Authentik omits; a pass that cannot make all of them leaves the Secret
\* as it was (renderSecretTemplate returns no data with an error).
THEOREM AllOrNothing == Spec => RenderingIsAtomic
  <1> DEFINE Made(k, secret) == Anew(k, secret) \/ (secret = Omitted /\ CarriedOver(k))
             Pass == \/ UNCHANGED entry
                     \/ \E secret \in {Known, Omitted} : \A k \in Keys : Made(k, secret)
  <1>1. [Next]_vars => [Pass]_vars
    <2>1. ASSUME NEW secret \in {Known, Omitted}, Render(secret), NEW k \in Keys
          PROVE  Made(k, secret)
      BY <2>1, Rendering DEF Anew, CarriedOver, Retained
    <2> HIDE DEF Made
    <2> QED BY <2>1, RenderingSteps
  <1>2. RenderingIsAtomic <=> [][Pass]_vars
    BY DEF RenderingIsAtomic
  <1> HIDE DEF Pass
  <1> QED BY <1>1, <1>2, PTL DEF Spec

LEMMA JudgedStep ==
  ASSUME OmissionIsJudged, [Next]_vars
  PROVE  OmissionIsJudged'
  <1>1. CASE UNCHANGED <<entry, source>>
    BY <1>1 DEF OmissionIsJudged, MadeWithSecret
  <1>2. ASSUME NEW secret \in {Known, Omitted}, Render(secret)
        PROVE  OmissionIsJudged'
    <2> SUFFICES ASSUME NEW k \in Keys
                 PROVE  \/ entry'[k] = Rendered(source'[k].templates, Known, source'[k].version)
                        \/ /\ ~UsesClientSecret(source'[k].templates)
                           /\ entry'[k] = Rendered(source'[k].templates, Omitted,
                                                   source'[k].version)
      BY DEF OmissionIsJudged, MadeWithSecret
    <2> DEFINE kept == Retained(spec[k], secret)
    <2>0. /\ entry'[k] # None
          /\ \/ kept /\ entry'[k] = entry[k] /\ source'[k] = source[k]
             \/ /\ ~kept
                /\ entry'[k] = Rendered(spec[k], secret, issuer)
                /\ source'[k] = [templates |-> spec[k], version |-> issuer]
      BY <1>2, Rendering
    <2>1. CASE kept
      <3>1. entry'[k] = entry[k] /\ source'[k] = source[k] /\ entry[k] # None
        BY <2>0, <2>1
      <3>2. \/ entry[k] = Rendered(source[k].templates, Known, source[k].version)
            \/ /\ ~UsesClientSecret(source[k].templates)
               /\ entry[k] = Rendered(source[k].templates, Omitted, source[k].version)
        BY <3>1 DEF OmissionIsJudged, MadeWithSecret
      <3> QED BY <3>1, <3>2
    <2>2. CASE ~kept
      <3>1. source'[k].templates = spec[k] /\ source'[k].version = issuer
        BY <2>0, <2>2
      <3>2. secret = Omitted => ~UsesClientSecret(spec[k])
        BY <2>2 DEF Retained
      <3> QED BY <1>2, <2>0, <2>2, <3>1, <3>2
    <2> QED BY <2>1, <2>2
  <1> QED BY <1>1, <1>2, RenderingSteps

\* An entry is what its template made with the client secret, however often
\* Authentik omitted it since, unless the analysis says that this template does
\* not need it (templateUsesClientSecret).
THEOREM OmissionsAreJudged == Spec => []OmissionIsJudged
  <1>1. Init => OmissionIsJudged
    BY DEF Init, OmissionIsJudged
  <1>2. OmissionIsJudged /\ [Next]_vars => OmissionIsJudged'
    BY JudgedStep
  <1> QED BY <1>1, <1>2, PTL DEF Spec

\* The analysis is right about a template: if it says that the template does
\* not need the client secret, leaving it out makes no difference.
AnalysisIsRight(templates) ==
  ~UsesClientSecret(templates) =>
    \A version : Rendered(templates, Omitted, version) = Rendered(templates, Known, version)

\* Retention is as good as the analysis: however templates are edited, an entry
\* of a template the analysis is right about is never one that lacks the client
\* secret.  (For the templates of SecretTemplate, TameEntriesRetained says of
\* which that is true.)
THEOREM RetentionIsAsGoodAsTheAnalysis ==
  Spec => [](\A k \in Keys : entry[k] # None /\ AnalysisIsRight(source[k].templates)
                               => MadeWithSecret(k))
  <1>1. OmissionIsJudged =>
          \A k \in Keys : entry[k] # None /\ AnalysisIsRight(source[k].templates)
                            => MadeWithSecret(k)
    BY DEF OmissionIsJudged, MadeWithSecret, AnalysisIsRight
  <1> QED BY <1>1, OmissionsAreJudged, PTL
=============================================================================
