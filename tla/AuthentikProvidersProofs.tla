---------------------- MODULE AuthentikProvidersProofs -----------------------
(***************************************************************************)
(* What administrators do to AuthentikProviders, token Secrets and flows,   *)
(* for every kind of status the AuthentikProviders may carry.               *)
(***************************************************************************)
EXTENDS AuthentikProviders, TLAPS

Objects(statuses) == [exists : BOOLEAN, spec : ProviderSpec, status : statuses]

\* At the start everything is of its type.
LEMMA SurroundingsInitTypes ==
  ASSUME NEW statuses, NEW status \in statuses, SurroundingsInit(status)
  PROVE  SurroundingsTypeOK /\ provider \in [Providers -> Objects(statuses)]
  <1>1. \A p \in Providers : (CHOOSE spec \in ProviderSpecs[p] : TRUE) \in ProviderSpec
    <2> SUFFICES ASSUME NEW p \in Providers
                 PROVE  (CHOOSE spec \in ProviderSpecs[p] : TRUE) \in ProviderSpec
      OBVIOUS
    <2>1. \E spec \in ProviderSpecs[p] : TRUE
      <3>1. ProviderSpecs[p] # {}
        BY ProviderSpecsAssumption
      <3> QED BY <3>1
    <2>2. (CHOOSE spec \in ProviderSpecs[p] : TRUE) \in ProviderSpecs[p]
      BY <2>1, Zenon
    <2> QED BY <2>2, ProviderSpecsAssumption
  <1>2. \A p \in DOMAIN Initial : Initial[p] \in ProviderSpec
    BY ProviderSpecsAssumption, InitialAssumption
  <1>3. provider \in [Providers -> Objects(statuses)]
    BY <1>1, <1>2 DEF SurroundingsInit, Objects, Object
  <1>4. SurroundingsTypeOK
    BY TokensAssumption, MaxChangesAssumption DEF SurroundingsInit, SurroundingsTypeOK
  <1> QED BY <1>3, <1>4

\* Administrators keep everything of its type, and a flow never becomes one
\* that was there before.
LEMMA AdministrateEffect ==
  ASSUME NEW statuses, NEW status \in statuses,
         SurroundingsTypeOK, provider \in [Providers -> Objects(statuses)],
         Administrate(status)
  PROVE  /\ SurroundingsTypeOK' /\ provider' \in [Providers -> Objects(statuses)]
         /\ \A h \in Hosts, s \in Slugs : flow[h][s].made <= flow'[h][s].made
  <1> DEFINE Kept == /\ SurroundingsTypeOK' /\ provider' \in [Providers -> Objects(statuses)]
                     /\ \A h \in Hosts, s \in Slugs : flow[h][s].made <= flow'[h][s].made
  <1> SUFFICES Kept
    OBVIOUS
  <1>1. Change => changes' \in 0..MaxChanges
    BY MaxChangesAssumption DEF Change, SurroundingsTypeOK
  <1>2. \A p \in Providers : ProviderSpecs[p] \subseteq ProviderSpec
    BY ProviderSpecsAssumption
  <1>f. \A h \in Hosts, s \in Slugs : flow[h][s].made \in Nat
    BY DEF SurroundingsTypeOK
  <1>3. ASSUME NEW p \in Providers, EditProvider(p) PROVE Kept
    <2>1. PICK spec \in ProviderSpec : provider' = [provider EXCEPT ![p].spec = spec]
      BY <1>2, <1>3 DEF EditProvider
    <2>2. provider' \in [Providers -> Objects(statuses)]
      BY <2>1 DEF Objects
    <2> QED BY <1>1, <1>3, <1>f, <2>2 DEF EditProvider, SurroundingsTypeOK
  <1>4. ASSUME NEW p \in Providers, DeleteProvider(p) PROVE Kept
    <2>1. provider' \in [Providers -> Objects(statuses)]
      BY <1>4 DEF DeleteProvider, Objects
    <2> QED BY <1>1, <1>4, <1>f, <2>1 DEF DeleteProvider, SurroundingsTypeOK
  <1>5. ASSUME NEW p \in Providers, RecreateProvider(p, status) PROVE Kept
    <2>1. PICK spec \in ProviderSpec : provider' = [provider EXCEPT ![p] = Object(spec, status)]
      BY <1>2, <1>5 DEF RecreateProvider
    <2>2. provider' \in [Providers -> Objects(statuses)]
      BY <2>1 DEF Objects, Object
    <2> QED BY <1>1, <1>5, <1>f, <2>2 DEF RecreateProvider, SurroundingsTypeOK
  <1>6. CASE ChangeToken
    BY <1>1, <1>6, <1>f, TokensAssumption DEF ChangeToken, SurroundingsTypeOK
  <1>7. CASE ChangeFlow
    <2> DEFINE Flow == [there : BOOLEAN, made : Nat]
    <2>1. PICK h \in Hosts, s \in Slugs :
            flow' = [flow EXCEPT ![h][s] = IF @.there THEN [@ EXCEPT !.there = FALSE]
                                           ELSE [there |-> TRUE, made |-> @.made + 1]]
      BY <1>7 DEF ChangeFlow
    <2>2. PICK new \in Flow : /\ flow' = [flow EXCEPT ![h][s] = new]
                             /\ flow[h][s].made <= new.made
      <3> DEFINE old == flow[h][s]
      <3>1. old \in Flow
        BY DEF SurroundingsTypeOK
      <3>2. CASE old.there
        <4>1. [old EXCEPT !.there = FALSE] \in Flow
          BY <3>1
        <4>2. flow' = [flow EXCEPT ![h][s] = [old EXCEPT !.there = FALSE]]
          BY <2>1, <3>2
        <4>3. old.made <= [old EXCEPT !.there = FALSE].made
          BY <3>1
        <4> QED BY <4>1, <4>2, <4>3
      <3>3. CASE ~old.there
        <4>1. [there |-> TRUE, made |-> old.made + 1] \in Flow
          BY <3>1
        <4>2. flow' = [flow EXCEPT ![h][s] = [there |-> TRUE, made |-> old.made + 1]]
          BY <2>1, <3>3
        <4>3. old.made <= old.made + 1
          BY <3>1
        <4> QED BY <4>1, <4>2, <4>3
      <3> QED BY <3>2, <3>3
    <2>3. flow \in [Hosts -> [Slugs -> Flow]]
      BY DEF SurroundingsTypeOK
    <2>4. flow' \in [Hosts -> [Slugs -> Flow]]
      BY <2>2, <2>3
    <2>5. \A k \in Hosts, t \in Slugs : flow[k][t].made <= flow'[k][t].made
      BY <1>f, <2>2, <2>3
    <2> QED BY <1>1, <1>7, <2>4, <2>5 DEF ChangeFlow, SurroundingsTypeOK
  <1> QED BY <1>3, <1>4, <1>5, <1>6, <1>7 DEF Administrate
=============================================================================
