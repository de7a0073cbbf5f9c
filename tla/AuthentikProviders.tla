------------------------- MODULE AuthentikProviders -------------------------
(***************************************************************************)
(* AuthentikProvider resources, the Secrets with their API tokens and the   *)
(* flows in Authentik they name, and what administrators do to all three at *)
(* any time.  ProviderStatus says what the operator promises to make of     *)
(* them, AuthentikProviderReconciler how it does so.                        *)
(*                                                                          *)
(* Abstracted: a token is accepted by every host or by none, and a Secret   *)
(* holds one key.                                                           *)
(***************************************************************************)
EXTENDS Integers

CONSTANTS
  Providers,      \* names of AuthentikProviders
  Initial,        \* those that are there at the start, with their specs
  TokenValues,    \* what administrators put into token Secrets
  InitialTokens,  \* and what these may hold at the start
  Hosts,          \* Authentik instances
  Slugs,          \* slugs of flows
  Secrets,        \* Secrets that hold API tokens
  ProviderSpecs,  \* per AuthentikProvider what administrators ask for
  MaxChanges,     \* bound: what administrators and users change
  None

ProviderSpec == [host : Hosts, secret : Secrets, auth : Slugs, inval : Slugs]

ASSUME ProviderSpecsAssumption ==
  ProviderSpecs \in [Providers -> (SUBSET ProviderSpec) \ {{}}]
ASSUME InitialAssumption ==
  /\ DOMAIN Initial \subseteq Providers
  /\ \A p \in DOMAIN Initial : Initial[p] \in ProviderSpecs[p]
ASSUME MaxChangesAssumption == MaxChanges \in Nat

\* A flow that is made anew has another uid.
Uid == [host : Hosts, slug : Slugs, made : Nat]
Tokens == {"absent", "empty", "refused", "valid"}

ASSUME TokensAssumption == InitialTokens \subseteq TokenValues /\ TokenValues \subseteq Tokens
ASSUME NoneAssumption == None \notin Uid

VARIABLES
  provider,  \* the AuthentikProviders in the API server
  token,     \* what the token Secrets hold
  flow,      \* per host and slug whether the flow is there and which it is
  changes    \* what has been changed so far

surroundings == <<provider, token, flow, changes>>

SurroundingsTypeOK ==
  /\ token \in [Secrets -> Tokens]
  /\ flow \in [Hosts -> [Slugs -> [there : BOOLEAN, made : Nat]]]
  /\ changes \in 0..MaxChanges

Object(spec, status) == [exists |-> TRUE, spec |-> spec, status |-> status]

\* New objects that nobody has reconciled yet, or none.
SurroundingsInit(status) ==
  /\ provider = [p \in Providers |->
       IF p \in DOMAIN Initial
       THEN Object(Initial[p], status)
       ELSE [exists |-> FALSE, spec |-> CHOOSE spec \in ProviderSpecs[p] : TRUE,
             status |-> status]]
  /\ token \in [Secrets -> InitialTokens]
  /\ flow = [h \in Hosts |-> [s \in Slugs |-> [there |-> TRUE, made |-> 0]]]
  /\ changes = 0

UidOf(host, slug) == [host |-> host, slug |-> slug, made |-> flow[host][slug].made]
FlowExists(uid) == flow[uid.host][uid.slug] = [there |-> TRUE, made |-> uid.made]

\* GetFlowBySlug: nothing when no flow has the slug.
FlowBySlug(host, slug) == IF flow[host][slug].there THEN UidOf(host, slug) ELSE None

-----------------------------------------------------------------------------
(* The administrators. *)

Change == changes < MaxChanges /\ changes' = changes + 1

EditProvider(p) ==
  /\ Change
  /\ provider[p].exists
  /\ \E spec \in ProviderSpecs[p] \ {provider[p].spec} :
       provider' = [provider EXCEPT ![p].spec = spec]
  /\ UNCHANGED <<token, flow>>

DeleteProvider(p) ==
  /\ Change
  /\ provider[p].exists
  /\ provider' = [provider EXCEPT ![p].exists = FALSE]
  /\ UNCHANGED <<token, flow>>

RecreateProvider(p, status) ==
  /\ Change
  /\ ~provider[p].exists
  /\ \E spec \in ProviderSpecs[p] :
       provider' = [provider EXCEPT ![p] = Object(spec, status)]
  /\ UNCHANGED <<token, flow>>

ChangeToken ==
  /\ Change
  /\ \E s \in Secrets, value \in TokenValues :
       token[s] # value /\ token' = [token EXCEPT ![s] = value]
  /\ UNCHANGED <<provider, flow>>

ChangeFlow ==
  /\ Change
  /\ \E h \in Hosts, s \in Slugs :
       flow' = [flow EXCEPT ![h][s] =
                  IF @.there THEN [@ EXCEPT !.there = FALSE]
                             ELSE [there |-> TRUE, made |-> @.made + 1]]
  /\ UNCHANGED <<provider, token>>

\* status: what a new object starts with.
Administrate(status) ==
  \/ \E p \in Providers : EditProvider(p) \/ DeleteProvider(p) \/ RecreateProvider(p, status)
  \/ ChangeToken
  \/ ChangeFlow

-----------------------------------------------------------------------------
(* What a check that sees everything as it is finds. *)

Verdict(spec) ==
  CASE token[spec.secret] = "absent" -> "SecretNotFound"
    [] token[spec.secret] = "empty" -> "TokenEmpty"
    [] token[spec.secret] = "refused" -> "FlowResolutionFailed"
    [] OTHER -> IF None \in {FlowBySlug(spec.host, spec.auth), FlowBySlug(spec.host, spec.inval)}
                THEN "FlowNotFound" ELSE "APIReachable"

Reachable(p) == provider[p].exists /\ Verdict(provider[p].spec) = "APIReachable"

CurrentUids(p) ==
  LET spec == provider[p].spec
      status == provider[p].status
  IN /\ status.auth = FlowBySlug(spec.host, spec.auth)
     /\ status.inval = FlowBySlug(spec.host, spec.inval)
=============================================================================
