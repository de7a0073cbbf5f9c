----------------------------- MODULE Attributes -----------------------------
(***************************************************************************)
(* How a reconcile brings the attributes of the OAuth2 provider and of the  *)
(* application in Authentik in line with the request built from the spec:   *)
(* it compares (internal/authentik/compare.go) and, if they differ, sends   *)
(* the whole request as a PUT, from whose body encoding/json drops the      *)
(* empty values tagged omitempty (types.go).                                *)
(*                                                                          *)
(* Authentik is external: a PUT replaces what its body names and keeps the  *)
(* rest, lists come back in any order, and what a POST leaves out gets some *)
(* default.                                                                 *)
(* Abstracted: values of attributes and items of lists are atoms; a         *)
(* RedirectURI is one item, with its matching mode and type.                *)
(***************************************************************************)
EXTENDS Integers, Sequences, FiniteSets, Functions

CONSTANTS
  Values,               \* nonempty attribute values
  Unset,                \* the empty value
  Items,                \* items of lists, numbers in their sort order
  ProviderRequests,     \* what specs ask of the provider
  ApplicationRequests,  \* and of the application
  MaxEdits,             \* bound: edits of the spec
  MaxOutside,           \* bound: changes by admins
  None

ASSUME ValuesAssumption == Unset \notin Values /\ Items \subseteq Nat
ASSUME BoundsAssumption == MaxEdits \in Nat /\ MaxOutside \in Nat

\* Attributes every request sets, those that are compared only if it does, and
\* those that are not compared at all.
ProviderRequired == {"name", "authorization_flow", "invalidation_flow", "client_type",
                     "client_id", "signing_key", "include_claims_in_id_token"}
ProviderOptional == {"sub_mode", "access_token_validity", "refresh_token_validity",
                     "access_code_validity"}
ProviderUncompared == {"issuer_mode"}
ProviderAttributes == ProviderRequired \union ProviderOptional \union ProviderUncompared
ProviderLists == {"redirect_uris", "property_mappings", "grant_types"}

ApplicationRequired == {"name", "slug", "provider", "policy_engine_mode", "open_in_new_tab"}
ApplicationOptional == {"meta_launch_url", "meta_description", "meta_publisher", "meta_icon",
                        "group"}
ApplicationAttributes == ApplicationRequired \union ApplicationOptional

Provider == [attributes : [ProviderAttributes -> Values \union {Unset}],
             lists : [ProviderLists -> Seq(Items)]]
Application == [ApplicationAttributes -> Values \union {Unset}]

\* Flows, client type, signing key and names are never empty.
ASSUME RequestsAssumption ==
  /\ ProviderRequests \subseteq Provider
  /\ \A r \in ProviderRequests :
       /\ \A a \in ProviderRequired \union ProviderUncompared : r.attributes[a] # Unset
       /\ r.lists["grant_types"] # <<>>
  /\ ApplicationRequests \subseteq Application
  /\ \A r \in ApplicationRequests : \A a \in ApplicationRequired : r[a] # Unset

VARIABLES
  provider,     \* what Authentik holds, or None
  application,
  request,      \* what the spec asks for
  edits, outside

vars == <<provider, application, request, edits, outside>>

Request == [provider : ProviderRequests, application : ApplicationRequests]

TypeOK ==
  /\ provider \in Provider \union {None}
  /\ application \in Application \union {None}
  /\ request \in Request
  /\ edits \in 0..MaxEdits /\ outside \in 0..MaxOutside

Init ==
  /\ provider = None /\ application = None
  /\ request \in Request
  /\ edits = 0 /\ outside = 0

-----------------------------------------------------------------------------
(* Comparison. *)

Count(list, x) == Cardinality({i \in DOMAIN list : list[i] = x})

ItemsOf(list) == {list[i] : i \in DOMAIN list}

\* The lists with the same items, each as often.
Orders(list) ==
  {[i \in DOMAIN list |-> list[p[i]]] : p \in Bijection(DOMAIN list, DOMAIN list)}

\* Mutant: how often a URI occurs is not asked.
SameURIs(a, b) == Len(a) = Len(b) /\ ItemsOf(b) \subseteq ItemsOf(a)

\* As long as, and no item more often than in a.
redirectURIsEqual(a, b) ==
  /\ Len(a) = Len(b)
  /\ \A x \in ItemsOf(b) : Count(b, x) <= Count(a, x)

IsSorted(list) == \A i, j \in DOMAIN list : i < j => list[i] <= list[j]

\* slices.Sort
Sorted(list) == CHOOSE sorted \in Orders(list) : IsSorted(sorted)

StringSetEqual(a, b) == Len(a) = Len(b) /\ Sorted(a) = Sorted(b)

\* Mutant: unset attributes are compared too.
AnyDiffers(current, desired, a) == current[a] # desired[a]

OptionalDiffers(current, desired, a) == desired[a] # Unset /\ current[a] # desired[a]

ProviderNeedsUpdate(current, desired) ==
  \/ \E a \in ProviderRequired : current.attributes[a] # desired.attributes[a]
  \/ ~redirectURIsEqual(current.lists["redirect_uris"], desired.lists["redirect_uris"])
  \/ \E l \in {"property_mappings", "grant_types"} :
       ~StringSetEqual(current.lists[l], desired.lists[l])
  \/ \E a \in ProviderOptional : OptionalDiffers(current.attributes, desired.attributes, a)

ApplicationNeedsUpdate(current, desired) ==
  \/ \E a \in ApplicationRequired : current[a] # desired[a]
  \/ \E a \in ApplicationOptional : OptionalDiffers(current, desired, a)

-----------------------------------------------------------------------------
(* Authentik's side. *)

\* Mutant: what is not sent is taken away.
SentOnly(current, sent) == [a \in {b \in DOMAIN sent : sent[b] # Unset} |-> sent[a]]

\* What a request does not name (omitempty) stays as it is.
Put(current, sent) == [a \in DOMAIN sent |-> IF sent[a] = Unset THEN current[a] ELSE sent[a]]

PutList(current, sent) == IF sent = <<>> THEN {current} ELSE Orders(sent)

PutLists(current, sent) ==
  {[l \in ProviderLists |-> CASE l = "redirect_uris" -> uris
                              [] l = "property_mappings" -> mappings
                              [] OTHER -> grants] :
     uris \in PutList(current["redirect_uris"], sent["redirect_uris"]),
     mappings \in PutList(current["property_mappings"], sent["property_mappings"]),
     grants \in PutList(current["grant_types"], sent["grant_types"])}

-----------------------------------------------------------------------------
(* Reconcile's upsert of both. *)

\* A default for what was not sent: one value, or none.
Defaulted(sent) == {Put([a \in DOMAIN sent |-> v], sent) : v \in Values \union {Unset}}

CreateProvider ==
  /\ provider = None
  /\ \E attributes \in Defaulted(request.provider.attributes),
        lists \in PutLists(request.provider.lists, request.provider.lists) :
       provider' = [attributes |-> attributes, lists |-> lists]
  /\ UNCHANGED <<application, request, edits, outside>>

UpdateProvider ==
  /\ provider # None
  /\ ProviderNeedsUpdate(provider, request.provider)
  /\ \E lists \in PutLists(provider.lists, request.provider.lists) :
       provider' = [attributes |-> Put(provider.attributes, request.provider.attributes),
                    lists |-> lists]
  /\ UNCHANGED <<application, request, edits, outside>>

CreateApplication ==
  /\ provider # None /\ application = None
  /\ application' \in Defaulted(request.application)
  /\ UNCHANGED <<provider, request, edits, outside>>

UpdateApplication ==
  /\ application # None
  /\ ApplicationNeedsUpdate(application, request.application)
  /\ application' = Put(application, request.application)
  /\ UNCHANGED <<provider, request, edits, outside>>

-----------------------------------------------------------------------------
(* Users and admins. *)

EditSpec ==
  /\ edits < MaxEdits
  /\ edits' = edits + 1
  /\ request' \in Request
  /\ UNCHANGED <<provider, application, outside>>

\* Under another slug the application would be another one.
AdminEdits ==
  /\ outside < MaxOutside
  /\ outside' = outside + 1
  /\ \/ /\ provider # None
        /\ \/ \E a \in ProviderAttributes, v \in Values : provider' = [provider EXCEPT !.attributes[a] = v]
           \/ \E l \in ProviderLists, i, x \in Items :
                /\ i \in DOMAIN provider.lists[l]
                /\ provider' = [provider EXCEPT !.lists[l][i] = x]
           \/ \E l \in ProviderLists, x \in Items :
                provider' = [provider EXCEPT !.lists[l] = Append(@, x)]
        /\ UNCHANGED application
     \/ /\ application # None
        /\ \E a \in ApplicationAttributes \ {"slug"}, v \in Values : application' = [application EXCEPT ![a] = v]
        /\ UNCHANGED provider
  /\ UNCHANGED <<request, edits>>

Reconcile == CreateProvider \/ UpdateProvider \/ CreateApplication \/ UpdateApplication

Next == Reconcile \/ EditSpec \/ AdminEdits

Spec == Init /\ [][Next]_vars

-----------------------------------------------------------------------------
(* Properties. *)

\* One update is enough: what Authentik holds after it differs no more, so
\* that periodic reconciles send nothing (unless Authentik keeps a list the spec
\* has emptied, see EmptiedListsSettle).
UpdatesSettle ==
  [][ /\ CreateProvider \/ UpdateProvider
        => \/ \E l \in ProviderLists : request.provider.lists[l] = <<>> /\ provider'.lists[l] # <<>>
           \/ ~ProviderNeedsUpdate(provider', request.provider)
      /\ CreateApplication \/ UpdateApplication
        => ~ApplicationNeedsUpdate(application', request.application) ]_vars

Reordered(a, b) == b \in Orders(a)

\* No drift goes unseen: when nothing is left to update every attribute the
\* request sets and every item of its lists is what Authentik holds, as often
\* as it was asked for (issuer_mode aside, which is sent and never compared).
DriftSeen ==
  /\ provider # None /\ ~ProviderNeedsUpdate(provider, request.provider) =>
       /\ \A a \in ProviderAttributes \ ProviderUncompared :
            request.provider.attributes[a] \in {Unset, provider.attributes[a]}
       /\ \A l \in ProviderLists : Reordered(provider.lists[l], request.provider.lists[l])
  /\ application # None /\ ~ApplicationNeedsUpdate(application, request.application) =>
       \A a \in ApplicationAttributes : request.application[a] \in {Unset, application[a]}

\* "an unset (empty) desired value is dropped from the PUT body and can never
\* overwrite whatever Authentik holds": comparing it would never end, so an
\* update is always enough.
EmptiedListsSettle ==
  [][ UpdateProvider => ~ProviderNeedsUpdate(provider', request.provider) ]_vars
=============================================================================
