---------------------------- MODULE MCAttributes ----------------------------
(***************************************************************************)
(* Instances of Attributes for TLC: requests that set optional attributes   *)
(* or do not, and whose lists repeat, lack and reorder items.               *)
(***************************************************************************)
EXTENDS Attributes

CONSTANTS v, w

RequestOf(required, optional, uris, mappings) ==
  [attributes |-> [a \in ProviderAttributes |->
                     CASE a \in ProviderOptional -> optional
                       [] a \in ProviderUncompared -> v
                       [] a = "signing_key" -> required
                       [] OTHER -> v],
   lists |-> [l \in ProviderLists |->
                CASE l = "redirect_uris" -> uris
                  [] l = "property_mappings" -> mappings
                  [] OTHER -> <<1, 2>>]]

\* URIs given by two routes and by hand may repeat.
MCProviderRequests == {
  RequestOf(v, Unset, <<1, 2, 2>>, <<1>>),
  RequestOf(w, v, <<1>>, <<2, 1>>),
  RequestOf(v, w, <<>>, <<>>)}

MCApplicationRequests ==
  {[a \in ApplicationAttributes |-> IF a \in ApplicationOptional THEN o[1] ELSE o[2]] :
     o \in {<<v, v>>, <<Unset, w>>}}
=============================================================================
