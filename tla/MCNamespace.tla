---------------------------- MODULE MCNamespace ----------------------------
(***************************************************************************)
(* Two applications that share a route and a group; the second route makes  *)
(* the name of the first's SecurityPolicy that of the second's.             *)
(***************************************************************************)
EXTENDS Namespace

MCNamespaceName == <<"n">>
MCApps == {<<"a">>, <<"a", "b">>}

\* <<"a">> with <<"b", "c">> and <<"a", "b">> with <<"c">> make the same name.
MCRoutes == {<<"c">>, <<"b", "c">>}

Wanted(refs, bound, creating, cleaning) ==
  [slug |-> None, groups |-> bound, create |-> creating, cleanup |-> cleaning, routes |-> refs,
   explicit |-> FALSE]

\* The first makes the shared group and cleans it up.
First(refs) == Wanted(refs, {"g"}, {"g"}, {"g"})

MCSpecs ==
  [a \in MCApps |->
     IF a = <<"a">>
     THEN {First(MCRoutes), First({<<"c">>}), Wanted({<<"c">>}, {}, {}, {}),
           [First({<<"c">>}) EXCEPT !.slug = <<"s">>]}
     ELSE {Wanted({<<"c">>}, {"g"}, {}, {}), Wanted({<<"c">>}, {"g", "h"}, {"g", "h"}, {})}]

MCInitial ==
  [a \in MCApps |-> IF a = <<"a">> THEN First(MCRoutes) ELSE Wanted({<<"c">>}, {"g"}, {}, {})]
=============================================================================
