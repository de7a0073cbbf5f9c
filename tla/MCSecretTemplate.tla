--------------------------- MODULE MCSecretTemplate ---------------------------
(***************************************************************************)
(* Instances of SecretTemplate for TLC: all templates of a few shapes.      *)
(***************************************************************************)
EXTENDS SecretTemplate

\* Arguments.
Dot == [n |-> "dot"]
Field(field) == [n |-> "field", field |-> field]
Variable(name) == [n |-> "variable", name |-> name, field |-> ""]
VariableField(name, field) == [n |-> "variable", name |-> name, field |-> field]
Constant(value) == [n |-> "constant", value |-> value]
Chain(base, field) == [n |-> "chain", base |-> base, field |-> field]
Quote == [n |-> "function"]
Empty == Constant(<<>>)

\* Pipelines.
Piped(cmds) == [decl |-> "", assign |-> FALSE, cmds |-> cmds]
Just(arg) == Piped(<<<<arg>>>>)
Paren(pipe) == [n |-> "paren", pipe |-> pipe]
Declared(name, pipe) == [pipe EXCEPT !.decl = name]
Assigned(name, pipe) == [pipe EXCEPT !.decl = name, !.assign = TRUE]

\* Nodes.
Action(pipe) == [t |-> "action", pipe |-> pipe]
Branch(t, pipe, body, else) == [t |-> t, pipe |-> pipe, body |-> body, else |-> else]
Template(name, pipe) == [t |-> "template", name |-> name, pipe |-> pipe]
Break == [t |-> "break"]

Main(nodes) == [main |-> nodes]

-----------------------------------------------------------------------------
\* One branch between the declaration of $x and its use.
Inner ==
  {Action(Just(Dot)), Action(Just(Variable("x"))), Action(Just(VariableField("x", "ClientSecret"))),
   Action(Assigned("x", Just(Variable("$")))), Action(Assigned("x", Just(Empty))),
   Action(Declared("x", Just(Empty))),
   Branch("if", Just(Field("Issuer")), <<Action(Assigned("x", Just(Variable("$"))))>>, <<>>),
   Branch("with", Declared("x", Just(Dot)), <<Action(Assigned("x", Just(Empty)))>>, <<>>)}

Bodies == {<<>>} \union {<<a>> : a \in Inner \union {Break}} \union {<<a, b>> : a, b \in Inner \union {Break}}

Heads ==
  {Branch(t, pipe, <<>>, <<>>) :
     t \in {"if", "with"},
     pipe \in {Just(Dot), Just(Field("Issuer")), Just(Empty), Declared("x", Just(Dot))}}
  \union {Branch("range", pipe, <<>>, <<>>) :
            pipe \in {Just(Constant(Two)), Declared("x", Just(Constant(Two)))}}

Branching ==
  {Main(<<Action(Declared("x", Just(first))),
          [head EXCEPT !.body = body, !.else = else],
          Action(Piped(<<<<Variable("x")>>, <<Quote>>>>))>>) :
     first \in {Dot, Field("Issuer")},
     head \in Heads,
     body \in Bodies,
     else \in {<<>>} \union {<<a>> : a \in Inner}}

\* break is for range only.
BranchTemplates ==
  {t \in Branching : t["main"][2].t # "range" => Break \notin ToSet(t["main"][2].body)}

-----------------------------------------------------------------------------
\* Pipelines of one and two commands, over arguments of every kind.
Plain == {Dot, Field("ClientSecret"), Field("Issuer"), Variable("$"), Variable("x"),
          VariableField("x", "ClientSecret"), VariableField("$", "Issuer"), Empty}

Nested == Plain
  \union {Paren(Just(a)) : a \in Plain}
  \union {Paren(Piped(<<<<Quote, a>>>>)) : a \in Plain}
  \union {Chain(Paren(Just(a)), f) : a \in Plain, f \in {"ClientSecret", "Issuer"}}

Pipelines == {Just(a) : a \in Nested}
  \union {Piped(<<<<Quote, a, b>>>>) : a \in Nested, b \in {Empty, Variable("x")}}
  \union {Piped(<<<<a>>, <<Quote, b>>>>) : a \in Nested, b \in {Empty, Variable("x")}}

PipeTemplates ==
  {Main(<<Action(Declared("x", Just(first))), Action(Declared("y", pipe)),
          Action(Just(Variable(last)))>>) :
     first \in {Dot, Field("Issuer")}, pipe \in Pipelines, last \in {"x", "y"}}
  \union {Main(<<Action(Declared("x", Just(first))), Action(pipe)>>) :
            first \in {Dot, Field("Issuer")}, pipe \in Pipelines}

-----------------------------------------------------------------------------
\* Templates that call each other, one of them itself with another dot.
Uses == {Action(Just(Dot)), Action(Just(Variable("$"))), Action(Just(Field("ClientSecret"))),
         Action(Just(Field("Issuer")))}

Calls == {Just(Dot), Just(Field("Issuer")), Just(Field("ClientSecret")), Just(Empty)}

Definitions ==
  {<<u>> : u \in Uses}
  \union {<<Template("u", c)>> : c \in Calls}
  \union {<<Branch("if", Just(Dot), <<Template("t", Just(Empty)), u>>, <<>>)>> : u \in Uses}
  \union {<<Branch("with", Just(Field("Issuer")), <<u>>, <<>>)>> : u \in Uses}

CallTemplates ==
  {[main |-> <<Action(Declared("x", c)), Template("t", d)>>, t |-> t, u |-> <<u>>] :
     c \in {Just(Dot), Just(Empty)}, d \in Calls \union {Just(Variable("x"))},
     t \in Definitions, u \in Uses}
  \union {Main(<<Branch("with", Just(Field("Issuer")), <<u>>, <<>>), v>>) : u, v \in Uses}

-----------------------------------------------------------------------------
CONSTANTS k1, k2

\* The second entry needs the client secret, or does not.
Secretive == Main(<<Action(Just(Field("ClientSecret")))>>)
Public == Main(<<Action(Just(Field("Issuer")))>>)

AllSpecs ==
  {[k \in Keys |-> IF k = k1 THEN t ELSE u] :
     t \in BranchTemplates \union PipeTemplates \union CallTemplates, u \in {Secretive, Public}}

\* What the templates are changed to; one cannot be rendered.
Broken == Main(<<Action(Just(Chain(Paren(Just(Field("Issuer"))), "ClientSecret")))>>)

LaterSpecs ==
  {[k \in Keys |-> IF k = k1 THEN t[1] ELSE t[2]] :
     t \in {<<Public, Secretive>>, <<Public, Public>>, <<Broken, Public>>}}
===============================================================================
