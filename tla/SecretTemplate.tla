---------------------------- MODULE SecretTemplate ----------------------------
(***************************************************************************)
(* The Go templates an application Secret is rendered from, and the static  *)
(* analysis that decides which of them need .ClientSecret, so that their    *)
(* entries must be kept when Authentik omits it.                            *)
(*                                                                          *)
(* A template is a function from names ("main" and what it defines) to      *)
(* lists of nodes, the tree text/template/parse yields.  Analyze... is the  *)
(* code's analyzer, Eval... and Exec... are text/template as far as those   *)
(* nodes go: an evaluator that the analyzer can be compared with.           *)
(*                                                                          *)
(* A string is the sequence of its pieces: the secret, the issuer (standing *)
(* for all public fields), constants, and an "f" for each function applied. *)
(* Abstracted: literal text, the identity and arity of functions, templates *)
(* that do not parse, declarations inside parentheses, a range's key.       *)
(***************************************************************************)
EXTENDS SecretRendering, SequencesExt

CONSTANT MaxDepth  \* bound: nesting of template calls when rendering

Branches == {"if", "with", "range"}

-----------------------------------------------------------------------------
(* The analyzer.  A scope says whether dot may hold the root context, and   *)
(* for each variable whether it may.                                        *)

VariableMayContainRoot(v, scope) == v \in DOMAIN scope.vars /\ scope.vars[v]

RECURSIVE AnalyzePipe(_, _), MayContainRoot(_, _)

MayContainRoot(arg, scope) ==
  CASE arg.n = "dot" -> scope.dot
    [] arg.n = "variable" -> arg.field = "" /\ VariableMayContainRoot(arg.name, scope)
    [] arg.n = "paren" -> AnalyzePipe(arg.pipe, scope).root
    [] OTHER -> FALSE

ArgumentUsesClientSecret(arg, scope) ==
  CASE arg.n = "field" -> scope.dot /\ arg.field = "ClientSecret"
    [] arg.n = "dot" -> scope.dot
    [] arg.n = "variable" -> /\ VariableMayContainRoot(arg.name, scope)
                             /\ arg.field \in {"", "ClientSecret"}
    [] arg.n = "chain" -> arg.field = "ClientSecret" /\ MayContainRoot(arg.base, scope)
    [] arg.n = "paren" -> AnalyzePipe(arg.pipe, scope).depends
    [] OTHER -> FALSE

\* A lone argument passes its value on; a function that is given the root,
\* as an argument or through the pipe, may do anything with it.
AnalyzeCommand(args, scope, pipedRoot, hasPipe) ==
  LET roots == [i \in DOMAIN args |-> MayContainRoot(args[i], scope)]
      alone == Len(args) = 1 /\ ~hasPipe
      depends == \/ \E i \in DOMAIN args : ArgumentUsesClientSecret(args[i], scope) /\ ~roots[i]
                 \/ ~alone /\ (pipedRoot \/ \E i \in 2..Len(args) : roots[i])
  IN [depends |-> depends, root |-> ~depends /\ alone /\ roots[1]]

AnalyzePipe(pipe, scope) ==
  LET upTo[i \in 0..Len(pipe.cmds)] ==
        IF i = 0 THEN [depends |-> FALSE, root |-> FALSE]
        ELSE IF upTo[i - 1].depends THEN upTo[i - 1]
        ELSE AnalyzeCommand(pipe.cmds[i], scope, upTo[i - 1].root, i > 1)
      all == upTo[Len(pipe.cmds)]
  IN [depends |-> all.depends,
      root |-> all.root,
      scope |-> IF pipe.decl = "" \/ all.depends THEN scope
                ELSE [scope EXCEPT !.vars = (pipe.decl :> all.root) @@ @]]

\* Mutant: the body of with sees the dot around it.
BodyScopeUnbound(node, piped) == piped.scope

BodyScope(node, piped) ==
  IF node.t = "if" THEN piped.scope ELSE [piped.scope EXCEPT !.dot = piped.root]

\* Mutant: what the branches assign is forgotten after them.
KeepVariables(node, scope, body, else) == scope

\* A variable of the surrounding scope may hold the root after a branch if it
\* may after its body or after its else; one the branch's pipe declares is
\* another variable.
MergeBranchVariables(node, scope, body, else) ==
  LET own == IF node.pipe.assign THEN {} ELSE {node.pipe.decl} IN
  [scope EXCEPT !.vars = [v \in DOMAIN @ |->
     IF v \in own THEN @[v] ELSE body.vars[v] \/ else.vars[v]]]

RECURSIVE AnalyzeList(_, _, _, _)

\* A template that is being analyzed for the same dot adds nothing.
AnalyzeTemplate(templates, name, dot, visiting) ==
  /\ name \in DOMAIN templates
  /\ <<name, dot>> \notin visiting
  /\ AnalyzeList(templates, templates[name], [dot |-> dot, vars |-> ("$" :> dot)],
                 visiting \union {<<name, dot>>}).depends

AnalyzeBranch(templates, node, scope, visiting) ==
  LET piped == AnalyzePipe(node.pipe, scope)
      body == AnalyzeList(templates, node.body, BodyScope(node, piped), visiting)
      else == AnalyzeList(templates, node.else, piped.scope, visiting)
  IN IF piped.depends \/ body.depends \/ else.depends
     THEN [depends |-> TRUE, scope |-> scope]
     ELSE [depends |-> FALSE,
           scope |-> MergeBranchVariables(node, scope, body.scope, else.scope)]

AnalyzeNode(templates, node, scope, visiting) ==
  IF node.t \in Branches THEN AnalyzeBranch(templates, node, scope, visiting)
  ELSE IF node.t = "break" THEN [depends |-> FALSE, scope |-> scope]
  ELSE LET piped == AnalyzePipe(node.pipe, scope)
           used == IF node.t = "action" THEN node.pipe.decl = "" /\ piped.root
                   ELSE AnalyzeTemplate(templates, node.name, piped.root, visiting)
       IN [depends |-> piped.depends \/ used, scope |-> piped.scope]

AnalyzeList(templates, nodes, scope, visiting) ==
  IF nodes = <<>> THEN [depends |-> FALSE, scope |-> scope]
  ELSE LET first == AnalyzeNode(templates, Head(nodes), scope, visiting) IN
       IF first.depends THEN first
       ELSE AnalyzeList(templates, Tail(nodes), first.scope, visiting)

TemplateUsesClientSecret(templates) == AnalyzeTemplate(templates, "main", TRUE, {})

-----------------------------------------------------------------------------
(* text/template.  data.secret is the client secret, data.issuer the rest.  *)

Root == <<"root">>
Two == <<"2">>

\* What printing a value writes, or a function makes of it.
Shown(value, data) ==
  CASE value # Root -> value
    [] data.secret = Failed -> Failed
    [] OTHER -> <<"{">> \o data.secret \o data.issuer \o <<"}">>

FieldOf(value, field, data) ==
  CASE value # Root -> Failed
    [] field = "ClientSecret" -> data.secret
    [] OTHER -> data.issuer

Truth(value) == value \notin {<<>>, <<"0">>}

\* Variables are a stack; a name means its innermost declaration.
Innermost(name, stack) ==
  CHOOSE i \in DOMAIN stack : /\ stack[i].name = name
                              /\ \A j \in i + 1..Len(stack) : stack[j].name # name

Bind(pipe, value, stack) ==
  CASE pipe.decl = "" -> stack
    [] pipe.assign -> [stack EXCEPT ![Innermost(pipe.decl, stack)].value = value]
    [] OTHER -> Append(stack, [name |-> pipe.decl, value |-> value])

RECURSIVE EvalPipe(_, _, _, _), EvalArgument(_, _, _, _)

EvalArgument(arg, dot, stack, data) ==
  CASE arg.n = "dot" -> dot
    [] arg.n = "constant" -> arg.value
    [] arg.n = "field" -> FieldOf(dot, arg.field, data)
    [] arg.n = "variable" ->
         LET value == stack[Innermost(arg.name, stack)].value IN
         IF arg.field = "" THEN value ELSE FieldOf(value, arg.field, data)
    [] arg.n = "chain" -> FieldOf(EvalArgument(arg.base, dot, stack, data), arg.field, data)
    [] arg.n = "paren" -> EvalPipe(arg.pipe, dot, stack, data)

\* final: the value that is piped in, if any.
EvalCommand(args, final, dot, stack, data) ==
  IF args[1].n # "function" THEN EvalArgument(args[1], dot, stack, data)
  ELSE LET given == [i \in 1..Len(args) - 1 |-> EvalArgument(args[i + 1], dot, stack, data)]
           shown == [i \in 1..Len(given \o final) |-> Shown((given \o final)[i], data)]
       IN IF Failed \in ToSet(shown) THEN Failed ELSE <<"f">> \o FlattenSeq(shown)

EvalPipe(pipe, dot, stack, data) ==
  LET upTo[i \in 1..Len(pipe.cmds)] ==
        EvalCommand(pipe.cmds[i], IF i = 1 THEN <<>> ELSE <<upTo[i - 1]>>, dot, stack, data)
  IN upTo[Len(pipe.cmds)]

RECURSIVE ExecList(_, _, _, _, _)

\* Leaving a block drops its variables.
Leave(inner, outer) == [inner EXCEPT !.stack = SubSeq(@, 1, Len(outer.stack))]

ExecBranch(templates, node, value, dot, st, data) ==
  LET bound == [st EXCEPT !.stack = Bind(node.pipe, value, @)]
      inner == IF node.t = "with" /\ Truth(value) THEN value ELSE dot
  IN Leave(ExecList(templates, IF Truth(value) THEN node.body ELSE node.else, inner, bound, data),
           st)

\* Only integers are there to be ranged over.
ExecRange(templates, node, value, st, data) ==
  LET once(i, from) ==
        IF from.failed \/ from.break THEN from
        ELSE Leave(ExecList(templates, node.body, <<i>>,
                            [from EXCEPT !.stack = Bind(node.pipe, <<i>>, @)], data), st)
  IN IF value # Two THEN [st EXCEPT !.failed = TRUE]
     ELSE [once("1", once("0", st)) EXCEPT !.break = FALSE]

ExecTemplate(templates, node, value, st, data) ==
  IF node.name \notin DOMAIN templates \/ st.depth = 0 THEN [st EXCEPT !.failed = TRUE]
  ELSE LET inner == ExecList(templates, templates[node.name], value,
                             [st EXCEPT !.depth = @ - 1,
                                        !.stack = <<[name |-> "$", value |-> value]>>], data)
       IN [inner EXCEPT !.depth = st.depth, !.stack = st.stack]

ExecNode(templates, node, dot, st, data) ==
  IF node.t = "break" THEN [st EXCEPT !.break = TRUE]
  ELSE LET value == EvalPipe(node.pipe, dot, st.stack, data) IN
       CASE value = Failed -> [st EXCEPT !.failed = TRUE]
         [] node.t = "action" /\ node.pipe.decl # "" ->
              [st EXCEPT !.stack = Bind(node.pipe, value, @)]
         [] node.t = "action" /\ node.pipe.decl = "" ->
              [st EXCEPT !.out = @ \o Shown(value, data), !.failed = Shown(value, data) = Failed]
         [] node.t \in {"if", "with"} -> ExecBranch(templates, node, value, dot, st, data)
         [] node.t = "range" -> ExecRange(templates, node, value, st, data)
         [] node.t = "template" -> ExecTemplate(templates, node, value, st, data)

ExecList(templates, nodes, dot, st, data) ==
  IF nodes = <<>> \/ st.failed \/ st.break THEN st
  ELSE ExecList(templates, Tail(nodes), dot,
                ExecNode(templates, Head(nodes), dot, st, data), data)

Execute(templates, data) ==
  LET st == ExecList(templates, templates["main"], Root,
                     [out |-> <<>>, stack |-> <<[name |-> "$", value |-> Root]>>,
                      failed |-> FALSE, break |-> FALSE, depth |-> MaxDepth], data)
  IN IF st.failed THEN Failed ELSE st.out

\* What a template makes of a client secret and a version of the public fields.
RenderedBy(templates, secret, version) ==
  Execute(templates, [secret |-> secret, issuer |-> <<"issuer", ToString(version)>>])

-----------------------------------------------------------------------------
(* Properties. *)

\* No branch body declares a variable, no range body assigns one.
RECURSIVE Tame(_, _, _)
Tame(nodes, inBranch, inRange) ==
  \A i \in DOMAIN nodes :
    LET node == nodes[i] IN
    IF node.t \in Branches
    THEN /\ Tame(node.body, TRUE, inRange \/ node.t = "range")
         /\ Tame(node.else, TRUE, inRange)
    ELSE node.t = "action" /\ node.pipe.decl # "" =>
           IF node.pipe.assign THEN ~inRange ELSE ~inBranch

TameTemplates(templates) == \A name \in DOMAIN templates : Tame(templates[name], FALSE, FALSE)

\* Every node is executed: no branches but a with on a public field.
RECURSIVE Straight(_)
Straight(nodes) ==
  \A i \in DOMAIN nodes :
    /\ nodes[i].t \in {"action", "template", "with"}
    /\ ~nodes[i].pipe.assign
    /\ nodes[i].t = "with" =>
         /\ nodes[i].else = <<>>
         /\ nodes[i].pipe.cmds = <<<<[n |-> "field", field |-> "Issuer"]>>>>
         /\ Straight(nodes[i].body)

\* "If Authentik omits an existing client secret, previously rendered
\* application Secret entries that depend on .ClientSecret are retained by key
\* instead of being replaced with an empty value."
DependentEntriesRetained == \A k \in Keys : entry[k] # None => MadeWithSecret(k)

\* An entry is never replaced by a rendering that lacks the client secret, not
\* through nested templates, pipelines, parentheses, rebound dots or variables
\* assigned in branches, as long as no branch body declares a variable and no
\* range body assigns one (templateUsesClientSecret).
TameEntriesRetained ==
  \A k \in Keys : entry[k] # None /\ TameTemplates(source[k].templates) => MadeWithSecret(k)

\* "... while entries that do not are refreshed": a template that never reads
\* the client secret, on whatever value it rebinds dot or a variable to, is
\* not taken to depend on it, or its entry would be stale (and could never be
\* made at first while Authentik omits the secret).
IndependentEntriesRefreshed ==
  \A k \in Keys :
    /\ \A name \in DOMAIN spec[k] : Straight(spec[k][name])
    /\ RenderedBy(spec[k], Failed, issuer) # Failed
    => ~TemplateUsesClientSecret(spec[k])
=============================================================================
