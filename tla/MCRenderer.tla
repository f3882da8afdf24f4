------------------------------- MODULE MCRenderer -------------------------------
(* Small templates, data and lambda texts for model-checking Renderer. *)
EXTENDS Renderer, TLC

Plain == [type |-> "None", escape |-> FALSE, lambdaOnly |-> FALSE, indent |-> FALSE, data |-> <<>>,
          parts |-> <<>>, children |-> <<>>, source |-> <<>>, delims |-> <<>>]
Parent(type, children) == [Plain EXCEPT !.type = type, !.children = children]
Literal(text) == [Plain EXCEPT !.type = "Output", !.data = <<text>>]
Suppressed(text) == [Literal(text) EXCEPT !.lambdaOnly = TRUE]
Metadata(text) == [Suppressed(text) EXCEPT !.indent = TRUE]
Named(type, name) == [Plain EXCEPT !.type = type, !.data = <<name>>, !.parts = <<name>>]
Var(name) == [Named("Variable", name) EXCEPT !.escape = TRUE]
Raw(name) == Named("Variable", name)
Block(type, name, children) ==
    [Named(type, name) EXCEPT !.children = children, !.delims = <<1, 1>>]
Sourced(node, text) == [node EXCEPT !.source = <<text>>]

f == <<"f">>
g == <<"g">>
v == <<"v">>
l == <<"l">>
m == <<"m">>

MCNodeTable ==
    \* {{#f}}x{{/f}} with its source, followed by a variable
       "lambda" :> Parent("Root", <<"section", "var">>)
    @@ "section" :> Sourced(Block("Section", f, <<"x">>), <<"x">>)
    @@ "var" :> Var(v)
    @@ "x" :> Literal(<<"x">>)
    \* {{g}}: an interpolated lambda whose evaluated text is escaped
    @@ "escaped" :> Parent("Root", <<"interp", "x">>)
    @@ "interp" :> Var(g)
    \* a standalone partial in a list, its text on two lines
    @@ "indented" :> Parent("Root", <<"items", "line">>)
    @@ "items" :> Block("Section", l, <<"meta", "standalone">>)
    @@ "meta" :> Metadata(<<" ">>)
    @@ "standalone" :> Named("Partial", <<"p">>)
    @@ "line" :> Literal(<<"x", "nl">>)
    @@ "p" :> Parent("Root", <<"line", "hidden", "dotted", "none", "x">>)
    @@ "hidden" :> Suppressed(<<"nl">>)
    @@ "dotted" :> [Raw(<<"m", ".", "v">>) EXCEPT !.parts = <<m, v>>]
    @@ "none" :> Block("Negate", <<"n">>, <<"raw">>)
    @@ "raw" :> Raw(v)
    \* a standalone partial inside a standalone partial
    @@ "nested" :> Parent("Root", <<"meta", "outer", "line">>)
    @@ "outer" :> Named("Partial", <<"o">>)
    @@ "o" :> Parent("Root", <<"line", "meta", "standalone", "hidden", "dot">>)
    \* a partial that includes itself
    @@ "endless" :> Parent("Root", <<"again">>)
    @@ "again" :> Named("Partial", <<"r">>)
    \* a lambda section rebuilt from its nodes
    @@ "rebuilt" :> Parent("Root", <<"noSource">>)
    @@ "noSource" :> Block("Section", f, <<"meta", "standalone", "comment", "inner", "stop">>)
    @@ "comment" :> Named("Comment", <<"c">>)
    @@ "inner" :> Block("Section", v, <<"var", "stop">>)
    @@ "stop" :> Named("Stop", f)
    \* trees only a caller can build
    @@ "badMeta" :> Parent("Root", <<"meta", "x">>)
    @@ "nullChild" :> Parent("Root", <<"box", "dot", Null>>)
    @@ "box" :> Parent("Container", <<"x">>)
    @@ "dot" :> [Raw(<<".">>) EXCEPT !.parts = <<<<".">>>>]
    @@ "noDelims" :> Parent("Root", <<"bare">>)
    @@ "bare" :> [Block("Section", f, <<"x">>) EXCEPT !.delims = <<>>]
    \* the parse of what lambdas return
    @@ "lt" :> Parent("Root", <<"ltText">>)
    @@ "ltText" :> Literal(<<"<">>)

Value(type, text, items, map) == [type |-> type, text |-> text, items |-> items, map |-> map]
NoMap == [key \in {} |-> Null]
MCDataTable ==
       "top" :> Value("map", <<>>, <<>>, f :> "fn" @@ g :> "fn" @@ v :> "amp" @@ l :> "list" @@ m :> "map")
    @@ "fn" :> Value("lambda", <<>>, <<>>, NoMap)
    @@ "amp" :> Value("string", <<"&">>, <<>>, NoMap)
    @@ "list" :> Value("list", <<>>, <<"map", "seven">>, NoMap)
    @@ "map" :> Value("map", <<>>, <<>>, v :> "seven")
    @@ "seven" :> Value("number", <<"7">>, <<>>, NoMap)

\* "<" parses to text, "xx" to the template with the lambda section, "bad" does not parse.
MCTemplateTable ==
       <<"<">> :> [root |-> "lt", nodes |-> 1]
    @@ <<"x", "x">> :> [root |-> "lambda", nodes |-> 3]
    @@ <<"{">> :> [root |-> Null, nodes |-> 0]

\* Every source has a name that an earlier one gives a null pointer for.
MCResolver == <<"o">> :> "o" @@ <<"p">> :> Null
MCExternal == <<"p">> :> "p" @@ <<"r">> :> Null
MCRootPartials == [n \in DOMAIN MCNodeTable |-> <<"r">> :> "endless" @@ <<"o">> :> "p"]
MCResolvers == {MCResolver}
NoResolvers == {NoPartials}
MCExternals == {MCExternal}

MCInputs == {"top"}
\* No template writes "o".
MCOutputs == {<<>>, <<"o", "o">>}
EmptyOutput == {<<>>}
Limit(o, d, n, t) == [output |-> o, depth |-> d, visits |-> n, lambda |-> t]
Roomy == {Limit(16, 6, 40, 12)}
\* Every limit is out of the way, met or just missed.
Tight == {Limit(o, 9, 30, t) : o \in {0, 4, 5, 20}, t \in {1, 20}} \cup {Limit(5, d, n, 20) : d \in {2, 9}, n \in {3, 6}}
\* Each limit in turn takes every value the templates can tell apart.
Exact == {Limit(o, 9, 50, 0) : o \in 0..20} \cup {Limit(40, d, 50, 0) : d \in 0..6} \cup {Limit(40, 9, n, 0) : n \in 0..24}

\* Renders begin with the caller's partials; MCRenderReference has some without them.
\* Fairness is that of FairSpec.
WithPartials == renders' # renders => config.partials # NoPartials
CallbacksSpec == Init /\ [][Next /\ WithPartials]_vars /\ WF_vars(Render)

=============================================================================
