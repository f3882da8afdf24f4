---------------------------- MODULE RenderReference ----------------------------
(***************************************************************************)
(* What a template without lambdas renders to, defined by recursion on the *)
(* template and the data rather than by the engine's mutable state, and    *)
(* what it costs.  Standalone partials follow the mustache rule: their     *)
(* indentation is inserted before each line of the partial's own template, *)
(* never inside a value.                                                   *)
(***************************************************************************)
EXTENDS Renderer

CONSTANT Referenced   \* the roots of well-formed templates that call no lambda

VARIABLE before   \* history: the caller's text when the render began

\* A fragment is text with the place it came from: a character of the template
\* (shown or suppressed), the beginning of a tag, or text that indentation never enters.
Fragments(kind, text) == [i \in DOMAIN text |-> [kind |-> kind, text |-> <<text[i]>>]]
Tag == <<[kind |-> "tag", text |-> <<>>]>>
Whole(text) == <<[kind |-> "value", text |-> text]>>

StartsLine(fragments, i) ==
    i > 1 => fragments[i - 1].kind \in {"shown", "hidden"} /\ fragments[i - 1].text = <<"nl">>

Indented(fragments, prefix) ==
    FlattenSeq([i \in DOMAIN fragments |->
        (IF StartsLine(fragments, i) /\ fragments[i].kind \in {"shown", "tag"} THEN prefix ELSE <<>>) \o
        (IF fragments[i].kind = "hidden" THEN <<>> ELSE fragments[i].text)])

RECURSIVE Reach(_, _)
\* A dotted name below a value.
Reach(d, parts) == IF parts = <<>> \/ d = Null THEN d ELSE Reach(Find(d, Head(parts)), Tail(parts))

RECURSIVE Seen(_, _)
\* The first component of a name in the innermost context that has it; contexts[1] is innermost.
Seen(within, key) ==
    IF within = <<>> THEN Null
    ELSE IF Find(Head(within), key) # Null THEN Find(Head(within), key)
    ELSE Seen(Tail(within), key)

Meaning(n, within) ==
    IF NodeTable[n].data = <<<<".">>>> THEN Head(within)
    ELSE Reach(Seen(within, Head(NodeTable[n].parts)), Tail(NodeTable[n].parts))

Scalar(value) == DataTable[value].type \in {"string", "number", "true"}
Passes(value, within) ==
    IF DataTable[value].type = "list"
    THEN [i \in DOMAIN DataTable[value].items |-> <<DataTable[value].items[i]>> \o within]
    ELSE <<<<value>> \o within>>

\* The contexts in which a section, inverted section, container or root renders its children.
ChildPasses(n, within) ==
    LET node == NodeTable[n]
    IN CASE node.type \in {"Root", "Container"} -> <<within>>
         [] node.type = "Negate" -> IF IsEmpty(Meaning(n, within)) THEN <<within>> ELSE <<>>
         [] node.type = "Section" -> IF IsEmpty(Meaning(n, within)) THEN <<>> ELSE Passes(Meaning(n, within), within)
         [] OTHER -> <<>>

LocalIndentation(children, k) ==
    IF k > 1 /\ IsMetadata(children[k - 1]) THEN NodeTable[children[k - 1]].data ELSE <<>>

\* The sources of partials in the order of precedence; the first that has the name wins.
Sources == <<config.resolver, config.partials, RootPartials[config.node]>>
Supplied(name) ==
    LET having == SelectSeq(Sources, LAMBDA source : name \in DOMAIN source /\ source[name] # Null)
    IN IF having = <<>> THEN Null ELSE Head(having)[name]

RECURSIVE Render_(_, _, _, _, _), Below(_, _, _, _)
\* The fragments of node n at depth d.  prefix is the indentation inherited by
\* a standalone partial, local its own (if any).
Render_(n, within, prefix, local, d) ==
    LET node == NodeTable[n]
        value == Meaning(n, within)
        tag == IF node.type \in {"Root", "Container", "None", "Output"} THEN <<>> ELSE Tag
        own == IF local = <<>> THEN <<>> ELSE prefix \o local[1]
        target == Supplied(node.data[1])
    IN IF TooDeep(d) THEN <<>>
       ELSE tag \o
       CASE node.type = "Output" ->
              IF node.lambdaOnly
              THEN IF node.data[1] = <<>> THEN Fragments("hidden", <<"marker">>) ELSE Fragments("hidden", node.data[1])
              ELSE Fragments("shown", node.data[1])
         [] node.type = "Variable" ->
              IF ~IsEmpty(value) /\ Scalar(value)
              THEN Whole(IF node.escape THEN Escaped(DataTable[value].text) ELSE DataTable[value].text)
              ELSE <<>>
         [] node.type = "Partial" ->
              IF target = Null THEN <<>>
              ELSE Whole(Indented(Render_(target, within, own, <<>>, d + 1), own))
         [] OTHER -> Below(n, within, prefix, d)
Below(n, within, prefix, d) ==
    LET children == NodeTable[n].children
        passes == ChildPasses(n, within)
    IN FlattenSeq([p \in DOMAIN passes |->
           FlattenSeq([k \in DOMAIN children |->
               Render_(children[k], passes[p], prefix, LocalIndentation(children, k), d + 1)])])

Expected == Indented(Render_(config.node, <<config.data>>, <<>>, <<>>, 0), <<>>)

RECURSIVE Levels(_, _, _), Visits(_, _, _)
\* The depth and the number of the node visits that rendering n takes.
Levels(n, within, d) ==
    LET passes == ChildPasses(n, within)
        below == {Levels(NodeTable[n].children[k], passes[p], d + 1) :
                     p \in DOMAIN passes, k \in DOMAIN NodeTable[n].children}
        called == IF NodeTable[n].type = "Partial" /\ Supplied(NodeTable[n].data[1]) # Null
                  THEN {Levels(Supplied(NodeTable[n].data[1]), within, d + 1)} ELSE {}
    IN IF TooDeep(d) THEN d ELSE Max({d} \cup below \cup called)
Visits(n, within, d) ==
    LET passes == ChildPasses(n, within)
        children == NodeTable[n].children
        below == FlattenSeq([p \in DOMAIN passes |->
                     [k \in DOMAIN children |-> Visits(children[k], passes[p], d + 1)]])
        called == IF NodeTable[n].type = "Partial" /\ Supplied(NodeTable[n].data[1]) # Null
                  THEN Visits(Supplied(NodeTable[n].data[1]), within, d + 1) ELSE 0
    IN IF TooDeep(d) THEN 0 ELSE 1 + called + FoldLeft(+, 0, below)

WithinBudget ==
    /\ Len(before) + Len(Expected) <= limits.output
    /\ ~TooDeep(Levels(config.node, <<config.data>>, 0))
    /\ Visits(config.node, <<config.data>>, 0) <= limits.visits

Finished == Guarding("endRoot") /\ config.node \in Referenced
Remember == before' = IF rendering' /\ ~rendering THEN buffers[1] ELSE before

\* A finished render appended to the caller's text exactly what the template means.
RendersTheTemplate ==
    Finished /\ ~throwing => buffers[1] = before \o Expected

\* A failed render leaves a prefix of the intended result (README "A failed render
\* can leave the caller's output buffer holding a prefix of the intended result").
FailureLeavesPrefix ==
    Finished /\ throwing => IsPrefix(buffers[1], before \o Expected)

\* A render of a well-formed template fails exactly when it does not fit its limits,
\* also when the renderer was used, or failed, before: no charge is left over from
\* an earlier render and none is made twice.
FailsOnlyOverBudget ==
    Finished => (throwing <=> ~WithinBudget)

=============================================================================
