------------------------------- MODULE MCNodeCodec -------------------------------
(***************************************************************************)
(* Small trees of every kind of node, valid and not, and their encodings   *)
(* with one thing changed.                                                 *)
(***************************************************************************)
EXTENDS NodeCodec

Leaf(type, flags, data) ==
    [type |-> type, flags |-> flags, data |-> data, delimiters |-> Null, original |-> Null, children |-> <<>>]
Section(delimiters, original) ==
    [Leaf("Section", {}, <<"a">>) EXCEPT !.delimiters = delimiters, !.original = original]

Root == Leaf("Root", {}, Null)
Indent == Leaf("Output", {"LambdaOnly", "PartialIndent"}, <<" ">>)
Partial == Leaf("Partial", {}, <<"a">>)
Dotted == Leaf("Variable", {"Escape"}, <<"a", ".", "a">>)
Empty == Leaf("Output", {"LambdaOnly"}, <<>>)
Stop == Leaf("Stop", {}, <<"a">>)

Containers ==
    {Root, Leaf("Negate", {}, <<"a", ".", "a">>), Leaf("InlinePartial", {}, <<".">>), Leaf("Output", {}, <<"a">>),
     Leaf("Root", {}, <<"a">>), Section(Null, Null), Section("custom", Null), Section("default", <<"a">>),
     Section("default", <<"{{", "", "a", ".", "a", "}}">>)}
Leaves ==
    {Root, Indent, Partial, Dotted, Empty, Stop, Leaf("Output", {}, <<"a">>),
     Leaf("Output", {"LambdaOnly", "PartialIndent"}, <<"a">>), Leaf("Output", {"PartialIndent"}, <<" ">>),
     Leaf("Output", {"other"}, <<"a">>), Leaf("Partial", {"LambdaOnly"}, <<"a">>), Leaf("None", {}, Null),
     Leaf("Comment", {}, Null), Leaf("Output", {}, <<"a", "a", "a", "a">>), Section(Null, <<>>)}

With(node, children) == [node EXCEPT !.children = children]
Flat ==
    Containers \cup Leaves
    \cup {With(c, <<a>>) : c \in Containers, a \in Leaves}
    \cup {With(c, <<a, b>>) : c \in Containers, a, b \in Leaves}
Nested ==
    {With(c, <<With(d, <<a>>)>>) : c, d \in Containers, a \in Leaves}
    \cup {With(Root, <<With(c, <<a>>), b>>) : c \in Containers, a, b \in {Indent, Partial, Dotted, Stop}}
    \cup {With(Root, <<a, b, c>>) : a, b, c \in {Indent, Partial, Stop}}
MCTrees == Flat \cup Nested

Whole(records) == [records |-> records, offset |-> 0, length |-> Starts([records |-> records, offset |-> 0])[Len(records) + 1]]
\* One field of a record changed.
Near(n) == {n + 1} \cup (IF n = 0 THEN {} ELSE {0, n - 1})
Changed(r) ==
    {[r EXCEPT !.count = n] : n \in Near(r.count)}
    \cup {[r EXCEPT !.childrenSize = n] : n \in Near(r.childrenSize) \cup {r.childrenSize + 16, r.childrenSize + 32}}
    \cup {[r EXCEPT !.size = n] : n \in Near(r.size)}
    \cup {[r EXCEPT !.magic = FALSE], [r EXCEPT !.terminated = r.data = Null], [r EXCEPT !.flags = {"other"}]}
Base ==
    Containers \cup {With(c, <<a>>) : c \in Containers, a \in {Indent, Partial, Dotted}}
    \cup {With(Root, <<a, b>>) : a, b \in {Indent, Partial, Stop}}
    \cup {With(Root, <<With(Section(Null, Null), <<a>>)>>) : a \in {Stop, Dotted}}
MCSerials ==
    {Whole(Encoding(t)) : t \in Flat}
    \cup UNION {UNION {{Whole([Encoding(t) EXCEPT ![i] = r]) : r \in Changed(Encoding(t)[i])} :
                           i \in DOMAIN Encoding(t)} : t \in Base}
    \cup UNION {{[Whole(Encoding(t)) EXCEPT !.length = @ + 1], [Whole(Encoding(t)) EXCEPT !.length = @ - 1],
                 [Whole(Encoding(t)) EXCEPT !.length = @ + 2, !.offset = 2], [Whole(Encoding(t)) EXCEPT !.offset = 80]} :
                    t \in Base}

Wide == [input |-> 200, output |-> 200, nesting |-> 3, nodes |-> 3, partsPerNode |-> 2, parts |-> 3]
MCLimits ==
    {Wide, [Wide EXCEPT !.nesting = 2], [Wide EXCEPT !.nodes = 2], [Wide EXCEPT !.parts = 2],
     [Wide EXCEPT !.partsPerNode = 1], [Wide EXCEPT !.output = 46, !.input = 46]}

=============================================================================
