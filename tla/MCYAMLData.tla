------------------------------- MODULE MCYAMLData -------------------------------
(* Small YAML texts, with aliases to any node, for model-checking YAMLData. *)
EXTENDS YAMLReference

-----------------------------------------------------------------------------
(* What libyaml makes of a text, a tree with aliases *)

\* The subtrees of a node, keys before their values.
Parts(tree) ==
    CASE tree.kind = "sequence" -> tree.items
      [] tree.kind = "mapping" -> FlattenSeq([i \in DOMAIN tree.pairs |-> <<tree.pairs[i].key, tree.pairs[i].node>>])
      [] OTHER -> <<>>
Plus(s) == FoldLeft(+, 0, s)

RECURSIVE Weight(_)
Weight(tree) == IF tree.kind = "alias" THEN 0 ELSE 1 + Plus([i \in DOMAIN Parts(tree) |-> Weight(Parts(tree)[i])])
\* Nodes are numbered in the order of the text; an alias stands for the node it names.
NumberOf(tree, first, i) == first + 1 + Plus([j \in 1..(i - 1) |-> Weight(Parts(tree)[j])])

\* The events of a tree (libyaml's parser), each with the node that is numbered first.
Mark(kind) == [kind |-> kind, size |-> 0, node |-> 0]
RECURSIVE Events(_, _)
Events(tree, first) ==
    LET inner == FlattenSeq([i \in DOMAIN Parts(tree) |-> Events(Parts(tree)[i], NumberOf(tree, first, i))])
        start(kind) == [Mark(kind) EXCEPT !.node = first] IN
    CASE tree.kind = "scalar" -> <<[start("scalar") EXCEPT !.size = tree.size]>>
      [] tree.kind = "alias" -> <<[Mark("alias") EXCEPT !.node = tree.to]>>
      [] tree.kind = "sequence" -> <<start("sequenceStart")>> \o inner \o <<Mark("sequenceEnd")>>
      [] tree.kind = "mapping" -> <<start("mappingStart")>> \o inner \o <<Mark("mappingEnd")>>

\* The graph of a tree (libyaml's composer).
RECURSIVE Compose(_, _)
Compose(tree, first) ==
    LET parts == Parts(tree)
        id(i) == NumberOf(tree, first, i)
        ref(i) == IF parts[i].kind = "alias" THEN parts[i].to ELSE id(i)
        items == CASE tree.kind = "sequence" -> [i \in DOMAIN parts |-> [key |-> 0, node |-> ref(i)]]
                   [] tree.kind = "mapping" ->
                         [i \in DOMAIN tree.pairs |-> [key |-> ref(2 * i - 1), node |-> ref(2 * i)]]
                   [] OTHER -> <<>>
    IN IF tree.kind = "alias" THEN <<>>
       ELSE <<[kind |-> tree.kind, text |-> tree.text, size |-> tree.size, plain |-> tree.plain, tag |-> tree.tag,
           items |-> items]>>
                \o FlattenSeq([i \in DOMAIN parts |-> Compose(parts[i], id(i))])

\* An alias names a node that began before it.
RECURSIVE Aliases(_, _)
Aliases(tree, first) ==
    IF tree.kind = "alias" THEN tree.to < first
    ELSE \A i \in DOMAIN Parts(tree) : Aliases(Parts(tree)[i], NumberOf(tree, first, i))

Text(tree, documents, wellFormed, bytes) ==
    LET document == <<Mark("documentStart")>> \o Events(tree, 1) \o <<Mark("documentEnd")>> IN
    [bytes |-> bytes, clean |-> TRUE, documents |-> documents, wellFormed |-> wellFormed,
     events |-> IF documents = 0 THEN <<>> ELSE FlattenSeq([i \in 1..documents |-> document]),
     nodes |-> IF documents = 0 \/ ~Aliases(tree, 1) THEN Null ELSE Compose(tree, 1)]

-----------------------------------------------------------------------------
(* Texts *)

Tree(kind) ==
    [kind |-> kind, text |-> <<>>, size |-> 0, plain |-> FALSE, tag |-> "none", items |-> <<>>, pairs |-> <<>>, to |-> 0]
Spelled(s, plain, tag) ==
    [Tree("scalar") EXCEPT !.text = s, !.size = Len(s), !.plain = plain, !.tag = tag]
Scalar(c) == Spelled(<<c>>, TRUE, "str")
Alias(k) == [Tree("alias") EXCEPT !.to = k]
Sequence(items) == [Tree("sequence") EXCEPT !.items = items]
Mapping(pairs) == [Tree("mapping") EXCEPT !.pairs = pairs]
Sequences(trees, n) == {Sequence(s) : s \in BoundedSeq(trees, n)}
Mappings(keys, trees, n) == {Mapping(s) : s \in BoundedSeq({[key |-> k, node |-> t] : k \in keys, t \in trees}, n)}

Leaves == {Scalar("s"), Alias(1), Alias(2), Alias(3)}
Keys == {Scalar("a"), Scalar("b"), Alias(3), Sequence(<<>>)}
Flat == Sequences(Leaves, 2) \cup Mappings({Scalar("a"), Alias(2)}, Leaves, 1)
Trees == Leaves \cup Flat \cup Sequences(Flat \cup {Scalar("s"), Alias(2), Alias(4)}, 2)
         \cup Mappings(Keys, {Scalar("s"), Scalar("t"), Alias(1), Alias(3)}, 2) \cup Mappings(Keys, Flat, 1)
\* Each line doubles the one before: three lines of aliases expand to 8 values.
Doubling ==
    Sequence(<<Sequence(<<Scalar("s"), Scalar("s")>>), Sequence(<<Alias(2), Alias(2)>>),
               Sequence(<<Alias(5), Alias(5)>>), Alias(6)>>)

\* Spellings: every short one over a few characters, and numerals of every base with what
\* may follow them, as integers of 3 bits.
Characters == {"+", "-", "0", "1", "4", "8", "b", "x", ".", "e", "~", "yes", "no", "s"}
Numeric ==
    {sign \o prefix \o digits \o rest :
        sign \in Signs, prefix \in {<<>>, <<"0">>, <<"0", "x">>, <<"0", "b">>}, digits \in BoundedSeq({"0", "1", "4"}, 3),
        rest \in {<<>>, <<".">>, <<"8">>, <<"e", "1">>, <<".", "1">>, <<"e", "+", "1">>, <<".", "e", "-", "1">>, <<"s">>}}
Blanks == {<<>>, <<" ">>}
MCSpellings ==
    {Spelled(s, TRUE, tag) : s \in BoundedSeq(Characters, 3) \ {<<"-">>}, tag \in {"str", "int", "float", "bool", "null", "other"}}
        \cup {Spelled(s, TRUE, tag) : s \in Numeric \ {<<"-">>}, tag \in {"str", "int"}}
        \cup {Spelled(b \o s \o c, FALSE, tag) : b, c \in Blanks, s \in BoundedSeq({"-", "8", ".", "e"}, 3), tag \in {"str", "int", "float"}}

ScalarTexts == {Text(t, 1, TRUE, 2) : t \in MCSpellings}
MCTexts ==
    ScalarTexts \cup {Text(t, 1, TRUE, 2) : t \in Trees \cup {Doubling}}
        \cup {Text(t, d, w, b) : t \in Leaves \cup {Sequence(<<>>)}, d \in 0..2, w \in BOOLEAN, b \in {2, 3}}

Limits(nesting, n, strings, entries) ==
    [input |-> 2, nesting |-> nesting, nodes |-> n, strings |-> strings, entries |-> entries]
MCParseLimits ==
    {Limits(9, 50, 50, 50)} \cup {Limits(d, 50, 50, 50) : d \in 0..3} \cup {Limits(9, n, 50, 50) : n \in {1, 3, 6, 37, 38}}
        \cup {Limits(9, 50, s, 50) : s \in {1, 2, 21, 22}} \cup {Limits(9, 50, 50, e) : e \in {1, 2, 36, 37}}

\* Spellings under generous limits only, and everything else under all.
Generous == Limits(9, 50, 50, 50)
MCInit == Init /\ (text \in ScalarTexts => limits = Generous)
MCSpec == MCInit /\ [][Next]_vars
\* Nothing but the spellings.
SpellingSpec == Init /\ text \in ScalarTexts /\ limits = Generous /\ [][Next]_vars

=============================================================================
