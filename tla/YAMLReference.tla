----------------------------- MODULE YAMLReference -----------------------------
(* What YAML texts mean: their scalars, and the graphs they are composed to. *)
EXTENDS YAMLData, SequencesExt

-----------------------------------------------------------------------------
(* What a scalar means *)

Signs == {<<>>, <<"+">>, <<"-">>}
Numbers(spelling, base) == spelling # <<>> /\ \A i \in DOMAIN spelling : spelling[i] \in Digits(base)
Bases == {[base |-> 10, prefix |-> <<>>], [base |-> 8, prefix |-> <<"0">>],
          [base |-> 16, prefix |-> <<"0", "x">>], [base |-> 2, prefix |-> <<"0", "b">>]}
\* A numeral is a sign, the prefix of a base and digits; a decimal one has no leading zero.
Numerals(spelling) ==
    {n \in [sign : Signs, form : Bases, digits : {SubSeq(spelling, i, Len(spelling)) : i \in DOMAIN spelling}] :
        /\ spelling = n.sign \o n.form.prefix \o n.digits /\ Numbers(n.digits, n.form.base)
        /\ n.form.base = 10 /\ Len(n.digits) > 1 => n.digits[1] # "0"}
Value(n) ==
    LET size == FoldLeft(LAMBDA v, c : v * n.form.base + DigitValue[c], 0, n.digits) IN
    IF n.sign = <<"-">> THEN -size ELSE size
Values(spelling) == {Value(n) : n \in Numerals(spelling)}
Fits(v) == v \in -(2 ^ (IntegerWidth - 1))..(2 ^ (IntegerWidth - 1) - 1)
\* An integer too large for its type, or text that begins with one too large for any.
TooLarge(spelling) ==
    \/ \E v \in Values(spelling) : ~Fits(v)
    \/ \E i \in DOMAIN spelling : \E v \in Values(SubSeq(spelling, 1, i)) :
           v \notin -(2 ^ IntegerWidth - 1)..(2 ^ IntegerWidth - 1)

\* A number with at most so many points, and an exponent with one of these signs.
Mantissa(m, points) ==
    /\ \A i \in DOMAIN m : m[i] \in Digits(10) \cup {"."}
    /\ Cardinality({i \in DOMAIN m : m[i] = "."}) \in points /\ \E i \in DOMAIN m : m[i] # "."
Exponent(e, signs) ==
    e = <<>> \/ \E s \in signs : IsPrefix(<<"e">> \o s, e) /\ Numbers(SubSeq(e, 2 + Len(s), Len(e)), 10)
IsReal(spelling, points, signs) ==
    \E s \in Signs, i \in DOMAIN spelling :
        /\ IsPrefix(s, spelling) /\ Mantissa(SubSeq(spelling, Len(s) + 1, i), points)
        /\ Exponent(SubSeq(spelling, i + 1, Len(spelling)), signs)
Dotted(spelling) == IsReal(spelling, {1}, {<<"+">>, <<"-">>})
Decimal(spelling) ==
    \E i, j \in DOMAIN spelling :
        /\ \A k \in DOMAIN spelling : k < i \/ k > j => spelling[k] = " "
        /\ IsReal(SubSeq(spelling, i, j), {0, 1}, Signs)

ScalarMeaning(node) ==
    LET spelling == node.text
        values == Values(spelling)
        plain == node.tag = "str" /\ node.plain
        wants(tag) == plain \/ node.tag = tag
        word(words) == Len(spelling) = 1 /\ spelling[1] \in words
        fitting == {v \in values : Fits(v)}
    IN CASE node.tag = "null" \/ (plain /\ (spelling = <<>> \/ word(NullWords))) -> [type |-> "none"]
         [] wants("bool") /\ word(TrueWords) -> [type |-> "boolean", boolean |-> TRUE]
         [] wants("bool") /\ word(FalseWords) -> [type |-> "boolean", boolean |-> FALSE]
         [] wants("int") /\ fitting # {} -> [type |-> "integer", integer |-> CHOOSE v \in fitting : TRUE]
         [] \/ wants("int") /\ TooLarge(spelling) /\ Decimal(spelling)
            \/ plain /\ Dotted(spelling)
            \/ node.tag = "float" /\ Decimal(spelling) -> [type |-> "double", spelling |-> spelling]
         [] OTHER -> [type |-> "string", text |-> spelling]

-----------------------------------------------------------------------------
(* What a graph expands to *)

KeyNode(nodes, id, i) == nodes[nodes[id].items[i].key]

\* The nodes that expand to a value of at most so many levels: the names in it are scalars.
Expanding(nodes) ==
    LET within[n \in Nat] ==
            IF n = 0 THEN {}
            ELSE {id \in DOMAIN nodes : \A i \in DOMAIN nodes[id].items :
                     /\ nodes[id].items[i].node \in within[n - 1]
                     /\ nodes[id].kind = "mapping" => KeyNode(nodes, id, i).kind = "scalar"}
    IN within

\* The last of the first items of a mapping that has a name.
LastWithName(nodes, id, name, count) ==
    CHOOSE i \in 1..count : /\ KeyNode(nodes, id, i).text = name
                            /\ \A j \in 1..count : KeyNode(nodes, id, j).text = name => j <= i
\* What a node means with its first items.
Composed(nodes, meanings, id, count) ==
    CASE nodes[id].kind = "scalar" -> ScalarMeaning(nodes[id])
      [] nodes[id].kind = "sequence" ->
            [type |-> "array", items |-> [i \in 1..count |-> meanings[nodes[id].items[i].node]]]
      [] nodes[id].kind = "mapping" ->
            [type |-> "map", map |-> [n \in {KeyNode(nodes, id, i).text : i \in 1..count} |->
                meanings[nodes[id].items[LastWithName(nodes, id, n, count)].node]]]
\* What the nodes of at most so many levels mean.
Expansions(nodes, levels) ==
    LET meanings[id \in Expanding(nodes)[levels]] == Composed(nodes, meanings, id, Len(nodes[id].items))
    IN meanings

Running(first, costs) ==
    LET upTo[k \in 0..Len(costs)] == IF k = 0 THEN first ELSE Consume(upTo[k - 1], costs[k])
    IN upTo
\* What a node costs with its first items: itself, the text of a scalar, an entry for each
\* item, the names, and all that the items cost.
Charged(nodes, charges, id) ==
    LET node == nodes[id]
        name(i) == IF node.kind = "mapping" THEN KeyNode(nodes, id, i).size ELSE 0
    IN Running(Cost(1, IF node.kind = "scalar" THEN node.size ELSE 0, Len(node.items)),
               [i \in 1..Len(node.items) |-> Consume(Cost(0, name(i), 0), charges[node.items[i].node])])
Charges(nodes, levels) ==
    LET charges[id \in Expanding(nodes)[levels]] == Charged(nodes, charges, id)[Len(nodes[id].items)]
    IN charges

Deepest == IF limits.nesting <= ParseNestingCeiling THEN limits.nesting ELSE ParseNestingCeiling

-----------------------------------------------------------------------------
(* Properties *)

\* The text is one document that expands within the limits; one that refers to itself does
\* not expand to any number of levels.
Acceptable ==
    /\ Readable(text) /\ text.wellFormed /\ text.documents = 1 /\ text.nodes # Null
    /\ 1 \in Expanding(text.nodes)[Deepest] /\ WithinLimits(Charges(text.nodes, Deepest)[1])

\* fromYAML returns the tree that a text's aliases expand to.
BuildsExpansion == phase = "done" => result = Expansions(text.nodes, Deepest)[1]

\* A plain integer is a number, whatever its base and its size (CHANGELOG.md:25).
IntegersAreNumbers ==
    phase = "done" /\ text.nodes[1].kind = "scalar" /\ text.nodes[1].plain /\ text.nodes[1].tag = "str"
        /\ Numerals(text.nodes[1].text) # {} => result.type \in {"integer", "double"}

\* It fails exactly when the text is no single document of scalars, sequences and maps,
\* refers to itself, or is over a limit once expanded ("YAML aliases count each expanded
\* value and container entry", data.hpp:41).  The preflight rejects nothing else.
AcceptsExactly ==
    /\ phase = "done" => Acceptable
    /\ phase = "failed" => ~Acceptable

=============================================================================
