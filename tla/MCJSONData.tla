------------------------------- MODULE MCJSONData -------------------------------
(* Small JSON texts for model-checking JSONData, made from values that nest. *)
EXTENDS JSONReference, SequencesExt

Element(value) == [kind |-> value.kind, size |-> value.size, text |-> value.text, inRange |-> value.inRange]
Mark(kind) == [kind |-> kind, size |-> 0, text |-> "", inRange |-> TRUE]
Name(member) == [Mark("key") EXCEPT !.size = member.size, !.text = member.name]

\* The events of a value, in the order of its text.
RECURSIVE Events(_)
Events(value) ==
    CASE value.kind = "array" ->
            <<Mark("startArray")>> \o FlattenSeq([i \in DOMAIN value.items |-> Events(value.items[i])])
                \o <<Mark("endArray")>>
      [] value.kind = "object" ->
            <<Mark("startObject")>>
                \o FlattenSeq([i \in DOMAIN value.members |->
                       <<Name(value.members[i])>> \o Events(value.members[i].value)])
                \o <<Mark("endObject")>>
      [] OTHER -> <<Element(value)>>
Text(value, bytes, clean) == [bytes |-> bytes, clean |-> clean, events |-> Events(value)]

-----------------------------------------------------------------------------
Scalar(kind, text, size, inRange) ==
    [kind |-> kind, text |-> text, size |-> size, inRange |-> inRange]
Small == {Scalar("scalar", "null", 4, TRUE), Scalar("string", "s", 1, TRUE)}
Leaves == Small \cup {Scalar("float", "1.5", 3, TRUE), Scalar("float", "1e999", 5, FALSE),
                      Scalar("integer", "7", 1, TRUE), Scalar("integer", "9223372036854775808", 19, FALSE)}
Arrays(values, n) == {[kind |-> "array", items |-> s] : s \in BoundedSeq(values, n)}
Members(values) == {[name |-> n, size |-> Len(n), value |-> v] : n \in {"a", "bb"}, v \in values}
Objects(values, n) == {[kind |-> "object", members |-> s] : s \in BoundedSeq(Members(values), n)}

Containers == Arrays(Small, 2) \cup Objects(Small, 2)
Nested == Arrays(Containers \cup Leaves, 2) \cup Objects(Arrays(Small, 1) \cup Objects(Small, 1) \cup Leaves, 2)
\* One container deeper than the ceiling allows a value to lie.
Deep == Arrays(Arrays(Containers, 1), 1) \cup Objects(Arrays(Objects(Small, 1), 1), 1)
MCValues == Leaves \cup Containers \cup Nested \cup Deep
MCDocuments ==
    {Text(v, 3, TRUE) : v \in MCValues}
        \cup {Text(v, 4, clean) : v \in Leaves, clean \in BOOLEAN}

Limits(input, nesting, n, strings, entries) ==
    [input |-> input, nesting |-> nesting, nodes |-> n, strings |-> strings, entries |-> entries]
MCParseLimits ==
    {Limits(3, 9, 9, 9, 9)} \cup {Limits(3, d, 9, 9, 9) : d \in {0, 1, 2}} \cup {Limits(3, 9, n, 9, 9) : n \in {1, 3, 4}}
        \cup {Limits(3, 9, 9, s, 9) : s \in {1, 3}} \cup {Limits(3, 9, 9, 9, e) : e \in {1, 2, 4}}

-----------------------------------------------------------------------------
(* The meaning and the cost of the values the texts are made from, by recursion *)

RECURSIVE Meaning(_)
Meaning(value) ==
    CASE value.kind = "array" ->
            [type |-> "array", items |-> [i \in DOMAIN value.items |-> Meaning(value.items[i])]]
      [] value.kind = "object" ->
            LET names == {value.members[i].name : i \in DOMAIN value.members}
                last(n) == CHOOSE i \in DOMAIN value.members :
                               /\ value.members[i].name = n
                               /\ \A j \in DOMAIN value.members : value.members[j].name = n => j <= i
            IN [type |-> "map", map |-> [n \in names |-> Meaning(value.members[last(n)].value)]]
      [] OTHER -> [type |-> value.kind, text |-> value.text]

Children(value) ==
    CASE value.kind = "array" -> value.items
      [] value.kind = "object" -> [i \in DOMAIN value.members |-> value.members[i].value]
      [] OTHER -> <<>>
Total(children, Of(_)) == FoldLeft(+, 0, [i \in DOMAIN children |-> Of(children[i])])
RECURSIVE Height(_), NodesOf(_), StringsOf(_), EntriesOf(_)
Height(value) == 1 + Max({0} \cup {Height(Children(value)[i]) : i \in DOMAIN Children(value)})
NodesOf(value) == 1 + Total(Children(value), NodesOf)
EntriesOf(value) == Len(Children(value)) + Total(Children(value), EntriesOf)
StringsOf(value) ==
    CASE value.kind = "array" -> Total(value.items, StringsOf)
      [] value.kind = "object" ->
            FoldLeft(+, 0, [i \in DOMAIN value.members |->
                               value.members[i].size + StringsOf(value.members[i].value)])
      [] value.kind \in {"string", "float"} -> value.size
      [] OTHER -> 0

\* Places among the events say of a value what its nesting says.
ASSUME PlacesSayAsMuch ==
    \A v \in MCValues :
        LET events == Events(v) IN
        /\ Meanings(events)[1] = Meaning(v)
        /\ Height(v) = 1 + Max({Depth(events, p) : p \in ValuesIn(events)})
        /\ NodesOf(v) = Cardinality(ValuesIn(events))
        /\ StringsOf(v) = Cardinality(Bytes(events)) /\ EntriesOf(v) = Cardinality(Entries(events))

=============================================================================
