----------------------------- MODULE JSONReference -----------------------------
(* What the events of a JSON text mean and cost, each by its place among them. *)
EXTENDS JSONData, FiniteSets

ValuesIn(events) == {p \in DOMAIN events : events[p].kind \in Scalars \cup Starts}
Inside(events, p) == {c \in ValuesIn(events) : Around(events)[c] = p}

\* The only element of a set.
The(S) == CHOOSE x \in S : TRUE
\* The meanings of some events, in their order and by the names before them, of which the
\* last of two that are equal counts.
Listed(meanings, places) ==
    [k \in 1..Cardinality(places) |->
        meanings[The({c \in places : Cardinality({b \in places : b <= c}) = k})]]
Named(events, meanings, places) ==
    LET name(c) == events[c - 1].text IN
    [n \in {name(c) : c \in places} |->
        meanings[The({c \in places : name(c) = n /\ \A b \in places : name(b) = n => b <= c})]]
\* What a container holds, or will hold when it ends.
Holding(events, meanings, p, places) ==
    IF events[p].kind = "startArray" THEN [type |-> "array", items |-> Listed(meanings, places)]
    ELSE [type |-> "map", map |-> Named(events, meanings, places)]

\* What the value that begins at an event means.
Meanings(events) ==
    LET meanings[p \in DOMAIN events] ==
            IF events[p].kind \in Starts THEN Holding(events, meanings, p, Inside(events, p))
            ELSE ScalarValue(events[p])
    IN meanings

Amount(kinds, before, events) == Cardinality({p \in DOMAIN events : p < before /\ events[p].kind \in kinds})
Depth(events, p) == Amount(Starts, p, events) - Amount(Ends, p, events)
\* The bytes of names, strings and floats; a name is an entry, and so is an element of an array.
Bytes(events) ==
    UNION {{p} \X (1..events[p].size) : p \in {p \in DOMAIN events : events[p].kind \in {"key", "string", "float"}}}
Entries(events) ==
    {p \in DOMAIN events :
        \/ events[p].kind = "key"
        \/ p \in ValuesIn(events) /\ Around(events)[p] # 0 /\ events[Around(events)[p]].kind = "startArray"}

-----------------------------------------------------------------------------
(* Properties *)

DocumentFits ==
    LET events == document.events IN
    /\ \A p \in ValuesIn(events) : Depth(events, p) < limits.nesting /\ Depth(events, p) < ParseNestingCeiling
    /\ Cardinality(ValuesIn(events)) <= limits.nodes /\ Cardinality(Bytes(events)) <= limits.strings
    /\ Cardinality(Entries(events)) <= limits.entries
DocumentInRange ==
    \A p \in ValuesIn(document.events) : document.events[p].kind \in Scalars => document.events[p].inRange

\* fromJSON returns the value the text means, however containers nest and names repeat.
ParsesToMeaning == outcome = "done" => parsed = <<Meanings(document.events)[1]>>

\* It fails exactly when the text is no JSON, too long, out of range or over a limit:
\* every value, entry and string is charged, once ("Every field is an enforced maximum",
\* data.hpp:38); and the handlers' own protocol errors never occur.
RejectsExactly ==
    /\ outcome # "protocol"
    /\ outcome = "rejected" => ~Readable(document) \/ ~DocumentInRange \/ ~DocumentFits
    /\ outcome = "done" => Readable(document) /\ DocumentInRange /\ DocumentFits

=============================================================================
