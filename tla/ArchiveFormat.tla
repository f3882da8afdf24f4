----------------------------- MODULE ArchiveFormat -----------------------------
(***************************************************************************)
(* An archived template: a graph of fixed-size records that refer to each  *)
(* other by index and to a table of bytes by ranges, in a frame.           *)
(*                                                                         *)
(* Indices count from 1 here, and 0 is invalidIndex.  An archive is the    *)
(* record of what its bytes say; its size is their number.                 *)
(***************************************************************************)
EXTENDS NodeShapes, Naturals, Sequences, FiniteSets

CONSTANTS
    Null,
    LimitChoices,       \* ArchivedTemplateLimits
    NestingCeiling      \* renderNestingCeiling

ASSUME ArchiveLimitsAssumption ==
    /\ LimitChoices \subseteq
          [bytes : Nat, nesting : Nat, nodes : Nat, strings : Nat, partsPerNode : Nat, parts : Nat]
    /\ NestingCeiling \in Nat

\* Bytes that the code tells apart.
Dot == 46
Blanks == {9, 32}

PreambleSize == 24
HeaderSize == 16    \* type version and integrity
GraphSize == 96
NodeSize == 48
PartialSize == 12
\* Without padding: every record's size is a multiple of the next one's alignment.
SizeOf(nodes, partials, strings) ==
    PreambleSize + HeaderSize + GraphSize + nodes * NodeSize + partials * PartialSize + strings

\* What the fields of a graph can hold.
Slices == [offset : Nat, length : Nat]
ArchiveNodes ==
    [type : STRING, flags : SUBSET STRING, presence : SUBSET STRING,
     data : Slices, start : Slices, stop : Slices, original : Slices,
     firstChild : Nat, nextSibling : Nat]
ArchivePartials == [name : Slices, root : Nat]
ArchiveGraphs ==
    [magic : BOOLEAN, version : STRING, size : Nat, root : Nat,
     nodes : Seq(ArchiveNodes), partials : Seq(ArchivePartials), strings : Seq(0..255)]

Absent == [offset |-> 0, length |-> 0]
InTable(graph, slice) == slice.offset + slice.length <= Len(graph.strings)
Bytes(graph, slice) == SubSeq(graph.strings, slice.offset + 1, slice.offset + slice.length)

\* A dotted name's parts; other data is not split.
Parts(type, data) == IF type \in DottedTypes THEN Cardinality({i \in DOMAIN data : data[i] = Dot}) + 1 ELSE 0

\* std::string's order.
Less(s, t) ==
    \/ Len(s) < Len(t) /\ s = SubSeq(t, 1, Len(s))
    \/ \E i \in DOMAIN s \cap DOMAIN t : s[i] < t[i] /\ \A j \in 1..(i - 1) : s[j] = t[j]

=============================================================================
