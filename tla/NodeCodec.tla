-------------------------------- MODULE NodeCodec --------------------------------
(***************************************************************************)
(* An application that serializes a tree and reads the result back, or     *)
(* reads bytes from elsewhere; and what the format means, said of whole     *)
(* trees and of the paths in them.                                         *)
(***************************************************************************)
EXTENDS NodeWriter, NodeReader, FiniteSetsExt

vars == <<limits, state, writer, reader>>

Init ==
    /\ limits \in LimitChoices /\ state = NothingCharged
    /\ WriterInit /\ ReaderInit

\* The bytes that were written, in a buffer of their own.
WrittenSerial == [records |-> output, offset |-> 0, length |-> size]

Write ==
    /\ \/ written = "idle" /\ read = "idle" /\ \E t \in Trees : Serialize(t, limits)
       \/ WriteNode
       \/ FinishNode
    /\ UNCHANGED reader
Read ==
    /\ \/ written = "done" /\ Unserialize(WrittenSerial, limits)
       \/ written = "idle" /\ read = "idle" /\ \E s \in Serials : Unserialize(s, limits)
       \/ ReadNode
       \/ FinishRead
    /\ UNCHANGED writer
Ended ==
    /\ written = "failed" \/ read \in {"done", "failed"}
    /\ UNCHANGED vars
Next == Write \/ Read \/ Ended

Spec == Init /\ [][Next]_vars

-----------------------------------------------------------------------------
(* Reference *)

\* A node is named by the way to it: the indices of the children from the root on.
RECURSIVE Ways(_), NodeAt(_, _), Encoding(_), Restored(_)
Ways(t) == {<<>>} \cup UNION {{<<i>> \o w : w \in Ways(t.children[i])} : i \in DOMAIN t.children}
NodeAt(t, way) == IF way = <<>> THEN t ELSE NodeAt(t.children[Head(way)], Tail(way))

BytesOf(node) == HeaderSize + (IF node.data = Null THEN 0 ELSE Len(node.data) + 1)
BytesBelow(t) == MapThenSumSet(LAMBDA w : BytesOf(NodeAt(t, w)), Ways(t) \ {<<>>})
Bytes(t) == BytesOf(t) + BytesBelow(t)
TotalParts(t) == MapThenSumSet(LAMBDA w : Parts(NodeAt(t, w).type, NodeAt(t, w).data), Ways(t))

\* The records of the tree, with exact sizes.
Encoding(t) ==
    LET record == [magic |-> TRUE, type |-> t.type, flags |-> t.flags,
                   size |-> BytesOf(t) - HeaderSize, count |-> Len(t.children),
                   childrenSize |-> BytesBelow(t), data |-> t.data, terminated |-> TRUE]
        rest[i \in 0..Len(t.children)] == IF i = 0 THEN <<>> ELSE rest[i - 1] \o Encoding(t.children[i])
    IN <<record>> \o rest[Len(t.children)]

\* The same tree, without what the format has no room for.
Restored(t) ==
    [t EXCEPT !.delimiters = IF t.type = "Section" THEN "default" ELSE Null, !.original = Null,
              !.children = [i \in DOMAIN t.children |-> Restored(t.children[i])]]

\* The sibling that follows the node a way leads to.
HasNext(t, way) == way # <<>> /\ way[Len(way)] < Len(NodeAt(t, SubSeq(way, 1, Len(way) - 1)).children)
NextTo(t, way) == NodeAt(t, [way EXCEPT ![Len(way)] = @ + 1])

ValidNode(t, way) ==
    LET node == NodeAt(t, way) IN
    /\ node.type \in SerializableTypes
    /\ node.type = "Root" <=> node.data = Null
    /\ node.children # <<>> => node.type \in TypesWithChildren
    /\ \/ node.flags \subseteq {"Escape"}
       \/ node.type = "Output" /\ node.flags = {"LambdaOnly"}
       \/ /\ IsPartialIndentation(node)
          /\ HasNext(t, way) /\ NextTo(t, way).type = "Partial"
    /\ node.data # Null => Len(node.data) + 1 < DataWidth
    /\ Len(node.children) < CountWidth /\ BytesBelow(node) < SizeWidth
WithinLimits(t, l) ==
    /\ Cardinality(Ways(t)) <= l.nodes /\ \A w \in Ways(t) : Len(w) < l.nesting
    /\ TotalParts(t) <= l.parts
    /\ \A w \in Ways(t) : Parts(NodeAt(t, w).type, NodeAt(t, w).data) <= l.partsPerNode
Valid(t, l) == WithinLimits(t, l) /\ \A w \in Ways(t) : ValidNode(t, w)
\* What the format cannot express is refused, not lost.
Expressible(t) ==
    \A w \in Ways(t) : NodeAt(t, w).type = "Section" =>
        /\ NodeAt(t, w).delimiters \in {Null, "default"}
        /\ NodeAt(t, w).original \in {Null, SectionText(NodeAt(t, w))}

-----------------------------------------------------------------------------
(* Properties *)

\* A tree is written exactly when it is valid, fits the limits and loses nothing, and
\* then as its encoding: every size in a header is that of the records below it.
WritesExactly ==
    /\ written = "done" =>
          Valid(tree, limits) /\ Expressible(tree) /\ Bytes(tree) <= limits.output /\ output = Encoding(tree)
    /\ written = "failed" => ~(Valid(tree, limits) /\ Expressible(tree) /\ Bytes(tree) <= limits.output)

\* What was written is read back as the same tree (test: "serialize round trip"), with
\* the sections' delimiters filled in, unless the input is limited more than the output;
\* and what was read is the one tree with that encoding, so writing it gives the same
\* bytes (fuzz_node_unserialize.cpp:77 compares them).
RoundTrips ==
    /\ written = "done" /\ size <= limits.input =>
          read # "failed" /\ (read = "done" => result = Restored(tree))
    /\ read = "done" => serial.records = Encoding(result)

=============================================================================
