------------------------------- MODULE NodeFormat -------------------------------
(***************************************************************************)
(* The legacy serial format of a tree (Node::serialize, Node::unserialize): *)
(* what a node may look like and what both directions charge for it.       *)
(*                                                                         *)
(* A tree is a record whose field children is the sequence of its          *)
(* subtrees.  Serial data is the sequence of the records that stand for    *)
(* the nodes, parents first; a record keeps the header's fields and the    *)
(* data that follows it, and its length in bytes is that of the code.      *)
(***************************************************************************)
EXTENDS NodeShapes, Naturals, Sequences, FiniteSets

CONSTANTS
    Null,
    DataWidth, CountWidth, SizeWidth,   \* 2^24, 2^16 and 2^32: the values a header field can hold
    LimitChoices                        \* Node::SerializationLimits

ASSUME WidthAssumption == DataWidth \in Nat \ {0} /\ CountWidth \in Nat \ {0} /\ SizeWidth \in Nat \ {0}
ASSUME SerialLimitsAssumption ==
    LimitChoices \subseteq [input : Nat, output : Nat, nesting : Nat, nodes : Nat, partsPerNode : Nat, parts : Nat]

VARIABLES
    limits,         \* of the serialization that goes on
    state           \* its SerialState: what it has charged

HeaderSize == 14

-----------------------------------------------------------------------------
(* Shapes *)

\* validateNodeShape
ShapeFits(type, flags, hasData, count) ==
    /\ type \in SerializableTypes /\ FlagsFit(type, flags)
    /\ hasData = (type # "Root")
    /\ count > 0 => type \in TypesWithChildren

IsPartialIndentation(node) ==
    /\ node.type = "Output" /\ node.flags = {"LambdaOnly", "PartialIndent"}
    /\ node.data # Null /\ \A i \in DOMAIN node.data : node.data[i] = " "
\* validatePartialIndentationChildren: its next sibling is the partial it belongs to.
IndentationFits(children) ==
    \A i \in DOMAIN children :
        "PartialIndent" \in children[i].flags =>
            /\ IsPartialIndentation(children[i])
            /\ i < Len(children) /\ children[i + 1].type = "Partial"

-----------------------------------------------------------------------------
(* Charges *)

NothingCharged == [nodes |-> 0, parts |-> 0]
\* checkSerialBudget
NodeFits(depth) == depth < limits.nesting /\ state.nodes < limits.nodes
\* The parts of a dotted name; other data is not split.
Parts(type, data) ==
    IF data # Null /\ type \in DottedTypes THEN Cardinality({i \in DOMAIN data : data[i] = "."}) + 1 ELSE 0
\* validateNodeData
PartsFit(type, data) ==
    Parts(type, data) <= limits.partsPerNode /\ state.parts + Parts(type, data) <= limits.parts
Charge(type, data) == state' = [nodes |-> state.nodes + 1, parts |-> state.parts + Parts(type, data)]

=============================================================================
