------------------------------- MODULE NodeWriter -------------------------------
(***************************************************************************)
(* Node::serialize: a walk that writes every node before its children and  *)
(* their size into its header after them.                                  *)
(***************************************************************************)
EXTENDS NodeFormat

CONSTANTS Trees     \* the trees an application serializes

VARIABLES
    tree,
    writing,        \* the nodes whose children are being written, the innermost last
    output, size,   \* the records and their length in bytes
    written         \* "idle", "busy", "done" or "failed"

writer == <<tree, writing, output, size, written>>

-----------------------------------------------------------------------------
(* The text of the children, in the default delimiters *)

Sigil(node) ==
    CASE node.type = "Comment" -> "!" [] node.type = "Partial" -> ">" [] node.type = "Negate" -> "^"
      [] node.type = "Section" -> "#" [] node.type = "Stop" -> "/"
      [] OTHER -> IF "Escape" \in node.flags THEN "" ELSE "&"
\* appendNodeTemplate
RECURSIVE NodeText(_), ChildrenText(_)
NodeText(node) ==
    CASE node.type = "Output" -> node.data
      [] node.type \in {"Comment", "Partial"} -> <<"{{", Sigil(node)>> \o node.data \o <<"}}">>
      [] node.type \in {"Negate", "Section", "Stop", "Variable"} ->
            <<"{{", Sigil(node)>> \o node.data \o <<"}}">> \o ChildrenText(node.children)
      [] node.type = "Root" -> ChildrenText(node.children)
      [] OTHER -> <<>>
ChildrenText(children) ==
    IF children = <<>> THEN <<>> ELSE NodeText(Head(children)) \o ChildrenText(Tail(children))
\* childrenTemplateString leaves out the tag that closes the section.  Its limits
\* follow from those the children have passed: its text is shorter than they are.
NotStop(node) == node.type # "Stop"
SectionText(node) == ChildrenText(SelectSeq(node.children, NotStop))

\* Custom delimiters and other spellings of the tags would be lost.
PreservesDelimiters(node) == node.type = "Section" => node.delimiters \in {Null, "default"}
PreservesText(node) == node.type = "Section" /\ node.original # Null => SectionText(node) = node.original

-----------------------------------------------------------------------------
(* Operations *)

WriterInit ==
    /\ tree = Null /\ writing = <<>> /\ output = <<>> /\ size = 0
    /\ written = "idle"

\* serializeValue
Serialize(t, l) ==
    /\ written = "idle"
    /\ tree' = t /\ limits' = l /\ state' = NothingCharged
    /\ written' = "busy" /\ UNCHANGED <<writing, output, size>>

Container == writing[Len(writing)]
AllChildrenWritten == writing # <<>> /\ Container.next > Len(Container.node.children)
\* The node the walk has come to.
Subject == IF writing = <<>> THEN tree ELSE Container.node.children[Container.next]

\* Fault: the largest size is let through, and the terminator does not fit.
DataFitsButTerminator(node) == node.data # Null => Len(node.data) < DataWidth
\* serialMaxDataSize and serialMaxChildren
DataFitsField(node) == node.data # Null => Len(node.data) < DataWidth - 1
CountFitsField(node) == Len(node.children) <= CountWidth - 1

DataSize(node) == IF node.data = Null THEN 0 ELSE Len(node.data) + 1
Acceptable(node) ==
    /\ NodeFits(Len(writing))
    /\ ShapeFits(node.type, node.flags, node.data # Null, Len(node.children))
    /\ PreservesDelimiters(node)
    /\ "PartialIndent" \in node.flags => writing # <<>> /\ IsPartialIndentation(node)
    /\ IndentationFits(node.children)
    /\ DataFitsField(node) /\ CountFitsField(node)
    /\ PartsFit(node.type, node.data)
    /\ size + HeaderSize + DataSize(node) <= limits.output
\* The header's integers keep their width.
RecordOf(node) ==
    [magic |-> TRUE, type |-> node.type, flags |-> node.flags, size |-> DataSize(node) % DataWidth,
     count |-> Len(node.children) % CountWidth, childrenSize |-> 0, data |-> node.data, terminated |-> TRUE]

Fail == written' = "failed" /\ UNCHANGED <<tree, writing, output, size, limits, state>>

\* serializeNode, up to its children
WriteNode ==
    /\ written = "busy" /\ ~AllChildrenWritten
    /\ \/ /\ Acceptable(Subject)
          /\ output' = Append(output, RecordOf(Subject))
          /\ size' = size + HeaderSize + DataSize(Subject)
          /\ writing' = Append(
                IF writing = <<>> THEN <<>> ELSE [writing EXCEPT ![Len(writing)].next = Container.next + 1],
                [node |-> Subject, next |-> 1, header |-> Len(output) + 1, start |-> size'])
          /\ Charge(Subject.type, Subject.data)
          /\ UNCHANGED <<tree, written, limits>>
       \/ ~Acceptable(Subject) /\ Fail

\* Fault: a node's size counts its data.
SizeWithData == size - Container.start + DataSize(Container.node)
ChildrenSize == size - Container.start

\* serializeNode, after its children
FinishNode ==
    /\ written = "busy" /\ AllChildrenWritten
    /\ \/ /\ ChildrenSize < SizeWidth /\ PreservesText(Container.node)
          /\ output' = [output EXCEPT ![Container.header].childrenSize = ChildrenSize]
          /\ writing' = SubSeq(writing, 1, Len(writing) - 1)
          /\ written' = IF Len(writing) = 1 THEN "done" ELSE "busy"
          /\ UNCHANGED <<tree, size, limits, state>>
       \/ ~(ChildrenSize < SizeWidth /\ PreservesText(Container.node)) /\ Fail

=============================================================================
