---------------------------- MODULE ArchiveValidator ----------------------------
(***************************************************************************)
(* ArchiveValidator: a walk over a graph that nobody vouches for.  It must  *)
(* end, stay within the graph, and accept nothing but disjoint trees that  *)
(* make up the whole of it.                                                *)
(***************************************************************************)
EXTENDS ArchiveFormat

VARIABLES
    limits,
    graph,
    visited,        \* the nodes whose states_ is set
    parts,          \* dataParts_
    walk,           \* the nodes on the way to the current one, each with its next child
    trees,          \* how many trees have been entered: the root, then the partials
    verdict         \* "idle", "busy", "valid", or the reason of a refusal

validator == <<limits, graph, visited, parts, walk, trees, verdict>>

-----------------------------------------------------------------------------
(* One node *)

Nodes == DOMAIN graph.nodes
Node(i) == graph.nodes[i]

IndentationMetadata(record) ==
    /\ record.type = "Output" /\ record.flags = {"LambdaOnly", "PartialIndent"}
    /\ "data" \in record.presence
StringsFit(r) ==
    /\ \A slice \in {r.data, r.start, r.stop, r.original} : InTable(graph, slice)
    /\ "data" \in r.presence <=> r.type # "Root"
    /\ "data" \notin r.presence => r.data = Absent
    /\ "start" \in r.presence <=> "stop" \in r.presence
    /\ "start" \notin r.presence => r.start = Absent /\ r.stop = Absent
    /\ "original" \notin r.presence => r.original = Absent
    /\ {"start", "original"} \cap r.presence # {} => r.type = "Section"
\* Presence bits that mean nothing and reserved bytes count as one more element.
RecordFits(r, metadata) ==
    /\ r.type \in SerializableTypes /\ FlagsFit(r.type, r.flags)
    /\ "PartialIndent" \in r.flags => metadata
    /\ r.presence \subseteq {"data", "start", "stop", "original"}
    /\ StringsFit(r)
    /\ r.firstChild # 0 => r.type \in TypesWithChildren

PartsAt(i) == Parts(Node(i).type, Bytes(graph, Node(i).data))
\* Fault: a node counts as seen once the walk has left it.
Finished(i) == i \in visited /\ \A k \in DOMAIN walk : walk[k].node # i
\* states_ is not 0.
Seen(i) == i \in visited

\* validateNode, before its children: why it refuses
NodeRefusal(i, metadata) ==
    IF i \notin Nodes THEN "invalid"
    ELSE IF Len(walk) >= limits.nesting \/ Len(walk) >= NestingCeiling THEN "limit"
    ELSE IF Cardinality(visited) >= limits.nodes THEN "limit"
    ELSE IF Seen(i) \/ ~RecordFits(Node(i), metadata) THEN "invalid"
    ELSE IF PartsAt(i) > limits.partsPerNode \/ parts + PartsAt(i) > limits.parts THEN "limit"
    ELSE "none"

Refuse(reason) == verdict' = reason /\ UNCHANGED <<limits, graph, visited, parts, walk, trees>>
Enter(i, from) ==
    /\ visited' = visited \cup {i} /\ parts' = parts + PartsAt(i)
    /\ walk' = Append(from, [node |-> i, next |-> Node(i).firstChild])

-----------------------------------------------------------------------------
(* Operations *)

ValidatorInit ==
    /\ graph = Null /\ visited = {} /\ parts = 0 /\ walk = <<>> /\ trees = 0
    /\ verdict = "idle"

\* validate, up to the first tree; expected is 0 when a graph is about to be written
HeaderRefusal(g, l, expected) ==
    IF ~g.magic \/ g.nodes = <<>> THEN "invalid"
    ELSE IF g.version # "current" THEN "unsupported"
    ELSE IF Len(g.nodes) > l.nodes THEN "limit"
    ELSE IF expected # 0 /\ g.size # expected THEN "invalid"
    ELSE IF Len(g.strings) > l.strings THEN "limit"
    ELSE "busy"
Begin(g, l, v) ==
    /\ limits' = l /\ graph' = g
    /\ visited' = {} /\ parts' = 0 /\ walk' = <<>> /\ trees' = 0
    /\ verdict' = v

\* The trees in the order of validation: the root, then the partials by number.
RootOf(k) == IF k = 0 THEN graph.root ELSE graph.partials[k].root
NameOf(k) == Bytes(graph, graph.partials[k].name)
Ascends(k) == Less(NameOf(k - 1), NameOf(k))
NameFits(k) ==
    /\ InTable(graph, graph.partials[k].name) /\ NameOf(k) # <<>>
    /\ k > 1 => Ascends(k)
RootFits(k) ==
    /\ RootOf(k) \in Nodes /\ Node(RootOf(k)).nextSibling = 0
    /\ k = 0 => Node(RootOf(k)).type = "Root"
TreeRefusal(k) ==
    IF k > 0 /\ ~NameFits(k) THEN "invalid"
    ELSE IF ~RootFits(k) THEN "invalid"
    ELSE NodeRefusal(RootOf(k), FALSE)

\* validateRoot and validatePartial
EnterTree ==
    /\ verdict = "busy" /\ walk = <<>> /\ trees <= Len(graph.partials)
    /\ \/ /\ TreeRefusal(trees) = "none"
          /\ Enter(RootOf(trees), walk)
          /\ trees' = trees + 1
          /\ UNCHANGED <<limits, graph, verdict>>
       \/ TreeRefusal(trees) # "none" /\ Refuse(TreeRefusal(trees))

Current == walk[Len(walk)]
\* The next sibling of an indentation is the partial it belongs to.
IndentsPartial(child) ==
    /\ IndentationMetadata(child) /\ child.nextSibling # 0
    /\ InTable(graph, child.data) /\ \A i \in DOMAIN Bytes(graph, child.data) : Bytes(graph, child.data)[i] \in Blanks
    /\ Node(child.nextSibling).type = "Partial"
ChildRefusal(i) ==
    IF i \notin Nodes THEN "invalid"
    ELSE IF Node(i).nextSibling \notin Nodes \cup {0} THEN "invalid"
    ELSE IF "PartialIndent" \in Node(i).flags /\ ~IndentsPartial(Node(i)) THEN "invalid"
    ELSE NodeRefusal(i, "PartialIndent" \in Node(i).flags)

\* validateChildren, one child
EnterChild ==
    /\ verdict = "busy" /\ walk # <<>> /\ Current.next # 0
    /\ \/ /\ ChildRefusal(Current.next) = "none"
          /\ Enter(Current.next, [walk EXCEPT ![Len(walk)].next = Node(Current.next).nextSibling])
          /\ UNCHANGED <<limits, graph, trees, verdict>>
       \/ ChildRefusal(Current.next) # "none" /\ Refuse(ChildRefusal(Current.next))

\* validateNode, after its children
LeaveNode ==
    /\ verdict = "busy" /\ walk # <<>> /\ Current.next = 0
    /\ walk' = SubSeq(walk, 1, Len(walk) - 1)
    /\ UNCHANGED <<limits, graph, visited, parts, trees, verdict>>

\* validate, after the last tree
Conclusion == IF Cardinality(visited) = Len(graph.nodes) THEN "valid" ELSE "invalid"
Conclude ==
    /\ verdict = "busy" /\ walk = <<>> /\ trees > Len(graph.partials)
    /\ Refuse(Conclusion)

Validation == EnterTree \/ EnterChild \/ LeaveNode \/ Conclude

-----------------------------------------------------------------------------
(* Properties *)

\* The walk is bounded whatever the links are: no node is on it twice, it is no longer
\* than the limits allow, and none of its nodes lies outside the graph.
WalkBounded ==
    verdict = "busy" =>
        /\ Len(walk) <= limits.nesting /\ Len(walk) <= NestingCeiling
        /\ \A i \in DOMAIN walk : walk[i].node \in Nodes
        /\ \A i, j \in DOMAIN walk : walk[i].node = walk[j].node => i = j

=============================================================================
