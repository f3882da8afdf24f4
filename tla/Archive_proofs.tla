----------------------------- MODULE Archive_proofs -----------------------------
(***************************************************************************)
(* Theorems about the archive validator and the loader around it, for      *)
(* archives of any size, whatever they contain, and for any limits.        *)
(***************************************************************************)
EXTENDS ArchiveLoader, FiniteSetTheorems, SequenceTheorems, WellFoundedInduction, TLAPS

Verdicts == {"busy", "valid", "invalid", "limit", "unsupported"}
\* Whatever is validated next: it is refused at once unless its header fits.
BeginAny ==
    \E g \in ArchiveGraphs, l \in LimitChoices, n \in Nat, v \in Verdicts \ {"valid"} :
        /\ v = "busy" => HeaderRefusal(g, l, n) = "busy"
        /\ Begin(g, l, v)
ValidatorSpec ==
    limits \in LimitChoices /\ ValidatorInit /\ [][BeginAny \/ Validation]_validator

-----------------------------------------------------------------------------
(* What a render relies on *)

Links == Nodes \cup {0}
\* Nothing that is read through node i lies outside of the graph.
Contained(i) ==
    /\ Node(i).firstChild \in Links /\ Node(i).nextSibling \in Links
    /\ \A slice \in {Node(i).data, Node(i).start, Node(i).stop, Node(i).original} : InTable(graph, slice)
\* A graph that was found valid is safe to read (the asserts at cista.cpp:1273 and the
\* subtraction in archiveSliceView): every link and root leads to a node or nowhere, and
\* every string lies in the table.
AcceptedIsContained ==
    verdict = "valid" =>
        /\ \A i \in Nodes : Contained(i)
        /\ \A k \in 0..Len(graph.partials) : RootOf(k) \in Nodes

-----------------------------------------------------------------------------
(* The inductive invariant *)

Entries == [node : Nodes, next : Nat]
WalkTyped ==
    /\ graph \in ArchiveGraphs
    /\ walk \in Seq(Entries)
    /\ visited \subseteq Nodes /\ trees \in Nat
WalkNodesVisited == \A k \in DOMAIN walk : walk[k].node \in visited
\* Of a visited node only the first child may still be unchecked, and then it is the
\* next that the walk looks at from there.
VisitedContained ==
    \A i \in visited :
        /\ Contained(i) \/ \E k \in DOMAIN walk : walk[k] = [node |-> i, next |-> Node(i).firstChild]
        /\ Node(i).nextSibling \in Links
        /\ \A slice \in {Node(i).data, Node(i).start, Node(i).stop, Node(i).original} : InTable(graph, slice)
RootsContained == \A k \in Nat : k < trees => RootOf(k) \in Nodes
WalkInv ==
    /\ limits \in LimitChoices
    /\ verdict = "busy" =>
          WalkTyped /\ WalkNodesVisited /\ VisitedContained /\ RootsContained /\ WalkBounded
    /\ AcceptedIsContained

LEMMA WalkInvInit == limits \in LimitChoices /\ ValidatorInit => WalkInv
BY DEF ValidatorInit, WalkInv, AcceptedIsContained

LEMMA LimitsTyped ==
    ASSUME limits \in LimitChoices PROVE limits.nesting \in Nat /\ NestingCeiling \in Nat
BY ArchiveLimitsAssumption

\* A walk starts with nothing.
LEMMA WalkInvBegin == ASSUME BeginAny PROVE WalkInv'
<1>1. PICK g \in ArchiveGraphs, l \in LimitChoices, v \in Verdicts \ {"valid"} : Begin(g, l, v)
  BY DEF BeginAny
<1>2. graph' = g /\ limits' = l /\ visited' = {} /\ walk' = <<>> /\ trees' = 0 /\ verdict' # "valid"
  BY <1>1 DEF Begin
<1>3. l.nesting \in Nat /\ NestingCeiling \in Nat
  BY ArchiveLimitsAssumption
<1>4. WalkTyped' /\ WalkNodesVisited' /\ VisitedContained' /\ RootsContained'
  BY <1>2 DEF WalkTyped, WalkNodesVisited, VisitedContained, RootsContained
<1>5. WalkBounded'
  BY <1>2, <1>3 DEF WalkBounded
<1> QED BY <1>2, <1>4, <1>5 DEF WalkInv, AcceptedIsContained

LEMMA WalkInvRefuse ==
    ASSUME WalkInv, NEW reason, reason \notin {"busy", "valid"}, Refuse(reason) PROVE WalkInv'
BY DEF WalkInv, Refuse, AcceptedIsContained, WalkBounded

LEMMA WalkInvUnchanged == ASSUME WalkInv, UNCHANGED validator PROVE WalkInv'
BY DEF WalkInv, validator, AcceptedIsContained, WalkBounded, WalkTyped, WalkNodesVisited, VisitedContained,
       RootsContained, Contained, Links, Entries, Nodes, Node, RootOf, InTable

-----------------------------------------------------------------------------
(* Steps of the walk *)

\* What validateNode and its callers have checked of a node before they enter it.
LEMMA AcceptedNode ==
    ASSUME NEW i, NEW metadata, NodeRefusal(i, metadata) = "none"
    PROVE  /\ i \in Nodes /\ i \notin visited
           /\ ~(Len(walk) >= limits.nesting) /\ ~(Len(walk) >= NestingCeiling)
           /\ \A slice \in {Node(i).data, Node(i).start, Node(i).stop, Node(i).original} : InTable(graph, slice)
BY DEF NodeRefusal, Seen, RecordFits, StringsFit

\* Entering a node puts it on the walk with its first child still to be checked.
LEMMA Entered ==
    ASSUME WalkInv, verdict = "busy", UNCHANGED <<limits, graph, verdict>>,
           NEW i, NEW metadata, NodeRefusal(i, metadata) = "none", Node(i).nextSibling \in Links,
           NEW from \in Seq(Entries), Len(from) = Len(walk),
           \A k \in DOMAIN walk : from[k].node = walk[k].node,
           \A k \in DOMAIN walk : from[k] = walk[k] \/ walk[k].next \in Links,
           Enter(i, from)
    PROVE  /\ WalkNodesVisited' /\ VisitedContained' /\ WalkBounded'
           /\ walk' \in Seq(Entries) /\ visited' \subseteq Nodes
<1> DEFINE entry == [node |-> i, next |-> Node(i).firstChild]
<1>1. /\ i \in Nodes /\ i \notin visited
      /\ ~(Len(walk) >= limits.nesting) /\ ~(Len(walk) >= NestingCeiling)
      /\ \A slice \in {Node(i).data, Node(i).start, Node(i).stop, Node(i).original} : InTable(graph, slice)
  BY AcceptedNode
<1>2. WalkTyped /\ WalkNodesVisited /\ VisitedContained /\ WalkBounded
  BY DEF WalkInv
<1>3. Node(i) \in ArchiveNodes
  BY <1>1, <1>2 DEF WalkTyped, ArchiveGraphs, Nodes, Node
<1>4. entry \in Entries
  BY <1>1, <1>3 DEF ArchiveNodes, Entries
<1>5. walk' = Append(from, entry) /\ visited' = visited \cup {i} /\ graph' = graph /\ limits' = limits
  BY DEF Enter
<1>6. /\ walk' \in Seq(Entries) /\ Len(walk') = Len(walk) + 1
      /\ DOMAIN walk = 1..Len(walk) /\ DOMAIN walk' = 1..(Len(walk) + 1) /\ Len(walk) \in Nat
      /\ \A k \in DOMAIN walk : walk'[k] = from[k] /\ k \in DOMAIN walk'
      /\ walk'[Len(walk) + 1] = entry
  BY <1>2, <1>4, <1>5 DEF WalkTyped
<1>7. \A k \in DOMAIN walk' : walk'[k].node = (IF k = Len(walk) + 1 THEN i ELSE walk[k].node)
  BY <1>6
<1>8. WalkNodesVisited'
  BY <1>2, <1>5, <1>6, <1>7 DEF WalkNodesVisited
<1>9. WalkBounded'
  <2>1. Len(walk') <= limits'.nesting /\ Len(walk') <= NestingCeiling
    <3>1. limits.nesting \in Nat /\ NestingCeiling \in Nat
      BY LimitsTyped DEF WalkInv
    <3> QED BY <1>1, <1>5, <1>6, <3>1
  <2>2. \A j, k \in DOMAIN walk' : walk'[j].node = walk'[k].node => j = k
    <3> SUFFICES ASSUME NEW j \in DOMAIN walk', NEW k \in DOMAIN walk', walk'[j].node = walk'[k].node
                 PROVE  j = k
      OBVIOUS
    <3>1. \A m \in DOMAIN walk' : m = Len(walk) + 1 \/ m \in DOMAIN walk
      BY <1>6
    <3>2. \A m \in DOMAIN walk : m # Len(walk) + 1 /\ walk'[m].node = walk[m].node
      BY <1>6, <1>7
    <3>3. walk'[Len(walk) + 1].node = i
      BY <1>6
    <3>4. \A m \in DOMAIN walk : walk'[m].node # i
      BY <1>1, <1>2, <3>2 DEF WalkNodesVisited
    <3>5. CASE j \in DOMAIN walk /\ k \in DOMAIN walk
      BY <1>2, <3>2, <3>5 DEF WalkBounded
    <3> QED BY <3>1, <3>3, <3>4, <3>5
  <2>3. \A k \in DOMAIN walk' : walk'[k].node \in Nodes'
    <3>1. \A k \in DOMAIN walk' : walk'[k] \in Entries
      BY <1>6, ElementOfSeq
    <3> QED BY <1>5, <3>1 DEF Nodes, Entries
  <2> QED BY <2>1, <2>2, <2>3 DEF WalkBounded
<1>10. VisitedContained'
  <2> SUFFICES ASSUME NEW j \in visited \cup {i}
               PROVE  /\ Contained(j) \/ \E k \in DOMAIN walk' : walk'[k] = [node |-> j, next |-> Node(j).firstChild]
                      /\ Node(j).nextSibling \in Links
                      /\ \A slice \in {Node(j).data, Node(j).start, Node(j).stop, Node(j).original} :
                            InTable(graph, slice)
    BY <1>5 DEF VisitedContained, Contained, Links, Nodes, Node, InTable
  <2>1. CASE j = i
    BY <1>1, <1>6, <2>1
  <2>2. CASE j # i
    <3>1. /\ Contained(j) \/ \E k \in DOMAIN walk : walk[k] = [node |-> j, next |-> Node(j).firstChild]
          /\ Node(j).nextSibling \in Links
          /\ \A slice \in {Node(j).data, Node(j).start, Node(j).stop, Node(j).original} : InTable(graph, slice)
      BY <1>2, <2>2 DEF VisitedContained
    <3>2. CASE Contained(j)
      BY <3>1, <3>2
    <3>3. ASSUME NEW k \in DOMAIN walk, walk[k] = [node |-> j, next |-> Node(j).firstChild]
          PROVE  Contained(j) \/ walk'[k] = [node |-> j, next |-> Node(j).firstChild]
      <4>1. CASE from[k] = walk[k]
        BY <1>6, <3>3, <4>1
      <4>2. CASE walk[k].next \in Links
        BY <3>1, <3>3, <4>2 DEF Contained
      <4> QED BY <4>1, <4>2
    <3> QED BY <1>6, <3>1, <3>2, <3>3
  <2> QED BY <2>1, <2>2
<1> QED BY <1>1, <1>2, <1>5, <1>6, <1>8, <1>9, <1>10 DEF WalkTyped

LEMMA WalkInvEnterTree == ASSUME WalkInv, EnterTree PROVE WalkInv'
<1>1. verdict = "busy" /\ walk = <<>> /\ WalkTyped /\ RootsContained
  BY DEF EnterTree, WalkInv
<1>2. CASE TreeRefusal(trees) # "none"
  <2>1. Refuse(TreeRefusal(trees)) /\ TreeRefusal(trees) \in {"invalid", "limit"}
    BY <1>2 DEF EnterTree, TreeRefusal, NodeRefusal
  <2> QED BY <2>1, WalkInvRefuse
<1>3. CASE TreeRefusal(trees) = "none"
  <2>1. /\ Enter(RootOf(trees), walk) /\ trees' = trees + 1 /\ UNCHANGED <<limits, graph, verdict>>
        /\ RootFits(trees) /\ NodeRefusal(RootOf(trees), FALSE) = "none"
    BY <1>3 DEF EnterTree, TreeRefusal
  <2>2. /\ WalkNodesVisited' /\ VisitedContained' /\ WalkBounded'
        /\ walk' \in Seq(Entries) /\ visited' \subseteq Nodes
    <3>1. Node(RootOf(trees)).nextSibling \in Links
      BY <2>1 DEF RootFits, Links
    <3> QED BY <1>1, <2>1, <3>1, Entered DEF WalkTyped
  <2>3. WalkTyped'
    BY <1>1, <2>1, <2>2 DEF WalkTyped, Entries, Nodes
  <2>4. RootsContained'
    BY <1>1, <2>1 DEF RootsContained, RootFits, RootOf, Nodes, WalkTyped
  <2> QED BY <1>1, <2>1, <2>2, <2>3, <2>4 DEF WalkInv, AcceptedIsContained
<1> QED BY <1>2, <1>3

LEMMA WalkInvEnterChild == ASSUME WalkInv, EnterChild PROVE WalkInv'
<1> DEFINE from == [walk EXCEPT ![Len(walk)].next = Node(Current.next).nextSibling]
<1>1. verdict = "busy" /\ walk # <<>> /\ Current.next # 0 /\ WalkTyped /\ RootsContained
  BY DEF EnterChild, WalkInv
<1>2. CASE ChildRefusal(Current.next) # "none"
  <2>1. Refuse(ChildRefusal(Current.next)) /\ ChildRefusal(Current.next) \in {"invalid", "limit"}
    BY <1>2 DEF EnterChild, ChildRefusal, NodeRefusal
  <2> QED BY <2>1, WalkInvRefuse
<1>3. CASE ChildRefusal(Current.next) = "none"
  <2>1. /\ Enter(Current.next, from) /\ UNCHANGED <<limits, graph, trees, verdict>>
        /\ Current.next \in Nodes /\ Node(Current.next).nextSibling \in Links
        /\ NodeRefusal(Current.next, "PartialIndent" \in Node(Current.next).flags) = "none"
    BY <1>3 DEF EnterChild, ChildRefusal, Links
  <2>2. Node(Current.next) \in ArchiveNodes
    BY <1>1, <2>1 DEF WalkTyped, ArchiveGraphs, Nodes, Node
  <2>3. /\ from \in Seq(Entries) /\ Len(from) = Len(walk)
        /\ \A k \in DOMAIN walk : from[k].node = walk[k].node
        /\ \A k \in DOMAIN walk : from[k] = walk[k] \/ walk[k].next \in Links
    <3>1. Node(Current.next).nextSibling \in Nat
      BY <2>2 DEF ArchiveNodes
    <3>2. Len(walk) \in DOMAIN walk /\ walk \in Seq(Entries)
      BY <1>1 DEF WalkTyped
    <3> DEFINE entry == [walk[Len(walk)] EXCEPT !.next = Node(Current.next).nextSibling]
    <3>3. /\ walk[Len(walk)] \in Entries /\ Len(walk) \in 1..Len(walk) /\ DOMAIN walk = 1..Len(walk)
      BY <3>2, ElementOfSeq
    <3>4. entry \in Entries /\ entry.node = walk[Len(walk)].node
      BY <3>1, <3>3 DEF Entries
    <3>5. from = [walk EXCEPT ![Len(walk)] = entry]
      OBVIOUS
    <3> HIDE DEF entry, from
    <3>6. /\ from \in Seq(Entries) /\ Len(from) = Len(walk)
          /\ \A k \in 1..Len(walk) : from[k] = IF k = Len(walk) THEN entry ELSE walk[k]
      BY <3>2, <3>3, <3>4, <3>5, ExceptSeq
    <3>7. \A k \in DOMAIN walk : from[k].node = walk[k].node
      BY <3>3, <3>4, <3>6
    <3>8. walk[Len(walk)].next \in Links
      BY <2>1 DEF Current, Links
    <3> QED BY <3>3, <3>6, <3>7, <3>8
  <2> HIDE DEF from
  <2>4. /\ WalkNodesVisited' /\ VisitedContained' /\ WalkBounded'
        /\ walk' \in Seq(Entries) /\ visited' \subseteq Nodes
    BY <1>1, <2>1, <2>3, Entered
  <2>5. WalkTyped' /\ RootsContained'
    BY <1>1, <2>1, <2>4 DEF WalkTyped, RootsContained, RootOf, Entries, Nodes
  <2> QED BY <1>1, <2>1, <2>4, <2>5 DEF WalkInv, AcceptedIsContained
<1> QED BY <1>2, <1>3

\* A node that the walk leaves has no unchecked child.
LEMMA WalkInvLeaveNode == ASSUME WalkInv, LeaveNode PROVE WalkInv'
<1>1. /\ verdict = "busy" /\ walk # <<>> /\ Current.next = 0
      /\ WalkTyped /\ RootsContained /\ VisitedContained /\ WalkNodesVisited /\ WalkBounded
      /\ walk' = SubSeq(walk, 1, Len(walk) - 1) /\ UNCHANGED <<limits, graph, visited, parts, trees, verdict>>
  BY DEF LeaveNode, WalkInv
<1>2. /\ walk' \in Seq(Entries) /\ Len(walk') = Len(walk) - 1 /\ Len(walk) \in Nat \ {0}
      /\ DOMAIN walk = 1..Len(walk) /\ DOMAIN walk' = 1..(Len(walk) - 1)
      /\ \A k \in DOMAIN walk' : k \in DOMAIN walk /\ walk'[k] = walk[k]
  <2>1. walk \in Seq(Entries) /\ Len(walk) \in Nat \ {0} /\ DOMAIN walk = 1..Len(walk)
    BY <1>1 DEF WalkTyped
  <2>2. \A k \in 1..(Len(walk) - 1) : walk[k] \in Entries
    BY <2>1, ElementOfSeq
  <2>3. /\ walk' \in Seq(Entries) /\ Len(walk') = Len(walk) - 1
        /\ \A k \in 1..(Len(walk) - 1) : walk'[k] = walk[k]
    BY <1>1, <2>1, <2>2, SubSeqProperties
  <2>4. DOMAIN walk' = 1..(Len(walk) - 1)
    BY <2>3
  <2> QED BY <2>1, <2>3, <2>4
<1>3. WalkTyped' /\ RootsContained'
  BY <1>1, <1>2 DEF WalkTyped, RootsContained, RootOf, Entries, Nodes
<1>4. WalkNodesVisited'
  BY <1>1, <1>2 DEF WalkNodesVisited
<1>5. limits.nesting \in Nat /\ NestingCeiling \in Nat
  BY LimitsTyped DEF WalkInv
<1>6. WalkBounded'
  <2>1. Len(walk') <= limits'.nesting /\ Len(walk') <= NestingCeiling
    BY <1>1, <1>2, <1>5 DEF WalkBounded
  <2> QED BY <1>1, <1>2, <2>1 DEF WalkBounded, Nodes
<1>7. VisitedContained'
  <2> SUFFICES ASSUME NEW i \in visited
               PROVE  /\ Contained(i) \/ \E k \in DOMAIN walk' : walk'[k] = [node |-> i, next |-> Node(i).firstChild]
                      /\ Node(i).nextSibling \in Links
                      /\ \A slice \in {Node(i).data, Node(i).start, Node(i).stop, Node(i).original} :
                            InTable(graph, slice)
    BY <1>1 DEF VisitedContained, Contained, Links, Nodes, Node, InTable
  <2>1. /\ Contained(i) \/ \E k \in DOMAIN walk : walk[k] = [node |-> i, next |-> Node(i).firstChild]
        /\ Node(i).nextSibling \in Links
        /\ \A slice \in {Node(i).data, Node(i).start, Node(i).stop, Node(i).original} : InTable(graph, slice)
    BY <1>1 DEF VisitedContained
  <2>2. ASSUME NEW k \in DOMAIN walk, walk[k] = [node |-> i, next |-> Node(i).firstChild]
        PROVE  Contained(i) \/ (k \in DOMAIN walk' /\ walk'[k] = walk[k])
    <3>1. CASE k = Len(walk)
      <4>1. Node(i).firstChild = 0
        BY <1>1, <2>2, <3>1 DEF Current
      <4> QED BY <2>1, <4>1 DEF Contained, Links
    <3>2. CASE k # Len(walk)
      BY <1>2, <3>2
    <3> QED BY <3>1, <3>2
  <2> QED BY <2>1, <2>2
<1> QED BY <1>1, <1>3, <1>4, <1>6, <1>7 DEF WalkInv, AcceptedIsContained

\* As many nodes were visited as there are: all of them.
LEMMA WalkInvConclude == ASSUME WalkInv, Conclude PROVE WalkInv'
<1>1. /\ verdict = "busy" /\ walk = <<>> /\ trees > Len(graph.partials)
      /\ WalkTyped /\ RootsContained /\ VisitedContained
      /\ verdict' = Conclusion /\ UNCHANGED <<limits, graph, visited, parts, walk, trees>>
  BY DEF Conclude, Refuse, WalkInv
<1>2. CASE Cardinality(visited) # Len(graph.nodes)
  BY <1>1, <1>2 DEF Conclusion, WalkInv, AcceptedIsContained
<1>3. CASE Cardinality(visited) = Len(graph.nodes)
  <2>1. Len(graph.nodes) \in Nat /\ Nodes = 1..Len(graph.nodes) /\ Len(graph.partials) \in Nat
    BY <1>1 DEF WalkTyped, ArchiveGraphs, Nodes
  <2>2. IsFiniteSet(Nodes) /\ Cardinality(Nodes) = Len(graph.nodes)
    BY <2>1, FS_Interval, SMTT(30)
  <2>3. visited = Nodes
    BY <1>1, <1>3, <2>2, FS_Subset DEF WalkTyped
  <2>4. \A i \in Nodes : Contained(i)
    BY <1>1, <2>3 DEF VisitedContained
  <2>5. \A k \in 0..Len(graph.partials) : RootOf(k) \in Nodes
    BY <1>1, <2>1 DEF RootsContained, WalkTyped
  <2>6. AcceptedIsContained'
    BY <1>1, <2>4, <2>5 DEF AcceptedIsContained, Contained, Links, Nodes, Node, InTable, RootOf
  <2> QED BY <1>1, <2>6, <1>3 DEF WalkInv, Conclusion
<1> QED BY <1>2, <1>3

LEMMA WalkInvStep == ASSUME WalkInv, [BeginAny \/ Validation]_validator PROVE WalkInv'
BY WalkInvBegin, WalkInvUnchanged, WalkInvEnterTree, WalkInvEnterChild, WalkInvLeaveNode, WalkInvConclude
   DEF Validation

-----------------------------------------------------------------------------
(* What the walk has established *)

\* The references that the walk has met: the roots of the trees it has entered, and both
\* links of every node it has visited.
Met ==
    {ref \in {<<"root", 0>>} : trees > 0}
    \cup {<<"partial", k>> : k \in {k \in DOMAIN graph.partials : k < trees}}
    \cup {<<link, i>> : link \in {"firstChild", "nextSibling"}, i \in visited}
\* Those of siblings that wait for a node on the walk to be left.
Waiting == {<<"nextSibling", walk[k].node>> : k \in 2..Len(walk)}
\* The others have been followed, but for the last one when there is a walk.
Followed(last) == Met \ (Waiting \cup {ref \in {last} : walk # <<>>})
\* References that were followed lead to the nodes that were visited, one to each.
OneToOne(references, nodes) ==
    /\ \A ref \in references : Target(graph, ref) \in nodes \cup {0}
    /\ \A r, s \in references : Target(graph, r) = Target(graph, s) /\ Target(graph, r) # 0 => r = s
    /\ \A i \in nodes : \E ref \in references : Target(graph, ref) = i
Follows(last) ==
    /\ walk # <<>> => last \in Met /\ last \notin Waiting /\ Target(graph, last) = Current.next
    /\ OneToOne(Followed(last), visited)
NextSiblingsWait == \A k \in 2..Len(walk) : walk[k - 1].next = Node(walk[k].node).nextSibling
\* No set of nodes that links do not leave has the entered roots and not what was visited.
ReachedOnly ==
    \A S \in SUBSET Nodes :
        (\A k \in Nat : k < trees => RootOf(k) \in S) /\ (\A i \in S : LinksOf(graph, i) \subseteq S)
            => visited \subseteq S
RecordsValid == \A i \in visited : ValidRecord(graph, Node(i))
TreesValid ==
    /\ trees <= Len(graph.partials) + 1
    /\ \A k \in Nat : k < trees => RootOf(k) \in visited /\ Node(RootOf(k)).nextSibling = 0
    /\ trees > 0 => Node(graph.root).type = "Root"
    /\ \A k \in 1..(trees - 1) : InTable(graph, graph.partials[k].name) /\ NameOf(k) # <<>>
    /\ \A j, k \in 1..(trees - 1) : j < k => Less(NameOf(j), NameOf(k))

HeaderFits == graph.magic /\ graph.nodes # <<>>
\* What was found valid is well-formed (README:133-148).
AcceptedIsWellFormed == verdict = "valid" => WellFormed(graph)
\* No step of the walk refuses a well-formed graph as invalid.
RefusedIsMalformed == [][Validation /\ verdict' = "invalid" => ~WellFormed(graph)]_validator
FormInv ==
    /\ WalkInv
    /\ verdict = "busy" =>
          /\ HeaderFits /\ NextSiblingsWait /\ ReachedOnly /\ RecordsValid /\ TreesValid
          /\ \E last : Follows(last)
    /\ AcceptedIsWellFormed

\* A graph within its limits, at the depth that its links give each node.
FitsLimits(g, l) ==
    \E depth \in [DOMAIN g.nodes -> Nat] : IsDepth(g, depth) /\ InLimits(g, l, depth)
\* What was found valid is within the limits (README:133-137).
AcceptedIsInLimits == verdict = "valid" => FitsLimits(graph, limits)
\* No step of the walk refuses an archive that is within the limits for one of them.
RefusedExceeds == [][Validation /\ verdict' = "limit" /\ WellFormed(graph) => ~FitsLimits(graph, limits)]_validator
SizesFit == Len(graph.nodes) <= limits.nodes /\ Len(graph.strings) <= limits.strings
PartsFit ==
    /\ \A i \in visited : PartsIn(graph, i) <= limits.partsPerNode
    /\ IsFiniteSet(NameParts(graph, visited)) /\ parts = Cardinality(NameParts(graph, visited))
    /\ parts <= limits.parts
\* A node is as deep as the walk to it is long.
DepthsFit ==
    \A depth \in [Nodes -> Nat] : IsDepth(graph, depth) =>
        /\ \A k \in DOMAIN walk :
              depth[walk[k].node] = k - 1 /\ (walk[k].next # 0 => depth[walk[k].next] = k)
        /\ \A i \in visited : depth[i] < limits.nesting /\ depth[i] < NestingCeiling
LimitInv ==
    /\ FormInv
    /\ verdict = "busy" => SizesFit /\ PartsFit /\ DepthsFit
    /\ AcceptedIsInLimits

-----------------------------------------------------------------------------
(* One record *)

LEMMA SliceMeets ==
    ASSUME graph \in ArchiveGraphs, NEW slice \in Slices
    PROVE  InTable(graph, slice) <=>
               /\ \A k \in 1..slice.length : slice.offset + k \in DOMAIN graph.strings
               /\ slice.offset <= Len(graph.strings)
<1>1. /\ slice.offset \in Nat /\ slice.length \in Nat /\ Len(graph.strings) \in Nat
      /\ DOMAIN graph.strings = 1..Len(graph.strings)
  BY DEF Slices, ArchiveGraphs
<1>2. CASE slice.length = 0
  BY <1>1, <1>2 DEF InTable
<1>3. CASE slice.length # 0
  <2>1. slice.length \in 1..slice.length
    BY <1>1, <1>3
  <2> QED BY <1>1, <1>3, <2>1 DEF InTable
<1> QED BY <1>2, <1>3

LEMMA AbsentInTable == ASSUME graph \in ArchiveGraphs PROVE InTable(graph, Absent)
<1>1. Len(graph.strings) \in Nat
  BY DEF ArchiveGraphs
<1> QED BY <1>1 DEF InTable, Absent

\* What the validator checks of the strings of a record is what a valid record has.
LEMMA StringsMeet ==
    ASSUME graph \in ArchiveGraphs, NEW r \in ArchiveNodes, r.presence \subseteq StringFields
    PROVE  StringsFit(r) <=> ValidStrings(graph, r) /\ ValidPresence(r)
<1>1. /\ r.data \in Slices /\ r.start \in Slices /\ r.stop \in Slices /\ r.original \in Slices
      /\ r["data"] = r.data /\ r["start"] = r.start /\ r["stop"] = r.stop /\ r["original"] = r.original
  BY DEF ArchiveNodes
<1> DEFINE Within(slice) == InTable(graph, slice)
<1>2. \A slice \in Slices : Within(slice) <=>
          /\ \A k \in 1..slice.length : slice.offset + k \in DOMAIN graph.strings
          /\ slice.offset <= Len(graph.strings)
  BY SliceMeets
<1>3. Absent \in Slices /\ Within(Absent)
  BY AbsentInTable DEF Slices, Absent
<1>4. ValidStrings(graph, r) <=>
          \A field \in StringFields : Within(r[field]) /\ (field \notin r.presence => r[field] = Absent)
  <2>1. \A field \in StringFields : r[field] \in Slices
    BY <1>1 DEF StringFields
  <2>2. \A field \in StringFields :
            (/\ field \in r.presence => \A k \in 1..r[field].length : r[field].offset + k \in DOMAIN graph.strings
             /\ field \notin r.presence => r[field] = Absent
             /\ r[field].offset <= Len(graph.strings))
            <=> Within(r[field]) /\ (field \notin r.presence => r[field] = Absent)
    <3> HIDE DEF Within
    <3> QED BY <1>2, <1>3, <2>1
  <2> HIDE DEF Within
  <2> QED BY <2>2 DEF ValidStrings
<1>5. ValidPresence(r) <=>
          /\ "data" \in r.presence <=> r.type # "Root"
          /\ "start" \in r.presence <=> "stop" \in r.presence
          /\ {"start", "original"} \cap r.presence # {} => r.type = "Section"
  <2> DEFINE rest == r.presence \ {"data"}
  <2>1. rest \subseteq {"start", "stop", "original"}
    BY DEF StringFields
  <2>2. rest \in {{}, {"original"}, {"start", "stop"}, {"start", "stop", "original"}}
        <=> ("start" \in rest <=> "stop" \in rest)
    <3>1. ASSUME "start" \in rest <=> "stop" \in rest
          PROVE  rest \in {{}, {"original"}, {"start", "stop"}, {"start", "stop", "original"}}
      <4>1. CASE "start" \in rest /\ "original" \in rest
        <5>1. rest = {"start", "stop", "original"}
          BY <2>1, <3>1, <4>1
        <5> QED BY <5>1
      <4>2. CASE "start" \in rest /\ "original" \notin rest
        <5>1. rest = {"start", "stop"}
          BY <2>1, <3>1, <4>2
        <5> QED BY <5>1
      <4>3. CASE "start" \notin rest /\ "original" \in rest
        <5>1. rest = {"original"}
          BY <2>1, <3>1, <4>3
        <5> QED BY <5>1
      <4>4. CASE "start" \notin rest /\ "original" \notin rest
        <5>1. rest = {}
          BY <2>1, <3>1, <4>4
        <5> QED BY <5>1
      <4> QED BY <4>1, <4>2, <4>3, <4>4
    <3>2. ASSUME rest \in {{}, {"original"}, {"start", "stop"}, {"start", "stop", "original"}}
          PROVE  "start" \in rest <=> "stop" \in rest
      <4>1. "start" # "stop" /\ "start" # "original" /\ "stop" # "original"
        OBVIOUS
      <4> HIDE DEF rest
      <4> QED BY <3>2, <4>1
    <3> QED BY <3>1, <3>2
  <2>3. rest = {} <=> (~("start" \in rest) /\ ~("stop" \in rest) /\ ~("original" \in rest))
    BY <2>1
  <2>4. /\ "start" \in rest <=> "start" \in r.presence
        /\ "stop" \in rest <=> "stop" \in r.presence
        /\ "original" \in rest <=> "original" \in r.presence
    OBVIOUS
  <2>5. ValidPresence(r) <=>
            /\ "data" \in r.presence <=> r.type # "Root"
            /\ rest \in (IF r.type = "Section"
                         THEN {{}, {"original"}, {"start", "stop"}, {"start", "stop", "original"}} ELSE {{}})
    BY DEF ValidPresence
  <2>6. {"start", "original"} \cap r.presence # {} <=> "start" \in r.presence \/ "original" \in r.presence
    OBVIOUS
  <2> HIDE DEF rest
  <2>7. CASE r.type = "Section"
    BY <2>2, <2>4, <2>5, <2>7
  <2>8. CASE r.type # "Section"
    <3>1. rest \in {{}} <=> rest = {}
      OBVIOUS
    <3> QED BY <2>3, <2>4, <2>5, <2>6, <2>8, <3>1
  <2> QED BY <2>7, <2>8
<1>6. StringsFit(r) <=>
          /\ Within(r.data) /\ Within(r.start) /\ Within(r.stop) /\ Within(r.original)
          /\ "data" \in r.presence <=> r.type # "Root"
          /\ "data" \notin r.presence => r.data = Absent
          /\ "start" \in r.presence <=> "stop" \in r.presence
          /\ "start" \notin r.presence => r.start = Absent /\ r.stop = Absent
          /\ "original" \notin r.presence => r.original = Absent
          /\ {"start", "original"} \cap r.presence # {} => r.type = "Section"
  BY DEF StringsFit
<1>7. (\A field \in StringFields : Within(r[field]) /\ (field \notin r.presence => r[field] = Absent)) <=>
          /\ Within(r.data) /\ Within(r.start) /\ Within(r.stop) /\ Within(r.original)
          /\ "data" \notin r.presence => r.data = Absent
          /\ "start" \notin r.presence => r.start = Absent
          /\ "stop" \notin r.presence => r.stop = Absent
          /\ "original" \notin r.presence => r.original = Absent
  BY <1>1 DEF StringFields
<1> HIDE DEF Within
<1> QED BY <1>4, <1>5, <1>6, <1>7

\* An indentation's bytes are a sequence of blanks.
LEMMA BlanksMeet ==
    ASSUME graph \in ArchiveGraphs, NEW slice \in Slices, InTable(graph, slice)
    PROVE  Bytes(graph, slice) \in Seq(Blanks)
               <=> \A i \in DOMAIN Bytes(graph, slice) : Bytes(graph, slice)[i] \in Blanks
<1>1. /\ slice.offset \in Nat /\ slice.length \in Nat /\ Len(graph.strings) \in Nat
      /\ graph.strings \in Seq(0..255) /\ DOMAIN graph.strings = 1..Len(graph.strings)
  BY DEF Slices, ArchiveGraphs
<1>2. slice.offset + slice.length <= Len(graph.strings)
  BY DEF InTable
<1>3. Bytes(graph, slice) \in Seq(0..255)
  <2>1. \A k \in (slice.offset + 1)..(slice.offset + slice.length) : graph.strings[k] \in 0..255
    <3>1. \A k \in 1..Len(graph.strings) : graph.strings[k] \in 0..255
      BY <1>1, ElementOfSeq
    <3> QED BY <1>1, <1>2, <3>1
  <2> QED BY <1>1, <2>1, SubSeqProperties DEF Bytes
<1> DEFINE bytes == Bytes(graph, slice)
<1> HIDE DEF bytes
<1>4. PICK n \in Nat : n = Len(bytes) /\ DOMAIN bytes = 1..n /\ bytes = [i \in 1..n |-> bytes[i]]
  BY <1>3 DEF bytes
<1>5. ASSUME \A i \in DOMAIN bytes : bytes[i] \in Blanks PROVE bytes \in Seq(Blanks)
  <2>1. bytes \in [1..n -> Blanks]
    BY <1>4, <1>5
  <2> QED BY <2>1
<1>6. ASSUME bytes \in Seq(Blanks) PROVE \A i \in DOMAIN bytes : bytes[i] \in Blanks
  BY <1>6, <1>4, ElementOfSeq
<1> QED BY <1>5, <1>6 DEF bytes

LEMMA FlagsMeet ==
    ASSUME NEW r \in ArchiveNodes
    PROVE  FlagsFit(r.type, r.flags) <=>
               \/ r.flags \in {{}, {"Escape"}}
               \/ r.type = "Output" /\ r.flags = {"LambdaOnly"}
               \/ r.type = "Output" /\ r.flags = {"LambdaOnly", "PartialIndent"}
<1> DEFINE flags == r.flags
<1>1. ASSUME FlagsFit(r.type, flags)
      PROVE  \/ flags \in {{}, {"Escape"}}
             \/ r.type = "Output" /\ flags = {"LambdaOnly"}
             \/ r.type = "Output" /\ flags = {"LambdaOnly", "PartialIndent"}
  <2>1. /\ flags \subseteq {"Escape", "LambdaOnly", "PartialIndent"}
        /\ "LambdaOnly" \in flags => r.type = "Output" /\ "Escape" \notin flags
        /\ "PartialIndent" \in flags => r.type = "Output" /\ flags = {"LambdaOnly", "PartialIndent"}
    BY <1>1 DEF FlagsFit
  <2> HIDE DEF flags
  <2>2. CASE "PartialIndent" \in flags
    BY <2>1, <2>2
  <2>3. CASE "PartialIndent" \notin flags /\ "LambdaOnly" \in flags
    <3>1. flags = {"LambdaOnly"}
      BY <2>1, <2>3
    <3> QED BY <2>1, <2>3, <3>1
  <2>4. CASE "PartialIndent" \notin flags /\ "LambdaOnly" \notin flags /\ "Escape" \in flags
    <3>1. flags = {"Escape"}
      BY <2>1, <2>4
    <3> QED BY <3>1
  <2>5. CASE "PartialIndent" \notin flags /\ "LambdaOnly" \notin flags /\ "Escape" \notin flags
    <3>1. flags = {}
      BY <2>1, <2>5
    <3> QED BY <3>1
  <2> QED BY <2>2, <2>3, <2>4, <2>5
<1>2. ASSUME \/ flags \in {{}, {"Escape"}}
             \/ r.type = "Output" /\ flags = {"LambdaOnly"}
             \/ r.type = "Output" /\ flags = {"LambdaOnly", "PartialIndent"}
      PROVE  FlagsFit(r.type, flags)
  <2> HIDE DEF flags
  <2> QED BY <1>2 DEF FlagsFit
<1> QED BY <1>1, <1>2

\* A record is accepted, as a child at its place, when it is valid.
LEMMA RecordMeets ==
    ASSUME graph \in ArchiveGraphs, NEW r \in ArchiveNodes
    PROVE  RecordFits(r, TRUE) /\ ("PartialIndent" \in r.flags => IndentsPartial(r)) <=> ValidRecord(graph, r)
<1>1. RecordFits(r, TRUE) <=>
          /\ r.type \in SerializableTypes /\ (r.firstChild # 0 => r.type \in TypesWithChildren)
          /\ FlagsFit(r.type, r.flags) /\ r.presence \subseteq StringFields /\ StringsFit(r)
  BY DEF RecordFits, StringFields
<1>2. ValidPresence(r) => r.presence \subseteq StringFields
  BY DEF ValidPresence
<1>3. ASSUME ValidStrings(graph, r), ValidPresence(r), r.type \in SerializableTypes
      PROVE  FlagsFit(r.type, r.flags) /\ ("PartialIndent" \in r.flags => IndentsPartial(r)) <=> ValidFlags(graph, r)
  <2>1. StringsFit(r) /\ InTable(graph, r.data) /\ r.data \in Slices
    BY <1>2, <1>3, StringsMeet DEF StringsFit, ArchiveNodes
  <2>2. Bytes(graph, r.data) \in Seq(Blanks)
            <=> \A i \in DOMAIN Bytes(graph, r.data) : Bytes(graph, r.data)[i] \in Blanks
    BY <2>1, BlanksMeet
  <2>3. "PartialIndent" \notin {} /\ "PartialIndent" \notin {"Escape"} /\ "PartialIndent" \notin {"LambdaOnly"}
        /\ "PartialIndent" \in {"LambdaOnly", "PartialIndent"}
    OBVIOUS
  <2>4. r.type = "Output" => "data" \in r.presence
    BY <1>3 DEF ValidPresence
  <2>5. FlagsFit(r.type, r.flags) <=>
            \/ r.flags \in {{}, {"Escape"}}
            \/ r.type = "Output" /\ r.flags = {"LambdaOnly"}
            \/ r.type = "Output" /\ r.flags = {"LambdaOnly", "PartialIndent"}
    BY FlagsMeet
  <2>6. IndentsPartial(r) <=>
            /\ r.type = "Output" /\ r.flags = {"LambdaOnly", "PartialIndent"} /\ "data" \in r.presence
            /\ r.nextSibling # 0 /\ Bytes(graph, r.data) \in Seq(Blanks)
            /\ graph.nodes[r.nextSibling].type = "Partial"
    BY <2>1, <2>2 DEF IndentsPartial, IndentationMetadata, Node
  <2>7. CASE r.type = "Output" /\ r.flags = {"LambdaOnly", "PartialIndent"}
    BY <2>3, <2>4, <2>5, <2>6, <2>7 DEF ValidFlags
  <2>8. CASE ~(r.type = "Output" /\ r.flags = {"LambdaOnly", "PartialIndent"})
    <3>1. FlagsFit(r.type, r.flags) => "PartialIndent" \notin r.flags
      BY <2>3, <2>5, <2>8
    <3>2. ValidFlags(graph, r) <=>
              r.flags \in {{}, {"Escape"}} \/ (r.type = "Output" /\ r.flags = {"LambdaOnly"})
      BY <2>8 DEF ValidFlags
    <3> QED BY <2>5, <2>8, <3>1, <3>2
  <2> QED BY <2>7, <2>8
<1>4. r.presence \subseteq StringFields => (StringsFit(r) <=> ValidStrings(graph, r) /\ ValidPresence(r))
  BY StringsMeet
<1> QED BY <1>1, <1>2, <1>3, <1>4 DEF ValidRecord

-----------------------------------------------------------------------------
(* The order of names *)

LEMMA LessMeans ==
    ASSUME NEW s \in Seq(Nat), NEW t \in Seq(Nat)
    PROVE  Less(s, t) <=>
               \/ Len(s) < Len(t) /\ \A k \in 1..Len(s) : s[k] = t[k]
               \/ \E i \in 1..Len(s) : i <= Len(t) /\ s[i] < t[i] /\ \A k \in 1..(i - 1) : s[k] = t[k]
<1>1. Len(s) \in Nat /\ DOMAIN s = 1..Len(s) /\ Len(t) \in Nat /\ DOMAIN t = 1..Len(t)
  OBVIOUS
<1>2. ASSUME Len(s) < Len(t) PROVE s = SubSeq(t, 1, Len(s)) <=> \A k \in 1..Len(s) : s[k] = t[k]
  <2>1. \A k \in 1..Len(s) : t[k] \in Nat
    BY <1>1, <1>2, ElementOfSeq
  <2> DEFINE begin == SubSeq(t, 1, Len(s))
  <2>2. begin \in Seq(Nat) /\ Len(begin) = Len(s) /\ \A k \in 1..Len(s) : begin[k] = t[k]
    <3>1. 1 \in Int /\ Len(s) \in Int
      BY <1>1
    <3> QED BY <1>1, <2>1, <3>1, SubSeqProperties
  <2> HIDE DEF begin
  <2>3. (\A k \in 1..Len(s) : s[k] = t[k]) => s = begin
    BY <1>1, <2>2, SeqEqual
  <2>4. s = begin => \A k \in 1..Len(s) : s[k] = t[k]
    BY <2>2
  <2> QED BY <2>3, <2>4 DEF begin
<1>3. \A i : i \in DOMAIN s \cap DOMAIN t <=> i \in 1..Len(s) /\ i <= Len(t)
  BY <1>1
<1> QED BY <1>2, <1>3 DEF Less

LEMMA LessTransitive ==
    ASSUME NEW s \in Seq(Nat), NEW t \in Seq(Nat), NEW u \in Seq(Nat), Less(s, t), Less(t, u)
    PROVE  Less(s, u)
<1>1. /\ Len(s) \in Nat /\ Len(t) \in Nat /\ Len(u) \in Nat
      /\ \A k \in 1..Len(s) : s[k] \in Nat
      /\ \A k \in 1..Len(t) : t[k] \in Nat
      /\ \A k \in 1..Len(u) : u[k] \in Nat
  BY ElementOfSeq
<1>2. \/ Len(s) < Len(t) /\ \A k \in 1..Len(s) : s[k] = t[k]
      \/ \E i \in 1..Len(s) : i <= Len(t) /\ s[i] < t[i] /\ \A k \in 1..(i - 1) : s[k] = t[k]
  BY LessMeans
<1>3. \/ Len(t) < Len(u) /\ \A k \in 1..Len(t) : t[k] = u[k]
      \/ \E i \in 1..Len(t) : i <= Len(u) /\ t[i] < u[i] /\ \A k \in 1..(i - 1) : t[k] = u[k]
  BY LessMeans
<1>4. Less(s, u) <=>
          \/ Len(s) < Len(u) /\ \A k \in 1..Len(s) : s[k] = u[k]
          \/ \E i \in 1..Len(s) : i <= Len(u) /\ s[i] < u[i] /\ \A k \in 1..(i - 1) : s[k] = u[k]
  BY LessMeans
<1>5. CASE Len(s) < Len(t) /\ \A k \in 1..Len(s) : s[k] = t[k]
  <2>1. CASE Len(t) < Len(u) /\ \A k \in 1..Len(t) : t[k] = u[k]
    BY <1>1, <1>4, <1>5, <2>1
  <2>2. ASSUME NEW i \in 1..Len(t), i <= Len(u), t[i] < u[i], \A k \in 1..(i - 1) : t[k] = u[k]
        PROVE  Less(s, u)
    <3>1. CASE i <= Len(s)
      <4>1. i \in 1..Len(s) /\ s[i] < u[i] /\ \A k \in 1..(i - 1) : s[k] = u[k]
        BY <1>1, <1>5, <2>2, <3>1
      <4> QED BY <1>4, <2>2, <4>1
    <3>2. CASE i > Len(s)
      BY <1>1, <1>4, <1>5, <2>2, <3>2
    <3> QED BY <1>1, <3>1, <3>2
  <2> QED BY <1>3, <2>1, <2>2
<1>6. ASSUME NEW i \in 1..Len(s), i <= Len(t), s[i] < t[i], \A k \in 1..(i - 1) : s[k] = t[k]
      PROVE  Less(s, u)
  <2>1. CASE Len(t) < Len(u) /\ \A k \in 1..Len(t) : t[k] = u[k]
    <3>1. i <= Len(u) /\ s[i] < u[i] /\ \A k \in 1..(i - 1) : s[k] = u[k]
      BY <1>1, <1>6, <2>1
    <3> QED BY <1>4, <3>1
  <2>2. ASSUME NEW j \in 1..Len(t), j <= Len(u), t[j] < u[j], \A k \in 1..(j - 1) : t[k] = u[k]
        PROVE  Less(s, u)
    <3>1. CASE j < i
      <4>1. j \in 1..Len(s) /\ j \in 1..(i - 1) /\ i \in Int
        BY <1>1, <1>6, <2>2, <3>1
      <4>2. s[j] < u[j]
        BY <1>6, <2>2, <4>1
      <4>3. \A k \in 1..(j - 1) : s[k] = u[k]
        <5> SUFFICES ASSUME NEW k \in 1..(j - 1) PROVE s[k] = u[k]
          OBVIOUS
        <5>1. k \in 1..(i - 1)
          BY <3>1, <4>1
        <5> QED BY <1>6, <2>2, <5>1
      <4> QED BY <1>4, <2>2, <4>1, <4>2, <4>3
    <3>2. CASE i <= j
      <4>1. i \in Int /\ j \in Int /\ i <= Len(u) /\ i \in 1..Len(t) /\ i \in 1..Len(u)
        BY <1>1, <1>6, <2>2, <3>2
      <4>2. t[i] <= u[i]
        <5>1. CASE i = j
          BY <1>1, <2>2, <4>1, <5>1
        <5>2. CASE i < j
          <6>1. t[i] = u[i]
            BY <2>2, <4>1, <5>2
          <6> QED BY <1>1, <4>1, <6>1
        <5> QED BY <3>2, <4>1, <5>1, <5>2
      <4>3. s[i] < u[i]
        BY <1>1, <1>6, <4>1, <4>2, SMTT(30)
      <4>4. \A k \in 1..(i - 1) : s[k] = u[k]
        <5> SUFFICES ASSUME NEW k \in 1..(i - 1) PROVE s[k] = u[k]
          OBVIOUS
        <5>1. s[k] = t[k] /\ k \in 1..(j - 1)
          BY <1>6, <3>2, <4>1
        <5> QED BY <2>2, <5>1
      <4> QED BY <1>4, <4>1, <4>3, <4>4
    <3> QED BY <1>1, <3>1, <3>2
  <2> QED BY <1>3, <2>1, <2>2
<1> QED BY <1>2, <1>5, <1>6

-----------------------------------------------------------------------------
(* References *)

\* One more reference is followed, to a node that was not visited or to none.
LEMMA OneMoreNode ==
    ASSUME NEW references, NEW nodes, OneToOne(references, nodes), 0 \notin nodes,
           NEW ref, NEW i, i # 0, i \notin nodes, Target(graph, ref) = i
    PROVE  OneToOne(references \cup {ref}, nodes \cup {i})
<1> DEFINE T(r) == Target(graph, r)
<1>1. /\ \A r \in references : T(r) \in nodes \cup {0}
      /\ \A r, s \in references : T(r) = T(s) /\ T(r) # 0 => r = s
      /\ \A j \in nodes : \E r \in references : T(r) = j
      /\ T(ref) = i
  BY DEF OneToOne
<1> HIDE DEF T
<1>2. \A r \in references \cup {ref} : T(r) \in (nodes \cup {i}) \cup {0}
  BY <1>1
<1>3. \A r, s \in references \cup {ref} : T(r) = T(s) /\ T(r) # 0 => r = s
  BY <1>1
<1>4. \A j \in nodes \cup {i} : \E r \in references \cup {ref} : T(r) = j
  BY <1>1
<1> QED BY <1>2, <1>3, <1>4 DEF OneToOne, T

LEMMA OneMoreEnd ==
    ASSUME NEW references, NEW nodes, OneToOne(references, nodes), 0 \notin nodes, NEW ref, Target(graph, ref) = 0
    PROVE  OneToOne(references \cup {ref}, nodes)
<1> DEFINE T(r) == Target(graph, r)
<1>1. /\ \A r \in references : T(r) \in nodes \cup {0}
      /\ \A r, s \in references : T(r) = T(s) /\ T(r) # 0 => r = s
      /\ \A j \in nodes : \E r \in references : T(r) = j
      /\ T(ref) = 0
  BY DEF OneToOne
<1> HIDE DEF T
<1>2. \A r \in references \cup {ref} : T(r) \in nodes \cup {0}
  BY <1>1
<1>3. \A r, s \in references \cup {ref} : T(r) = T(s) /\ T(r) # 0 => r = s
  BY <1>1
<1>4. \A j \in nodes : \E r \in references \cup {ref} : T(r) = j
  BY <1>1
<1> QED BY <1>2, <1>3, <1>4 DEF OneToOne, T

RootRef(k) == IF k = 0 THEN <<"root", 0>> ELSE <<"partial", k>>

LEMMA Targets ==
    /\ \A k \in Nat : Target(graph, RootRef(k)) = RootOf(k)
    /\ \A i : Target(graph, <<"firstChild", i>>) = Node(i).firstChild
    /\ \A i : Target(graph, <<"nextSibling", i>>) = Node(i).nextSibling
<1>1. ASSUME NEW k \in Nat PROVE Target(graph, RootRef(k)) = RootOf(k)
  <2>1. CASE k = 0
    BY <2>1 DEF Target, RootRef, RootOf
  <2>2. CASE k # 0
    BY <2>2 DEF Target, RootRef, RootOf
  <2> QED BY <2>1, <2>2
<1>2. ASSUME NEW i PROVE Target(graph, <<"firstChild", i>>) = Node(i).firstChild
  BY DEF Target, Node
<1>3. ASSUME NEW i PROVE Target(graph, <<"nextSibling", i>>) = Node(i).nextSibling
  BY DEF Target, Node
<1> QED BY <1>1, <1>2, <1>3

LEMMA MetMeans ==
    \A ref : ref \in Met <=>
        \/ ref = <<"root", 0>> /\ trees > 0
        \/ \E k \in DOMAIN graph.partials : k < trees /\ ref = <<"partial", k>>
        \/ \E i \in visited : ref = <<"firstChild", i>> \/ ref = <<"nextSibling", i>>
BY DEF Met

\* Entering a node meets its links, and the reference to it if a tree is entered with it.
LEMMA MetGrows ==
    ASSUME NEW i, visited' = visited \cup {i}, graph' = graph,
           graph \in ArchiveGraphs, trees \in Nat
    PROVE  /\ trees' = trees => Met' = Met \cup {<<"firstChild", i>>, <<"nextSibling", i>>}
           /\ trees' = trees + 1 /\ trees <= Len(graph.partials) =>
                 Met' = (Met \cup {RootRef(trees)}) \cup {<<"firstChild", i>>, <<"nextSibling", i>>}
<1>1. DOMAIN graph.partials = 1..Len(graph.partials) /\ Len(graph.partials) \in Nat
  BY DEF ArchiveGraphs
<1>2. ASSUME trees' = trees
      PROVE  \A ref : ref \in Met' <=> ref \in Met \/ ref \in {<<"firstChild", i>>, <<"nextSibling", i>>}
  BY <1>2 DEF Met
<1>3. ASSUME trees' = trees + 1, trees <= Len(graph.partials)
      PROVE  \A ref : ref \in Met' <=>
                 ref \in Met \/ ref = RootRef(trees) \/ ref \in {<<"firstChild", i>>, <<"nextSibling", i>>}
  <2>1. \A ref : ref \in Met' <=>
            \/ ref = <<"root", 0>>
            \/ \E k \in 1..Len(graph.partials) : k < trees + 1 /\ ref = <<"partial", k>>
            \/ \E j \in visited \cup {i} : ref = <<"firstChild", j>> \/ ref = <<"nextSibling", j>>
    BY <1>1, <1>3 DEF Met
  <2>2. \A ref : ref \in Met <=>
            \/ ref = <<"root", 0>> /\ trees > 0
            \/ \E k \in 1..Len(graph.partials) : k < trees /\ ref = <<"partial", k>>
            \/ \E j \in visited : ref = <<"firstChild", j>> \/ ref = <<"nextSibling", j>>
    BY <1>1, MetMeans
  <2>3. CASE trees = 0
    BY <2>1, <2>2, <2>3 DEF RootRef
  <2>4. CASE trees # 0
    <3>1. trees \in 1..Len(graph.partials) /\ \A k \in Nat : k < trees + 1 <=> k < trees \/ k = trees
      BY <1>3, <2>4
    <3> QED BY <2>1, <2>2, <2>4, <3>1 DEF RootRef
  <2> QED BY <2>3, <2>4
<1>4. ASSUME trees' = trees PROVE Met' = Met \cup {<<"firstChild", i>>, <<"nextSibling", i>>}
  BY <1>2, <1>4
<1>5. ASSUME trees' = trees + 1, trees <= Len(graph.partials)
      PROVE  Met' = (Met \cup {RootRef(trees)}) \cup {<<"firstChild", i>>, <<"nextSibling", i>>}
  BY <1>3, <1>5
<1> QED BY <1>4, <1>5

\* What the walk has not visited, it has not met the links of.
LEMMA LinksUnmet ==
    \A i : i \notin visited => <<"firstChild", i>> \notin Met /\ <<"nextSibling", i>> \notin Met
<1> SUFFICES ASSUME NEW i, i \notin visited PROVE <<"firstChild", i>> \notin Met /\ <<"nextSibling", i>> \notin Met
  OBVIOUS
<1>1. \A x, y : <<x, y>>[1] = x /\ <<x, y>>[2] = y
  OBVIOUS
<1> QED BY <1>1, MetMeans

-----------------------------------------------------------------------------
(* What the walk has established, step by step *)

LEMMA FormInvInit == limits \in LimitChoices /\ ValidatorInit => FormInv
BY WalkInvInit DEF ValidatorInit, FormInv, AcceptedIsWellFormed

LEMMA FormInvUnchanged == ASSUME FormInv, UNCHANGED validator PROVE FormInv'
<1>1. WalkInv'
  BY WalkInvUnchanged DEF FormInv
<1>2. /\ limits' = limits /\ graph' = graph /\ visited' = visited /\ walk' = walk /\ trees' = trees
      /\ verdict' = verdict
  BY DEF validator
<1>3. AcceptedIsWellFormed'
  BY <1>2 DEF FormInv, AcceptedIsWellFormed
<1>4. ASSUME verdict = "busy"
      PROVE  HeaderFits' /\ NextSiblingsWait' /\ ReachedOnly' /\ RecordsValid' /\ TreesValid'
  BY <1>2, <1>4 DEF FormInv, HeaderFits, NextSiblingsWait, ReachedOnly, RecordsValid, TreesValid, Nodes, Node,
                    RootOf, NameOf
<1>5. ASSUME verdict = "busy", NEW last, Follows(last) PROVE Follows(last)'
  BY <1>2, <1>5 DEF Follows, Followed, OneToOne, Met, Waiting, Current
<1> QED BY <1>1, <1>2, <1>3, <1>4, <1>5 DEF FormInv

LEMMA FormInvRefuse ==
    ASSUME FormInv, NEW reason, reason \notin {"busy", "valid"}, Refuse(reason) PROVE FormInv'
BY WalkInvRefuse DEF FormInv, Refuse, AcceptedIsWellFormed

\* Nothing has been met before the first tree.
LEMMA FormInvBegin == ASSUME BeginAny PROVE FormInv'
<1>1. PICK g \in ArchiveGraphs, l \in LimitChoices, n \in Nat, v \in Verdicts \ {"valid"} :
          (v = "busy" => HeaderRefusal(g, l, n) = "busy") /\ Begin(g, l, v)
  BY DEF BeginAny
<1>2. graph' = g /\ visited' = {} /\ walk' = <<>> /\ trees' = 0 /\ verdict' = v
  BY <1>1 DEF Begin
<1>3. WalkInv'
  BY WalkInvBegin
<1>4. ASSUME v = "busy" PROVE HeaderFits'
  BY <1>1, <1>2, <1>4 DEF HeaderRefusal, HeaderFits
<1>5. NextSiblingsWait' /\ ReachedOnly' /\ RecordsValid'
  BY <1>2 DEF NextSiblingsWait, ReachedOnly, RecordsValid
<1>6. TreesValid'
  <2>1. Len(g.partials) \in Nat
    BY DEF ArchiveGraphs
  <2> QED BY <1>2, <2>1 DEF TreesValid
<1>7. Follows(0)'
  <2>1. Met' = {}
    <3>1. \A k \in DOMAIN graph'.partials : ~(k < trees')
      BY <1>2 DEF ArchiveGraphs
    <3>2. \A ref : ref \notin Met'
      BY <1>2, <3>1 DEF Met
    <3> QED BY <3>2
  <2>2. Followed(0)' = {}
    BY <2>1 DEF Followed
  <2>3. OneToOne(Followed(0), visited)'
    BY <1>2, <2>2 DEF OneToOne
  <2> QED BY <1>2, <2>3 DEF Follows
<1> QED BY <1>2, <1>3, <1>4, <1>5, <1>6, <1>7 DEF FormInv, AcceptedIsWellFormed

\* A busy walk's nodes, links and names.
LEMMA BusyWalk ==
    ASSUME FormInv, verdict = "busy"
    PROVE  /\ WalkInv /\ WalkTyped /\ WalkNodesVisited /\ VisitedContained /\ WalkBounded
           /\ graph \in ArchiveGraphs /\ trees \in Nat /\ visited \subseteq Nodes /\ walk \in Seq(Entries)
           /\ Nodes = 1..Len(graph.nodes) /\ 0 \notin Nodes /\ 0 \notin visited
           /\ DOMAIN graph.partials = 1..Len(graph.partials) /\ Len(graph.partials) \in Nat
           /\ \A i \in Nodes : Node(i) \in ArchiveNodes
           /\ HeaderFits /\ NextSiblingsWait /\ ReachedOnly /\ RecordsValid /\ TreesValid
           /\ \E last : Follows(last)
<1>1. WalkInv /\ WalkTyped /\ WalkNodesVisited /\ VisitedContained /\ WalkBounded
  BY DEF FormInv, WalkInv
<1>2. /\ HeaderFits /\ NextSiblingsWait /\ ReachedOnly /\ RecordsValid /\ TreesValid
      /\ \E last : Follows(last)
  BY DEF FormInv
<1>3. graph \in ArchiveGraphs /\ trees \in Nat /\ visited \subseteq Nodes /\ walk \in Seq(Entries)
  BY <1>1 DEF WalkTyped
<1>4. /\ Nodes = 1..Len(graph.nodes)
      /\ DOMAIN graph.partials = 1..Len(graph.partials) /\ Len(graph.partials) \in Nat
      /\ \A i \in Nodes : Node(i) \in ArchiveNodes
  BY <1>3 DEF ArchiveGraphs, Nodes, Node
<1> QED BY <1>1, <1>2, <1>3, <1>4

LEMMA AcceptedRecord ==
    ASSUME FormInv, verdict = "busy", NEW i, NEW metadata \in BOOLEAN, NodeRefusal(i, metadata) = "none",
           metadata => IndentsPartial(Node(i))
    PROVE  i \in Nodes /\ i # 0 /\ i \notin visited /\ ValidRecord(graph, Node(i))
<1>1. i \in Nodes /\ i \notin visited /\ RecordFits(Node(i), metadata)
  BY DEF NodeRefusal, Seen
<1>2. RecordFits(Node(i), TRUE) /\ ("PartialIndent" \in Node(i).flags => metadata)
  BY <1>1 DEF RecordFits
<1>3. ValidRecord(graph, Node(i))
  BY <1>1, <1>2, BusyWalk, RecordMeets
<1> QED BY <1>1, <1>3, BusyWalk

\* A tree is entered at a node that nothing led to before.
LEMMA TreesStayValid ==
    ASSUME FormInv, verdict = "busy", trees <= Len(graph.partials), TreeRefusal(trees) = "none",
           graph' = graph, trees' = trees + 1, visited' = visited \cup {RootOf(trees)}
    PROVE  TreesValid'
<1>1. /\ RootFits(trees) /\ (trees > 0 => NameFits(trees))
  BY DEF TreeRefusal
<1>2. TreesValid /\ graph \in ArchiveGraphs /\ trees \in Nat /\ Len(graph.partials) \in Nat
  BY BusyWalk
<1>3. trees' <= Len(graph'.partials) + 1
  BY <1>2
<1>4. \A k \in Nat : k < trees' => (RootOf(k) \in visited /\ Node(RootOf(k)).nextSibling = 0)'
  <2> SUFFICES ASSUME NEW k \in Nat, k < trees + 1
               PROVE  RootOf(k) \in visited \cup {RootOf(trees)} /\ Node(RootOf(k)).nextSibling = 0
    BY DEF RootOf, Node
  <2>1. CASE k = trees
    BY <1>1, <2>1 DEF RootFits
  <2>2. CASE k < trees
    BY <1>2, <2>2 DEF TreesValid
  <2> QED BY <1>2, <2>1, <2>2
<1>5. (trees > 0 => Node(graph.root).type = "Root")'
  <2> SUFFICES Node(graph.root).type = "Root"
    BY DEF Node
  <2>1. CASE trees = 0
    BY <1>1, <2>1 DEF RootFits, RootOf
  <2>2. CASE trees # 0
    BY <1>2, <2>2 DEF TreesValid
  <2> QED BY <2>1, <2>2
<1> DEFINE Named(k) == InTable(graph, graph.partials[k].name) /\ NameOf(k) # <<>>
<1>6. \A k \in 1..trees : Named(k)
  <2> SUFFICES ASSUME NEW k \in 1..trees PROVE Named(k)
    OBVIOUS
  <2>1. CASE k = trees
    BY <1>1, <1>2, <2>1 DEF NameFits
  <2>2. CASE k # trees
    <3>1. k \in 1..(trees - 1)
      BY <1>2, <2>2
    <3> QED BY <1>2, <3>1 DEF TreesValid
  <2> QED BY <2>1, <2>2
<1>7. \A k \in 1..trees : NameOf(k) \in Seq(Nat)
  <2> SUFFICES ASSUME NEW k \in 1..trees PROVE NameOf(k) \in Seq(Nat)
    OBVIOUS
  <2> DEFINE name == graph.partials[k].name
  <2>1. graph.partials \in Seq(ArchivePartials) /\ k \in 1..Len(graph.partials)
    BY <1>2 DEF ArchiveGraphs
  <2>2. graph.partials[k] \in ArchivePartials
    BY <2>1, ElementOfSeq
  <2>3. name \in Slices
    BY <2>2 DEF ArchivePartials
  <2>4. /\ name.offset \in Nat /\ name.length \in Nat
        /\ graph.strings \in Seq(0..255) /\ Len(graph.strings) \in Nat
    BY <1>2, <2>3 DEF Slices, ArchiveGraphs
  <2>5. name.offset + name.length <= Len(graph.strings)
    BY <1>6 DEF InTable
  <2> HIDE DEF name
  <2>6. \A j \in (name.offset + 1)..(name.offset + name.length) : graph.strings[j] \in Nat
    <3>1. \A j \in 1..Len(graph.strings) : graph.strings[j] \in 0..255
      BY <2>4, ElementOfSeq
    <3> SUFFICES ASSUME NEW j \in (name.offset + 1)..(name.offset + name.length)
                 PROVE  graph.strings[j] \in Nat
      OBVIOUS
    <3>2. j \in 1..Len(graph.strings)
      BY <2>4, <2>5
    <3>3. graph.strings[j] \in 0..255
      BY <3>1, <3>2
    <3>4. \A x : x \in 0..255 => x \in Nat
      OBVIOUS
    <3> QED BY <3>3, <3>4
  <2>7. SubSeq(graph.strings, name.offset + 1, name.offset + name.length) \in Seq(Nat)
    BY <2>4, <2>6, SubSeqProperties
  <2> QED BY <2>7 DEF NameOf, Bytes, name
<1>8. \A j, k \in 1..trees : j < k => Less(NameOf(j), NameOf(k))
  <2> SUFFICES ASSUME NEW j \in 1..trees, NEW k \in 1..trees, j < k PROVE Less(NameOf(j), NameOf(k))
    OBVIOUS
  <2>1. \A m, n \in 1..(trees - 1) : m < n => Less(NameOf(m), NameOf(n))
    BY <1>2 DEF TreesValid
  <2>2. CASE k # trees
    <3>1. j \in 1..(trees - 1) /\ k \in 1..(trees - 1)
      BY <1>2, <2>2
    <3> QED BY <2>1, <3>1
  <2>3. CASE k = trees
    <3>1. Less(NameOf(trees - 1), NameOf(trees))
      BY <1>1, <1>2, <2>3 DEF NameFits, Ascends
    <3>2. CASE j = trees - 1
      BY <2>3, <3>1, <3>2
    <3>3. CASE j # trees - 1
      <4>1. j \in 1..(trees - 1) /\ trees - 1 \in 1..(trees - 1) /\ j < trees - 1
        BY <1>2, <2>3, <3>3
      <4>2. Less(NameOf(j), NameOf(trees - 1))
        BY <2>1, <4>1
      <4>3. NameOf(j) \in Seq(Nat) /\ NameOf(trees - 1) \in Seq(Nat) /\ NameOf(trees) \in Seq(Nat)
        BY <1>2, <1>7, <2>3, <4>1
      <4> QED BY <2>3, <3>1, <4>2, <4>3, LessTransitive
    <3> QED BY <3>2, <3>3
  <2> QED BY <2>2, <2>3
<1>9. (trees - 1)' = trees
  BY <1>2
<1>10. \A k \in 1..(trees - 1)' : (InTable(graph, graph.partials[k].name) /\ NameOf(k) # <<>>)'
  BY <1>6, <1>9 DEF NameOf
<1>11. \A j, k \in 1..(trees - 1)' : j < k => Less(NameOf(j), NameOf(k))'
  BY <1>8, <1>9 DEF NameOf
<1> QED BY <1>3, <1>4, <1>5, <1>10, <1>11 DEF TreesValid

\* The step into a tree: its reference is followed, its root's first child comes next.
LEMMA FollowsIntoTree ==
    ASSUME FormInv, verdict = "busy", walk = <<>>, trees <= Len(graph.partials), TreeRefusal(trees) = "none",
           Enter(RootOf(trees), walk), trees' = trees + 1, graph' = graph,
           RootOf(trees) # 0, RootOf(trees) \notin visited
    PROVE  \E last : Follows(last)'
<1> DEFINE i == RootOf(trees)
           first == <<"firstChild", i>>
           next == <<"nextSibling", i>>
           root == RootRef(trees)
<1>1. PICK last : Follows(last)
  BY BusyWalk
<1>2. OneToOne(Met, visited)
  <2>1. Waiting = {}
    BY DEF Waiting
  <2>2. Followed(last) = Met
    BY <2>1 DEF Followed
  <2> QED BY <1>1, <2>2 DEF Follows
<1>3. graph \in ArchiveGraphs /\ trees \in Nat /\ 0 \notin visited
  BY BusyWalk
<1>4. walk' = <<[node |-> i, next |-> Node(i).firstChild]>> /\ visited' = visited \cup {i}
  BY DEF Enter
<1>5. Met' = (Met \cup {root}) \cup {first, next}
  BY <1>3, <1>4, MetGrows
<1>6. first \notin Met /\ next \notin Met /\ first # next /\ first # root
  BY LinksUnmet DEF RootRef
<1>7. Target(graph, root) = i /\ Target(graph, first) = Node(i).firstChild /\ Target(graph, next) = 0
  <2>1. Node(i).nextSibling = 0
    BY DEF TreeRefusal, RootFits
  <2> QED BY <1>3, <2>1, Targets
<1>8. Waiting' = {}
  <2>1. Len(walk') = 1
    BY <1>4
  <2> QED BY <2>1 DEF Waiting
<1> HIDE DEF first, next, root
<1>9. OneToOne((Met \cup {root}) \cup {next}, visited \cup {i})
  <2>1. OneToOne(Met \cup {root}, visited \cup {i})
    BY <1>2, <1>3, <1>7, OneMoreNode
  <2>2. 0 \notin visited \cup {i}
    BY <1>3
  <2> QED BY <1>7, <2>1, <2>2, OneMoreEnd
<1> HIDE DEF i
<1>10. ASSUME NEW f, f = first PROVE Follows(f)'
  <2>1. Followed(f)' = (Met \cup {root}) \cup {next}
    <3>1. walk' # <<>>
      BY <1>4
    <3>2. Followed(f)' = Met' \ {f}
      BY <1>8, <3>1 DEF Followed
    <3> QED BY <1>5, <1>6, <1>10, <3>2
  <2>2. OneToOne(Followed(f), visited)'
    <3> DEFINE references == (Met \cup {root}) \cup {next}
               nodes == visited \cup {i}
    <3> HIDE DEF references, nodes
    <3>1. Followed(f)' = references /\ visited' = nodes /\ OneToOne(references, nodes)
      BY <1>4, <1>9, <2>1 DEF references, nodes
    <3> QED BY <3>1 DEF OneToOne
  <2>3. f \in Met' /\ f \notin Waiting'
    BY <1>5, <1>8, <1>10
  <2>4. Target(graph', f) = Current'.next
    BY <1>4, <1>7, <1>10 DEF Current
  <2> QED BY <2>2, <2>3, <2>4 DEF Follows
<1>11. PICK f : f = first
  OBVIOUS
<1> QED BY <1>10, <1>11

LEMMA FormInvEnterTree == ASSUME FormInv, EnterTree PROVE FormInv'
<1>1. verdict = "busy" /\ walk = <<>> /\ trees <= Len(graph.partials)
  BY DEF EnterTree
<1>2. CASE TreeRefusal(trees) # "none"
  <2>1. Refuse(TreeRefusal(trees)) /\ TreeRefusal(trees) \in {"invalid", "limit"}
    BY <1>2 DEF EnterTree, TreeRefusal, NodeRefusal
  <2> QED BY <2>1, FormInvRefuse
<1>3. CASE TreeRefusal(trees) = "none"
  <2>1. /\ Enter(RootOf(trees), walk) /\ trees' = trees + 1
        /\ limits' = limits /\ graph' = graph /\ verdict' = verdict
        /\ NodeRefusal(RootOf(trees), FALSE) = "none"
    BY <1>3 DEF EnterTree, TreeRefusal
  <2>2. PICK i : i = RootOf(trees)
    OBVIOUS
  <2>3. i \in Nodes /\ i # 0 /\ i \notin visited /\ ValidRecord(graph, Node(i))
    BY <1>1, <2>1, <2>2, AcceptedRecord
  <2>4. /\ walk' = <<[node |-> i, next |-> Node(i).firstChild]>> /\ visited' = visited \cup {i}
        /\ RecordsValid /\ ReachedOnly /\ HeaderFits /\ trees \in Nat
    BY <1>1, <2>1, <2>2, BusyWalk DEF Enter
  <2>5. WalkInv'
    BY WalkInvEnterTree DEF FormInv
  <2>6. TreesValid'
    BY <1>1, <1>3, <2>1, <2>2, <2>4, TreesStayValid
  <2>7. \E last : Follows(last)'
    BY <1>1, <1>3, <2>1, <2>2, <2>3, FollowsIntoTree
  <2>8. NextSiblingsWait'
    <3>1. Len(walk') = 1
      BY <2>4
    <3> QED BY <3>1 DEF NextSiblingsWait
  <2>9. RecordsValid'
    BY <2>1, <2>3, <2>4 DEF RecordsValid, Node
  <2>10. ReachedOnly'
    <3> SUFFICES ASSUME NEW S \in SUBSET Nodes, \A k \in Nat : k < trees + 1 => RootOf(k) \in S,
                        \A j \in S : LinksOf(graph, j) \subseteq S
                 PROVE  visited \cup {i} \subseteq S
      BY <2>1, <2>4 DEF ReachedOnly, Nodes, RootOf
    <3>1. i \in S
      BY <2>2, <2>4
    <3>2. visited \subseteq S
      <4>1. \A k \in Nat : k < trees => RootOf(k) \in S
        BY <2>4
      <4> QED BY <2>4, <4>1 DEF ReachedOnly
    <3> QED BY <3>1, <3>2
  <2>11. HeaderFits' /\ AcceptedIsWellFormed'
    BY <1>1, <2>1, <2>4 DEF HeaderFits, AcceptedIsWellFormed
  <2> QED BY <2>5, <2>6, <2>7, <2>8, <2>9, <2>10, <2>11 DEF FormInv
<1> QED BY <1>2, <1>3

\* The nodes on a walk are visited ones, each at one place.
LEMMA WalkNodes ==
    ASSUME FormInv, verdict = "busy", walk # <<>>
    PROVE  /\ Len(walk) \in Nat \ {0} /\ DOMAIN walk = 1..Len(walk)
           /\ \A k \in 1..Len(walk) : walk[k] \in Entries /\ walk[k].node \in visited
           /\ \A j, k \in 1..Len(walk) : walk[j].node = walk[k].node => j = k
<1>1. walk \in Seq(Entries) /\ WalkNodesVisited /\ WalkBounded
  BY BusyWalk
<1>2. Len(walk) \in Nat \ {0} /\ DOMAIN walk = 1..Len(walk)
  BY <1>1
<1>3. \A k \in 1..Len(walk) : walk[k] \in Entries
  BY <1>1, ElementOfSeq
<1> QED BY <1>1, <1>2, <1>3 DEF WalkNodesVisited, WalkBounded

\* The step to a child: the reference to it is followed, its sibling waits, its first
\* child comes next.
LEMMA FollowsIntoChild ==
    ASSUME FormInv, verdict = "busy", walk # <<>>, NEW i, i = Current.next, i # 0, i \notin visited,
           NEW n, n = Len(walk), graph' = graph, trees' = trees, visited' = visited \cup {i},
           Len(walk') = n + 1, \A k \in 1..n : walk'[k].node = walk[k].node,
           walk'[n + 1] = [node |-> i, next |-> Node(i).firstChild]
    PROVE  \E last : Follows(last)'
<1> DEFINE first == <<"firstChild", i>>
           next == <<"nextSibling", i>>
<1>1. PICK last : Follows(last)
  BY BusyWalk
<1>2. n \in Nat \ {0} /\ \A k \in 1..n : walk[k].node \in visited
  BY WalkNodes
<1>3. graph \in ArchiveGraphs /\ trees \in Nat /\ 0 \notin visited
  BY BusyWalk
<1>4. /\ last \in Met /\ last \notin Waiting /\ Target(graph, last) = i
      /\ OneToOne(Met \ (Waiting \cup {last}), visited)
  <2>1. Followed(last) = Met \ (Waiting \cup {last})
    BY DEF Followed
  <2> QED BY <1>1, <2>1 DEF Follows
<1>5. Met' = Met \cup {first, next}
  BY <1>3, MetGrows
<1>6. first \notin Met /\ next \notin Met /\ first # next
  BY LinksUnmet
<1>7. Waiting' = Waiting \cup {next}
  <2>1. Waiting' = {<<"nextSibling", walk'[k].node>> : k \in 2..(n + 1)}
    BY DEF Waiting
  <2>2. \A ref : ref \in Waiting' <=> ref \in Waiting \/ ref = next
    <3>1. \A k : k \in 2..(n + 1) <=> k \in 2..n \/ k = n + 1
      BY <1>2
    <3>2. \A k \in 2..n : walk'[k].node = walk[k].node
      BY <1>2
    <3>3. walk'[n + 1].node = i
      OBVIOUS
    <3> QED BY <2>1, <3>1, <3>2, <3>3 DEF Waiting
  <2> HIDE DEF next
  <2> QED BY <2>2
<1>8. first \notin Waiting'
  <2>1. \A k : first # <<"nextSibling", k>>
    OBVIOUS
  <2> QED BY <2>1 DEF Waiting
<1>9. Target(graph, first) = Node(i).firstChild
  BY Targets
<1> HIDE DEF first, next
<1>10. OneToOne(Met \ Waiting, visited \cup {i})
  <2> DEFINE references == Met \ (Waiting \cup {last})
  <2>1. Met \ Waiting = references \cup {last}
    BY <1>4
  <2>2. OneToOne(references, visited)
    BY <1>4
  <2> HIDE DEF references
  <2>3. OneToOne(references \cup {last}, visited \cup {i})
    BY <1>3, <1>4, <2>2, OneMoreNode
  <2> QED BY <2>1, <2>3
<1>11. PICK f : f = first
  OBVIOUS
<1>12. walk' # <<>>
  <2>1. Len(walk') # 0
    BY <1>2
  <2> QED BY <2>1
<1>13. Followed(f)' = Met \ Waiting
  <2>1. Followed(f)' = Met' \ (Waiting' \cup {f})
    BY <1>12 DEF Followed
  <2> QED BY <1>5, <1>6, <1>7, <1>11, <2>1
<1>14. OneToOne(Followed(f), visited)'
  <2> DEFINE references == Met \ Waiting
             nodes == visited \cup {i}
  <2> HIDE DEF references, nodes
  <2>1. Followed(f)' = references /\ visited' = nodes /\ OneToOne(references, nodes)
    BY <1>10, <1>13 DEF references, nodes
  <2> QED BY <2>1 DEF OneToOne
<1>15. f \in Met' /\ f \notin Waiting'
  BY <1>5, <1>8, <1>11
<1>16. Target(graph', f) = Current'.next
  BY <1>9, <1>11 DEF Current
<1> QED BY <1>14, <1>15, <1>16 DEF Follows

LEMMA FormInvEnterChild == ASSUME FormInv, EnterChild PROVE FormInv'
<1>1. verdict = "busy" /\ walk # <<>> /\ Current.next # 0
  BY DEF EnterChild
<1>2. CASE ChildRefusal(Current.next) # "none"
  <2>1. Refuse(ChildRefusal(Current.next)) /\ ChildRefusal(Current.next) \in {"invalid", "limit"}
    BY <1>2 DEF EnterChild, ChildRefusal, NodeRefusal
  <2> QED BY <2>1, FormInvRefuse
<1>3. CASE ChildRefusal(Current.next) = "none"
  <2>1. PICK i : i = Current.next
    OBVIOUS
  <2>2. PICK n : n = Len(walk)
    OBVIOUS
  <2>3. /\ Enter(i, [walk EXCEPT ![n].next = Node(i).nextSibling])
        /\ limits' = limits /\ graph' = graph /\ trees' = trees /\ verdict' = verdict
        /\ NodeRefusal(i, "PartialIndent" \in Node(i).flags) = "none"
        /\ "PartialIndent" \in Node(i).flags => IndentsPartial(Node(i))
    BY <1>3, <2>1, <2>2 DEF EnterChild, ChildRefusal
  <2>4. i \in Nodes /\ i # 0 /\ i \notin visited /\ ValidRecord(graph, Node(i))
    <3>1. CASE "PartialIndent" \in Node(i).flags
      <4>1. NodeRefusal(i, TRUE) = "none"
        BY <2>3, <3>1 DEF NodeRefusal, RecordFits
      <4> QED BY <1>1, <2>3, <3>1, <4>1, AcceptedRecord
    <3>2. CASE "PartialIndent" \notin Node(i).flags
      <4>1. NodeRefusal(i, FALSE) = "none"
        BY <2>3, <3>2 DEF NodeRefusal, RecordFits
      <4> QED BY <1>1, <4>1, AcceptedRecord
    <3> QED BY <3>1, <3>2
  <2>5. /\ n \in Nat \ {0} /\ DOMAIN walk = 1..n /\ walk \in Seq(Entries)
        /\ \A k \in 1..n : walk[k] \in Entries
        /\ RecordsValid /\ ReachedOnly /\ HeaderFits /\ TreesValid /\ NextSiblingsWait
        /\ Node(i) \in ArchiveNodes
    BY <1>1, <2>2, <2>4, WalkNodes, BusyWalk
  <2> DEFINE entry == [node |-> i, next |-> Node(i).firstChild]
             top == [walk[n] EXCEPT !.next = Node(i).nextSibling]
             from == [walk EXCEPT ![n] = top]
  <2>6. /\ top.node = walk[n].node /\ top.next = Node(i).nextSibling /\ top \in Entries
    <3>1. Node(i).nextSibling \in Nat /\ walk[n] \in Entries
      BY <2>5 DEF ArchiveNodes
    <3> QED BY <3>1 DEF Entries
  <2>7. entry \in Entries
    BY <2>4, <2>5 DEF Entries, ArchiveNodes
  <2>8. walk' = Append(from, entry) /\ visited' = visited \cup {i}
    BY <2>3 DEF Enter
  <2> HIDE DEF top
  <2>9. from \in Seq(Entries) /\ Len(from) = n /\ \A k \in 1..n : from[k] = IF k = n THEN top ELSE walk[k]
    BY <2>2, <2>5, <2>6, ExceptSeq
  <2> HIDE DEF from, entry
  <2>10. /\ Len(walk') = n + 1 /\ walk'[n + 1] = entry
         /\ \A k \in 1..n : walk'[k] = IF k = n THEN top ELSE walk[k]
    BY <2>5, <2>7, <2>8, <2>9
  <2>11. \A k \in 1..n : walk'[k].node = walk[k].node
    BY <2>6, <2>10
  <2>12. WalkInv'
    BY WalkInvEnterChild DEF FormInv
  <2>13. \E last : Follows(last)'
    BY <1>1, <2>1, <2>2, <2>3, <2>4, <2>8, <2>10, <2>11, FollowsIntoChild DEF entry
  <2>14. NextSiblingsWait'
    <3> SUFFICES ASSUME NEW k \in 2..(n + 1) PROVE walk'[k - 1].next = Node(walk'[k].node).nextSibling
      BY <2>3, <2>10 DEF NextSiblingsWait, Node
    <3>1. CASE k = n + 1
      <4>1. k - 1 = n /\ walk'[n] = top /\ walk'[k].node = i
        BY <2>5, <2>10, <3>1 DEF entry
      <4> QED BY <2>6, <4>1
    <3>2. CASE k # n + 1
      <4>1. k \in 2..n /\ k - 1 \in 1..n /\ k \in 1..n /\ k - 1 # n
        BY <2>5, <3>2
      <4>2. walk[k - 1].next = Node(walk[k].node).nextSibling
        BY <2>2, <2>5, <4>1 DEF NextSiblingsWait
      <4> QED BY <2>10, <2>11, <4>1, <4>2
    <3> QED BY <3>1, <3>2
  <2>15. RecordsValid'
    BY <2>3, <2>4, <2>5, <2>8 DEF RecordsValid, Node
  <2>16. ReachedOnly'
    <3> SUFFICES ASSUME NEW S \in SUBSET Nodes, \A k \in Nat : k < trees => RootOf(k) \in S,
                        \A j \in S : LinksOf(graph, j) \subseteq S
                 PROVE  visited \cup {i} \subseteq S
      BY <2>3, <2>8 DEF ReachedOnly, Nodes, RootOf
    <3>1. visited \subseteq S
      BY <2>5 DEF ReachedOnly
    <3>2. i \in S
      <4>1. PICK last : Follows(last)
        BY <1>1, BusyWalk
      <4>2. last \in Met /\ Target(graph, last) = i
        BY <1>1, <2>1, <4>1 DEF Follows
      <4>3. CASE \E j \in visited : last = <<"firstChild", j>> \/ last = <<"nextSibling", j>>
        <5>1. PICK j \in visited : last = <<"firstChild", j>> \/ last = <<"nextSibling", j>>
          BY <4>3
        <5>2. i \in {Node(j).firstChild, Node(j).nextSibling}
          BY <4>2, <5>1, Targets
        <5>3. i \in LinksOf(graph, j)
          BY <2>4, <5>2 DEF LinksOf, Node
        <5> QED BY <3>1, <5>1, <5>3
      <4>4. CASE ~\E j \in visited : last = <<"firstChild", j>> \/ last = <<"nextSibling", j>>
        <5>1. \E k \in Nat : k < trees /\ last = RootRef(k)
          BY <1>1, <4>2, <4>4, MetMeans, BusyWalk DEF RootRef
        <5> QED BY <4>2, <5>1, Targets
      <4> QED BY <4>3, <4>4
    <3> QED BY <3>1, <3>2
  <2>17. TreesValid'
    BY <2>3, <2>5, <2>8 DEF TreesValid, RootOf, Node, NameOf
  <2>18. HeaderFits' /\ AcceptedIsWellFormed'
    BY <1>1, <2>3, <2>5 DEF HeaderFits, AcceptedIsWellFormed
  <2> QED BY <2>12, <2>13, <2>14, <2>15, <2>16, <2>17, <2>18 DEF FormInv
<1> QED BY <1>2, <1>3

\* The step out of a node: the reference that was last led nowhere, and the sibling of the
\* node waits no more.
LEMMA FollowsOut ==
    ASSUME FormInv, verdict = "busy", walk # <<>>, Current.next = 0,
           NEW n, n = Len(walk), graph' = graph, trees' = trees, visited' = visited,
           walk' \in Seq(Entries), Len(walk') = n - 1, \A k \in 1..(n - 1) : walk'[k] = walk[k]
    PROVE  \E last : Follows(last)'
<1>1. PICK last : Follows(last)
  BY BusyWalk
<1>2. /\ n \in Nat \ {0}
      /\ \A k \in 1..n : walk[k].node \in visited
      /\ \A j, k \in 1..n : walk[j].node = walk[k].node => j = k
  BY WalkNodes
<1>3. 0 \notin visited /\ NextSiblingsWait
  BY BusyWalk
<1>4. /\ last \in Met /\ last \notin Waiting /\ Target(graph, last) = 0
      /\ OneToOne(Met \ (Waiting \cup {last}), visited)
  <2>1. Followed(last) = Met \ (Waiting \cup {last})
    BY DEF Followed
  <2> QED BY <1>1, <2>1 DEF Follows
<1>5. Met' = Met
  BY DEF Met
<1>6. OneToOne(Met \ Waiting, visited)
  <2> DEFINE references == Met \ (Waiting \cup {last})
  <2>1. Met \ Waiting = references \cup {last}
    BY <1>4
  <2>2. OneToOne(references, visited)
    BY <1>4
  <2> HIDE DEF references
  <2>3. OneToOne(references \cup {last}, visited)
    BY <1>3, <1>4, <2>2, OneMoreEnd
  <2> QED BY <2>1, <2>3
<1>7. ASSUME NEW f, Followed(f)' = Met \ Waiting PROVE OneToOne(Followed(f), visited)'
  <2> DEFINE references == Met \ Waiting
  <2> HIDE DEF references
  <2>1. Followed(f)' = references /\ visited' = visited /\ OneToOne(references, visited)
    BY <1>6, <1>7 DEF references
  <2> QED BY <2>1 DEF OneToOne
<1>8. Waiting' = {<<"nextSibling", walk[k].node>> : k \in 2..(n - 1)}
  BY <1>2, SMTT(30) DEF Waiting
<1>9. CASE n = 1
  <2>1. Waiting' = {} /\ Waiting = {}
    BY <1>8, <1>9 DEF Waiting
  <2>2. walk' = <<>>
    BY <1>9
  <2>3. Followed(last)' = Met \ Waiting
    BY <1>5, <2>1, <2>2 DEF Followed
  <2> QED BY <1>7, <2>2, <2>3 DEF Follows
<1>10. CASE n # 1
  <2>1. PICK m : m = walk[n].node
    OBVIOUS
  <2>2. PICK f : f = <<"nextSibling", m>>
    OBVIOUS
  <2>3. f \notin Waiting'
    <3>1. ASSUME NEW k \in 2..(n - 1) PROVE f # <<"nextSibling", walk[k].node>>
      <4>1. k \in 1..n /\ n \in 1..n /\ k # n
        BY <1>2
      <4>2. walk[k].node # m
        BY <1>2, <2>1, <4>1
      <4>3. PICK o : o = walk[k].node
        OBVIOUS
      <4> QED BY <2>2, <4>2, <4>3
    <3> QED BY <1>8, <3>1
  <2>4. Waiting' \cup {f} = Waiting
    <3>1. \A k : k \in 2..n <=> k \in 2..(n - 1) \/ k = n
      BY <1>2, <1>10
    <3>2. \A ref : ref \in Waiting <=> ref \in Waiting' \/ ref = f
      BY <1>8, <2>1, <2>2, <3>1 DEF Waiting
    <3> QED BY <3>2
  <2>5. walk' # <<>>
    <3>1. Len(walk') # 0
      BY <1>2, <1>10
    <3> QED BY <3>1
  <2>6. Followed(f)' = Met \ Waiting
    <3>1. Followed(f)' = Met' \ (Waiting' \cup {f})
      BY <2>5 DEF Followed
    <3> QED BY <1>5, <2>4, <3>1
  <2>7. f \in Met'
    <3>1. m \in visited
      BY <1>2, <2>1
    <3> QED BY <1>5, <2>2, <3>1, MetMeans
  <2>8. Target(graph', f) = Current'.next
    <3>1. Target(graph, f) = Node(m).nextSibling
      BY <2>2, Targets
    <3>2. walk[n - 1].next = Node(m).nextSibling
      BY <1>2, <1>3, <1>10, <2>1 DEF NextSiblingsWait
    <3>3. Current' = walk[n - 1]
      BY <1>2, <1>10 DEF Current
    <3> QED BY <3>1, <3>2, <3>3
  <2> QED BY <1>7, <2>3, <2>5, <2>6, <2>7, <2>8 DEF Follows
<1> QED BY <1>9, <1>10

LEMMA FormInvLeaveNode == ASSUME FormInv, LeaveNode PROVE FormInv'
<1>1. /\ verdict = "busy" /\ walk # <<>> /\ Current.next = 0
      /\ walk' = SubSeq(walk, 1, Len(walk) - 1)
      /\ limits' = limits /\ graph' = graph /\ visited' = visited /\ trees' = trees /\ verdict' = verdict
  BY DEF LeaveNode
<1>2. PICK n : n = Len(walk)
  OBVIOUS
<1>3. /\ n \in Nat \ {0} /\ walk \in Seq(Entries) /\ \A k \in 1..n : walk[k] \in Entries
      /\ RecordsValid /\ ReachedOnly /\ HeaderFits /\ TreesValid /\ NextSiblingsWait
  BY <1>1, <1>2, WalkNodes, BusyWalk
<1>4. /\ walk' \in Seq(Entries) /\ Len(walk') = n - 1
      /\ \A k \in 1..(n - 1) : walk'[k] = walk[k]
  <2>1. \A k \in 1..(n - 1) : walk[k] \in Entries
    BY <1>3
  <2> QED BY <1>1, <1>2, <1>3, <2>1, SubSeqProperties
<1>5. WalkInv'
  BY WalkInvLeaveNode DEF FormInv
<1>6. \E last : Follows(last)'
  BY <1>1, <1>2, <1>4, FollowsOut
<1>7. NextSiblingsWait'
  <2> SUFFICES ASSUME NEW k \in 2..(n - 1) PROVE walk'[k - 1].next = Node(walk'[k].node).nextSibling
    BY <1>1, <1>4 DEF NextSiblingsWait, Node
  <2>1. k \in 2..n /\ k \in 1..(n - 1) /\ k - 1 \in 1..(n - 1)
    BY <1>3
  <2> QED BY <1>2, <1>3, <1>4, <2>1 DEF NextSiblingsWait
<1>8. RecordsValid' /\ ReachedOnly' /\ HeaderFits' /\ TreesValid' /\ AcceptedIsWellFormed'
  BY <1>1, <1>3 DEF RecordsValid, ReachedOnly, HeaderFits, TreesValid, AcceptedIsWellFormed, Node, Nodes, RootOf,
                    NameOf
<1> QED BY <1>5, <1>6, <1>7, <1>8 DEF FormInv

\* After the last tree every reference there is from the roots and the visited nodes has
\* been followed.
LEMMA AllFollowed ==
    ASSUME FormInv, verdict = "busy", walk = <<>>, trees > Len(graph.partials)
    PROVE  /\ OneToOne(Met, visited)
           /\ \A ref : ref \in Met <=>
                  \/ ref = <<"root", 0>>
                  \/ \E k \in DOMAIN graph.partials : ref = <<"partial", k>>
                  \/ \E i \in visited : ref = <<"firstChild", i>> \/ ref = <<"nextSibling", i>>
           /\ \A k \in 0..Len(graph.partials) : RootOf(k) \in visited /\ Node(RootOf(k)).nextSibling = 0
           /\ \A i : i \in RootsOf(graph) <=> \E k \in 0..Len(graph.partials) : i = RootOf(k)
<1>1. /\ trees \in Nat /\ Len(graph.partials) \in Nat /\ DOMAIN graph.partials = 1..Len(graph.partials)
      /\ TreesValid
  BY BusyWalk
<1>2. OneToOne(Met, visited)
  <2>1. PICK last : Follows(last)
    BY BusyWalk
  <2>2. Waiting = {}
    BY DEF Waiting
  <2>3. Followed(last) = Met
    BY <2>2 DEF Followed
  <2> QED BY <2>1, <2>3 DEF Follows
<1>3. \A k \in DOMAIN graph.partials : k < trees
  BY <1>1
<1>4. trees > 0
  BY <1>1
<1>5. \A k \in 0..Len(graph.partials) : RootOf(k) \in visited /\ Node(RootOf(k)).nextSibling = 0
  BY <1>1 DEF TreesValid
<1>6. \A i : i \in RootsOf(graph) <=> \E k \in 0..Len(graph.partials) : i = RootOf(k)
  <2>1. \A k : k \in 0..Len(graph.partials) <=> k = 0 \/ k \in DOMAIN graph.partials
    BY <1>1
  <2>2. 0 \notin DOMAIN graph.partials
    BY <1>1
  <2> QED BY <2>1, <2>2 DEF RootsOf, RootOf
<1> QED BY <1>2, <1>3, <1>4, <1>5, <1>6, MetMeans

LEMMA AllVisited ==
    ASSUME FormInv, verdict = "busy"
    PROVE  Cardinality(visited) = Len(graph.nodes) <=> visited = Nodes
<1>1. Len(graph.nodes) \in Nat /\ Nodes = 1..Len(graph.nodes) /\ visited \subseteq Nodes
  BY BusyWalk DEF ArchiveGraphs
<1>2. IsFiniteSet(Nodes) /\ Cardinality(Nodes) = Len(graph.nodes)
  BY <1>1, FS_Interval
<1> QED BY <1>1, <1>2, FS_Subset

LEMMA ConcludedIsWellFormed ==
    ASSUME FormInv, verdict = "busy", walk = <<>>, trees > Len(graph.partials), visited = Nodes
    PROVE  WellFormed(graph)
<1>1. /\ trees \in Nat /\ Len(graph.partials) \in Nat /\ DOMAIN graph.partials = 1..Len(graph.partials)
      /\ Nodes = DOMAIN graph.nodes /\ 0 \notin Nodes
      /\ TreesValid /\ RecordsValid /\ ReachedOnly /\ HeaderFits
  BY BusyWalk DEF Nodes
<1>2. /\ OneToOne(Met, Nodes)
      /\ \A k \in 0..Len(graph.partials) : RootOf(k) \in Nodes /\ Node(RootOf(k)).nextSibling = 0
      /\ \A i : i \in RootsOf(graph) <=> \E k \in 0..Len(graph.partials) : i = RootOf(k)
  BY AllFollowed
<1>3. Met = References(graph)
  <2>1. \A ref : ref \in Met <=>
            \/ ref = <<"root", 0>>
            \/ \E k \in DOMAIN graph.partials : ref = <<"partial", k>>
            \/ \E i \in Nodes : ref = <<"firstChild", i>> \/ ref = <<"nextSibling", i>>
    BY AllFollowed
  <2>2. \A ref : ref \in References(graph) <=>
            \/ ref = <<"root", 0>>
            \/ \E k \in DOMAIN graph.partials : ref = <<"partial", k>>
            \/ \E i \in Nodes : ref = <<"firstChild", i>> \/ ref = <<"nextSibling", i>>
    BY <1>1 DEF References
  <2> QED BY <2>1, <2>2
<1>4. \A ref \in References(graph) :
          Target(graph, ref) \in Nodes \/ (Target(graph, ref) = 0 /\ ref[1] \in {"firstChild", "nextSibling"})
  <2> SUFFICES ASSUME NEW ref \in References(graph), Target(graph, ref) \notin Nodes
               PROVE  Target(graph, ref) = 0 /\ ref[1] \in {"firstChild", "nextSibling"}
    OBVIOUS
  <2>1. Target(graph, ref) = 0
    BY <1>2, <1>3 DEF OneToOne
  <2>2. \A k \in 0..Len(graph.partials) : ref # RootRef(k)
    BY <1>1, <1>2, Targets
  <2>3. ref # <<"root", 0>> /\ \A k \in DOMAIN graph.partials : ref # <<"partial", k>>
    BY <1>1, <2>2 DEF RootRef
  <2>4. PICK i : ref = <<"firstChild", i>> \/ ref = <<"nextSibling", i>>
    BY <2>3 DEF References
  <2>5. ref[1] \in {"firstChild", "nextSibling"}
    BY <2>4
  <2> QED BY <2>1, <2>5
<1>5. \A i \in Nodes : \E ref \in References(graph) : {r \in References(graph) : Target(graph, r) = i} = {ref}
  <2> SUFFICES ASSUME NEW i \in Nodes
               PROVE  \E ref \in References(graph) : {r \in References(graph) : Target(graph, r) = i} = {ref}
    OBVIOUS
  <2> DEFINE T(r) == Target(graph, r)
  <2>1. PICK ref \in References(graph) : T(ref) = i
    BY <1>2, <1>3 DEF OneToOne
  <2>2. \A r \in References(graph) : T(r) = i => r = ref
    BY <1>1, <1>2, <1>3, <2>1 DEF OneToOne
  <2> HIDE DEF T
  <2>3. {r \in References(graph) : T(r) = i} = {ref}
    BY <2>1, <2>2
  <2> QED BY <2>3 DEF T
<1>6. AllReached(graph)
  <2> SUFFICES ASSUME NEW S \in SUBSET Nodes, RootsOf(graph) \subseteq S, \A i \in S : LinksOf(graph, i) \subseteq S
               PROVE  Nodes \subseteq S
    BY <1>1 DEF AllReached
  <2>1. \A k \in Nat : k < trees => RootOf(k) \in S
    <3> SUFFICES ASSUME NEW k \in Nat, k < trees PROVE RootOf(k) \in S
      OBVIOUS
    <3>1. k \in 0..Len(graph.partials)
      BY <1>1 DEF TreesValid
    <3> QED BY <1>2, <3>1
  <2> QED BY <1>1, <2>1 DEF ReachedOnly
<1>7. \A i \in RootsOf(graph) : graph.nodes[i].nextSibling = 0
  BY <1>2 DEF Node
<1>8. ValidNames(graph)
  <2>1. \A k : k \in DOMAIN graph.partials => k \in 1..(trees - 1)
    BY <1>1
  <2> QED BY <1>1, <2>1 DEF TreesValid, ValidNames, NameOf
<1>9. graph.nodes[graph.root].type = "Root"
  <2>1. trees > 0
    BY <1>1
  <2> QED BY <1>1, <2>1 DEF TreesValid, Node
<1>10. \A i \in DOMAIN graph.nodes : ValidRecord(graph, graph.nodes[i])
  BY <1>1 DEF RecordsValid, Node
<1>11. IsForest(graph)
  BY <1>1, <1>4, <1>5, <1>6, <1>7 DEF IsForest
<1> QED BY <1>1, <1>8, <1>9, <1>10, <1>11 DEF WellFormed, HeaderFits

LEMMA FormInvConclude == ASSUME FormInv, Conclude PROVE FormInv'
<1>1. /\ verdict = "busy" /\ walk = <<>> /\ trees > Len(graph.partials)
      /\ verdict' = Conclusion /\ graph' = graph
  BY DEF Conclude, Refuse
<1>2. WalkInv'
  BY WalkInvConclude DEF FormInv
<1>3. verdict' # "busy"
  BY <1>1 DEF Conclusion
<1>4. ASSUME verdict' = "valid" PROVE WellFormed(graph)
  <2>1. visited = Nodes
    BY <1>1, <1>4, AllVisited DEF Conclusion
  <2> QED BY <1>1, <2>1, ConcludedIsWellFormed
<1> QED BY <1>1, <1>2, <1>3, <1>4 DEF FormInv, AcceptedIsWellFormed

LEMMA FormInvStep == ASSUME FormInv, [BeginAny \/ Validation]_validator PROVE FormInv'
BY FormInvBegin, FormInvUnchanged, FormInvEnterTree, FormInvEnterChild, FormInvLeaveNode, FormInvConclude
   DEF Validation

-----------------------------------------------------------------------------
(* What the walk refuses *)

\* A well-formed graph's node that a reference not yet followed leads to was not visited.
LEMMA NotYetVisited ==
    ASSUME FormInv, verdict = "busy", WellFormed(graph), NEW last, Follows(last),
           NEW ref \in References(graph), ref \notin Followed(last)
    PROVE  Target(graph, ref) \notin visited
<1> DEFINE T(r) == Target(graph, r)
<1>1. \A r : r \in Met => r \in References(graph)
  <2>1. Nodes = DOMAIN graph.nodes /\ visited \subseteq Nodes
    BY BusyWalk DEF Nodes
  <2> QED BY <2>1, MetMeans DEF References
<1>2. \A i \in visited : \E r \in Followed(last) : T(r) = i
  BY DEF Follows, OneToOne
<1>3. \A i \in visited : \E s : \A r \in References(graph) : T(r) = i => r = s
  <2> SUFFICES ASSUME NEW i \in visited PROVE \E s : \A r \in References(graph) : T(r) = i => r = s
    OBVIOUS
  <2>1. i \in DOMAIN graph.nodes
    BY BusyWalk DEF Nodes
  <2>2. PICK s \in References(graph) : {r \in References(graph) : T(r) = i} = {s}
    BY <2>1 DEF WellFormed, IsForest
  <2>3. \A r \in References(graph) : T(r) = i => r \in {s}
    BY <2>2
  <2> QED BY <2>3
<1> HIDE DEF T
<1>4. Followed(last) \subseteq References(graph)
  BY <1>1 DEF Followed
<1>5. T(ref) \notin visited
  BY <1>2, <1>3, <1>4
<1> QED BY <1>5 DEF T

LEMMA WellFormedNodes ==
    ASSUME FormInv, verdict = "busy", WellFormed(graph), NEW i \in Nodes
    PROVE  /\ RecordFits(Node(i), TRUE)
           /\ "PartialIndent" \in Node(i).flags => IndentsPartial(Node(i))
           /\ Node(i).nextSibling \in Nodes \cup {0}
<1>1. ValidRecord(graph, Node(i)) /\ Node(i) \in ArchiveNodes /\ graph \in ArchiveGraphs
  BY BusyWalk DEF WellFormed, Nodes, Node
<1>2. RecordFits(Node(i), TRUE) /\ ("PartialIndent" \in Node(i).flags => IndentsPartial(Node(i)))
  BY <1>1, RecordMeets
<1>3. Node(i).nextSibling \in Nodes \cup {0}
  <2>1. <<"nextSibling", i>> \in References(graph)
    BY DEF References, Nodes
  <2>2. Target(graph, <<"nextSibling", i>>) \in Nodes \cup {0}
    BY <2>1 DEF WellFormed, IsForest, Nodes
  <2> QED BY <2>2, Targets
<1> QED BY <1>2, <1>3

LEMMA TreeOfWellFormed ==
    ASSUME FormInv, verdict = "busy", WellFormed(graph), walk = <<>>, trees <= Len(graph.partials)
    PROVE  TreeRefusal(trees) # "invalid" /\ RootOf(trees) \notin visited
<1>1. /\ trees \in Nat /\ Len(graph.partials) \in Nat /\ DOMAIN graph.partials = 1..Len(graph.partials)
      /\ 0 \notin Nodes /\ Nodes = DOMAIN graph.nodes
  BY BusyWalk DEF Nodes
<1>2. ASSUME trees > 0 PROVE NameFits(trees)
  <2>1. trees \in DOMAIN graph.partials
    BY <1>1, <1>2
  <2>2. InTable(graph, graph.partials[trees].name) /\ NameOf(trees) # <<>>
    BY <2>1 DEF WellFormed, ValidNames, NameOf
  <2>3. ASSUME trees > 1 PROVE Ascends(trees)
    <3>1. trees - 1 \in DOMAIN graph.partials /\ trees - 1 < trees
      BY <1>1, <2>3
    <3> QED BY <2>1, <3>1 DEF WellFormed, ValidNames, NameOf, Ascends
  <2> QED BY <2>2, <2>3 DEF NameFits
<1>3. RootRef(trees) \in References(graph) /\ Target(graph, RootRef(trees)) = RootOf(trees)
  BY <1>1, Targets DEF RootRef, References
<1>4. RootOf(trees) \in Nodes
  <2>1. RootRef(trees)[1] \notin {"firstChild", "nextSibling"}
    BY DEF RootRef
  <2> QED BY <1>1, <1>3, <2>1 DEF WellFormed, IsForest
<1>5. RootFits(trees)
  <2>1. RootOf(trees) \in RootsOf(graph)
    <3>1. trees # 0 => trees \in DOMAIN graph.partials
      BY <1>1
    <3> QED BY <3>1 DEF RootsOf, RootOf
  <2> QED BY <1>4, <2>1 DEF RootFits, RootOf, Node, WellFormed, IsForest
<1>6. RootOf(trees) \notin visited
  <2>1. PICK last : Follows(last)
    BY BusyWalk
  <2>2. RootRef(trees) \notin Met
    <3>1. \A x, y : <<x, y>>[1] = x /\ <<x, y>>[2] = y
      OBVIOUS
    <3>2. CASE trees = 0
      <4>1. RootRef(trees) = <<"root", 0>> /\ ~(trees > 0)
        BY <3>2 DEF RootRef
      <4> QED BY <3>1, <4>1, MetMeans
    <3>3. CASE trees # 0
      <4>1. RootRef(trees) = <<"partial", trees>> /\ ~(trees < trees)
        BY <1>1, <3>3 DEF RootRef
      <4> QED BY <3>1, <4>1, MetMeans
    <3> QED BY <3>2, <3>3
  <2>3. RootRef(trees) \notin Followed(last)
    BY <2>2 DEF Followed
  <2>4. Target(graph, RootRef(trees)) \notin visited
    BY <1>3, <2>1, <2>3, NotYetVisited
  <2> QED BY <1>3, <2>4
<1>7. RecordFits(Node(RootOf(trees)), FALSE)
  <2>1. /\ RecordFits(Node(RootOf(trees)), TRUE)
        /\ "PartialIndent" \in Node(RootOf(trees)).flags => IndentsPartial(Node(RootOf(trees)))
    BY <1>4, WellFormedNodes
  <2>2. "PartialIndent" \notin Node(RootOf(trees)).flags
    BY <1>5, <2>1 DEF IndentsPartial, RootFits
  <2> QED BY <2>1, <2>2 DEF RecordFits
<1> QED BY <1>1, <1>2, <1>4, <1>5, <1>6, <1>7 DEF TreeRefusal, NodeRefusal, Seen

LEMMA ChildOfWellFormed ==
    ASSUME FormInv, verdict = "busy", WellFormed(graph), walk # <<>>, Current.next # 0
    PROVE  ChildRefusal(Current.next) # "invalid" /\ Current.next \notin visited
<1>1. PICK i : i = Current.next
  OBVIOUS
<1>2. PICK last : Follows(last)
  BY BusyWalk
<1>3. last \in Met /\ Target(graph, last) = i /\ last \notin Followed(last)
  BY <1>1, <1>2 DEF Follows, Followed
<1>4. last \in References(graph)
  <2>1. Nodes = DOMAIN graph.nodes /\ visited \subseteq Nodes
    BY BusyWalk DEF Nodes
  <2> QED BY <1>3, <2>1, MetMeans DEF References
<1>5. i \in Nodes
  BY <1>1, <1>3, <1>4 DEF WellFormed, IsForest, Nodes
<1>6. i \notin visited
  BY <1>2, <1>3, <1>4, NotYetVisited
<1>7. /\ RecordFits(Node(i), TRUE)
      /\ "PartialIndent" \in Node(i).flags => IndentsPartial(Node(i))
      /\ Node(i).nextSibling \in Nodes \cup {0}
  BY <1>5, WellFormedNodes
<1>8. RecordFits(Node(i), "PartialIndent" \in Node(i).flags)
  BY <1>7 DEF RecordFits
<1>9. NodeRefusal(i, "PartialIndent" \in Node(i).flags) # "invalid"
  BY <1>5, <1>6, <1>8 DEF NodeRefusal, Seen
<1> QED BY <1>1, <1>5, <1>6, <1>7, <1>9 DEF ChildRefusal

LEMMA EndOfWellFormed ==
    ASSUME FormInv, verdict = "busy", WellFormed(graph), walk = <<>>, trees > Len(graph.partials)
    PROVE  Conclusion # "invalid"
<1>1. /\ OneToOne(Met, visited)
      /\ \A k \in 0..Len(graph.partials) : RootOf(k) \in visited
      /\ \A i : i \in RootsOf(graph) => \E k \in 0..Len(graph.partials) : i = RootOf(k)
  BY AllFollowed
<1>2. RootsOf(graph) \subseteq visited
  BY <1>1
<1>3. \A i \in visited : LinksOf(graph, i) \subseteq visited
  <2> SUFFICES ASSUME NEW i \in visited PROVE LinksOf(graph, i) \subseteq visited
    OBVIOUS
  <2>1. <<"firstChild", i>> \in Met /\ <<"nextSibling", i>> \in Met
    BY MetMeans
  <2>2. Target(graph, <<"firstChild", i>>) \in visited \cup {0} /\ Target(graph, <<"nextSibling", i>>) \in visited \cup {0}
    BY <1>1, <2>1 DEF OneToOne
  <2> QED BY <2>2, Targets DEF LinksOf, Node
<1>4. visited = Nodes
  <2>1. visited \in SUBSET DOMAIN graph.nodes
    BY BusyWalk DEF Nodes
  <2>2. AllReached(graph)
    BY DEF WellFormed, IsForest
  <2> QED BY <1>2, <1>3, <2>1, <2>2 DEF AllReached, Nodes
<1> QED BY <1>4, AllVisited DEF Conclusion

LEMMA RefusesOnlyMalformed ==
    ASSUME FormInv, Validation, verdict' = "invalid" PROVE ~WellFormed(graph)
<1> SUFFICES ASSUME WellFormed(graph) PROVE FALSE
  OBVIOUS
<1>1. CASE EnterTree
  <2>1. /\ verdict = "busy" /\ walk = <<>> /\ trees <= Len(graph.partials)
        /\ verdict' = verdict \/ verdict' = TreeRefusal(trees)
    BY <1>1 DEF EnterTree, Refuse
  <2> QED BY <2>1, TreeOfWellFormed
<1>2. CASE EnterChild
  <2>1. /\ verdict = "busy" /\ walk # <<>> /\ Current.next # 0
        /\ verdict' = verdict \/ verdict' = ChildRefusal(Current.next)
    BY <1>2 DEF EnterChild, Refuse
  <2> QED BY <2>1, ChildOfWellFormed
<1>3. CASE LeaveNode
  BY <1>3 DEF LeaveNode
<1>4. CASE Conclude
  <2>1. /\ verdict = "busy" /\ walk = <<>> /\ trees > Len(graph.partials) /\ verdict' = Conclusion
    BY <1>4 DEF Conclude, Refuse
  <2> QED BY <2>1, EndOfWellFormed
<1> QED BY <1>1, <1>2, <1>3, <1>4 DEF Validation

-----------------------------------------------------------------------------
(* The depth of every node of a forest *)

\* In a well-formed graph, references lead to nodes, one to each, and to all of them.
LEMMA ForestMeans ==
    ASSUME graph \in ArchiveGraphs, WellFormed(graph)
    PROVE  /\ \A k \in 0..Len(graph.partials) : RootOf(k) \in Nodes
           /\ \A i \in Nodes : Node(i).firstChild \in Nodes \cup {0} /\ Node(i).nextSibling \in Nodes \cup {0}
           /\ \A k \in 0..Len(graph.partials), i \in Nodes :
                 RootOf(k) # Node(i).firstChild /\ RootOf(k) # Node(i).nextSibling
           /\ \A i, j \in Nodes : Node(i).firstChild \in Nodes =>
                 Node(i).firstChild # Node(j).nextSibling /\ (Node(i).firstChild = Node(j).firstChild => i = j)
           /\ \A i, j \in Nodes : Node(i).nextSibling \in Nodes /\ Node(i).nextSibling = Node(j).nextSibling => i = j
           /\ \A S \in SUBSET Nodes :
                 /\ \A k \in 0..Len(graph.partials) : RootOf(k) \in S
                 /\ \A i \in S : Node(i).firstChild \in S \cup {0} /\ Node(i).nextSibling \in S \cup {0}
                 => S = Nodes
<1> DEFINE T(r) == Target(graph, r)
           First(i) == <<"firstChild", i>>
           Next(i) == <<"nextSibling", i>>
<1>1. DOMAIN graph.partials = 1..Len(graph.partials) /\ Len(graph.partials) \in Nat /\ Nodes = DOMAIN graph.nodes
  BY DEF ArchiveGraphs, Nodes
<1>2. \A k \in 0..Len(graph.partials) : RootRef(k) \in References(graph)
  <2> SUFFICES ASSUME NEW k \in 0..Len(graph.partials) PROVE RootRef(k) \in References(graph)
    OBVIOUS
  <2>1. k # 0 => k \in DOMAIN graph.partials
    BY <1>1
  <2> QED BY <2>1 DEF RootRef, References
<1>3. \A i \in Nodes : First(i) \in References(graph) /\ Next(i) \in References(graph)
  BY <1>1 DEF References
<1>4. /\ \A k \in 0..Len(graph.partials) : T(RootRef(k)) = RootOf(k)
      /\ \A i : T(First(i)) = Node(i).firstChild /\ T(Next(i)) = Node(i).nextSibling
  BY <1>1, Targets
<1>5. \A x, y : <<x, y>>[1] = x /\ <<x, y>>[2] = y
  OBVIOUS
<1>6. /\ \A k, i : RootRef(k) # First(i) /\ RootRef(k) # Next(i)
      /\ \A i, j : First(i) # Next(j) /\ (First(i) = First(j) => i = j) /\ (Next(i) = Next(j) => i = j)
  BY <1>5 DEF RootRef
<1>7. \A r, s \in References(graph) : T(r) \in Nodes /\ T(r) = T(s) => r = s
  <2> SUFFICES ASSUME NEW r \in References(graph), NEW s \in References(graph), T(r) \in Nodes, T(r) = T(s)
               PROVE  r = s
    OBVIOUS
  <2>1. PICK ref \in References(graph) : {q \in References(graph) : T(q) = T(r)} = {ref}
    BY <1>1 DEF WellFormed, IsForest
  <2>2. r \in {q \in References(graph) : T(q) = T(r)} /\ s \in {q \in References(graph) : T(q) = T(r)}
    OBVIOUS
  <2> QED BY <2>1, <2>2
<1>8. \A ref \in References(graph) : T(ref) \in Nodes \cup {0}
  BY <1>1 DEF WellFormed, IsForest
<1>9. \A k \in 0..Len(graph.partials) : RootOf(k) \in Nodes
  <2> SUFFICES ASSUME NEW k \in 0..Len(graph.partials) PROVE RootOf(k) \in Nodes
    OBVIOUS
  <2>1. RootRef(k)[1] \notin {"firstChild", "nextSibling"}
    BY <1>5 DEF RootRef
  <2> QED BY <1>1, <1>2, <1>4, <2>1 DEF WellFormed, IsForest
<1>10. \A S \in SUBSET Nodes :
           /\ \A k \in 0..Len(graph.partials) : RootOf(k) \in S
           /\ \A i \in S : Node(i).firstChild \in S \cup {0} /\ Node(i).nextSibling \in S \cup {0}
           => S = Nodes
  <2> SUFFICES ASSUME NEW S \in SUBSET Nodes, \A k \in 0..Len(graph.partials) : RootOf(k) \in S,
                      \A i \in S : Node(i).firstChild \in S \cup {0} /\ Node(i).nextSibling \in S \cup {0}
               PROVE  S = Nodes
    OBVIOUS
  <2>1. RootsOf(graph) \subseteq S
    <3>1. graph.root = RootOf(0) /\ \A k \in DOMAIN graph.partials : graph.partials[k].root = RootOf(k)
      BY <1>1 DEF RootOf
    <3>2. 0 \in 0..Len(graph.partials) /\ \A k \in DOMAIN graph.partials : k \in 0..Len(graph.partials)
      BY <1>1
    <3> QED BY <3>1, <3>2 DEF RootsOf
  <2>2. \A i \in S : LinksOf(graph, i) \subseteq S
    BY DEF LinksOf, Node
  <2> QED BY <1>1, <2>1, <2>2 DEF WellFormed, IsForest, AllReached
<1> HIDE DEF T, First, Next
<1>11. \A i \in Nodes : Node(i).firstChild \in Nodes \cup {0} /\ Node(i).nextSibling \in Nodes \cup {0}
  BY <1>3, <1>4, <1>8
<1>12. \A k \in 0..Len(graph.partials), i \in Nodes :
           RootOf(k) # Node(i).firstChild /\ RootOf(k) # Node(i).nextSibling
  BY <1>2, <1>3, <1>4, <1>6, <1>7, <1>9
<1>13. \A i, j \in Nodes : Node(i).firstChild \in Nodes =>
           Node(i).firstChild # Node(j).nextSibling /\ (Node(i).firstChild = Node(j).firstChild => i = j)
  BY <1>3, <1>4, <1>6, <1>7
<1>14. \A i, j \in Nodes : Node(i).nextSibling \in Nodes /\ Node(i).nextSibling = Node(j).nextSibling => i = j
  BY <1>3, <1>4, <1>6, <1>7
<1> QED BY <1>9, <1>10, <1>11, <1>12, <1>13, <1>14

LEMMA DepthMeans ==
    ASSUME graph \in ArchiveGraphs, NEW depth
    PROVE  IsDepth(graph, depth) <=>
               /\ \A k \in 0..Len(graph.partials) : depth[RootOf(k)] = 0
               /\ \A i \in Nodes :
                     /\ Node(i).firstChild # 0 => depth[Node(i).firstChild] = depth[i] + 1
                     /\ Node(i).nextSibling # 0 => depth[Node(i).nextSibling] = depth[i]
<1>1. DOMAIN graph.partials = 1..Len(graph.partials) /\ Len(graph.partials) \in Nat
  BY DEF ArchiveGraphs
<1>2. \A i : i \in RootsOf(graph) <=> \E k \in 0..Len(graph.partials) : i = RootOf(k)
  <2>1. \A k : k \in 0..Len(graph.partials) <=> k = 0 \/ k \in DOMAIN graph.partials
    BY <1>1
  <2>2. 0 \notin DOMAIN graph.partials
    BY <1>1
  <2> QED BY <2>1, <2>2 DEF RootsOf, RootOf
<1> QED BY <1>2 DEF IsDepth, Nodes, Node

LEMMA Least ==
    ASSUME NEW S \in SUBSET Nat, S # {}
    PROVE  \E x \in S : \A y \in S : x <= y
<1> DEFINE R == {ss \in Nat \X Nat : ss[1] < ss[2]}
<1>1. IsWellFoundedOn(R, Nat)
  BY NatLessThanWellFounded DEF OpToRel
<1>2. PICK x \in S : \A y \in S : ~ (<<y, x>> \in R)
  <2> HIDE DEF R
  <2> QED BY <1>1, WFMin, Zenon
<1>3. \A y \in S : ~ (y < x)
  BY <1>2
<1> QED BY <1>3

\* Nodes whose depths are settled: with each, everything on the way to it from a root.
Settled(S, depth) ==
    /\ \A k \in 0..Len(graph.partials) : RootOf(k) \in S => depth[RootOf(k)] = 0
    /\ \A i \in Nodes : Node(i).firstChild \in S => i \in S /\ depth[Node(i).firstChild] = depth[i] + 1
    /\ \A i \in Nodes : Node(i).nextSibling \in S => i \in S /\ depth[Node(i).nextSibling] = depth[i]

\* As long as a node is left, so is one that a root or a settled node leads to.
LEMMA OneMoreSettled ==
    ASSUME graph \in ArchiveGraphs, WellFormed(graph), NEW S \in SUBSET Nodes, S # Nodes,
           NEW depth \in [Nodes -> Nat], Settled(S, depth)
    PROVE  \E j \in Nodes \ S, depth2 \in [Nodes -> Nat] : Settled(S \cup {j}, depth2)
<1>1. /\ \A k \in 0..Len(graph.partials) : RootOf(k) \in Nodes
      /\ \A i \in Nodes : Node(i).firstChild \in Nodes \cup {0} /\ Node(i).nextSibling \in Nodes \cup {0}
      /\ \A k \in 0..Len(graph.partials), i \in Nodes :
            RootOf(k) # Node(i).firstChild /\ RootOf(k) # Node(i).nextSibling
      /\ \A i, j \in Nodes : Node(i).firstChild \in Nodes =>
            Node(i).firstChild # Node(j).nextSibling /\ (Node(i).firstChild = Node(j).firstChild => i = j)
      /\ \A i, j \in Nodes : Node(i).nextSibling \in Nodes /\ Node(i).nextSibling = Node(j).nextSibling => i = j
  BY ForestMeans
<1>2. CASE \E k \in 0..Len(graph.partials) : RootOf(k) \notin S
  <2>1. PICK k \in 0..Len(graph.partials) : RootOf(k) \notin S
    BY <1>2
  <2>2. PICK j \in Nodes : j = RootOf(k) /\ j \notin S
    BY <1>1, <2>1
  <2>3. PICK depth2 \in [Nodes -> Nat] : depth2[j] = 0 /\ \A i \in Nodes \ {j} : depth2[i] = depth[i]
    <3>1. [depth EXCEPT ![j] = 0] \in [Nodes -> Nat]
      OBVIOUS
    <3> QED BY <2>2, <3>1
  <2>4. Settled(S \cup {j}, depth2)
    BY <1>1, <2>2, <2>3 DEF Settled
  <2> QED BY <2>2, <2>4
<1>3. CASE \E i \in S : Node(i).firstChild \notin S \cup {0}
  <2>1. PICK i \in S : Node(i).firstChild \notin S \cup {0}
    BY <1>3
  <2>2. PICK j \in Nodes : j = Node(i).firstChild /\ j \notin S
    BY <1>1, <2>1
  <2>3. PICK depth2 \in [Nodes -> Nat] :
            depth2[j] = depth[i] + 1 /\ \A n \in Nodes \ {j} : depth2[n] = depth[n]
    <3>1. [depth EXCEPT ![j] = depth[i] + 1] \in [Nodes -> Nat]
      OBVIOUS
    <3> QED BY <2>2, <3>1
  <2>4. Settled(S \cup {j}, depth2)
    <3>1. \A k \in 0..Len(graph.partials) : RootOf(k) \in S \cup {j} => depth2[RootOf(k)] = 0
      BY <1>1, <2>1, <2>2, <2>3 DEF Settled
    <3>2. \A n \in Nodes : Node(n).firstChild \in S \cup {j} =>
              n \in S \cup {j} /\ depth2[Node(n).firstChild] = depth2[n] + 1
      BY <1>1, <2>1, <2>2, <2>3 DEF Settled
    <3>3. \A n \in Nodes : Node(n).nextSibling \in S \cup {j} =>
              n \in S \cup {j} /\ depth2[Node(n).nextSibling] = depth2[n]
      BY <1>1, <2>1, <2>2, <2>3 DEF Settled
    <3> QED BY <3>1, <3>2, <3>3 DEF Settled
  <2> QED BY <2>2, <2>4
<1>4. CASE \E i \in S : Node(i).nextSibling \notin S \cup {0}
  <2>1. PICK i \in S : Node(i).nextSibling \notin S \cup {0}
    BY <1>4
  <2>2. PICK j \in Nodes : j = Node(i).nextSibling /\ j \notin S
    BY <1>1, <2>1
  <2>3. PICK depth2 \in [Nodes -> Nat] :
            depth2[j] = depth[i] /\ \A n \in Nodes \ {j} : depth2[n] = depth[n]
    <3>1. [depth EXCEPT ![j] = depth[i]] \in [Nodes -> Nat]
      OBVIOUS
    <3> QED BY <2>2, <3>1
  <2>4. Settled(S \cup {j}, depth2)
    <3>1. \A k \in 0..Len(graph.partials) : RootOf(k) \in S \cup {j} => depth2[RootOf(k)] = 0
      BY <1>1, <2>1, <2>2, <2>3 DEF Settled
    <3>2. \A n \in Nodes : Node(n).firstChild \in S \cup {j} =>
              n \in S \cup {j} /\ depth2[Node(n).firstChild] = depth2[n] + 1
      BY <1>1, <2>1, <2>2, <2>3 DEF Settled
    <3>3. \A n \in Nodes : Node(n).nextSibling \in S \cup {j} =>
              n \in S \cup {j} /\ depth2[Node(n).nextSibling] = depth2[n]
      BY <1>1, <2>1, <2>2, <2>3 DEF Settled
    <3> QED BY <3>1, <3>2, <3>3 DEF Settled
  <2> QED BY <2>2, <2>4
<1> QED BY <1>2, <1>3, <1>4, ForestMeans

\* Every node of a well-formed graph has a depth: a largest settled set leaves none out.
LEMMA DepthsExist ==
    ASSUME graph \in ArchiveGraphs, WellFormed(graph)
    PROVE  \E depth \in [Nodes -> Nat] : IsDepth(graph, depth)
<1> DEFINE Left == {n \in Nat : \E S \in SUBSET Nodes : n = Cardinality(Nodes \ S)
                                      /\ \E depth \in [Nodes -> Nat] : Settled(S, depth)}
<1>1. IsFiniteSet(Nodes)
  <2>1. Len(graph.nodes) \in Nat /\ Nodes = 1..Len(graph.nodes)
    BY DEF ArchiveGraphs, Nodes
  <2> QED BY <2>1, FS_Interval
<1>2. Left # {}
  <2>1. Settled({}, [i \in Nodes |-> 0]) /\ [i \in Nodes |-> 0] \in [Nodes -> Nat]
    BY DEF Settled
  <2>2. Nodes \ {} = Nodes /\ Cardinality(Nodes) \in Nat
    BY <1>1, FS_CardinalityType
  <2>3. {} \in SUBSET Nodes /\ Cardinality(Nodes \ {}) = Cardinality(Nodes)
    BY <2>2
  <2>4. Cardinality(Nodes) \in Left
    BY <2>1, <2>2, <2>3
  <2> QED BY <2>4
<1>3. PICK n \in Left : \A m \in Left : n <= m
  <2>1. Left \in SUBSET Nat
    OBVIOUS
  <2> HIDE DEF Left
  <2> QED BY <1>2, <2>1, Least
<1>4. PICK S \in SUBSET Nodes : n = Cardinality(Nodes \ S) /\ \E depth \in [Nodes -> Nat] : Settled(S, depth)
  OBVIOUS
<1>5. PICK depth \in [Nodes -> Nat] : Settled(S, depth)
  BY <1>4
<1>6. S = Nodes
  <2> SUFFICES ASSUME S # Nodes PROVE FALSE
    OBVIOUS
  <2>1. PICK j \in Nodes \ S, depth2 \in [Nodes -> Nat] : Settled(S \cup {j}, depth2)
    BY <1>5, OneMoreSettled
  <2>2. Nodes \ (S \cup {j}) = (Nodes \ S) \ {j} /\ IsFiniteSet(Nodes \ S)
    BY <1>1, FS_Difference
  <2>3. Cardinality((Nodes \ S) \ {j}) = Cardinality(Nodes \ S) - 1 /\ IsFiniteSet((Nodes \ S) \ {j})
    BY <2>1, <2>2, FS_RemoveElement
  <2>4. Cardinality(Nodes \ (S \cup {j})) \in Nat /\ Cardinality(Nodes \ (S \cup {j})) = n - 1 /\ n \in Nat
    BY <1>4, <2>2, <2>3, FS_CardinalityType
  <2>5. Cardinality(Nodes \ (S \cup {j})) \in Left
    <3>1. S \cup {j} \in SUBSET Nodes
      OBVIOUS
    <3> QED BY <2>1, <2>4, <3>1
  <2> HIDE DEF Left
  <2>6. n <= Cardinality(Nodes \ (S \cup {j}))
    BY <1>3, <2>5
  <2> QED BY <2>4, <2>6
<1>7. Settled(Nodes, depth)
  BY <1>5, <1>6
<1>8. IsDepth(graph, depth)
  BY <1>7, ForestMeans, DepthMeans DEF Settled
<1> QED BY <1>8

\* And no node has two.
LEMMA DepthsAgree ==
    ASSUME graph \in ArchiveGraphs, WellFormed(graph), NEW depth \in [Nodes -> Nat], IsDepth(graph, depth),
           NEW depth2 \in [Nodes -> Nat], IsDepth(graph, depth2)
    PROVE  depth = depth2
<1> DEFINE S == {i \in Nodes : depth[i] = depth2[i]}
<1>1. S \in SUBSET Nodes
  OBVIOUS
<1>2. \A k \in 0..Len(graph.partials) : RootOf(k) \in S
  BY ForestMeans, DepthMeans
<1>3. \A i \in S : Node(i).firstChild \in S \cup {0} /\ Node(i).nextSibling \in S \cup {0}
  BY ForestMeans, DepthMeans
<1>4. S = Nodes
  <2> HIDE DEF S
  <2> QED BY <1>1, <1>2, <1>3, ForestMeans
<1> QED BY <1>4

-----------------------------------------------------------------------------
(* Counting parts *)

LEMMA PartsAreNatural ==
    ASSUME graph \in ArchiveGraphs, NEW i \in Nodes, InTable(graph, Node(i).data) PROVE PartsIn(graph, i) \in Nat
<1>1. graph.nodes[i].data \in Slices /\ graph.strings \in Seq(0..255)
  <2>1. graph.nodes \in Seq(ArchiveNodes) /\ graph.strings \in Seq(0..255)
    BY DEF ArchiveGraphs
  <2>2. graph.nodes[i] \in ArchiveNodes
    BY <2>1 DEF Nodes
  <2> QED BY <2>1, <2>2 DEF ArchiveNodes
<1>2. Bytes(graph, graph.nodes[i].data) \in Seq(0..255)
  <2>1. PICK slice \in Slices : slice = graph.nodes[i].data
    BY <1>1
  <2>2. /\ slice.offset \in Nat /\ slice.length \in Nat /\ Len(graph.strings) \in Nat
        /\ slice.offset + slice.length <= Len(graph.strings)
    BY <1>1, <2>1 DEF Slices, InTable, Node
  <2>3. /\ slice.offset + 1 \in Int /\ slice.offset + slice.length \in Int
        /\ \A k \in (slice.offset + 1)..(slice.offset + slice.length) : graph.strings[k] \in 0..255
    <3>1. \A k \in (slice.offset + 1)..(slice.offset + slice.length) : k \in 1..Len(graph.strings)
      BY <2>2
    <3>2. \A k \in 1..Len(graph.strings) : graph.strings[k] \in 0..255
      <4>1. PICK bytes : bytes = 0..255
        OBVIOUS
      <4>2. graph.strings \in Seq(bytes)
        BY <1>1, <4>1
      <4>3. \A k \in 1..Len(graph.strings) : graph.strings[k] \in bytes
        BY <4>2
      <4> QED BY <4>1, <4>3
    <3>3. slice.offset + 1 \in Int /\ slice.offset + slice.length \in Int
      BY <2>2
    <3> QED BY <3>1, <3>2, <3>3
  <2>4. SubSeq(graph.strings, slice.offset + 1, slice.offset + slice.length) \in Seq(0..255)
    BY <2>3, SubSeqProperties
  <2> QED BY <2>1, <2>4 DEF Bytes
<1>3. PICK data : data = Bytes(graph, graph.nodes[i].data)
  OBVIOUS
<1>4. Cardinality({k \in DOMAIN data : data[k] = Dot}) \in Nat
  <2>1. Len(data) \in Nat /\ DOMAIN data = 1..Len(data)
    BY <1>2, <1>3
  <2>2. IsFiniteSet(DOMAIN data)
    BY <2>1, FS_Interval
  <2>3. IsFiniteSet({k \in DOMAIN data : data[k] = Dot})
    BY <2>2, FS_Subset
  <2> QED BY <2>3, FS_CardinalityType
<1>5. PartsIn(graph, i) = Parts(graph.nodes[i].type, data)
  BY <1>3 DEF PartsIn
<1> QED BY <1>4, <1>5 DEF Parts

LEMMA NamePartsMean ==
    ASSUME NEW nodes
    PROVE  \A x : x \in NameParts(graph, nodes) <=> \E i \in nodes : x \in {i} \X (1..PartsIn(graph, i))
BY DEF NameParts

\* One more node adds as many as its name has.
LEMMA OneMoreName ==
    ASSUME NEW nodes, NEW i, i \notin nodes, PartsIn(graph, i) \in Nat, IsFiniteSet(NameParts(graph, nodes))
    PROVE  /\ IsFiniteSet(NameParts(graph, nodes \cup {i}))
           /\ Cardinality(NameParts(graph, nodes \cup {i})) = Cardinality(NameParts(graph, nodes)) + PartsIn(graph, i)
<1>1. PICK n \in Nat : n = PartsIn(graph, i)
  OBVIOUS
<1>2. IsFiniteSet({i} \X (1..n)) /\ Cardinality({i} \X (1..n)) = n
  <2>1. IsFiniteSet(1..n) /\ Cardinality(1..n) = n
    BY FS_Interval
  <2>2. IsFiniteSet({i}) /\ Cardinality({i}) = 1
    BY FS_Singleton
  <2>3. PICK one, upto : one = {i} /\ upto = 1..n
    OBVIOUS
  <2>4. IsFiniteSet(one) /\ IsFiniteSet(upto) /\ Cardinality(one) = 1 /\ Cardinality(upto) = n
    BY <2>1, <2>2, <2>3
  <2>5. IsFiniteSet(one \X upto) /\ Cardinality(one \X upto) = 1 * n
    BY <2>4, FS_Product
  <2> QED BY <2>3, <2>5
<1>3. NameParts(graph, nodes \cup {i}) = NameParts(graph, nodes) \cup ({i} \X (1..n))
  BY <1>1, NamePartsMean
<1>4. NameParts(graph, nodes) \cap ({i} \X (1..n)) = {}
  BY NamePartsMean
<1>5. Cardinality(NameParts(graph, nodes)) \in Nat /\ Cardinality({}) = 0
  BY FS_CardinalityType, FS_EmptySet
<1>6. PICK old, new : old = NameParts(graph, nodes) /\ new = {i} \X (1..n)
  OBVIOUS
<1>7. IsFiniteSet(old) /\ IsFiniteSet(new)
  BY <1>2, <1>6
<1>8. IsFiniteSet(old \cup new) /\ Cardinality(old \cup new) = Cardinality(old) + Cardinality(new) - Cardinality(old \cap new)
  BY <1>7, FS_Union
<1>9. Cardinality(old \cap new) = 0 /\ Cardinality(new) = n /\ Cardinality(old) \in Nat
  BY <1>2, <1>4, <1>5, <1>6
<1>10. Cardinality(old \cup new) = Cardinality(old) + n
  BY <1>8, <1>9
<1>11. NameParts(graph, nodes \cup {i}) = old \cup new
  BY <1>3, <1>6
<1> QED BY <1>1, <1>6, <1>8, <1>10, <1>11

\* In a graph within its limits, the parts of some nodes are no more than those of all.
LEMMA FewerParts ==
    ASSUME graph \in ArchiveGraphs, NEW n \in Nat, \A i \in Nodes : PartsIn(graph, i) \in Nat /\ PartsIn(graph, i) <= n,
           NEW nodes \in SUBSET Nodes
    PROVE  /\ IsFiniteSet(NameParts(graph, Nodes))
           /\ Cardinality(NameParts(graph, nodes)) <= Cardinality(NameParts(graph, Nodes))
<1>1. IsFiniteSet(Nodes \X (1..n))
  <2>1. Len(graph.nodes) \in Nat /\ Nodes = 1..Len(graph.nodes)
    BY DEF ArchiveGraphs, Nodes
  <2>2. IsFiniteSet(Nodes) /\ IsFiniteSet(1..n)
    BY <2>1, FS_Interval
  <2> QED BY <2>2, FS_Product
<1>2. NameParts(graph, Nodes) \subseteq Nodes \X (1..n)
  <2>1. \A i \in Nodes : 1..PartsIn(graph, i) \subseteq 1..n
    OBVIOUS
  <2> QED BY <2>1, NamePartsMean
<1>3. NameParts(graph, nodes) \subseteq NameParts(graph, Nodes)
  BY NamePartsMean
<1>4. IsFiniteSet(NameParts(graph, Nodes))
  BY <1>1, <1>2, FS_Subset
<1> QED BY <1>3, <1>4, FS_Subset

-----------------------------------------------------------------------------
(* What the walk has established about limits, step by step *)

LEMMA LimitInvInit == limits \in LimitChoices /\ ValidatorInit => LimitInv
BY FormInvInit DEF ValidatorInit, LimitInv, AcceptedIsInLimits

LEMMA LimitInvUnchanged == ASSUME LimitInv, UNCHANGED validator PROVE LimitInv'
<1>1. FormInv'
  BY FormInvUnchanged DEF LimitInv
<1>2. /\ limits' = limits /\ graph' = graph /\ visited' = visited /\ parts' = parts /\ walk' = walk
      /\ verdict' = verdict
  BY DEF validator
<1>3. AcceptedIsInLimits'
  BY <1>2 DEF LimitInv, AcceptedIsInLimits
<1>4. ASSUME verdict = "busy" PROVE SizesFit' /\ PartsFit' /\ DepthsFit'
  <2>1. SizesFit /\ PartsFit /\ DepthsFit
    BY <1>4 DEF LimitInv
  <2>2. SizesFit' /\ PartsFit'
    BY <1>2, <2>1 DEF SizesFit, PartsFit
  <2>3. DepthsFit'
    BY <1>2, <2>1 DEF DepthsFit, Nodes
  <2> QED BY <2>2, <2>3
<1> QED BY <1>1, <1>2, <1>3, <1>4 DEF LimitInv

LEMMA LimitInvBegin == ASSUME BeginAny PROVE LimitInv'
<1>1. PICK g \in ArchiveGraphs, l \in LimitChoices, n \in Nat, v \in Verdicts \ {"valid"} :
          (v = "busy" => HeaderRefusal(g, l, n) = "busy") /\ Begin(g, l, v)
  BY DEF BeginAny
<1>2. limits' = l /\ graph' = g /\ visited' = {} /\ parts' = 0 /\ walk' = <<>> /\ verdict' = v
  BY <1>1 DEF Begin
<1>3. /\ l.nodes \in Nat /\ l.strings \in Nat /\ l.parts \in Nat
      /\ Len(g.nodes) \in Nat /\ Len(g.strings) \in Nat
  BY ArchiveLimitsAssumption DEF ArchiveGraphs
<1>4. ASSUME v = "busy" PROVE SizesFit'
  <2>1. ~(Len(g.nodes) > l.nodes) /\ ~(Len(g.strings) > l.strings)
    BY <1>1, <1>4 DEF HeaderRefusal
  <2> QED BY <1>2, <1>3, <2>1 DEF SizesFit
<1>5. PartsFit'
  <2>1. NameParts(g, {}) = {}
    BY DEF NameParts
  <2>2. IsFiniteSet(NameParts(g, {})) /\ Cardinality(NameParts(g, {})) = 0 /\ 0 <= l.parts
    <3>1. IsFiniteSet({}) /\ Cardinality({}) = 0
      BY FS_EmptySet
    <3>2. 0 <= l.parts
      BY <1>3
    <3> QED BY ONLY <2>1, <3>1, <3>2, Zenon
  <2>3. NameParts(graph', visited') = NameParts(g, {})
    BY <1>2
  <2>4. \A i : i \notin visited'
    BY <1>2
  <2> QED BY <1>2, <2>2, <2>3, <2>4 DEF PartsFit
<1>6. DepthsFit'
  <2>1. <<>> \in Seq({}) /\ Len(<<>>) = 0
    OBVIOUS
  <2>2. DOMAIN <<>> = {}
    BY <2>1
  <2> QED BY <1>2, <2>2 DEF DepthsFit
<1>7. FormInv'
  BY FormInvBegin
<1> QED BY <1>2, <1>4, <1>5, <1>6, <1>7 DEF LimitInv, AcceptedIsInLimits

LEMMA LimitInvRefuse ==
    ASSUME LimitInv, NEW reason, reason \notin {"busy", "valid"}, Refuse(reason) PROVE LimitInv'
<1>1. FormInv'
  BY FormInvRefuse DEF LimitInv
<1> QED BY <1>1 DEF LimitInv, Refuse, AcceptedIsInLimits

\* A node is entered within the limits, as deep as the walk to it is long.
LEMMA LimitsEntered ==
    ASSUME LimitInv, verdict = "busy", UNCHANGED <<limits, graph>>,
           NEW i, NEW metadata, NodeRefusal(i, metadata) = "none",
           NEW from \in Seq(Entries), Len(from) = Len(walk), Enter(i, from),
           \A k \in DOMAIN walk : from[k].node = walk[k].node,
           \A depth \in [Nodes -> Nat] : IsDepth(graph, depth) =>
               /\ depth[i] = Len(walk)
               /\ \A k \in DOMAIN walk : from[k].next # 0 => depth[from[k].next] = k
    PROVE  SizesFit' /\ PartsFit' /\ DepthsFit'
<1>1. SizesFit /\ PartsFit /\ DepthsFit /\ FormInv
  BY DEF LimitInv
<1>2. graph \in ArchiveGraphs /\ walk \in Seq(Entries) /\ visited \subseteq Nodes /\ limits \in LimitChoices
  BY <1>1, BusyWalk DEF WalkInv
<1>3. /\ i \in Nodes /\ i \notin visited
      /\ ~(Len(walk) >= limits.nesting) /\ ~(Len(walk) >= NestingCeiling)
      /\ InTable(graph, Node(i).data)
  BY AcceptedNode
<1>4. PartsAt(i) = PartsIn(graph, i)
  BY DEF PartsAt, PartsIn, Node
<1>5. ~(PartsIn(graph, i) > limits.partsPerNode) /\ ~(parts + PartsIn(graph, i) > limits.parts)
  BY <1>4 DEF NodeRefusal
<1>6. PartsIn(graph, i) \in Nat
  BY <1>2, <1>3, PartsAreNatural
<1>7. /\ limits.nesting \in Nat /\ NestingCeiling \in Nat /\ limits.partsPerNode \in Nat /\ limits.parts \in Nat
  BY <1>2, ArchiveLimitsAssumption
<1>8. /\ walk' = Append(from, [node |-> i, next |-> Node(i).firstChild]) /\ visited' = visited \cup {i}
      /\ parts' = parts + PartsIn(graph, i) /\ graph' = graph /\ limits' = limits
  BY <1>4 DEF Enter
<1>9. SizesFit'
  BY <1>1, <1>8 DEF SizesFit
<1>10. PartsFit'
  <2>1. IsFiniteSet(NameParts(graph, visited)) /\ parts = Cardinality(NameParts(graph, visited)) /\ parts \in Nat
    BY <1>1, FS_CardinalityType DEF PartsFit
  <2>2. /\ IsFiniteSet(NameParts(graph, visited \cup {i}))
        /\ Cardinality(NameParts(graph, visited \cup {i})) = parts + PartsIn(graph, i)
    BY <1>3, <1>6, <2>1, OneMoreName
  <2>3. parts + PartsIn(graph, i) <= limits.parts /\ PartsIn(graph, i) <= limits.partsPerNode
    BY <1>5, <1>6, <1>7, <2>1
  <2>4. \A j \in visited \cup {i} : PartsIn(graph, j) <= limits.partsPerNode
    BY <1>1, <2>3 DEF PartsFit
  <2> QED BY <1>8, <2>2, <2>3, <2>4 DEF PartsFit
<1>11. DepthsFit'
  <2> SUFFICES ASSUME NEW depth \in [Nodes -> Nat], IsDepth(graph, depth)
               PROVE  /\ \A k \in DOMAIN walk' :
                            depth[walk'[k].node] = k - 1 /\ (walk'[k].next # 0 => depth[walk'[k].next] = k)
                      /\ \A j \in visited' : depth[j] < limits.nesting /\ depth[j] < NestingCeiling
    BY <1>8 DEF DepthsFit, Nodes
  <2>1. /\ depth[i] = Len(walk) /\ \A k \in DOMAIN walk : from[k].next # 0 => depth[from[k].next] = k
        /\ \A k \in DOMAIN walk : depth[walk[k].node] = k - 1
        /\ \A j \in visited : depth[j] < limits.nesting /\ depth[j] < NestingCeiling
    BY <1>1 DEF DepthsFit
  <2>2. Node(i).firstChild # 0 => depth[Node(i).firstChild] = Len(walk) + 1
    BY <1>2, <1>3, <2>1, DepthMeans
  <2>3. Len(walk) \in Nat /\ DOMAIN walk = 1..Len(walk) /\ DOMAIN walk' = 1..(Len(walk) + 1)
    BY <1>2, <1>8
  <2>4. /\ \A k \in DOMAIN walk : walk'[k] = from[k]
        /\ walk'[Len(walk) + 1] = [node |-> i, next |-> Node(i).firstChild]
    BY <1>2, <1>8, <2>3
  <2>5. \A k \in DOMAIN walk : depth[walk'[k].node] = k - 1 /\ (walk'[k].next # 0 => depth[walk'[k].next] = k)
    BY <2>1, <2>4
  <2>6. \A k \in DOMAIN walk' : k \in DOMAIN walk \/ k = Len(walk) + 1
    BY <2>3
  <2>7. ASSUME NEW k, k = Len(walk) + 1
        PROVE  depth[walk'[k].node] = k - 1 /\ (walk'[k].next # 0 => depth[walk'[k].next] = k)
    <3>1. walk'[k].node = i /\ walk'[k].next = Node(i).firstChild /\ k - 1 = Len(walk)
      BY <2>3, <2>4, <2>7
    <3> QED BY <2>1, <2>2, <2>7, <3>1
  <2>8. depth[i] < limits.nesting /\ depth[i] < NestingCeiling
    BY <1>3, <1>7, <2>1, <2>3
  <2>9. \A j \in visited' : depth[j] < limits.nesting /\ depth[j] < NestingCeiling
    BY <1>8, <2>1, <2>8
  <2> QED BY <2>5, <2>6, <2>7, <2>9
<1> QED BY <1>9, <1>10, <1>11

LEMMA LimitInvEnterTree == ASSUME LimitInv, EnterTree PROVE LimitInv'
<1>1. verdict = "busy" /\ walk = <<>> /\ trees <= Len(graph.partials)
  BY DEF EnterTree
<1>2. FormInv /\ FormInv'
  BY FormInvEnterTree DEF LimitInv
<1>3. CASE TreeRefusal(trees) = "none" /\ Enter(RootOf(trees), walk) /\ UNCHANGED <<limits, graph, verdict>>
  <2>1. NodeRefusal(RootOf(trees), FALSE) = "none"
    BY <1>3 DEF TreeRefusal
  <2>2. /\ graph \in ArchiveGraphs /\ walk \in Seq(Entries) /\ trees \in 0..Len(graph.partials)
        /\ DOMAIN walk = {} /\ Len(walk) = 0
    <3>1. trees \in Nat /\ Len(graph.partials) \in Nat /\ graph \in ArchiveGraphs /\ walk \in Seq(Entries)
      BY <1>1, <1>2, BusyWalk
    <3>2. Len(walk) = 0 /\ DOMAIN walk = 1..Len(walk)
      BY <1>1, <3>1
    <3> QED BY <1>1, <3>1, <3>2
  <2>3. \A depth \in [Nodes -> Nat] : IsDepth(graph, depth) =>
            /\ depth[RootOf(trees)] = Len(walk)
            /\ \A k \in DOMAIN walk : walk[k].next # 0 => depth[walk[k].next] = k
    BY <2>2, DepthMeans
  <2>4. SizesFit' /\ PartsFit' /\ DepthsFit'
    BY <1>1, <1>3, <2>1, <2>2, <2>3, LimitsEntered
  <2>5. verdict' # "valid"
    BY <1>1, <1>3
  <2> QED BY <1>2, <2>4, <2>5 DEF LimitInv, AcceptedIsInLimits
<1>4. CASE TreeRefusal(trees) # "none" /\ Refuse(TreeRefusal(trees))
  <2>1. TreeRefusal(trees) \notin {"busy", "valid"}
    BY DEF TreeRefusal, NodeRefusal
  <2> QED BY <1>4, <2>1, LimitInvRefuse
<1> QED BY <1>3, <1>4 DEF EnterTree

LEMMA LimitInvEnterChild == ASSUME LimitInv, EnterChild PROVE LimitInv'
<1>1. verdict = "busy" /\ walk # <<>> /\ Current.next # 0
  BY DEF EnterChild
<1>2. FormInv /\ FormInv' /\ DepthsFit
  BY <1>1, FormInvEnterChild DEF LimitInv
<1>3. CASE /\ ChildRefusal(Current.next) = "none"
           /\ Enter(Current.next, [walk EXCEPT ![Len(walk)].next = Node(Current.next).nextSibling])
           /\ UNCHANGED <<limits, graph, trees, verdict>>
  <2>1. PICK i : i = Current.next
    OBVIOUS
  <2>2. PICK from : from = [walk EXCEPT ![Len(walk)].next = Node(i).nextSibling]
    OBVIOUS
  <2>3. /\ NodeRefusal(i, "PartialIndent" \in Node(i).flags) = "none" /\ Node(i).nextSibling \in Nodes \cup {0}
        /\ i \in Nodes
    BY <1>3, <2>1 DEF ChildRefusal
  <2>4. graph \in ArchiveGraphs /\ walk \in Seq(Entries) /\ 0 \notin Nodes
    BY <1>1, <1>2, BusyWalk
  <2>5. Len(walk) \in DOMAIN walk /\ Len(walk) \in Nat
    BY <1>1, <2>4
  <2>6. /\ from \in Seq(Entries) /\ Len(from) = Len(walk)
        /\ \A k \in DOMAIN walk : from[k].node = walk[k].node
        /\ from[Len(walk)].next = Node(i).nextSibling
        /\ \A k \in DOMAIN walk : k # Len(walk) => from[k] = walk[k]
    <3>1. walk[Len(walk)] \in Entries /\ [walk[Len(walk)] EXCEPT !.next = Node(i).nextSibling] \in Entries
      <4>1. walk[Len(walk)] \in Entries
        BY <2>4, <2>5
      <4>2. PICK entry \in Entries : entry = walk[Len(walk)]
        BY <4>1
      <4>3. [entry EXCEPT !.next = Node(i).nextSibling] \in Entries
        <5>1. Node(i) \in ArchiveNodes
          BY <1>1, <1>2, <2>3, BusyWalk
        <5> QED BY <5>1 DEF Entries, ArchiveNodes
      <4> QED BY <4>1, <4>2, <4>3
    <3>2. from = [walk EXCEPT ![Len(walk)] = [walk[Len(walk)] EXCEPT !.next = Node(i).nextSibling]]
      BY <2>2
    <3>3. from \in Seq(Entries) /\ Len(from) = Len(walk) /\ DOMAIN from = DOMAIN walk
      BY <2>4, <2>5, <3>1, <3>2
    <3>4. /\ \A k \in DOMAIN walk : k # Len(walk) => from[k] = walk[k]
          /\ from[Len(walk)] = [walk[Len(walk)] EXCEPT !.next = Node(i).nextSibling]
      BY <2>5, <3>2
    <3>5. from[Len(walk)].next = Node(i).nextSibling /\ from[Len(walk)].node = walk[Len(walk)].node
      BY <3>1, <3>4 DEF Entries
    <3> QED BY <3>3, <3>4, <3>5
  <2>7. \A depth \in [Nodes -> Nat] : IsDepth(graph, depth) =>
            /\ depth[i] = Len(walk)
            /\ \A k \in DOMAIN walk : from[k].next # 0 => depth[from[k].next] = k
    <3> SUFFICES ASSUME NEW depth \in [Nodes -> Nat], IsDepth(graph, depth)
                 PROVE  /\ depth[i] = Len(walk)
                        /\ \A k \in DOMAIN walk : from[k].next # 0 => depth[from[k].next] = k
      OBVIOUS
    <3>1. \A k \in DOMAIN walk : walk[k].next # 0 => depth[walk[k].next] = k
      BY <1>2 DEF DepthsFit
    <3>2. depth[i] = Len(walk)
      BY <1>1, <2>1, <2>5, <3>1 DEF Current
    <3>3. Node(i).nextSibling # 0 => depth[Node(i).nextSibling] = Len(walk)
      BY <2>3, <2>4, <3>2, DepthMeans
    <3>4. \A k \in DOMAIN walk : from[k].next # 0 => depth[from[k].next] = k
      BY <2>6, <3>1, <3>3
    <3> QED BY <3>2, <3>4
  <2>8. Enter(i, from) /\ UNCHANGED <<limits, graph>>
    BY <1>3, <2>1, <2>2
  <2>9. PICK metadata : metadata = ("PartialIndent" \in Node(i).flags)
    OBVIOUS
  <2>10. NodeRefusal(i, metadata) = "none"
    BY <2>3, <2>9
  <2>11. SizesFit' /\ PartsFit' /\ DepthsFit'
    BY <1>1, <2>6, <2>7, <2>8, <2>10, LimitsEntered
  <2>12. verdict' # "valid"
    BY <1>1, <1>3
  <2> QED BY <1>2, <2>11, <2>12 DEF LimitInv, AcceptedIsInLimits
<1>4. CASE ChildRefusal(Current.next) # "none" /\ Refuse(ChildRefusal(Current.next))
  <2>1. ChildRefusal(Current.next) \notin {"busy", "valid"}
    BY DEF ChildRefusal, NodeRefusal
  <2> QED BY <1>4, <2>1, LimitInvRefuse
<1> QED BY <1>3, <1>4 DEF EnterChild

LEMMA LimitInvLeaveNode == ASSUME LimitInv, LeaveNode PROVE LimitInv'
<1>1. /\ verdict = "busy" /\ walk # <<>> /\ walk' = SubSeq(walk, 1, Len(walk) - 1)
      /\ limits' = limits /\ graph' = graph /\ visited' = visited /\ parts' = parts /\ verdict' = verdict
  BY DEF LeaveNode
<1>2. FormInv /\ FormInv' /\ SizesFit /\ PartsFit /\ DepthsFit
  BY <1>1, FormInvLeaveNode DEF LimitInv
<1>3. SizesFit' /\ PartsFit'
  BY <1>1, <1>2 DEF SizesFit, PartsFit
<1>4. DepthsFit'
  <2>1. Len(walk) \in Nat \ {0} /\ DOMAIN walk = 1..Len(walk) /\ \A k \in 1..Len(walk) : walk[k] \in Entries
    BY <1>1, <1>2, WalkNodes, BusyWalk
  <2>2. PICK n : n = Len(walk) - 1
    OBVIOUS
  <2>3. n \in Nat /\ (\A k \in 1..n : k \in DOMAIN walk) /\ (\A k \in 1..n : walk[k] \in Entries) /\ n - 1 + 1 = n
    BY <2>1, <2>2
  <2>4. SubSeq(walk, 1, n) \in Seq(Entries) /\ Len(SubSeq(walk, 1, n)) = n /\ \A k \in 1..n : SubSeq(walk, 1, n)[k] = walk[k]
    <3>1. 1 \in Int /\ n \in Int /\ n - 1 + 1 = n /\ \A k \in 1..n : walk[k] \in Entries /\ 1 + k - 1 = k
      BY <2>3
    <3>2. /\ SubSeq(walk, 1, n) \in Seq(Entries)
          /\ Len(SubSeq(walk, 1, n)) = IF 1 <= n THEN n - 1 + 1 ELSE 0
          /\ \A k \in 1..(n - 1 + 1) : SubSeq(walk, 1, n)[k] = walk[1 + k - 1]
      BY <3>1, SubSeqProperties
    <3> QED BY <2>3, <3>1, <3>2
  <2>5. \A k \in DOMAIN walk' : k \in DOMAIN walk /\ walk'[k] = walk[k]
    <3>1. walk' = SubSeq(walk, 1, n)
      BY <1>1, <2>2
    <3>2. DOMAIN SubSeq(walk, 1, n) = 1..n
      BY <2>4
    <3>3. DOMAIN walk' = 1..n /\ \A k \in 1..n : walk'[k] = walk[k]
      BY <2>4, <3>1, <3>2, Zenon
    <3> QED BY <2>3, <3>3, Zenon
  <2>6. limits' = limits /\ graph' = graph /\ visited' = visited
    BY <1>1
  <2> QED BY <1>2, <2>5, <2>6 DEF DepthsFit, Nodes
<1> QED BY <1>1, <1>2, <1>3, <1>4 DEF LimitInv, AcceptedIsInLimits

LEMMA LimitInvConclude == ASSUME LimitInv, Conclude PROVE LimitInv'
<1>1. /\ verdict = "busy" /\ walk = <<>> /\ trees > Len(graph.partials)
      /\ verdict' = Conclusion /\ graph' = graph /\ limits' = limits
  BY DEF Conclude, Refuse
<1>2. FormInv /\ FormInv' /\ SizesFit /\ PartsFit /\ DepthsFit
  BY <1>1, FormInvConclude DEF LimitInv
<1>3. verdict' # "busy"
  BY <1>1 DEF Conclusion
<1>4. ASSUME verdict' = "valid" PROVE FitsLimits(graph, limits)
  <2>1. visited = Nodes
    BY <1>1, <1>2, <1>4, AllVisited DEF Conclusion
  <2>2. WellFormed(graph) /\ graph \in ArchiveGraphs
    BY <1>1, <1>2, <2>1, ConcludedIsWellFormed, BusyWalk
  <2>3. PICK depth \in [Nodes -> Nat] : IsDepth(graph, depth)
    BY <2>2, DepthsExist
  <2>4. \A i \in Nodes : depth[i] < limits.nesting /\ depth[i] < NestingCeiling
    BY <1>2, <2>1, <2>3 DEF DepthsFit
  <2>5. /\ \A i \in Nodes : PartsIn(graph, i) <= limits.partsPerNode
        /\ Cardinality(NameParts(graph, Nodes)) <= limits.parts
    BY <1>2, <2>1 DEF PartsFit
  <2>6. InLimits(graph, limits, depth)
    BY <1>2, <2>4, <2>5 DEF InLimits, SizesFit, Nodes
  <2> QED BY <2>3, <2>6 DEF FitsLimits, Nodes
<1> QED BY <1>1, <1>2, <1>3, <1>4 DEF LimitInv, AcceptedIsInLimits

LEMMA LimitInvStep == ASSUME LimitInv, [BeginAny \/ Validation]_validator PROVE LimitInv'
BY LimitInvBegin, LimitInvUnchanged, LimitInvEnterTree, LimitInvEnterChild, LimitInvLeaveNode, LimitInvConclude
   DEF Validation

-----------------------------------------------------------------------------
(* What the walk refuses for a limit *)

\* A node not visited is refused for a limit only if the graph is beyond one.
LEMMA NodeBeyondLimits ==
    ASSUME LimitInv, verdict = "busy", WellFormed(graph), NEW i, NEW metadata, NodeRefusal(i, metadata) = "limit",
           i \notin visited, NEW depth \in [Nodes -> Nat], IsDepth(graph, depth), depth[i] = Len(walk)
    PROVE  ~InLimits(graph, limits, depth)
<1> SUFFICES ASSUME InLimits(graph, limits, depth) PROVE FALSE
  OBVIOUS
<1>1. FormInv /\ PartsFit
  BY DEF LimitInv
<1>2. /\ graph \in ArchiveGraphs /\ visited \subseteq Nodes /\ limits \in LimitChoices
      /\ Nodes = 1..Len(graph.nodes) /\ Len(graph.nodes) \in Nat /\ walk \in Seq(Entries)
  BY <1>1, BusyWalk DEF WalkInv, ArchiveGraphs
<1>3. /\ limits.nesting \in Nat /\ NestingCeiling \in Nat /\ limits.partsPerNode \in Nat /\ limits.parts \in Nat
      /\ limits.nodes \in Nat
  BY <1>2, ArchiveLimitsAssumption
<1>4. /\ Len(graph.nodes) <= limits.nodes
      /\ \A j \in Nodes : depth[j] < limits.nesting /\ depth[j] < NestingCeiling
      /\ \A j \in Nodes : PartsIn(graph, j) <= limits.partsPerNode
      /\ Cardinality(NameParts(graph, Nodes)) <= limits.parts
  BY DEF InLimits, Nodes
<1>5. i \in Nodes
  BY DEF NodeRefusal
<1>6. ~(Len(walk) >= limits.nesting) /\ ~(Len(walk) >= NestingCeiling)
  <2>1. Len(walk) < limits.nesting /\ Len(walk) < NestingCeiling /\ Len(walk) \in Nat
    BY <1>2, <1>4, <1>5
  <2> QED BY <1>3, <2>1
<1>7. ~(Cardinality(visited) >= limits.nodes)
  <2>1. IsFiniteSet(Nodes) /\ Cardinality(Nodes) = Len(graph.nodes)
    BY <1>2, FS_Interval
  <2>2. IsFiniteSet(visited) /\ Cardinality(visited) <= Cardinality(Nodes) /\ Cardinality(visited) # Cardinality(Nodes)
    BY <1>2, <1>5, <2>1, FS_Subset
  <2>3. Cardinality(visited) \in Nat
    BY <2>2, FS_CardinalityType
  <2> QED BY <1>2, <1>3, <1>4, <2>1, <2>2, <2>3
<1>8. PartsIn(graph, i) > limits.partsPerNode \/ parts + PartsIn(graph, i) > limits.parts
  <2>1. PartsAt(i) = PartsIn(graph, i)
    BY DEF PartsAt, PartsIn, Node
  <2> QED BY <1>5, <1>6, <1>7, <2>1 DEF NodeRefusal
<1>9. \A j \in Nodes : PartsIn(graph, j) \in Nat
  <2> SUFFICES ASSUME NEW j \in Nodes PROVE PartsIn(graph, j) \in Nat
    OBVIOUS
  <2>1. InTable(graph, Node(j).data)
    BY <1>1, WellFormedNodes DEF RecordFits, StringsFit
  <2> QED BY <1>2, <2>1, PartsAreNatural
<1>10. parts + PartsIn(graph, i) <= Cardinality(NameParts(graph, Nodes))
  <2>1. Cardinality(NameParts(graph, visited \cup {i})) = parts + PartsIn(graph, i)
    BY <1>1, <1>5, <1>9, OneMoreName DEF PartsFit
  <2>2. visited \cup {i} \in SUBSET Nodes
    BY <1>2, <1>5
  <2>3. Cardinality(NameParts(graph, visited \cup {i})) <= Cardinality(NameParts(graph, Nodes))
    BY <1>2, <1>3, <1>4, <1>9, <2>2, FewerParts
  <2> QED BY <2>1, <2>3
<1>11. Cardinality(NameParts(graph, Nodes)) \in Nat /\ parts \in Nat
  <2>1. parts \in Nat
    BY <1>1, FS_CardinalityType DEF PartsFit
  <2>2. IsFiniteSet(NameParts(graph, Nodes))
    BY <1>2, <1>3, <1>4, <1>9, FewerParts
  <2> QED BY <2>1, <2>2, FS_CardinalityType
<1>12. PICK n \in Nat : n = PartsIn(graph, i)
  BY <1>5, <1>9
<1>13. n <= limits.partsPerNode /\ parts + n <= Cardinality(NameParts(graph, Nodes))
  BY <1>4, <1>5, <1>10, <1>12
<1> QED BY <1>3, <1>4, <1>8, <1>11, <1>12, <1>13

LEMMA RefusesOnlyBeyondLimits ==
    ASSUME LimitInv, Validation, verdict' = "limit", WellFormed(graph) PROVE ~FitsLimits(graph, limits)
<1> SUFFICES ASSUME NEW depth \in [Nodes -> Nat], IsDepth(graph, depth), InLimits(graph, limits, depth) PROVE FALSE
  BY DEF FitsLimits, Nodes
<1>1. CASE EnterTree
  <2>1. /\ verdict = "busy" /\ walk = <<>> /\ trees <= Len(graph.partials) /\ TreeRefusal(trees) = "limit"
    BY <1>1 DEF EnterTree, Refuse
  <2>2. NodeRefusal(RootOf(trees), FALSE) = "limit"
    BY <2>1 DEF TreeRefusal
  <2>3. RootOf(trees) \notin visited
    BY <2>1, TreeOfWellFormed DEF LimitInv
  <2>4. depth[RootOf(trees)] = Len(walk)
    <3>1. trees \in Nat /\ Len(graph.partials) \in Nat /\ graph \in ArchiveGraphs /\ Len(walk) = 0
      BY <2>1, BusyWalk DEF LimitInv
    <3>2. trees \in 0..Len(graph.partials)
      BY <2>1, <3>1
    <3> QED BY <3>1, <3>2, DepthMeans
  <2> QED BY <2>1, <2>2, <2>3, <2>4, NodeBeyondLimits
<1>2. CASE EnterChild
  <2>1. /\ verdict = "busy" /\ walk # <<>> /\ Current.next # 0 /\ ChildRefusal(Current.next) = "limit"
    BY <1>2 DEF EnterChild, Refuse
  <2>2. PICK i, metadata : i = Current.next /\ metadata = ("PartialIndent" \in Node(i).flags)
    OBVIOUS
  <2>3. NodeRefusal(i, "PartialIndent" \in Node(i).flags) = "limit"
    BY <2>1, <2>2 DEF ChildRefusal
  <2>4. i \notin visited
    BY <2>1, <2>2, ChildOfWellFormed DEF LimitInv
  <2>5. depth[i] = Len(walk)
    <3>1. Len(walk) \in DOMAIN walk
      BY <2>1, BusyWalk DEF LimitInv
    <3> QED BY <2>1, <2>2, <3>1 DEF LimitInv, DepthsFit, Current
  <2> QED BY <2>1, <2>2, <2>3, <2>4, <2>5, NodeBeyondLimits
<1>3. CASE LeaveNode
  BY <1>3 DEF LeaveNode
<1>4. CASE Conclude
  BY <1>4 DEF Conclude, Refuse, Conclusion
<1> QED BY <1>1, <1>2, <1>3, <1>4 DEF Validation

-----------------------------------------------------------------------------
(* Depths, as the loader's promise names them *)

\* The recursion that defines them has a solution, and any solution is the depth.
LEMMA DepthsAreDepths ==
    ASSUME graph \in ArchiveGraphs, WellFormed(graph)
    PROVE  IsDepth(graph, Depths(graph)) /\ Depths(graph) \in [Nodes -> Nat]
<1> DEFINE Ref(i) == CHOOSE ref \in References(graph) : Target(graph, ref) = i
           Step(depth, i) ==
               CASE Ref(i)[1] = "firstChild" -> depth[Ref(i)[2]] + 1
                 [] Ref(i)[1] = "nextSibling" -> depth[Ref(i)[2]]
                 [] OTHER -> 0
           Solves(depth) == depth = [i \in Nodes |-> Step(depth, i)]
<1>1. DOMAIN graph.partials = 1..Len(graph.partials) /\ Len(graph.partials) \in Nat /\ Nodes = DOMAIN graph.nodes
  BY DEF ArchiveGraphs, Nodes
<1>2. \A ref \in References(graph) : Target(graph, ref) \in Nodes => Ref(Target(graph, ref)) = ref
  <2> SUFFICES ASSUME NEW ref \in References(graph), NEW i \in Nodes, Target(graph, ref) = i PROVE Ref(i) = ref
    OBVIOUS
  <2>1. PICK only \in References(graph) : {r \in References(graph) : Target(graph, r) = i} = {only}
    BY <1>1 DEF WellFormed, IsForest
  <2>2. ref = only
    BY <2>1
  <2>3. Ref(i) \in {r \in References(graph) : Target(graph, r) = i}
    OBVIOUS
  <2> QED BY <2>1, <2>2, <2>3
<1>3. \A k \in 0..Len(graph.partials) :
          RootOf(k) \in Nodes /\ Ref(RootOf(k))[1] \notin {"firstChild", "nextSibling"}
  <2> SUFFICES ASSUME NEW k \in 0..Len(graph.partials)
               PROVE  RootOf(k) \in Nodes /\ Ref(RootOf(k))[1] \notin {"firstChild", "nextSibling"}
    OBVIOUS
  <2>1. RootOf(k) \in Nodes
    BY ForestMeans
  <2>2. RootRef(k) \in References(graph) /\ RootRef(k)[1] \notin {"firstChild", "nextSibling"}
    <3>1. k # 0 => k \in DOMAIN graph.partials
      BY <1>1
    <3> QED BY <3>1 DEF RootRef, References
  <2>3. Target(graph, RootRef(k)) = RootOf(k)
    BY <1>1, Targets
  <2>4. Ref(RootOf(k)) = RootRef(k)
    BY <1>2, <2>1, <2>2, <2>3
  <2> QED BY <2>1, <2>2, <2>4
<1>4. \A i \in Nodes :
          /\ Node(i).firstChild # 0 =>
                Node(i).firstChild \in Nodes /\ Ref(Node(i).firstChild) = <<"firstChild", i>>
          /\ Node(i).nextSibling # 0 =>
                Node(i).nextSibling \in Nodes /\ Ref(Node(i).nextSibling) = <<"nextSibling", i>>
  <2> SUFFICES ASSUME NEW i \in Nodes
               PROVE  /\ Node(i).firstChild # 0 =>
                            Node(i).firstChild \in Nodes /\ Ref(Node(i).firstChild) = <<"firstChild", i>>
                      /\ Node(i).nextSibling # 0 =>
                            Node(i).nextSibling \in Nodes /\ Ref(Node(i).nextSibling) = <<"nextSibling", i>>
    OBVIOUS
  <2>1. Node(i).firstChild \in Nodes \cup {0} /\ Node(i).nextSibling \in Nodes \cup {0}
    BY ForestMeans
  <2>2. <<"firstChild", i>> \in References(graph) /\ <<"nextSibling", i>> \in References(graph)
    BY <1>1 DEF References
  <2>3. /\ Target(graph, <<"firstChild", i>>) = Node(i).firstChild
        /\ Target(graph, <<"nextSibling", i>>) = Node(i).nextSibling
    BY <1>1, Targets
  <2> QED BY <1>2, <2>1, <2>2, <2>3
<1>5. \A ref \in References(graph) : Target(graph, ref) \in Nodes =>
          \/ ref[1] = "firstChild" /\ ref[2] \in Nodes
          \/ ref[1] = "nextSibling" /\ ref[2] \in Nodes
          \/ ref[1] \notin {"firstChild", "nextSibling"}
  BY <1>1 DEF References
<1>6. Depths(graph) = CHOOSE depth : Solves(depth)
  BY <1>1 DEF Depths
<1>7. PICK known \in [Nodes -> Nat] : IsDepth(graph, known)
  BY DepthsExist
<1> HIDE DEF Ref
<1>8. \A i \in Nodes : known[i] = Step(known, i)
  <2> SUFFICES ASSUME NEW i \in Nodes PROVE known[i] = Step(known, i)
    OBVIOUS
  <2>1. PICK ref \in References(graph) : Target(graph, ref) = i
    BY <1>1 DEF WellFormed, IsForest
  <2>2. Ref(i) = ref
    BY <1>2, <2>1
  <2>3. CASE ref[1] = "firstChild" /\ ref[2] \in Nodes
    <3>1. i = Node(ref[2]).firstChild /\ i # 0
      BY <1>1, <2>1, <2>3 DEF Target, Node
    <3>2. known[i] = known[ref[2]] + 1
      BY <1>7, <2>3, <3>1, DepthMeans
    <3> QED BY <2>2, <2>3, <3>2
  <2>4. CASE ref[1] = "nextSibling" /\ ref[2] \in Nodes
    <3>1. i = Node(ref[2]).nextSibling /\ i # 0
      BY <1>1, <2>1, <2>4 DEF Target, Node
    <3>2. known[i] = known[ref[2]]
      BY <1>7, <2>4, <3>1, DepthMeans
    <3> QED BY <2>2, <2>4, <3>2
  <2>5. CASE ref[1] \notin {"firstChild", "nextSibling"}
    <3>1. i \in RootsOf(graph)
      BY <2>1, <2>5 DEF References, Target, RootsOf
    <3>2. known[i] = 0
      BY <1>7, <3>1 DEF IsDepth
    <3> QED BY <2>2, <2>5, <3>2
  <2> QED BY <1>5, <2>1, <2>3, <2>4, <2>5
<1>9. Solves(known)
  BY <1>8
<1>10. Solves(Depths(graph))
  <2> HIDE DEF Solves
  <2> QED BY <1>6, <1>9
<1>11. PICK depth : depth = Depths(graph)
  OBVIOUS
<1>12. \A i \in Nodes : depth[i] = Step(depth, i)
  BY <1>10, <1>11
<1>13. depth = [i \in Nodes |-> depth[i]]
  BY <1>10, <1>11
<1>14. IsDepth(graph, depth)
  <2>1. \A k \in 0..Len(graph.partials) : depth[RootOf(k)] = 0
    <3> SUFFICES ASSUME NEW k \in 0..Len(graph.partials) PROVE depth[RootOf(k)] = 0
      OBVIOUS
    <3>1. PICK i \in Nodes : i = RootOf(k) /\ Ref(i)[1] \notin {"firstChild", "nextSibling"}
      BY <1>3
    <3>2. depth[i] = Step(depth, i)
      BY <1>12
    <3> QED BY <3>1, <3>2
  <2>2. \A i \in Nodes : Node(i).firstChild # 0 => depth[Node(i).firstChild] = depth[i] + 1
    <3> SUFFICES ASSUME NEW i \in Nodes, Node(i).firstChild # 0
                 PROVE  depth[Node(i).firstChild] = depth[i] + 1
      OBVIOUS
    <3>1. PICK j \in Nodes : j = Node(i).firstChild /\ Ref(j) = <<"firstChild", i>>
      BY <1>4
    <3>2. Ref(j)[1] = "firstChild" /\ Ref(j)[2] = i
      BY <3>1
    <3>3. Step(depth, j) = depth[i] + 1
      BY <3>2
    <3> QED BY <1>12, <3>1, <3>3, Zenon
  <2>3. \A i \in Nodes : Node(i).nextSibling # 0 => depth[Node(i).nextSibling] = depth[i]
    <3> SUFFICES ASSUME NEW i \in Nodes, Node(i).nextSibling # 0
                 PROVE  depth[Node(i).nextSibling] = depth[i]
      OBVIOUS
    <3>1. PICK j \in Nodes : j = Node(i).nextSibling /\ Ref(j) = <<"nextSibling", i>>
      BY <1>4
    <3>2. Ref(j)[1] = "nextSibling" /\ Ref(j)[2] = i
      BY <3>1
    <3>3. Step(depth, j) = depth[i]
      BY <3>2
    <3> QED BY <1>12, <3>1, <3>3, Zenon
  <2> QED BY <2>1, <2>2, <2>3, DepthMeans
<1>15. {i \in Nodes : depth[i] = known[i]} = Nodes
  <2> DEFINE S == {i \in Nodes : depth[i] = known[i]}
  <2>1. S \in SUBSET Nodes
    OBVIOUS
  <2>2. \A k \in 0..Len(graph.partials) : RootOf(k) \in S
    <3>1. \A k \in 0..Len(graph.partials) : depth[RootOf(k)] = 0 /\ known[RootOf(k)] = 0 /\ RootOf(k) \in Nodes
      <4>1. \A k \in 0..Len(graph.partials) : RootOf(k) \in Nodes
        BY ForestMeans
      <4> QED BY ONLY <1>7, <1>14, <4>1, DepthMeans, graph \in ArchiveGraphs
    <3> QED BY <3>1
  <2>3. \A i \in S : Node(i).firstChild \in S \cup {0} /\ Node(i).nextSibling \in S \cup {0}
    <3> SUFFICES ASSUME NEW i \in Nodes, depth[i] = known[i]
                 PROVE  Node(i).firstChild \in S \cup {0} /\ Node(i).nextSibling \in S \cup {0}
      OBVIOUS
    <3>1. Node(i).firstChild # 0 =>
              /\ Node(i).firstChild \in Nodes
              /\ depth[Node(i).firstChild] = depth[i] + 1 /\ known[Node(i).firstChild] = known[i] + 1
      BY <1>4, <1>7, <1>14, DepthMeans
    <3>2. Node(i).nextSibling # 0 =>
              /\ Node(i).nextSibling \in Nodes
              /\ depth[Node(i).nextSibling] = depth[i] /\ known[Node(i).nextSibling] = known[i]
      BY <1>4, <1>7, <1>14, DepthMeans
    <3> QED BY <3>1, <3>2
  <2> HIDE DEF S
  <2> QED BY <2>1, <2>2, <2>3, ForestMeans DEF S
<1>16. depth \in [Nodes -> Nat]
  <2>1. \A i \in Nodes : depth[i] = known[i] /\ known[i] \in Nat
    BY <1>15
  <2> QED BY <1>13, <2>1
<1> QED BY <1>11, <1>14, <1>16
-----------------------------------------------------------------------------
(* What the loader has established *)

\* Whatever the bytes of an archive may say.
Vectors == [offset : NullOffset..MaxOffset, used : 0..MaxSize, allocated : 0..MaxSize, self : BOOLEAN]
AnyArchives ==
    [size : 0..MaxSize, magic : BOOLEAN, generation : BOOLEAN, fingerprint : BOOLEAN, typeVersion : BOOLEAN,
     checksum : BOOLEAN, vectors : [DOMAIN ElementSize -> Vectors], graph : ArchiveGraphs]
LoaderNext ==
    \/ \E a \in AnyArchives : Load(a)
    \/ Validation /\ UNCHANGED <<archive, phase>>
    \/ FinishLoading
LoaderSpec == LoaderInit /\ [][LoaderNext]_loader

\* While the walk goes on nothing is wrong outside of the graph, and a reason that was
\* given is one that the archive has.
ReasonHolds ==
    /\ verdict \in {"busy", "valid"} => WellFramed(archive) /\ ~Foreign(archive) /\ archive.size <= limits.bytes
    /\ verdict = "invalid" => ~WellFramed(archive) \/ ~WellFormed(graph)
    /\ verdict = "unsupported" => Foreign(archive)
    /\ verdict = "limit" => archive.size > limits.bytes \/ ~WellFormed(graph) \/ ~FitsLimits(graph, limits)
LoaderInv ==
    /\ LimitInv
    /\ phase \in {"idle", "loading", "loaded", "failed"}
    /\ phase = "idle" <=> verdict = "idle"
    /\ phase # "idle" => verdict \in Verdicts /\ graph \in ArchiveGraphs /\ ReasonHolds
    /\ phase = "loaded" => verdict = "valid"
    /\ phase = "failed" => verdict \notin {"busy", "valid"}

-----------------------------------------------------------------------------
(* Frames *)

LEMMA SizesAreIntegers == MaxSize \in Int /\ NullOffset \in Int /\ MaxOffset \in Int
<1>1. PICK n : n = SizeWidth
  OBVIOUS
<1>2. n \in Int /\ n - 1 \in Int
  BY <1>1, SizeWidthAssumption
<1>3. 2 ^ n \in Int /\ 2 ^ (n - 1) \in Int
  BY <1>2
<1> QED BY <1>1, <1>3 DEF MaxSize, MaxOffset, NullOffset

\* The quotient that the code compares with, without one.
LEMMA FitsQuotient ==
    ASSUME NEW used \in Nat, NEW m \in Int
    PROVE  /\ used * 48 <= m => used <= m \div 48
           /\ used * 12 <= m => used <= m \div 12
           /\ used <= m => used <= m \div 1
<1>1. used * 48 <= m => used <= m \div 48
  OBVIOUS
<1>2. used * 12 <= m => used <= m \div 12
  OBVIOUS
<1>3. used <= m => used <= m \div 1
  OBVIOUS
<1> QED BY <1>1, <1>2, <1>3

\* The checks of a vector's header, none of which may wrap, ask for no less and no more
\* than that its table lies in the payload.
LEMMA VectorsFit ==
    ASSUME NEW a \in AnyArchives, NEW t \in DOMAIN ElementSize
    PROVE  (VectorFits(a, t) <=> ValidVector(a, t)) /\ (VectorFits(a, t) => ~Overflows(a, t))
<1>1. DOMAIN ElementSize = {"nodes", "partials", "strings"}
  BY DEF ElementSize
<1>2. PICK v : v = a.vectors[t]
  OBVIOUS
<1>3. PICK offset, used : offset = v.offset /\ used = v.used
  OBVIOUS
<1>4. PICK max, null, size : max = MaxSize /\ null = NullOffset /\ size = a.size
  OBVIOUS
<1>5. max \in Int /\ null \in Int /\ size \in 0..max /\ offset \in Int /\ used \in Nat
  <2>1. MaxSize \in Int /\ NullOffset \in Int /\ MaxOffset \in Int
    BY SizesAreIntegers
  <2>2. a.size \in 0..MaxSize /\ v \in Vectors
    BY <1>2 DEF AnyArchives
  <2>3. v.offset \in NullOffset..MaxOffset /\ v.used \in 0..MaxSize
    BY <2>2 DEF Vectors
  <2> QED BY <1>3, <1>4, <2>1, <2>2, <2>3
<1>6. PICK at, element, alignment : at = VectorAt[t] /\ element = ElementSize[t] /\ alignment = Alignment[t]
  OBVIOUS
<1>7. at \in Nat /\ element \in {48, 12, 1}
  BY <1>1, <1>6 DEF VectorAt, ElementSize, HeaderSize, NodeSize, PartialSize
<1>8. used * element \in Nat /\ (used = 0 => used * element = 0) /\ (used * element <= max => used <= max \div element)
  BY <1>5, <1>7, FitsQuotient
<1>9. VectorFits(a, t) <=>
          /\ ~v.self /\ v.allocated = used
          /\ offset = null <=> used = 0
          /\ offset # null =>
                /\ at + offset \in 0..(size - PreambleSize)
                /\ used <= max \div element
                /\ used * element <= size - PreambleSize - (at + offset)
                /\ (at + offset) % alignment = 0
  BY <1>2, <1>3, <1>4, <1>6 DEF VectorFits, Payload
<1>10. ValidVector(a, t) <=>
          /\ v.allocated = used /\ ~v.self
          /\ IF used = 0 THEN offset = null
             ELSE offset # null /\ (at + offset) % alignment = 0
                  /\ {at + offset, at + offset + used * element} \subseteq 0..(size - PreambleSize)
  BY <1>2, <1>3, <1>4, <1>6 DEF ValidVector
<1>11. Overflows(a, t) <=> offset # null /\ used > max \div element
  BY <1>2, <1>3, <1>4, <1>6 DEF Overflows
<1>12. PICK bytes \in Nat, begin \in Int, quotient \in Int :
           bytes = used * element /\ begin = at + offset /\ quotient = max \div element
  BY <1>5, <1>7, <1>8
<1>13. PICK rest : rest = (at + offset) % alignment /\ PreambleSize = 24
  BY DEF PreambleSize
<1>14. VectorFits(a, t) <=>
          /\ ~v.self /\ v.allocated = used
          /\ offset = null <=> used = 0
          /\ offset # null => /\ begin \in 0..(size - 24) /\ used <= quotient
                              /\ bytes <= size - 24 - begin /\ rest = 0
  BY <1>9, <1>12, <1>13
<1>15. ValidVector(a, t) <=>
          /\ ~v.self /\ v.allocated = used
          /\ offset = null <=> used = 0
          /\ used # 0 => rest = 0 /\ begin \in 0..(size - 24) /\ begin + bytes \in 0..(size - 24)
  BY <1>10, <1>12, <1>13
<1>16. bytes <= max => used <= quotient
  BY <1>8, <1>12
<1>17. ASSUME ValidVector(a, t) PROVE VectorFits(a, t)
  <2>1. offset # null => /\ begin \in 0..(size - 24) /\ bytes <= size - 24 - begin /\ bytes <= max
    BY <1>5, <1>12, <1>15, <1>17
  <2> QED BY <1>14, <1>15, <1>16, <1>17, <2>1
<1>18. ASSUME VectorFits(a, t) PROVE ValidVector(a, t)
  <2>1. used # 0 => begin \in 0..(size - 24) /\ begin + bytes \in 0..(size - 24)
    BY <1>5, <1>12, <1>14, <1>18
  <2> QED BY <1>14, <1>15, <1>18, <2>1
<1>19. VectorFits(a, t) => ~Overflows(a, t)
  BY <1>5, <1>11, <1>12, <1>14
<1> QED BY <1>17, <1>18, <1>19

\* Why a frame is refused, and what one that is not refused must be.
LEMMA FrameRefusals ==
    ASSUME NEW a \in AnyArchives, NEW l \in LimitChoices
    PROVE  /\ FrameRefusal(a, l) \in {"none", "limit", "invalid", "unsupported"}
           /\ FrameRefusal(a, l) = "none" =>
                 /\ a.magic /\ a.generation /\ a.fingerprint /\ a.typeVersion /\ a.checksum
                 /\ a.size >= PreambleSize + HeaderSize + GraphSize /\ a.size <= l.bytes
                 /\ \A t \in DOMAIN ElementSize : ValidVector(a, t)
           /\ FrameRefusal(a, l) = "limit" => a.size > l.bytes
           /\ FrameRefusal(a, l) = "invalid" => ~WellFramed(a)
           /\ FrameRefusal(a, l) = "unsupported" => Foreign(a)
<1>1. PICK size \in Int, bytes \in Nat : size = a.size /\ bytes = l.bytes
  <2>1. a.size \in 0..MaxSize
    BY DEF AnyArchives
  <2>2. l.bytes \in Nat
    BY ArchiveLimitsAssumption
  <2> QED BY <2>1, <2>2, SizesAreIntegers
<1>2. PreambleSize = 24 /\ HeaderSize = 16 /\ GraphSize = 96
  BY DEF PreambleSize, HeaderSize, GraphSize
<1>3. /\ a.magic \in BOOLEAN /\ a.generation \in BOOLEAN /\ a.fingerprint \in BOOLEAN
      /\ a.typeVersion \in BOOLEAN /\ a.checksum \in BOOLEAN
  BY DEF AnyArchives
<1>4. \A t \in DOMAIN ElementSize : (VectorFits(a, t) <=> ValidVector(a, t)) /\ (VectorFits(a, t) => ~Overflows(a, t))
  BY VectorsFit
<1>5. /\ PreambleRefusal(a, l) \in {"none", "limit", "invalid", "unsupported"}
      /\ PreambleRefusal(a, l) = "none" => a.magic /\ a.generation /\ a.fingerprint /\ size > 24 /\ size <= bytes
      /\ PreambleRefusal(a, l) = "limit" => size > bytes
      /\ PreambleRefusal(a, l) = "invalid" => ~a.magic \/ size <= 24
      /\ PreambleRefusal(a, l) = "unsupported" => ~a.generation \/ ~a.fingerprint
  BY <1>1, <1>2, <1>3 DEF PreambleRefusal
<1>6. /\ VersionRefusal(a) \in {"none", "invalid", "unsupported"}
      /\ VersionRefusal(a) = "none" => a.typeVersion
      /\ VersionRefusal(a) = "invalid" => size < 32
      /\ VersionRefusal(a) = "unsupported" => ~a.typeVersion
  BY <1>1, <1>2, <1>3 DEF VersionRefusal, Payload
<1>7. /\ LayoutRefusal(a) \in {"none", "invalid"}
      /\ LayoutRefusal(a) = "none" => size >= 136 /\ \A t \in DOMAIN ElementSize : VectorFits(a, t)
      /\ LayoutRefusal(a) = "invalid" => size < 136 \/ \E t \in DOMAIN ElementSize : ~VectorFits(a, t)
  BY <1>1, <1>2 DEF LayoutRefusal, Payload
<1>8. /\ CistaRefusal(a) \in {"none", "invalid", "overflow error"}
      /\ CistaRefusal(a) = "none" => a.checksum
      /\ CistaRefusal(a) = "invalid" => ~a.checksum
      /\ CistaRefusal(a) = "overflow error" => \E t \in DOMAIN ElementSize : Overflows(a, t)
  BY <1>3 DEF CistaRefusal
<1>9. WellFramed(a) => /\ a.magic /\ a.checksum /\ size >= 136 /\ \A t \in DOMAIN ElementSize : ValidVector(a, t)
  BY <1>1, <1>2 DEF WellFramed
<1>10. ~a.generation \/ ~a.fingerprint \/ ~a.typeVersion => Foreign(a)
  BY DEF Foreign
<1>11. \/ PreambleRefusal(a, l) # "none" /\ FrameRefusal(a, l) = PreambleRefusal(a, l)
       \/ /\ PreambleRefusal(a, l) = "none" /\ VersionRefusal(a) # "none"
          /\ FrameRefusal(a, l) = VersionRefusal(a)
       \/ /\ PreambleRefusal(a, l) = "none" /\ VersionRefusal(a) = "none" /\ LayoutRefusal(a) # "none"
          /\ FrameRefusal(a, l) = LayoutRefusal(a)
       \/ /\ PreambleRefusal(a, l) = "none" /\ VersionRefusal(a) = "none" /\ LayoutRefusal(a) = "none"
          /\ FrameRefusal(a, l) = CistaRefusal(a)
  BY DEF FrameRefusal
<1>12. LayoutRefusal(a) = "none" => CistaRefusal(a) # "overflow error"
  BY <1>4, <1>7, <1>8
<1>13. FrameRefusal(a, l) \in {"none", "limit", "invalid", "unsupported"}
  BY <1>5, <1>6, <1>7, <1>8, <1>11, <1>12
<1>14. FrameRefusal(a, l) = "none" =>
           /\ a.magic /\ a.generation /\ a.fingerprint /\ a.typeVersion /\ a.checksum
           /\ size >= 136 /\ size <= bytes /\ \A t \in DOMAIN ElementSize : ValidVector(a, t)
  BY <1>4, <1>5, <1>6, <1>7, <1>8, <1>11
<1>15. FrameRefusal(a, l) = "limit" => size > bytes
  BY <1>5, <1>6, <1>7, <1>8, <1>11
<1>16. ASSUME FrameRefusal(a, l) = "invalid" PROVE ~WellFramed(a)
  <2> SUFFICES ASSUME WellFramed(a) PROVE FALSE
    OBVIOUS
  <2>1. a.magic /\ a.checksum /\ size >= 136 /\ \A t \in DOMAIN ElementSize : VectorFits(a, t)
    BY <1>4, <1>9
  <2>2. PreambleRefusal(a, l) # "invalid" /\ VersionRefusal(a) # "invalid" /\ CistaRefusal(a) # "invalid"
    <3>1. ~(size <= 24) /\ ~(size < 32)
      BY <1>1, <2>1
    <3> QED BY <1>5, <1>6, <1>8, <2>1, <3>1, Zenon
  <2>3. LayoutRefusal(a) # "invalid"
    BY <1>1, <1>7, <2>1
  <2> QED BY <1>11, <1>16, <2>2, <2>3
<1>17. FrameRefusal(a, l) = "unsupported" => Foreign(a)
  BY <1>5, <1>6, <1>7, <1>8, <1>10, <1>11
<1> QED BY <1>1, <1>2, <1>13, <1>14, <1>15, <1>16, <1>17

\* Why an archive is refused before its graph is walked.
LEMMA LoadRefusals ==
    ASSUME NEW a \in AnyArchives, limits \in LimitChoices
    PROVE  /\ LoadRefusal(a) \in Verdicts \ {"valid"}
           /\ LoadRefusal(a) = "busy" =>
                 /\ HeaderRefusal(a.graph, limits, Payload(a)) = "busy" /\ Payload(a) \in Nat
                 /\ WellFramed(a) /\ ~Foreign(a) /\ a.size <= limits.bytes
           /\ LoadRefusal(a) = "invalid" => ~WellFramed(a) \/ ~WellFormed(a.graph)
           /\ LoadRefusal(a) = "unsupported" => Foreign(a)
           /\ LoadRefusal(a) = "limit" => a.size > limits.bytes \/ ~FitsLimits(a.graph, limits)
<1>1. CASE FrameRefusal(a, limits) # "none"
  BY <1>1, FrameRefusals DEF LoadRefusal, Verdicts
<1>2. CASE FrameRefusal(a, limits) = "none"
  <2>1. LoadRefusal(a) = HeaderRefusal(a.graph, limits, Payload(a))
    BY <1>2 DEF LoadRefusal
  <2>2. /\ a.magic /\ a.generation /\ a.fingerprint /\ a.typeVersion /\ a.checksum
        /\ a.size >= PreambleSize + HeaderSize + GraphSize /\ a.size <= limits.bytes
        /\ \A t \in DOMAIN ElementSize : ValidVector(a, t)
    BY <1>2, FrameRefusals
  <2>3. Payload(a) \in Nat \ {0}
    <3>1. a.size \in 0..MaxSize
      BY DEF AnyArchives
    <3>2. PreambleSize = 24 /\ HeaderSize = 16 /\ GraphSize = 96
      BY DEF PreambleSize, HeaderSize, GraphSize
    <3> QED BY <2>2, <3>1, <3>2, SizesAreIntegers DEF Payload
  <2>4. PICK g : g = a.graph
    OBVIOUS
  <2>5. g \in ArchiveGraphs
    BY <2>4 DEF AnyArchives
  <2>6. /\ Len(g.nodes) \in Nat /\ Len(g.strings) \in Nat
        /\ limits.nodes \in Nat /\ limits.strings \in Nat
    BY <2>5, ArchiveLimitsAssumption DEF ArchiveGraphs
  <2>7. FitsLimits(g, limits) => Len(g.nodes) <= limits.nodes /\ Len(g.strings) <= limits.strings
    BY DEF FitsLimits, InLimits
  <2>8. WellFramed(a) <=> g.size = Payload(a)
    BY <2>2, <2>4 DEF WellFramed, Payload
  <2>9. Foreign(a) <=> g.version # "current"
    BY <2>2, <2>4 DEF Foreign
  <2>10. WellFormed(g) => g.magic /\ g.nodes # <<>>
    BY DEF WellFormed
  <2>11. PICK refusal : refusal = HeaderRefusal(g, limits, Payload(a))
    OBVIOUS
  <2>12. /\ refusal \in {"busy", "invalid", "unsupported", "limit"}
         /\ refusal = "busy" => g.version = "current" /\ g.size = Payload(a)
         /\ refusal = "invalid" => ~g.magic \/ g.nodes = <<>> \/ g.size # Payload(a)
         /\ refusal = "unsupported" => g.version # "current"
         /\ refusal = "limit" => Len(g.nodes) > limits.nodes \/ Len(g.strings) > limits.strings
    BY <2>3, <2>11 DEF HeaderRefusal
  <2>13. refusal = "limit" => ~FitsLimits(g, limits)
    BY <2>6, <2>7, <2>12
  <2> QED BY <2>1, <2>2, <2>3, <2>4, <2>8, <2>9, <2>10, <2>11, <2>12, <2>13 DEF Verdicts
<1> QED BY <1>1, <1>2

-----------------------------------------------------------------------------
(* The loader step by step *)

LEMMA LoaderInvInit == LoaderInit => LoaderInv
<1> SUFFICES ASSUME LoaderInit PROVE LoaderInv
  OBVIOUS
<1>1. LimitInv
  BY LimitInvInit DEF LoaderInit
<1> QED BY <1>1 DEF LoaderInit, ValidatorInit, LoaderInv

LEMMA LoaderInvLoad == ASSUME LoaderInv, NEW a \in AnyArchives, Load(a) PROVE LoaderInv'
<1>1. limits \in LimitChoices /\ a.graph \in ArchiveGraphs
  BY DEF LoaderInv, LimitInv, FormInv, WalkInv, AnyArchives
<1>2. /\ LoadRefusal(a) \in Verdicts \ {"valid"}
      /\ LoadRefusal(a) = "busy" =>
            /\ HeaderRefusal(a.graph, limits, Payload(a)) = "busy" /\ Payload(a) \in Nat
            /\ WellFramed(a) /\ ~Foreign(a) /\ a.size <= limits.bytes
      /\ LoadRefusal(a) = "invalid" => ~WellFramed(a) \/ ~WellFormed(a.graph)
      /\ LoadRefusal(a) = "unsupported" => Foreign(a)
      /\ LoadRefusal(a) = "limit" => a.size > limits.bytes \/ ~FitsLimits(a.graph, limits)
  BY <1>1, LoadRefusals
<1>3. Begin(a.graph, limits, LoadRefusal(a)) /\ phase' = "loading" /\ archive' = a
  BY DEF Load
<1>4. graph' = a.graph /\ limits' = limits /\ verdict' = LoadRefusal(a)
  BY <1>3 DEF Begin
<1>5. BeginAny
  <2>1. CASE LoadRefusal(a) = "busy"
    BY <1>1, <1>2, <1>3, <2>1 DEF BeginAny
  <2>2. CASE LoadRefusal(a) # "busy"
    BY <1>1, <1>2, <1>3, <2>2 DEF BeginAny
  <2> QED BY <2>1, <2>2
<1>6. LimitInv'
  BY <1>5, LimitInvBegin
<1>7. ReasonHolds'
  BY <1>2, <1>3, <1>4 DEF ReasonHolds
<1>8. verdict' \in Verdicts /\ verdict' # "idle" /\ graph' \in ArchiveGraphs
  BY <1>1, <1>2, <1>4 DEF Verdicts
<1> QED BY <1>3, <1>6, <1>7, <1>8 DEF LoaderInv

\* How a step of the walk may end it.
LEMMA Outcomes ==
    ASSUME Validation
    PROVE  /\ verdict = "busy" /\ verdict' \in {"busy", "valid", "invalid", "limit"}
           /\ limits' = limits /\ graph' = graph
<1>1. CASE EnterTree
  <2>1. TreeRefusal(trees) \in {"none", "invalid", "limit"}
    BY DEF TreeRefusal, NodeRefusal
  <2> QED BY <1>1, <2>1 DEF EnterTree, Refuse
<1>2. CASE EnterChild
  <2>1. ChildRefusal(Current.next) \in {"none", "invalid", "limit"}
    BY DEF ChildRefusal, NodeRefusal
  <2> QED BY <1>2, <2>1 DEF EnterChild, Refuse
<1>3. CASE LeaveNode
  BY <1>3 DEF LeaveNode
<1>4. CASE Conclude
  BY <1>4 DEF Conclude, Conclusion, Refuse
<1> QED BY <1>1, <1>2, <1>3, <1>4 DEF Validation

LEMMA LoaderInvValidation ==
    ASSUME LoaderInv, Validation, UNCHANGED <<archive, phase>> PROVE LoaderInv'
<1>1. /\ verdict = "busy" /\ verdict' \in {"busy", "valid", "invalid", "limit"}
      /\ limits' = limits /\ graph' = graph /\ archive' = archive /\ phase' = phase
  BY Outcomes
<1>2. LimitInv /\ FormInv /\ LimitInv'
  BY LimitInvStep DEF LoaderInv, LimitInv
<1>3. phase = "loading" /\ graph \in ArchiveGraphs /\ ReasonHolds
  BY <1>1 DEF LoaderInv
<1>4. verdict' = "invalid" => ~WellFormed(graph)
  BY <1>2, RefusesOnlyMalformed
<1>5. verdict' = "limit" => ~WellFormed(graph) \/ ~FitsLimits(graph, limits)
  BY <1>2, RefusesOnlyBeyondLimits
<1>6. ReasonHolds'
  BY <1>1, <1>3, <1>4, <1>5 DEF ReasonHolds
<1> QED BY <1>1, <1>2, <1>3, <1>6 DEF LoaderInv, Verdicts

LEMMA LoaderInvFinishLoading == ASSUME LoaderInv, FinishLoading PROVE LoaderInv'
<1>1. /\ phase = "loading" /\ verdict # "busy" /\ phase' = (IF verdict = "valid" THEN "loaded" ELSE "failed")
      /\ UNCHANGED validator /\ archive' = archive
  BY DEF FinishLoading
<1>2. LimitInv'
  BY <1>1, LimitInvUnchanged DEF LoaderInv
<1>3. verdict' = verdict /\ graph' = graph /\ limits' = limits
  BY <1>1 DEF validator
<1>4. ReasonHolds'
  BY <1>1, <1>3 DEF LoaderInv, ReasonHolds
<1> QED BY <1>1, <1>2, <1>3, <1>4 DEF LoaderInv, Verdicts

LEMMA LoaderInvStep == ASSUME LoaderInv, [LoaderNext]_loader PROVE LoaderInv'
<1>1. CASE UNCHANGED loader
  <2>1. UNCHANGED validator /\ archive' = archive /\ phase' = phase
    BY <1>1 DEF loader
  <2>2. LimitInv'
    BY <2>1, LimitInvUnchanged DEF LoaderInv
  <2>3. verdict' = verdict /\ graph' = graph /\ limits' = limits
    BY <2>1 DEF validator
  <2> QED BY <2>1, <2>2, <2>3 DEF LoaderInv, ReasonHolds
<1> QED BY <1>1, LoaderInvLoad, LoaderInvValidation, LoaderInvFinishLoading DEF LoaderNext

LEMMA LoaderInvMeans == ASSUME LoaderInv PROVE LoadsExactly
<1>1. ASSUME phase = "loaded"
      PROVE  /\ WellFramed(archive) /\ ~Foreign(archive) /\ WellFormed(graph) /\ archive.size <= limits.bytes
             /\ IsDepth(graph, Depths(graph)) /\ InLimits(graph, limits, Depths(graph))
  <2>1. verdict = "valid" /\ graph \in ArchiveGraphs /\ ReasonHolds
    BY <1>1 DEF LoaderInv
  <2>2. WellFormed(graph) /\ FitsLimits(graph, limits)
    BY <2>1 DEF LoaderInv, LimitInv, FormInv, AcceptedIsWellFormed, AcceptedIsInLimits
  <2>3. PICK depth \in [Nodes -> Nat] : IsDepth(graph, depth) /\ InLimits(graph, limits, depth)
    BY <2>2 DEF FitsLimits, Nodes
  <2>4. IsDepth(graph, Depths(graph)) /\ Depths(graph) = depth
    BY <2>1, <2>2, <2>3, DepthsAreDepths, DepthsAgree
  <2> QED BY <2>1, <2>2, <2>3, <2>4 DEF ReasonHolds
<1>2. ASSUME phase = "failed"
      PROVE  /\ verdict \in {"invalid", "unsupported", "limit"}
             /\ verdict = "invalid" => ~WellFramed(archive) \/ ~WellFormed(graph)
             /\ verdict = "unsupported" => Foreign(archive)
             /\ verdict = "limit" =>
                   \/ archive.size > limits.bytes \/ ~WellFormed(graph)
                   \/ IsDepth(graph, Depths(graph)) /\ ~InLimits(graph, limits, Depths(graph))
  <2>1. verdict \in {"invalid", "unsupported", "limit"} /\ graph \in ArchiveGraphs /\ ReasonHolds
    BY <1>2 DEF LoaderInv, Verdicts
  <2>2. ASSUME WellFormed(graph), ~FitsLimits(graph, limits)
        PROVE  IsDepth(graph, Depths(graph)) /\ ~InLimits(graph, limits, Depths(graph))
    <3>1. IsDepth(graph, Depths(graph)) /\ Depths(graph) \in [Nodes -> Nat]
      BY <2>1, <2>2, DepthsAreDepths
    <3> QED BY <2>2, <3>1 DEF FitsLimits, Nodes
  <2> QED BY <2>1, <2>2 DEF ReasonHolds
<1> QED BY <1>1, <1>2 DEF LoadsExactly

-----------------------------------------------------------------------------
(* Theorems *)

\* validateNode recurses no deeper than the limits allow and never into a node that it is
\* already in, whatever the links of the graph are.
THEOREM WalkStaysBounded == ValidatorSpec => []WalkBounded
<1>1. WalkInv => WalkBounded
  BY DEF WalkInv, WalkBounded
<1> QED BY <1>1, WalkInvInit, WalkInvStep, PTL DEF ValidatorSpec

\* A render of a validated archive reads nothing outside of its graph.
THEOREM AcceptedGraphsAreContained == ValidatorSpec => []AcceptedIsContained
<1>1. WalkInv => AcceptedIsContained
  BY DEF WalkInv
<1> QED BY <1>1, WalkInvInit, WalkInvStep, PTL DEF ValidatorSpec

\* The validator accepts nothing but archives (README:133-148): what it finds valid is made
\* of disjoint trees and nothing else, each node referred to once, each record valid at its
\* place, with its partials in the order of their names.
THEOREM AcceptedGraphsAreWellFormed == ValidatorSpec => []AcceptedIsWellFormed
<1>1. FormInv => AcceptedIsWellFormed
  BY DEF FormInv
<1> QED BY <1>1, FormInvInit, FormInvStep, PTL DEF ValidatorSpec

\* The validator refuses no archive as invalid: a walk that ends so has found something
\* wrong.  (One that is well-formed may still be refused for the application's limits.)
THEOREM RefusedGraphsAreMalformed == ValidatorSpec => RefusedIsMalformed
<1>1. FormInv /\ [BeginAny \/ Validation]_validator =>
          [Validation /\ verdict' = "invalid" => ~WellFormed(graph)]_validator
  BY RefusesOnlyMalformed
<1> QED BY <1>1, FormInvInit, FormInvStep, PTL DEF ValidatorSpec, RefusedIsMalformed

\* The nodes of a well-formed graph have exactly one depth each, so a limit of nesting
\* says the same of a graph whatever the order of its records.
THEOREM DepthIsDetermined ==
    ASSUME graph \in ArchiveGraphs, WellFormed(graph)
    PROVE  \E depth \in [Nodes -> Nat] :
               IsDepth(graph, depth) /\ \A other \in [Nodes -> Nat] : IsDepth(graph, other) => other = depth
BY DepthsExist, DepthsAgree

\* What the validator accepts is within the application's limits (README:133-137): the walk
\* was as long as nodes are deep, and counted every part of every name once.
THEOREM AcceptedGraphsAreInLimits == ValidatorSpec => []AcceptedIsInLimits
<1>1. LimitInv => AcceptedIsInLimits
  BY DEF LimitInv
<1> QED BY <1>1, LimitInvInit, LimitInvStep, PTL DEF ValidatorSpec

\* An archive that the walk refuses for a limit exceeds one.
THEOREM RefusedGraphsExceedLimits == ValidatorSpec => RefusedExceeds
<1>1. LimitInv /\ [BeginAny \/ Validation]_validator =>
          [Validation /\ verdict' = "limit" /\ WellFormed(graph) => ~FitsLimits(graph, limits)]_validator
  BY RefusesOnlyBeyondLimits
<1> QED BY <1>1, LimitInvInit, LimitInvStep, PTL DEF ValidatorSpec, RefusedExceeds

\* What loads is all that the application was promised, and what is refused is refused for
\* a reason that it has (README:133-148), whatever the archive's bytes say: the checks of
\* the frame that must not wrap, the walk over the graph, and the order of both.
THEOREM ArchivesLoadExactly == LoaderSpec => []LoadsExactly
<1> QED BY LoaderInvMeans, LoaderInvInit, LoaderInvStep, PTL DEF LoaderSpec

=============================================================================
