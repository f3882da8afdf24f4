-------------------------------- MODULE YAMLData --------------------------------
(***************************************************************************)
(* Data::fromYAML reads a document twice.  The preflight walks the events  *)
(* of the text and charges them to a budget before libyaml composes a      *)
(* document from them; createFromNode then walks the composed graph, in    *)
(* which an alias is an edge to a node that was seen before, and charges   *)
(* every value it expands to a second budget.                              *)
(*                                                                         *)
(* A text is what libyaml makes of it: its events and the graph of its     *)
(* first document, or none where libyaml cannot compose one.               *)
(***************************************************************************)
EXTENDS ParseBudget, YAMLScalars, FiniteSets

CONSTANTS Texts, Null

OpenKinds == {"sequenceStart", "mappingStart"}
CloseKinds == {"sequenceEnd", "mappingEnd"}
LeafKinds == {"scalar", "alias"}

IsGraph(nodes) ==
    /\ 1 \in DOMAIN nodes
    /\ \A id \in DOMAIN nodes :
          LET items == nodes[id].items IN
          /\ nodes[id].kind \in {"scalar", "sequence", "mapping"} /\ nodes[id].size \in Nat
          /\ items \in Seq({items[i] : i \in DOMAIN items})
          /\ nodes[id].kind = "scalar" => items = <<>>
          /\ \A i \in DOMAIN items : /\ items[i].node \in DOMAIN nodes
                                     /\ nodes[id].kind = "mapping" => items[i].key \in DOMAIN nodes

\* An open container is the node it becomes, with the items it has whole; the next one may
\* have its key already.
NextPart(nodes, top) ==
    LET item == nodes[top.node].items[top.done + 1] IN
    IF nodes[top.node].kind = "mapping" /\ ~top.keyed THEN item.key ELSE item.node
WithPart(nodes, top) ==
    IF nodes[top.node].kind = "mapping" /\ ~top.keyed THEN [top EXCEPT !.keyed = TRUE]
    ELSE [top EXCEPT !.done = @ + 1, !.keyed = FALSE]
PartRead(nodes, stack) ==
    IF stack = <<>> THEN <<>> ELSE [stack EXCEPT ![Len(stack)] = WithPart(nodes, @)]
OpenAfter(nodes, event, open) ==
    CASE event.kind \in OpenKinds -> Append(open, [node |-> event.node, done |-> 0, keyed |-> FALSE])
      [] event.kind \in CloseKinds -> PartRead(nodes, SubSeq(open, 1, Len(open) - 1))
      [] event.kind \in LeafKinds -> PartRead(nodes, open)
      [] OTHER -> open
\* The containers that are open at an event.
OpenAt(events, nodes) ==
    LET open[p \in 1..Len(events)] ==
            IF p = 1 THEN <<>> ELSE OpenAfter(nodes, events[p - 1], open[p - 1])
    IN open

\* The p-th event, read with these containers open, is of a document of that graph: the first
\* value is its root, and the parts of each container are its items, in their order, as new
\* nodes or aliases of nodes.
EventFits(nodes, event, open, p, last) ==
    LET top == open[Len(open)] IN
    /\ event.kind = "documentStart" <=> p = 1
    /\ event.kind = "documentEnd" <=> p = last
    /\ event.kind \in OpenKinds \cup LeafKinds =>
          /\ event.node \in DOMAIN nodes
          /\ open = <<>> => p = 2 /\ event.node = 1
          /\ open # <<>> => top.done < Len(nodes[top.node].items) /\ event.node = NextPart(nodes, top)
    /\ event.kind = "scalar" => nodes[event.node].kind = "scalar" /\ event.size = nodes[event.node].size
    /\ event.kind = "sequenceStart" => nodes[event.node].kind = "sequence"
    /\ event.kind = "mappingStart" => nodes[event.node].kind = "mapping"
    /\ event.kind \in CloseKinds =>
          /\ open # <<>> /\ top.done = Len(nodes[top.node].items) /\ ~top.keyed
          /\ nodes[top.node].kind = IF event.kind = "mappingEnd" THEN "mapping" ELSE "sequence"
IsComposed(events, nodes) ==
    LET last == Len(events)
        open == OpenAt(events, nodes)
    IN /\ last > 2 /\ open[last] = <<>>
       /\ \A p \in 1..last : EventFits(nodes, events[p], open[p], p, last)

ASSUME TextsAssumption ==
    \A t \in Texts :
        /\ t.events \in Seq({t.events[p] : p \in DOMAIN t.events})
        /\ \A p \in DOMAIN t.events :
              /\ t.events[p].kind \in {"documentStart", "documentEnd"} \cup OpenKinds \cup CloseKinds \cup LeafKinds
              /\ t.events[p].size \in Nat
        /\ t.documents \in Nat
        /\ t.nodes # Null =>
              /\ t.documents > 0 /\ IsGraph(t.nodes)
              /\ t.documents = 1 /\ t.wellFormed => IsComposed(t.events, t.nodes)

VARIABLES
    text,
    phase,          \* preflight, load, build, trailing, done or failed
    next,           \* the next event
    containers,     \* containers_
    sawRoot, completedDocuments,
    used,           \* the budget of the phase
    path,           \* the pending calls of createFromNode, the innermost last
    active,         \* the nodes of those calls
    result

preflight == <<next, containers, sawRoot, completedDocuments>>
builder == <<path, active, result>>
vars == <<text, limits, phase, preflight, used, builder>>

Fail ==
    /\ phase' = "failed"
    /\ UNCHANGED <<text, limits, preflight, used, builder>>

-----------------------------------------------------------------------------
(* YAMLPreflight *)

Event(kinds) == phase = "preflight" /\ next <= Len(text.events) /\ text.events[next].kind \in kinds
Current == text.events[next]
Top == containers[Len(containers)]
ExpectingKey == containers # <<>> /\ Top.type = "mapping" /\ Top.expectingKey
Go == next' = next + 1 /\ UNCHANGED <<text, limits, phase, builder>>

\* beginValue with the string of the value; a value cannot be the key of a mapping.
ValueCost(strings) ==
    Cost(1, strings, IF containers # <<>> /\ Top.type = "sequence" THEN 1 ELSE 0)
CanBegin(strings) ==
    /\ containers = <<>> => ~sawRoot
    /\ ~TooDeep(Len(containers)) /\ Affordable(used, ValueCost(strings))
Begin(strings) == sawRoot' = TRUE /\ used' = Consume(used, ValueCost(strings))
Finished(stack) ==
    IF stack # <<>> /\ stack[Len(stack)].type = "mapping"
    THEN [stack EXCEPT ![Len(stack)].expectingKey = TRUE] ELSE stack

DocumentStart ==
    /\ Event({"documentStart"})
    /\ \/ completedDocuments # 0 /\ Fail
       \/ completedDocuments = 0 /\ Go /\ UNCHANGED <<containers, sawRoot, completedDocuments, used>>
DocumentEnd ==
    /\ Event({"documentEnd"})
    /\ \/ containers # <<>> /\ Fail
       \/ /\ containers = <<>>
          /\ completedDocuments' = completedDocuments + 1
          /\ Go /\ UNCHANGED <<containers, sawRoot, used>>

\* A scalar is charged for its text, an alias is not, whether key or value.
ConsumeKey ==
    /\ Event({"scalar", "alias"}) /\ ExpectingKey
    /\ LET cost == Cost(0, IF Current.kind = "scalar" THEN Current.size ELSE 0, 1) IN
       \/ ~Affordable(used, cost) /\ Fail
       \/ /\ Affordable(used, cost)
          /\ containers' = [containers EXCEPT ![Len(containers)].expectingKey = FALSE]
          /\ used' = Consume(used, cost)
          /\ Go /\ UNCHANGED <<sawRoot, completedDocuments>>
ConsumeValue ==
    /\ Event({"scalar", "alias"}) /\ ~ExpectingKey
    /\ LET strings == IF Current.kind = "scalar" THEN Current.size ELSE 0 IN
       \/ ~CanBegin(strings) /\ Fail
       \/ /\ CanBegin(strings) /\ Begin(strings)
          /\ containers' = Finished(containers)
          /\ Go /\ UNCHANGED completedDocuments

StartContainer ==
    /\ Event({"sequenceStart", "mappingStart"})
    /\ \/ ~(~ExpectingKey /\ CanBegin(0)) /\ Fail
       \/ /\ ~ExpectingKey /\ CanBegin(0) /\ Begin(0)
          /\ containers' = Append(containers,
                IF Current.kind = "mappingStart" THEN [type |-> "mapping", expectingKey |-> TRUE]
                ELSE [type |-> "sequence", expectingKey |-> FALSE])
          /\ Go /\ UNCHANGED completedDocuments
EndContainer ==
    /\ Event({"sequenceEnd", "mappingEnd"})
    /\ LET type == IF Current.kind = "mappingEnd" THEN "mapping" ELSE "sequence"
           complete == containers # <<>> /\ Top.type = type /\ (type = "mapping" => Top.expectingKey) IN
       \/ ~complete /\ Fail
       \/ /\ complete
          /\ containers' = Finished(SubSeq(containers, 1, Len(containers) - 1))
          /\ Go /\ UNCHANGED <<sawRoot, completedDocuments, used>>

\* The stream ends, or the text is no YAML from here on.
EndPreflight ==
    /\ phase = "preflight" /\ next > Len(text.events)
    /\ \/ ~(text.wellFormed /\ sawRoot) /\ Fail
       \/ /\ text.wellFormed /\ sawRoot
          /\ phase' = "load"
          /\ UNCHANGED <<text, limits, preflight, used, builder>>

-----------------------------------------------------------------------------
(* YAMLDataBuilder::createFromNode *)

Node(id) == text.nodes[id]
Call(id, key) ==
    [node |-> id, key |-> key, done |-> 0, value |->
        CASE Node(id).kind = "scalar" -> Resolve(Node(id))
          [] Node(id).kind = "sequence" -> [type |-> "array", items |-> <<>>]
          [] Node(id).kind = "mapping" -> [type |-> "map", map |-> [k \in {} |-> Null]]]
Innermost == path[Len(path)]
Children(id) == Node(id).items

\* What a node is charged for when its call begins; keys are charged one by one.
NodeCost(id) ==
    Cost(1, IF Node(id).kind = "scalar" THEN Node(id).size ELSE 0,
         IF Node(id).kind = "scalar" THEN 0 ELSE Len(Children(id)))

\* Fault: a node that is being expanded may be entered again.
CanEnterAgain(id, spent) ==
    ~TooDeep(Len(path)) /\ Affordable(spent, NodeCost(id))
CanEnter(id, spent) ==
    ~TooDeep(Len(path)) /\ Affordable(spent, NodeCost(id)) /\ id \notin active
Enter(id, key, spent, calls) ==
    /\ path' = Append(calls, Call(id, key))
    /\ active' = active \cup {id}
    /\ used' = Consume(spent, NodeCost(id))

\* yaml_parser_load, the root node and the second budget
Load ==
    /\ phase = "load"
    /\ LET loaded == text.nodes # Null /\ CanEnter(1, Unused) IN
       \/ ~loaded /\ Fail
       \/ /\ loaded
          /\ Enter(1, Null, Unused, path)
          /\ phase' = "build"
          /\ UNCHANGED <<text, limits, preflight, result>>

\* The next element of a sequence, or the next pair of a mapping.
NextItem ==
    /\ phase = "build" /\ path # <<>> /\ Innermost.done < Len(Children(Innermost.node))
    /\ LET item == Children(Innermost.node)[Innermost.done + 1]
           mapping == Node(Innermost.node).kind = "mapping"
           validKey == mapping => Node(item.key).kind = "scalar"
           spent == IF mapping /\ validKey THEN Consume(used, Cost(0, Node(item.key).size, 0)) ELSE used
           allowed == validKey /\ WithinLimits(spent) /\ CanEnter(item.node, spent)
       IN \/ ~allowed /\ Fail
          \/ /\ allowed
             /\ Enter(item.node, IF mapping THEN Node(item.key).text ELSE Null, spent,
                      [path EXCEPT ![Len(path)].done = @ + 1])
             /\ UNCHANGED <<text, limits, phase, preflight, result>>

\* Fault: a node that was expanded stays active.
LeftActive(id) == active
\* ActiveYAMLNode's destructor
Left(id) == active \ {id}
Placed(call, key, value) ==
    IF Node(call.node).kind = "sequence" THEN [call EXCEPT !.value.items = Append(@, value)]
    ELSE [call EXCEPT !.value.map = [n \in DOMAIN @ \cup {key} |-> IF n = key THEN value ELSE @[n]]]
Return ==
    /\ phase = "build" /\ path # <<>> /\ Innermost.done = Len(Children(Innermost.node))
    /\ LET callers == SubSeq(path, 1, Len(path) - 1) IN
       \/ /\ callers = <<>>
          /\ path' = <<>> /\ result' = Innermost.value
          /\ phase' = "trailing"
       \/ /\ callers # <<>>
          /\ path' = [callers EXCEPT ![Len(callers)] = Placed(@, Innermost.key, Innermost.value)]
          /\ UNCHANGED <<result, phase>>
    /\ active' = Left(Innermost.node)
    /\ UNCHANGED <<text, limits, preflight, used>>

\* A second document; the preflight has seen to it that there is none.
CheckTrailing ==
    /\ phase = "trailing"
    /\ \/ text.documents > 1 /\ Fail
       \/ /\ text.documents <= 1
          /\ phase' = "done"
          /\ UNCHANGED <<text, limits, preflight, used, builder>>

-----------------------------------------------------------------------------
Init ==
    /\ text \in Texts /\ limits \in ParseLimits
    /\ phase = IF Readable(text) THEN "preflight" ELSE "failed"
    /\ next = 1 /\ containers = <<>> /\ sawRoot = FALSE /\ completedDocuments = 0
    /\ used = Unused
    /\ path = <<>> /\ active = {} /\ result = Null

Preflight ==
    DocumentStart \/ DocumentEnd \/ ConsumeKey \/ ConsumeValue \/ StartContainer \/ EndContainer \/ EndPreflight
Build == Load \/ NextItem \/ Return \/ CheckTrailing
\* fromYAML has returned or thrown.
Ended == phase \in {"done", "failed"} /\ UNCHANGED vars
Next == Preflight \/ Build \/ Ended
Spec == Init /\ [][Next]_vars

-----------------------------------------------------------------------------
(* Properties *)

\* The nodes being expanded are those on one way from the root: no node is below
\* itself, the way is no longer than the nesting limit, and a node left is active no more.
ActiveIsPath ==
    phase = "build" =>
        /\ active = {path[i].node : i \in DOMAIN path} /\ Cardinality(active) = Len(path)
        /\ Len(path) <= limits.nesting /\ Len(path) <= ParseNestingCeiling
        /\ WithinLimits(used)

=============================================================================
