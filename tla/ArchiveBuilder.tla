----------------------------- MODULE ArchiveBuilder -----------------------------
(***************************************************************************)
(* ArchiveBuilder: the graph of a tree and its partials.                   *)
(*                                                                         *)
(* A tree's node has its children in a sequence, and source is the range   *)
(* of a buffer its section was parsed from, or Null.  Partials are         *)
(* functions from names to trees or Null.                                  *)
(***************************************************************************)
EXTENDS ArchiveFormat, SequencesExt

CONSTANTS
    Buffers     \* the bytes of every buffer that sections were parsed from

-----------------------------------------------------------------------------
(* Counting *)

RECURSIVE AllNodes(_, _)
\* Every node of a tree with its depth, parents first.
AllNodes(tree, depth) ==
    <<[node |-> tree, depth |-> depth]>>
        \o FlattenSeq([i \in DOMAIN tree.children |-> AllNodes(tree.children[i], depth + 1)])

Size(string) == IF string = Null THEN 0 ELSE Len(string)
StringBytes(node) == Size(node.data) + Size(node.start) + Size(node.stop)
HasSource(node) == node.type = "Section" /\ node.source # Null
SourcesOf(counted) == {counted[i].node.source.buffer : i \in {i \in DOMAIN counted : HasSource(counted[i].node)}}
PartsOf(node) == IF node.data = Null THEN 0 ELSE Parts(node.type, node.data)
Total(numbers) == FoldSeq(+, 0, numbers)

\* A buffer is stored once, however many sections it holds.
SourceBytes(counted) == MapThenSumSet(LAMBDA b : Len(Buffers[b]), SourcesOf(counted))

\* collectEffectivePartials: partials that are passed override the root's, those that
\* are Null do not.
EffectivePartials(fallback, overriding) ==
    LET bound(partials) == {name \in DOMAIN partials : partials[name] # Null}
    IN  [name \in bound(fallback) \cup bound(overriding) |->
            IF name \in bound(overriding) THEN overriding[name] ELSE fallback[name]]
\* The order of a std::map.
Names(partials) == SetToSortSeq(DOMAIN partials, Less)

\* countNode and addPartialName, for the root and every partial: each total grows and
\* is compared at once, which comes to comparing what they end with.
WithinLimits(counted, names, l) ==
    LET strings == Total([i \in DOMAIN counted |-> StringBytes(counted[i].node)]) + SourceBytes(counted)
                       + Total([k \in DOMAIN names |-> Len(names[k])])
        parts == [i \in DOMAIN counted |-> PartsOf(counted[i].node)]
    IN  /\ \A i \in DOMAIN counted : counted[i].depth < l.nesting /\ counted[i].depth < NestingCeiling
        /\ Len(counted) <= l.nodes
        /\ strings <= l.strings
        /\ \A i \in DOMAIN counted : parts[i] <= l.partsPerNode
        /\ Total(parts) <= l.parts
        /\ SizeOf(Len(counted), Len(names), strings) <= l.bytes

-----------------------------------------------------------------------------
(* Appending *)

\* appendString, to the table of a graph that is being built
Stored(table, string) ==
    IF string = Null THEN [table |-> table, slice |-> Absent]
    ELSE [table |-> table \o string, slice |-> [offset |-> Len(table), length |-> Len(string)]]

\* A built graph is [nodes, table, sources]; sources says where a buffer was stored.
NothingBuilt == [nodes |-> <<>>, table |-> <<>>, sources |-> <<>>]
Placed(built, source) ==
    IF source = Null \/ source.buffer \in DOMAIN built.sources THEN built
    ELSE [built EXCEPT !.sources = @ @@ (source.buffer :> Len(built.table)), !.table = @ \o Buffers[source.buffer]]

\* Fault: a section's text is the whole buffer it comes from.
WholeSource(built, source) ==
    IF source = Null THEN Absent
    ELSE [offset |-> built.sources[source.buffer], length |-> Len(Buffers[source.buffer])]
SourceSlice(built, source) ==
    IF source = Null THEN Absent
    ELSE [offset |-> built.sources[source.buffer] + source.begin, length |-> source.length]

\* appendNode: the node takes the next index, then its children follow, each linked to
\* the one before it.
RECURSIVE Appended(_, _), AppendedChildren(_, _, _)
Appended(built, node) ==
    LET data == Stored(built.table, node.data)
        start == Stored(data.table, node.start)
        stop == Stored(start.table, node.stop)
        source == IF HasSource(node) THEN node.source ELSE Null
        placed == Placed([built EXCEPT !.table = stop.table], source)
        index == Len(built.nodes) + 1
        record == [type |-> node.type, flags |-> node.flags,
                   presence |-> {x \in {"data"} : node.data # Null} \cup {x \in {"start"} : node.start # Null}
                       \cup {x \in {"stop"} : node.stop # Null} \cup {x \in {"original"} : source # Null},
                   data |-> data.slice, start |-> start.slice, stop |-> stop.slice,
                   original |-> SourceSlice(placed, source),
                   firstChild |-> IF node.children = <<>> THEN 0 ELSE index + 1, nextSibling |-> 0]
    IN AppendedChildren([placed EXCEPT !.nodes = Append(@, record)], node.children, 0)
AppendedChildren(built, children, previous) ==
    IF children = <<>> THEN built
    ELSE LET index == Len(built.nodes) + 1
             linked == IF previous = 0 THEN built ELSE [built EXCEPT !.nodes[previous].nextSibling = index]
         IN AppendedChildren(Appended(linked, Head(children)), Tail(children), index)

\* buildWithPartials, after counting
Graph(root, effective) ==
    LET names == Names(effective)
        after[k \in 0..Len(names)] ==
            IF k = 0 THEN [built |-> Appended(NothingBuilt, root), partials |-> <<>>]
            ELSE LET before == after[k - 1]
                     name == Stored(before.built.table, names[k])
                 IN [built |-> Appended([before.built EXCEPT !.table = name.table], effective[names[k]]),
                     partials |-> Append(before.partials,
                         [name |-> name.slice, root |-> Len(before.built.nodes) + 1])]
        done == after[Len(names)]
    IN [magic |-> TRUE, version |-> "current", size |-> 0, root |-> 1,
        nodes |-> done.built.nodes, partials |-> done.partials, strings |-> done.built.table]

\* Nothing appendNode refuses is in the tree.
Representable(counted) ==
    \A i \in DOMAIN counted : counted[i].node.type \in SerializableTypes

=============================================================================
