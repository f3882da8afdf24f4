---------------------------- MODULE ArchivedTemplate ----------------------------
(***************************************************************************)
(* serializeArchivedTemplate and loadArchivedTemplate: an application that  *)
(* archives a template and loads the result, or loads an archive from      *)
(* elsewhere; what renders see of the loaded archive, and what they must.  *)
(***************************************************************************)
EXTENDS ArchiveBuilder, ArchiveLoader

CONSTANTS
    Sources,        \* what is archived: a root with its partials, partials that override them, and
                    \* whether these are compiled templates
    Archives        \* what is loaded

VARIABLES
    source          \* what is archived; the archive is what it became, or what is loaded, and
                    \* phase may also be "writing" or "written"

vars == <<loader, source>>

Init == LoaderInit /\ source = Null

Counted(s, effective) ==
    LET names == Names(effective) IN
    AllNodes(s.root, 0) \o FlattenSeq([k \in DOMAIN names |-> AllNodes(effective[names[k]], 0)])
\* A compiled partial may be empty, which a partial that is a node cannot.
EmptyPartial(s) == s.compiled /\ \E name \in DOMAIN s.overriding : s.overriding[name] = Null

\* serializeCistaArchiveWithMode, up to the validation of its graph
Serialize(s) ==
    LET effective == EffectivePartials(s.partials, s.overriding)
        counted == Counted(s, effective)
        fits == ~EmptyPartial(s) /\ Representable(counted) /\ WithinLimits(counted, Names(effective), limits)
    IN  /\ phase = "idle" /\ source' = s /\ UNCHANGED archive
        /\ IF fits
           THEN LET g == Graph(s.root, effective) IN phase' = "writing" /\ Begin(g, limits, HeaderRefusal(g, limits, 0))
           ELSE phase' = "failed" /\ UNCHANGED validator
\* The graph is valid: it is counted, then written and framed.
FinishWriting ==
    /\ phase = "writing" /\ verdict # "busy"
    /\ LET serialized == Serialized(graph, limits.bytes - PreambleSize) IN
       IF verdict = "valid" /\ serialized.fits
       THEN archive' = FrameArchive(graph, serialized) /\ phase' = "written"
       ELSE phase' = "failed" /\ UNCHANGED archive
    /\ UNCHANGED <<validator, source>>

Ended == phase \in {"loaded", "failed"} /\ UNCHANGED vars
Next ==
    \/ phase = "idle" /\ \E s \in Sources : Serialize(s)
    \/ phase = "idle" /\ \E a \in Archives : Load(a) /\ UNCHANGED source
    \/ phase = "written" /\ Load(archive) /\ UNCHANGED source
    \/ Validation /\ UNCHANGED <<source, archive, phase>>
    \/ FinishLoading /\ UNCHANGED source
    \/ FinishWriting \/ Ended

Spec == Init /\ [][Next]_vars

-----------------------------------------------------------------------------
(* What a render sees of a valid graph *)

StringOf(g, record, field) == IF field \in record.presence THEN Bytes(g, record[field]) ELSE Null
\* ArchiveNodeView and ArchiveChildCursor
RECURSIVE View(_, _), ViewOfChildren(_, _)
View(g, i) ==
    LET r == g.nodes[i] IN
    [type |-> r.type, flags |-> r.flags, data |-> StringOf(g, r, "data"), start |-> StringOf(g, r, "start"),
     stop |-> StringOf(g, r, "stop"), original |-> StringOf(g, r, "original"),
     children |-> ViewOfChildren(g, r.firstChild)]
ViewOfChildren(g, i) == IF i = 0 THEN <<>> ELSE <<View(g, i)>> \o ViewOfChildren(g, g.nodes[i].nextSibling)

\* std::lower_bound over the partials' names, in the range from first up to but without last
RECURSIVE LowerBound(_, _, _, _)
LowerBound(g, name, first, last) ==
    IF first = last THEN first
    ELSE LET middle == first + (last - first) \div 2 IN
         IF Less(Bytes(g, g.partials[middle].name), name)
         THEN LowerBound(g, name, middle + 1, last) ELSE LowerBound(g, name, first, middle)
\* ArchivePartialSource: the partial's root, or 0
ArchivedPartial(g, name) ==
    LET position == LowerBound(g, name, 1, Len(g.partials) + 1) IN
    IF position <= Len(g.partials) /\ Bytes(g, g.partials[position].name) = name
    THEN g.partials[position].root ELSE 0

-----------------------------------------------------------------------------
(* What archiving a template must keep *)

\* What renders of the owned tree see.
RECURSIVE Plain(_)
Plain(node) ==
    [type |-> node.type, flags |-> node.flags, data |-> node.data, start |-> node.start, stop |-> node.stop,
     original |-> IF HasSource(node)
                  THEN SubSeq(Buffers[node.source.buffer], node.source.begin + 1, node.source.begin + node.source.length)
                  ELSE Null,
     children |-> [i \in DOMAIN node.children |-> Plain(node.children[i])]]
\* OwnedPartialSource without a resolver: the partial that an owned render finds, or Null.
OwnedPartial(s, name) ==
    IF name \in DOMAIN s.overriding /\ s.overriding[name] # Null THEN s.overriding[name]
    ELSE IF name \in DOMAIN s.partials THEN s.partials[name] ELSE Null
NamesUsed(s) == DOMAIN s.partials \cup DOMAIN s.overriding

-----------------------------------------------------------------------------
(* Properties *)

\* What was archived loads under the same limits (cista.cpp:674: the writer's bound
\* "guarantees that its output fits the paired reader's" budget), as the same tree with
\* the same section texts and with the partials that an owned render finds by name.
KeepsTemplate ==
    /\ source # Null /\ (archive # Null \/ verdict = "valid") => phase # "failed"
    /\ source # Null /\ phase = "loaded" =>
          /\ View(graph, graph.root) = Plain(source.root)
          /\ \A name \in NamesUsed(source) :
                LET owned == OwnedPartial(source, name)
                    archived == ArchivedPartial(graph, name)
                IN  IF owned = Null THEN archived = 0
                    ELSE archived # 0 /\ View(graph, archived) = Plain(owned)

=============================================================================
