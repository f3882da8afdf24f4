------------------------------- MODULE MCArchive -------------------------------
(***************************************************************************)
(* Small templates whose sections share buffers and whose partials are     *)
(* overridden; every graph of two nodes and many of three, whatever its    *)
(* links; graphs of templates with one thing changed.                      *)
(***************************************************************************)
EXTENDS ArchivedTemplate

a == <<97>>
ab == <<97, 98>>
dotted == <<97, Dot, 98>>
space == <<32>>

MCBuffers == <<<<97, 98, 99>>, <<120, 121>>>>
Range1 == [buffer |-> 1, begin |-> 1, length |-> 2]
Range2 == [buffer |-> 1, begin |-> 0, length |-> 1]
Range3 == [buffer |-> 2, begin |-> 1, length |-> 1]

Leaf(type, flags, data) ==
    [type |-> type, flags |-> flags, data |-> data, start |-> Null, stop |-> Null, source |-> Null, children |-> <<>>]
With(node, children) == [node EXCEPT !.children = children]
Root(children) == With(Leaf("Root", {}, Null), children)
Section(range, children) == With([Leaf("Section", {}, a) EXCEPT !.source = range], children)
Indent == Leaf("Output", {"LambdaOnly", "PartialIndent"}, space)
Partial == Leaf("Partial", {}, a)
Variable == Leaf("Variable", {"Escape"}, dotted)
Text == Leaf("Output", {}, <<>>)

Trees ==
    {Root(<<>>), Root(<<Variable, Text>>), Root(<<Indent, Partial>>),
     Root(<<Section(Range1, <<Variable>>), Section(Range2, <<>>)>>),
     Root(<<Section(Null, <<Section(Range3, <<Text>>), Text>>)>>),
     Root(<<[Section(Range3, <<>>) EXCEPT !.start = a, !.stop = ab], With(Leaf("InlinePartial", {}, a), <<Text>>)>>)}
Odd ==
    {Root(<<Indent>>), Root(<<Leaf("None", {}, Null)>>), Root(<<Indent, Text>>), Section(Null, <<>>),
     Root(<<Section(Null, <<Section(Null, <<Section(Null, <<>>)>>)>>)>>)}

Map(name, tree) == [n \in {name} |-> tree]
None == [n \in {} |-> Null]
Template(root, partials, overriding, compiled) ==
    [root |-> root, partials |-> partials, overriding |-> overriding, compiled |-> compiled]
MCSources ==
    {Template(root, None, None, TRUE) : root \in Trees \cup Odd}
    \cup {Template(Root(<<Partial>>), Map(name, tree), Map(other, override), compiled) :
             name \in {a, ab}, other \in {a, <<98>>}, tree \in Trees, override \in {Root(<<Text>>), Null},
             compiled \in BOOLEAN}
    \cup {Template(Root(<<>>), Map(<<>>, Root(<<>>)), None, FALSE),
          Template(Root(<<Section(Range1, <<>>)>>), Map(a, Root(<<Section(Range2, <<>>), Section(Range3, <<>>)>>)),
                   Map(ab, Root(<<Section(Range3, <<>>)>>)) @@ Map(<<98>>, Root(<<>>)), TRUE)}

-----------------------------------------------------------------------------
(* Archives from elsewhere *)

\* A graph framed as the writer frames it.
Intact(g) == FrameArchive(g, Serialized(g, MaxOffset))
Record(type, firstChild, nextSibling) ==
    [type |-> type, flags |-> {}, presence |-> IF type = "Root" THEN {} ELSE {"data"},
     data |-> IF type = "Root" THEN Absent ELSE [offset |-> 0, length |-> 1],
     start |-> Absent, stop |-> Absent, original |-> Absent,
     firstChild |-> firstChild, nextSibling |-> nextSibling]
Linked(root, nodes, partials) ==
    LET g == [magic |-> TRUE, version |-> "current", size |-> 0, root |-> root, nodes |-> nodes,
              partials |-> [k \in DOMAIN partials |-> [name |-> [offset |-> 0, length |-> k], root |-> partials[k]]],
              strings |-> ab]
    IN Intact(g).graph
TwoNodes ==
    {Linked(root, <<Record("Root", c1, s1), Record("Section", c2, s2)>>, partials) :
        root \in 0..2, c1 \in 0..3, s1 \in {0, 2}, c2 \in 0..2, s2 \in 0..2, partials \in {<<>>, <<1>>, <<2>>, <<0>>, <<3>>}}
ThreeNodes ==
    {Linked(1, <<Record("Root", c1, 0), Record("Section", c2, s2), Record("Section", c3, s3)>>, partials) :
        c1, c2, c3, s2, s3 \in 0..3, partials \in {<<>>, <<2>>, <<3>>, <<3, 2>>}}

\* One thing of a graph changed.
Near(n) == {n + 1} \cup (IF n = 0 THEN {} ELSE {0, n - 1})
NearSlices(s) == {[s EXCEPT !.offset = n] : n \in Near(s.offset)} \cup {[s EXCEPT !.length = n] : n \in Near(s.length)}
ChangedRecord(r) ==
    {[r EXCEPT !.type = t] : t \in {"Root", "Output", "Section", "None"}}
    \cup {[r EXCEPT !.flags = f] : f \in {{"LambdaOnly"}, {"LambdaOnly", "PartialIndent"}, {"other"}}}
    \cup {[r EXCEPT !.presence = @ \ {x}] : x \in {"data", "start", "original"}}
    \cup {[r EXCEPT !.presence = @ \cup {x}] : x \in {"data", "stop", "original", "other"}}
    \cup {[r EXCEPT !.data = s] : s \in NearSlices(r.data)}
    \cup {[r EXCEPT !.original = s] : s \in NearSlices(r.original)}
    \cup {[r EXCEPT !.start = s] : s \in NearSlices(r.start)}
    \cup {[r EXCEPT !.nextSibling = n] : n \in Near(r.nextSibling)}
ChangedGraph(g) ==
    UNION {{[g EXCEPT !.nodes[i] = r] : r \in ChangedRecord(g.nodes[i])} : i \in DOMAIN g.nodes}
    \cup UNION {{[g EXCEPT !.partials[k].name = s] : s \in NearSlices(g.partials[k].name)} : k \in DOMAIN g.partials}
    \cup {[g EXCEPT !.partials[k].root = 1] : k \in DOMAIN g.partials}
    \cup {[g EXCEPT !.magic = FALSE], [g EXCEPT !.version = "other"], [g EXCEPT !.nodes = <<>>]}
    \cup {[g EXCEPT !.size = n] : n \in Near(g.size)}
Bases ==
    {Intact(Graph(s.root, EffectivePartials(s.partials, s.overriding))).graph :
        s \in {Template(root, Map(a, Root(<<Text>>)), Map(ab, Root(<<>>)), TRUE) : root \in Trees}
              \cup {Template(Root(<<Indent, Partial>>), None, None, TRUE)}}
Holding(g) == [Intact(g) EXCEPT !.graph = g]

\* One thing of a frame changed, or two that go together, such that the changed vector
\* leads nowhere.
ChangedVector(v) ==
    {[v EXCEPT !.offset = n] : n \in {NullOffset, NullOffset + 1, -100, -24, 0, v.offset - 300, v.offset + 2, MaxOffset}}
    \cup {[v EXCEPT !.used = n] : n \in Near(v.used)} \cup {[v EXCEPT !.allocated = n] : n \in Near(v.allocated)}
    \cup {[v EXCEPT !.used = n, !.allocated = n] : n \in {0, 85, 86, 256, MaxSize \div 12, MaxSize \div 12 + 1, MaxSize}}
    \cup {[v EXCEPT !.self = TRUE]}
ChangedFrame(frame) ==
    {[frame EXCEPT ![field] = FALSE] : field \in {"magic", "generation", "fingerprint", "typeVersion", "checksum"}}
    \cup {[frame EXCEPT !.size = n] : n \in {0, 1, 23, 24, 25, 31, 32, 135, 136, frame.size - 1, frame.size + 1}}
    \cup UNION {{f \in {[frame EXCEPT !.vectors[t] = v] : v \in ChangedVector(frame.vectors[t])} : ~ValidVector(f, t)} :
                   t \in DOMAIN ElementSize}
\* More room than is needed, and strings that lie elsewhere in it.
Roomy(frame, moved) ==
    [frame EXCEPT !.size = @ + 5, !.graph.size = @ + 5,
              !.vectors.strings.offset = IF @ = NullOffset THEN @ ELSE @ + moved]
Frames(g) == ChangedFrame(Intact(g)) \cup {Roomy(Intact(g), n) : n \in {0, 3, 5, 6}}

MCArchives ==
    {Holding(g) : g \in TwoNodes \cup ThreeNodes \cup Bases \cup UNION {ChangedGraph(g) : g \in Bases}}
    \cup UNION {Frames(g) : g \in Bases}

Ample == [bytes |-> 2000, nesting |-> 4, nodes |-> 12, strings |-> 40, partsPerNode |-> 2, parts |-> 8]
MCLimits ==
    {Ample, [Ample EXCEPT !.nesting = 9], [Ample EXCEPT !.nesting = 2], [Ample EXCEPT !.partsPerNode = 1],
     [Ample EXCEPT !.nodes = 4], [Ample EXCEPT !.parts = 3], [Ample EXCEPT !.parts = 4], [Ample EXCEPT !.strings = 8], [Ample EXCEPT !.bytes = SizeOf(3, 1, 3)]}

=============================================================================
