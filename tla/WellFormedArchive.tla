--------------------------- MODULE WellFormedArchive ---------------------------
(***************************************************************************)
(* What a graph must be to be an archive: disjoint trees that make up the  *)
(* whole of it, of records that are valid one by one.  Said of the         *)
(* references in the graph, without a walk.  And what keeps it within the  *)
(* application's limits.                                                   *)
(***************************************************************************)
EXTENDS ArchiveFormat

\* Every place that refers to a node.
References(g) ==
    {<<"root", 0>>} \cup {<<"partial", k>> : k \in DOMAIN g.partials}
    \cup {<<link, i>> : link \in {"firstChild", "nextSibling"}, i \in DOMAIN g.nodes}
Target(g, ref) ==
    CASE ref[1] = "root" -> g.root
      [] ref[1] = "partial" -> g.partials[ref[2]].root
      [] ref[1] = "firstChild" -> g.nodes[ref[2]].firstChild
      [] ref[1] = "nextSibling" -> g.nodes[ref[2]].nextSibling
RootsOf(g) == {g.root} \cup {g.partials[k].root : k \in DOMAIN g.partials}
LinksOf(g, i) == {g.nodes[i].firstChild, g.nodes[i].nextSibling} \ {0}
\* Links lead from the roots to every node: no smaller set is closed under them.
AllReached(g) ==
    \A S \in SUBSET DOMAIN g.nodes :
        RootsOf(g) \subseteq S /\ (\A i \in S : LinksOf(g, i) \subseteq S) => S = DOMAIN g.nodes
\* Disjoint trees that make up the graph: every node is referred to once, from a root on.
IsForest(g) ==
    /\ \A ref \in References(g) :
          Target(g, ref) \in DOMAIN g.nodes \/ (Target(g, ref) = 0 /\ ref[1] \in {"firstChild", "nextSibling"})
    /\ \A i \in DOMAIN g.nodes : \E ref \in References(g) : {r \in References(g) : Target(g, r) = i} = {ref}
    /\ AllReached(g)
    /\ \A i \in RootsOf(g) : g.nodes[i].nextSibling = 0

StringFields == {"data", "start", "stop", "original"}
ValidStrings(g, r) ==
    \A field \in StringFields :
        /\ field \in r.presence => \A k \in 1..r[field].length : r[field].offset + k \in DOMAIN g.strings
        /\ field \notin r.presence => r[field] = Absent
        /\ r[field].offset <= Len(g.strings)
ValidPresence(r) ==
    /\ r.presence \subseteq StringFields
    /\ "data" \in r.presence <=> r.type # "Root"
    /\ r.presence \ {"data"} \in
          (IF r.type = "Section" THEN {{}, {"original"}, {"start", "stop"}, {"start", "stop", "original"}} ELSE {{}})
ValidFlags(g, r) ==
    \/ r.flags \in {{}, {"Escape"}}
    \/ r.type = "Output" /\ r.flags = {"LambdaOnly"}
    \/ /\ r.type = "Output" /\ r.flags = {"LambdaOnly", "PartialIndent"}
       /\ Bytes(g, r.data) \in Seq(Blanks)
       /\ r.nextSibling # 0 /\ g.nodes[r.nextSibling].type = "Partial"
ValidRecord(g, r) ==
    /\ r.type \in SerializableTypes
    /\ r.firstChild # 0 => r.type \in TypesWithChildren
    /\ ValidPresence(r) /\ ValidStrings(g, r) /\ ValidFlags(g, r)
ValidNames(g) ==
    LET name(k) == Bytes(g, g.partials[k].name) IN
    /\ \A k \in DOMAIN g.partials : InTable(g, g.partials[k].name) /\ name(k) # <<>>
    /\ \A j, k \in DOMAIN g.partials : j < k => Less(name(j), name(k))

WellFormed(g) ==
    /\ g.magic /\ g.nodes # <<>>
    /\ IsForest(g) /\ g.nodes[g.root].type = "Root"
    /\ ValidNames(g) /\ \A i \in DOMAIN g.nodes : ValidRecord(g, g.nodes[i])

-----------------------------------------------------------------------------
(* Limits *)

\* How deep nodes lie: children one level below their parent, siblings on one level.
IsDepth(g, depth) ==
    /\ \A i \in RootsOf(g) : depth[i] = 0
    /\ \A i \in DOMAIN g.nodes :
          /\ g.nodes[i].firstChild # 0 => depth[g.nodes[i].firstChild] = depth[i] + 1
          /\ g.nodes[i].nextSibling # 0 => depth[g.nodes[i].nextSibling] = depth[i]
\* The number of first children on the way to a node.
Depths(g) ==
    LET depth[i \in DOMAIN g.nodes] ==
            LET ref == CHOOSE ref \in References(g) : Target(g, ref) = i IN
            CASE ref[1] = "firstChild" -> depth[ref[2]] + 1
              [] ref[1] = "nextSibling" -> depth[ref[2]]
              [] OTHER -> 0
    IN  depth
PartsIn(g, i) == Parts(g.nodes[i].type, Bytes(g, g.nodes[i].data))
\* The parts of these nodes' dotted names, one by one.
NameParts(g, nodes) == UNION {{i} \X (1..PartsIn(g, i)) : i \in nodes}
InLimits(g, l, depth) ==
    /\ Len(g.nodes) <= l.nodes /\ Len(g.strings) <= l.strings
    /\ \A i \in DOMAIN g.nodes : depth[i] < l.nesting /\ depth[i] < NestingCeiling
    /\ \A i \in DOMAIN g.nodes : PartsIn(g, i) <= l.partsPerNode
    /\ Cardinality(NameParts(g, DOMAIN g.nodes)) <= l.parts

=============================================================================
