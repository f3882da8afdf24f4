--------------------------- MODULE TokenizerReference ---------------------------
(***************************************************************************)
(* What a template means, said about its lexemes and their positions       *)
(* instead of by a scan: a line is standalone when blanks and one tag are  *)
(* all it holds, sections are found by counting brackets, and the tree     *)
(* lists, for every tag, the text before it, the marker of a standalone    *)
(* line, the tag and the rest of that line.                                *)
(***************************************************************************)
EXTENDS Tokenizer, SequencesExt

Positions == DOMAIN template
\* The delimiters in force at a position.
PairAt[i \in 1..(Len(template) + 1)] ==
    IF i = 1 THEN sequences
    ELSE IF /\ template[i - 1].kind = "tag" /\ template[i - 1].pair = PairAt[i - 1]
            /\ TypeOfSigil(template[i - 1].sigil) = "Delimiters"
         THEN template[i - 1].name ELSE PairAt[i - 1]
Tags == {i \in Positions : template[i].kind = "tag" /\ template[i].pair = PairAt[i]}
TagType(i) == TypeOfSigil(template[i].sigil)

\* The positions on the line of the tag i: a newline belongs to the line it ends, and so
\* does a tag that holds one at its end.
EndsLine(k, tags) == template[k].kind = "nl" \/ (k \in tags /\ template[k].tail # "solid")
Line(i, tags) ==
    {j \in Positions : \A k \in Positions : (i < k /\ k < j) \/ (j <= k /\ k < i) => ~EndsLine(k, tags)}
Standalone(i, tags) ==
    /\ TypeOfSigil(template[i].sigil) \in StandaloneTypes /\ ~template[i].triple
    /\ \A j \in Line(i, tags) \ {i} : j \notin tags /\ template[j].kind \in {"blank", "nl"}

\* Brackets: i opens a section that is still open when the tag or text j begins.
Openings(tags, i, j) == Cardinality({k \in tags : i <= k /\ k <= j /\ TagType(k) \in Sections})
Closings(tags, i, j) == Cardinality({k \in tags : i <= k /\ k <= j /\ TagType(k) = "Stop"})
Enclosing(tags, j) ==
    {i \in tags : i < j /\ TagType(i) \in Sections /\ \A k \in i..(j - 1) : Openings(tags, i, k) > Closings(tags, i, k)}
ParentOf(tags, j) == Max({0} \cup Enclosing(tags, j))
EndOf(tags, i) == {j \in tags : TagType(j) = "Stop" /\ ParentOf(tags, j) = i}

\* The line of a standalone tag may not begin with blanks of the tag before it.
Indented(tags, i) == \A k \in tags : k < i /\ k + 1 \in Line(i, tags) => template[k].tail # "indent"

WellFormed(tags) ==
    /\ \A i \in Positions : template[i].kind # "open"
    /\ \A i \in tags :
          /\ ~template[i].malformed /\ template[i].size <= limits.tag
          /\ Standalone(i, tags) => Indented(tags, i)
          /\ TagType(i) = "Delimiters" => DelimiterSize[template[i].name] <= limits.delimiter
          /\ TagType(i) \in Sections =>
                Cardinality(Enclosing(tags, i)) < limits.nesting /\ EndOf(tags, i) # {}
          /\ TagType(i) = "Stop" =>
                Enclosing(tags, i) # {} /\ template[ParentOf(tags, i)].name = template[i].name

\* The lines that are hidden, and the text a tag or the end of the template comes after.
Standalones(tags) == {i \in tags : Standalone(i, tags)}
Hidden(tags) == UNION {Line(i, tags) : i \in Standalones(tags)}
TextBefore(tags, j) == {k \in Positions : k < j /\ \A i \in k..(j - 1) : i \notin tags} \ Hidden(tags)
RestOf(tags, i) == {j \in Line(i, tags) : j > i}
\* Where the tree has a node: the text before a tag or the end, a tag that is not about
\* delimiters, and the rest of a standalone line; its indentation always has one.
TextSites(tags) == {j \in tags \cup {Len(template) + 1} : TextBefore(tags, j) # {}}
TagSites(tags) == {i \in tags : TagType(i) # "Delimiters"}
RestSites(tags) == {i \in Standalones(tags) : RestOf(tags, i) # {}}
Size(tags) ==
    Cardinality(TextSites(tags)) + Cardinality(Standalones(tags)) + Cardinality(TagSites(tags))
        + Cardinality(RestSites(tags))

Admitted ==
    /\ Len(template) <= limits.input /\ DelimiterSize[sequences] <= limits.delimiter
    /\ WellFormed(Tags) /\ Size(Tags) <= limits.nodes

\* The tree lists its nodes by position, and at one position the text before a tag, the
\* indentation of its line, the tag and the rest of the line: parts 1 to 4.  The index of a
\* node is how many there are up to it.
Index(tags, at, part) ==
    LET upTo(sites, k) == Cardinality({i \in sites : i < at \/ (i = at /\ k <= part)})
    IN upTo(TextSites(tags), 1) + upTo(Standalones(tags), 2) + upTo(TagSites(tags), 3) + upTo(RestSites(tags), 4)
\* The index of the section that what begins at j lies in.
ParentIndex(tags, j) == IF ParentOf(tags, j) = 0 THEN 0 ELSE Index(tags, ParentOf(tags, j), 3)
\* The lexemes at some positions, in their order.
Text(positions) ==
    [k \in 1..Cardinality(positions) |->
        template[CHOOSE i \in positions : Cardinality({j \in positions : j <= i}) = k]]

TextNode(tags, j) == Output(ParentIndex(tags, j), Text(TextBefore(tags, j)))
MarkerNode(tags, i) ==
    SourceOnly(ParentIndex(tags, i), Text({j \in Line(i, tags) : j < i}), TagType(i) = "Partial")
RestNode(tags, i) == SourceOnly(ParentIndex(tags, i + 1), Text(RestOf(tags, i)), FALSE)
\* A value is escaped when an odd number of &, a triple mustache and the default say so, and a
\* section holds the source up to its end.
NodeOfTag(tags, i) ==
    LET odd == {<<TRUE, FALSE, FALSE>>, <<FALSE, TRUE, FALSE>>, <<FALSE, FALSE, TRUE>>, <<TRUE, TRUE, TRUE>>}
        inside == {j \in Positions : i < j /\ \A e \in EndOf(tags, i) : j < e}
    IN [Output(ParentIndex(tags, i), <<>>) EXCEPT
            !.type = TagType(i), !.name = template[i].name,
            !.escape = TagType(i) = "Variable" /\ <<template[i].sigil = "&", template[i].triple, escapes>> \in odd,
            !.pair = IF TagType(i) = "Section" THEN PairAt[i] ELSE Null,
            !.begin = IF TagType(i) = "Section" THEN i + 1 ELSE 0,
            !.length = IF TagType(i) = "Section" THEN Cardinality(inside) ELSE 0]

IsTreeOf(tree, tags) ==
    /\ Len(tree) = Size(tags)
    /\ \A j \in TextSites(tags) : tree[Index(tags, j, 1)] = TextNode(tags, j)
    /\ \A i \in Standalones(tags) : tree[Index(tags, i, 2)] = MarkerNode(tags, i)
    /\ \A i \in TagSites(tags) : tree[Index(tags, i, 3)] = NodeOfTag(tags, i)
    /\ \A i \in RestSites(tags) : tree[Index(tags, i, 4)] = RestNode(tags, i)

-----------------------------------------------------------------------------
(* Properties *)

\* A template is accepted exactly when it is well formed and its tree fits the limits,
\* whatever the tokenizer parsed before.
AcceptsExactly == (outcome = "accepted" => Admitted) /\ (outcome = "rejected" => ~Admitted)

\* The published tree is the template's: no text is lost, doubled or moved to another
\* section, and exactly the blanks and newlines of standalone lines are hidden.
TreeIsTheTemplates == outcome = "accepted" => IsTreeOf(root, Tags)

=============================================================================
