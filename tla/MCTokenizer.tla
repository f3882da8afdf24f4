------------------------------ MODULE MCTokenizer ------------------------------
(* Every short template over a few lexemes, for model-checking Tokenizer. *)
EXTENDS TokenizerReference

Mustache == "{{}}"
Erb == "<%%>"
\* Stop delimiters that only an application can set: a newline, and a blank.
Lined == "{{ nl"
Spaced == "{{ blank"
MCPairs == {Mustache, Erb, Lined, Spaced}
MCDelimiterSize == [p \in MCPairs |-> IF p = Erb THEN 2 ELSE 1]

Lexeme(kind) ==
    [kind |-> kind, sigil |-> "", name |-> Null, triple |-> FALSE, pair |-> Null, size |-> 1, malformed |-> FALSE,
     tail |-> "solid"]
Tag(sigil, name) == [Lexeme("tag") EXCEPT !.sigil = sigil, !.name = name, !.pair = Mustache]
With(p, tag) == [tag EXCEPT !.pair = p]
Ending(tail, p, tag) == [tag EXCEPT !.pair = p, !.tail = tail]

SomeText == Lexeme("text")
Blank == Lexeme("blank")
Newline == Lexeme("nl")
Open == Lexeme("open")
Triple == [Tag("", "a") EXCEPT !.triple = TRUE]
TriplePartial == [Tag(">", "a") EXCEPT !.triple = TRUE]
Long == [Tag("&", "a") EXCEPT !.size = 2]
Empty == [Tag("", "a") EXCEPT !.malformed = TRUE]
ToErb == Tag("=", Erb)
Back == With(Erb, Tag("=", Mustache))

\* Lines: text, blanks and newlines around sections, partials, comments and values.
LineTemplates ==
    BoundedSeq({SomeText, Blank, Newline, Tag("#", "a"), Tag("/", "a"), Tag(">", "a"), Tag("", "a")}, 5)
        \cup {t \o u : t \in BoundedSeq({Blank, Newline, Tag("^", "a"), Tag("!", "a"), ToErb}, 3),
                       u \in BoundedSeq({Blank, Newline, With(Erb, Tag("#", "a")), TriplePartial, Tag("/", "a")}, 2)}
\* Tags: sections of two names and kinds, other delimiters, and tags that are fatal.
TagTemplates ==
    BoundedSeq({Tag("#", "a"), Tag("^", "b"), Tag("/", "a"), Tag("/", "b"), SomeText, Newline}, 5)
        \cup {t \o u : t \in BoundedSeq({ToErb, Back, Triple, Long, With(Erb, Tag("#", "a")), With(Erb, Tag("/", "a"))}, 3),
                       u \in {<<>>, <<Open>>, <<Empty>>, <<SomeText>>}}
\* Enough to leave other delimiters, open sections or text behind.
ReuseTemplates ==
    BoundedSeq({ToErb, Tag("", "a"), With(Erb, Tag("&", "a")), Tag("#", "a"), Tag("/", "a"), SomeText, Triple}, 2)
\* Tags that hold the end of their line, or also blanks of the next (content that ends in a
\* newline, then a blank as the delimiter).
LinedTemplates ==
    BoundedSeq({SomeText, Blank, Newline} \cup {Ending("newline", Lined, Tag(sigil, "a")) : sigil \in {"#", "/", ">", ""}}, 4)
SpacedTemplates ==
    BoundedSeq({Blank, Newline, With(Spaced, Tag(">", "a"))} \cup
               {Ending("indent", Spaced, Tag(sigil, "a")) : sigil \in {"#", "/", ">", ""}}, 4)
AllTemplates == LineTemplates \cup TagTemplates \cup ReuseTemplates \cup LinedTemplates \cup SpacedTemplates

MCLexemes ==
    {SomeText, Blank, Newline, Open, Triple, TriplePartial, Long, Empty, ToErb, Back} \cup
    {With(p, Tag(sigil, name)) : p \in {Mustache, Erb}, sigil \in {"", "&", "#", "^", "/", ">", "!"}, name \in {"a", "b"}} \cup
    {With(Spaced, Tag(">", "a"))} \cup
    {Ending(IF p = Lined THEN "newline" ELSE "indent", p, Tag(sigil, "a")) : p \in {Lined, Spaced}, sigil \in {"#", "/", ">", ""}}

Limits(i, nesting, n, tag, d) == [input |-> i, nesting |-> nesting, nodes |-> n, tag |-> tag, delimiter |-> d]
Roomy == {Limits(9, 9, 20, 2, 2)}
Tight == Roomy \cup {Limits(9, nesting, 20, 2, 2) : nesting \in 0..2} \cup {Limits(9, 9, n, 2, 2) : n \in {0, 3}}
         \cup {Limits(4, 9, 20, 2, 2), Limits(9, 9, 20, 1, 2), Limits(9, 9, 20, 2, 1), Limits(9, 9, 20, 2, 0)}
Reuse == {Limits(9, 9, 20, 2, 2), Limits(9, 9, 2, 2, 1)}
AllLimits == Tight \cup Reuse

\* An application that parses any template with a new tokenizer, or uses one again and again.
Reuses == calls = 0 \/ (template \in ReuseTemplates /\ limits \in Reuse)
Begins(ts, ls) == \E t \in ts, l \in ls : StartTokenize(t, l) \/ RejectAtOnce(t, l)
AgainNext ==
    \/ Scan \/ SetSequences \/ SetEscapeByDefault
    \/ ~scanning /\ UNCHANGED vars
    \/ ~scanning /\ calls = 0 /\ settings = <<TRUE, DefaultPair>> /\ Begins(LineTemplates, Roomy)
    \/ ~scanning /\ calls = 0 /\ settings = <<TRUE, DefaultPair>> /\ Begins(TagTemplates, Tight)
    \/ ~scanning /\ calls = 0 /\ settings = <<TRUE, Lined>> /\ Begins(LinedTemplates, Roomy)
    \/ ~scanning /\ calls = 0 /\ settings = <<TRUE, Spaced>> /\ Begins(SpacedTemplates, Roomy)
    \/ Idle /\ Reuses /\ Begins(ReuseTemplates, Reuse)
AgainSpec == Init /\ [][AgainNext]_vars

=============================================================================
