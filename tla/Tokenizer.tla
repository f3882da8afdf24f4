-------------------------------- MODULE Tokenizer --------------------------------
(***************************************************************************)
(* Tokenizer::tokenize: one pass over a template that builds a tree and    *)
(* publishes it only if the whole template is well formed and within its   *)
(* limits.                                                                 *)
(*                                                                         *)
(* The scan loop goes character by character; a lexeme here is a run of    *)
(* characters it treats alike: text, a blank, a newline (LF or CRLF), a    *)
(* complete tag written with some pair of delimiters, or a start delimiter *)
(* that nothing closes.  Positions and lengths count lexemes.  The         *)
(* setters refuse only empty delimiters, so a stop delimiter may hold      *)
(* blanks and newlines: a tag has a tail, the line state that its own      *)
(* characters leave behind.  A start delimiter is taken to hold neither.   *)
(* The tree is the sequence of its nodes in the order of their creation,   *)
(* each with its parent; 0 is the root.                                    *)
(***************************************************************************)
EXTENDS Naturals, Sequences

CONSTANTS
    Lexemes,        \* what templates are made of
    Templates,      \* the lexeme sequences an application tokenizes
    LimitChoices,   \* Tokenizer::Limits
    DelimiterSize,  \* pair of delimiters -> the size of the longer one
    DefaultPair,    \* {{ and }}
    Pairs,          \* what the application passes to setStartSequence and setStopSequence
    Null,
    MaxCalls        \* bound: calls of tokenize

ASSUME TemplatesAssumption == Templates \subseteq Seq(Lexemes)
\* A tag ends in a character of the line it is on, in a newline, or in a newline and blanks.
Tails == {"solid", "newline", "indent"}
ASSUME LexemesAssumption == \A x \in Lexemes : x.triple \in BOOLEAN /\ x.tail \in Tails
ASSUME TokenizerLimitsAssumption ==
    LimitChoices \subseteq [input : Nat, nesting : Nat, nodes : Nat, tag : Nat, delimiter : Nat]
ASSUME DelimiterSizeAssumption == \A p \in {DefaultPair} \cup Pairs : DelimiterSize[p] \in Nat

VARIABLES
    root,           \* the caller's Node, less its partials, which parsing keeps
    escapes,        \* _escapeByDefault
    sequences,      \* _startSequence and _stopSequence
    scanning,       \* whether tokenize is running
    template, limits,
    pos,            \* the next lexeme
    pair,           \* start and stop
    buffer,         \* text since the last tag
    lineStart, linePrefixIsIndent,
    nodes,          \* parsedRoot's descendants
    nodeStack,      \* the open sections, the innermost last
    outcome, calls

settings == <<escapes, sequences>>
scan == <<pos, pair, buffer, lineStart, linePrefixIsIndent, nodes, nodeStack>>
vars == <<root, settings, scanning, template, limits, scan, outcome, calls>>

-----------------------------------------------------------------------------
(* Tags *)

Sections == {"Section", "Negate"}
StandaloneTypes == {"Section", "Negate", "Stop", "Comment", "Partial", "Delimiters"}
TypeOfSigil(sigil) ==
    CASE sigil = "#" -> "Section" [] sigil = "^" -> "Negate" [] sigil = "/" -> "Stop"
      [] sigil = "!" -> "Comment" [] sigil = ">" -> "Partial" [] sigil = "=" -> "Delimiters"
      [] OTHER -> "Variable"

\* Fault: & turns escaping off instead of over.
EscapesUnlessAmpersand(tag) == TypeOfSigil(tag.sigil) = "Variable" /\ tag.sigil # "&" /\ (tag.triple # escapes)
\* &, a triple mustache and the default each turn escaping over.
Escapes(tag) ==
    /\ TypeOfSigil(tag.sigil) = "Variable"
    /\ (tag.sigil = "&") # (tag.triple # escapes)

Current == template[pos]
Type == TypeOfSigil(Current.sigil)
\* A tag in other delimiters is text.
AtTag == Current.kind = "tag" /\ Current.pair = pair

-----------------------------------------------------------------------------
(* Standalone lines *)

\* standaloneLineEnd: the last lexeme of the line, if only blanks come before it.
LineEnds(from) ==
    {e \in from..Len(template) :
        /\ template[e].kind = "nl" \/ (e = Len(template) /\ template[e].kind = "blank")
        /\ \A i \in from..(e - 1) : template[i].kind = "blank"}
    \cup {e \in {from - 1} : e = Len(template)}

\* A triple mustache is never standalone, whatever its sigil.
IsStandalone ==
    ~Current.triple /\ Type \in StandaloneTypes /\ linePrefixIsIndent /\ LineEnds(pos + 1) # {}
\* The last lexeme a tag consumes.
TagEnd == IF IsStandalone THEN CHOOSE e \in LineEnds(pos + 1) : TRUE ELSE pos

-----------------------------------------------------------------------------
(* Nodes *)

Innermost(stack) == IF stack = <<>> THEN 0 ELSE stack[Len(stack)]
Parent == Innermost(nodeStack)
\* An output node holds the text it stands for (escapeOutput escapes the last one).
Output(parent, text) ==
    [type |-> "Output", name |-> Null, text |-> text, escape |-> FALSE, lambdaOnly |-> FALSE, indent |-> FALSE,
     parent |-> parent, pair |-> Null, begin |-> 0, length |-> 0]
SourceOnly(parent, text, indent) == [Output(parent, text) EXCEPT !.lambdaOnly = TRUE, !.indent = indent]
TagNode ==
    [Output(Parent, <<>>) EXCEPT
        !.type = Type, !.name = Current.name, !.escape = Escapes(Current),
        !.pair = IF Type = "Section" THEN pair ELSE Null,
        !.begin = IF Type = "Section" THEN pos + 1 ELSE 0]
UnlessEmpty(node) == IF node.text = <<>> THEN <<>> ELSE <<node>>

\* Fault: an empty indentation leaves no boundary marker.
MarkerUnlessEmpty ==
    IF IsStandalone THEN UnlessEmpty(SourceOnly(Parent, SubSeq(template, lineStart, pos - 1), Type = "Partial")) ELSE <<>>
\* Fault: every standalone tag passes its indentation on.
MarkerIndenting ==
    IF IsStandalone THEN <<SourceOnly(Parent, SubSeq(template, lineStart, pos - 1), TRUE)>> ELSE <<>>
\* The indentation of a standalone tag, kept even when it is empty.
Marker ==
    IF IsStandalone THEN <<SourceOnly(Parent, SubSeq(template, lineStart, pos - 1), Type = "Partial")>> ELSE <<>>
\* The text before the tag, less that indentation.
OutputBeforeTag == IF IsStandalone THEN SubSeq(buffer, 1, Len(buffer) - (pos - lineStart)) ELSE buffer

\* A closing tag measures the source of its section.
SectionSource ==
    IF Type = "Stop" /\ nodes[Parent].type = "Section"
    THEN [nodes EXCEPT ![Parent].length = pos - nodes[Parent].begin] ELSE nodes

-----------------------------------------------------------------------------
(* The scan *)

\* A tag with a tail is one lexeme for its own delimiters only: for others the newline in it
\* is a lexeme of its own.  A delimiter tag cannot name them: its content is split at blanks.
Lexed(t) ==
    \A i \in DOMAIN t : t[i].tail # "solid" => t[i].pair = sequences /\ \A j \in 1..(i - 1) : t[j].sigil # "="

\* Fault: the scan begins with the delimiters the last one ended with.
StartTokenizeAgain(t, l) ==
    /\ calls' = calls + 1
    /\ template' = t /\ limits' = l
    /\ pos' = 1 /\ buffer' = <<>> /\ lineStart' = 1 /\ linePrefixIsIndent' = TRUE
    /\ nodes' = <<>> /\ nodeStack' = <<>>
    /\ scanning' = TRUE /\ outcome' = "none"
    /\ UNCHANGED <<root, settings, pair>>
StartTokenize(t, l) ==
    /\ Lexed(t)
    /\ calls' = calls + 1
    /\ Len(t) <= l.input /\ DelimiterSize[sequences] <= l.delimiter
    /\ template' = t /\ limits' = l
    /\ pos' = 1 /\ pair' = sequences /\ buffer' = <<>> /\ lineStart' = 1 /\ linePrefixIsIndent' = TRUE
    /\ nodes' = <<>> /\ nodeStack' = <<>>
    /\ scanning' = TRUE /\ outcome' = "none"
    /\ UNCHANGED <<root, settings>>
RejectAtOnce(t, l) ==
    /\ calls' = calls + 1
    /\ Len(t) > l.input \/ DelimiterSize[sequences] > l.delimiter
    /\ template' = t /\ limits' = l
    /\ outcome' = "rejected"
    /\ UNCHANGED <<root, settings, scanning, scan>>

\* Fault: the caller's root is filled in as the scan goes.
RejectKeepingNodes ==
    /\ scanning' = FALSE /\ outcome' = "rejected"
    /\ root' = nodes
    /\ UNCHANGED <<settings, template, limits, scan, calls>>
\* An exception leaves nothing behind but the caller's root.
Reject ==
    /\ scanning' = FALSE /\ outcome' = "rejected"
    /\ UNCHANGED <<root, settings, template, limits, scan, calls>>

\* Fault: blanks after text still indent.
TextKeepsIndent ==
    /\ scanning /\ pos <= Len(template) /\ Current.kind # "open" /\ ~AtTag
    /\ buffer' = Append(buffer, Current) /\ pos' = pos + 1
    /\ IF Current.kind = "nl"
       THEN lineStart' = pos + 1 /\ linePrefixIsIndent' = TRUE
       ELSE lineStart' = lineStart /\ linePrefixIsIndent' = (Current.kind = "blank")
    /\ UNCHANGED <<root, settings, scanning, template, limits, pair, nodes, nodeStack, outcome, calls>>
ReadText ==
    /\ scanning /\ pos <= Len(template) /\ Current.kind # "open" /\ ~AtTag
    /\ buffer' = Append(buffer, Current) /\ pos' = pos + 1
    /\ IF Current.kind = "nl"
       THEN lineStart' = pos + 1 /\ linePrefixIsIndent' = TRUE
       ELSE lineStart' = lineStart /\ linePrefixIsIndent' = (linePrefixIsIndent /\ Current.kind = "blank")
    /\ UNCHANGED <<root, settings, scanning, template, limits, pair, nodes, nodeStack, outcome, calls>>

\* Fault: one section too many may be open.
RoomForSectionOffByOne == Len(nodeStack) <= limits.nesting
RoomForSection == Len(nodeStack) < limits.nesting
Closes == nodeStack # <<>> /\ nodes[Parent].name = Current.name
\* What makes a recognized tag fatal, apart from the number of nodes.  Of the indentation
\* before a standalone tag, what belongs to the tag before it was never buffered.
Acceptable ==
    /\ IsStandalone => pos - lineStart <= Len(buffer)
    /\ Current.size <= limits.tag /\ ~Current.malformed
    /\ Type = "Delimiters" => DelimiterSize[Current.name] <= limits.delimiter
    /\ Type \in Sections => RoomForSection
    /\ Type = "Stop" => Closes

\* The section a tag opens comes after the nodes flushed before it.
Opened(leading) == Len(nodes) + Len(leading) + 1

\* A tag flushes the text before it, less the indentation of a standalone tag,
\* which becomes a source-only node, as does the rest of its line.
ReadTag ==
    /\ scanning /\ pos <= Len(template) /\ AtTag
    /\ LET leading == UnlessEmpty(Output(Parent, OutputBeforeTag)) \o Marker
           stack == CASE Type \in Sections -> Append(nodeStack, Opened(leading))
                      [] Type = "Stop" -> SubSeq(nodeStack, 1, Len(nodeStack) - 1)
                      [] OTHER -> nodeStack
           rest == SubSeq(template, pos + 1, TagEnd)
           all == SectionSource \o leading \o (IF Type = "Delimiters" THEN <<>> ELSE <<TagNode>>)
                      \o UnlessEmpty(SourceOnly(Innermost(stack), rest, FALSE))
           fits == Acceptable /\ Len(all) <= limits.nodes
       IN \/ ~fits /\ Reject
          \/ /\ fits
             /\ nodes' = all /\ nodeStack' = stack
             /\ pair' = IF Type = "Delimiters" THEN Current.name ELSE pair
             /\ buffer' = <<>> /\ pos' = TagEnd + 1
             /\ linePrefixIsIndent' = IF rest = <<>> THEN Current.tail # "solid" ELSE rest[Len(rest)].kind = "nl"
             /\ lineStart' = IF ~linePrefixIsIndent' THEN lineStart
                             ELSE IF rest = <<>> /\ Current.tail = "indent" THEN pos ELSE TagEnd + 1
             /\ UNCHANGED <<root, settings, scanning, template, limits, outcome, calls>>

UnclosedTag == scanning /\ pos <= Len(template) /\ Current.kind = "open" /\ Reject

Finish ==
    /\ scanning /\ pos > Len(template)
    /\ LET all == nodes \o UnlessEmpty(Output(Parent, buffer))
           fits == nodeStack = <<>> /\ Len(all) <= limits.nodes
       IN \/ ~fits /\ Reject
          \/ /\ fits
             /\ root' = all
             /\ scanning' = FALSE /\ outcome' = "accepted"
             /\ UNCHANGED <<settings, template, limits, scan, calls>>

Idle == ~scanning /\ calls < MaxCalls
SetSequences ==
    /\ Idle /\ sequences' \in Pairs
    /\ outcome' = "none"
    /\ UNCHANGED <<root, escapes, scanning, template, limits, scan, calls>>
SetEscapeByDefault ==
    /\ Idle /\ escapes' \in BOOLEAN
    /\ outcome' = "none"
    /\ UNCHANGED <<root, sequences, scanning, template, limits, scan, calls>>

-----------------------------------------------------------------------------
Init ==
    /\ root = Null /\ escapes = TRUE /\ sequences = DefaultPair
    /\ scanning = FALSE /\ outcome = "none" /\ calls = 0
    /\ template = <<>> /\ limits = CHOOSE l \in LimitChoices : TRUE
    /\ pos = 1 /\ pair = DefaultPair /\ buffer = <<>>
    /\ lineStart = 1 /\ linePrefixIsIndent = TRUE
    /\ nodes = <<>> /\ nodeStack = <<>>

Scan == ReadText \/ ReadTag \/ UnclosedTag \/ Finish
\* The application stops at the bound.
Stop == ~scanning /\ calls = MaxCalls /\ UNCHANGED vars
Next ==
    \/ Scan \/ Stop \/ SetSequences \/ SetEscapeByDefault
    \/ Idle /\ \E t \in Templates, l \in LimitChoices : StartTokenize(t, l) \/ RejectAtOnce(t, l)

Spec == Init /\ [][Next]_vars

-----------------------------------------------------------------------------
(* Properties *)

\* The code's own internal error, "Invalid standalone parser state" (tokenizer.cpp:363),
\* has one cause: whenever the scan takes the line so far for indentation, either that
\* indentation is the end of the text that no tag has flushed yet, or the line began in
\* the blanks that end the tag before it, and only the rest of it is buffered.
Buffered(from) ==
    /\ from <= pos /\ pos - from <= Len(buffer)
    /\ SubSeq(buffer, Len(buffer) - (pos - from) + 1, Len(buffer)) = SubSeq(template, from, pos - 1)
BeganInTag ==
    /\ lineStart \in DOMAIN template /\ template[lineStart].kind = "tag" /\ template[lineStart].tail = "indent"
    /\ Len(buffer) = pos - (lineStart + 1) /\ Buffered(lineStart + 1)
PrefixIsBuffered == scanning /\ linePrefixIsIndent => Buffered(lineStart) \/ BeganInTag

\* What the renderer demands of indentation metadata (validatePartialIndentation): a
\* partial of the same parent follows it at once.  No template can make it fail, neither
\* during the scan nor in the tree it publishes.
IndentsPartials(tree) ==
    \A k \in DOMAIN tree : tree[k].indent =>
        k + 1 \in DOMAIN tree /\ tree[k + 1].type = "Partial" /\ tree[k + 1].parent = tree[k].parent
MetadataPrecedesPartial == IndentsPartials(nodes) /\ (outcome = "accepted" => IndentsPartials(root))

\* The nodes on the way from the root to k, both included.
PathLength[k \in {0} \cup DOMAIN root] == IF k = 0 THEN 1 ELSE 1 + PathLength[root[k].parent]
\* "Default serialization permits 64 nodes along a root-to-leaf path" (tokenizer.cpp:91):
\* nesting limit + 2 of them are enough for any tree, the closing tag included.
PathsFitSerializer == outcome = "accepted" => \A k \in DOMAIN root : PathLength[k] <= limits.nesting + 2

\* tokenize is transactional: the caller's root changes only with a whole template
\* accepted, and a rejection, however late, leaves it as it was.
RejectionKeepsRoot == [][(root' # root => outcome' = "accepted") /\ (outcome' = "rejected" => root' = root)]_vars

=============================================================================
