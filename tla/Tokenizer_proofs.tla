---------------------------- MODULE Tokenizer_proofs ----------------------------
(***************************************************************************)
(* Theorems about Tokenizer, for every template, setting and limit.        *)
(***************************************************************************)
EXTENDS TokenizerReference, SequenceTheorems, FiniteSetTheorems, FunctionTheorems, WellFoundedInduction, TLAPS

-----------------------------------------------------------------------------
(* Rejection *)

\* tokenize is transactional (tokenizer.cpp: the root is filled in last): whatever way a
\* parse fails in, the caller's root is what it was, and only acceptance replaces it.
THEOREM RejectionsKeepRoot == Spec => RejectionKeepsRoot
<1>1. [Next]_vars => [(root' # root => outcome' = "accepted") /\ (outcome' = "rejected" => root' = root)]_vars
  <2> SUFFICES ASSUME Next PROVE (root' # root => outcome' = "accepted") /\ (outcome' = "rejected" => root' = root)
    OBVIOUS
  <2>1. CASE ReadText \/ UnclosedTag
    BY <2>1 DEF ReadText, UnclosedTag, Reject
  <2>2. CASE ReadTag
    BY <2>2 DEF ReadTag, Reject
  <2>3. CASE Finish
    BY <2>3 DEF Finish, Reject
  <2>4. CASE Stop
    BY <2>4 DEF Stop, vars
  <2>5. CASE SetSequences \/ SetEscapeByDefault
    BY <2>5 DEF SetSequences, SetEscapeByDefault
  <2>6. ASSUME NEW t \in Templates, NEW l \in LimitChoices, StartTokenize(t, l) \/ RejectAtOnce(t, l)
        PROVE  (root' # root => outcome' = "accepted") /\ (outcome' = "rejected" => root' = root)
    BY <2>6 DEF StartTokenize, RejectAtOnce
  <2> QED BY <2>1, <2>2, <2>3, <2>4, <2>5, <2>6 DEF Next, Scan
<1> QED BY <1>1, PTL DEF Spec, RejectionKeepsRoot

-----------------------------------------------------------------------------
(* The text that no tag has flushed yet *)

\* What the scan knows of its position, the line and the buffer.
TextInv ==
    /\ template \in Seq(Lexemes) /\ buffer \in Seq(Lexemes)
    /\ pos \in 1..(Len(template) + 1) /\ lineStart \in Nat \ {0}
    /\ PrefixIsBuffered
TextFits == scanning => TextInv

LEMMA EmptyLine ==
    ASSUME NEW s, NEW t, NEW p \in Nat \ {0}, s \in Seq(Lexemes)
    PROVE  p - p <= Len(s) /\ SubSeq(s, Len(s) - (p - p) + 1, Len(s)) = SubSeq(t, p, p - 1)
<1>1. p - p = 0 /\ Len(s) \in Nat /\ Len(s) - (p - p) + 1 = Len(s) + 1 /\ p - 1 < p /\ Len(s) < Len(s) + 1
  OBVIOUS
<1>2. SubSeq(s, Len(s) + 1, Len(s)) = <<>> /\ SubSeq(t, p, p - 1) = <<>>
  BY <1>1, SubSeqEmpty
<1> QED BY <1>1, <1>2

LEMMA LongerLine ==
    ASSUME NEW t \in Seq(Lexemes), NEW s \in Seq(Lexemes), NEW p \in 1..Len(t), NEW b \in 1..p, p - b <= Len(s),
           SubSeq(s, Len(s) - (p - b) + 1, Len(s)) = SubSeq(t, b, p - 1)
    PROVE  LET s2 == Append(s, t[p]) IN
           /\ (p + 1) - b <= Len(s2)
           /\ SubSeq(s2, Len(s2) - ((p + 1) - b) + 1, Len(s2)) = SubSeq(t, b, (p + 1) - 1)
<1>n. PICK n : n = Len(s)
  OBVIOUS
<1>s. PICK s2 : s2 = Append(s, t[p])
  OBVIOUS
<1>k. PICK k : k = p - b
  OBVIOUS
<1>1. /\ n \in Nat /\ k \in Nat /\ k <= n /\ Len(s2) = n + 1 /\ s2 \in Seq(Lexemes) /\ s2[n + 1] = t[p]
      /\ \A i \in 1..n : s2[i] = s[i]
  BY <1>n, <1>s, <1>k
<1>2. (n + 1) - ((p + 1) - b) + 1 = n - k + 1 /\ (p + 1) - 1 = p /\ n - k + 1 \in 1..(n + 1)
  BY <1>1, <1>k
<1>3. SubSeq(s, n - k + 1, n) = SubSeq(t, b, p - 1)
  BY <1>n, <1>k
<1>4. \A i \in 1..k : s[(n - k + 1) + i - 1] = t[b + i - 1]
  <2>1. n - k + 1 \in Int /\ n \in Int /\ b \in Int /\ p - 1 \in Int
        /\ (\A i \in (n - k + 1)..n : s[i] \in Lexemes) /\ (\A i \in b..(p - 1) : t[i] \in Lexemes)
    BY <1>1, <1>n, SMTT(30)
  <2>2. \A i \in 1..(n - (n - k + 1) + 1) : SubSeq(s, n - k + 1, n)[i] = s[(n - k + 1) + i - 1]
    BY <2>1, SubSeqProperties
  <2>3. \A i \in 1..((p - 1) - b + 1) : SubSeq(t, b, p - 1)[i] = t[b + i - 1]
    BY <2>1, SubSeqProperties
  <2>4. n - (n - k + 1) + 1 = k /\ (p - 1) - b + 1 = k
    BY <1>1, <1>k
  <2> QED BY <1>3, <2>2, <2>3, <2>4
<1>5. SubSeq(s2, n - k + 1, n + 1) = SubSeq(t, b, p)
  <2>1. /\ n - k + 1 \in Int /\ n + 1 \in Int /\ b \in Int /\ p \in Int
        /\ (\A i \in (n - k + 1)..(n + 1) : s2[i] \in Lexemes) /\ (\A i \in b..p : t[i] \in Lexemes)
        /\ n - k + 1 <= n + 1 /\ b <= p
    BY <1>1
  <2>2. /\ SubSeq(s2, n - k + 1, n + 1) \in Seq(Lexemes) /\ Len(SubSeq(s2, n - k + 1, n + 1)) = (n + 1) - (n - k + 1) + 1
        /\ \A i \in 1..((n + 1) - (n - k + 1) + 1) : SubSeq(s2, n - k + 1, n + 1)[i] = s2[(n - k + 1) + i - 1]
    BY <2>1, SubSeqProperties
  <2>3. /\ SubSeq(t, b, p) \in Seq(Lexemes) /\ Len(SubSeq(t, b, p)) = p - b + 1
        /\ \A i \in 1..(p - b + 1) : SubSeq(t, b, p)[i] = t[b + i - 1]
    BY <2>1, SubSeqProperties
  <2>4. (n + 1) - (n - k + 1) + 1 = k + 1 /\ p - b + 1 = k + 1
    BY <1>1, <1>k
  <2>5. ASSUME NEW i \in 1..(k + 1) PROVE s2[(n - k + 1) + i - 1] = t[b + i - 1]
    <3>1. CASE i = k + 1
      <4>1. (n - k + 1) + i - 1 = n + 1 /\ b + i - 1 = p
        BY <1>1, <1>k, <3>1
      <4> QED BY <4>1, <1>1
    <3>2. CASE i # k + 1
      <4>1. i \in 1..k /\ (n - k + 1) + i - 1 \in 1..n
        BY <1>1, <3>2
      <4> QED BY <4>1, <1>1, <1>4
    <3> QED BY <3>1, <3>2
  <2> QED BY <2>2, <2>3, <2>4, <2>5, SeqEqual
<1>6. (p + 1) - b <= n + 1
  BY <1>1, <1>k
<1> QED BY <1>1, <1>2, <1>5, <1>6, <1>s

\* A tag consumes at least itself and at most the rest of the template.
LEMMA TagEnds ==
    ASSUME TextInv, pos <= Len(template)
    PROVE  TagEnd \in pos..Len(template)
<1>1. LineEnds(pos + 1) \subseteq pos..Len(template)
  <2>1. pos \in Nat /\ Len(template) \in Nat /\ (pos + 1) - 1 = pos
    BY DEF TextInv
  <2> QED BY <2>1 DEF LineEnds
<1>2. CASE IsStandalone
  <2>1. LineEnds(pos + 1) # {}
    BY <1>2 DEF IsStandalone
  <2>2. TagEnd \in LineEnds(pos + 1)
    BY <1>2, <2>1 DEF TagEnd
  <2> QED BY <1>1, <2>2
<1>3. CASE ~IsStandalone
  BY <1>3 DEF TagEnd, TextInv
<1> QED BY <1>2, <1>3

LEMMA TextStaysBuffered ==
    ASSUME TextInv, ReadText, NEW b \in Nat \ {0}, Buffered(b)
    PROVE  Buffered(b)'
<1>1. /\ pos \in 1..Len(template) /\ template' = template /\ pos' = pos + 1
      /\ buffer' = Append(buffer, template[pos])
  BY DEF TextInv, ReadText, Current
<1>2. /\ b \in 1..pos /\ pos - b <= Len(buffer)
      /\ SubSeq(buffer, Len(buffer) - (pos - b) + 1, Len(buffer)) = SubSeq(template, b, pos - 1)
  BY <1>1 DEF Buffered
<1>3. /\ (pos + 1) - b <= Len(buffer')
      /\ SubSeq(buffer', Len(buffer') - ((pos + 1) - b) + 1, Len(buffer')) = SubSeq(template, b, (pos + 1) - 1)
  BY <1>1, <1>2, LongerLine DEF TextInv
<1>4. /\ pos' - b <= Len(buffer')
      /\ SubSeq(buffer', Len(buffer') - (pos' - b) + 1, Len(buffer')) = SubSeq(template', b, pos' - 1)
  BY <1>1, <1>3, Zenon
<1>5. b <= pos'
  BY <1>1, <1>2
<1> QED BY <1>4, <1>5 DEF Buffered

LEMMA ReadTextKeepsPrefix == ASSUME TextInv, ReadText PROVE TextInv'
<1>1. /\ pos \in 1..Len(template) /\ pos + 1 \in 1..(Len(template) + 1) /\ template' = template /\ pos' = pos + 1
      /\ buffer' = Append(buffer, template[pos]) /\ template[pos] \in Lexemes /\ scanning
      /\ buffer \in Seq(Lexemes)
  BY DEF TextInv, ReadText, Current
<1>2. template' \in Seq(Lexemes) /\ buffer' \in Seq(Lexemes) /\ pos' \in 1..(Len(template') + 1)
  BY <1>1 DEF TextInv
<1>3. CASE Current.kind = "nl"
  <2>1. lineStart' = pos + 1
    BY <1>3 DEF ReadText
  <2>2. pos' - lineStart' <= Len(buffer') /\ SubSeq(buffer', Len(buffer') - (pos' - lineStart') + 1, Len(buffer')) = SubSeq(template', lineStart', pos' - 1)
    BY <1>1, <1>2, <2>1, EmptyLine
  <2>3. lineStart' <= pos' /\ lineStart' \in Nat \ {0}
    BY <1>1, <2>1
  <2> QED BY <1>2, <2>2, <2>3 DEF TextInv, PrefixIsBuffered, Buffered
<1>4. CASE Current.kind # "nl"
  <2>1. lineStart' = lineStart /\ (linePrefixIsIndent' => linePrefixIsIndent)
    BY <1>4 DEF ReadText
  <2>2. lineStart' \in Nat \ {0}
    BY <2>1 DEF TextInv
  <2>3. CASE linePrefixIsIndent /\ Buffered(lineStart)
    <3>b. PICK b \in Nat \ {0} : b = lineStart
      BY DEF TextInv
    <3>1. Buffered(b)
      BY <2>3, <3>b
    <3>2. Buffered(b)'
      BY <3>1, TextStaysBuffered
    <3>3. Buffered(lineStart)'
      BY <2>1, <3>b, <3>2
    <3> QED BY <1>2, <2>2, <3>3 DEF TextInv, PrefixIsBuffered
  <2>4. CASE linePrefixIsIndent /\ BeganInTag
    <3>b. PICK b \in Nat \ {0} : b = lineStart + 1
      BY DEF TextInv
    <3>1. Buffered(b)
      BY <2>4, <3>b DEF BeganInTag
    <3>2. Buffered(b)'
      BY <3>1, TextStaysBuffered
    <3>3. Buffered(lineStart + 1)'
      BY <2>1, <3>b, <3>2
    <3>4. lineStart \in DOMAIN template /\ template[lineStart].kind = "tag" /\ template[lineStart].tail = "indent"
      BY <2>4 DEF BeganInTag
    <3>5. Len(buffer) = pos - (lineStart + 1) /\ lineStart \in Nat
      BY <2>4 DEF BeganInTag, TextInv
    <3>6. Len(buffer') = Len(buffer) + 1
      BY <1>1
    <3>7. Len(buffer') = pos' - (lineStart' + 1)
      BY <1>1, <2>1, <3>5, <3>6
    <3>8. BeganInTag'
      BY <1>1, <2>1, <3>3, <3>4, <3>7 DEF BeganInTag
    <3> QED BY <1>2, <2>2, <3>8 DEF TextInv, PrefixIsBuffered
  <2>5. CASE ~linePrefixIsIndent
    BY <1>2, <2>1, <2>2, <2>5 DEF TextInv, PrefixIsBuffered
  <2> QED BY <1>1, <2>3, <2>4, <2>5 DEF TextInv, PrefixIsBuffered
<1> QED BY <1>3, <1>4

\* The rest of a line is empty exactly when the tag is the last lexeme it consumes.
LEMMA RestIsEmpty ==
    ASSUME TextInv, pos <= Len(template)
    PROVE  SubSeq(template, pos + 1, TagEnd) = <<>> <=> TagEnd = pos
<1>e. PICK e : e = TagEnd
  OBVIOUS
<1>1. e \in pos..Len(template) /\ pos \in Nat /\ template \in Seq(Lexemes) /\ Len(template) \in Nat
  BY <1>e, TagEnds DEF TextInv
<1>2. CASE e = pos
  BY <1>1, <1>2, <1>e, SubSeqEmpty
<1>3. CASE e # pos
  <2>1. pos + 1 <= e /\ pos + 1 \in Int /\ e \in Int /\ \A i \in (pos + 1)..e : template[i] \in Lexemes
    BY <1>1, <1>3
  <2>2. Len(SubSeq(template, pos + 1, e)) = e - (pos + 1) + 1
    BY <2>1, SubSeqProperties
  <2>3. e - (pos + 1) + 1 # 0
    BY <1>1, <1>3
  <2> QED BY <1>3, <1>e, <2>2, <2>3
<1> QED BY <1>2, <1>3, <1>e

\* After a tag the line is taken for indentation only from the newline that ended the tag's,
\* or from the tag's own.
LEMMA ReadTagKeepsPrefix == ASSUME TextInv, ReadTag, scanning' PROVE TextInv'
<1>1. /\ pos <= Len(template) /\ template' = template /\ buffer' = <<>> /\ pos' = TagEnd + 1
      /\ lineStart' = IF ~linePrefixIsIndent' THEN lineStart
                      ELSE IF SubSeq(template, pos + 1, TagEnd) = <<>> /\ Current.tail = "indent" THEN pos ELSE TagEnd + 1
      /\ Current.kind = "tag"
  BY DEF ReadTag, Reject, AtTag
<1>2. TagEnd \in pos..Len(template) /\ pos \in Nat \ {0} /\ Len(template) \in Nat
  BY <1>1, TagEnds DEF TextInv
<1>3. /\ template' \in Seq(Lexemes) /\ buffer' \in Seq(Lexemes) /\ pos' \in 1..(Len(template') + 1)
      /\ lineStart' \in Nat \ {0}
  BY <1>1, <1>2 DEF TextInv
<1>b. PICK b : b = pos'
  OBVIOUS
<1>u. PICK u : u = buffer'
  OBVIOUS
<1>t. PICK t : t = template'
  OBVIOUS
<1>4. b \in Nat \ {0} /\ u \in Seq(Lexemes) /\ b <= b
  BY <1>3, <1>b, <1>u
<1>9. b - b <= Len(u) /\ SubSeq(u, Len(u) - (b - b) + 1, Len(u)) = SubSeq(t, b, b - 1)
  BY <1>4, EmptyLine
<1>5. Buffered(b)'
  BY <1>4, <1>9, <1>b, <1>u, <1>t, Zenon DEF Buffered
<1>6. CASE linePrefixIsIndent' /\ ~(SubSeq(template, pos + 1, TagEnd) = <<>> /\ Current.tail = "indent")
  <2>1. lineStart' = pos'
    BY <1>1, <1>6
  <2>2. Buffered(lineStart)'
    BY <1>b, <1>5, <2>1
  <2> QED BY <1>3, <2>2 DEF TextInv, PrefixIsBuffered
<1>7. CASE linePrefixIsIndent' /\ SubSeq(template, pos + 1, TagEnd) = <<>> /\ Current.tail = "indent"
  <2>1. lineStart' = pos /\ pos' = pos + 1 /\ pos' = lineStart' + 1
    BY <1>1, <1>2, <1>7, RestIsEmpty
  <2>2. Buffered(lineStart + 1)'
    BY <1>b, <1>5, <2>1
  <2>3. /\ lineStart' \in DOMAIN template' /\ template'[lineStart'].kind = "tag" /\ template'[lineStart'].tail = "indent"
    BY <1>1, <1>2, <1>7, <2>1 DEF TextInv, Current
  <2>4. Len(buffer') = pos' - (lineStart' + 1)
    BY <1>1, <1>2, <2>1
  <2>5. BeganInTag'
    BY <2>2, <2>3, <2>4 DEF BeganInTag
  <2> QED BY <1>3, <2>5 DEF TextInv, PrefixIsBuffered
<1>8. CASE ~linePrefixIsIndent'
  BY <1>3, <1>8 DEF TextInv, PrefixIsBuffered
<1> QED BY <1>6, <1>7, <1>8

LEMMA TextFitsNext == TextFits /\ [Next]_vars => TextFits'
<1> SUFFICES ASSUME TextFits, [Next]_vars, scanning' PROVE TextInv'
  BY DEF TextFits
<1>1. CASE UNCHANGED vars
  <2>1. TextInv
    BY <1>1 DEF TextFits, vars
  <2> QED BY <1>1, <2>1 DEF vars, scan, TextInv, PrefixIsBuffered, Buffered, BeganInTag
<1>2. CASE ReadText
  BY <1>2, ReadTextKeepsPrefix DEF TextFits, ReadText
<1>3. CASE ReadTag
  BY <1>3, ReadTagKeepsPrefix DEF TextFits, ReadTag
<1>4. CASE UnclosedTag \/ Finish \/ Stop \/ SetSequences \/ SetEscapeByDefault
  BY <1>4 DEF UnclosedTag, Finish, Reject, Stop, SetSequences, SetEscapeByDefault, Idle, vars
<1>5. ASSUME NEW t \in Templates, NEW l \in LimitChoices, ~scanning, StartTokenize(t, l) \/ RejectAtOnce(t, l)
      PROVE  TextInv'
  <2>1. StartTokenize(t, l)
    BY <1>5 DEF RejectAtOnce
  <2>2. template' = t /\ t \in Seq(Lexemes) /\ pos' = 1 /\ buffer' = <<>> /\ lineStart' = 1
    BY <2>1, TemplatesAssumption DEF StartTokenize
  <2>3. /\ template' \in Seq(Lexemes) /\ buffer' \in Seq(Lexemes) /\ pos' \in 1..(Len(template') + 1)
        /\ lineStart' \in Nat \ {0} /\ lineStart' = pos' /\ pos' \in Nat \ {0}
    BY <2>2
  <2>4. pos' - lineStart' <= Len(buffer') /\ SubSeq(buffer', Len(buffer') - (pos' - lineStart') + 1, Len(buffer')) = SubSeq(template', lineStart', pos' - 1)
    BY <2>3, EmptyLine
  <2>5. lineStart' <= pos'
    BY <2>3
  <2>6. PrefixIsBuffered'
    BY <2>4, <2>5, Zenon DEF PrefixIsBuffered, Buffered
  <2> QED BY <2>3, <2>6 DEF TextInv
<1> QED BY <1>1, <1>2, <1>3, <1>4, <1>5 DEF Next, Scan, Idle

\* The internal error "Invalid standalone parser state" (tokenizer.cpp:363) has one cause,
\* whatever is tokenized: the line of a standalone tag began in the blanks that end the
\* delimiter of the tag before it.  Any other indentation is still buffered.
THEOREM PrefixStaysBuffered == Spec => []PrefixIsBuffered
<1>1. Init => TextFits
  BY DEF Init, TextFits
<1>2. TextFits => PrefixIsBuffered
  BY DEF TextFits, TextInv, PrefixIsBuffered
<1> QED BY <1>1, <1>2, TextFitsNext, PTL DEF Spec

-----------------------------------------------------------------------------
(* Trees and the levels of their nodes *)

\* The fields of a node that its place in the tree depends on.
Fields == {"type", "indent", "parent", "length"}
IsTree(ns) ==
    /\ \E S : ns \in Seq(S)
    /\ \A k \in DOMAIN ns : Fields \subseteq DOMAIN ns[k] /\ ns[k].parent \in 0..(k - 1)
\* How many nodes lie on the way from the root to a node, at most n for each.
Levels(ns, n) ==
    {d \in [0..Len(ns) -> Nat] : d[0] = 1 /\ \A k \in DOMAIN ns : d[k] = d[ns[k].parent] + 1 /\ d[k] <= n}
\* The open sections lie one inside the other.
Stacked(stack, d) ==
    /\ stack \in Seq(Nat)
    /\ \A i \in DOMAIN stack : stack[i] \in DOMAIN d \ {0} /\ d[stack[i]] = i + 1

LEMMA Extended ==
    ASSUME NEW ns, \E S : ns \in Seq(S), NEW e
    PROVE  /\ \E S : ns \o <<e>> \in Seq(S)
           /\ ns \o <<e>> = Append(ns, e) /\ ns \o <<>> = ns
           /\ Len(ns) \in Nat /\ DOMAIN ns = 1..Len(ns)
           /\ Len(ns \o <<e>>) = Len(ns) + 1 /\ DOMAIN (ns \o <<e>>) = 1..(Len(ns) + 1)
           /\ \A k \in 1..Len(ns) : (ns \o <<e>>)[k] = ns[k]
           /\ (ns \o <<e>>)[Len(ns) + 1] = e
<1>1. PICK S : ns \in Seq(S)
  OBVIOUS
<1>2. PICK U : U = S \cup {e}
  OBVIOUS
<1>3. ns \in Seq(U) /\ e \in U /\ <<e>> \in Seq(U)
  BY <1>1, <1>2, SeqMonotonic
<1>4. Append(ns, e) = ns \o <<e>> /\ ns \o <<>> = ns
  BY <1>3, AppendIsConcat, ConcatEmptySeq
<1>5. /\ Append(ns, e) \in Seq(U) /\ Len(ns) \in Nat /\ DOMAIN ns = 1..Len(ns)
      /\ Len(Append(ns, e)) = Len(ns) + 1 /\ DOMAIN Append(ns, e) = 1..(Len(ns) + 1)
      /\ \A k \in 1..Len(ns) : Append(ns, e)[k] = ns[k]
      /\ Append(ns, e)[Len(ns) + 1] = e
  <2> HIDE <1>1, <1>4
  <2> QED BY <1>3
<1> QED BY <1>4, <1>5

\* A node, or none, joins the tree below q.
LEMMA JoinsTree ==
    ASSUME NEW ns, IsTree(ns), NEW q \in 0..Len(ns), NEW p,
           p = <<>> \/ \E e : p = <<e>> /\ Fields \subseteq DOMAIN e /\ e.parent = q,
           NEW n \in Nat, NEW d \in Levels(ns, n), d[q] < n
    PROVE  /\ IsTree(ns \o p) /\ Len(ns) \in Nat /\ Len(ns \o p) \in Nat /\ Len(ns) <= Len(ns \o p)
           /\ \E d2 \in Levels(ns \o p, n) :
                 /\ \A k \in 0..Len(ns) : d2[k] = d[k]
                 /\ p # <<>> => Len(ns \o p) = Len(ns) + 1 /\ d2[Len(ns) + 1] = d[q] + 1
<1>1. CASE p = <<>>
  <2>1. ns \o p = ns /\ Len(ns) \in Nat
    BY <1>1, Extended DEF IsTree
  <2> QED BY <1>1, <2>1
<1>2. ASSUME NEW e, p = <<e>>, Fields \subseteq DOMAIN e, e.parent = q
      PROVE  /\ IsTree(ns \o p) /\ Len(ns) \in Nat /\ Len(ns \o p) \in Nat /\ Len(ns) <= Len(ns \o p)
             /\ \E d2 \in Levels(ns \o p, n) :
                   /\ \A k \in 0..Len(ns) : d2[k] = d[k]
                   /\ p # <<>> => Len(ns \o p) = Len(ns) + 1 /\ d2[Len(ns) + 1] = d[q] + 1
  <2>m. PICK m : m = Len(ns)
    OBVIOUS
  <2>t. PICK t : t = ns \o p
    OBVIOUS
  <2>0. /\ \E S : ns \o <<e>> \in Seq(S)
        /\ Len(ns) \in Nat /\ DOMAIN ns = 1..Len(ns)
        /\ Len(ns \o <<e>>) = Len(ns) + 1 /\ DOMAIN (ns \o <<e>>) = 1..(Len(ns) + 1)
        /\ \A k \in 1..Len(ns) : (ns \o <<e>>)[k] = ns[k]
        /\ (ns \o <<e>>)[Len(ns) + 1] = e
    BY Extended DEF IsTree
  <2>1. /\ \E S : t \in Seq(S)
        /\ m \in Nat /\ DOMAIN ns = 1..m /\ Len(t) = m + 1 /\ DOMAIN t = 1..(m + 1)
        /\ \A k \in 1..m : t[k] = ns[k]
        /\ t[m + 1] = e
    BY <1>2, <2>m, <2>t, <2>0
  <2>2. \A k \in DOMAIN t : k \in 1..m \/ k = m + 1
    BY <2>1
  <2>3. IsTree(t)
    <3>1. ASSUME NEW k \in DOMAIN t PROVE Fields \subseteq DOMAIN t[k] /\ t[k].parent \in 0..(k - 1)
      <4>1. CASE k \in 1..m
        BY <2>1, <4>1 DEF IsTree
      <4>2. CASE k = m + 1
        <5>1. q \in 0..((m + 1) - 1)
          BY <2>1, <2>m
        <5> QED BY <1>2, <2>1, <4>2, <5>1
      <4> QED BY <2>2, <4>1, <4>2
    <3> QED BY <2>1, <3>1 DEF IsTree
  <2>4. /\ d \in [0..m -> Nat] /\ d[0] = 1 /\ q \in 0..m
        /\ \A k \in 1..m : d[k] = d[ns[k].parent] + 1 /\ d[k] <= n
    BY <2>1, <2>m DEF Levels
  <2>5. PICK d2 : d2 = [k \in 0..(m + 1) |-> IF k = m + 1 THEN d[q] + 1 ELSE d[k]]
    OBVIOUS
  <2>6. (\A k \in 0..m : d2[k] = d[k] /\ d2[k] \in Nat) /\ d2[m + 1] = d[q] + 1 /\ d2[m + 1] \in Nat /\ d2[0] = 1
    BY <2>1, <2>4, <2>5
  <2>7. d2 \in [0..(m + 1) -> Nat]
    <3>1. \A k \in 0..(m + 1) : d2[k] \in Nat
      BY <2>1, <2>6
    <3> QED BY <2>5, <3>1
  <2>8. ASSUME NEW k \in DOMAIN t PROVE d2[k] = d2[t[k].parent] + 1 /\ d2[k] <= n
    <3>1. CASE k \in 1..m
      <4>1. ns[k].parent \in 0..(k - 1) /\ 0..(k - 1) \subseteq 0..m /\ k \in 0..m
        BY <2>1, <3>1 DEF IsTree
      <4> QED BY <2>1, <2>4, <2>6, <3>1, <4>1
    <3>2. CASE k = m + 1
      <4>1. t[k].parent = q
        BY <1>2, <2>1, <3>2
      <4>2. d2[q] = d[q] /\ d[q] \in Nat
        BY <2>4, <2>6
      <4>3. d[q] + 1 <= n
        BY <4>2
      <4> QED BY <2>6, <3>2, <4>1, <4>2, <4>3
    <3> QED BY <2>2, <3>1, <3>2
  <2>9. d2 \in Levels(t, n)
    BY <2>1, <2>6, <2>7, <2>8 DEF Levels
  <2>10. m <= m + 1 /\ m + 1 \in Nat
    BY <2>1
  <2> HIDE <2>5
  <2> QED BY <2>1, <2>3, <2>6, <2>9, <2>10, <2>m, <2>t
<1> QED BY <1>1, <1>2

\* A node that indents nothing, or none, leaves the metadata followed by partials.
LEMMA JoinsPlainly ==
    ASSUME NEW ns, \E S : ns \in Seq(S), IndentsPartials(ns), NEW p,
           p = <<>> \/ \E e : p = <<e>> /\ e.indent = FALSE
    PROVE  IndentsPartials(ns \o p)
<1>1. CASE p = <<>>
  BY <1>1, Extended
<1>2. ASSUME NEW e, p = <<e>>, e.indent = FALSE PROVE IndentsPartials(ns \o p)
  <2>m. PICK m : m = Len(ns)
    OBVIOUS
  <2>t. PICK t : t = ns \o p
    OBVIOUS
  <2>1. /\ m \in Nat /\ DOMAIN ns = 1..m /\ DOMAIN t = 1..(m + 1)
        /\ \A k \in 1..m : t[k] = ns[k]
        /\ t[m + 1] = e
    BY <1>2, <2>m, <2>t, Extended
  <2>2. ASSUME NEW k \in DOMAIN t, t[k].indent
        PROVE  k + 1 \in DOMAIN t /\ t[k + 1].type = "Partial" /\ t[k + 1].parent = t[k].parent
    <3>1. k \in 1..m
      BY <1>2, <2>1, <2>2
    <3>2. k + 1 \in 1..m /\ ns[k + 1].type = "Partial" /\ ns[k + 1].parent = ns[k].parent
      BY <2>1, <2>2, <3>1 DEF IndentsPartials
    <3>3. k + 1 \in 1..(m + 1)
      BY <2>1, <3>2
    <3> QED BY <2>1, <3>1, <3>2, <3>3
  <2> QED BY <2>2, <2>t DEF IndentsPartials
<1> QED BY <1>1, <1>2

\* So does metadata of any kind that brings its partial.
LEMMA JoinsWithPartial ==
    ASSUME NEW ns, \E S : ns \in Seq(S), IndentsPartials(ns), NEW e, NEW f,
           f.indent = FALSE, f.type = "Partial", f.parent = e.parent
    PROVE  IndentsPartials((ns \o <<e>>) \o <<f>>)
<1>m. PICK m : m = Len(ns)
  OBVIOUS
<1>s. PICK s : s = ns \o <<e>>
  OBVIOUS
<1>t. PICK t : t = s \o <<f>>
  OBVIOUS
<1>0. /\ \E S : ns \o <<e>> \in Seq(S)
      /\ Len(ns) \in Nat /\ DOMAIN ns = 1..Len(ns)
      /\ Len(ns \o <<e>>) = Len(ns) + 1 /\ DOMAIN (ns \o <<e>>) = 1..(Len(ns) + 1)
      /\ \A k \in 1..Len(ns) : (ns \o <<e>>)[k] = ns[k]
      /\ (ns \o <<e>>)[Len(ns) + 1] = e
  <2>1. (\E S : ns \o <<e>> \in Seq(S)) /\ (ns \o <<e>>)[Len(ns) + 1] = e
    BY Extended
  <2>2. Len(ns) \in Nat /\ DOMAIN ns = 1..Len(ns)
    BY Extended
  <2>3. Len(ns \o <<e>>) = Len(ns) + 1 /\ DOMAIN (ns \o <<e>>) = 1..(Len(ns) + 1)
    BY Extended
  <2>4. \A k \in 1..Len(ns) : (ns \o <<e>>)[k] = ns[k]
    BY Extended
  <2> QED BY <2>1, <2>2, <2>3, <2>4
<1>1. /\ \E S : s \in Seq(S)
      /\ m \in Nat /\ DOMAIN ns = 1..m /\ Len(s) = m + 1
      /\ \A k \in 1..m : s[k] = ns[k]
      /\ s[m + 1] = e
  BY <1>m, <1>s, <1>0
<1>2. /\ DOMAIN t = 1..((m + 1) + 1)
      /\ \A k \in 1..(m + 1) : t[k] = s[k]
      /\ t[(m + 1) + 1] = f
  BY <1>1, <1>t, Extended
<1>3. ASSUME NEW k \in DOMAIN t, t[k].indent
      PROVE  k + 1 \in DOMAIN t /\ t[k + 1].type = "Partial" /\ t[k + 1].parent = t[k].parent
  <2>1. k # (m + 1) + 1
    BY <1>2, <1>3
  <2>2. CASE k = m + 1
    BY <1>1, <1>2, <2>2
  <2>3. CASE k # m + 1
    <3>1. k \in 1..m /\ k \in 1..(m + 1)
      BY <1>1, <1>2, <2>1, <2>3
    <3>2. k + 1 \in 1..m /\ ns[k + 1].type = "Partial" /\ ns[k + 1].parent = ns[k].parent
      BY <1>1, <1>2, <1>3, <3>1 DEF IndentsPartials
    <3>3. k + 1 \in 1..((m + 1) + 1) /\ k + 1 \in 1..(m + 1)
      BY <1>1, <3>2
    <3> QED BY <1>1, <1>2, <3>1, <3>2, <3>3
  <2> QED BY <2>2, <2>3
<1> QED BY <1>3, <1>s, <1>t DEF IndentsPartials

\* The innermost open section is one level deeper than the stack is high.
LEMMA InnermostLevel ==
    ASSUME NEW stack, NEW ns, NEW n, NEW d \in Levels(ns, n), Len(ns) \in Nat, Stacked(stack, d)
    PROVE  Innermost(stack) \in 0..Len(ns) /\ d[Innermost(stack)] = Len(stack) + 1 /\ Len(stack) \in Nat
<1>1. DOMAIN d = 0..Len(ns) /\ d[0] = 1 /\ Len(stack) \in Nat /\ 0 \in 0..Len(ns)
  BY DEF Levels, Stacked
<1>2. CASE stack = <<>>
  BY <1>1, <1>2 DEF Innermost
<1>3. CASE stack # <<>>
  <2>1. Len(stack) \in DOMAIN stack
    BY <1>3 DEF Stacked
  <2> QED BY <1>1, <1>3, <2>1 DEF Innermost, Stacked
<1> QED BY <1>2, <1>3

-----------------------------------------------------------------------------
(* The tree of the scan and the one it publishes *)

\* What a scan has built, and what an accepted template leaves at the root.
TreeInv ==
    /\ IsTree(nodes) /\ IndentsPartials(nodes)
    /\ outcome = "accepted" =>
          IsTree(root) /\ IndentsPartials(root) /\ \E d \in Levels(root, limits.nesting + 2) : TRUE
ScanInv ==
    scanning =>
        /\ limits.nesting \in Nat /\ Len(nodeStack) <= limits.nesting
        /\ \E d \in Levels(nodes, limits.nesting + 2) : Stacked(nodeStack, d)

\* Measuring the source of a section moves no node.
LEMMA MeasuringMovesNothing ==
    ASSUME IsTree(nodes), IndentsPartials(nodes)
    PROVE  /\ IsTree(SectionSource) /\ IndentsPartials(SectionSource) /\ Len(SectionSource) = Len(nodes)
           /\ \A n : Levels(SectionSource, n) = Levels(nodes, n)
<1>s. PICK s : s = SectionSource
  OBVIOUS
<1>p. PICK p : p = Parent
  OBVIOUS
<1>1. CASE s = nodes
  BY <1>1, <1>s
<1>2. CASE s # nodes
  <2>1. PICK x : s = [nodes EXCEPT ![p].length = x]
    BY <1>2, <1>s, <1>p DEF SectionSource
  <2>2. PICK S : nodes \in Seq(S)
    BY DEF IsTree
  <2>3. /\ DOMAIN s = DOMAIN nodes
        /\ \A k \in DOMAIN nodes : s[k] = IF k = p THEN [nodes[p] EXCEPT !.length = x] ELSE nodes[k]
    BY <2>1
  <2>4. ASSUME NEW k \in DOMAIN nodes
        PROVE  /\ Fields \subseteq DOMAIN s[k] /\ s[k].parent = nodes[k].parent
               /\ s[k].indent = nodes[k].indent /\ s[k].type = nodes[k].type
    <3>1. Fields \subseteq DOMAIN nodes[k]
      BY DEF IsTree
    <3>2. CASE k = p
      BY <2>3, <3>1, <3>2 DEF Fields
    <3>3. CASE k # p
      BY <2>3, <3>1, <3>3
    <3> QED BY <3>2, <3>3
  <2>5. Len(nodes) \in Nat /\ DOMAIN nodes = 1..Len(nodes)
    BY <2>2
  <2>6. s \in Seq({s[k] : k \in DOMAIN nodes}) /\ Len(s) = Len(nodes)
    <3> DEFINE R == {s[k] : k \in DOMAIN nodes}
    <3>1. s = [k \in 1..Len(nodes) |-> s[k]]
      BY <2>1, <2>5
    <3>2. \A k \in 1..Len(nodes) : s[k] \in R
      BY <2>5
    <3> HIDE DEF R
    <3>3. s \in [1..Len(nodes) -> R]
      BY <3>1, <3>2
    <3>4. s \in Seq(R)
      BY <2>5, <3>3
    <3>5. Len(s) = Len(nodes)
      BY <2>3, <2>5, <3>4
    <3> QED BY <3>4, <3>5 DEF R
  <2> HIDE <2>1
  <2>7. IsTree(s)
    BY <2>3, <2>4, <2>6 DEF IsTree
  <2>8. IndentsPartials(s)
    BY <2>3, <2>4, <2>5 DEF IndentsPartials
  <2>9. \A n : Levels(s, n) = Levels(nodes, n)
    BY <2>3, <2>4, <2>6 DEF Levels
  <2> QED BY <2>6, <2>7, <2>8, <2>9, <1>s
<1> QED BY <1>1, <1>2

LEMMA OutputShape ==
    ASSUME NEW q, NEW text
    PROVE  Fields \subseteq DOMAIN Output(q, text) /\ Output(q, text).parent = q /\ Output(q, text).indent = FALSE
BY DEF Output, Fields

LEMMA SourceOnlyShape ==
    ASSUME NEW q, NEW text, NEW indent
    PROVE  /\ Fields \subseteq DOMAIN SourceOnly(q, text, indent) /\ SourceOnly(q, text, indent).parent = q
           /\ SourceOnly(q, text, indent).indent = indent
BY DEF Output, SourceOnly, Fields

LEMMA TagShape ==
    /\ Fields \subseteq DOMAIN TagNode /\ TagNode.parent = Parent /\ TagNode.indent = FALSE /\ TagNode.type = Type
BY DEF TagNode, Output, Fields

\* What one tag adds to the tree, in its order.
LEMMA TagGrowsTree ==
    ASSUME TextInv, TreeInv, scanning, ScanInv, ReadTag, scanning'
    PROVE  /\ IsTree(nodes') /\ IndentsPartials(nodes')
           /\ Len(nodeStack') <= limits.nesting
           /\ \E d \in Levels(nodes', limits.nesting + 2) : Stacked(nodeStack', d)
<1> DEFINE U == UnlessEmpty(Output(Parent, OutputBeforeTag))
           M == Marker
           T == IF Type = "Delimiters" THEN <<>> ELSE <<TagNode>>
           st == CASE Type \in Sections -> Append(nodeStack, Opened(U \o M))
                   [] Type = "Stop" -> SubSeq(nodeStack, 1, Len(nodeStack) - 1)
                   [] OTHER -> nodeStack
           R == UnlessEmpty(SourceOnly(Innermost(st), SubSeq(template, pos + 1, TagEnd), FALSE))
<1>1. Acceptable /\ nodes' = SectionSource \o (U \o M) \o T \o R /\ nodeStack' = st
  BY DEF ReadTag, Reject
<1>p. PICK p : p = Parent
  OBVIOUS
<1>u. PICK u : u = U
  OBVIOUS
<1>m. PICK m : m = M
  OBVIOUS
<1>t. PICK t : t = T
  OBVIOUS
<1>r. PICK r : r = R
  OBVIOUS
<1>w. PICK w : w = st
  OBVIOUS
<1>n. PICK n : n = limits.nesting + 2
  OBVIOUS
<1>h. PICK h : h = Len(nodeStack)
  OBVIOUS
<1>2. u = <<>> \/ \E e : u = <<e>> /\ Fields \subseteq DOMAIN e /\ e.parent = p /\ e.indent = FALSE
  BY <1>p, <1>u, OutputShape DEF UnlessEmpty
<1>3. \/ m = <<>>
      \/ \E e : m = <<e>> /\ Fields \subseteq DOMAIN e /\ e.parent = p /\ (Type # "Partial" => e.indent = FALSE)
  <2>1. PICK b : b = (Type = "Partial")
    OBVIOUS
  <2>2. Type # "Partial" => b = FALSE
    BY <2>1
  <2>x. PICK x : x = SubSeq(template, lineStart, pos - 1)
    OBVIOUS
  <2>3. PICK e : e = SourceOnly(p, x, b)
    OBVIOUS
  <2>4. Fields \subseteq DOMAIN e /\ e.parent = p /\ e.indent = b
    BY <2>3, SourceOnlyShape
  <2>5. m = <<>> \/ m = <<e>>
    BY <1>p, <1>m, <2>x, <2>1, <2>3 DEF Marker
  <2> QED BY <2>2, <2>4, <2>5
<1>4. \/ t = <<>> /\ Type = "Delimiters"
      \/ Type # "Delimiters" /\ \E e : t = <<e>> /\ Fields \subseteq DOMAIN e /\ e.parent = p /\ e.indent = FALSE /\ e.type = Type
  BY <1>p, <1>t, TagShape
<1>5. r = <<>> \/ \E e : r = <<e>> /\ Fields \subseteq DOMAIN e /\ e.parent = Innermost(w) /\ e.indent = FALSE
  <2>x. PICK x : x = SubSeq(template, pos + 1, TagEnd)
    OBVIOUS
  <2>q. PICK q : q = Innermost(w)
    OBVIOUS
  <2>b. PICK b : b = FALSE
    OBVIOUS
  <2>1. PICK e : e = SourceOnly(q, x, b)
    OBVIOUS
  <2>2. Fields \subseteq DOMAIN e /\ e.parent = Innermost(w) /\ e.indent = FALSE
    BY <2>1, <2>q, <2>b, SourceOnlyShape
  <2>3. r = <<>> \/ r = <<e>>
    BY <1>r, <1>w, <2>x, <2>q, <2>b, <2>1 DEF UnlessEmpty
  <2> QED BY <2>2, <2>3
<1>6. w = CASE Type \in Sections -> Append(nodeStack, Len(nodes) + Len(u \o m) + 1)
            [] Type = "Stop" -> SubSeq(nodeStack, 1, Len(nodeStack) - 1)
            [] OTHER -> nodeStack
  BY <1>u, <1>m, <1>w DEF Opened
<1>7. nodes' = SectionSource \o (u \o m) \o t \o r /\ nodeStack' = w
  BY <1>1, <1>u, <1>m, <1>t, <1>r, <1>w
<1> HIDE DEF U, M, T, st, R
<1>s. PICK s : s = SectionSource
  OBVIOUS
<1>8. PICK d \in Levels(nodes, n) : Stacked(nodeStack, d)
  BY <1>n DEF ScanInv
<1>9. limits.nesting \in Nat /\ n \in Nat /\ h <= limits.nesting
  BY <1>n, <1>h DEF ScanInv
<1>10. IsTree(s) /\ IndentsPartials(s) /\ Len(s) = Len(nodes) /\ d \in Levels(s, n)
  BY <1>s, <1>8, MeasuringMovesNothing DEF TreeInv
<1>11. Len(s) \in Nat /\ \E S : s \in Seq(S)
  BY <1>10 DEF IsTree
<1>12. p \in 0..Len(s) /\ d[p] = h + 1 /\ h \in Nat /\ d[p] < n
  <2>1. p \in 0..Len(s) /\ d[p] = h + 1 /\ h \in Nat
    BY <1>8, <1>10, <1>11, <1>p, <1>h, InnermostLevel DEF Parent
  <2> QED BY <2>1, <1>9, <1>n
<1>13. PICK s1 : s1 = s \o u
  OBVIOUS
<1>14. /\ IsTree(s1) /\ Len(s1) \in Nat /\ Len(s) <= Len(s1)
       /\ \E d2 \in Levels(s1, n) : \A k \in 0..Len(s) : d2[k] = d[k]
  BY <1>2, <1>9, <1>10, <1>12, <1>13, JoinsTree
<1>15. PICK d1 \in Levels(s1, n) : \A k \in 0..Len(s) : d1[k] = d[k]
  BY <1>14
<1>16. p \in 0..Len(s1) /\ d1[p] = h + 1 /\ d1[p] < n
  BY <1>11, <1>12, <1>14, <1>15
<1>17. PICK s2 : s2 = s1 \o m
  OBVIOUS
<1>18. /\ IsTree(s2) /\ Len(s2) \in Nat /\ Len(s1) <= Len(s2)
       /\ \E d2 \in Levels(s2, n) : \A k \in 0..Len(s1) : d2[k] = d1[k]
  <2>1. m = <<>> \/ \E e : m = <<e>> /\ Fields \subseteq DOMAIN e /\ e.parent = p
    BY <1>3
  <2> QED BY <2>1, <1>9, <1>14, <1>16, <1>17, JoinsTree
<1>19. PICK d2 \in Levels(s2, n) : \A k \in 0..Len(s1) : d2[k] = d1[k]
  BY <1>18
<1>20. p \in 0..Len(s2) /\ d2[p] = h + 1 /\ d2[p] < n
  BY <1>14, <1>16, <1>18, <1>19
<1>21. PICK s3 : s3 = s2 \o t
  OBVIOUS
<1>22. /\ IsTree(s3) /\ Len(s3) \in Nat /\ Len(s2) <= Len(s3)
       /\ \E d3 \in Levels(s3, n) :
             /\ \A k \in 0..Len(s2) : d3[k] = d2[k]
             /\ t # <<>> => Len(s3) = Len(s2) + 1 /\ d3[Len(s2) + 1] = d2[p] + 1
  <2>1. t = <<>> \/ \E e : t = <<e>> /\ Fields \subseteq DOMAIN e /\ e.parent = p
    BY <1>4
  <2> QED BY <2>1, <1>9, <1>18, <1>20, <1>21, JoinsTree
<1>23. PICK d3 \in Levels(s3, n) :
             /\ \A k \in 0..Len(s2) : d3[k] = d2[k]
             /\ t # <<>> => Len(s3) = Len(s2) + 1 /\ d3[Len(s2) + 1] = d2[p] + 1
  BY <1>22
<1>24. \A k \in 0..Len(s) : d3[k] = d[k]
  BY <1>11, <1>14, <1>15, <1>18, <1>19, <1>22, <1>23
<1>25. s2 = s \o (u \o m) /\ Len(s2) = Len(nodes) + Len(u \o m) /\ nodes' = s3 \o r
  <2>1. PICK S : s \in Seq(S)
    BY <1>11
  <2>2. PICK S2 : s \in Seq(S2) /\ u \in Seq(S2) /\ m \in Seq(S2)
    <3>1. PICK e1, e2 : (u = <<>> \/ u = <<e1>>) /\ (m = <<>> \/ m = <<e2>>)
      BY <1>2, <1>3
    <3>2. PICK S3 : S3 = S \cup {e1, e2}
      OBVIOUS
    <3>3. s \in Seq(S3)
      BY <2>1, <3>2, SeqMonotonic
    <3>4. e1 \in S3 /\ e2 \in S3
      BY <3>2
    <3>5. <<>> \in Seq(S3) /\ <<e1>> \in Seq(S3) /\ <<e2>> \in Seq(S3)
      BY <3>4
    <3>6. u \in Seq(S3) /\ m \in Seq(S3)
      BY <3>1, <3>5
    <3> QED BY <3>3, <3>6
  <2>3. (s \o u) \o m = s \o (u \o m) /\ u \o m \in Seq(S2)
    BY <2>2, ConcatAssociative, ConcatProperties
  <2>4. Len(s \o (u \o m)) = Len(s) + Len(u \o m)
    BY <2>2, <2>3, ConcatProperties
  <2> QED BY <1>7, <1>10, <1>13, <1>17, <1>21, <1>s, <2>3, <2>4
<1>26. Stacked(w, d3) /\ Len(w) <= limits.nesting
  <2>1. /\ nodeStack \in Seq(Nat) /\ DOMAIN nodeStack = 1..h
        /\ \A i \in 1..h : nodeStack[i] \in (0..Len(s)) \ {0} /\ d[nodeStack[i]] = i + 1
    <3>1. DOMAIN d = 0..Len(s)
      BY <1>10 DEF Levels
    <3>2. /\ nodeStack \in Seq(Nat) /\ \A i \in DOMAIN nodeStack : nodeStack[i] \in DOMAIN d \ {0} /\ d[nodeStack[i]] = i + 1
      BY <1>8 DEF Stacked
    <3>3. DOMAIN nodeStack = 1..h
      BY <3>2, <1>h
    <3> QED BY <3>1, <3>2, <3>3
  <2>2. DOMAIN d3 = 0..Len(s3) /\ Len(s) <= Len(s3)
    BY <1>11, <1>14, <1>18, <1>22, <1>23 DEF Levels
  <2>3. \A i \in 1..h : nodeStack[i] \in DOMAIN d3 \ {0} /\ d3[nodeStack[i]] = i + 1
    BY <1>11, <1>22, <1>24, <2>1, <2>2
  <2>4. CASE Type \in Sections
    <3>1. h < limits.nesting
      BY <1>1, <1>h, <2>4 DEF Acceptable, RoomForSection
    <3>2. PICK x : x = Len(s2) + 1
      OBVIOUS
    <3>3. w = Append(nodeStack, x)
      <4>1. w = Append(nodeStack, Len(nodes) + Len(u \o m) + 1)
        BY <1>6, <2>4 DEF Sections
      <4> QED BY <1>25, <3>2, <4>1
    <3>4. t # <<>>
      BY <1>4, <2>4 DEF Sections
    <3>5. x \in Nat /\ x \in DOMAIN d3 \ {0} /\ d3[x] = (h + 1) + 1
      BY <1>18, <1>20, <1>22, <1>23, <2>2, <3>2, <3>4
    <3>6. /\ w \in Seq(Nat) /\ Len(w) = h + 1 /\ DOMAIN w = 1..(h + 1) /\ w[h + 1] = x
          /\ \A i \in 1..h : w[i] = nodeStack[i]
      BY <2>1, <3>3, <3>5, <1>h
    <3>7. ASSUME NEW i \in DOMAIN w PROVE w[i] \in DOMAIN d3 \ {0} /\ d3[w[i]] = i + 1
      <4>1. CASE i = h + 1
        BY <3>5, <3>6, <4>1
      <4>2. CASE i # h + 1
        <5>1. i \in 1..h
          BY <1>12, <3>6, <4>2
        <5> QED BY <2>3, <3>6, <5>1
      <4> QED BY <4>1, <4>2
    <3>8. Len(w) <= limits.nesting
      BY <1>9, <1>12, <3>1, <3>6
    <3> QED BY <3>6, <3>7, <3>8 DEF Stacked
  <2>5. CASE Type = "Stop"
    <3>1. w = SubSeq(nodeStack, 1, h - 1)
      BY <1>6, <1>h, <2>5 DEF Sections
    <3>2. h # 0
      BY <1>1, <2>1, <2>5, <1>h DEF Acceptable, Closes
    <3>3. /\ w \in Seq(Nat) /\ Len(w) = h - 1 /\ DOMAIN w = 1..(h - 1)
          /\ \A i \in 1..(h - 1) : w[i] = nodeStack[i]
      BY <1>12, <2>1, <3>1, <3>2, <1>h
    <3>4. 1..(h - 1) \subseteq 1..h /\ h - 1 <= h
      BY <1>12
    <3>5. Len(w) <= limits.nesting
      BY <1>9, <1>12, <3>3
    <3> QED BY <2>3, <3>3, <3>4, <3>5 DEF Stacked
  <2>6. CASE Type \notin Sections /\ Type # "Stop"
    <3>1. w = nodeStack
      BY <1>6, <2>6
    <3> QED BY <1>9, <2>1, <2>3, <3>1, <1>h DEF Stacked
  <2> QED BY <2>4, <2>5, <2>6
<1>27. Innermost(w) \in 0..Len(s3) /\ d3[Innermost(w)] < n
  <2>1. Innermost(w) \in 0..Len(s3) /\ d3[Innermost(w)] = Len(w) + 1 /\ Len(w) \in Nat
    BY <1>22, <1>23, <1>26, InnermostLevel
  <2> QED BY <1>9, <1>26, <2>1, <1>n
<1>28. /\ IsTree(nodes') /\ Len(s3) \in Nat /\ Len(nodes') \in Nat /\ Len(s3) <= Len(nodes')
       /\ \E d4 \in Levels(nodes', n) : \A k \in 0..Len(s3) : d4[k] = d3[k]
  <2>1. PICK z : z = s3 \o r
    OBVIOUS
  <2>2. /\ IsTree(z) /\ Len(s3) \in Nat /\ Len(z) \in Nat /\ Len(s3) <= Len(z)
        /\ \E d4 \in Levels(z, n) : \A k \in 0..Len(s3) : d4[k] = d3[k]
    BY <1>5, <1>9, <1>22, <1>23, <1>27, <2>1, JoinsTree
  <2> QED BY <1>25, <2>1, <2>2
<1>29. PICK d4 \in Levels(nodes', n) : \A k \in 0..Len(s3) : d4[k] = d3[k]
  BY <1>28
<1>30. Stacked(w, d4)
  <2>1. DOMAIN d3 = 0..Len(s3) /\ DOMAIN d4 = 0..Len(nodes')
    BY <1>23, <1>29 DEF Levels
  <2>2. 0..Len(s3) \subseteq 0..Len(nodes')
    BY <1>28
  <2> QED BY <1>26, <1>29, <2>1, <2>2 DEF Stacked
<1>31. IndentsPartials(nodes')
  <2>1. IndentsPartials(s1)
    BY <1>2, <1>10, <1>11, <1>13, JoinsPlainly
  <2>2. IndentsPartials(s3)
    <3>1. CASE m # <<>> /\ Type = "Partial"
      <4>1. PICK e : m = <<e>> /\ e.parent = p
        BY <1>3, <3>1
      <4>2. PICK f : t = <<f>> /\ f.parent = p /\ f.indent = FALSE /\ f.type = Type
        BY <1>4, <3>1
      <4>3. \E S : s1 \in Seq(S)
        BY <1>14 DEF IsTree
      <4>4. f.type = "Partial" /\ f.parent = e.parent /\ f.indent = FALSE
        BY <3>1, <4>1, <4>2
      <4>5. IndentsPartials((s1 \o <<e>>) \o <<f>>)
        BY <2>1, <4>3, <4>4, JoinsWithPartial
      <4> QED BY <1>17, <1>21, <4>1, <4>2, <4>5
    <3>2. CASE m = <<>> \/ Type # "Partial"
      <4>1. IndentsPartials(s2)
        BY <1>3, <1>14, <1>17, <2>1, <3>2, JoinsPlainly DEF IsTree
      <4> QED BY <1>4, <1>18, <1>21, <4>1, JoinsPlainly DEF IsTree
    <3> QED BY <3>1, <3>2
  <2>3. IndentsPartials(s3 \o r)
    BY <1>5, <1>22, <2>2, JoinsPlainly DEF IsTree
  <2> QED BY <1>25, <2>3
<1> QED BY <1>7, <1>26, <1>28, <1>29, <1>30, <1>31, <1>n

\* The text after the last tag completes the tree that is published.
LEMMA FinishPublishesTree ==
    ASSUME TreeInv, scanning, ScanInv, Finish, outcome' = "accepted", outcome # "accepted"
    PROVE  /\ nodes' = nodes /\ limits' = limits
           /\ IsTree(root') /\ IndentsPartials(root') /\ \E d \in Levels(root', limits.nesting + 2) : TRUE
<1>p. PICK p : p = Parent
  OBVIOUS
<1>b. PICK b : b = buffer
  OBVIOUS
<1>u. PICK u : u = UnlessEmpty(Output(p, b))
  OBVIOUS
<1>n. PICK n : n = limits.nesting + 2
  OBVIOUS
<1>1. root' = nodes \o u /\ nodes' = nodes /\ limits' = limits
  BY <1>p, <1>b, <1>u DEF Finish, Reject, scan
<1>2. u = <<>> \/ \E e : u = <<e>> /\ Fields \subseteq DOMAIN e /\ e.parent = p /\ e.indent = FALSE
  <2>1. PICK e : e = Output(p, b)
    OBVIOUS
  <2>2. Fields \subseteq DOMAIN e /\ e.parent = p /\ e.indent = FALSE
    BY <2>1, OutputShape
  <2>3. u = <<>> \/ u = <<e>>
    BY <1>u, <2>1 DEF UnlessEmpty
  <2> QED BY <2>2, <2>3
<1>3. PICK d \in Levels(nodes, n) : Stacked(nodeStack, d)
  BY <1>n DEF ScanInv
<1>4. limits.nesting \in Nat /\ n \in Nat /\ Len(nodeStack) <= limits.nesting
  BY <1>n DEF ScanInv
<1>5. IsTree(nodes) /\ IndentsPartials(nodes) /\ Len(nodes) \in Nat /\ \E S : nodes \in Seq(S)
  BY DEF TreeInv, IsTree
<1>6. p \in 0..Len(nodes) /\ d[p] < n
  <2>1. p \in 0..Len(nodes) /\ d[p] = Len(nodeStack) + 1 /\ Len(nodeStack) \in Nat
    BY <1>3, <1>5, <1>p, InnermostLevel DEF Parent
  <2> QED BY <1>4, <2>1, <1>n
<1>7. PICK t : t = nodes \o u
  OBVIOUS
<1>8. IsTree(t) /\ \E d2 \in Levels(t, n) : \A k \in 0..Len(nodes) : d2[k] = d[k]
  BY <1>2, <1>3, <1>4, <1>5, <1>6, <1>7, JoinsTree
<1>9. IndentsPartials(t)
  BY <1>2, <1>5, <1>7, JoinsPlainly
<1> QED BY <1>1, <1>7, <1>8, <1>9, <1>n

LEMMA TreesNext ==
    ASSUME TextFits, TreeInv, ScanInv, scanning => outcome = "none", [Next]_vars
    PROVE  TreeInv' /\ ScanInv' /\ (scanning => outcome = "none")'
<1>1. CASE UNCHANGED vars
  BY <1>1 DEF vars, scan, TreeInv, ScanInv
<1>2. CASE ReadText
  <2>1. UNCHANGED <<nodes, nodeStack, outcome, root, limits, scanning>>
    BY <1>2 DEF ReadText
  <2> QED BY <2>1 DEF TreeInv, ScanInv
<1>3. CASE ~scanning' /\ outcome' # "accepted" /\ nodes' = nodes
  BY <1>3 DEF TreeInv, ScanInv
<1>4. CASE ReadTag
  <2>1. CASE scanning'
    <3>1. /\ IsTree(nodes') /\ IndentsPartials(nodes') /\ Len(nodeStack') <= limits.nesting
          /\ \E d \in Levels(nodes', limits.nesting + 2) : Stacked(nodeStack', d)
      BY <1>4, <2>1, TagGrowsTree DEF ReadTag, TextFits
    <3>2. scanning /\ UNCHANGED <<root, limits, outcome>>
      BY <1>4, <2>1 DEF ReadTag, Reject
    <3> QED BY <2>1, <3>1, <3>2 DEF TreeInv, ScanInv
  <2>2. CASE ~scanning'
    BY <1>3, <1>4, <2>2 DEF ReadTag, Reject, scan
  <2> QED BY <2>1, <2>2
<1>5. CASE UnclosedTag
  BY <1>3, <1>5 DEF UnclosedTag, Reject, scan
<1>6. CASE Finish
  <2>1. CASE outcome' = "accepted"
    <3>1. scanning /\ ~scanning' /\ outcome # "accepted"
      BY <1>6 DEF Finish, Reject
    <3>2. /\ nodes' = nodes /\ limits' = limits
          /\ IsTree(root') /\ IndentsPartials(root') /\ \E d \in Levels(root', limits.nesting + 2) : TRUE
      BY <1>6, <2>1, <3>1, FinishPublishesTree
    <3> QED BY <3>1, <3>2 DEF TreeInv, ScanInv
  <2>2. CASE outcome' # "accepted"
    BY <1>3, <1>6, <2>2 DEF Finish, Reject, scan
  <2> QED BY <2>1, <2>2
<1>7. CASE Stop
  BY <1>1, <1>7 DEF Stop
<1>8. CASE SetSequences \/ SetEscapeByDefault
  BY <1>3, <1>8 DEF SetSequences, SetEscapeByDefault, Idle, scan
<1>9. ASSUME NEW t \in Templates, NEW l \in LimitChoices, Idle, RejectAtOnce(t, l)
      PROVE  TreeInv' /\ ScanInv' /\ (scanning => outcome = "none")'
  BY <1>3, <1>9 DEF RejectAtOnce, Idle, scan
<1>10. ASSUME NEW t \in Templates, NEW l \in LimitChoices, StartTokenize(t, l)
       PROVE  TreeInv' /\ ScanInv' /\ (scanning => outcome = "none")'
  <2>1. nodes' = <<>> /\ nodeStack' = <<>> /\ outcome' = "none" /\ limits' = l /\ l.nesting \in Nat
    BY <1>10, TokenizerLimitsAssumption DEF StartTokenize
  <2>2. <<>> \in Seq({}) /\ Len(<<>>) = 0 /\ DOMAIN <<>> = {}
    <3>1. <<>> \in Seq({}) /\ Len(<<>>) = 0
      OBVIOUS
    <3> QED BY <3>1
  <2>3. IsTree(<<>>) /\ IndentsPartials(<<>>)
    BY <2>2 DEF IsTree, IndentsPartials
  <2>4. PICK d : d = [k \in 0..0 |-> 1]
    OBVIOUS
  <2>5. d \in [0..0 -> Nat] /\ d[0] = 1
    BY <2>4
  <2>6. d \in Levels(<<>>, l.nesting + 2)
    BY <2>2, <2>5 DEF Levels
  <2>7. Stacked(<<>>, d)
    BY <2>2 DEF Stacked
  <2>8. Len(<<>>) <= l.nesting
    BY <2>1, <2>2
  <2> QED BY <2>1, <2>3, <2>6, <2>7, <2>8 DEF TreeInv, ScanInv
<1> QED BY <1>1, <1>2, <1>4, <1>5, <1>6, <1>7, <1>8, <1>9, <1>10 DEF Next, Scan

LEMMA TreesInit == Init => TextFits /\ TreeInv /\ ScanInv /\ (scanning => outcome = "none")
<1> SUFFICES ASSUME Init PROVE TextFits /\ TreeInv /\ ScanInv
  BY DEF Init
<1>1. <<>> \in Seq({}) /\ DOMAIN <<>> = {}
  <2>1. <<>> \in Seq({}) /\ Len(<<>>) = 0
    OBVIOUS
  <2> QED BY <2>1
<1> QED BY <1>1 DEF Init, TextFits, TreeInv, ScanInv, IsTree, IndentsPartials

\* The renderer's check of indentation metadata (validatePartialIndentation) passes for every
\* tree that tokenize builds, half or whole, whatever the template and the limits.
THEOREM MetadataAlwaysPrecedesPartial == Spec => []MetadataPrecedesPartial
<1> DEFINE I == TextFits /\ TreeInv /\ ScanInv /\ (scanning => outcome = "none")
<1>1. I /\ [Next]_vars => I'
  BY TextFitsNext, TreesNext
<1>2. I => MetadataPrecedesPartial
  BY DEF TreeInv, MetadataPrecedesPartial
<1>3. Init => I
  BY TreesInit
<1> HIDE DEF I
<1> QED BY <1>1, <1>2, <1>3, PTL DEF Spec

LEMMA Least ==
    ASSUME NEW S \in SUBSET Nat, S # {}
    PROVE  \E x \in S : \A y \in S : x <= y
<1> DEFINE R == {ss \in Nat \X Nat : ss[1] < ss[2]}
<1>1. IsWellFoundedOn(R, Nat)
  BY NatLessThanWellFounded DEF OpToRel
<1>2. PICK x \in S : \A y \in S : ~ (<<y, x>> \in R)
  <2> HIDE DEF R
  <2> QED BY <1>1, WFMin, Zenon
<1>3. \A y \in S : ~ (y < x)
  BY <1>2
<1> QED BY <1>3

\* The recursive length of a path is the level of the node it leads to: the levels solve the
\* recursion's equation, and no node is the first at which two solutions differ.
LEMMA PathLengthIsLevel ==
    ASSUME IsTree(root), NEW n, NEW d \in Levels(root, n), NEW k \in DOMAIN root
    PROVE  PathLength[k] = d[k]
<1> DEFINE D == {0} \cup DOMAIN root
           Solves(f) == f = [x \in D |-> IF x = 0 THEN 1 ELSE 1 + f[root[x].parent]]
<1>1. Len(root) \in Nat /\ DOMAIN root = 1..Len(root) /\ D = 0..Len(root)
  BY DEF IsTree
<1>2. \A x \in DOMAIN root : root[x].parent \in D /\ root[x].parent < x /\ x \in Nat /\ x # 0
  BY <1>1 DEF IsTree
<1>3. d \in [D -> Nat] /\ d[0] = 1 /\ \A x \in DOMAIN root : d[x] = d[root[x].parent] + 1
  BY <1>1 DEF Levels
<1>4. Solves(d)
  <2>1. \A x \in D : d[x] = IF x = 0 THEN 1 ELSE 1 + d[root[x].parent]
    <3>1. ASSUME NEW x \in DOMAIN root PROVE d[x] = 1 + d[root[x].parent]
      <4>1. d[root[x].parent] \in Nat
        BY <1>2, <1>3
      <4> QED BY <1>3, <4>1
    <3> QED BY <1>2, <1>3, <3>1
  <2> QED BY <1>3, <2>1
<1>5. PathLength = CHOOSE f : Solves(f)
  BY DEF PathLength
<1>6. PICK f : f = CHOOSE g : Solves(g)
  OBVIOUS
<1>7. Solves(f)
  <2> HIDE DEF Solves
  <2> QED BY <1>4, <1>6
<1>8. ASSUME NEW x \in D, f[x] # d[x] PROVE FALSE
  <2> DEFINE Bad == {y \in D : f[y] # d[y]}
  <2>1. PICK y \in Bad : \A z \in Bad : y <= z
    <3>1. Bad \in SUBSET Nat /\ Bad # {}
      BY <1>1, <1>8
    <3> HIDE DEF Bad
    <3> QED BY <3>1, Least
  <2>2. y \in D /\ f[y] # d[y] /\ y \in Nat
    BY <1>1, <2>1
  <2>3. f[y] = (IF y = 0 THEN 1 ELSE 1 + f[root[y].parent]) /\ d[y] = IF y = 0 THEN 1 ELSE 1 + d[root[y].parent]
    BY <1>4, <1>7, <2>2
  <2>4. y # 0 /\ y \in DOMAIN root
    BY <2>2, <2>3
  <2>5. root[y].parent \in D /\ root[y].parent < y /\ root[y].parent \in Nat
    BY <1>1, <1>2, <2>4
  <2>6. root[y].parent \notin Bad
    <3> HIDE DEF Bad
    <3> QED BY <2>1, <2>2, <2>5
  <2>7. f[root[y].parent] = d[root[y].parent]
    BY <2>5, <2>6
  <2> QED BY <2>2, <2>3, <2>4, <2>7
<1>9. PathLength = f
  BY <1>5, <1>6
<1> QED BY <1>8, <1>9

\* "Default serialization permits 64 nodes along a root-to-leaf path" (tokenizer.cpp:91): no
\* accepted tree has a longer path than the nesting limit and two more nodes.
THEOREM PathsAlwaysFitSerializer == Spec => []PathsFitSerializer
<1> DEFINE I == TextFits /\ TreeInv /\ ScanInv /\ (scanning => outcome = "none")
<1>1. I /\ [Next]_vars => I'
  BY TextFitsNext, TreesNext
<1>2. I => PathsFitSerializer
  <2> SUFFICES ASSUME TreeInv, outcome = "accepted", NEW k \in DOMAIN root
               PROVE  PathLength[k] <= limits.nesting + 2
    BY DEF PathsFitSerializer
  <2>1. IsTree(root) /\ \E d \in Levels(root, limits.nesting + 2) : TRUE
    BY DEF TreeInv
  <2>2. PICK n : n = limits.nesting + 2
    OBVIOUS
  <2>3. PICK d \in Levels(root, n) : TRUE
    BY <2>1, <2>2
  <2>4. d[k] <= n
    BY <2>3 DEF Levels
  <2>5. PathLength[k] = d[k]
    BY <2>1, <2>3, PathLengthIsLevel
  <2> QED BY <2>2, <2>4, <2>5
<1>3. Init => I
  BY TreesInit
<1> HIDE DEF I
<1> QED BY <1>1, <1>2, <1>3, PTL DEF Spec

-----------------------------------------------------------------------------
(* Acceptance *)

LEMMA SameTemplate ==
    ASSUME UNCHANGED <<template, sequences>>
    PROVE  Tags' = Tags /\ Size(Tags)' = Size(Tags)
<1>1. PairAt' = PairAt
  BY DEF PairAt
<1>2. Tags' = Tags
  BY <1>1 DEF Tags, Positions
<1>3. Size(Tags)' = Size(Tags)
  <2>1. Standalones(Tags)' = Standalones(Tags) /\ \A i : Line(i, Tags)' = Line(i, Tags)
    BY <1>2 DEF Standalones, Standalone, Line, EndsLine, Positions
  <2>2. TextSites(Tags)' = TextSites(Tags)
    BY <1>2, <2>1 DEF TextSites, TextBefore, Hidden, Positions
  <2>3. TagSites(Tags)' = TagSites(Tags)
    BY <1>2 DEF TagSites, TagType
  <2>4. RestSites(Tags)' = RestSites(Tags)
    BY <2>1 DEF RestSites, RestOf
  <2> QED BY <2>1, <2>2, <2>3, <2>4 DEF Size
<1> QED BY <1>2, <1>3

LEMMA Places ==
    ASSUME template \in Seq(Lexemes)
    PROVE  /\ Len(template) \in Nat /\ Positions = 1..Len(template)
           /\ Tags \subseteq 1..Len(template) /\ Tags \subseteq Nat /\ IsFiniteSet(Tags)
           /\ \A i \in Tags : template[i].kind = "tag"
<1>1. Len(template) \in Nat /\ Positions = 1..Len(template)
  BY DEF Positions
<1>2. Tags \subseteq 1..Len(template) /\ (\A i \in Tags : template[i].kind = "tag")
  BY <1>1 DEF Tags
<1>3. IsFiniteSet(1..Len(template))
  <2>1. 1 \in Int /\ Len(template) \in Int
    BY <1>1
  <2> QED BY <2>1, FS_Interval
<1>4. IsFiniteSet(Tags)
  BY <1>2, <1>3, FS_Subset
<1> QED BY <1>1, <1>2, <1>4

\* The recursive function of the delimiters in force satisfies its equation: solutions up to a
\* position extend to the next one, and no position is the first that none reaches.
LEMMA PairMeans ==
    ASSUME template \in Seq(Lexemes)
    PROVE  /\ PairAt[1] = sequences
           /\ \A i \in 1..Len(template) :
                 PairAt[i + 1] = IF i \in Tags /\ TagType(i) = "Delimiters" THEN template[i].name ELSE PairAt[i]
<1>n. PICK n : n = Len(template)
  OBVIOUS
<1> DEFINE step(f, i) ==
               IF i = 1 THEN sequences
               ELSE IF /\ template[i - 1].kind = "tag" /\ template[i - 1].pair = f[i - 1]
                       /\ TypeOfSigil(template[i - 1].sigil) = "Delimiters"
                    THEN template[i - 1].name ELSE f[i - 1]
           Solves(f, p) == f = [i \in 1..p |-> step(f, i)]
           Unsolved == {p \in 0..(n + 1) : ~\E f : Solves(f, p)}
<1>1. n \in Nat
  BY <1>n
<1>2. Unsolved = {}
  <2> SUFFICES ASSUME Unsolved # {} PROVE FALSE
    OBVIOUS
  <2>1. Unsolved \in SUBSET Nat
    BY <1>1
  <2>2. PICK p \in Unsolved : \A q \in Unsolved : p <= q
    <3> HIDE DEF Unsolved
    <3> QED BY <2>1, Least
  <2>3. p \in 0..(n + 1) /\ p # 0
    <3>1. Solves([i \in 1..0 |-> 0], 0)
      OBVIOUS
    <3> QED BY <2>2, <3>1
  <2>4. p - 1 \in 0..(n + 1) /\ p - 1 \notin Unsolved
    <3>1. p - 1 \in 0..(n + 1) /\ ~(p <= p - 1)
      BY <1>1, <2>3
    <3> HIDE DEF Unsolved
    <3> QED BY <2>2, <3>1
  <2>5. PICK f : Solves(f, p - 1)
    BY <2>4
  <2> DEFINE g == [i \in 1..p |-> IF i = p THEN step(f, i) ELSE f[i]]
  <2>6. \A i \in 1..p : g[i] = step(f, i)
    <3> SUFFICES ASSUME NEW i \in 1..p PROVE g[i] = step(f, i)
      OBVIOUS
    <3>1. CASE i = p
      BY <3>1
    <3>2. CASE i # p
      <4>1. i \in 1..(p - 1)
        BY <2>3, <3>2
      <4>2. f[i] = step(f, i)
        <5> HIDE DEF step
        <5> QED BY <2>5, <4>1
      <4> HIDE DEF step
      <4> QED BY <3>2, <4>2
    <3> QED BY <3>1, <3>2
  <2>7. \A i \in 1..p : step(g, i) = step(f, i)
    <3> SUFFICES ASSUME NEW i \in 1..p, i # 1 PROVE g[i - 1] = f[i - 1]
      OBVIOUS
    <3>1. i - 1 \in 1..p /\ i - 1 # p
      BY <2>3
    <3> QED BY <3>1
  <2>8. g = [i \in 1..p |-> g[i]]
    OBVIOUS
  <2> HIDE DEF g, step
  <2>9. Solves(g, p)
    BY <2>6, <2>7, <2>8
  <2>10. ~\E h : Solves(h, p)
    BY <2>2
  <2> HIDE DEF Solves
  <2> QED BY <2>9, <2>10
<1>3. n + 1 \in 0..(n + 1) /\ n + 1 \notin Unsolved
  <2> HIDE DEF Unsolved
  <2> QED BY <1>1, <1>2
<1>4. PICK f : Solves(f, n + 1)
  BY <1>3
<1>5. PairAt = CHOOSE g : g = [i \in 1..(n + 1) |-> step(g, i)]
  BY <1>n DEF PairAt
<1>6. PICK b : b = PairAt
  OBVIOUS
<1>7. b = [i \in 1..(n + 1) |-> step(b, i)]
  BY <1>4, <1>5, <1>6
<1>8. \A i \in 1..(n + 1) : b[i] = step(b, i)
  BY <1>7
<1>9. b[1] = sequences
  BY <1>1, <1>8
<1>10. ASSUME NEW i \in 1..n
       PROVE  b[i + 1] = IF i \in Tags /\ TagType(i) = "Delimiters" THEN template[i].name ELSE b[i]
  <2>1. i + 1 \in 1..(n + 1) /\ i + 1 # 1 /\ (i + 1) - 1 = i
    BY <1>1
  <2>2. b[i + 1] = step(b, i + 1)
    <3> HIDE DEF step
    <3> QED BY <1>8, <2>1
  <2>3. i \in Tags <=> template[i].kind = "tag" /\ template[i].pair = b[i]
    BY <1>n, <1>6 DEF Tags, Positions
  <2> QED BY <2>1, <2>2, <2>3 DEF TagType
<1> QED BY <1>n, <1>6, <1>9, <1>10

\* Between tags the delimiters stay what they are; a tag may change them.
LEMMA PairStays ==
    ASSUME template \in Seq(Lexemes), NEW a \in 1..(Len(template) + 1), NEW b \in a..(Len(template) + 1),
           \A i \in a..(b - 1) : i \notin Tags
    PROVE  PairAt[b] = PairAt[a]
<1>n. PICK n : n = Len(template)
  OBVIOUS
<1>f. PICK f : f = PairAt
  OBVIOUS
<1>1. n \in Nat /\ a \in 1..(n + 1) /\ b \in a..(n + 1)
  BY <1>n
<1>2. \A i \in 1..n : i \notin Tags => f[i + 1] = f[i]
  BY <1>n, <1>f, PairMeans
<1> DEFINE Bad == {x \in a..b : f[x] # f[a]}
<1> SUFFICES ASSUME Bad # {} PROVE FALSE
  BY <1>1, <1>f
<1>3. PICK x \in Bad : \A y \in Bad : x <= y
  <2>1. Bad \in SUBSET Nat
    BY <1>1
  <2> HIDE DEF Bad
  <2> QED BY <2>1, Least
<1>4. x \in a..b /\ x # a
  BY <1>3
<1>5. x - 1 \in a..b /\ x - 1 \in 1..n /\ x - 1 \in a..(b - 1) /\ (x - 1) + 1 = x /\ ~(x <= x - 1)
  BY <1>1, <1>4
<1>6. x - 1 \notin Bad
  <2> HIDE DEF Bad
  <2> QED BY <1>3, <1>5
<1>7. f[x] = f[x - 1]
  BY <1>2, <1>5
<1> QED BY <1>3, <1>5, <1>6, <1>7

-----------------------------------------------------------------------------
(* Counting *)

Upto(X, i, j) == {k \in X : i <= k /\ k <= j}

LEMMA UptoStep ==
    ASSUME NEW X \in SUBSET Nat, IsFiniteSet(X), NEW i \in Nat, NEW q \in Nat \ {0}, i <= q
    PROVE  /\ Cardinality(Upto(X, i, q - 1)) \in Nat
           /\ q \in X => Cardinality(Upto(X, i, q)) = Cardinality(Upto(X, i, q - 1)) + 1
           /\ q \notin X => Cardinality(Upto(X, i, q)) = Cardinality(Upto(X, i, q - 1))
<1>s. PICK S : S = Upto(X, i, q - 1)
  OBVIOUS
<1>1. S \subseteq X /\ q \notin S
  BY <1>s DEF Upto
<1>2. IsFiniteSet(S) /\ Cardinality(S) \in Nat
  BY <1>1, FS_Subset, FS_CardinalityType
<1>3. Upto(X, i, q) = IF q \in X THEN S \cup {q} ELSE S
  <2>1. \A k \in X : k <= q <=> k <= q - 1 \/ k = q
    OBVIOUS
  <2>2. CASE q \in X
    BY <2>1, <2>2, <1>s DEF Upto
  <2>3. CASE q \notin X
    BY <2>1, <2>3, <1>s DEF Upto
  <2> QED BY <2>2, <2>3
<1>4. Cardinality(S \cup {q}) = Cardinality(S) + 1
  BY <1>1, <1>2, FS_AddElement
<1> QED BY <1>2, <1>3, <1>4, <1>s

LEMMA UptoStill ==
    ASSUME NEW X \in SUBSET Nat, NEW i \in Nat, NEW a \in Nat, NEW b \in Nat, a <= b,
           \A k \in (a + 1)..b : k \notin X
    PROVE  Upto(X, i, b) = Upto(X, i, a)
<1>1. \A k \in X : k <= b <=> k <= a
  <2>1. \A k \in X : k \in Nat
    OBVIOUS
  <2> QED BY <2>1
<1> QED BY <1>1 DEF Upto

LEMMA UptoAll ==
    ASSUME NEW X \in SUBSET Nat, IsFiniteSet(X), NEW i \in Nat, NEW b \in Nat, \A k \in X : i <= k
    PROVE  /\ Cardinality(Upto(X, i, b)) \in Nat /\ Cardinality(X) \in Nat
           /\ Cardinality(Upto(X, i, b)) <= Cardinality(X)
           /\ (\A k \in X : k <= b) => Upto(X, i, b) = X
<1>1. Upto(X, i, b) \in SUBSET X
  BY DEF Upto
<1>2. Cardinality(Upto(X, i, b)) <= Cardinality(X) /\ IsFiniteSet(Upto(X, i, b))
  BY <1>1, FS_Subset
<1>3. (\A k \in X : k <= b) => Upto(X, i, b) = X
  BY DEF Upto
<1> QED BY <1>2, <1>3, FS_CardinalityType

-----------------------------------------------------------------------------
(* Brackets *)

OpeningTags == {k \in Tags : TagType(k) \in Sections}
StopTags == {k \in Tags : TagType(k) = "Stop"}
\* The positions of the sections that are open at p, the innermost last.
Brackets(st, p) ==
    /\ st \in Seq(Nat)
    /\ \A k \in 1..Len(st) :
          /\ st[k] \in OpeningTags /\ st[k] < p
          /\ Openings(Tags, st[k], p - 1) = Closings(Tags, st[k], p - 1) + (Len(st) - k + 1)
    /\ \A k, l \in 1..Len(st) : k < l => st[k] < st[l]
    /\ Enclosing(Tags, p) = {st[k] : k \in 1..Len(st)}

LEMMA Counts ==
    ASSUME template \in Seq(Lexemes), NEW i \in Nat, NEW q \in Nat \ {0}, i <= q
    PROVE  /\ Openings(Tags, i, q - 1) \in Nat /\ Closings(Tags, i, q - 1) \in Nat
           /\ q \in OpeningTags => Openings(Tags, i, q) = Openings(Tags, i, q - 1) + 1
           /\ q \notin OpeningTags => Openings(Tags, i, q) = Openings(Tags, i, q - 1)
           /\ q \in StopTags => Closings(Tags, i, q) = Closings(Tags, i, q - 1) + 1
           /\ q \notin StopTags => Closings(Tags, i, q) = Closings(Tags, i, q - 1)
<1>1. /\ OpeningTags \in SUBSET Nat /\ IsFiniteSet(OpeningTags)
      /\ StopTags \in SUBSET Nat /\ IsFiniteSet(StopTags)
  <2>1. Tags \subseteq Nat /\ IsFiniteSet(Tags)
    BY Places
  <2>2. OpeningTags \in SUBSET Tags /\ StopTags \in SUBSET Tags
    BY DEF OpeningTags, StopTags
  <2> QED BY <2>1, <2>2, FS_Subset
<1>2. \A j : Openings(Tags, i, j) = Cardinality(Upto(OpeningTags, i, j)) /\ Closings(Tags, i, j) = Cardinality(Upto(StopTags, i, j))
  <2>1. \A j : {k \in Tags : i <= k /\ k <= j /\ TagType(k) \in Sections} = Upto(OpeningTags, i, j)
    BY DEF Upto, OpeningTags
  <2>2. \A j : {k \in Tags : i <= k /\ k <= j /\ TagType(k) = "Stop"} = Upto(StopTags, i, j)
    BY DEF Upto, StopTags
  <2> QED BY <2>1, <2>2 DEF Openings, Closings
<1>3. PICK X : X = OpeningTags
  OBVIOUS
<1>4. PICK Y : Y = StopTags
  OBVIOUS
<1>5. /\ Cardinality(Upto(X, i, q - 1)) \in Nat
      /\ q \in X => Cardinality(Upto(X, i, q)) = Cardinality(Upto(X, i, q - 1)) + 1
      /\ q \notin X => Cardinality(Upto(X, i, q)) = Cardinality(Upto(X, i, q - 1))
  <2>1. X \in SUBSET Nat /\ IsFiniteSet(X) /\ i \in Nat /\ q \in Nat \ {0} /\ i <= q
    BY <1>1, <1>3
  <2> QED BY <2>1, UptoStep
<1>6. /\ Cardinality(Upto(Y, i, q - 1)) \in Nat
      /\ q \in Y => Cardinality(Upto(Y, i, q)) = Cardinality(Upto(Y, i, q - 1)) + 1
      /\ q \notin Y => Cardinality(Upto(Y, i, q)) = Cardinality(Upto(Y, i, q - 1))
  <2>1. Y \in SUBSET Nat /\ IsFiniteSet(Y) /\ i \in Nat /\ q \in Nat \ {0} /\ i <= q
    BY <1>1, <1>4
  <2> QED BY <2>1, UptoStep
<1> QED BY <1>2, <1>3, <1>4, <1>5, <1>6

LEMMA CountsStill ==
    ASSUME template \in Seq(Lexemes), NEW i \in Nat, NEW a \in Nat, NEW b \in Nat, a <= b,
           \A k \in (a + 1)..b : k \notin OpeningTags /\ k \notin StopTags
    PROVE  Openings(Tags, i, b) = Openings(Tags, i, a) /\ Closings(Tags, i, b) = Closings(Tags, i, a)
<1>1. \A k \in Tags : k \in Nat
  BY Places
<1>2. \A k \in Tags : k <= b /\ ~(k <= a) => k \in (a + 1)..b
  BY <1>1
<1>3. \A k \in Tags : TagType(k) \in Sections \/ TagType(k) = "Stop" => (k <= b <=> k <= a)
  <2>1. \A k \in Tags : k <= a => k <= b
    BY <1>1
  <2> QED BY <1>2, <2>1 DEF OpeningTags, StopTags
<1>4. {k \in Tags : i <= k /\ k <= b /\ TagType(k) \in Sections} = {k \in Tags : i <= k /\ k <= a /\ TagType(k) \in Sections}
  BY <1>3
<1>5. {k \in Tags : i <= k /\ k <= b /\ TagType(k) = "Stop"} = {k \in Tags : i <= k /\ k <= a /\ TagType(k) = "Stop"}
  BY <1>3
<1> QED BY <1>4, <1>5 DEF Openings, Closings

\* A section is open at the next position if it was open or begins here, and this does not end it.
LEMMA EnclosingNext ==
    ASSUME template \in Seq(Lexemes), NEW p \in Nat \ {0}, NEW i
    PROVE  i \in Enclosing(Tags, p + 1) <=>
               /\ i \in Enclosing(Tags, p) \/ (i = p /\ i \in OpeningTags)
               /\ Openings(Tags, i, p) > Closings(Tags, i, p)
<1>1. \A k \in Tags : k \in Nat
  BY Places
<1>2. ASSUME i \in OpeningTags, i < p PROVE i \in Enclosing(Tags, p + 1) <=> i \in Enclosing(Tags, p) /\ Openings(Tags, i, p) > Closings(Tags, i, p)
  <2>1. i \in Nat /\ i \in Tags /\ TagType(i) \in Sections
    BY <1>1, <1>2 DEF OpeningTags
  <2>2. i < p + 1 /\ (p + 1) - 1 = p /\ p \in i..p /\ i..(p - 1) \subseteq i..p /\ \A k \in i..p : k \in i..(p - 1) \/ k = p
    BY <1>2, <2>1
  <2> QED BY <1>2, <2>1, <2>2 DEF Enclosing
<1>3. ASSUME i \in OpeningTags, i = p PROVE i \in Enclosing(Tags, p + 1) <=> Openings(Tags, i, p) > Closings(Tags, i, p)
  <2>1. i < p + 1 /\ (p + 1) - 1 = p /\ \A k : k \in i..p <=> k = p
    BY <1>3
  <2> QED BY <1>3, <2>1 DEF Enclosing, OpeningTags
<1>4. i \in Enclosing(Tags, p) => i \in OpeningTags /\ i < p
  BY DEF Enclosing, OpeningTags
<1>5. i \in Enclosing(Tags, p + 1) => i \in OpeningTags /\ (i < p \/ i = p)
  <2>1. i \in Enclosing(Tags, p + 1) => i \in OpeningTags /\ i < p + 1
    BY DEF Enclosing, OpeningTags
  <2>2. i \in OpeningTags => i \in Nat
    BY <1>1 DEF OpeningTags
  <2> QED BY <2>1, <2>2
<1> QED BY <1>2, <1>3, <1>4, <1>5

LEMMA CountsNone ==
    ASSUME template \in Seq(Lexemes), NEW p \in Nat \ {0}
    PROVE  Openings(Tags, p, p - 1) = 0 /\ Closings(Tags, p, p - 1) = 0
<1>1. \A k \in Tags : ~(p <= k /\ k <= p - 1)
  <2>1. \A k \in Tags : k \in Nat
    BY Places
  <2> QED BY <2>1
<1>2. /\ {k \in Tags : p <= k /\ k <= p - 1 /\ TagType(k) \in Sections} = {}
      /\ {k \in Tags : p <= k /\ k <= p - 1 /\ TagType(k) = "Stop"} = {}
  BY <1>1
<1> QED BY <1>2, FS_EmptySet DEF Openings, Closings

\* The same with the height of the stack and the position before p given.
BracketsAt(st, h, p, q) ==
    /\ st \in Seq(Nat) /\ h = Len(st) /\ q = p - 1
    /\ \A k \in 1..h : /\ st[k] \in OpeningTags /\ st[k] < p
                      /\ Openings(Tags, st[k], q) = Closings(Tags, st[k], q) + (h - k + 1)
    /\ \A k, l \in 1..h : k < l => st[k] < st[l]
    /\ Enclosing(Tags, p) = {st[k] : k \in 1..h}

LEMMA BracketsAre ==
    ASSUME NEW st, NEW h, NEW p, NEW q, BracketsAt(st, h, p, q)
    PROVE  Brackets(st, p)
<1>1. st \in Seq(Nat) /\ h = Len(st) /\ q = p - 1 /\ Enclosing(Tags, p) = {st[k] : k \in 1..h}
  BY DEF BracketsAt
<1>2. \A k \in 1..h : /\ st[k] \in OpeningTags /\ st[k] < p
                     /\ Openings(Tags, st[k], q) = Closings(Tags, st[k], q) + (h - k + 1)
  BY DEF BracketsAt
<1>3. \A k, l \in 1..h : k < l => st[k] < st[l]
  BY DEF BracketsAt
<1> QED BY <1>1, <1>2, <1>3 DEF Brackets

\* A section that begins is the innermost one.
LEMMA BracketsPush ==
    ASSUME template \in Seq(Lexemes), NEW p \in Nat \ {0}, NEW st, Brackets(st, p), p \in OpeningTags
    PROVE  Brackets(Append(st, p), p + 1)
<1>h. PICK h : h = Len(st)
  OBVIOUS
<1>s. PICK s : s = Append(st, p)
  OBVIOUS
<1>1. /\ h \in Nat /\ st \in Seq(Nat) /\ DOMAIN st = 1..h
      /\ \A k \in 1..h : st[k] \in Nat /\ st[k] \in OpeningTags /\ st[k] < p
  BY <1>h DEF Brackets
<1>2. s \in Seq(Nat) /\ Len(s) = h + 1 /\ s[h + 1] = p /\ \A k \in 1..h : s[k] = st[k]
  BY <1>1, <1>h, <1>s
<1>3. (p + 1) - 1 = p /\ p \notin StopTags
  BY DEF OpeningTags, StopTags, Sections
<1>4. ASSUME NEW k \in 1..h
      PROVE  /\ Openings(Tags, st[k], p) = Closings(Tags, st[k], p) + ((h + 1) - k + 1)
             /\ Openings(Tags, st[k], p) > Closings(Tags, st[k], p)
  <2>1. st[k] \in Nat /\ st[k] <= p
    BY <1>1
  <2>2. /\ Openings(Tags, st[k], p - 1) \in Nat /\ Closings(Tags, st[k], p - 1) \in Nat
        /\ Openings(Tags, st[k], p) = Openings(Tags, st[k], p - 1) + 1
        /\ Closings(Tags, st[k], p) = Closings(Tags, st[k], p - 1)
    BY <2>1, <1>3, Counts
  <2>3. Openings(Tags, st[k], p - 1) = Closings(Tags, st[k], p - 1) + (h - k + 1)
    BY <1>h DEF Brackets
  <2> QED BY <1>1, <2>2, <2>3, SMTT(30)
<1>5. Openings(Tags, p, p) = 1 /\ Closings(Tags, p, p) = 0
  <2>1. p \in Nat /\ p <= p
    OBVIOUS
  <2>2. Openings(Tags, p, p) = Openings(Tags, p, p - 1) + 1 /\ Closings(Tags, p, p) = Closings(Tags, p, p - 1)
    BY <2>1, <1>3, Counts
  <2> QED BY <2>2, CountsNone
<1>6. \A k \in 1..(h + 1) : k \in 1..h \/ k = h + 1
  BY <1>1
<1>7. ASSUME NEW k \in 1..(h + 1)
      PROVE  /\ s[k] \in OpeningTags /\ s[k] < p + 1
             /\ Openings(Tags, s[k], p) = Closings(Tags, s[k], p) + ((h + 1) - k + 1)
             /\ Openings(Tags, s[k], p) > Closings(Tags, s[k], p)
  <2>1. CASE k \in 1..h
    <3>1. st[k] \in Nat /\ st[k] < p /\ st[k] \in OpeningTags
      BY <1>1, <2>1
    <3>2. st[k] < p + 1
      BY <3>1
    <3> QED BY <1>2, <1>4, <2>1, <3>1, <3>2
  <2>2. CASE k = h + 1
    <3>1. (h + 1) - k + 1 = 1 /\ p < p + 1
      BY <1>1, <2>2
    <3> QED BY <1>2, <1>5, <2>2, <3>1
  <2> QED BY <1>6, <2>1, <2>2
<1>8. \A k, l \in 1..(h + 1) : k < l => s[k] < s[l]
  <2>1. \A k, l \in 1..h : k < l => st[k] < st[l]
    BY <1>h DEF Brackets
  <2>2. SUFFICES ASSUME NEW k \in 1..(h + 1), NEW l \in 1..(h + 1), k < l PROVE s[k] < s[l]
    OBVIOUS
  <2>3. k \in 1..h
    BY <1>1, <2>2
  <2>4. CASE l \in 1..h
    BY <1>2, <2>1, <2>2, <2>3, <2>4
  <2>5. CASE l = h + 1
    BY <1>1, <1>2, <2>3, <2>5
  <2> QED BY <1>6, <2>4, <2>5
<1>9. Enclosing(Tags, p + 1) = {s[k] : k \in 1..(h + 1)}
  <2>1. Enclosing(Tags, p) = {st[k] : k \in 1..h}
    BY <1>h DEF Brackets
  <2>2. ASSUME NEW i PROVE i \in Enclosing(Tags, p + 1) <=> \E k \in 1..(h + 1) : i = s[k]
    <3>1. i \in Enclosing(Tags, p) \/ i = p <=> \E k \in 1..(h + 1) : i = s[k]
      <4>1. h + 1 \in 1..(h + 1) /\ \A k \in 1..h : k \in 1..(h + 1)
        BY <1>1
      <4> QED BY <4>1, <1>2, <1>6, <2>1
    <3>2. (\E k \in 1..(h + 1) : i = s[k]) => Openings(Tags, i, p) > Closings(Tags, i, p)
      BY <1>7
    <3> QED BY <3>1, <3>2, EnclosingNext
  <2> QED BY <2>2
<1>10. Brackets(s, p + 1)
  <2>1. PICK m : m = h + 1
    OBVIOUS
  <2>2. PICK e : e = p + 1
    OBVIOUS
  <2>3. s \in Seq(Nat) /\ m = Len(s) /\ p = e - 1
    BY <1>2, <1>3, <2>1, <2>2
  <2>4. \A k \in 1..m : /\ s[k] \in OpeningTags /\ s[k] < e
                        /\ Openings(Tags, s[k], p) = Closings(Tags, s[k], p) + (m - k + 1)
    BY <1>7, <2>1, <2>2
  <2>5. (\A k, l \in 1..m : k < l => s[k] < s[l]) /\ Enclosing(Tags, e) = {s[k] : k \in 1..m}
    BY <1>8, <1>9, <2>1, <2>2
  <2>6. BracketsAt(s, m, e, p)
    BY <2>3, <2>4, <2>5 DEF BracketsAt
  <2>7. Brackets(s, e)
    BY <2>6, BracketsAre
  <2> QED BY <2>2, <2>7
<1> QED BY <1>10, <1>s

\* A closing tag ends the innermost section.
LEMMA BracketsPop ==
    ASSUME template \in Seq(Lexemes), NEW p \in Nat \ {0}, NEW st, Brackets(st, p), p \in StopTags, st # <<>>
    PROVE  /\ Brackets(SubSeq(st, 1, Len(st) - 1), p + 1)
           /\ st[Len(st)] \notin Enclosing(Tags, p + 1)
<1>h. PICK h : h = Len(st)
  OBVIOUS
<1>s. PICK s : s = SubSeq(st, 1, h - 1)
  OBVIOUS
<1>1. /\ h \in Nat \ {0} /\ st \in Seq(Nat) /\ DOMAIN st = 1..h
      /\ \A k \in 1..h : st[k] \in Nat /\ st[k] \in OpeningTags /\ st[k] < p
  BY <1>h DEF Brackets
<1>2. /\ s \in Seq(Nat) /\ Len(s) = h - 1 /\ 1..(h - 1) \subseteq 1..h /\ h \in 1..h
      /\ (\A k \in 1..(h - 1) : s[k] = st[k]) /\ \A k \in 1..h : k \in 1..(h - 1) \/ k = h
  BY <1>1, <1>s
<1>3. (p + 1) - 1 = p /\ p \notin OpeningTags
  BY DEF OpeningTags, StopTags, Sections
<1>4. ASSUME NEW k \in 1..h
      PROVE  /\ Openings(Tags, st[k], p) = Closings(Tags, st[k], p) + ((h - 1) - k + 1)
             /\ Openings(Tags, st[k], p) > Closings(Tags, st[k], p) <=> k # h
  <2>1. st[k] \in Nat /\ st[k] <= p
    BY <1>1
  <2>2. /\ Openings(Tags, st[k], p - 1) \in Nat /\ Closings(Tags, st[k], p - 1) \in Nat
        /\ Openings(Tags, st[k], p) = Openings(Tags, st[k], p - 1)
        /\ Closings(Tags, st[k], p) = Closings(Tags, st[k], p - 1) + 1
    BY <2>1, <1>3, Counts
  <2>3. Openings(Tags, st[k], p - 1) = Closings(Tags, st[k], p - 1) + (h - k + 1)
    BY <1>h DEF Brackets
  <2> QED BY <1>1, <2>2, <2>3
<1>5. \A k, l \in 1..h : k < l => st[k] < st[l]
  BY <1>h DEF Brackets
<1>6. Enclosing(Tags, p) = {st[k] : k \in 1..h}
  BY <1>h DEF Brackets
<1>7. \A i : i \in Enclosing(Tags, p + 1) <=> i \in Enclosing(Tags, p) /\ Openings(Tags, i, p) > Closings(Tags, i, p)
  BY <1>3, EnclosingNext
<1>8. Enclosing(Tags, p + 1) = {s[k] : k \in 1..(h - 1)}
  <2>1. ASSUME NEW i PROVE i \in Enclosing(Tags, p + 1) <=> \E k \in 1..(h - 1) : i = s[k]
    <3>1. ASSUME NEW k \in 1..h PROVE st[k] \in Enclosing(Tags, p + 1) <=> k # h
      BY <1>4, <1>6, <1>7
    <3>2. i \in Enclosing(Tags, p + 1) => \E k \in 1..h : i = st[k]
      BY <1>6, <1>7
    <3>3. ASSUME NEW k \in 1..(h - 1) PROVE k # h
      BY <1>1
    <3> QED BY <1>2, <3>1, <3>2, <3>3
  <2> QED BY <2>1
<1>9. st[h] \notin Enclosing(Tags, p + 1)
  BY <1>2, <1>4, <1>7
<1>10. \A k \in 1..(h - 1) :
          /\ s[k] \in OpeningTags /\ s[k] < p + 1
          /\ Openings(Tags, s[k], p) = Closings(Tags, s[k], p) + ((h - 1) - k + 1)
  <2> SUFFICES ASSUME NEW k \in 1..(h - 1)
               PROVE  /\ s[k] \in OpeningTags /\ s[k] < p + 1
                      /\ Openings(Tags, s[k], p) = Closings(Tags, s[k], p) + ((h - 1) - k + 1)
    OBVIOUS
  <2>1. k \in 1..h /\ s[k] = st[k] /\ st[k] < p + 1
    BY <1>1, <1>2
  <2> QED BY <1>1, <1>4, <2>1
<1>11. \A k, l \in 1..(h - 1) : k < l => s[k] < s[l]
  BY <1>2, <1>5
<1>12. Brackets(s, p + 1)
  <2>1. PICK m : m = h - 1
    OBVIOUS
  <2>2. PICK e : e = p + 1
    OBVIOUS
  <2>3. s \in Seq(Nat) /\ m = Len(s) /\ p = e - 1
    BY <1>2, <1>3, <2>1, <2>2
  <2>4. \A k \in 1..m : /\ s[k] \in OpeningTags /\ s[k] < e
                        /\ Openings(Tags, s[k], p) = Closings(Tags, s[k], p) + (m - k + 1)
    BY <1>10, <2>1, <2>2
  <2>5. (\A k, l \in 1..m : k < l => s[k] < s[l]) /\ Enclosing(Tags, e) = {s[k] : k \in 1..m}
    BY <1>8, <1>11, <2>1, <2>2
  <2>6. BracketsAt(s, m, e, p)
    BY <2>3, <2>4, <2>5 DEF BracketsAt
  <2>7. Brackets(s, e)
    BY <2>6, BracketsAre
  <2> QED BY <2>2, <2>7
<1> QED BY <1>9, <1>12, <1>s, <1>h

\* Nothing else changes which sections are open.
CountsKeep(p, q) ==
    \A i \in Nat, k \in (p - 1)..(q - 1) :
        Openings(Tags, i, k) = Openings(Tags, i, p - 1) /\ Closings(Tags, i, k) = Closings(Tags, i, p - 1)
LEMMA EnclosingKeeps ==
    ASSUME template \in Seq(Lexemes), NEW p \in Nat \ {0}, NEW q \in Nat, p <= q,
           \A k \in p..(q - 1) : k \notin OpeningTags /\ k \notin StopTags
    PROVE  CountsKeep(p, q) /\ Enclosing(Tags, q) = Enclosing(Tags, p)
<1>1. ASSUME NEW i \in Nat, NEW k \in (p - 1)..(q - 1)
      PROVE  Openings(Tags, i, k) = Openings(Tags, i, p - 1) /\ Closings(Tags, i, k) = Closings(Tags, i, p - 1)
  <2>1. p - 1 \in Nat /\ k \in Nat /\ p - 1 <= k /\ (p - 1) + 1 = p /\ p..k \subseteq p..(q - 1)
    OBVIOUS
  <2>2. \A j \in ((p - 1) + 1)..k : j \notin OpeningTags /\ j \notin StopTags
    BY <2>1
  <2> QED BY <2>1, <2>2, CountsStill
<1>2. q - 1 \in (p - 1)..(q - 1)
  OBVIOUS
<1>3. Enclosing(Tags, q) = Enclosing(Tags, p)
  <2>1. ASSUME NEW i \in Enclosing(Tags, p) PROVE i \in Enclosing(Tags, q)
    <3>1. i \in Tags /\ i < p /\ TagType(i) \in Sections /\ \A k \in i..(p - 1) : Openings(Tags, i, k) > Closings(Tags, i, k)
      BY DEF Enclosing
    <3>2. i \in Nat
      BY <3>1, Places
    <3>3. i < q /\ p - 1 \in i..(p - 1) /\ \A k \in i..(q - 1) : k \in i..(p - 1) \/ k \in (p - 1)..(q - 1)
      BY <3>1, <3>2
    <3>4. \A k \in i..(q - 1) : Openings(Tags, i, k) > Closings(Tags, i, k)
      BY <1>1, <3>1, <3>2, <3>3
    <3> QED BY <3>1, <3>3, <3>4 DEF Enclosing
  <2>2. ASSUME NEW i \in Enclosing(Tags, q) PROVE i \in Enclosing(Tags, p)
    <3>1. i \in Tags /\ i < q /\ TagType(i) \in Sections /\ \A k \in i..(q - 1) : Openings(Tags, i, k) > Closings(Tags, i, k)
      BY DEF Enclosing
    <3>2. i \in Nat /\ i \in OpeningTags
      BY <3>1, Places DEF OpeningTags
    <3>3. i \notin p..(q - 1)
      BY <3>2
    <3>4. i < p /\ i..(p - 1) \subseteq i..(q - 1)
      BY <3>1, <3>2, <3>3
    <3> QED BY <3>1, <3>4 DEF Enclosing
  <2> QED BY <2>1, <2>2
<1>4. CountsKeep(p, q)
  BY <1>1 DEF CountsKeep
<1> QED BY <1>3, <1>4

LEMMA BracketsKeep ==
    ASSUME template \in Seq(Lexemes), NEW p \in Nat \ {0}, NEW q \in Nat, p <= q, NEW st, Brackets(st, p),
           \A k \in p..(q - 1) : k \notin OpeningTags /\ k \notin StopTags
    PROVE  Brackets(st, q) /\ Enclosing(Tags, q) = Enclosing(Tags, p)
<1>0. CountsKeep(p, q) /\ Enclosing(Tags, q) = Enclosing(Tags, p)
  BY EnclosingKeeps
<1>1. \A i \in Nat, k \in (p - 1)..(q - 1) :
          Openings(Tags, i, k) = Openings(Tags, i, p - 1) /\ Closings(Tags, i, k) = Closings(Tags, i, p - 1)
  BY <1>0 DEF CountsKeep
<1>2. q - 1 \in (p - 1)..(q - 1)
  OBVIOUS
<1>4. ASSUME NEW k \in 1..Len(st)
      PROVE  /\ st[k] \in OpeningTags /\ st[k] < q
             /\ Openings(Tags, st[k], q - 1) = Closings(Tags, st[k], q - 1) + (Len(st) - k + 1)
  <2>1. st[k] \in OpeningTags /\ st[k] < p /\ Openings(Tags, st[k], p - 1) = Closings(Tags, st[k], p - 1) + (Len(st) - k + 1)
    BY DEF Brackets
  <2>2. st[k] \in Nat
    BY DEF Brackets
  <2>3. st[k] < q
    BY <2>1, <2>2
  <2>4. Openings(Tags, st[k], q - 1) = Openings(Tags, st[k], p - 1) /\ Closings(Tags, st[k], q - 1) = Closings(Tags, st[k], p - 1)
    BY <1>1, <1>2, <2>2
  <2> QED BY <2>1, <2>3, <2>4
<1> QED BY <1>0, <1>4 DEF Brackets

\* The open sections are as many as the stack is high, and its top is the parent.
LEMMA BracketsMean ==
    ASSUME template \in Seq(Lexemes), NEW p \in Nat \ {0}, NEW st, Brackets(st, p)
    PROVE  /\ Cardinality(Enclosing(Tags, p)) = Len(st) /\ Len(st) \in Nat
           /\ Enclosing(Tags, p) = {} <=> st = <<>>
           /\ st # <<>> => ParentOf(Tags, p) = st[Len(st)] /\ st[Len(st)] \in Enclosing(Tags, p)
<1>h. PICK h : h = Len(st)
  OBVIOUS
<1>e. PICK E : E = Enclosing(Tags, p)
  OBVIOUS
<1>1. /\ h \in Nat /\ st \in Seq(Nat) /\ DOMAIN st = 1..h
      /\ (\A k \in 1..h : st[k] \in Nat /\ st[k] \in OpeningTags /\ st[k] < p)
      /\ (\A k, l \in 1..h : k < l => st[k] < st[l])
      /\ E = {st[k] : k \in 1..h}
  BY <1>h, <1>e DEF Brackets
<1>2. Cardinality(E) = h
  <2>1. st \in [1..h -> E] /\ \A x \in E : \E k \in 1..h : st[k] = x
    BY <1>1
  <2>2. \A a, b \in 1..h : st[a] = st[b] => a = b
    <3> SUFFICES ASSUME NEW a \in 1..h, NEW b \in 1..h, st[a] = st[b], a # b PROVE FALSE
      OBVIOUS
    <3>1. a < b \/ b < a
      OBVIOUS
    <3> QED BY <1>1, <3>1
  <2>i. PICK I : I = 1..h
    OBVIOUS
  <2>3. st \in Bijection(I, E)
    BY <2>1, <2>2, <2>i, Fun_IsBij
  <2>4. ExistsBijection(I, E)
    BY <2>3 DEF ExistsBijection
  <2>5. IsFiniteSet(1..h) /\ Cardinality(1..h) = h
    <3>1. 1 \in Int /\ h \in Int
      BY <1>1
    <3>2. IsFiniteSet(1..h) /\ Cardinality(1..h) = IF 1 > h THEN 0 ELSE h - 1 + 1
      BY <3>1, FS_Interval
    <3> QED BY <1>1, <3>2
  <2>6. IsFiniteSet(I) /\ Cardinality(I) = h
    BY <2>5, <2>i
  <2> QED BY <2>4, <2>6, FS_Bijection
<1>3. E = {} <=> st = <<>>
  <2>1. st = <<>> <=> h = 0
    BY <1>1, <1>h
  <2>2. h # 0 => st[h] \in E
    BY <1>1
  <2>3. h = 0 => E = {}
    BY <1>1
  <2> QED BY <2>1, <2>2, <2>3
<1>4. ASSUME st # <<>> PROVE ParentOf(Tags, p) = st[h] /\ st[h] \in E
  <2>1. h \in 1..h
    BY <1>1, <1>4, <1>h
  <2>2. PICK S : S = {0} \cup E
    OBVIOUS
  <2>3. st[h] \in S /\ st[h] \in E
    BY <1>1, <2>1, <2>2
  <2>4. \A y \in S : st[h] >= y /\ y \in Nat
    <3>1. \A k \in 1..h : k = h \/ k < h
      BY <1>1
    <3>2. \A k \in 1..h : st[h] >= st[k]
      BY <1>1, <2>1, <3>1
    <3> QED BY <1>1, <2>1, <2>2, <3>2
  <2>5. \A x \in S : (\A y \in S : x >= y) => x = st[h]
    BY <2>3, <2>4
  <2>6. Max(S) = st[h]
    BY <2>3, <2>4, <2>5 DEF Max
  <2> QED BY <2>2, <2>3, <2>6, <1>e DEF ParentOf
<1> QED BY <1>1, <1>2, <1>3, <1>4, <1>h, <1>e

-----------------------------------------------------------------------------
(* Lines *)

LineBegins(s, p) ==
    /\ s \in 1..p /\ (s = 1 \/ EndsLine(s - 1, Tags))
    /\ \A j \in s..(p - 1) : ~EndsLine(j, Tags)
\* Blanks of the tag before s are on the line that begins at s.
TailBefore(s) == s - 1 \in Tags /\ template[s - 1].tail = "indent"
\* What the scan knows of the line it is on.
LineKnown(p, start, indent) ==
    p <= Len(template) =>
        \E s \in 1..p :
            /\ LineBegins(s, p)
            /\ indent <=> \A j \in s..(p - 1) : template[j].kind = "blank"
            /\ indent => start = IF TailBefore(s) THEN s - 1 ELSE s

LEMMA LineLeft ==
    ASSUME template \in Seq(Lexemes), NEW p \in 1..Len(template), NEW s, LineBegins(s, p), NEW j \in 1..(p - 1)
    PROVE  j \in Line(p, Tags) <=> s <= j
<1>n. PICK n : n = Len(template)
  OBVIOUS
<1>1. n \in Nat /\ Positions = 1..n /\ p \in 1..n /\ s \in 1..p
  BY <1>n, Places DEF LineBegins
<1>2. j \in Line(p, Tags) <=> \A k \in 1..n : j <= k /\ k < p => ~EndsLine(k, Tags)
  <2>1. \A k \in 1..n : ~(p < k /\ k < j)
    BY <1>1
  <2>2. j \in 1..n
    BY <1>1
  <2> QED BY <1>1, <2>1, <2>2 DEF Line
<1>3. ASSUME s <= j PROVE j \in Line(p, Tags)
  <2>1. \A k \in 1..n : j <= k /\ k < p => k \in s..(p - 1)
    BY <1>1, <1>3
  <2> QED BY <1>2, <2>1 DEF LineBegins
<1>4. ASSUME ~(s <= j) PROVE j \notin Line(p, Tags)
  <2>1. s - 1 \in 1..n /\ j <= s - 1 /\ s - 1 < p /\ s # 1
    BY <1>1, <1>4
  <2>2. EndsLine(s - 1, Tags)
    BY <2>1 DEF LineBegins
  <2> QED BY <1>2, <2>1, <2>2
<1> QED BY <1>3, <1>4

LEMMA LineRight ==
    ASSUME template \in Seq(Lexemes), NEW p \in 1..Len(template), NEW j \in (p + 1)..Len(template)
    PROVE  j \in Line(p, Tags) <=> \A k \in (p + 1)..(j - 1) : ~EndsLine(k, Tags)
<1>n. PICK n : n = Len(template)
  OBVIOUS
<1>1. n \in Nat /\ Positions = 1..n /\ p \in 1..n /\ j \in (p + 1)..n
  BY <1>n, Places
<1>2. j \in Line(p, Tags) <=> \A k \in 1..n : p < k /\ k < j => ~EndsLine(k, Tags)
  <2>1. \A k \in 1..n : ~(j <= k /\ k < p)
    BY <1>1
  <2>2. j \in 1..n
    BY <1>1
  <2> QED BY <1>1, <2>1, <2>2 DEF Line
<1>3. \A k \in 1..n : p < k /\ k < j => k \in (p + 1)..(j - 1)
  BY <1>1
<1>4. \A k \in (p + 1)..(j - 1) : k \in 1..n /\ p < k /\ k < j
  BY <1>1
<1> QED BY <1>2, <1>3, <1>4

\* standaloneLineEnd finds the end of the line, if the rest of it is blank.
LEMMA EndMeans ==
    ASSUME template \in Seq(Lexemes), NEW p \in 1..Len(template), NEW e \in LineEnds(p + 1)
    PROVE  /\ e \in p..Len(template)
           /\ \A j \in (p + 1)..e : template[j].kind \in {"blank", "nl"}
           /\ \A j \in (p + 1)..(e - 1) : template[j].kind = "blank"
           /\ e = Len(template) \/ (template[e].kind = "nl" /\ e # p)
           /\ RestOf(Tags, p) = (p + 1)..e
<1>n. PICK n : n = Len(template)
  OBVIOUS
<1>1. /\ n \in Nat /\ Positions = 1..n /\ p \in 1..n /\ (p + 1) - 1 = p
      /\ \A j \in Tags : template[j].kind = "tag"
  BY <1>n, Places
<1>2. \/ e = p /\ e = n
      \/ /\ e \in (p + 1)..n
         /\ template[e].kind = "nl" \/ (e = n /\ template[e].kind = "blank")
         /\ \A i \in (p + 1)..(e - 1) : template[i].kind = "blank"
  BY <1>1, <1>n DEF LineEnds
<1>3. e \in p..n /\ (e = n \/ (template[e].kind = "nl" /\ e # p))
  BY <1>1, <1>2
<1>4. \A j \in (p + 1)..(e - 1) : template[j].kind = "blank"
  <2>1. e = p => \A j \in (p + 1)..(e - 1) : FALSE
    BY <1>1
  <2> QED BY <1>2, <2>1
<1>5. \A j \in (p + 1)..e : template[j].kind \in {"blank", "nl"}
  <2> SUFFICES ASSUME NEW j \in (p + 1)..e PROVE template[j].kind \in {"blank", "nl"}
    OBVIOUS
  <2>1. e # p /\ (j = e \/ j \in (p + 1)..(e - 1))
    BY <1>1, <1>3
  <2> QED BY <1>2, <1>4, <2>1
<1>6. ASSUME NEW j \in (p + 1)..n PROVE j \in Line(p, Tags) <=> j \in (p + 1)..e
  <2>1. j \in Line(p, Tags) <=> \A k \in (p + 1)..(j - 1) : ~EndsLine(k, Tags)
    BY <1>n, LineRight
  <2>2. CASE j <= e
    <3>1. \A k \in (p + 1)..(j - 1) : k \in (p + 1)..(e - 1)
      BY <1>1, <1>3, <2>2
    <3>2. j \in (p + 1)..e
      BY <1>1, <1>3, <2>2
    <3>3. \A k \in (p + 1)..(e - 1) : ~EndsLine(k, Tags)
      BY <1>1, <1>4 DEF EndsLine
    <3> QED BY <2>1, <3>1, <3>2, <3>3
  <2>3. CASE ~(j <= e)
    <3>1. e # n /\ template[e].kind = "nl" /\ e # p
      BY <1>1, <1>3, <2>3
    <3>2. e \in (p + 1)..(j - 1) /\ j \notin (p + 1)..e
      BY <1>1, <1>3, <2>3, <3>1
    <3>3. EndsLine(e, Tags)
      BY <3>1 DEF EndsLine
    <3> QED BY <2>1, <3>2, <3>3
  <2> QED BY <2>2, <2>3
<1>7. RestOf(Tags, p) = (p + 1)..e
  <2>1. \A j \in 1..n : j > p <=> j \in (p + 1)..n
    BY <1>1
  <2>2. \A j \in Line(p, Tags) : j \in 1..n
    BY <1>1 DEF Line
  <2>3. \A j \in (p + 1)..e : j \in (p + 1)..n /\ j > p
    BY <1>1, <1>3
  <2>4. ASSUME NEW j PROVE j \in RestOf(Tags, p) <=> j \in (p + 1)..e
    BY <1>6, <2>1, <2>2, <2>3 DEF RestOf
  <2> QED BY <2>4
<1> QED BY <1>3, <1>4, <1>5, <1>7, <1>n

LEMMA EndExists ==
    ASSUME template \in Seq(Lexemes), NEW p \in 1..Len(template),
           \A j \in (p + 1)..Len(template) : j \in Line(p, Tags) => template[j].kind \in {"blank", "nl"}
    PROVE  LineEnds(p + 1) # {}
<1>n. PICK n : n = Len(template)
  OBVIOUS
<1>1. /\ n \in Nat /\ Positions = 1..n /\ p \in 1..n /\ (p + 1) - 1 = p
      /\ \A j \in Tags : template[j].kind = "tag"
  BY <1>n, Places
<1>2. \A j \in (p + 1)..n : j \in Line(p, Tags) <=> \A k \in (p + 1)..(j - 1) : ~EndsLine(k, Tags)
  BY <1>n, LineRight
<1>3. CASE p = n
  <2>1. n \in LineEnds(p + 1)
    BY <1>1, <1>3, <1>n DEF LineEnds
  <2> QED BY <2>1
<1>4. CASE p # n /\ \A j \in (p + 1)..n : ~EndsLine(j, Tags)
  <2>1. n \in (p + 1)..n /\ \A j \in (p + 1)..n : (p + 1)..(j - 1) \subseteq (p + 1)..n
    BY <1>1, <1>4
  <2>2. \A j \in (p + 1)..n : j \in Line(p, Tags)
    BY <1>2, <1>4, <2>1
  <2>3. \A j \in (p + 1)..n : template[j].kind = "blank"
    BY <1>4, <1>n, <2>2 DEF EndsLine
  <2>4. n \in LineEnds(p + 1)
    BY <1>1, <1>n, <2>1, <2>3 DEF LineEnds
  <2> QED BY <2>4
<1>5. CASE \E j \in (p + 1)..n : EndsLine(j, Tags)
  <2> DEFINE Ends == {j \in (p + 1)..n : EndsLine(j, Tags)}
  <2>1. PICK e \in Ends : \A j \in Ends : e <= j
    <3>1. \A j \in (p + 1)..n : j \in Nat
      BY <1>1
    <3>2. Ends \in SUBSET Nat /\ Ends # {}
      BY <1>5, <3>1
    <3> HIDE DEF Ends
    <3> QED BY <3>2, Least
  <2>2. e \in (p + 1)..n /\ EndsLine(e, Tags)
    BY <2>1
  <2>3. \A k \in (p + 1)..(e - 1) : k \in (p + 1)..n /\ ~(e <= k)
    BY <1>1, <2>2
  <2>4. \A k \in (p + 1)..(e - 1) : ~EndsLine(k, Tags)
    BY <2>1, <2>3
  <2>5. \A k \in (p + 1)..e : k \in (p + 1)..n /\ (p + 1)..(k - 1) \subseteq (p + 1)..(e - 1)
    BY <1>1, <2>2
  <2>6. \A k \in (p + 1)..e : k \in Line(p, Tags)
    BY <1>2, <2>4, <2>5
  <2>7. \A k \in (p + 1)..(e - 1) : template[k].kind = "blank"
    <3>1. \A k \in (p + 1)..(e - 1) : k \in (p + 1)..e
      BY <1>1, <2>2
    <3> QED BY <1>n, <2>4, <2>5, <2>6, <3>1 DEF EndsLine
  <2>9. template[e].kind = "nl"
    <3>1. e \in (p + 1)..e
      BY <1>1, <2>2
    <3>2. template[e].kind \in {"blank", "nl"}
      BY <1>n, <2>2, <2>6, <3>1
    <3> QED BY <1>1, <2>2, <3>2 DEF EndsLine
  <2>8. e \in LineEnds(p + 1)
    BY <1>n, <2>2, <2>7, <2>9 DEF LineEnds
  <2> QED BY <2>8
<1> QED BY <1>3, <1>4, <1>5

LEMMA RestIsBlank ==
    ASSUME template \in Seq(Lexemes), NEW p \in 1..Len(template), NEW e \in LineEnds(p + 1),
           NEW j \in Line(p, Tags), j > p
    PROVE  template[j].kind \in {"blank", "nl"}
<1>1. j \in RestOf(Tags, p)
  BY DEF RestOf
<1>2. RestOf(Tags, p) = (p + 1)..e
  BY EndMeans
<1>3. \A i \in (p + 1)..e : template[i].kind \in {"blank", "nl"}
  BY EndMeans
<1> QED BY <1>1, <1>2, <1>3

\* The scan takes a tag for standalone exactly when blanks are all else on its line.
LEMMA StandaloneMeans ==
    ASSUME template \in Seq(Lexemes), pos \in 1..Len(template), pos \in Tags,
           LineKnown(pos, lineStart, linePrefixIsIndent)
    PROVE  pos \in Standalones(Tags) <=> IsStandalone
<1>n. PICK n : n = Len(template)
  OBVIOUS
<1>p. PICK p : p = pos
  OBVIOUS
<1>1. /\ n \in Nat /\ Positions = 1..n /\ p \in 1..n /\ template[p].kind = "tag"
      /\ \A j \in Tags : template[j].kind = "tag"
  BY <1>n, <1>p, Places
<1>2. PICK s \in 1..p :
         /\ LineBegins(s, p)
         /\ linePrefixIsIndent <=> \A j \in s..(p - 1) : template[j].kind = "blank"
  BY <1>1, <1>n, <1>p DEF LineKnown
<1>3. \A j \in 1..(p - 1) : j \in Line(p, Tags) <=> s <= j
  <2>1. p \in 1..Len(template)
    BY <1>1, <1>n
  <2> QED BY <2>1, <1>2, LineLeft
<1>4. \A j \in Line(p, Tags) : j \in 1..n
  BY <1>1 DEF Line
<1>5. IsStandalone <=> /\ ~template[p].triple /\ TypeOfSigil(template[p].sigil) \in StandaloneTypes
                       /\ linePrefixIsIndent /\ LineEnds(p + 1) # {}
  BY <1>p DEF IsStandalone, Current, Type
<1>6. p \in Standalones(Tags) <=> /\ ~template[p].triple /\ TypeOfSigil(template[p].sigil) \in StandaloneTypes
                                  /\ \A j \in Line(p, Tags) \ {p} : j \notin Tags /\ template[j].kind \in {"blank", "nl"}
  BY <1>p DEF Standalones, Standalone
<1>7. ASSUME \A j \in Line(p, Tags) \ {p} : j \notin Tags /\ template[j].kind \in {"blank", "nl"}
      PROVE  linePrefixIsIndent /\ LineEnds(p + 1) # {}
  <2>1. ASSUME NEW j \in s..(p - 1) PROVE template[j].kind = "blank"
    <3>1. j \in 1..(p - 1) /\ s <= j /\ j # p
      BY <1>1, <1>2
    <3>2. j \in Line(p, Tags) \ {p}
      BY <1>3, <3>1
    <3>3. template[j].kind # "nl"
      BY <1>2 DEF LineBegins, EndsLine
    <3> QED BY <1>7, <3>2, <3>3
  <2>2. \A j \in (p + 1)..Len(template) : j \in Line(p, Tags) => template[j].kind \in {"blank", "nl"}
    <3>1. \A j \in (p + 1)..Len(template) : j # p
      BY <1>1
    <3> QED BY <1>7, <3>1
  <2>3. LineEnds(p + 1) # {}
    <3>1. p \in 1..Len(template)
      BY <1>1, <1>n
    <3> QED BY <3>1, <2>2, <1>1, EndExists
  <2> QED BY <1>2, <2>1, <2>3
<1>8. ASSUME linePrefixIsIndent, LineEnds(p + 1) # {}, NEW j \in Line(p, Tags) \ {p}
      PROVE  j \notin Tags /\ template[j].kind \in {"blank", "nl"}
  <2>1. j \in 1..n /\ (j \in 1..(p - 1) \/ j > p)
    BY <1>1, <1>4
  <2>2. CASE j \in 1..(p - 1)
    <3>1. s <= j
      BY <1>3, <2>2
    <3>2. j \in s..(p - 1)
      BY <1>2, <2>2, <3>1
    <3>3. template[j].kind = "blank"
      BY <1>2, <1>8, <3>2
    <3> QED BY <1>1, <3>3
  <2>3. CASE j > p
    <3>1. PICK e \in LineEnds(p + 1) : TRUE
      BY <1>8
    <3>2. p \in 1..Len(template)
      BY <1>1, <1>n
    <3>3. j \in Line(p, Tags)
      OBVIOUS
    <3>5. template[j].kind \in {"blank", "nl"}
      BY <2>3, <3>1, <3>2, <3>3, RestIsBlank
    <3> QED BY <1>1, <3>5
  <2> QED BY <2>1, <2>2, <2>3
<1> QED BY <1>5, <1>6, <1>7, <1>8, <1>p

\* What a tag consumes: itself, and the blank rest of its line if it is standalone.
LEMMA TagLine ==
    ASSUME template \in Seq(Lexemes), pos \in 1..Len(template), pos \in Tags,
           LineKnown(pos, lineStart, linePrefixIsIndent)
    PROVE  /\ TagEnd \in pos..Len(template)
           /\ \A j \in (pos + 1)..TagEnd : j \notin Tags /\ template[j].kind \in {"blank", "nl"}
           /\ \A j \in (pos + 1)..(TagEnd - 1) : template[j].kind = "blank"
           /\ pos \notin Standalones(Tags) => TagEnd = pos
           /\ pos \in Standalones(Tags) =>
                 /\ TagEnd = Len(template) \/ (template[TagEnd].kind = "nl" /\ TagEnd # pos)
                 /\ RestOf(Tags, pos) = (pos + 1)..TagEnd
<1>n. PICK n : n = Len(template)
  OBVIOUS
<1>p. PICK p : p = pos
  OBVIOUS
<1>1. /\ n \in Nat /\ p \in 1..n /\ p \in 1..Len(template) /\ template[p].kind = "tag"
      /\ \A j \in Tags : template[j].kind = "tag"
  BY <1>n, <1>p, Places
<1>2. p \in Standalones(Tags) <=> IsStandalone
  BY <1>p, StandaloneMeans
<1>3. CASE IsStandalone
  <2>1. LineEnds(p + 1) # {} /\ linePrefixIsIndent
    BY <1>3, <1>p DEF IsStandalone
  <2>2. PICK e : e = TagEnd
    OBVIOUS
  <2>3. e \in LineEnds(p + 1)
    BY <1>3, <2>1, <2>2, <1>p DEF TagEnd
  <2>4. /\ e \in p..Len(template)
        /\ \A j \in (p + 1)..e : template[j].kind \in {"blank", "nl"}
        /\ \A j \in (p + 1)..(e - 1) : template[j].kind = "blank"
        /\ e = Len(template) \/ (template[e].kind = "nl" /\ e # p)
        /\ RestOf(Tags, p) = (p + 1)..e
    <3>1. e \in p..Len(template) /\ RestOf(Tags, p) = (p + 1)..e
      BY <1>1, <2>3, EndMeans
    <3>2. \A j \in (p + 1)..e : template[j].kind \in {"blank", "nl"}
      BY <1>1, <2>3, EndMeans
    <3>3. \A j \in (p + 1)..(e - 1) : template[j].kind = "blank"
      BY <1>1, <2>3, EndMeans
    <3>4. e = Len(template) \/ (template[e].kind = "nl" /\ e # p)
      BY <1>1, <2>3, EndMeans
    <3> QED BY <3>1, <3>2, <3>3, <3>4
  <2>5. \A j \in (p + 1)..e : j \notin Tags
    BY <1>1, <2>4
  <2> QED BY <1>2, <1>3, <1>p, <2>2, <2>4, <2>5
<1>4. CASE ~IsStandalone
  <2>1. TagEnd = p
    BY <1>4, <1>p DEF TagEnd
  <2>2. p \in p..n /\ \A j : j \notin (p + 1)..p /\ j \notin (p + 1)..(p - 1)
    BY <1>1
  <2> QED BY <1>2, <1>4, <1>n, <1>p, <2>1, <2>2
<1> QED BY <1>3, <1>4

LEMMA LineAfterText ==
    ASSUME template \in Seq(Lexemes), NEW p \in 1..Len(template), p \notin Tags,
           NEW start, NEW indent, LineKnown(p, start, indent), NEW start2, NEW indent2,
           template[p].kind = "nl" => start2 = p + 1 /\ indent2,
           template[p].kind # "nl" => start2 = start /\ (indent2 <=> indent /\ template[p].kind = "blank")
    PROVE  LineKnown(p + 1, start2, indent2)
<1>1. p \in Nat \ {0} /\ (p + 1) - 1 = p /\ p + 1 \in 1..(p + 1) /\ p <= Len(template)
  BY Places
<1>2. CASE template[p].kind = "nl"
  <2>1. \A j \in (p + 1)..p : FALSE
    BY <1>1
  <2>2. LineBegins(p + 1, p + 1) /\ ~TailBefore(p + 1)
    BY <1>1, <1>2, <2>1 DEF LineBegins, EndsLine, TailBefore
  <2> QED BY <1>1, <1>2, <2>1, <2>2 DEF LineKnown
<1>3. CASE template[p].kind # "nl"
  <2>1. PICK s \in 1..p :
           /\ LineBegins(s, p)
           /\ indent <=> \A j \in s..(p - 1) : template[j].kind = "blank"
           /\ indent => start = IF TailBefore(s) THEN s - 1 ELSE s
    BY <1>1 DEF LineKnown
  <2>2. s \in 1..(p + 1) /\ p \in s..p /\ \A j : j \in s..p <=> j \in s..(p - 1) \/ j = p
    BY <1>1, <2>1
  <2>3. LineBegins(s, p + 1)
    BY <1>1, <1>3, <2>1, <2>2 DEF LineBegins, EndsLine
  <2>4. indent2 <=> \A j \in s..p : template[j].kind = "blank"
    BY <1>3, <2>1, <2>2
  <2>5. indent2 => start2 = IF TailBefore(s) THEN s - 1 ELSE s
    BY <1>3, <2>1
  <2> QED BY <1>1, <2>2, <2>3, <2>4, <2>5 DEF LineKnown
<1> QED BY <1>2, <1>3

LEMMA LineAfterTag ==
    ASSUME template \in Seq(Lexemes), pos \in 1..Len(template), pos \in Tags,
           LineKnown(pos, lineStart, linePrefixIsIndent),
           NEW start2, NEW indent2,
           indent2 <=> IF TagEnd = pos THEN template[pos].tail # "solid" ELSE template[TagEnd].kind = "nl",
           indent2 => start2 = IF TagEnd = pos /\ template[pos].tail = "indent" THEN pos ELSE TagEnd + 1
    PROVE  LineKnown(TagEnd + 1, start2, indent2)
<1>n. PICK n : n = Len(template)
  OBVIOUS
<1>p. PICK p : p = pos
  OBVIOUS
<1>e. PICK e : e = TagEnd
  OBVIOUS
<1>1. /\ n \in Nat /\ p \in 1..n /\ template[p].kind = "tag" /\ p \in Tags
      /\ \A j \in Tags : template[j].kind = "tag"
  BY <1>n, <1>p, Places
<1>2. e \in p..n /\ (e = p \/ e = n \/ template[e].kind = "nl")
  BY <1>n, <1>p, <1>e, TagLine
<1>3. (e + 1) - 1 = e /\ e + 1 \in 1..(e + 1) /\ \A j \in (e + 1)..e : FALSE
  BY <1>1, <1>2
<1>4. CASE indent2
  <2>1. EndsLine(e, Tags)
    BY <1>1, <1>4, <1>e, <1>p DEF EndsLine
  <2>2. LineBegins(e + 1, e + 1)
    BY <1>3, <2>1 DEF LineBegins
  <2>3. TailBefore(e + 1) <=> e = p /\ template[p].tail = "indent"
    BY <1>1, <1>3, <1>4, <1>e, <1>p DEF TailBefore
  <2>4. start2 = IF TailBefore(e + 1) THEN (e + 1) - 1 ELSE e + 1
    BY <1>3, <1>4, <1>e, <1>p, <2>3
  <2> QED BY <1>3, <1>4, <1>e, <2>2, <2>4 DEF LineKnown
<1>5. CASE ~indent2 /\ e # n
  <2>1. e = p /\ template[p].tail = "solid"
    BY <1>2, <1>5, <1>e, <1>p
  <2>2. PICK s \in 1..p : LineBegins(s, p)
    BY <1>1, <1>n, <1>p DEF LineKnown
  <2>3. s \in 1..(e + 1) /\ p \in s..e /\ \A j \in s..e : j \in s..(p - 1) \/ j = p
    BY <1>1, <2>1, <2>2
  <2>4. ~EndsLine(p, Tags)
    BY <1>1, <2>1 DEF EndsLine
  <2>5. LineBegins(s, e + 1)
    BY <1>3, <2>2, <2>3, <2>4 DEF LineBegins
  <2>6. ~\A j \in s..e : template[j].kind = "blank"
    BY <1>1, <2>3
  <2> QED BY <1>3, <1>5, <1>e, <2>3, <2>5, <2>6 DEF LineKnown
<1>6. CASE e = n
  <2>1. ~(e + 1 <= Len(template))
    BY <1>1, <1>2, <1>6, <1>n
  <2> QED BY <1>e, <2>1 DEF LineKnown
<1> QED BY <1>4, <1>5, <1>6

-----------------------------------------------------------------------------
(* The text before a tag *)

\* From f on the text up to p waits for its tag; what precedes is flushed or hidden.
Flushed(f, p) ==
    /\ f \in 1..p
    /\ \A i \in f..(p - 1) : i \notin Tags
    /\ \A k \in 1..(f - 1) : k \in Hidden(Tags) \/ \E i \in k..(f - 1) : i \in Tags
    /\ \A i \in Standalones(Tags) : i < p => f = Len(template) + 1 \/ \E k \in i..(f - 1) : template[k].kind = "nl"

LEMMA FlushedAfterText ==
    ASSUME template \in Seq(Lexemes), NEW p \in 1..Len(template), p \notin Tags, NEW f, Flushed(f, p)
    PROVE  Flushed(f, p + 1)
<1>1. p \in Nat \ {0} /\ (p + 1) - 1 = p /\ f \in 1..p /\ \A i \in Tags : i \in Nat
  BY Places DEF Flushed
<1>2. f \in 1..(p + 1) /\ \A i \in f..p : i \in f..(p - 1) \/ i = p
  BY <1>1
<1>3. \A i \in f..p : i \notin Tags
  BY <1>2 DEF Flushed
<1>4. \A i \in Standalones(Tags) : i < p + 1 => i < p
  <2>1. \A i \in Tags : i < p + 1 => i < p
    BY <1>1
  <2> QED BY <2>1 DEF Standalones
<1> QED BY <1>1, <1>2, <1>3, <1>4 DEF Flushed

LEMMA FlushedAfterTag ==
    ASSUME template \in Seq(Lexemes), pos \in 1..Len(template), pos \in Tags,
           LineKnown(pos, lineStart, linePrefixIsIndent), NEW f, Flushed(f, pos)
    PROVE  Flushed(TagEnd + 1, TagEnd + 1)
<1>n. PICK n : n = Len(template)
  OBVIOUS
<1>p. PICK p : p = pos
  OBVIOUS
<1>e. PICK e : e = TagEnd
  OBVIOUS
<1>1. n \in Nat /\ p \in 1..n /\ p \in Tags /\ \A i \in Tags : i \in Nat
  BY <1>n, <1>p, Places
<1>2. /\ e \in p..n
      /\ \A j \in (p + 1)..e : j \notin Tags
      /\ p \notin Standalones(Tags) => e = p
      /\ p \in Standalones(Tags) => (e = n \/ template[e].kind = "nl") /\ RestOf(Tags, p) = (p + 1)..e
  BY <1>n, <1>p, <1>e, TagLine
<1>3. (e + 1) - 1 = e /\ e + 1 \in 1..(e + 1) /\ \A i \in (e + 1)..e : FALSE
  BY <1>1, <1>2
<1>4. ASSUME NEW k \in 1..e PROVE k \in Hidden(Tags) \/ \E i \in k..e : i \in Tags
  <2>1. CASE k <= p
    <3>1. p \in k..e
      BY <1>1, <1>2, <2>1
    <3> QED BY <1>1, <3>1
  <2>2. CASE ~(k <= p)
    <3>1. k \in (p + 1)..e /\ e # p
      BY <1>1, <1>2, <2>2
    <3>2. p \in Standalones(Tags) /\ k \in RestOf(Tags, p)
      BY <1>2, <3>1
    <3> QED BY <3>2 DEF RestOf, Hidden
  <2> QED BY <2>1, <2>2
<1>5. ASSUME NEW i \in Standalones(Tags), i < e + 1
      PROVE  e + 1 = n + 1 \/ \E k \in i..e : template[k].kind = "nl"
  <2>1. i \in Tags /\ i \in Nat
    BY <1>1 DEF Standalones
  <2>2. CASE i < p
    <3>1. f # n + 1 /\ i..(f - 1) \subseteq i..e
      <4>1. f \in 1..p
        BY <1>p DEF Flushed
      <4> QED BY <1>1, <1>2, <4>1
    <3> QED BY <1>n, <1>p, <2>2, <3>1 DEF Flushed
  <2>3. CASE i = p
    <3>1. e \in i..e
      BY <1>1, <1>2, <2>3
    <3> QED BY <1>2, <1>5, <2>3, <3>1
  <2>4. CASE p < i
    <3>1. i \in (p + 1)..e
      BY <1>1, <1>2, <1>5, <2>1, <2>4
    <3> QED BY <1>2, <2>1, <3>1
  <2> QED BY <1>1, <2>1, <2>2, <2>3, <2>4
<1> QED BY <1>3, <1>4, <1>5, <1>n, <1>e DEF Flushed

\* The text that a tag or the end flushes is what the reference says it comes after.
LEMMA FlushedIs ==
    ASSUME template \in Seq(Lexemes), NEW p \in 1..(Len(template) + 1), p \in Tags \/ p = Len(template) + 1,
           NEW f, Flushed(f, p)
    PROVE  /\ p \notin Standalones(Tags) => TextBefore(Tags, p) = f..(p - 1)
           /\ \A s : p \in Standalones(Tags) /\ LineBegins(s, p) => TextBefore(Tags, p) = f..(s - 1)
<1>n. PICK n : n = Len(template)
  OBVIOUS
<1>1. /\ n \in Nat /\ Positions = 1..n /\ p \in 1..(n + 1) /\ f \in 1..p
      /\ \A i \in Tags : i \in 1..n /\ template[i].kind = "tag"
  BY <1>n, Places DEF Flushed
<1>2. \A k \in f..(p - 1) : k \in 1..n /\ k < p
  BY <1>1
<1>3. ASSUME NEW k \in f..(p - 1) PROVE k \in TextBefore(Tags, p) <=> k \notin Hidden(Tags)
  <2>1. \A i \in k..(p - 1) : i \in f..(p - 1)
    BY <1>1
  <2>2. \A i \in k..(p - 1) : i \notin Tags
    BY <2>1 DEF Flushed
  <2> QED BY <1>1, <1>2, <2>2 DEF TextBefore
<1>4. ASSUME NEW k \in TextBefore(Tags, p) PROVE k \in f..(p - 1)
  <2>1. k \in 1..n /\ k < p /\ k \notin Hidden(Tags) /\ \A i \in k..(p - 1) : i \notin Tags
    BY <1>1 DEF TextBefore
  <2>2. SUFFICES ASSUME k < f PROVE FALSE
    BY <1>1, <2>1
  <2>3. k \in 1..(f - 1) /\ \A i \in k..(f - 1) : i \in k..(p - 1)
    BY <1>1, <2>1, <2>2
  <2> QED BY <2>1, <2>3 DEF Flushed
<1>5. ASSUME NEW k \in f..(p - 1) PROVE k \in Hidden(Tags) <=> p \in Standalones(Tags) /\ k \in Line(p, Tags)
  <2>1. ASSUME k \in Hidden(Tags) PROVE p \in Standalones(Tags) /\ k \in Line(p, Tags)
    <3>1. PICK i \in Standalones(Tags) : k \in Line(i, Tags)
      BY <2>1 DEF Hidden
    <3>2. i \in Tags /\ i \in 1..n
      BY <1>1 DEF Standalones
    <3>3. \A j \in 1..n : (i < j /\ j < k) \/ (k <= j /\ j < i) => ~EndsLine(j, Tags)
      BY <1>1, <3>1 DEF Line
    <3>4. CASE i < p
      <4>1. i \notin f..(p - 1)
        BY <3>2 DEF Flushed
      <4>2. f # n + 1 /\ \A j \in i..(f - 1) : j \in 1..n /\ i <= j /\ j < k
        BY <1>1, <3>2, <3>4, <4>1
      <4>3. \E j \in i..(f - 1) : template[j].kind = "nl"
        BY <1>n, <3>4, <4>2 DEF Flushed
      <4>4. PICK j \in i..(f - 1) : template[j].kind = "nl"
        BY <4>3
      <4>5. j \in 1..n /\ i < j /\ j < k
        BY <1>1, <3>2, <4>2, <4>4
      <4> QED BY <3>3, <4>4, <4>5 DEF EndsLine
    <3>5. CASE p < i
      <4>1. p # n + 1 /\ p \in 1..n /\ p # i
        BY <1>1, <3>2, <3>5
      <4>2. \A j \in 1..n : ~(i < j /\ j < p) /\ (p <= j /\ j < i => k <= j /\ j < i)
        BY <1>1, <3>2, <3>5
      <4>3. p \in Line(i, Tags)
        BY <1>1, <3>3, <4>1, <4>2 DEF Line
      <4>4. p \notin Tags
        BY <3>1, <4>1, <4>3 DEF Standalones, Standalone
      <4> QED BY <1>n, <4>1, <4>4
    <3>6. CASE i = p
      BY <3>1, <3>6
    <3> QED BY <1>1, <3>2, <3>4, <3>5, <3>6
  <2>2. ASSUME p \in Standalones(Tags), k \in Line(p, Tags) PROVE k \in Hidden(Tags)
    BY <2>2 DEF Hidden
  <2> QED BY <2>1, <2>2
<1>6. ASSUME p \notin Standalones(Tags) PROVE TextBefore(Tags, p) = f..(p - 1)
  BY <1>3, <1>4, <1>5, <1>6
<1>7. ASSUME NEW s, p \in Standalones(Tags), LineBegins(s, p) PROVE TextBefore(Tags, p) = f..(s - 1)
  <2>1. p \in 1..n /\ s \in 1..p /\ p \in 1..Len(template)
    BY <1>1, <1>7, <1>n DEF LineBegins, Standalones
  <2>2. \A k \in f..(p - 1) : k \in 1..(p - 1)
    BY <1>1
  <2>3. \A k \in f..(p - 1) : k \in TextBefore(Tags, p) <=> k < s
    <3>1. \A k \in f..(p - 1) : k \in Line(p, Tags) <=> s <= k
      BY <1>7, <2>1, <2>2, LineLeft
    <3>2. \A k \in f..(p - 1) : ~(s <= k) <=> k < s
      BY <1>1, <2>1
    <3> QED BY <1>3, <1>5, <1>7, <3>1, <3>2
  <2>4. \A k : k \in f..(s - 1) <=> k \in f..(p - 1) /\ k < s
    BY <1>1, <2>1
  <2> QED BY <1>4, <2>3, <2>4
<1> QED BY <1>6, <1>7

LEMMA FlushedMeans ==
    ASSUME template \in Seq(Lexemes), NEW p \in 1..(Len(template) + 1), p \in Tags \/ p = Len(template) + 1,
           NEW f, Flushed(f, p)
    PROVE  /\ p \notin Standalones(Tags) => (TextBefore(Tags, p) # {} <=> f < p)
           /\ \A s : p \in Standalones(Tags) /\ LineBegins(s, p) => (TextBefore(Tags, p) # {} <=> f < s)
<1>1. f \in Nat /\ p \in Nat
  BY Places DEF Flushed
<1>2. ASSUME NEW s \in Nat PROVE f..(s - 1) # {} <=> f < s
  <2>1. f < s => f \in f..(s - 1)
    BY <1>1
  <2>2. ~(f < s) => \A k : k \notin f..(s - 1)
    BY <1>1
  <2> QED BY <2>1, <2>2
<1>3. p \notin Standalones(Tags) => (TextBefore(Tags, p) # {} <=> f < p)
  <2>1. p \notin Standalones(Tags) => TextBefore(Tags, p) = f..(p - 1)
    BY FlushedIs
  <2> QED BY <1>1, <1>2, <2>1
<1>4. ASSUME NEW s, p \in Standalones(Tags), LineBegins(s, p) PROVE TextBefore(Tags, p) # {} <=> f < s
  <2>1. TextBefore(Tags, p) = f..(s - 1)
    BY <1>4, FlushedIs
  <2>2. s \in Nat
    BY <1>1, <1>4 DEF LineBegins
  <2> QED BY <1>2, <2>1, <2>2
<1> QED BY <1>3, <1>4

\* The scan has the indentation of a standalone tag in its buffer exactly when the tag before
\* it holds none of the blanks.
LEMMA StandaloneLine ==
    ASSUME TextInv, scanning, pos \in 1..Len(template), pos \in Standalones(Tags),
           LineKnown(pos, lineStart, linePrefixIsIndent), Flushed(pos - Len(buffer), pos)
    PROVE  /\ pos - lineStart <= Len(buffer) <=> Indented(Tags, pos)
           /\ Indented(Tags, pos) => LineBegins(lineStart, pos) /\ Buffered(lineStart)
<1>n. PICK n : n = Len(template)
  OBVIOUS
<1>p. PICK p : p = pos
  OBVIOUS
<1>1. /\ n \in Nat /\ Positions = 1..n /\ p \in 1..n /\ p \in Tags /\ template \in Seq(Lexemes)
      /\ \A j \in Tags : j \in 1..n /\ template[j].kind = "tag"
  BY <1>n, <1>p, Places DEF TextInv, Standalones
<1>2. linePrefixIsIndent
  <2>1. IsStandalone
    BY <1>1, <1>p, StandaloneMeans
  <2> QED BY <2>1 DEF IsStandalone
<1>3. PICK s \in 1..p :
         /\ LineBegins(s, p)
         /\ \A j \in s..(p - 1) : template[j].kind = "blank"
         /\ lineStart = IF TailBefore(s) THEN s - 1 ELSE s
  BY <1>1, <1>2, <1>n, <1>p DEF LineKnown
<1>f. PICK f : f = p - Len(buffer)
  OBVIOUS
<1>4. f \in 1..p /\ \A i \in f..(p - 1) : i \notin Tags
  BY <1>f, <1>p DEF Flushed
<1>5. Len(buffer) = p - f
  BY <1>1, <1>f DEF TextInv
<1>6. Indented(Tags, p) <=> ~TailBefore(s)
  <2>1. ASSUME TailBefore(s) PROVE ~Indented(Tags, p)
    <3>1. s - 1 \in Tags /\ s - 1 < p /\ (s - 1) + 1 = s /\ template[s - 1].tail = "indent"
      BY <1>1, <1>3, <2>1 DEF TailBefore
    <3>2. s \in Line(p, Tags)
      <4>1. CASE s = p
        <5>1. \A k \in 1..n : ~(p < k /\ k < p) /\ ~(p <= k /\ k < p)
          BY <1>1
        <5> QED BY <1>1, <4>1, <5>1 DEF Line
      <4>2. CASE s # p
        <5>1. s \in 1..(p - 1) /\ s <= s /\ p \in 1..Len(template)
          BY <1>1, <1>3, <1>n, <4>2
        <5> QED BY <1>1, <1>3, <5>1, LineLeft
      <4> QED BY <4>1, <4>2
    <3> QED BY <3>1, <3>2 DEF Indented
  <2>2. ASSUME ~TailBefore(s), NEW k \in Tags, k < p, k + 1 \in Line(p, Tags) PROVE template[k].tail # "indent"
    <3>1. s <= k + 1
      <4>1. CASE k + 1 = p
        BY <1>3, <4>1
      <4>2. CASE k + 1 # p
        <5>1. k + 1 \in 1..(p - 1) /\ p \in 1..Len(template)
          BY <1>1, <1>n, <2>2, <4>2
        <5> QED BY <1>1, <1>3, <2>2, <5>1, LineLeft
      <4> QED BY <4>1, <4>2
    <3>2. k \notin s..(p - 1)
      BY <1>1, <1>3
    <3>3. k = s - 1
      <4>1. k \in 1..n /\ k < p
        BY <1>1, <2>2
      <4> QED BY <1>1, <3>1, <3>2, <4>1
    <3> QED BY <2>2, <3>3 DEF TailBefore
  <2> QED BY <2>1, <2>2 DEF Indented
<1>7. CASE TailBefore(s)
  <2>1. s - 1 \in Tags /\ lineStart = s - 1
    BY <1>3, <1>7 DEF TailBefore
  <2>2. s - 1 \notin f..(p - 1) /\ s - 1 \in 1..(p - 1)
    BY <1>1, <1>3, <1>4, <2>1
  <2>3. ~(p - lineStart <= p - f)
    BY <1>1, <1>3, <1>4, <2>1, <2>2
  <2> QED BY <1>5, <1>6, <1>7, <1>p, <2>3
<1>8. CASE ~TailBefore(s)
  <2>1. lineStart = s
    BY <1>3, <1>8
  <2>2. ~BeganInTag
    <3>1. CASE s = p
      <4>1. p - f # p - (p + 1)
        BY <1>1, <1>4
      <4> QED BY <1>5, <1>p, <2>1, <3>1, <4>1 DEF BeganInTag
    <3>2. CASE s # p
      <4>1. s \in s..(p - 1)
        BY <1>1, <1>3, <3>2
      <4>2. template[s].kind = "blank"
        BY <1>3, <4>1
      <4> QED BY <2>1, <4>2 DEF BeganInTag
    <3> QED BY <3>1, <3>2
  <2>3. Buffered(lineStart)
    BY <1>2, <2>2 DEF TextInv, PrefixIsBuffered
  <2>4. pos - lineStart <= Len(buffer)
    BY <2>3 DEF Buffered
  <2> QED BY <1>3, <1>6, <1>8, <1>p, <2>1, <2>3, <2>4
<1> QED BY <1>7, <1>8

-----------------------------------------------------------------------------
(* The nodes so far *)

Texts == {j \in Tags \cup {Len(template) + 1} : TextBefore(Tags, j) # {}}
Owns == {i \in Tags : TagType(i) # "Delimiters"}
Rests == {i \in Standalones(Tags) : RestOf(Tags, i) # {}}
Before(X, p) == Cardinality(Upto(X, 1, p - 1))
\* The tree has n nodes before p, as many as the reference counts.
Counted(p, n) == n = Before(Texts, p) + Before(Standalones(Tags), p) + Before(Owns, p) + Before(Rests, p)

LEMMA CountedSets ==
    ASSUME template \in Seq(Lexemes), NEW X, X \in {Texts, Standalones(Tags), Owns, Rests}
    PROVE  /\ X \in SUBSET Nat /\ IsFiniteSet(X)
           /\ \A k \in X : 1 <= k /\ k <= Len(template) + 1 /\ (k \in Tags \/ k = Len(template) + 1)
<1>1. \A k \in X : k \in Tags \cup {Len(template) + 1}
  BY DEF Texts, Standalones, Owns, Rests
<1>2. Len(template) \in Nat /\ Tags \subseteq 1..Len(template) /\ IsFiniteSet(Tags)
  BY Places
<1>3. IsFiniteSet(Tags \cup {Len(template) + 1})
  BY <1>2, FS_AddElement
<1>4. \A k \in Tags \cup {Len(template) + 1} : k \in Nat /\ 1 <= k /\ k <= Len(template) + 1
  BY <1>2
<1>5. X \in SUBSET (Tags \cup {Len(template) + 1})
  BY <1>1
<1>6. IsFiniteSet(X)
  BY <1>3, <1>5, FS_Subset
<1> QED BY <1>1, <1>4, <1>5, <1>6

LEMMA BeforeStep ==
    ASSUME NEW X \in SUBSET Nat, IsFiniteSet(X), NEW p \in Nat \ {0}, NEW e \in Nat, p <= e,
           \A k \in (p + 1)..e : k \notin X
    PROVE  /\ Before(X, p) \in Nat
           /\ p \in X => Before(X, e + 1) = Before(X, p) + 1
           /\ p \notin X => Before(X, e + 1) = Before(X, p)
<1>1. p \in Nat /\ 1 \in Nat /\ 1 <= p /\ (e + 1) - 1 = e
  OBVIOUS
<1>2. /\ Cardinality(Upto(X, 1, p - 1)) \in Nat
      /\ p \in X => Cardinality(Upto(X, 1, p)) = Cardinality(Upto(X, 1, p - 1)) + 1
      /\ p \notin X => Cardinality(Upto(X, 1, p)) = Cardinality(Upto(X, 1, p - 1))
  BY <1>1, UptoStep
<1>3. Upto(X, 1, e) = Upto(X, 1, p)
  BY <1>1, UptoStill
<1> QED BY <1>1, <1>2, <1>3 DEF Before

LEMMA CountedAfterTag ==
    ASSUME template \in Seq(Lexemes), NEW p \in 1..(Len(template) + 1), NEW e \in p..(Len(template) + 1),
           \A j \in (p + 1)..e : j \notin Tags /\ j # Len(template) + 1, NEW n, Counted(p, n),
           NEW a \in {0, 1}, a = 1 <=> p \in Texts, NEW b \in {0, 1}, b = 1 <=> p \in Standalones(Tags),
           NEW c \in {0, 1}, c = 1 <=> p \in Owns, NEW d \in {0, 1}, d = 1 <=> p \in Rests
    PROVE  n \in Nat /\ Counted(e + 1, n + a + b + c + d)
<1>1. Len(template) \in Nat /\ p \in Nat \ {0} /\ e \in Nat /\ p <= e
  BY Places
<1>2. ASSUME NEW X, X \in {Texts, Standalones(Tags), Owns, Rests}
      PROVE  /\ Before(X, p) \in Nat
             /\ p \in X => Before(X, e + 1) = Before(X, p) + 1
             /\ p \notin X => Before(X, e + 1) = Before(X, p)
  <2>1. X \in SUBSET Nat /\ IsFiniteSet(X) /\ \A k \in X : k \in Tags \/ k = Len(template) + 1
    BY <1>2, CountedSets
  <2>2. \A k \in (p + 1)..e : k \notin X
    BY <1>1, <2>1
  <2> QED BY <1>1, <2>1, <2>2, BeforeStep
<1>3. Before(Texts, p) \in Nat /\ Before(Texts, e + 1) = Before(Texts, p) + a
  <2>1. Texts \in {Texts, Standalones(Tags), Owns, Rests}
    OBVIOUS
  <2> QED BY <1>2, <2>1
<1>4. Before(Standalones(Tags), p) \in Nat /\ Before(Standalones(Tags), e + 1) = Before(Standalones(Tags), p) + b
  <2>1. Standalones(Tags) \in {Texts, Standalones(Tags), Owns, Rests}
    OBVIOUS
  <2> QED BY <1>2, <2>1
<1>5. Before(Owns, p) \in Nat /\ Before(Owns, e + 1) = Before(Owns, p) + c
  <2>1. Owns \in {Texts, Standalones(Tags), Owns, Rests}
    OBVIOUS
  <2> QED BY <1>2, <2>1
<1>6. Before(Rests, p) \in Nat /\ Before(Rests, e + 1) = Before(Rests, p) + d
  <2>1. Rests \in {Texts, Standalones(Tags), Owns, Rests}
    OBVIOUS
  <2> QED BY <1>2, <2>1
<1>7. PICK w : w = Before(Texts, p)
  OBVIOUS
<1>8. PICK x : x = Before(Standalones(Tags), p)
  OBVIOUS
<1>9. PICK y : y = Before(Owns, p)
  OBVIOUS
<1>10. PICK z : z = Before(Rests, p)
  OBVIOUS
<1>11. n = w + x + y + z /\ w \in Nat /\ x \in Nat /\ y \in Nat /\ z \in Nat
  BY <1>3, <1>4, <1>5, <1>6, <1>7, <1>8, <1>9, <1>10 DEF Counted
<1>12. n \in Nat /\ n + a + b + c + d = (w + a) + (x + b) + (y + c) + (z + d)
  BY <1>11
<1> QED BY <1>3, <1>4, <1>5, <1>6, <1>7, <1>8, <1>9, <1>10, <1>12 DEF Counted

LEMMA CountedAfterText ==
    ASSUME template \in Seq(Lexemes), NEW p \in 1..Len(template), p \notin Tags, NEW n, Counted(p, n)
    PROVE  Counted(p + 1, n)
<1>1. /\ Len(template) \in Nat /\ p \in Nat /\ p \in 1..(Len(template) + 1) /\ p \in p..(Len(template) + 1)
      /\ p # Len(template) + 1 /\ \A j \in (p + 1)..p : FALSE
  BY Places
<1>2. p \notin Texts /\ p \notin Standalones(Tags) /\ p \notin Owns /\ p \notin Rests
  BY <1>1 DEF Texts, Standalones, Owns, Rests
<1>3. PICK z : z = 0
  OBVIOUS
<1>4. /\ z \in {0, 1}
      /\ z = 1 <=> p \in Texts
      /\ z = 1 <=> p \in Standalones(Tags)
      /\ z = 1 <=> p \in Owns
      /\ z = 1 <=> p \in Rests
  BY <1>2, <1>3
<1>5. \A j \in (p + 1)..p : j \notin Tags /\ j # Len(template) + 1
  BY <1>1
<1>6. n \in Nat /\ Counted(p + 1, n + z + z + z + z)
  BY <1>1, <1>4, <1>5, CountedAfterTag
<1>7. n + z + z + z + z = n
  BY <1>3, <1>6
<1> QED BY <1>6, <1>7

LEMMA CountedFits ==
    ASSUME template \in Seq(Lexemes), NEW p \in 1..(Len(template) + 2), NEW n, Counted(p, n)
    PROVE  /\ n \in Nat /\ Size(Tags) \in Nat /\ n <= Size(Tags)
           /\ p = Len(template) + 2 => n = Size(Tags)
<1>1. Len(template) \in Nat /\ p - 1 \in Nat /\ 1 \in Nat
  BY Places
<1>2. ASSUME NEW X, X \in {Texts, Standalones(Tags), Owns, Rests}
      PROVE  /\ Before(X, p) \in Nat /\ Cardinality(X) \in Nat /\ Before(X, p) <= Cardinality(X)
             /\ p = Len(template) + 2 => Before(X, p) = Cardinality(X)
  <2>1. X \in SUBSET Nat /\ IsFiniteSet(X) /\ (\A k \in X : 1 <= k) /\ (\A k \in X : k <= Len(template) + 1)
    BY <1>2, CountedSets
  <2>2. /\ Cardinality(Upto(X, 1, p - 1)) \in Nat /\ Cardinality(X) \in Nat
        /\ Cardinality(Upto(X, 1, p - 1)) <= Cardinality(X)
        /\ (\A k \in X : k <= p - 1) => Upto(X, 1, p - 1) = X
    BY <1>1, <2>1, UptoAll
  <2>3. p = Len(template) + 2 => p - 1 = Len(template) + 1
    BY <1>1
  <2> QED BY <2>1, <2>2, <2>3 DEF Before
<1>3. Size(Tags) = Cardinality(Texts) + Cardinality(Standalones(Tags)) + Cardinality(Owns) + Cardinality(Rests)
  BY DEF Size, TextSites, TagSites, RestSites, Texts, Owns, Rests
<1>4. /\ Before(Texts, p) \in Nat /\ Cardinality(Texts) \in Nat /\ Before(Texts, p) <= Cardinality(Texts)
      /\ p = Len(template) + 2 => Before(Texts, p) = Cardinality(Texts)
  BY <1>2
<1>5. /\ Before(Owns, p) \in Nat /\ Cardinality(Owns) \in Nat /\ Before(Owns, p) <= Cardinality(Owns)
      /\ p = Len(template) + 2 => Before(Owns, p) = Cardinality(Owns)
  BY <1>2
<1>6. /\ Before(Rests, p) \in Nat /\ Cardinality(Rests) \in Nat /\ Before(Rests, p) <= Cardinality(Rests)
      /\ p = Len(template) + 2 => Before(Rests, p) = Cardinality(Rests)
  BY <1>2
<1>7. /\ Before(Standalones(Tags), p) \in Nat /\ Cardinality(Standalones(Tags)) \in Nat
      /\ Before(Standalones(Tags), p) <= Cardinality(Standalones(Tags))
      /\ p = Len(template) + 2 => Before(Standalones(Tags), p) = Cardinality(Standalones(Tags))
  BY <1>2
<1>8. n = Before(Texts, p) + Before(Standalones(Tags), p) + Before(Owns, p) + Before(Rests, p)
  BY DEF Counted
<1> QED BY <1>3, <1>4, <1>5, <1>6, <1>7, <1>8, SMTT(30)

LEMMA CountedFromStart == ASSUME template \in Seq(Lexemes) PROVE Counted(1, 0)
<1>1. ASSUME NEW X, X \in {Texts, Standalones(Tags), Owns, Rests} PROVE Before(X, 1) = 0
  <2>1. \A k \in X : k \in Nat
    BY <1>1, CountedSets
  <2>2. Upto(X, 1, 1 - 1) = {}
    BY <2>1 DEF Upto
  <2> QED BY <2>2, FS_EmptySet DEF Before
<1>2. Before(Texts, 1) = 0 /\ Before(Standalones(Tags), 1) = 0 /\ Before(Owns, 1) = 0 /\ Before(Rests, 1) = 0
  BY <1>1
<1> QED BY <1>2 DEF Counted

-----------------------------------------------------------------------------
(* What has passed *)

LEMMA BracketsStep ==
    ASSUME template \in Seq(Lexemes), NEW p \in 1..Len(template), p \in Tags,
           NEW e \in p..Len(template), \A j \in (p + 1)..e : j \notin Tags,
           NEW st, Brackets(st, p), TagType(p) = "Stop" => st # <<>>, NEW st2,
           TagType(p) \in Sections => st2 = Append(st, p),
           TagType(p) = "Stop" => st2 = SubSeq(st, 1, Len(st) - 1),
           TagType(p) \notin Sections /\ TagType(p) # "Stop" => st2 = st
    PROVE  /\ Brackets(st2, e + 1)
           /\ \A i \in Enclosing(Tags, e + 1) : i \in Enclosing(Tags, p) \/ (i = p /\ TagType(p) \in Sections)
           /\ \A i \in Enclosing(Tags, p) :
                 i \in Enclosing(Tags, e + 1) \/ (TagType(p) = "Stop" /\ i = ParentOf(Tags, p))
           /\ TagType(p) \in Sections => p \in Enclosing(Tags, e + 1)
           /\ TagType(p) = "Stop" => ParentOf(Tags, p) < p /\ ParentOf(Tags, p) \notin Enclosing(Tags, e + 1)
<1>1. p \in Nat \ {0} /\ e \in Nat /\ p + 1 \in Nat \ {0} /\ e + 1 \in Nat /\ p + 1 <= e + 1 /\ (e + 1) - 1 = e
  BY Places
<1>2. \A j \in (p + 1)..((e + 1) - 1) : j \notin OpeningTags /\ j \notin StopTags
  BY <1>1 DEF OpeningTags, StopTags
<1>3. Brackets(st2, p + 1) => Brackets(st2, e + 1) /\ Enclosing(Tags, e + 1) = Enclosing(Tags, p + 1)
  BY <1>1, <1>2, BracketsKeep
<1>4. \A i : i \in Enclosing(Tags, p + 1) <=>
               /\ i \in Enclosing(Tags, p) \/ (i = p /\ i \in OpeningTags)
               /\ Openings(Tags, i, p) > Closings(Tags, i, p)
  BY <1>1, EnclosingNext
<1>5. \A i \in Enclosing(Tags, p + 1) : i \in Enclosing(Tags, p) \/ (i = p /\ TagType(p) \in Sections)
  BY <1>4 DEF OpeningTags
<1>6. CASE TagType(p) \in Sections
  <2>1. p \in OpeningTags /\ TagType(p) # "Stop"
    BY <1>6 DEF OpeningTags, Sections
  <2>2. Brackets(st2, p + 1)
    BY <1>1, <1>6, <2>1, BracketsPush
  <2>3. ASSUME NEW i, i \in Enclosing(Tags, p) \/ i = p PROVE i \in Enclosing(Tags, p + 1)
    <3>h. PICK h : h = Len(st2)
      OBVIOUS
    <3>1. Enclosing(Tags, p + 1) = {st2[k] : k \in 1..h}
      BY <2>2, <3>h DEF Brackets
    <3>2. st2 = Append(st, p) /\ st \in Seq(Nat)
      BY <1>6 DEF Brackets
    <3>3. h = Len(st) + 1 /\ Len(st) \in Nat /\ st2[h] = p /\ \A k \in 1..Len(st) : st2[k] = st[k] /\ k \in 1..h
      BY <1>1, <3>2, <3>h
    <3>4. Enclosing(Tags, p) = {st[k] : k \in 1..Len(st)} /\ h \in 1..h
      BY <3>3 DEF Brackets
    <3> QED BY <2>3, <3>1, <3>3, <3>4
  <2> QED BY <1>3, <1>5, <1>6, <2>1, <2>2, <2>3
<1>7. CASE TagType(p) = "Stop"
  <2>1. p \in StopTags /\ TagType(p) \notin Sections /\ st # <<>>
    BY <1>7 DEF StopTags, Sections
  <2>2. Brackets(st2, p + 1) /\ st[Len(st)] \notin Enclosing(Tags, p + 1)
    BY <1>1, <1>7, <2>1, BracketsPop
  <2>h. PICK h : h = Len(st)
    OBVIOUS
  <2>3. ParentOf(Tags, p) = st[h] /\ st[h] \in Enclosing(Tags, p)
    BY <1>1, <2>1, <2>h, BracketsMean
  <2>4. st[h] < p
    BY <2>3 DEF Enclosing
  <2>5. ASSUME NEW i \in Enclosing(Tags, p), i # st[h] PROVE i \in Enclosing(Tags, p + 1)
    <3>1. st \in Seq(Nat) /\ h \in Nat /\ st2 = SubSeq(st, 1, h - 1) /\ h # 0
      BY <1>7, <2>1, <2>h DEF Brackets
    <3>2. Len(st2) = h - 1 /\ \A k \in 1..(h - 1) : st2[k] = st[k]
      BY <3>1, <2>h
    <3>3. PICK k \in 1..h : i = st[k]
      BY <2>h DEF Brackets
    <3>4. k \in 1..(h - 1)
      BY <2>5, <3>1, <3>3
    <3>5. Enclosing(Tags, p + 1) = {st2[x] : x \in 1..(h - 1)}
      BY <2>2, <3>2 DEF Brackets
    <3> QED BY <3>2, <3>3, <3>4, <3>5
  <2> QED BY <1>3, <1>5, <1>7, <2>1, <2>2, <2>3, <2>4, <2>5, <2>h
<1>8. CASE TagType(p) \notin Sections /\ TagType(p) # "Stop"
  <2>1. \A j \in p..((p + 1) - 1) : j \notin OpeningTags /\ j \notin StopTags
    <3>1. \A j \in p..((p + 1) - 1) : j = p
      BY <1>1
    <3> QED BY <1>8, <3>1 DEF OpeningTags, StopTags
  <2>2. p <= p + 1 /\ st2 = st
    BY <1>1, <1>8
  <2>3. Brackets(st2, p + 1) /\ Enclosing(Tags, p + 1) = Enclosing(Tags, p)
    BY <1>1, <2>1, <2>2, BracketsKeep
  <2> QED BY <1>3, <1>5, <1>8, <2>3
<1> QED BY <1>6, <1>7, <1>8

\* What the reference asks of one tag, apart from the end of its section.
TagFine(i) ==
    /\ ~template[i].malformed /\ template[i].size <= limits.tag
    /\ Standalone(i, Tags) => Indented(Tags, i)
    /\ TagType(i) = "Delimiters" => DelimiterSize[template[i].name] <= limits.delimiter
    /\ TagType(i) \in Sections => Cardinality(Enclosing(Tags, i)) < limits.nesting
    /\ TagType(i) = "Stop" => Enclosing(Tags, i) # {} /\ template[ParentOf(Tags, i)].name = template[i].name
Passed(p) ==
    /\ \A i \in 1..(p - 1) : template[i].kind # "open"
    /\ \A i \in Tags : i < p =>
          /\ TagFine(i)
          /\ TagType(i) \in Sections => i \in Enclosing(Tags, p) \/ EndOf(Tags, i) # {}
          /\ TagType(i) = "Stop" => ParentOf(Tags, i) < i /\ ParentOf(Tags, i) \notin Enclosing(Tags, p)

LEMMA PassedTag ==
    ASSUME template \in Seq(Lexemes), NEW p \in 1..Len(template), p \in Tags,
           NEW e \in p..Len(template), \A j \in (p + 1)..e : j \notin Tags /\ template[j].kind \in {"blank", "nl"},
           Passed(p), TagFine(p),
           \A i \in Enclosing(Tags, e + 1) : i \in Enclosing(Tags, p) \/ (i = p /\ TagType(p) \in Sections),
           \A i \in Enclosing(Tags, p) : i \in Enclosing(Tags, e + 1) \/ (TagType(p) = "Stop" /\ i = ParentOf(Tags, p)),
           TagType(p) \in Sections => p \in Enclosing(Tags, e + 1),
           TagType(p) = "Stop" => ParentOf(Tags, p) < p /\ ParentOf(Tags, p) \notin Enclosing(Tags, e + 1)
    PROVE  Passed(e + 1)
<1>1. /\ Len(template) \in Nat /\ p \in Nat /\ e \in Nat /\ (e + 1) - 1 = e
      /\ \A i \in Tags : i \in Nat /\ template[i].kind = "tag"
  BY Places
<1>2. ASSUME NEW i \in 1..e PROVE template[i].kind # "open"
  <2>1. i \in 1..(p - 1) \/ i = p \/ i \in (p + 1)..e
    BY <1>1
  <2> QED BY <1>1, <2>1 DEF Passed
<1>3. ASSUME NEW i \in Tags, i < e + 1 PROVE i < p \/ i = p
  BY <1>1, <1>3
<1>4. ASSUME NEW i \in Tags, i < p
      PROVE  /\ TagFine(i)
             /\ TagType(i) \in Sections => i \in Enclosing(Tags, e + 1) \/ EndOf(Tags, i) # {}
             /\ TagType(i) = "Stop" => ParentOf(Tags, i) < i /\ ParentOf(Tags, i) \notin Enclosing(Tags, e + 1)
  <2>1. /\ TagFine(i)
        /\ TagType(i) \in Sections => i \in Enclosing(Tags, p) \/ EndOf(Tags, i) # {}
        /\ TagType(i) = "Stop" => ParentOf(Tags, i) < i /\ ParentOf(Tags, i) \notin Enclosing(Tags, p)
    BY <1>4 DEF Passed
  <2>2. TagType(p) = "Stop" /\ i = ParentOf(Tags, p) => p \in EndOf(Tags, i)
    BY DEF EndOf
  <2>3. TagType(i) = "Stop" => ParentOf(Tags, i) # p
    <3>1. ASSUME ParentOf(Tags, i) = p, p < i PROVE FALSE
      BY <1>1, <1>4, <3>1
    <3> QED BY <2>1, <3>1
  <2> QED BY <2>1, <2>2, <2>3
<1>5. /\ TagFine(p)
      /\ TagType(p) \in Sections => p \in Enclosing(Tags, e + 1) \/ EndOf(Tags, p) # {}
      /\ TagType(p) = "Stop" => ParentOf(Tags, p) < p /\ ParentOf(Tags, p) \notin Enclosing(Tags, e + 1)
  OBVIOUS
<1> QED BY <1>1, <1>2, <1>3, <1>4, <1>5 DEF Passed

LEMMA PassedText ==
    ASSUME template \in Seq(Lexemes), NEW p \in 1..Len(template), p \notin Tags, template[p].kind # "open",
           Passed(p), NEW st, Brackets(st, p)
    PROVE  Passed(p + 1) /\ Brackets(st, p + 1)
<1>1. /\ p \in Nat \ {0} /\ p + 1 \in Nat /\ p <= p + 1 /\ (p + 1) - 1 = p /\ (\A j \in p..p : j = p)
      /\ (\A i \in Tags : i < p + 1 => i < p) /\ \A i \in 1..p : i \in 1..(p - 1) \/ i = p
  <2>1. \A i \in Tags : i \in Nat
    BY Places
  <2> QED BY <2>1
<1>2. \A j \in p..((p + 1) - 1) : j \notin OpeningTags /\ j \notin StopTags
  BY <1>1 DEF OpeningTags, StopTags
<1>3. Brackets(st, p + 1) /\ Enclosing(Tags, p + 1) = Enclosing(Tags, p)
  BY <1>1, <1>2, BracketsKeep
<1> QED BY <1>1, <1>3 DEF Passed

\* A template is well formed if all of it has passed and no section is open at its end; and
\* one that is open there never ends.
LEMMA PassedAll ==
    ASSUME template \in Seq(Lexemes), NEW st, Brackets(st, Len(template) + 1), Passed(Len(template) + 1)
    PROVE  WellFormed(Tags) <=> st = <<>>
<1>n. PICK n : n = Len(template)
  OBVIOUS
<1>1. n \in Nat /\ Positions = 1..n /\ (n + 1) - 1 = n /\ (\A i \in Tags : i < n + 1) /\ n + 1 \in Nat \ {0}
  <2>1. \A i \in Tags : i \in 1..Len(template)
    BY Places
  <2> QED BY <2>1, <1>n, Places
<1>2. Enclosing(Tags, n + 1) = {} <=> st = <<>>
  BY <1>1, <1>n, BracketsMean
<1>3. /\ \A i \in 1..n : template[i].kind # "open"
      /\ \A i \in Tags :
          /\ TagFine(i)
          /\ TagType(i) \in Sections => i \in Enclosing(Tags, n + 1) \/ EndOf(Tags, i) # {}
          /\ TagType(i) = "Stop" => ParentOf(Tags, i) < i /\ ParentOf(Tags, i) \notin Enclosing(Tags, n + 1)
  BY <1>1, <1>n DEF Passed
<1>4. ASSUME Enclosing(Tags, n + 1) = {} PROVE WellFormed(Tags)
  BY <1>1, <1>3, <1>4 DEF WellFormed, TagFine
<1>5. ASSUME NEW i \in Enclosing(Tags, n + 1) PROVE ~WellFormed(Tags)
  <2>1. i \in Tags /\ TagType(i) \in Sections
    BY DEF Enclosing
  <2>2. EndOf(Tags, i) = {}
    BY <1>3 DEF EndOf
  <2> QED BY <2>1, <2>2 DEF WellFormed
<1> QED BY <1>2, <1>4, <1>5

-----------------------------------------------------------------------------
(* The nodes a tag adds *)

TagLeading == UnlessEmpty(Output(Parent, OutputBeforeTag)) \o Marker
TagStack ==
    CASE Type \in Sections -> Append(nodeStack, Opened(TagLeading))
      [] Type = "Stop" -> SubSeq(nodeStack, 1, Len(nodeStack) - 1)
      [] OTHER -> nodeStack
TagMarker == SourceOnly(Parent, SubSeq(template, lineStart, pos - 1), Type = "Partial")
TagRest == SubSeq(template, pos + 1, TagEnd)
TagAll ==
    SectionSource \o TagLeading \o (IF Type = "Delimiters" THEN <<>> ELSE <<TagNode>>)
        \o UnlessEmpty(SourceOnly(Innermost(TagStack), TagRest, FALSE))
\* A piece of the tree: a node, or none.
OneOrNone(p, a) == (a = 0 /\ p = <<>>) \/ (a = 1 /\ \E e : p = <<e>>)

LEMMA Lengthened ==
    ASSUME NEW ns, \E S : ns \in Seq(S), NEW p, NEW a, OneOrNone(p, a)
    PROVE  /\ \E S : ns \o p \in Seq(S)
           /\ Len(ns) \in Nat /\ Len(ns \o p) = Len(ns) + a
           /\ \A k \in 1..Len(ns) : (ns \o p)[k] = ns[k]
           /\ \A e : p = <<e>> => (ns \o p)[Len(ns) + 1] = e
<1>1. CASE p = <<>>
  <2>1. a = 0 /\ ns \o p = ns /\ Len(ns) \in Nat /\ \A e : p # <<e>>
    BY <1>1, Extended DEF OneOrNone
  <2> QED BY <2>1
<1>2. ASSUME NEW e, p = <<e>>
      PROVE  /\ \E S : ns \o p \in Seq(S)
             /\ Len(ns) \in Nat /\ Len(ns \o p) = Len(ns) + a
             /\ \A k \in 1..Len(ns) : (ns \o p)[k] = ns[k]
             /\ \A x : p = <<x>> => (ns \o p)[Len(ns) + 1] = x
  <2>1. a = 1 /\ \A x : p = <<x>> => x = e
    BY <1>2 DEF OneOrNone
  <2>2. /\ \E S : ns \o <<e>> \in Seq(S)
        /\ Len(ns) \in Nat /\ DOMAIN ns = 1..Len(ns)
        /\ Len(ns \o <<e>>) = Len(ns) + 1
        /\ \A k \in 1..Len(ns) : (ns \o <<e>>)[k] = ns[k]
        /\ (ns \o <<e>>)[Len(ns) + 1] = e
    <3>1. (\E S : ns \o <<e>> \in Seq(S)) /\ (ns \o <<e>>)[Len(ns) + 1] = e
      BY Extended
    <3>2. Len(ns) \in Nat /\ DOMAIN ns = 1..Len(ns)
      BY Extended
    <3>3. Len(ns \o <<e>>) = Len(ns) + 1
      BY Extended
    <3>4. \A k \in 1..Len(ns) : (ns \o <<e>>)[k] = ns[k]
      BY Extended
    <3> QED BY <3>1, <3>2, <3>3, <3>4
  <2> QED BY <1>2, <2>1, <2>2
<1> QED BY <1>1, <1>2 DEF OneOrNone

\* A list with a more nodes after those of another.
Longer(r, ns, a) == (\E S : r \in Seq(S)) /\ Len(ns) \in Nat /\ Len(r) = Len(ns) + a /\ \A k \in 1..Len(ns) : r[k] = ns[k]

LEMMA Lengthens ==
    ASSUME NEW ns, \E S : ns \in Seq(S), NEW p, NEW a, OneOrNone(p, a), NEW r, r = ns \o p
    PROVE  Longer(r, ns, a) /\ \A e : p = <<e>> => r[Len(ns) + 1] = e
<1>1. (\E S : r \in Seq(S)) /\ Len(ns) \in Nat /\ Len(r) = Len(ns) + a
  BY Lengthened
<1>2. \A k \in 1..Len(ns) : r[k] = ns[k]
  BY Lengthened
<1>3. \A e : p = <<e>> => r[Len(ns) + 1] = e
  BY Lengthened
<1> QED BY <1>1, <1>2, <1>3 DEF Longer

\* The text that a tag flushes, and the rest of its line, have a node unless they are empty.
LEMMA TagText ==
    ASSUME TextInv, scanning, pos \in 1..Len(template), pos \in Tags, LineKnown(pos, lineStart, linePrefixIsIndent),
           Flushed(pos - Len(buffer), pos), TagFine(pos)
    PROVE  /\ OutputBeforeTag # <<>> <=> pos \in Texts
           /\ TagRest # <<>> <=> TagEnd # pos
           /\ TagRest # <<>> <=> pos \in Rests
           /\ TagRest # <<>> => TagRest[Len(TagRest)] = template[TagEnd]
<1>n. PICK n : n = Len(template)
  OBVIOUS
<1>p. PICK p : p = pos
  OBVIOUS
<1>b. PICK b : b = Len(buffer)
  OBVIOUS
<1>f. PICK f : f = p - b
  OBVIOUS
<1>1. /\ n \in Nat /\ p \in 1..n /\ template \in Seq(Lexemes) /\ buffer \in Seq(Lexemes) /\ b \in Nat
      /\ f \in 1..p /\ Flushed(f, p) /\ p \in Tags
  BY <1>n, <1>p, <1>b, <1>f DEF TextInv, Flushed
<1>2. p \in Standalones(Tags) <=> IsStandalone
  BY <1>1, <1>p, StandaloneMeans
<1>3. /\ p \notin Standalones(Tags) => (TextBefore(Tags, p) # {} <=> f < p)
      /\ \A s : p \in Standalones(Tags) /\ LineBegins(s, p) => (TextBefore(Tags, p) # {} <=> f < s)
  <2>1. p \in 1..(Len(template) + 1)
    BY <1>1, <1>n
  <2> QED BY <1>1, <2>1, FlushedMeans
<1>4. p \in Texts <=> TextBefore(Tags, p) # {}
  BY <1>1 DEF Texts
<1>5. OutputBeforeTag # <<>> <=> p \in Texts
  <2>1. CASE IsStandalone
    <3>1. LineBegins(lineStart, p) /\ Buffered(lineStart)
      <4>1. pos \in Standalones(Tags) /\ Indented(Tags, pos)
        BY <1>1, <1>2, <1>p, <2>1 DEF TagFine, Standalones
      <4> QED BY <1>p, <4>1, StandaloneLine
    <3>2. PICK s : s = lineStart
      OBVIOUS
    <3>3. s <= p /\ p - s <= b /\ s \in 1..p
      BY <1>p, <1>b, <3>1, <3>2 DEF Buffered, LineBegins
    <3>4. PICK x : x = b - (p - s)
      OBVIOUS
    <3>5. x \in 0..b /\ (f < s <=> x # 0)
      BY <1>1, <1>f, <3>3, <3>4
    <3>6. OutputBeforeTag = SubSeq(buffer, 1, x)
      BY <1>p, <1>b, <2>1, <3>2, <3>4 DEF OutputBeforeTag
    <3>7. SubSeq(buffer, 1, x) # <<>> <=> x # 0
      BY <1>1, <1>b, <3>5
    <3> QED BY <1>2, <1>3, <1>4, <2>1, <3>1, <3>2, <3>5, <3>6, <3>7
  <2>2. CASE ~IsStandalone
    <3>1. buffer # <<>> <=> b # 0
      BY <1>1, <1>b
    <3>2. f < p <=> b # 0
      BY <1>1, <1>f
    <3> QED BY <1>2, <1>3, <1>4, <2>2, <3>1, <3>2 DEF OutputBeforeTag
  <2> QED BY <2>1, <2>2
<1>e. PICK e : e = TagEnd
  OBVIOUS
<1>6. e \in p..n
  BY <1>1, <1>n, <1>p, <1>e, TagLine
<1>r. PICK r : r = TagRest
  OBVIOUS
<1>7. r = SubSeq(template, p + 1, e)
  BY <1>p, <1>e, <1>r DEF TagRest
<1>8. /\ r # <<>> <=> e # p
      /\ r # <<>> => r[Len(r)] = template[e]
  <2>1. CASE e = p
    BY <1>1, <1>7, <2>1, SubSeqEmpty
  <2>2. CASE e # p
    <3>1. p + 1 \in 1..n /\ e \in (p + 1)..n
      BY <1>1, <1>6, <2>2
    <3>2. Len(r) = e - p /\ r[e - p] = template[e] /\ e - p # 0 /\ r \in Seq(Lexemes)
      BY <1>1, <1>7, <1>n, <3>1, SMTT(30)
    <3> QED BY <2>2, <3>2
  <2> QED BY <2>1, <2>2
<1>9. p \in Rests <=> e # p
  <2>1. p \notin Standalones(Tags) => e = p
    BY <1>1, <1>p, <1>e, TagLine
  <2>2. p \in Standalones(Tags) => RestOf(Tags, p) = (p + 1)..e
    BY <1>1, <1>p, <1>e, TagLine
  <2>3. (p + 1)..e # {} <=> e # p
    <3>1. e # p => e \in (p + 1)..e
      BY <1>1, <1>6
    <3>2. e = p => \A k : k \notin (p + 1)..e
      BY <1>1
    <3> QED BY <3>1, <3>2
  <2> QED BY <2>1, <2>2, <2>3 DEF Rests
<1> QED BY <1>5, <1>8, <1>9, <1>p, <1>e, <1>r

LEMMA UnlessEmptyShape ==
    ASSUME NEW e, NEW x, e.text = x
    PROVE  \E a \in {0, 1} : OneOrNone(UnlessEmpty(e), a) /\ (a = 1 <=> x # <<>>)
<1>1. CASE x = <<>>
  <2>1. UnlessEmpty(e) = <<>>
    BY <1>1 DEF UnlessEmpty
  <2> QED BY <1>1, <2>1 DEF OneOrNone
<1>2. CASE x # <<>>
  <2>1. UnlessEmpty(e) = <<e>>
    BY <1>2 DEF UnlessEmpty
  <2> QED BY <1>2, <2>1 DEF OneOrNone
<1> QED BY <1>1, <1>2

\* How many nodes the tree has after the tag, and which those of the tag are.
TagNodes(a, b, c, d) ==
    /\ a = 1 <=> pos \in Texts
    /\ b = 1 <=> pos \in Standalones(Tags)
    /\ c = 1 <=> pos \in Owns
    /\ d = 1 <=> pos \in Rests
    /\ Len(TagAll) = Len(nodes) + a + b + c + d /\ Len(nodes) \in Nat
    /\ \A k \in 1..Len(nodes) : TagAll[k] = SectionSource[k]
    /\ c = 1 => Opened(TagLeading) = Len(nodes) + a + b + 1 /\ TagAll[Len(nodes) + a + b + 1] = TagNode
    /\ a = 1 => TagAll[Len(nodes) + a] = Output(Parent, OutputBeforeTag)
    /\ b = 1 => TagAll[Len(nodes) + a + b] = TagMarker
    /\ d = 1 => TagAll[Len(nodes) + a + b + c + d] = SourceOnly(Innermost(TagStack), TagRest, FALSE)

LEMMA TagAllMeans ==
    ASSUME TextInv, TreeInv, scanning, pos \in 1..Len(template), pos \in Tags,
           LineKnown(pos, lineStart, linePrefixIsIndent), Flushed(pos - Len(buffer), pos), TagFine(pos)
    PROVE  \E a, b, c, d \in {0, 1} : TagNodes(a, b, c, d)
<1>u. PICK u : u = UnlessEmpty(Output(Parent, OutputBeforeTag))
  OBVIOUS
<1>m. PICK m : m = Marker
  OBVIOUS
<1>t. PICK t : t = IF Type = "Delimiters" THEN <<>> ELSE <<TagNode>>
  OBVIOUS
<1>r. PICK r : r = UnlessEmpty(SourceOnly(Innermost(TagStack), TagRest, FALSE))
  OBVIOUS
<1>s. PICK s : s = SectionSource
  OBVIOUS
<1>n. PICK n : n = Len(nodes)
  OBVIOUS
<1>p. PICK p : p = pos
  OBVIOUS
<1>x. PICK eu : eu = Output(Parent, OutputBeforeTag)
  OBVIOUS
<1>y. PICK em : em = TagMarker
  OBVIOUS
<1>w. PICK et : et = TagNode
  OBVIOUS
<1>z. PICK er : er = SourceOnly(Innermost(TagStack), TagRest, FALSE)
  OBVIOUS
<1>1. PICK a \in {0, 1} : OneOrNone(u, a) /\ (a = 1 <=> p \in Texts) /\ (a = 1 => u = <<eu>>)
  <2>1. PICK x : x = OutputBeforeTag
    OBVIOUS
  <2>2. PICK e : e = Output(Parent, x)
    OBVIOUS
  <2>3. e.text = x
    BY <2>2 DEF Output
  <2>4. PICK a \in {0, 1} : OneOrNone(UnlessEmpty(e), a) /\ (a = 1 <=> x # <<>>)
    BY <2>3, UnlessEmptyShape
  <2>5. a = 1 => UnlessEmpty(e) = <<e>>
    BY <2>3, <2>4 DEF UnlessEmpty
  <2>6. u = UnlessEmpty(e) /\ e = eu
    BY <2>1, <2>2, <1>u, <1>x
  <2>7. x # <<>> <=> p \in Texts
    BY <2>1, <1>p, TagText
  <2> QED BY <2>4, <2>5, <2>6, <2>7
<1>2. PICK b \in {0, 1} : OneOrNone(m, b) /\ (b = 1 <=> p \in Standalones(Tags)) /\ (b = 1 => m = <<em>>)
  <2>1. p \in Standalones(Tags) <=> IsStandalone
    BY <1>p, StandaloneMeans DEF TextInv
  <2>2. IsStandalone => m = <<em>>
    BY <1>m, <1>y DEF Marker, TagMarker
  <2>3. ~IsStandalone => m = <<>>
    BY <1>m DEF Marker
  <2>4. CASE IsStandalone
    BY <2>1, <2>2, <2>4 DEF OneOrNone
  <2>5. CASE ~IsStandalone
    BY <2>1, <2>3, <2>5 DEF OneOrNone
  <2> QED BY <2>4, <2>5
<1>3. PICK c \in {0, 1} : OneOrNone(t, c) /\ (c = 1 <=> p \in Owns) /\ (c = 1 => t = <<et>>)
  <2>1. p \in Owns <=> Type # "Delimiters"
    BY <1>p DEF Owns, TagType, Type, Current
  <2>2. CASE Type = "Delimiters"
    BY <2>1, <2>2, <1>t DEF OneOrNone
  <2>3. CASE Type # "Delimiters"
    BY <2>1, <2>3, <1>t, <1>w DEF OneOrNone
  <2> QED BY <2>2, <2>3
<1>4. PICK d \in {0, 1} : OneOrNone(r, d) /\ (d = 1 <=> p \in Rests) /\ (d = 1 => r = <<er>>)
  <2>1. PICK x : x = TagRest
    OBVIOUS
  <2>2. PICK e : e = SourceOnly(Innermost(TagStack), x, FALSE)
    OBVIOUS
  <2>3. e.text = x
    BY <2>2 DEF Output, SourceOnly
  <2>4. PICK d \in {0, 1} : OneOrNone(UnlessEmpty(e), d) /\ (d = 1 <=> x # <<>>)
    BY <2>3, UnlessEmptyShape
  <2>5. d = 1 => UnlessEmpty(e) = <<e>>
    BY <2>3, <2>4 DEF UnlessEmpty
  <2>6. r = UnlessEmpty(e) /\ e = er
    BY <2>1, <2>2, <1>r, <1>z
  <2>7. x # <<>> <=> p \in Rests
    BY <2>1, <1>p, TagText
  <2> QED BY <2>4, <2>5, <2>6, <2>7
<1>5. Len(s) = n /\ \E S : s \in Seq(S)
  BY <1>s, <1>n, MeasuringMovesNothing DEF TreeInv, IsTree
<1>6. PICK s1 : s1 = s \o u
  OBVIOUS
<1>7. /\ \E S : s1 \in Seq(S)
      /\ n \in Nat /\ Len(s1) = n + a
      /\ \A k \in 1..n : s1[k] = s[k]
      /\ a = 1 => s1[n + a] = eu
  <2>0. (\E S : s \in Seq(S)) /\ OneOrNone(u, a) /\ s1 = s \o u
    BY <1>1, <1>5, <1>6
  <2>1. Longer(s1, s, a)
    BY <2>0, Lengthens
  <2>e. \A e : u = <<e>> => s1[Len(s) + 1] = e
    BY <2>0, Lengthens
  <2>2. a = 1 => s1[Len(s) + 1] = eu
    BY <1>1, <2>e
  <2> QED BY <1>5, <2>1, <2>2 DEF Longer
<1>8. PICK s2 : s2 = s1 \o m
  OBVIOUS
<1>9. /\ \E S : s2 \in Seq(S)
      /\ Len(s2) = n + a + b
      /\ \A k \in 1..(n + a) : s2[k] = s1[k]
      /\ b = 1 => s2[n + a + b] = em
  <2>0. (\E S : s1 \in Seq(S)) /\ OneOrNone(m, b) /\ s2 = s1 \o m
    BY <1>2, <1>7, <1>8
  <2>1. Longer(s2, s1, b)
    BY <2>0, Lengthens
  <2>e. \A e : m = <<e>> => s2[Len(s1) + 1] = e
    BY <2>0, Lengthens
  <2>2. b = 1 => s2[Len(s1) + 1] = em
    BY <1>2, <2>e
  <2> QED BY <1>7, <2>1, <2>2 DEF Longer
<1>10. PICK s3 : s3 = s2 \o t
  OBVIOUS
<1>11. /\ \E S : s3 \in Seq(S)
       /\ Len(s3) = n + a + b + c
       /\ \A k \in 1..(n + a + b) : s3[k] = s2[k]
       /\ c = 1 => s3[n + a + b + 1] = et
  <2>0. (\E S : s2 \in Seq(S)) /\ OneOrNone(t, c) /\ s3 = s2 \o t
    BY <1>3, <1>9, <1>10
  <2>1. Longer(s3, s2, c)
    BY <2>0, Lengthens
  <2>e. \A e : t = <<e>> => s3[Len(s2) + 1] = e
    BY <2>0, Lengthens
  <2>2. c = 1 => s3[Len(s2) + 1] = et
    BY <1>3, <2>e
  <2> QED BY <1>9, <2>1, <2>2 DEF Longer
<1>12. PICK s4 : s4 = s3 \o r
  OBVIOUS
<1>13. /\ Len(s4) = n + a + b + c + d
       /\ \A k \in 1..(n + a + b + c) : s4[k] = s3[k]
       /\ d = 1 => s4[n + a + b + c + d] = er
  <2>0. (\E S : s3 \in Seq(S)) /\ OneOrNone(r, d) /\ s4 = s3 \o r
    BY <1>4, <1>11, <1>12
  <2>1. Longer(s4, s3, d)
    BY <2>0, Lengthens
  <2>e. \A e : r = <<e>> => s4[Len(s3) + 1] = e
    BY <2>0, Lengthens
  <2>2. d = 1 => s4[Len(s3) + 1] = er
    BY <1>4, <2>e
  <2> QED BY <1>11, <2>1, <2>2 DEF Longer
<1>14. s2 = s \o (u \o m) /\ Len(u \o m) = a + b
  <2>1. PICK S : s \in Seq(S)
    BY <1>5
  <2>a. PICK e1 : (a = 0 /\ u = <<>>) \/ (a = 1 /\ u = <<e1>>)
    BY <1>1 DEF OneOrNone
  <2>b. PICK e2 : (b = 0 /\ m = <<>>) \/ (b = 1 /\ m = <<e2>>)
    BY <1>2 DEF OneOrNone
  <2>3. PICK Q : Q = S \cup {e1, e2}
    OBVIOUS
  <2>4. s \in Seq(Q)
    BY <2>1, <2>3, SeqMonotonic
  <2>5. e1 \in Q /\ e2 \in Q
    BY <2>3
  <2>6. <<>> \in Seq(Q) /\ <<e1>> \in Seq(Q) /\ <<e2>> \in Seq(Q)
    BY <2>5
  <2>7. u \in Seq(Q) /\ m \in Seq(Q)
    BY <2>a, <2>b, <2>6
  <2>8. Len(u) = a /\ Len(m) = b
    BY <2>a, <2>b
  <2>9. (s \o u) \o m = s \o (u \o m) /\ Len(u \o m) = Len(u) + Len(m)
    BY <2>4, <2>7, ConcatAssociative, ConcatProperties, SMTT(30)
  <2> QED BY <1>6, <1>8, <2>8, <2>9
<1>15. TagLeading = u \o m
  BY <1>u, <1>m DEF TagLeading
<1>16. TagAll = s4
  BY <1>s, <1>t, <1>r, <1>10, <1>12, <1>14, <1>15 DEF TagAll
<1>17. Opened(TagLeading) = n + a + b + 1
  <2>1. Len(nodes) + Len(u \o m) + 1 = n + a + b + 1
    BY <1>7, <1>14, <1>n
  <2> QED BY <1>15, <2>1 DEF Opened
<1>18. \A k \in 1..n : s4[k] = s[k]
  <2>1. \A k \in 1..n : k \in 1..(n + a) /\ k \in 1..(n + a + b) /\ k \in 1..(n + a + b + c)
    BY <1>7
  <2> QED BY <1>7, <1>9, <1>11, <1>13, <2>1
<1>19. c = 1 => s4[n + a + b + 1] = et
  <2>1. c = 1 => n + a + b + 1 \in 1..(n + a + b + c)
    BY <1>7
  <2> QED BY <1>11, <1>13, <2>1
<1>20. a = 1 => s4[n + a] = eu
  <2>1. a = 1 => n + a \in 1..(n + a) /\ n + a \in 1..(n + a + b) /\ n + a \in 1..(n + a + b + c)
    BY <1>7
  <2> QED BY <1>7, <1>9, <1>11, <1>13, <2>1
<1>21. b = 1 => s4[n + a + b] = em
  <2>1. b = 1 => n + a + b \in 1..(n + a + b) /\ n + a + b \in 1..(n + a + b + c)
    BY <1>7
  <2> QED BY <1>9, <1>11, <1>13, <2>1
<1>22. d = 1 => s4[n + a + b + c + d] = er
  BY <1>13
<1>23. /\ a = 1 <=> pos \in Texts
       /\ b = 1 <=> pos \in Standalones(Tags)
       /\ c = 1 <=> pos \in Owns
       /\ d = 1 <=> pos \in Rests
  BY <1>1, <1>2, <1>3, <1>4, <1>p
<1>24. /\ Len(TagAll) = Len(nodes) + a + b + c + d /\ Len(nodes) \in Nat
       /\ \A k \in 1..Len(nodes) : TagAll[k] = SectionSource[k]
       /\ c = 1 => Opened(TagLeading) = Len(nodes) + a + b + 1 /\ TagAll[Len(nodes) + a + b + 1] = TagNode
  BY <1>7, <1>13, <1>16, <1>17, <1>18, <1>19, <1>n, <1>s, <1>w
<1>25. /\ a = 1 => TagAll[Len(nodes) + a] = Output(Parent, OutputBeforeTag)
       /\ b = 1 => TagAll[Len(nodes) + a + b] = TagMarker
       /\ d = 1 => TagAll[Len(nodes) + a + b + c + d] = SourceOnly(Innermost(TagStack), TagRest, FALSE)
  BY <1>16, <1>20, <1>21, <1>22, <1>n, <1>x, <1>y, <1>z
<1>26. TagNodes(a, b, c, d)
  BY <1>23, <1>24, <1>25 DEF TagNodes
<1> QED BY <1>26

-----------------------------------------------------------------------------
(* The order of the nodes *)

\* The sites of part k at positions up to i, and at i itself if the parts up to q are meant.
Reached(X, k, i, q) == {x \in X : x < i \/ (x = i /\ k <= q)}
Rank(i, q) == Index(Tags, i, q)
IsSite(i, q) ==
    \/ q = 1 /\ i \in Texts
    \/ q = 2 /\ i \in Standalones(Tags)
    \/ q = 3 /\ i \in Owns
    \/ q = 4 /\ i \in Rests

LEMMA RankIs ==
    ASSUME NEW i, NEW q
    PROVE  Rank(i, q) = Cardinality(Reached(Texts, 1, i, q)) + Cardinality(Reached(Standalones(Tags), 2, i, q))
                            + Cardinality(Reached(Owns, 3, i, q)) + Cardinality(Reached(Rests, 4, i, q))
<1>1. Texts = TextSites(Tags) /\ Owns = TagSites(Tags) /\ Rests = RestSites(Tags)
  BY DEF Texts, TextSites, Owns, TagSites, Rests, RestSites
<1> QED BY <1>1 DEF Rank, Index, Reached

LEMMA ReachedGrows ==
    ASSUME NEW X \in SUBSET Nat, IsFiniteSet(X), NEW k \in Nat, NEW i \in Nat, NEW q \in Nat, NEW j \in Nat, NEW r \in Nat,
           i < j \/ (i = j /\ q <= r)
    PROVE  /\ Cardinality(Reached(X, k, i, q)) \in Nat /\ Cardinality(Reached(X, k, j, r)) \in Nat
           /\ Cardinality(Reached(X, k, i, q)) <= Cardinality(Reached(X, k, j, r))
           /\ j \in X /\ k = r /\ (i < j \/ q < r) => Cardinality(Reached(X, k, i, q)) < Cardinality(Reached(X, k, j, r))
<1>a. PICK A : A = Reached(X, k, i, q)
  OBVIOUS
<1>b. PICK B : B = Reached(X, k, j, r)
  OBVIOUS
<1>1. A \in SUBSET B /\ B \in SUBSET X
  <2>1. ASSUME NEW x \in A PROVE x \in B
    <3>1. x \in X /\ x \in Nat /\ (x < i \/ (x = i /\ k <= q))
      BY <1>a DEF Reached
    <3>2. x < j \/ (x = j /\ k <= r)
      BY <3>1
    <3> QED BY <1>b, <3>1, <3>2 DEF Reached
  <2>2. B \in SUBSET X
    BY <1>b DEF Reached
  <2> QED BY <2>1, <2>2
<1>2. IsFiniteSet(A) /\ IsFiniteSet(B) /\ Cardinality(A) \in Nat /\ Cardinality(B) \in Nat
  BY <1>1, FS_Subset, FS_CardinalityType
<1>3. Cardinality(A) <= Cardinality(B) /\ (Cardinality(B) = Cardinality(A) => B = A)
  BY <1>1, <1>2, FS_Subset
<1>4. j \in X /\ k = r /\ (i < j \/ q < r) => j \in B /\ j \notin A
  BY <1>a, <1>b DEF Reached
<1> QED BY <1>2, <1>3, <1>4, <1>a, <1>b

LEMMA RankGrows ==
    ASSUME template \in Seq(Lexemes), NEW i \in Nat, NEW q \in Nat, NEW j \in Nat, NEW r \in Nat,
           i < j \/ (i = j /\ q <= r)
    PROVE  /\ Rank(i, q) \in Nat /\ Rank(j, r) \in Nat /\ Rank(i, q) <= Rank(j, r)
           /\ IsSite(j, r) /\ (i < j \/ q < r) => Rank(i, q) < Rank(j, r)
<1>1. ASSUME NEW X, X \in {Texts, Standalones(Tags), Owns, Rests}, NEW k \in Nat
      PROVE  /\ Cardinality(Reached(X, k, i, q)) \in Nat /\ Cardinality(Reached(X, k, j, r)) \in Nat
             /\ Cardinality(Reached(X, k, i, q)) <= Cardinality(Reached(X, k, j, r))
             /\ j \in X /\ k = r /\ (i < j \/ q < r) => Cardinality(Reached(X, k, i, q)) < Cardinality(Reached(X, k, j, r))
  <2>1. X \in SUBSET Nat /\ IsFiniteSet(X)
    BY <1>1, CountedSets
  <2> QED BY <2>1, ReachedGrows
<1>2. PICK a1, b1 : a1 = Cardinality(Reached(Texts, 1, i, q)) /\ b1 = Cardinality(Reached(Texts, 1, j, r))
  OBVIOUS
<1>3. PICK a2, b2 : a2 = Cardinality(Reached(Standalones(Tags), 2, i, q)) /\ b2 = Cardinality(Reached(Standalones(Tags), 2, j, r))
  OBVIOUS
<1>4. PICK a3, b3 : a3 = Cardinality(Reached(Owns, 3, i, q)) /\ b3 = Cardinality(Reached(Owns, 3, j, r))
  OBVIOUS
<1>5. PICK a4, b4 : a4 = Cardinality(Reached(Rests, 4, i, q)) /\ b4 = Cardinality(Reached(Rests, 4, j, r))
  OBVIOUS
<1>6. a1 \in Nat /\ b1 \in Nat /\ a1 <= b1 /\ (j \in Texts /\ r = 1 /\ (i < j \/ q < r) => a1 < b1)
  BY <1>1, <1>2
<1>7. a2 \in Nat /\ b2 \in Nat /\ a2 <= b2 /\ (j \in Standalones(Tags) /\ r = 2 /\ (i < j \/ q < r) => a2 < b2)
  BY <1>1, <1>3
<1>8. a3 \in Nat /\ b3 \in Nat /\ a3 <= b3 /\ (j \in Owns /\ r = 3 /\ (i < j \/ q < r) => a3 < b3)
  BY <1>1, <1>4
<1>9. a4 \in Nat /\ b4 \in Nat /\ a4 <= b4 /\ (j \in Rests /\ r = 4 /\ (i < j \/ q < r) => a4 < b4)
  BY <1>1, <1>5
<1>10. Rank(i, q) = a1 + a2 + a3 + a4 /\ Rank(j, r) = b1 + b2 + b3 + b4
  BY <1>2, <1>3, <1>4, <1>5, RankIs
<1>11. a1 + a2 + a3 + a4 <= b1 + b2 + b3 + b4
  BY <1>6, <1>7, <1>8, <1>9
<1>12. ASSUME IsSite(j, r), i < j \/ q < r PROVE a1 + a2 + a3 + a4 < b1 + b2 + b3 + b4
  <2>1. a1 < b1 \/ a2 < b2 \/ a3 < b3 \/ a4 < b4
    BY <1>6, <1>7, <1>8, <1>9, <1>12 DEF IsSite
  <2> QED BY <1>6, <1>7, <1>8, <1>9, <2>1
<1> QED BY <1>6, <1>7, <1>8, <1>9, <1>10, <1>11, <1>12

\* The first node has index 1, and no two nodes share one.
LEMMA RankOfSite ==
    ASSUME template \in Seq(Lexemes), NEW i, NEW q, IsSite(i, q)
    PROVE  i \in Nat \ {0} /\ q \in 1..4 /\ Rank(i, q) \in Nat \ {0}
<1>1. i \in Nat \ {0} /\ q \in 1..4
  <2>1. ASSUME NEW X, X \in {Texts, Standalones(Tags), Owns, Rests}, i \in X PROVE i \in Nat \ {0}
    <3>1. X \in SUBSET Nat /\ \A k \in X : 1 <= k
      BY <2>1, CountedSets
    <3> QED BY <2>1, <3>1
  <2>2. q \in 1..4
    BY DEF IsSite
  <2>3. i \in Texts \/ i \in Standalones(Tags) \/ i \in Owns \/ i \in Rests
    BY DEF IsSite
  <2> QED BY <2>1, <2>2, <2>3
<1>2. PICK z : z = 0
  OBVIOUS
<1>3. z \in Nat /\ i \in Nat /\ q \in Nat /\ z < i
  BY <1>1, <1>2
<1>4. Rank(z, z) \in Nat /\ Rank(i, q) \in Nat /\ Rank(z, z) < Rank(i, q)
  BY <1>3, RankGrows
<1> QED BY <1>1, <1>4

LEMMA RanksDiffer ==
    ASSUME template \in Seq(Lexemes), NEW i, NEW q, IsSite(i, q), NEW j, NEW r, IsSite(j, r), i # j \/ q # r
    PROVE  Rank(i, q) # Rank(j, r)
<1>1. i \in Nat /\ q \in Nat /\ j \in Nat /\ r \in Nat
  BY RankOfSite
<1>2. \/ i < j \/ (i = j /\ q <= r /\ q < r)
      \/ j < i \/ (j = i /\ r <= q /\ r < q)
  BY <1>1
<1>3. CASE i < j \/ (i = j /\ q <= r /\ q < r)
  <2>1. Rank(i, q) \in Nat /\ Rank(j, r) \in Nat /\ Rank(i, q) < Rank(j, r)
    BY <1>1, <1>3, RankGrows
  <2> QED BY <2>1
<1>4. CASE j < i \/ (j = i /\ r <= q /\ r < q)
  <2>1. Rank(i, q) \in Nat /\ Rank(j, r) \in Nat /\ Rank(j, r) < Rank(i, q)
    BY <1>1, <1>4, RankGrows
  <2> QED BY <2>1
<1> QED BY <1>2, <1>3, <1>4

LEMMA ReachedIs ==
    ASSUME NEW X \in SUBSET Nat, IsFiniteSet(X), \A x \in X : 1 <= x, NEW p \in Nat \ {0}, NEW k \in Nat, NEW q \in Nat
    PROVE  /\ Before(X, p) \in Nat
           /\ k > q \/ p \notin X => Cardinality(Reached(X, k, p, q)) = Before(X, p)
           /\ k <= q /\ p \in X => Cardinality(Reached(X, k, p, q)) = Before(X, p) + 1
<1>1. 1 \in Nat /\ 1 <= p
  OBVIOUS
<1>2. /\ Cardinality(Upto(X, 1, p - 1)) \in Nat
      /\ p \in X => Cardinality(Upto(X, 1, p)) = Cardinality(Upto(X, 1, p - 1)) + 1
  BY <1>1, UptoStep
<1>0. \A x \in X : (1 <= x /\ x <= p - 1 <=> x < p) /\ (1 <= x /\ x <= p <=> x < p \/ x = p)
  <2> SUFFICES ASSUME NEW x \in X PROVE (1 <= x /\ x <= p - 1 <=> x < p) /\ (1 <= x /\ x <= p <=> x < p \/ x = p)
    OBVIOUS
  <2>1. x \in Nat /\ 1 <= x
    OBVIOUS
  <2> QED BY <2>1
<1>5. Upto(X, 1, p - 1) = {x \in X : x < p} /\ Upto(X, 1, p) = {x \in X : x < p \/ x = p}
  BY <1>0 DEF Upto
<1>3. k > q \/ p \notin X => Reached(X, k, p, q) = Upto(X, 1, p - 1)
  BY <1>5 DEF Reached
<1>4. k <= q /\ p \in X => Reached(X, k, p, q) = Upto(X, 1, p)
  BY <1>5 DEF Reached
<1> QED BY <1>2, <1>3, <1>4 DEF Before

\* Which parts there are at a position, as numbers.
SitesAt(p, a, b, c, d) ==
    /\ a \in {0, 1} /\ b \in {0, 1} /\ c \in {0, 1} /\ d \in {0, 1}
    /\ a = 1 <=> p \in Texts
    /\ b = 1 <=> p \in Standalones(Tags)
    /\ c = 1 <=> p \in Owns
    /\ d = 1 <=> p \in Rests

\* The nodes before a position number those of all earlier parts, and each part adds one there.
LEMMA RanksAt ==
    ASSUME template \in Seq(Lexemes), NEW p \in Nat \ {0}, NEW n, Counted(p, n),
           NEW a, NEW b, NEW c, NEW d, SitesAt(p, a, b, c, d)
    PROVE  /\ n \in Nat /\ Rank(p, 0) = n
           /\ Rank(p, 1) = n + a /\ Rank(p, 2) = n + a + b
           /\ Rank(p, 3) = n + a + b + c /\ Rank(p, 4) = n + a + b + c + d
<1>0. /\ a \in {0, 1} /\ b \in {0, 1} /\ c \in {0, 1} /\ d \in {0, 1}
      /\ a = 1 <=> p \in Texts
      /\ b = 1 <=> p \in Standalones(Tags)
      /\ c = 1 <=> p \in Owns
      /\ d = 1 <=> p \in Rests
  BY DEF SitesAt
<1>1. ASSUME NEW X, X \in {Texts, Standalones(Tags), Owns, Rests}, NEW k \in Nat, NEW q \in Nat
      PROVE  /\ Before(X, p) \in Nat
             /\ k > q \/ p \notin X => Cardinality(Reached(X, k, p, q)) = Before(X, p)
             /\ k <= q /\ p \in X => Cardinality(Reached(X, k, p, q)) = Before(X, p) + 1
  <2>1. X \in SUBSET Nat /\ IsFiniteSet(X) /\ \A x \in X : 1 <= x
    BY <1>1, CountedSets
  <2> QED BY <2>1, ReachedIs
<1>2. PICK w, x, y, z : w = Before(Texts, p) /\ x = Before(Standalones(Tags), p) /\ y = Before(Owns, p) /\ z = Before(Rests, p)
  OBVIOUS
<1>3. w \in Nat /\ x \in Nat /\ y \in Nat /\ z \in Nat /\ n = w + x + y + z
  BY <1>1, <1>2 DEF Counted
<1>4. ASSUME NEW q \in Nat
      PROVE  /\ Cardinality(Reached(Texts, 1, p, q)) = w + (IF 1 <= q THEN a ELSE 0)
             /\ Cardinality(Reached(Standalones(Tags), 2, p, q)) = x + (IF 2 <= q THEN b ELSE 0)
             /\ Cardinality(Reached(Owns, 3, p, q)) = y + (IF 3 <= q THEN c ELSE 0)
             /\ Cardinality(Reached(Rests, 4, p, q)) = z + (IF 4 <= q THEN d ELSE 0)
  <2>1. Cardinality(Reached(Texts, 1, p, q)) = w + (IF 1 <= q THEN a ELSE 0)
    <3>1. /\ 1 > q \/ p \notin Texts => Cardinality(Reached(Texts, 1, p, q)) = w
          /\ 1 <= q /\ p \in Texts => Cardinality(Reached(Texts, 1, p, q)) = w + 1
      BY <1>1, <1>2
    <3>2. a = 0 \/ a = 1
      BY <1>0
    <3> QED BY <1>0, <1>3, <3>1, <3>2
  <2>2. Cardinality(Reached(Standalones(Tags), 2, p, q)) = x + (IF 2 <= q THEN b ELSE 0)
    <3>1. /\ 2 > q \/ p \notin Standalones(Tags) => Cardinality(Reached(Standalones(Tags), 2, p, q)) = x
          /\ 2 <= q /\ p \in Standalones(Tags) => Cardinality(Reached(Standalones(Tags), 2, p, q)) = x + 1
      BY <1>1, <1>2
    <3>2. b = 0 \/ b = 1
      BY <1>0
    <3> QED BY <1>0, <1>3, <3>1, <3>2
  <2>3. Cardinality(Reached(Owns, 3, p, q)) = y + (IF 3 <= q THEN c ELSE 0)
    <3>1. /\ 3 > q \/ p \notin Owns => Cardinality(Reached(Owns, 3, p, q)) = y
          /\ 3 <= q /\ p \in Owns => Cardinality(Reached(Owns, 3, p, q)) = y + 1
      BY <1>1, <1>2
    <3>2. c = 0 \/ c = 1
      BY <1>0
    <3> QED BY <1>0, <1>3, <3>1, <3>2
  <2>4. Cardinality(Reached(Rests, 4, p, q)) = z + (IF 4 <= q THEN d ELSE 0)
    <3>1. /\ 4 > q \/ p \notin Rests => Cardinality(Reached(Rests, 4, p, q)) = z
          /\ 4 <= q /\ p \in Rests => Cardinality(Reached(Rests, 4, p, q)) = z + 1
      BY <1>1, <1>2
    <3>2. d = 0 \/ d = 1
      BY <1>0
    <3> QED BY <1>0, <1>3, <3>1, <3>2
  <2> QED BY <2>1, <2>2, <2>3, <2>4
<1>5. ASSUME NEW q \in Nat
      PROVE  Rank(p, q) = (w + (IF 1 <= q THEN a ELSE 0)) + (x + (IF 2 <= q THEN b ELSE 0))
                              + (y + (IF 3 <= q THEN c ELSE 0)) + (z + (IF 4 <= q THEN d ELSE 0))
  BY <1>4, RankIs
<1>6. Rank(p, 0) = w + x + y + z /\ Rank(p, 1) = (w + a) + x + y + z
  BY <1>0, <1>3, <1>5
<1>7. Rank(p, 2) = (w + a) + (x + b) + y + z /\ Rank(p, 3) = (w + a) + (x + b) + (y + c) + z
  BY <1>0, <1>3, <1>5
<1>8. Rank(p, 4) = (w + a) + (x + b) + (y + c) + (z + d)
  BY <1>0, <1>3, <1>5
<1>9. /\ (w + a) + x + y + z = n + a /\ (w + a) + (x + b) + y + z = n + a + b
      /\ (w + a) + (x + b) + (y + c) + z = n + a + b + c
      /\ (w + a) + (x + b) + (y + c) + (z + d) = n + a + b + c + d
  BY <1>0, <1>3
<1> QED BY <1>3, <1>6, <1>7, <1>8, <1>9

-----------------------------------------------------------------------------
(* Text *)

LEMMA TextIs ==
    ASSUME template \in Seq(Lexemes), NEW a \in Nat \ {0}, NEW b \in Nat, b <= Len(template), a <= b + 1,
           NEW P, P = a..b
    PROVE  Text(P) = SubSeq(template, a, b)
<1>n. PICK n : n = b - a + 1
  OBVIOUS
<1>1. n \in Nat /\ Cardinality(P) = n
  <2>1. a \in Int /\ b \in Int /\ n \in Nat /\ (a > b => n = 0)
    BY <1>n
  <2>2. Cardinality(a..b) = IF a > b THEN 0 ELSE b - a + 1
    BY <2>1, FS_Interval
  <2> QED BY <2>1, <2>2, <1>n
<1>2. ASSUME NEW i \in P PROVE Cardinality({j \in P : j <= i}) = i - a + 1
  <2>1. {j \in P : j <= i} = a..i
    OBVIOUS
  <2>2. i \in Int /\ a \in Int /\ ~(a > i)
    OBVIOUS
  <2> QED BY <2>1, <2>2, FS_Interval
<1>3. ASSUME NEW k \in 1..n PROVE (CHOOSE i \in P : Cardinality({j \in P : j <= i}) = k) = a + k - 1
  <2>1. a + k - 1 \in P /\ (a + k - 1) - a + 1 = k /\ \A i \in P : i - a + 1 = k => i = a + k - 1
    BY <1>n
  <2>2. \A i \in P : Cardinality({j \in P : j <= i}) = k <=> i = a + k - 1
    BY <1>2, <2>1
  <2> QED BY <2>1, <2>2
<1>4. Text(P) = [k \in 1..n |-> template[a + k - 1]]
  <2>1. PICK u : u = Text(P)
    OBVIOUS
  <2>2. u = [k \in 1..n |-> template[CHOOSE i \in P : Cardinality({j \in P : j <= i}) = k]]
    BY <1>1, <2>1 DEF Text
  <2>3. DOMAIN u = 1..n /\ u = [k \in DOMAIN u |-> u[k]]
    BY <2>2
  <2>4. ASSUME NEW k \in 1..n PROVE u[k] = template[a + k - 1]
    <3>1. u[k] = template[CHOOSE i \in P : Cardinality({j \in P : j <= i}) = k]
      BY <2>2
    <3> QED BY <1>3, <3>1
  <2> QED BY <2>1, <2>3, <2>4
<1>5. SubSeq(template, a, b) = [k \in 1..n |-> template[a + k - 1]]
  <2>1. PICK s : s = SubSeq(template, a, b)
    OBVIOUS
  <2>2. \A k \in a..b : template[k] \in Lexemes
    OBVIOUS
  <2>3. /\ s \in Seq(Lexemes) /\ Len(s) = (IF a <= b THEN b - a + 1 ELSE 0)
        /\ \A k \in 1..(b - a + 1) : s[k] = template[a + k - 1]
    BY <2>1, <2>2, SubSeqProperties
  <2>4. Len(s) = n /\ DOMAIN s = 1..n /\ s = [k \in DOMAIN s |-> s[k]]
    BY <2>3, <1>n
  <2>5. \A k \in 1..n : s[k] = template[a + k - 1]
    BY <2>3, <1>n
  <2> QED BY <2>1, <2>4, <2>5
<1> QED BY <1>4, <1>5

\* The beginning of a stretch of the template.
LEMMA TextBegins ==
    ASSUME NEW t \in Seq(Lexemes), NEW f \in Nat \ {0}, NEW q \in Nat, q <= Len(t), f <= q + 1, NEW x \in 0..(q - f + 1)
    PROVE  SubSeq(SubSeq(t, f, q), 1, x) = SubSeq(t, f, f + x - 1)
<1>1. PICK s : s = SubSeq(t, f, q)
  OBVIOUS
<1>2. PICK u : u = SubSeq(s, 1, x)
  OBVIOUS
<1>3. PICK v : v = SubSeq(t, f, f + x - 1)
  OBVIOUS
<1>4. s \in Seq(Lexemes) /\ Len(s) = q - f + 1 /\ \A k \in 1..(q - f + 1) : s[k] = t[f + k - 1]
  <2>1. \A k \in f..q : t[k] \in Lexemes
    OBVIOUS
  <2> QED BY <1>1, <2>1, SubSeqProperties
<1>5. u \in Seq(Lexemes) /\ Len(u) = x /\ \A k \in 1..x : u[k] = s[k]
  <2>1. \A k \in 1..x : s[k] \in Lexemes
    BY <1>4
  <2>2. u \in Seq(Lexemes) /\ Len(u) = (IF 1 <= x THEN x - 1 + 1 ELSE 0) /\ \A k \in 1..(x - 1 + 1) : u[k] = s[1 + k - 1]
    BY <1>2, <2>1, SubSeqProperties
  <2> QED BY <2>2
<1>6. v \in Seq(Lexemes) /\ Len(v) = x /\ \A k \in 1..x : v[k] = t[f + k - 1]
  <2>1. PICK y : y = f + x - 1
    OBVIOUS
  <2>2. y \in Int /\ y - f + 1 = x /\ (f <= y <=> 1 <= x)
    BY <2>1
  <2>3. \A k \in f..y : t[k] \in Lexemes
    BY <2>1
  <2>4. v \in Seq(Lexemes) /\ Len(v) = (IF f <= y THEN y - f + 1 ELSE 0) /\ \A k \in 1..(y - f + 1) : v[k] = t[f + k - 1]
    BY <1>3, <2>1, <2>2, <2>3, SubSeqProperties
  <2> QED BY <2>2, <2>4
<1>7. ASSUME NEW k \in 1..x PROVE u[k] = v[k]
  <2>1. k \in 1..(q - f + 1)
    OBVIOUS
  <2> QED BY <1>4, <1>5, <1>6, <2>1
<1>8. u = v
  BY <1>5, <1>6, <1>7, SeqEqual
<1> QED BY <1>1, <1>2, <1>3, <1>8

\* The text that waits, with one more lexeme.
LEMMA TextGrows ==
    ASSUME NEW t \in Seq(Lexemes), NEW f \in Nat \ {0}, NEW p \in 1..Len(t), f <= p
    PROVE  Append(SubSeq(t, f, p - 1), t[p]) = SubSeq(t, f, p)
<1>1. PICK s : s = SubSeq(t, f, p - 1)
  OBVIOUS
<1>2. PICK v : v = SubSeq(t, f, p)
  OBVIOUS
<1>3. PICK h \in Nat : h = p - f
  OBVIOUS
<1>4. s \in Seq(Lexemes) /\ Len(s) = h /\ \A k \in 1..h : s[k] = t[f + k - 1]
  <2>1. \A k \in f..(p - 1) : t[k] \in Lexemes
    OBVIOUS
  <2>2. p - 1 \in Int /\ (p - 1) - f + 1 = h /\ (f <= p - 1 <=> h # 0)
    BY <1>3
  <2> QED BY <1>1, <2>1, <2>2, SubSeqProperties
<1>5. v \in Seq(Lexemes) /\ Len(v) = h + 1 /\ \A k \in 1..(h + 1) : v[k] = t[f + k - 1]
  <2>1. \A k \in f..p : t[k] \in Lexemes
    OBVIOUS
  <2>2. p \in Int /\ p - f + 1 = h + 1
    BY <1>3
  <2> QED BY <1>2, <2>1, <2>2, SubSeqProperties
<1>6. PICK u : u = Append(s, t[p])
  OBVIOUS
<1>7. u \in Seq(Lexemes) /\ Len(u) = h + 1 /\ u[h + 1] = t[p] /\ \A k \in 1..h : u[k] = s[k]
  BY <1>4, <1>6
<1>8. ASSUME NEW k \in 1..(h + 1) PROVE u[k] = v[k]
  <2>1. CASE k \in 1..h
    BY <1>4, <1>5, <1>7, <2>1
  <2>2. CASE k = h + 1
    <3>1. f + (h + 1) - 1 = p
      BY <1>3
    <3> QED BY <1>5, <1>7, <2>2, <3>1
  <2> QED BY <2>1, <2>2
<1>9. u = v
  BY <1>5, <1>7, <1>8, SeqEqual
<1> QED BY <1>1, <1>2, <1>6, <1>9

-----------------------------------------------------------------------------
(* The scan follows the reference *)

\* What holds when the scan has come to p: the delimiters, the line, the text and the nodes
\* are those the reference has there, st are the open sections, and all before p has passed.
Follows(st, p, pr, f, start, indent, n) ==
    /\ p \in 1..(Len(template) + 1)
    /\ pr = PairAt[p]
    /\ LineKnown(p, start, indent)
    /\ Flushed(f, p)
    /\ Counted(p, n)
    /\ Brackets(st, p)
    /\ Passed(p)
\* The nodes on the stack have the names of the sections they stand for.
Named(st, ns, stack) ==
    /\ stack \in Seq(Nat) /\ Len(stack) = Len(st)
    /\ \A k \in 1..Len(st) :
          /\ stack[k] \in 1..Len(ns) /\ "name" \in DOMAIN ns[stack[k]]
          /\ ns[stack[k]].name = template[st[k]].name

LEMMA FollowsText ==
    ASSUME template \in Seq(Lexemes), NEW p \in 1..Len(template), p \notin Tags, template[p].kind # "open",
           NEW st, NEW pr, NEW f, NEW start, NEW indent, NEW n, Follows(st, p, pr, f, start, indent, n),
           NEW start2, NEW indent2,
           template[p].kind = "nl" => start2 = p + 1 /\ indent2,
           template[p].kind # "nl" => start2 = start /\ (indent2 <=> indent /\ template[p].kind = "blank")
    PROVE  Follows(st, p + 1, pr, f, start2, indent2, n)
<1>1. /\ pr = PairAt[p] /\ LineKnown(p, start, indent) /\ Flushed(f, p) /\ Counted(p, n) /\ Brackets(st, p) /\ Passed(p)
  BY DEF Follows
<1>2. p + 1 \in 1..(Len(template) + 1)
  BY Places
<1>3. pr = PairAt[p + 1]
  BY <1>1, PairMeans
<1>4. LineKnown(p + 1, start2, indent2)
  BY <1>1, LineAfterText
<1>5. Flushed(f, p + 1)
  BY <1>1, FlushedAfterText
<1>6. Counted(p + 1, n)
  BY <1>1, CountedAfterText
<1>7. Passed(p + 1) /\ Brackets(st, p + 1)
  BY <1>1, PassedText
<1> QED BY <1>2, <1>3, <1>4, <1>5, <1>6, <1>7 DEF Follows

LEMMA CountedTag ==
    ASSUME TextInv, TreeInv, scanning, pos \in 1..Len(template), pos \in Tags, NEW st,
           Follows(st, pos, pair, pos - Len(buffer), lineStart, linePrefixIsIndent, Len(nodes)), TagFine(pos)
    PROVE  Counted(TagEnd + 1, Len(TagAll)) /\ Len(TagAll) \in Nat /\ Size(Tags) \in Nat /\ Len(TagAll) <= Size(Tags)
<1>p. PICK p : p = pos
  OBVIOUS
<1>e. PICK e : e = TagEnd
  OBVIOUS
<1>n. PICK n : n = Len(nodes)
  OBVIOUS
<1>1. /\ LineKnown(pos, lineStart, linePrefixIsIndent) /\ Flushed(pos - Len(buffer), pos) /\ Counted(p, n)
      /\ template \in Seq(Lexemes) /\ p \in 1..Len(template)
  BY <1>p, <1>n DEF Follows, TextInv
<1>2. e \in p..Len(template) /\ \A j \in (p + 1)..e : j \notin Tags
  BY <1>1, <1>p, <1>e, TagLine
<1>3. PICK a \in {0, 1}, b \in {0, 1}, c \in {0, 1}, d \in {0, 1} :
              /\ a = 1 <=> p \in Texts
              /\ b = 1 <=> p \in Standalones(Tags)
              /\ c = 1 <=> p \in Owns
              /\ d = 1 <=> p \in Rests
              /\ Len(TagAll) = n + a + b + c + d
  <2>1. PICK a \in {0, 1}, b \in {0, 1}, c \in {0, 1}, d \in {0, 1} : TagNodes(a, b, c, d)
    BY <1>1, <1>p, TagAllMeans
  <2> QED BY <2>1, <1>p, <1>n DEF TagNodes
<1>4. n \in Nat /\ Counted(e + 1, n + a + b + c + d)
  <2>1. Len(template) \in Nat /\ p \in 1..(Len(template) + 1) /\ e \in p..(Len(template) + 1)
    BY <1>1, <1>2, Places
  <2>2. \A j \in (p + 1)..e : j \notin Tags /\ j # Len(template) + 1
    BY <1>1, <1>2, <2>1
  <2> QED BY <1>1, <1>3, <2>1, <2>2, CountedAfterTag
<1>5. Counted(e + 1, Len(TagAll))
  BY <1>3, <1>4
<1>6. e + 1 \in 1..(Len(template) + 2)
  BY <1>1, <1>2, Places
<1>7. Len(TagAll) \in Nat /\ Size(Tags) \in Nat /\ Len(TagAll) <= Size(Tags)
  BY <1>1, <1>5, <1>6, CountedFits
<1> QED BY <1>5, <1>7, <1>e

\* The stack of positions after the tag at p.
StackAfter(st, p) ==
    CASE TagType(p) \in Sections -> Append(st, p)
      [] TagType(p) = "Stop" -> SubSeq(st, 1, Len(st) - 1)
      [] OTHER -> st

LEMMA FollowsTag ==
    ASSUME TextInv, TreeInv, scanning, pos \in 1..Len(template), pos \in Tags, NEW st,
           Follows(st, pos, pair, pos - Len(buffer), lineStart, linePrefixIsIndent, Len(nodes)), TagFine(pos),
           NEW pr2, pr2 = (IF Type = "Delimiters" THEN Current.name ELSE pair),
           NEW start2, NEW indent2,
           indent2 <=> IF TagRest = <<>> THEN Current.tail # "solid" ELSE TagRest[Len(TagRest)].kind = "nl",
           indent2 => start2 = IF TagRest = <<>> /\ Current.tail = "indent" THEN pos ELSE TagEnd + 1
    PROVE  Follows(StackAfter(st, pos), TagEnd + 1, pr2, TagEnd + 1, start2, indent2, Len(TagAll))
<1>p. PICK p : p = pos
  OBVIOUS
<1>e. PICK e : e = TagEnd
  OBVIOUS
<1>s. PICK st2 : st2 = StackAfter(st, p)
  OBVIOUS
<1>1. /\ LineKnown(pos, lineStart, linePrefixIsIndent) /\ Flushed(pos - Len(buffer), pos)
      /\ Brackets(st, p) /\ Passed(p) /\ pair = PairAt[p]
      /\ template \in Seq(Lexemes) /\ p \in 1..Len(template) /\ p \in Tags /\ TagFine(p)
  BY <1>p DEF Follows, TextInv
<1>2. e \in p..Len(template) /\ \A j \in (p + 1)..e : j \notin Tags /\ template[j].kind \in {"blank", "nl"}
  BY <1>1, <1>p, <1>e, TagLine
<1>3. e + 1 \in 1..(Len(template) + 1) /\ p + 1 \in 1..(Len(template) + 1) /\ e + 1 \in (p + 1)..(Len(template) + 1) /\ (e + 1) - 1 = e /\ p \in Nat \ {0}
  BY <1>1, <1>2, Places
<1>4. pr2 = PairAt[e + 1]
  <2>1. PairAt[p + 1] = IF TagType(p) = "Delimiters" THEN template[p].name ELSE PairAt[p]
    BY <1>1, PairMeans
  <2>2. PairAt[e + 1] = PairAt[p + 1]
    BY <1>1, <1>2, <1>3, PairStays
  <2> QED BY <1>1, <1>p, <2>1, <2>2 DEF TagType, Type, Current
<1>5. LineKnown(e + 1, start2, indent2)
  <2>1. (TagRest = <<>> <=> TagEnd = pos) /\ (TagRest # <<>> => TagRest[Len(TagRest)] = template[TagEnd])
    BY <1>1, TagText
  <2>2. indent2 <=> IF TagEnd = pos THEN template[pos].tail # "solid" ELSE template[TagEnd].kind = "nl"
    BY <2>1 DEF Current
  <2>3. indent2 => start2 = IF TagEnd = pos /\ template[pos].tail = "indent" THEN pos ELSE TagEnd + 1
    BY <2>1 DEF Current
  <2> QED BY <1>1, <1>e, <2>2, <2>3, LineAfterTag
<1>6. Flushed(e + 1, e + 1)
  BY <1>1, <1>e, FlushedAfterTag
<1>7. Counted(e + 1, Len(TagAll))
  BY <1>e, CountedTag
<1>8. TagType(p) = "Stop" => st # <<>>
  <2>1. Enclosing(Tags, p) = {} <=> st = <<>>
    BY <1>1, <1>3, BracketsMean
  <2> QED BY <1>1, <2>1 DEF TagFine
<1>9. /\ TagType(p) \in Sections => st2 = Append(st, p)
      /\ TagType(p) = "Stop" => st2 = SubSeq(st, 1, Len(st) - 1)
      /\ TagType(p) \notin Sections /\ TagType(p) # "Stop" => st2 = st
  BY <1>s DEF StackAfter, Sections
<1>10. /\ Brackets(st2, e + 1)
       /\ \A i \in Enclosing(Tags, e + 1) : i \in Enclosing(Tags, p) \/ (i = p /\ TagType(p) \in Sections)
       /\ \A i \in Enclosing(Tags, p) :
             i \in Enclosing(Tags, e + 1) \/ (TagType(p) = "Stop" /\ i = ParentOf(Tags, p))
       /\ TagType(p) \in Sections => p \in Enclosing(Tags, e + 1)
       /\ TagType(p) = "Stop" => ParentOf(Tags, p) < p /\ ParentOf(Tags, p) \notin Enclosing(Tags, e + 1)
  BY <1>1, <1>2, <1>8, <1>9, BracketsStep
<1>11. Passed(e + 1)
  BY <1>1, <1>2, <1>10, PassedTag
<1> QED BY <1>3, <1>4, <1>5, <1>6, <1>7, <1>10, <1>11, <1>p, <1>e, <1>s DEF Follows

\* The tokenizer objects to a tag exactly when the reference does.
LEMMA AcceptableMeans ==
    ASSUME TextInv, scanning, pos \in 1..Len(template), pos \in Tags,
           LineKnown(pos, lineStart, linePrefixIsIndent), Flushed(pos - Len(buffer), pos),
           NEW st, Brackets(st, pos), Named(st, nodes, nodeStack)
    PROVE  Acceptable <=> TagFine(pos)
<1>p. PICK p : p = pos
  OBVIOUS
<1>h. PICK h : h = Len(st)
  OBVIOUS
<1>1. p \in Nat \ {0} /\ template \in Seq(Lexemes) /\ p \in Tags
  BY <1>p, Places DEF TextInv
<1>2. /\ Cardinality(Enclosing(Tags, p)) = h /\ h \in Nat
      /\ Enclosing(Tags, p) = {} <=> st = <<>>
      /\ st # <<>> => ParentOf(Tags, p) = st[h]
  BY <1>1, <1>p, <1>h, BracketsMean
<1>3. st \in Seq(Nat) /\ nodeStack \in Seq(Nat) /\ Len(nodeStack) = h
  BY <1>h DEF Brackets, Named
<1>4. nodeStack = <<>> <=> st = <<>>
  BY <1>3, <1>h
<1>5. Type = TagType(p) /\ Current = template[p]
  BY <1>p DEF Type, TagType, Current
<1>6. RoomForSection <=> Cardinality(Enclosing(Tags, p)) < limits.nesting
  BY <1>2, <1>3 DEF RoomForSection
<1>7. st # <<>> => nodes[Parent].name = template[ParentOf(Tags, p)].name
  <2> SUFFICES ASSUME st # <<>> PROVE nodes[Parent].name = template[ParentOf(Tags, p)].name
    OBVIOUS
  <2>1. h \in 1..h
    BY <1>2, <1>3, <1>h
  <2>2. Parent = nodeStack[h]
    BY <1>3, <1>4 DEF Parent, Innermost
  <2>3. nodes[nodeStack[h]].name = template[st[h]].name
    BY <2>1, <1>h DEF Named
  <2> QED BY <1>2, <2>2, <2>3
<1>8. Closes <=> Enclosing(Tags, p) # {} /\ template[ParentOf(Tags, p)].name = template[p].name
  BY <1>2, <1>4, <1>5, <1>7 DEF Closes
<1>9. (IsStandalone => pos - lineStart <= Len(buffer)) <=> (Standalone(p, Tags) => Indented(Tags, p))
  <2>1. IsStandalone <=> p \in Standalones(Tags)
    BY <1>1, <1>p, StandaloneMeans
  <2>2. p \in Standalones(Tags) <=> Standalone(p, Tags)
    BY <1>1 DEF Standalones
  <2>3. p \in Standalones(Tags) => (pos - lineStart <= Len(buffer) <=> Indented(Tags, p))
    BY <1>p, StandaloneLine
  <2> QED BY <2>1, <2>2, <2>3
<1> QED BY <1>5, <1>6, <1>8, <1>9, <1>p DEF Acceptable, TagFine

LEMMA NamedTag ==
    ASSUME TextInv, TreeInv, scanning, pos \in 1..Len(template), pos \in Tags, NEW st,
           Follows(st, pos, pair, pos - Len(buffer), lineStart, linePrefixIsIndent, Len(nodes)), TagFine(pos),
           Named(st, nodes, nodeStack)
    PROVE  Named(StackAfter(st, pos), TagAll, TagStack)
<1>p. PICK p : p = pos
  OBVIOUS
<1>h. PICK h : h = Len(st)
  OBVIOUS
<1>n. PICK n : n = Len(nodes)
  OBVIOUS
<1>g. PICK g : g = TagAll
  OBVIOUS
<1>s. PICK st2 : st2 = StackAfter(st, p)
  OBVIOUS
<1>w. PICK w : w = TagStack
  OBVIOUS
<1>k. PICK stack : stack = nodeStack
  OBVIOUS
<1>1. /\ LineKnown(pos, lineStart, linePrefixIsIndent) /\ Flushed(pos - Len(buffer), pos)
      /\ Brackets(st, p) /\ template \in Seq(Lexemes) /\ p \in 1..Len(template)
  BY <1>p DEF Follows, TextInv
<1>2. PICK a \in {0, 1}, b \in {0, 1}, c \in {0, 1}, d \in {0, 1} :
              /\ c = 1 <=> p \in Owns
              /\ Len(g) = n + a + b + c + d /\ n \in Nat
              /\ \A k \in 1..n : g[k] = SectionSource[k]
              /\ c = 1 => Opened(TagLeading) = n + a + b + 1 /\ g[n + a + b + 1] = TagNode
  <2>1. PICK a \in {0, 1}, b \in {0, 1}, c \in {0, 1}, d \in {0, 1} : TagNodes(a, b, c, d)
    BY <1>1, <1>p, TagAllMeans
  <2> QED BY <2>1, <1>p, <1>n, <1>g DEF TagNodes
<1>3. ASSUME NEW k \in 1..n, "name" \in DOMAIN nodes[k]
      PROVE  "name" \in DOMAIN SectionSource[k] /\ SectionSource[k].name = nodes[k].name
  <2>1. CASE SectionSource = nodes
    BY <1>3, <2>1
  <2>2. CASE SectionSource # nodes
    <3>1. PICK q, x : SectionSource = [nodes EXCEPT ![q].length = x]
      BY <2>2 DEF SectionSource
    <3>2. k \in DOMAIN nodes
      BY <1>n DEF TreeInv, IsTree
    <3>3. SectionSource[k] = IF k = q THEN [nodes[q] EXCEPT !.length = x] ELSE nodes[k]
      BY <3>1, <3>2
    <3>4. CASE k = q
      BY <1>3, <3>3, <3>4
    <3>5. CASE k # q
      BY <1>3, <3>3, <3>5
    <3> QED BY <3>4, <3>5
  <2> QED BY <2>1, <2>2
<1>4. /\ st \in Seq(Nat) /\ stack \in Seq(Nat) /\ Len(stack) = h /\ h \in Nat
      /\ \A k \in 1..h :
            /\ stack[k] \in 1..n /\ "name" \in DOMAIN nodes[stack[k]]
            /\ nodes[stack[k]].name = template[st[k]].name
  BY <1>1, <1>h, <1>n, <1>k DEF Named, Brackets
<1>5. \A k \in 1..n : k \in 1..Len(g)
  BY <1>2, SMTT(30)
<1>6. \A k \in 1..h :
         /\ stack[k] \in 1..Len(g) /\ "name" \in DOMAIN g[stack[k]]
         /\ g[stack[k]].name = template[st[k]].name
  BY <1>2, <1>3, <1>4, <1>5
<1>7. Type = TagType(p) /\ Current = template[p]
  BY <1>p DEF Type, TagType, Current
<1>8. CASE TagType(p) \in Sections
  <2>1. st2 = Append(st, p)
    BY <1>s, <1>8 DEF StackAfter, Sections
  <2>2. p \in Owns /\ c = 1
    BY <1>2, <1>8, <1>p DEF Owns, Sections
  <2>3. PICK y : y = n + a + b + 1
    OBVIOUS
  <2>4. w = Append(stack, y) /\ y \in 1..Len(g) /\ y \in Nat /\ g[y] = TagNode
    <3>1. Opened(TagLeading) = y /\ g[y] = TagNode
      BY <1>2, <2>2, <2>3
    <3>2. w = Append(stack, y)
      BY <1>7, <1>8, <1>w, <1>k, <3>1 DEF TagStack, Sections
    <3>3. y \in Nat /\ y <= n + a + b + c + d /\ y # 0
      BY <1>2, <2>2, <2>3
    <3>4. y \in 1..Len(g)
      BY <1>2, <3>3
    <3> QED BY <3>1, <3>2, <3>3, <3>4
  <2>5. "name" \in DOMAIN TagNode /\ TagNode.name = template[p].name
    BY <1>7 DEF TagNode, Output
  <2>6. /\ w \in Seq(Nat) /\ Len(w) = h + 1 /\ w[h + 1] = y /\ \A k \in 1..h : w[k] = stack[k]
    BY <1>4, <2>4
  <2>7. Len(st2) = h + 1 /\ st2[h + 1] = p /\ \A k \in 1..h : st2[k] = st[k]
    BY <1>1, <1>4, <1>h, <2>1
  <2>8. \A k \in 1..(h + 1) : k \in 1..h \/ k = h + 1
    BY <1>4
  <2>9. \A k \in 1..(h + 1) :
           /\ w[k] \in 1..Len(g) /\ "name" \in DOMAIN g[w[k]]
           /\ g[w[k]].name = template[st2[k]].name
    BY <1>6, <2>4, <2>5, <2>6, <2>7, <2>8
  <2> QED BY <2>6, <2>7, <2>9, <1>g, <1>s, <1>w, <1>p DEF Named
<1>9. CASE TagType(p) = "Stop"
  <2>1. st2 = SubSeq(st, 1, h - 1) /\ w = SubSeq(stack, 1, h - 1)
    BY <1>4, <1>7, <1>9, <1>s, <1>w, <1>k, <1>h DEF StackAfter, TagStack, Sections
  <2>2. h # 0
    <3>1. Enclosing(Tags, p) # {}
      BY <1>9, <1>p DEF TagFine
    <3>2. p \in Nat \ {0}
      BY <1>1, Places
    <3>3. st # <<>>
      BY <1>1, <3>1, <3>2, BracketsMean
    <3> QED BY <1>4, <1>h, <3>3
  <2>3. /\ w \in Seq(Nat) /\ Len(w) = h - 1 /\ \A k \in 1..(h - 1) : w[k] = stack[k] /\ k \in 1..h
    BY <1>4, <2>1, <2>2
  <2>4. Len(st2) = h - 1 /\ \A k \in 1..(h - 1) : st2[k] = st[k]
    BY <1>4, <1>h, <2>1, <2>2
  <2>5. \A k \in 1..(h - 1) :
           /\ w[k] \in 1..Len(g) /\ "name" \in DOMAIN g[w[k]]
           /\ g[w[k]].name = template[st2[k]].name
    BY <1>6, <2>3, <2>4
  <2> QED BY <2>3, <2>4, <2>5, <1>g, <1>s, <1>w, <1>p DEF Named
<1>10. CASE TagType(p) \notin Sections /\ TagType(p) # "Stop"
  <2>1. st2 = st /\ w = stack
    BY <1>7, <1>10, <1>s, <1>w, <1>k DEF StackAfter, TagStack
  <2> QED BY <1>4, <1>6, <2>1, <1>g, <1>s, <1>w, <1>p, <1>h DEF Named
<1> QED BY <1>8, <1>9, <1>10

\* While tokenize runs, its limits hold so far and the scan follows the reference.
FollowsInv ==
    scanning =>
        /\ limits \in LimitChoices /\ Len(template) <= limits.input /\ DelimiterSize[sequences] <= limits.delimiter
        /\ \E st : /\ Follows(st, pos, pair, pos - Len(buffer), lineStart, linePrefixIsIndent, Len(nodes))
                   /\ Named(st, nodes, nodeStack)
SettingsInv == sequences \in {DefaultPair} \cup Pairs

\* The reference depends on the template and the delimiters it begins with.
LEMMA SameReference ==
    ASSUME UNCHANGED <<template, sequences>>
    PROVE  /\ Tags' = Tags /\ Size(Tags)' = Size(Tags) /\ PairAt' = PairAt /\ Positions' = Positions
           /\ \A i : TagType(i)' = TagType(i) /\ Line(i, Tags)' = Line(i, Tags) /\ RestOf(Tags, i)' = RestOf(Tags, i)
           /\ \A i, j : Openings(Tags, i, j)' = Openings(Tags, i, j) /\ Closings(Tags, i, j)' = Closings(Tags, i, j)
           /\ \A p : Enclosing(Tags, p)' = Enclosing(Tags, p)
           /\ \A p : ParentOf(Tags, p)' = ParentOf(Tags, p) /\ EndOf(Tags, p)' = EndOf(Tags, p)
           /\ \A i : (EndsLine(i, Tags)' <=> EndsLine(i, Tags)) /\ (Standalone(i, Tags)' <=> Standalone(i, Tags))
           /\ \A i : Indented(Tags, i)' <=> Indented(Tags, i)
           /\ Standalones(Tags)' = Standalones(Tags) /\ Hidden(Tags)' = Hidden(Tags)
           /\ \A j : TextBefore(Tags, j)' = TextBefore(Tags, j)
           /\ Texts' = Texts /\ Owns' = Owns /\ Rests' = Rests
<1>1. Tags' = Tags /\ Size(Tags)' = Size(Tags)
  BY SameTemplate
<1>2. PairAt' = PairAt
  BY DEF PairAt
<1>3. \A i : TagType(i)' = TagType(i)
  BY DEF TagType
<1>4. \A i, j : Openings(Tags, i, j)' = Openings(Tags, i, j) /\ Closings(Tags, i, j)' = Closings(Tags, i, j)
  BY <1>1, <1>3 DEF Openings, Closings
<1>5. \A p : Enclosing(Tags, p)' = Enclosing(Tags, p)
  BY <1>1, <1>3, <1>4 DEF Enclosing
<1>6. \A i : ParentOf(Tags, i)' = ParentOf(Tags, i)
  BY <1>5 DEF ParentOf
<1>7. \A i : EndOf(Tags, i)' = EndOf(Tags, i)
  BY <1>1, <1>3, <1>6 DEF EndOf
<1>8. Positions' = Positions /\ \A i : EndsLine(i, Tags)' <=> EndsLine(i, Tags)
  BY <1>1 DEF EndsLine, Positions
<1>13. \A i : Line(i, Tags)' = Line(i, Tags)
  BY <1>8 DEF Line
<1>14. \A i : Standalone(i, Tags)' <=> Standalone(i, Tags)
  BY <1>1, <1>13 DEF Standalone
<1>15. \A i : Indented(Tags, i)' <=> Indented(Tags, i)
  BY <1>1, <1>13 DEF Indented
<1>9. Standalones(Tags)' = Standalones(Tags)
  BY <1>1, <1>14 DEF Standalones
<1>10. Hidden(Tags)' = Hidden(Tags)
  BY <1>9, <1>13 DEF Hidden
<1>11. /\ \A j : TextBefore(Tags, j)' = TextBefore(Tags, j)
       /\ \A i : RestOf(Tags, i)' = RestOf(Tags, i)
  BY <1>1, <1>8, <1>10, <1>13 DEF TextBefore, RestOf
<1>12. Texts' = Texts /\ Owns' = Owns /\ Rests' = Rests
  BY <1>1, <1>3, <1>9, <1>11 DEF Texts, Owns, Rests
<1> QED BY <1>1, <1>2, <1>3, <1>4, <1>5, <1>6, <1>7, <1>8, <1>9, <1>10, <1>11, <1>12, <1>13, <1>14, <1>15

LEMMA SameFollows ==
    ASSUME UNCHANGED <<template, sequences, limits>>
    PROVE  /\ \A st, p, pr, f, start, indent, n :
                 Follows(st, p, pr, f, start, indent, n)' <=> Follows(st, p, pr, f, start, indent, n)
           /\ \A st, ns, stack : Named(st, ns, stack)' <=> Named(st, ns, stack)
           /\ Admitted' <=> Admitted
<1>1. /\ Tags' = Tags /\ Size(Tags)' = Size(Tags) /\ PairAt' = PairAt /\ Positions' = Positions
      /\ \A i : TagType(i)' = TagType(i)
      /\ \A i, j : Openings(Tags, i, j)' = Openings(Tags, i, j) /\ Closings(Tags, i, j)' = Closings(Tags, i, j)
      /\ Standalones(Tags)' = Standalones(Tags) /\ Hidden(Tags)' = Hidden(Tags)
      /\ Texts' = Texts /\ Owns' = Owns /\ Rests' = Rests
  BY SameReference
<1>2. \A p : Enclosing(Tags, p)' = Enclosing(Tags, p)
  BY SameReference
<1>3. \A p : ParentOf(Tags, p)' = ParentOf(Tags, p) /\ EndOf(Tags, p)' = EndOf(Tags, p)
  BY SameReference
<1>14. /\ \A i : (EndsLine(i, Tags)' <=> EndsLine(i, Tags)) /\ (Standalone(i, Tags)' <=> Standalone(i, Tags))
       /\ \A i : Indented(Tags, i)' <=> Indented(Tags, i)
  BY SameReference
<1>4. \A i : TagFine(i)' <=> TagFine(i)
  BY <1>1, <1>2, <1>3, <1>14 DEF TagFine
<1>5. \A p : Passed(p)' <=> Passed(p)
  BY <1>1, <1>2, <1>3, <1>4 DEF Passed
<1>6. \A st, p : Brackets(st, p)' <=> Brackets(st, p)
  BY <1>1, <1>2 DEF Brackets, OpeningTags
<1>7. \A p, n : Counted(p, n)' <=> Counted(p, n)
  BY <1>1 DEF Counted, Before, Upto
<1>8. \A f, p : Flushed(f, p)' <=> Flushed(f, p)
  BY <1>1 DEF Flushed
<1>9. \A p, start, indent : LineKnown(p, start, indent)' <=> LineKnown(p, start, indent)
  BY <1>1, <1>14 DEF LineKnown, LineBegins, TailBefore
<1>10. \A st, p, pr, f, start, indent, n :
          Follows(st, p, pr, f, start, indent, n)' <=> Follows(st, p, pr, f, start, indent, n)
  BY <1>1, <1>5, <1>6, <1>7, <1>8, <1>9 DEF Follows
<1>11. \A st, ns, stack : Named(st, ns, stack)' <=> Named(st, ns, stack)
  BY DEF Named
<1>12. WellFormed(Tags)' <=> WellFormed(Tags)
  BY <1>1, <1>2, <1>3, <1>14 DEF WellFormed
<1>13. Admitted' <=> Admitted
  BY <1>1, <1>12 DEF Admitted
<1> QED BY <1>10, <1>11, <1>13

\* The names by which a step finds what it follows.
LEMMA FollowsAgain ==
    ASSUME UNCHANGED <<template, sequences, limits>>, scanning, FollowsInv,
           NEW st, NEW f, NEW n,
           Follows(st, pos', pair', f, lineStart', linePrefixIsIndent', n), f = pos' - Len(buffer'), n = Len(nodes'),
           Named(st, nodes', nodeStack')
    PROVE  FollowsInv'
<1>p. PICK p : p = pos'
  OBVIOUS
<1>r. PICK pr : pr = pair'
  OBVIOUS
<1>s. PICK start : start = lineStart'
  OBVIOUS
<1>i. PICK indent : indent = linePrefixIsIndent'
  OBVIOUS
<1>m. PICK ns : ns = nodes'
  OBVIOUS
<1>k. PICK stack : stack = nodeStack'
  OBVIOUS
<1>1. Follows(st, p, pr, f, start, indent, n) /\ Named(st, ns, stack)
  BY <1>p, <1>r, <1>s, <1>i, <1>m, <1>k
<1>2. Follows(st, p, pr, f, start, indent, n)' /\ Named(st, ns, stack)'
  BY <1>1, SameFollows
<1>3. limits' \in LimitChoices /\ Len(template') <= limits'.input /\ DelimiterSize[sequences'] <= limits'.delimiter
  BY DEF FollowsInv
<1>4. (\E x : /\ Follows(x, pos, pair, pos - Len(buffer), lineStart, linePrefixIsIndent, Len(nodes))
              /\ Named(x, nodes, nodeStack))'
  BY <1>2, <1>p, <1>r, <1>s, <1>i, <1>m, <1>k
<1> QED BY <1>3, <1>4 DEF FollowsInv

LEMMA TextFollows == ASSUME TextInv, FollowsInv, ReadText PROVE FollowsInv'
<1>1. /\ scanning /\ UNCHANGED <<template, sequences, limits, pair, nodes, nodeStack>>
      /\ buffer' = Append(buffer, Current) /\ pos' = pos + 1 /\ pos <= Len(template) /\ Current.kind # "open" /\ ~AtTag
  BY DEF ReadText, settings
<1>2. template \in Seq(Lexemes) /\ pos \in 1..Len(template) /\ buffer \in Seq(Lexemes) /\ Current = template[pos]
  BY <1>1 DEF TextInv, Current
<1>3. PICK st : /\ Follows(st, pos, pair, pos - Len(buffer), lineStart, linePrefixIsIndent, Len(nodes))
                /\ Named(st, nodes, nodeStack)
  BY <1>1 DEF FollowsInv
<1>p. PICK p : p = pos
  OBVIOUS
<1>r. PICK pr : pr = pair
  OBVIOUS
<1>f. PICK f : f = pos - Len(buffer)
  OBVIOUS
<1>s. PICK start : start = lineStart
  OBVIOUS
<1>i. PICK indent : indent = linePrefixIsIndent
  OBVIOUS
<1>n. PICK n : n = Len(nodes)
  OBVIOUS
<1>t. PICK start2 : start2 = lineStart'
  OBVIOUS
<1>j. PICK indent2 : indent2 = linePrefixIsIndent'
  OBVIOUS
<1>4. p \in 1..Len(template) /\ Follows(st, p, pr, f, start, indent, n)
  BY <1>2, <1>3, <1>p, <1>r, <1>f, <1>s, <1>i, <1>n
<1>5. p \notin Tags /\ template[p].kind # "open"
  <2>1. pair = PairAt[pos]
    BY <1>3 DEF Follows
  <2> QED BY <1>1, <1>2, <1>p, <2>1 DEF Tags, AtTag
<1>6. /\ template[p].kind = "nl" => start2 = p + 1 /\ indent2
      /\ template[p].kind # "nl" => start2 = start /\ (indent2 <=> indent /\ template[p].kind = "blank")
  BY <1>2, <1>p, <1>s, <1>i, <1>t, <1>j DEF ReadText
<1>7. Follows(st, p + 1, pr, f, start2, indent2, n)
  BY <1>2, <1>4, <1>5, <1>6, FollowsText
<1>8. Follows(st, pos', pair', f, lineStart', linePrefixIsIndent', n)
  BY <1>1, <1>7, <1>p, <1>r, <1>t, <1>j
<1>9. f = pos' - Len(buffer') /\ n = Len(nodes') /\ Named(st, nodes', nodeStack')
  <2>1. Len(Append(buffer, Current)) = Len(buffer) + 1 /\ Len(buffer) \in Nat /\ pos \in Nat
    BY <1>2
  <2> QED BY <1>1, <1>3, <1>f, <1>n, <2>1
<1> QED BY <1>1, <1>8, <1>9, FollowsAgain

LEMMA TagFollows == ASSUME TextInv, TreeInv, FollowsInv, ReadTag, scanning' PROVE FollowsInv'
<1>1. /\ scanning /\ UNCHANGED <<template, sequences, limits>> /\ pos <= Len(template) /\ AtTag
      /\ Acceptable /\ nodes' = TagAll /\ nodeStack' = TagStack
      /\ pair' = (IF Type = "Delimiters" THEN Current.name ELSE pair)
      /\ buffer' = <<>> /\ pos' = TagEnd + 1
      /\ linePrefixIsIndent' = IF TagRest = <<>> THEN Current.tail # "solid" ELSE TagRest[Len(TagRest)].kind = "nl"
      /\ lineStart' = IF ~linePrefixIsIndent' THEN lineStart
                      ELSE IF TagRest = <<>> /\ Current.tail = "indent" THEN pos ELSE TagEnd + 1
  BY DEF ReadTag, Reject, settings, TagAll, TagStack, TagRest, TagLeading
<1>2. template \in Seq(Lexemes) /\ pos \in 1..Len(template) /\ Current = template[pos]
  BY <1>1 DEF TextInv, Current
<1>3. PICK st : /\ Follows(st, pos, pair, pos - Len(buffer), lineStart, linePrefixIsIndent, Len(nodes))
                /\ Named(st, nodes, nodeStack)
  BY <1>1 DEF FollowsInv
<1>4. pos \in Tags
  <2>1. pair = PairAt[pos]
    BY <1>3 DEF Follows
  <2> QED BY <1>1, <1>2, <2>1 DEF Tags, Positions, AtTag
<1>5. TagFine(pos)
  BY <1>1, <1>2, <1>3, <1>4, AcceptableMeans DEF Follows
<1>r. PICK pr2 : pr2 = pair'
  OBVIOUS
<1>t. PICK start2 : start2 = lineStart'
  OBVIOUS
<1>j. PICK indent2 : indent2 = linePrefixIsIndent'
  OBVIOUS
<1>s. PICK st2 : st2 = StackAfter(st, pos)
  OBVIOUS
<1>f. PICK f : f = TagEnd + 1
  OBVIOUS
<1>n. PICK n : n = Len(TagAll)
  OBVIOUS
<1>6. /\ pr2 = (IF Type = "Delimiters" THEN Current.name ELSE pair)
      /\ indent2 <=> IF TagRest = <<>> THEN Current.tail # "solid" ELSE TagRest[Len(TagRest)].kind = "nl"
      /\ indent2 => start2 = IF TagRest = <<>> /\ Current.tail = "indent" THEN pos ELSE TagEnd + 1
  BY <1>1, <1>r, <1>t, <1>j
<1>7. Follows(st2, f, pr2, f, start2, indent2, n)
  BY <1>1, <1>2, <1>3, <1>4, <1>5, <1>6, <1>s, <1>f, <1>n, FollowsTag
<1>8. Named(st2, TagAll, TagStack)
  BY <1>1, <1>2, <1>3, <1>4, <1>5, <1>s, NamedTag
<1>9. Follows(st2, pos', pair', f, lineStart', linePrefixIsIndent', n)
  BY <1>1, <1>7, <1>r, <1>t, <1>j, <1>f
<1>10. f = pos' - Len(buffer') /\ n = Len(nodes') /\ Named(st2, nodes', nodeStack')
  <2>1. Len(<<>>) = 0 /\ f \in Nat
    <3>1. f \in 1..(Len(template) + 1)
      BY <1>7 DEF Follows
    <3> QED BY <3>1, <1>2
  <2> QED BY <1>1, <1>8, <1>f, <1>n, <2>1
<1> QED BY <1>1, <1>9, <1>10, FollowsAgain

-----------------------------------------------------------------------------
(* The verdict *)

LEMMA TagRejected == ASSUME TextInv, TreeInv, FollowsInv, ReadTag, ~scanning' PROVE ~Admitted
<1>1. /\ scanning /\ pos <= Len(template) /\ AtTag
      /\ ~(Acceptable /\ Len(TagAll) <= limits.nodes)
  BY DEF ReadTag, Reject, TagAll, TagStack, TagRest, TagLeading
<1>2. template \in Seq(Lexemes) /\ pos \in 1..Len(template) /\ Current = template[pos]
  BY <1>1 DEF TextInv, Current
<1>3. PICK st : /\ Follows(st, pos, pair, pos - Len(buffer), lineStart, linePrefixIsIndent, Len(nodes))
                /\ Named(st, nodes, nodeStack)
  BY <1>1 DEF FollowsInv
<1>4. pos \in Tags
  <2>1. pair = PairAt[pos]
    BY <1>3 DEF Follows
  <2> QED BY <1>1, <1>2, <2>1 DEF Tags, Positions, AtTag
<1>5. Acceptable <=> TagFine(pos)
  BY <1>1, <1>2, <1>3, <1>4, AcceptableMeans DEF Follows
<1>6. WellFormed(Tags) => TagFine(pos)
  BY <1>4 DEF WellFormed, TagFine
<1>7. TagFine(pos) => Len(TagAll) \in Nat /\ Size(Tags) \in Nat /\ Len(TagAll) <= Size(Tags)
  BY <1>1, <1>2, <1>3, <1>4, CountedTag
<1>8. limits.nodes \in Nat
  BY <1>1, TokenizerLimitsAssumption DEF FollowsInv
<1>9. TagFine(pos) /\ Size(Tags) <= limits.nodes => Len(TagAll) <= limits.nodes
  BY <1>7, <1>8
<1> QED BY <1>1, <1>5, <1>6, <1>9 DEF Admitted

\* The end of the template adds the text that still waits, if there is any.
LEMMA LastText ==
    ASSUME TextInv, TreeInv, FollowsInv, scanning, pos = Len(template) + 1, NEW g, g = nodes \o UnlessEmpty(Output(Parent, buffer))
    PROVE  /\ pos \notin Tags /\ Len(nodes) \in Nat /\ Rank(pos, 0) = Len(nodes)
           /\ \E a \in {0, 1} :
                 /\ a = 1 <=> pos \in Texts
                 /\ Len(g) = Len(nodes) + a /\ Size(Tags) = Len(nodes) + a /\ Rank(pos, 1) = Len(nodes) + a
                 /\ \A k \in 1..Len(nodes) : g[k] = nodes[k]
                 /\ a = 1 => g[Len(nodes) + a] = Output(Parent, buffer)
<1>1. template \in Seq(Lexemes) /\ Len(template) \in Nat /\ buffer \in Seq(Lexemes)
  BY DEF TextInv
<1>e. PICK e : e = Len(template) + 1
  OBVIOUS
<1>n. PICK n : n = Len(nodes)
  OBVIOUS
<1>b. PICK b : b = Len(buffer)
  OBVIOUS
<1>2. Flushed(e - b, e) /\ Counted(e, n)
  BY <1>1, <1>e, <1>n, <1>b DEF FollowsInv, Follows
<1>3. e \notin Tags /\ e \in Nat \ {0}
  BY <1>1, <1>e, Places
<1>4. e \in Texts <=> buffer # <<>>
  <2>1. e \in 1..(Len(template) + 1) /\ e \notin Standalones(Tags)
    BY <1>1, <1>3, <1>e DEF Standalones
  <2>2. TextBefore(Tags, e) # {} <=> e - b < e
    BY <1>1, <1>2, <1>e, <2>1, FlushedMeans
  <2>3. e - b < e <=> buffer # <<>>
    BY <1>1, <1>3, <1>b
  <2> QED BY <1>e, <2>2, <2>3 DEF Texts
<1>y. PICK y : y = Output(Parent, buffer)
  OBVIOUS
<1>u. PICK u : u = UnlessEmpty(y)
  OBVIOUS
<1>5. PICK a \in {0, 1} : OneOrNone(u, a) /\ (a = 1 <=> e \in Texts) /\ (a = 1 => u = <<y>>)
  <2>1. PICK x : x = buffer
    OBVIOUS
  <2>2. y.text = x
    BY <1>y, <2>1 DEF Output
  <2>3. PICK a \in {0, 1} : OneOrNone(UnlessEmpty(y), a) /\ (a = 1 <=> x # <<>>)
    BY <2>2, UnlessEmptyShape
  <2>4. a = 1 => UnlessEmpty(y) = <<y>>
    BY <2>2, <2>3 DEF UnlessEmpty
  <2> QED BY <2>1, <2>3, <2>4, <1>4, <1>u
<1>6. (\E S : nodes \in Seq(S)) /\ OneOrNone(u, a) /\ g = nodes \o u
  BY <1>5, <1>u, <1>y DEF TreeInv, IsTree
<1>7. Longer(g, nodes, a)
  BY <1>6, Lengthens
<1>8. \A x : u = <<x>> => g[Len(nodes) + 1] = x
  BY <1>6, Lengthens
<1>9. /\ n \in Nat /\ Len(g) = n + a /\ \A k \in 1..n : g[k] = nodes[k]
  BY <1>7, <1>n DEF Longer
<1>10. a = 1 => g[n + a] = y
  BY <1>5, <1>8, <1>n
<1>z. PICK z : z = 0
  OBVIOUS
<1>11. SitesAt(e, a, z, z, z)
  BY <1>3, <1>5, <1>z DEF SitesAt, Standalones, Owns, Rests
<1>12. Rank(e, 0) = n /\ Rank(e, 1) = n + a
  BY <1>1, <1>2, <1>3, <1>11, RanksAt
<1>13. Size(Tags) = n + a
  <2>1. e \in 1..(Len(template) + 1) /\ e \in e..(Len(template) + 1) /\ \A j \in (e + 1)..e : j \notin Tags /\ j # Len(template) + 1
    BY <1>1, <1>3, <1>e
  <2>2. /\ a \in {0, 1} /\ z \in {0, 1}
        /\ a = 1 <=> e \in Texts
        /\ z = 1 <=> e \in Standalones(Tags)
        /\ z = 1 <=> e \in Owns
        /\ z = 1 <=> e \in Rests
    BY <1>11 DEF SitesAt
  <2>3. Counted(e + 1, n + a + z + z + z)
    BY <1>1, <1>2, <2>1, <2>2, CountedAfterTag
  <2>4. n + a + z + z + z = n + a
    BY <1>9, <1>z
  <2>5. e + 1 \in 1..(Len(template) + 2) /\ e + 1 = Len(template) + 2
    BY <1>1, <1>e
  <2> QED BY <1>1, <2>3, <2>4, <2>5, CountedFits
<1> QED BY <1>3, <1>5, <1>9, <1>10, <1>12, <1>13, <1>e, <1>n, <1>y

LEMMA FinishDecides ==
    ASSUME TextInv, TreeInv, FollowsInv, Finish
    PROVE  /\ UNCHANGED <<template, sequences, limits>> /\ ~scanning'
           /\ outcome' = "accepted" \/ outcome' = "rejected"
           /\ outcome' = "accepted" => Admitted
           /\ outcome' = "rejected" => ~Admitted
<1> DEFINE all == nodes \o UnlessEmpty(Output(Parent, buffer))
<1>1. scanning /\ pos > Len(template)
  BY DEF Finish
<1>g. PICK g : g = all
  OBVIOUS
<1>2. \/ ~(nodeStack = <<>> /\ Len(g) <= limits.nodes) /\ outcome' = "rejected"
      \/ (nodeStack = <<>> /\ Len(g) <= limits.nodes) /\ outcome' = "accepted"
  BY <1>g DEF Finish, Reject
<1>3. UNCHANGED <<template, sequences, limits>> /\ ~scanning'
  BY DEF Finish, Reject, settings
<1>4. template \in Seq(Lexemes) /\ pos = Len(template) + 1 /\ Len(template) \in Nat /\ buffer \in Seq(Lexemes)
  BY <1>1 DEF TextInv
<1>e. PICK e : e = Len(template) + 1
  OBVIOUS
<1>n. PICK n : n = Len(nodes)
  OBVIOUS
<1>b. PICK b : b = Len(buffer)
  OBVIOUS
<1>5. PICK st : /\ Flushed(e - b, e) /\ Counted(e, n) /\ Brackets(st, e) /\ Passed(e)
                /\ Named(st, nodes, nodeStack)
  BY <1>1, <1>4, <1>e, <1>n, <1>b DEF FollowsInv, Follows
<1>6. nodeStack = <<>> <=> st = <<>>
  <2>1. st \in Seq(Nat) /\ nodeStack \in Seq(Nat) /\ Len(nodeStack) = Len(st)
    BY <1>5 DEF Named, Brackets
  <2> QED BY <2>1
<1>7. WellFormed(Tags) <=> st = <<>>
  BY <1>4, <1>5, <1>e, PassedAll
<1>8. \E a \in {0, 1} : Len(g) = n + a /\ Size(Tags) = n + a
  BY <1>1, <1>4, <1>n, <1>g, LastText
<1>13. Len(template) <= limits.input /\ DelimiterSize[sequences] <= limits.delimiter
  BY <1>1 DEF FollowsInv
<1>14. Admitted <=> nodeStack = <<>> /\ Len(g) <= limits.nodes
  BY <1>6, <1>7, <1>8, <1>13 DEF Admitted
<1> QED BY <1>2, <1>3, <1>14

\* Before the first lexeme nothing is open and nothing has passed.
StartFollows == template \in Seq(Lexemes) => Follows(<<>>, 1, sequences, 1, 1, TRUE, 0) /\ Named(<<>>, <<>>, <<>>)

LEMMA StartsFollowing == StartFollows
<1> SUFFICES ASSUME template \in Seq(Lexemes)
             PROVE  Follows(<<>>, 1, sequences, 1, 1, TRUE, 0) /\ Named(<<>>, <<>>, <<>>)
  BY DEF StartFollows
<1>1. 1 \in 1..(Len(template) + 1) /\ sequences = PairAt[1] /\ \A i \in Tags : i \in Nat /\ 1 <= i
  BY Places, PairMeans
<1>2. 1 \in 1..1 /\ \A j : j \notin 1..(1 - 1)
  OBVIOUS
<1>3. LineKnown(1, 1, TRUE)
  <2>1. LineBegins(1, 1)
    BY <1>2 DEF LineBegins
  <2>2. ~TailBefore(1)
    BY <1>1 DEF TailBefore
  <2> QED BY <1>2, <2>1, <2>2 DEF LineKnown
<1>4. \A i \in Tags : ~(i < 1)
  BY <1>1
<1>5. Flushed(1, 1)
  BY <1>2, <1>4 DEF Flushed, Standalones
<1>6. Counted(1, 0)
  BY CountedFromStart
<1>7. <<>> \in Seq(Nat) /\ Len(<<>>) = 0 /\ \A k : k \notin 1..0
  OBVIOUS
<1>8. Brackets(<<>>, 1)
  <2>1. Enclosing(Tags, 1) = {}
    BY <1>4 DEF Enclosing
  <2>2. \A k : k \notin 1..Len(<<>>)
    BY <1>7
  <2>3. Enclosing(Tags, 1) = {<<>>[k] : k \in 1..Len(<<>>)}
    BY <2>1, <2>2
  <2> QED BY <1>7, <2>2, <2>3 DEF Brackets
<1>9. Passed(1)
  BY <1>2, <1>4 DEF Passed
<1>10. Named(<<>>, <<>>, <<>>)
  <2>1. \A k : k \notin 1..Len(<<>>)
    BY <1>7
  <2> QED BY <1>7, <2>1 DEF Named
<1> QED BY <1>1, <1>3, <1>5, <1>6, <1>8, <1>9, <1>10 DEF Follows

LEMMA StartsFollowingNext == StartFollows'
BY StartsFollowing, PTL

LEMMA StartTokenizeFollows ==
    ASSUME NEW t \in Templates, NEW l \in LimitChoices, StartTokenize(t, l)
    PROVE  FollowsInv'
<1>1. /\ template' = t /\ limits' = l /\ sequences' = sequences /\ pos' = 1 /\ pair' = sequences' /\ buffer' = <<>>
      /\ lineStart' = 1 /\ linePrefixIsIndent' = TRUE /\ nodes' = <<>> /\ nodeStack' = <<>>
      /\ Len(t) <= l.input /\ DelimiterSize[sequences] <= l.delimiter
  BY DEF StartTokenize, settings
<1>2. template' \in Seq(Lexemes)
  BY <1>1, TemplatesAssumption
<1>e. PICK e : e = <<>>
  OBVIOUS
<1>3. Follows(e, 1, sequences, 1, 1, TRUE, 0)' /\ Named(e, e, e)'
  BY <1>2, <1>e, StartsFollowingNext DEF StartFollows
<1>4. 1 = pos' - Len(buffer') /\ 0 = Len(nodes')
  <2>1. Len(<<>>) = 0
    OBVIOUS
  <2> QED BY <1>1, <2>1
<1>5. (\E st : /\ Follows(st, pos, pair, pos - Len(buffer), lineStart, linePrefixIsIndent, Len(nodes))
               /\ Named(st, nodes, nodeStack))'
  BY <1>1, <1>3, <1>4, <1>e
<1> QED BY <1>1, <1>5 DEF FollowsInv


LEMMA UnclosedRejected == ASSUME TextInv, scanning, UnclosedTag PROVE ~Admitted
<1>1. pos \in 1..Len(template) /\ template[pos].kind = "open"
  BY DEF UnclosedTag, TextInv, Current
<1> QED BY <1>1 DEF Admitted, WellFormed, Positions

LEMMA RejectAtOnceRejects ==
    ASSUME NEW t \in Templates, NEW l \in LimitChoices, RejectAtOnce(t, l), SettingsInv
    PROVE  ~Admitted'
<1>1. template' = t /\ limits' = l /\ sequences' = sequences /\ (Len(t) > l.input \/ DelimiterSize[sequences] > l.delimiter)
  BY DEF RejectAtOnce, settings
<1>2. Len(t) \in Nat /\ l.input \in Nat /\ l.delimiter \in Nat /\ DelimiterSize[sequences] \in Nat
  BY TemplatesAssumption, TokenizerLimitsAssumption, DelimiterSizeAssumption DEF SettingsInv
<1> QED BY <1>1, <1>2 DEF Admitted

LEMMA AcceptNext ==
    ASSUME TextFits, TreeInv, ScanInv, scanning => outcome = "none", FollowsInv, SettingsInv, AcceptsExactly, [Next]_vars
    PROVE  FollowsInv' /\ SettingsInv' /\ AcceptsExactly'
<1>1. CASE UNCHANGED vars
  <2>1. /\ UNCHANGED <<template, sequences, limits, outcome, scanning, pos, pair, buffer>>
        /\ UNCHANGED <<lineStart, linePrefixIsIndent, nodes, nodeStack>>
    BY <1>1 DEF vars, settings, scan
  <2>2. AcceptsExactly' /\ SettingsInv'
    BY <2>1, SameFollows DEF AcceptsExactly, SettingsInv
  <2>3. ASSUME scanning PROVE FollowsInv'
    <3>1. PICK st : /\ Follows(st, pos, pair, pos - Len(buffer), lineStart, linePrefixIsIndent, Len(nodes))
                    /\ Named(st, nodes, nodeStack)
      BY <2>3 DEF FollowsInv
    <3>f. PICK f : f = pos - Len(buffer)
      OBVIOUS
    <3>n. PICK n : n = Len(nodes)
      OBVIOUS
    <3>2. /\ Follows(st, pos', pair', f, lineStart', linePrefixIsIndent', n) /\ f = pos' - Len(buffer') /\ n = Len(nodes')
          /\ Named(st, nodes', nodeStack')
      BY <2>1, <3>1, <3>f, <3>n
    <3> QED BY <2>1, <2>3, <3>2, FollowsAgain
  <2>4. ~scanning => FollowsInv'
    BY <2>1 DEF FollowsInv
  <2> QED BY <2>2, <2>3, <2>4
<1>2. CASE ReadText
  <2>1. scanning /\ outcome' = outcome /\ sequences' = sequences
    BY <1>2 DEF ReadText, settings
  <2>2. FollowsInv'
    BY <1>2, <2>1, TextFollows DEF TextFits
  <2> QED BY <2>1, <2>2 DEF SettingsInv, AcceptsExactly
<1>3. ASSUME ~scanning', outcome' = "rejected", UNCHANGED <<template, sequences, limits>>, ~Admitted
      PROVE  FollowsInv' /\ SettingsInv' /\ AcceptsExactly'
  <2>1. ~Admitted'
    BY <1>3, SameFollows
  <2> QED BY <1>3, <2>1 DEF FollowsInv, SettingsInv, AcceptsExactly
<1>4. CASE ReadTag
  <2>1. scanning
    BY <1>4 DEF ReadTag
  <2>2. CASE scanning'
    <3>1. outcome' = outcome /\ sequences' = sequences
      BY <1>4, <2>2 DEF ReadTag, Reject, settings
    <3>2. FollowsInv'
      BY <1>4, <2>1, <2>2, TagFollows DEF TextFits
    <3> QED BY <2>1, <3>1, <3>2 DEF SettingsInv, AcceptsExactly
  <2>3. CASE ~scanning'
    <3>1. outcome' = "rejected" /\ UNCHANGED <<template, sequences, limits>>
      BY <1>4, <2>1, <2>3 DEF ReadTag, Reject, settings
    <3>2. ~Admitted
      BY <1>4, <2>1, <2>3, TagRejected DEF TextFits
    <3> QED BY <1>3, <2>3, <3>1, <3>2
  <2> QED BY <2>2, <2>3
<1>5. CASE UnclosedTag
  <2>1. scanning /\ ~scanning' /\ outcome' = "rejected" /\ UNCHANGED <<template, sequences, limits>>
    BY <1>5 DEF UnclosedTag, Reject, settings
  <2>2. ~Admitted
    BY <1>5, <2>1, UnclosedRejected DEF TextFits
  <2> QED BY <1>3, <2>1, <2>2
<1>6. CASE Finish
  <2>1. scanning
    BY <1>6 DEF Finish
  <2>2. /\ UNCHANGED <<template, sequences, limits>> /\ ~scanning'
        /\ outcome' = "accepted" \/ outcome' = "rejected"
        /\ outcome' = "accepted" => Admitted
        /\ outcome' = "rejected" => ~Admitted
    BY <1>6, <2>1, FinishDecides DEF TextFits
  <2>3. Admitted' <=> Admitted
    BY <2>2, SameFollows
  <2> QED BY <2>2, <2>3 DEF FollowsInv, SettingsInv, AcceptsExactly
<1>7. CASE SetSequences \/ SetEscapeByDefault
  <2>1. ~scanning' /\ outcome' = "none" /\ (sequences' = sequences \/ sequences' \in Pairs)
    BY <1>7 DEF SetSequences, SetEscapeByDefault, Idle
  <2> QED BY <2>1 DEF FollowsInv, SettingsInv, AcceptsExactly
<1>8. ASSUME Idle, NEW t \in Templates, NEW l \in LimitChoices, StartTokenize(t, l)
      PROVE  FollowsInv' /\ SettingsInv' /\ AcceptsExactly'
  <2>1. outcome' = "none" /\ sequences' = sequences
    BY <1>8 DEF StartTokenize, settings
  <2>2. FollowsInv'
    BY <1>8, StartTokenizeFollows
  <2> QED BY <2>1, <2>2 DEF SettingsInv, AcceptsExactly
<1>9. ASSUME Idle, NEW t \in Templates, NEW l \in LimitChoices, RejectAtOnce(t, l)
      PROVE  FollowsInv' /\ SettingsInv' /\ AcceptsExactly'
  <2>1. ~scanning' /\ outcome' = "rejected" /\ sequences' = sequences
    BY <1>9 DEF RejectAtOnce, Idle, settings
  <2>2. ~Admitted'
    BY <1>9, RejectAtOnceRejects
  <2> QED BY <2>1, <2>2 DEF FollowsInv, SettingsInv, AcceptsExactly
<1>10. Stop => UNCHANGED vars
  BY DEF Stop
<1> QED BY <1>1, <1>2, <1>4, <1>5, <1>6, <1>7, <1>8, <1>9, <1>10 DEF Next, Scan

\* A template is accepted exactly when it is well formed and within the limits, whatever was
\* parsed before: every verdict of a scan that tokenize makes character by character, line by line
\* and with a stack of its open sections is the one the template's positions give.
THEOREM TemplatesAreAcceptedExactly == Spec => []AcceptsExactly
<1> DEFINE I == /\ TextFits /\ TreeInv /\ ScanInv /\ (scanning => outcome = "none")
                /\ FollowsInv /\ SettingsInv /\ AcceptsExactly
<1>1. I /\ [Next]_vars => I'
  BY TextFitsNext, TreesNext, AcceptNext
<1>2. I => AcceptsExactly
  OBVIOUS
<1>3. Init => I
  BY TreesInit DEF Init, FollowsInv, SettingsInv, AcceptsExactly
<1> HIDE DEF I
<1> QED BY <1>1, <1>2, <1>3, PTL DEF Spec

-----------------------------------------------------------------------------
(* The tree *)

\* The node of a tag whose section has not ended.
Unmeasured(i) == [NodeOfTag(Tags, i) EXCEPT !.length = 0]
\* The stack holds the indices of the sections that are open at p.
Stacks(st, p, stack) ==
    /\ Brackets(st, p) /\ stack \in Seq(Nat) /\ Len(stack) = Len(st)
    /\ \A k \in 1..Len(st) : stack[k] = Rank(st[k], 3)
\* The node that the scan has at p for a site before it.
Wanted(i, q, p) ==
    CASE q = 1 -> TextNode(Tags, i)
      [] q = 2 -> MarkerNode(Tags, i)
      [] q = 3 -> IF i \in Enclosing(Tags, p) THEN Unmeasured(i) ELSE NodeOfTag(Tags, i)
      [] q = 4 -> RestNode(Tags, i)
DrawnTo(p, ns) == \A i, q : IsSite(i, q) /\ i < p => ns[Rank(i, q)] = Wanted(i, q, p)
\* While tokenize runs, the text that waits and the nodes so far are the reference's.
DrawnInv ==
    scanning =>
        /\ buffer = SubSeq(template, pos - Len(buffer), pos - 1)
        /\ DrawnTo(pos, nodes)
        /\ \E st : Stacks(st, pos, nodeStack)

LEMMA MaxIn ==
    ASSUME NEW S \in SUBSET Nat, S # {}, NEW n \in Nat, \A x \in S : x <= n
    PROVE  Max(S) \in S /\ \A y \in S : y <= Max(S)
<1> DEFINE Bounds == {b \in Nat : \A y \in S : y <= b}
<1>1. Bounds \in SUBSET Nat /\ n \in Bounds
  OBVIOUS
<1>2. PICK b \in Bounds : \A c \in Bounds : b <= c
  <2> HIDE DEF Bounds
  <2> QED BY <1>1, Least
<1>3. b \in Nat /\ \A y \in S : y <= b
  BY <1>2
<1>4. b \in S
  <2> SUFFICES ASSUME b \notin S PROVE FALSE
    OBVIOUS
  <2>0. PICK z \in S : TRUE
    OBVIOUS
  <2>1. b - 1 \in Nat /\ \A y \in S : y <= b - 1
    BY <1>3, <2>0
  <2>2. ~(b <= b - 1)
    BY <1>3
  <2>3. b - 1 \in Bounds
    BY <2>1, Zenon
  <2> HIDE DEF Bounds
  <2> QED BY <1>2, <2>2, <2>3
<1>5. \A x \in S : (\A y \in S : x >= y) => x = b
  BY <1>3, <1>4
<1>6. b \in S /\ \A y \in S : b >= y
  BY <1>3, <1>4
<1>7. Max(S) = b
  BY <1>5, <1>6 DEF Max
<1> QED BY <1>3, <1>4, <1>7

LEMMA ParentEncloses ==
    ASSUME template \in Seq(Lexemes), NEW p \in Nat, ParentOf(Tags, p) # 0
    PROVE  ParentOf(Tags, p) \in Enclosing(Tags, p)
<1>1. PICK S : S = {0} \cup Enclosing(Tags, p)
  OBVIOUS
<1>2. \A i \in Tags : i \in Nat
  BY Places
<1>3. S \in SUBSET Nat /\ S # {} /\ \A x \in S : x <= p
  <2>1. ASSUME NEW x \in S PROVE x \in Nat /\ x <= p
    BY <1>1, <1>2, <2>1 DEF Enclosing
  <2> QED BY <1>1, <2>1
<1>4. Max(S) \in S
  BY <1>3, MaxIn
<1> QED BY <1>1, <1>4 DEF ParentOf

\* The top of the stack is the node that the reference puts what begins at p under.
LEMMA InnermostIs ==
    ASSUME template \in Seq(Lexemes), NEW p \in Nat \ {0}, NEW st, NEW stack, Stacks(st, p, stack)
    PROVE  Innermost(stack) = ParentIndex(Tags, p)
<1>h. PICK h : h = Len(st)
  OBVIOUS
<1>1. /\ Brackets(st, p) /\ stack \in Seq(Nat) /\ Len(stack) = h
      /\ \A k \in 1..h : stack[k] = Rank(st[k], 3)
  BY <1>h DEF Stacks
<1>2. st \in Seq(Nat) /\ h \in Nat /\ (st = <<>> <=> h = 0) /\ (stack = <<>> <=> h = 0)
  <2>1. st \in Seq(Nat)
    BY <1>1 DEF Brackets
  <2> QED BY <1>1, <1>h, <2>1
<1>3. CASE st = <<>>
  <2>1. Enclosing(Tags, p) = {}
    BY <1>1, <1>3, BracketsMean
  <2>2. PICK S : S = {0} \cup Enclosing(Tags, p)
    OBVIOUS
  <2>3. S = {0}
    BY <2>1, <2>2
  <2>4. Max(S) \in S
    <3>1. S \in SUBSET Nat /\ S # {} /\ \A x \in S : x <= p
      BY <2>3
    <3> QED BY <3>1, MaxIn
  <2>5. ParentOf(Tags, p) = 0
    BY <2>2, <2>3, <2>4 DEF ParentOf
  <2> QED BY <1>2, <1>3, <2>5 DEF Innermost, ParentIndex
<1>4. CASE st # <<>>
  <2>1. ParentOf(Tags, p) = st[h] /\ st[h] \in Enclosing(Tags, p)
    BY <1>1, <1>4, <1>h, BracketsMean
  <2>2. h \in 1..h
    BY <1>2, <1>4
  <2>3. st[h] # 0
    <3>1. \A i \in Tags : i # 0
      BY Places
    <3> QED BY <2>1, <3>1 DEF Enclosing
  <2>4. Innermost(stack) = Rank(st[h], 3)
    BY <1>1, <1>2, <1>4, <2>2 DEF Innermost
  <2> QED BY <2>1, <2>3, <2>4 DEF ParentIndex, Rank
<1> QED BY <1>3, <1>4

\* A closing tag is the end of the innermost section, the only one.
LEMMA EndIs ==
    ASSUME template \in Seq(Lexemes), NEW p \in 1..Len(template), p \in Tags, TagType(p) = "Stop", Passed(p),
           NEW st, Brackets(st, p), st # <<>>
    PROVE  /\ ParentOf(Tags, p) = st[Len(st)] /\ st[Len(st)] \in Enclosing(Tags, p)
           /\ EndOf(Tags, st[Len(st)]) = {p}
<1>i. PICK i : i = st[Len(st)]
  OBVIOUS
<1>1. p \in Nat \ {0} /\ p + 1 \in Nat /\ p \in StopTags /\ \A j \in Tags : j \in Nat \ {0}
  <2>1. \A j \in Tags : j \in Nat \ {0}
    BY Places
  <2> QED BY <2>1 DEF StopTags
<1>2. ParentOf(Tags, p) = i /\ i \in Enclosing(Tags, p)
  BY <1>1, <1>i, BracketsMean
<1>3. i \notin Enclosing(Tags, p + 1)
  BY <1>1, <1>i, BracketsPop
<1>4. i \in Tags /\ TagType(i) \in Sections /\ i \in Nat \ {0} /\ i < p
  BY <1>1, <1>2 DEF Enclosing
<1>5. ASSUME NEW e \in EndOf(Tags, i) PROVE e = p
  <2>1. e \in Tags /\ TagType(e) = "Stop" /\ ParentOf(Tags, e) = i /\ e \in Nat
    BY <1>1 DEF EndOf
  <2>2. ~(e < p)
    BY <1>2, <2>1 DEF Passed
  <2>3. ~(e > p)
    <3> SUFFICES ASSUME p < e PROVE FALSE
      BY <1>1, <2>1
    <3>1. i \in Enclosing(Tags, e)
      BY <1>4, <2>1, ParentEncloses
    <3>2. \A k \in i..(e - 1) : Openings(Tags, i, k) > Closings(Tags, i, k)
      BY <3>1 DEF Enclosing
    <3>3. i..((p + 1) - 1) \subseteq i..(e - 1) /\ i < p + 1
      BY <1>1, <1>4, <2>1
    <3>4. i \in Enclosing(Tags, p + 1)
      BY <1>4, <3>2, <3>3 DEF Enclosing
    <3> QED BY <1>3, <3>4
  <2> QED BY <1>1, <2>1, <2>2, <2>3
<1>6. p \in EndOf(Tags, i)
  BY <1>2 DEF EndOf
<1> QED BY <1>2, <1>5, <1>6, <1>i

\* The node of a tag from what the reference says of it.
Escaped(i) ==
    TagType(i) = "Variable" /\
        <<template[i].sigil = "&", template[i].triple, escapes>> \in
            {<<TRUE, FALSE, FALSE>>, <<FALSE, TRUE, FALSE>>, <<FALSE, FALSE, TRUE>>, <<TRUE, TRUE, TRUE>>}
Inside(i) == {j \in Positions : i < j /\ \A e \in EndOf(Tags, i) : j < e}
NodeWith(i, q, escaped, length) ==
    [Output(q, <<>>) EXCEPT
        !.type = TagType(i), !.name = template[i].name, !.escape = escaped,
        !.pair = IF TagType(i) = "Section" THEN PairAt[i] ELSE Null,
        !.begin = IF TagType(i) = "Section" THEN i + 1 ELSE 0,
        !.length = length]

LEMMA NodeWithShape ==
    ASSUME NEW i, NEW q, NEW escaped, NEW length
    PROVE  /\ NodeWith(i, q, escaped, length).type = TagType(i)
           /\ TagType(i) = "Section" => NodeWith(i, q, escaped, length).begin = i + 1
           /\ \A m : [NodeWith(i, q, escaped, length) EXCEPT !.length = m] = NodeWith(i, q, escaped, m)
<1>1. NodeWith(i, q, escaped, length).type = TagType(i)
  BY DEF NodeWith, Output
<1>2. TagType(i) = "Section" => NodeWith(i, q, escaped, length).begin = i + 1
  BY DEF NodeWith, Output
<1>3. ASSUME NEW m PROVE [NodeWith(i, q, escaped, length) EXCEPT !.length = m] = NodeWith(i, q, escaped, m)
  <2>1. PICK ty, nm, pr, bg : /\ ty = TagType(i) /\ nm = template[i].name
                              /\ pr = (IF TagType(i) = "Section" THEN PairAt[i] ELSE Null)
                              /\ bg = (IF TagType(i) = "Section" THEN i + 1 ELSE 0)
    OBVIOUS
  <2>2. PICK o : o = [Output(q, <<>>) EXCEPT !.type = ty, !.name = nm, !.escape = escaped, !.pair = pr, !.begin = bg]
    OBVIOUS
  <2>3. ASSUME NEW x PROVE NodeWith(i, q, escaped, x) = [o EXCEPT !.length = x]
    BY <2>1, <2>2 DEF NodeWith, Output
  <2>4. [[o EXCEPT !.length = length] EXCEPT !.length = m] = [o EXCEPT !.length = m]
    BY <2>2 DEF Output
  <2> QED BY <2>3, <2>4
<1> QED BY <1>1, <1>2, <1>3

LEMMA NodeIs ==
    ASSUME NEW i
    PROVE  /\ TagType(i) = "Section" =>
                NodeOfTag(Tags, i) = NodeWith(i, ParentIndex(Tags, i), Escaped(i), Cardinality(Inside(i)))
           /\ TagType(i) # "Section" => NodeOfTag(Tags, i) = NodeWith(i, ParentIndex(Tags, i), Escaped(i), 0)
           /\ Unmeasured(i) = NodeWith(i, ParentIndex(Tags, i), Escaped(i), 0)
<1>1. TagType(i) = "Section" =>
          NodeOfTag(Tags, i) = NodeWith(i, ParentIndex(Tags, i), Escaped(i), Cardinality(Inside(i)))
  BY DEF NodeOfTag, NodeWith, Escaped, Inside
<1>2. TagType(i) # "Section" => NodeOfTag(Tags, i) = NodeWith(i, ParentIndex(Tags, i), Escaped(i), 0)
  BY DEF NodeOfTag, NodeWith, Escaped
<1>3. \E m : NodeOfTag(Tags, i) = NodeWith(i, ParentIndex(Tags, i), Escaped(i), m)
  BY <1>1, <1>2
<1>4. Unmeasured(i) = NodeWith(i, ParentIndex(Tags, i), Escaped(i), 0)
  BY <1>3, NodeWithShape DEF Unmeasured
<1> QED BY <1>1, <1>2, <1>4

\* The length of a section is known when it ends.
LEMMA MeasuredIs ==
    ASSUME template \in Seq(Lexemes), NEW p \in 1..Len(template), NEW i \in Nat \ {0}, i < p, EndOf(Tags, i) = {p}
    PROVE  /\ Unmeasured(i).type = TagType(i)
           /\ TagType(i) = "Section" => [Unmeasured(i) EXCEPT !.length = p - Unmeasured(i).begin] = NodeOfTag(Tags, i)
           /\ TagType(i) # "Section" => Unmeasured(i) = NodeOfTag(Tags, i)
<1>1. PICK q, x : q = ParentIndex(Tags, i) /\ x = Escaped(i)
  OBVIOUS
<1>2. Unmeasured(i) = NodeWith(i, q, x, 0)
  BY <1>1, NodeIs
<1>3. Unmeasured(i).type = TagType(i)
  BY <1>2, NodeWithShape
<1>4. TagType(i) # "Section" => Unmeasured(i) = NodeOfTag(Tags, i)
  BY <1>1, <1>2, NodeIs
<1>5. Cardinality(Inside(i)) = p - (i + 1)
  <2>1. Inside(i) = (i + 1)..(p - 1)
    <3>1. Positions = 1..Len(template) /\ Len(template) \in Nat
      BY Places
    <3>2. \A j \in 1..Len(template) : i < j /\ j < p <=> j \in (i + 1)..(p - 1)
      BY <3>1
    <3>3. \A j : j \in (i + 1)..(p - 1) => j \in 1..Len(template)
      BY <3>1
    <3>4. \A j : j \in Inside(i) <=> j \in 1..Len(template) /\ i < j /\ j < p
      BY <3>1 DEF Inside
    <3> QED BY <3>2, <3>3, <3>4
  <2>2. PICK a, b : a = i + 1 /\ b = p - 1
    OBVIOUS
  <2>3. a \in Int /\ b \in Int /\ (IF a > b THEN 0 ELSE b - a + 1) = p - (i + 1)
    BY <2>2, Places
  <2>4. Cardinality(a..b) = IF a > b THEN 0 ELSE b - a + 1
    BY <2>3, FS_Interval
  <2> QED BY <2>1, <2>2, <2>3, <2>4
<1>6. ASSUME TagType(i) = "Section" PROVE [Unmeasured(i) EXCEPT !.length = p - Unmeasured(i).begin] = NodeOfTag(Tags, i)
  <2>1. NodeOfTag(Tags, i) = NodeWith(i, q, x, p - (i + 1))
    BY <1>1, <1>5, <1>6, NodeIs
  <2>2. Unmeasured(i).begin = i + 1
    BY <1>2, <1>6, NodeWithShape
  <2> QED BY <1>2, <2>1, <2>2, NodeWithShape
<1> QED BY <1>3, <1>4, <1>6

LEMMA TagNodeIs ==
    ASSUME template \in Seq(Lexemes), pos \in 1..Len(template), pair = PairAt[pos],
           Parent = ParentIndex(Tags, pos), escapes \in BOOLEAN
    PROVE  TagNode = Unmeasured(pos)
<1>1. Current = template[pos] /\ Type = TagType(pos) /\ Current.triple \in BOOLEAN
  <2>1. template[pos] \in Lexemes
    OBVIOUS
  <2> QED BY <2>1, LexemesAssumption DEF Current, Type, TagType
<1>2. Escapes(Current) = Escaped(pos)
  <2>1. PICK x, y, z : x = (template[pos].sigil = "&") /\ y = template[pos].triple /\ z = escapes
    OBVIOUS
  <2>2. x \in BOOLEAN /\ y \in BOOLEAN /\ z \in BOOLEAN
    BY <1>1, <2>1
  <2>3. x # (y # z) <=> <<x, y, z>> \in {<<TRUE, FALSE, FALSE>>, <<FALSE, TRUE, FALSE>>, <<FALSE, FALSE, TRUE>>, <<TRUE, TRUE, TRUE>>}
    BY <2>2
  <2>4. Escapes(Current) <=> TagType(pos) = "Variable" /\ x # (y # z)
    BY <1>1, <2>1 DEF Escapes, Type
  <2>5. Escaped(pos) <=> TagType(pos) = "Variable" /\ x # (y # z)
    BY <2>1, <2>3 DEF Escaped
  <2>6. Escapes(Current) \in BOOLEAN /\ Escaped(pos) \in BOOLEAN
    BY DEF Escapes, Escaped
  <2> QED BY <2>4, <2>5, <2>6
<1>3. PICK q, x : q = Parent /\ x = Escapes(Current)
  OBVIOUS
<1>4. TagNode = NodeWith(pos, q, x, 0)
  <2>1. PICK ty, nm, pr, bg : /\ ty = TagType(pos) /\ nm = template[pos].name
                              /\ pr = (IF TagType(pos) = "Section" THEN PairAt[pos] ELSE Null)
                              /\ bg = (IF TagType(pos) = "Section" THEN pos + 1 ELSE 0)
    OBVIOUS
  <2>2. TagNode = [Output(q, <<>>) EXCEPT !.type = ty, !.name = nm, !.escape = x, !.pair = pr, !.begin = bg]
    BY <1>1, <1>3, <2>1 DEF TagNode
  <2>3. NodeWith(pos, q, x, 0) =
            [Output(q, <<>>) EXCEPT !.type = ty, !.name = nm, !.escape = x, !.pair = pr, !.begin = bg, !.length = 0]
    BY <2>1 DEF NodeWith
  <2>4. PICK o : o = [Output(q, <<>>) EXCEPT !.type = ty, !.name = nm, !.escape = x, !.pair = pr, !.begin = bg]
    OBVIOUS
  <2>5. o = [o EXCEPT !.length = 0]
    <3>1. o = [x1 \in DOMAIN o |-> o[x1]] /\ o.length = 0
      BY <2>4 DEF Output
    <3> QED BY <3>1
  <2>6. NodeWith(pos, q, x, 0) = [o EXCEPT !.length = 0]
    BY <2>3, <2>4 DEF Output
  <2> QED BY <2>2, <2>4, <2>5, <2>6
<1> QED BY <1>2, <1>3, <1>4, NodeIs

LEMMA TextsAt ==
    ASSUME TextInv, scanning, pos \in 1..Len(template), pos \in Tags, LineKnown(pos, lineStart, linePrefixIsIndent),
           Flushed(pos - Len(buffer), pos), buffer = SubSeq(template, pos - Len(buffer), pos - 1), TagFine(pos)
    PROVE  /\ OutputBeforeTag = Text(TextBefore(Tags, pos))
           /\ pos \in Standalones(Tags) => SubSeq(template, lineStart, pos - 1) = Text({j \in Line(pos, Tags) : j < pos})
           /\ pos \in Rests => TagRest = Text(RestOf(Tags, pos))
<1>p. PICK p : p = pos
  OBVIOUS
<1>n. PICK n : n = Len(template)
  OBVIOUS
<1>b. PICK b : b = Len(buffer)
  OBVIOUS
<1>f. PICK f : f = p - b
  OBVIOUS
<1>1. /\ n \in Nat /\ p \in 1..n /\ template \in Seq(Lexemes) /\ b \in Nat
      /\ f \in 1..p /\ Flushed(f, p) /\ p \in Tags /\ p \in 1..(Len(template) + 1) /\ p \in 1..Len(template)
      /\ buffer = SubSeq(template, f, p - 1)
  BY <1>n, <1>p, <1>b, <1>f DEF TextInv, Flushed
<1>2. p \in Standalones(Tags) <=> IsStandalone
  BY <1>1, <1>p, StandaloneMeans
<1>3. p \in Standalones(Tags) => RestOf(Tags, p) = (p + 1)..TagEnd /\ TagEnd \in p..n
  BY <1>1, <1>p, <1>n, TagLine
<1>8. p \in Standalones(Tags) => LineBegins(lineStart, p) /\ Buffered(lineStart)
  <2>1. p \in Standalones(Tags) => Indented(Tags, p)
    BY <1>1, <1>p DEF TagFine, Standalones
  <2> QED BY <1>p, <2>1, StandaloneLine
<1>s. PICK s : s = lineStart
  OBVIOUS
<1>4. ASSUME p \notin Standalones(Tags) PROVE OutputBeforeTag = Text(TextBefore(Tags, p))
  <2>1. TextBefore(Tags, p) = f..(p - 1)
    BY <1>1, <1>4, FlushedIs
  <2>2. f \in Nat \ {0} /\ p - 1 \in Nat /\ p - 1 <= Len(template) /\ f <= (p - 1) + 1
    BY <1>1, <1>n
  <2>3. Text(TextBefore(Tags, p)) = SubSeq(template, f, p - 1)
    BY <1>1, <2>1, <2>2, TextIs
  <2>4. OutputBeforeTag = buffer
    BY <1>2, <1>4 DEF OutputBeforeTag
  <2> QED BY <1>1, <2>3, <2>4
<1>5. ASSUME p \in Standalones(Tags) PROVE OutputBeforeTag = Text(TextBefore(Tags, p))
  <2>1. TextBefore(Tags, p) = f..(s - 1)
    BY <1>1, <1>5, <1>8, <1>s, FlushedIs
  <2>2. s <= p /\ p - s <= b /\ s \in 1..p
    BY <1>5, <1>8, <1>p, <1>b, <1>s DEF Buffered, LineBegins
  <2>3. PICK x : x = b - (p - s)
    OBVIOUS
  <2>4. x \in 0..((p - 1) - f + 1) /\ f + x - 1 = s - 1
    BY <1>1, <1>f, <2>2, <2>3
  <2>5. f \in Nat \ {0} /\ p - 1 \in Nat /\ p - 1 <= Len(template) /\ f <= (p - 1) + 1
    BY <1>1, <1>n
  <2>6. SubSeq(SubSeq(template, f, p - 1), 1, x) = SubSeq(template, f, s - 1)
    BY <1>1, <2>4, <2>5, TextBegins
  <2>7. s - 1 \in Nat /\ s - 1 <= Len(template) /\ f <= (s - 1) + 1
    BY <1>1, <1>n, <1>f, <2>2
  <2>8. Text(TextBefore(Tags, p)) = SubSeq(template, f, s - 1)
    BY <1>1, <2>1, <2>5, <2>7, TextIs
  <2>9. OutputBeforeTag = SubSeq(buffer, 1, x)
    BY <1>2, <1>5, <1>p, <1>b, <1>s, <2>3 DEF OutputBeforeTag
  <2> QED BY <1>1, <2>6, <2>8, <2>9
<1>6. ASSUME p \in Standalones(Tags) PROVE SubSeq(template, s, p - 1) = Text({j \in Line(p, Tags) : j < p})
  <2>1. LineBegins(s, p) /\ s \in 1..p
    BY <1>6, <1>8, <1>s DEF LineBegins
  <2>2. \A j \in 1..(p - 1) : j \in Line(p, Tags) <=> s <= j
    BY <1>1, <2>1, LineLeft
  <2>3. \A j \in Line(p, Tags) : j \in 1..n
    BY <1>1, <1>n DEF Line, Positions
  <2>4. {j \in Line(p, Tags) : j < p} = s..(p - 1)
    <3>1. \A j : j \in Line(p, Tags) /\ j < p <=> j \in s..(p - 1)
      <4>1. ASSUME NEW j, j \in Line(p, Tags) /\ j < p PROVE j \in s..(p - 1)
        <5>1. j \in 1..(p - 1)
          BY <1>1, <2>3, <4>1
        <5> QED BY <1>1, <2>1, <2>2, <4>1, <5>1
      <4>2. ASSUME NEW j \in s..(p - 1) PROVE j \in Line(p, Tags) /\ j < p
        <5>1. j \in 1..(p - 1) /\ s <= j /\ j < p
          BY <1>1, <2>1
        <5> QED BY <2>2, <5>1
      <4> QED BY <4>1, <4>2
    <3> QED BY <3>1
  <2>5. s \in Nat \ {0} /\ p - 1 \in Nat /\ p - 1 <= Len(template) /\ s <= (p - 1) + 1
    BY <1>1, <1>n, <2>1
  <2> QED BY <1>1, <2>4, <2>5, TextIs
<1>7. ASSUME p \in Rests PROVE TagRest = Text(RestOf(Tags, p))
  <2>e. PICK e : e = TagEnd
    OBVIOUS
  <2>1. RestOf(Tags, p) = (p + 1)..e /\ e \in p..n
    BY <1>3, <1>7, <2>e DEF Rests
  <2>2. p + 1 \in Nat \ {0} /\ e \in Nat /\ e <= Len(template) /\ p + 1 <= e + 1
    BY <1>1, <1>n, <2>1
  <2>3. Text(RestOf(Tags, p)) = SubSeq(template, p + 1, e)
    BY <1>1, <2>1, <2>2, TextIs
  <2> QED BY <1>p, <2>3, <2>e DEF TagRest
<1> QED BY <1>4, <1>5, <1>6, <1>7, <1>p, <1>s

\* What the scan relies on when it reads a tag that the reference accepts, st being the open sections.
AtFineTag(st) ==
    /\ TextInv /\ TreeInv /\ scanning /\ escapes \in BOOLEAN
    /\ template \in Seq(Lexemes) /\ pos \in 1..Len(template) /\ pos \in Tags /\ TagFine(pos)
    /\ pair = PairAt[pos]
    /\ LineKnown(pos, lineStart, linePrefixIsIndent)
    /\ Flushed(pos - Len(buffer), pos) /\ buffer = SubSeq(template, pos - Len(buffer), pos - 1)
    /\ Counted(pos, Len(nodes)) /\ DrawnTo(pos, nodes)
    /\ Passed(pos) /\ Stacks(st, pos, nodeStack)

LEMMA SectionsAfter ==
    ASSUME NEW st, AtFineTag(st)
    PROVE  /\ Brackets(StackAfter(st, pos), TagEnd + 1)
           /\ \A i \in Enclosing(Tags, TagEnd + 1) : i \in Enclosing(Tags, pos) \/ (i = pos /\ TagType(pos) \in Sections)
           /\ \A i \in Enclosing(Tags, pos) :
                 i \in Enclosing(Tags, TagEnd + 1) \/ (TagType(pos) = "Stop" /\ i = ParentOf(Tags, pos))
           /\ TagType(pos) \in Sections => pos \in Enclosing(Tags, TagEnd + 1)
           /\ TagType(pos) = "Stop" =>
                 st # <<>> /\ ParentOf(Tags, pos) < pos /\ ParentOf(Tags, pos) \notin Enclosing(Tags, TagEnd + 1)
           /\ Enclosing(Tags, TagEnd + 1) = Enclosing(Tags, pos + 1)
<1>p. PICK p : p = pos
  OBVIOUS
<1>e. PICK e : e = TagEnd
  OBVIOUS
<1>s. PICK st2 : st2 = StackAfter(st, p)
  OBVIOUS
<1>1. template \in Seq(Lexemes) /\ p \in 1..Len(template) /\ p \in Tags /\ TagFine(p) /\ Brackets(st, p)
  BY <1>p DEF AtFineTag, Stacks
<1>2. e \in p..Len(template) /\ \A j \in (p + 1)..e : j \notin Tags
  <2>1. LineKnown(pos, lineStart, linePrefixIsIndent)
    BY DEF AtFineTag
  <2> QED BY <1>1, <1>p, <1>e, <2>1, TagLine
<1>3. p \in Nat \ {0} /\ p + 1 \in Nat \ {0} /\ e + 1 \in Nat /\ p + 1 <= e + 1 /\ (e + 1) - 1 = e
  BY <1>1, <1>2, Places
<1>4. TagType(p) = "Stop" => st # <<>>
  <2>1. Enclosing(Tags, p) = {} <=> st = <<>>
    BY <1>1, <1>3, BracketsMean
  <2> QED BY <1>1, <2>1 DEF TagFine
<1>5. /\ TagType(p) \in Sections => st2 = Append(st, p)
      /\ TagType(p) = "Stop" => st2 = SubSeq(st, 1, Len(st) - 1)
      /\ TagType(p) \notin Sections /\ TagType(p) # "Stop" => st2 = st
  BY <1>s DEF StackAfter, Sections
<1>6. /\ Brackets(st2, e + 1)
      /\ \A i \in Enclosing(Tags, e + 1) : i \in Enclosing(Tags, p) \/ (i = p /\ TagType(p) \in Sections)
      /\ \A i \in Enclosing(Tags, p) :
            i \in Enclosing(Tags, e + 1) \/ (TagType(p) = "Stop" /\ i = ParentOf(Tags, p))
      /\ TagType(p) \in Sections => p \in Enclosing(Tags, e + 1)
      /\ TagType(p) = "Stop" => ParentOf(Tags, p) < p /\ ParentOf(Tags, p) \notin Enclosing(Tags, e + 1)
  BY <1>1, <1>2, <1>4, <1>5, BracketsStep
<1>7. Enclosing(Tags, e + 1) = Enclosing(Tags, p + 1)
  <2>1. \A k \in (p + 1)..((e + 1) - 1) : k \notin OpeningTags /\ k \notin StopTags
    BY <1>2, <1>3 DEF OpeningTags, StopTags
  <2> QED BY <1>1, <1>3, <2>1, EnclosingKeeps
<1> QED BY <1>4, <1>6, <1>7, <1>p, <1>e, <1>s

\* The nodes of the tag and their indices.
LEMMA TagRanks ==
    ASSUME NEW st, AtFineTag(st)
    PROVE  \E a, b, c, d \in {0, 1} :
              /\ TagNodes(a, b, c, d) /\ Len(nodes) \in Nat
              /\ Rank(pos, 0) = Len(nodes)
              /\ Rank(pos, 1) = Len(nodes) + a /\ Rank(pos, 2) = Len(nodes) + a + b
              /\ Rank(pos, 3) = Len(nodes) + a + b + c /\ Rank(pos, 4) = Len(nodes) + a + b + c + d
<1>1. PICK a \in {0, 1}, b \in {0, 1}, c \in {0, 1}, d \in {0, 1} : TagNodes(a, b, c, d)
  BY TagAllMeans DEF AtFineTag
<1>p. PICK p : p = pos
  OBVIOUS
<1>n. PICK n : n = Len(nodes)
  OBVIOUS
<1>2. SitesAt(p, a, b, c, d)
  BY <1>1, <1>p DEF TagNodes, SitesAt
<1>3. template \in Seq(Lexemes) /\ p \in Nat \ {0} /\ Counted(p, n)
  <2>1. template \in Seq(Lexemes) /\ p \in 1..Len(template) /\ Counted(p, n)
    BY <1>p, <1>n DEF AtFineTag
  <2> QED BY <2>1, Places
<1>4. /\ n \in Nat /\ Rank(p, 0) = n
      /\ Rank(p, 1) = n + a /\ Rank(p, 2) = n + a + b
      /\ Rank(p, 3) = n + a + b + c /\ Rank(p, 4) = n + a + b + c + d
  BY <1>2, <1>3, RanksAt
<1> QED BY <1>1, <1>4, <1>p, <1>n

\* The stack of nodes after the tag.
LEMMA StacksTag ==
    ASSUME NEW st, AtFineTag(st)
    PROVE  Stacks(StackAfter(st, pos), TagEnd + 1, TagStack)
<1>p. PICK p : p = pos
  OBVIOUS
<1>h. PICK h : h = Len(st)
  OBVIOUS
<1>k. PICK stack : stack = nodeStack
  OBVIOUS
<1>s. PICK st2 : st2 = StackAfter(st, p)
  OBVIOUS
<1>w. PICK w : w = TagStack
  OBVIOUS
<1>1. /\ Brackets(st2, TagEnd + 1)
      /\ TagType(p) = "Stop" => st # <<>>
  BY <1>p, <1>s, SectionsAfter
<1>2. /\ st \in Seq(Nat) /\ stack \in Seq(Nat) /\ Len(stack) = h /\ h \in Nat /\ p \in Nat \ {0}
      /\ \A k \in 1..h : stack[k] = Rank(st[k], 3)
  <2>1. Stacks(st, p, stack) /\ p \in 1..Len(template) /\ template \in Seq(Lexemes)
    BY <1>p, <1>k DEF AtFineTag
  <2>2. st \in Seq(Nat)
    BY <2>1 DEF Stacks, Brackets
  <2> QED BY <1>h, <2>1, <2>2, Places DEF Stacks
<1>3. Type = TagType(p)
  BY <1>p DEF Type, TagType, Current
<1>4. CASE TagType(p) \in Sections
  <2>1. PICK y : y = Opened(TagLeading)
    OBVIOUS
  <2>2. st2 = Append(st, p) /\ w = Append(stack, y)
    BY <1>3, <1>4, <1>s, <1>w, <1>k, <2>1 DEF StackAfter, TagStack, Sections
  <2>3. y = Rank(p, 3) /\ y \in Nat
    <3>1. PICK a \in {0, 1}, b \in {0, 1}, c \in {0, 1}, d \in {0, 1} :
                  TagNodes(a, b, c, d) /\ Len(nodes) \in Nat /\ Rank(pos, 3) = Len(nodes) + a + b + c
      BY TagRanks
    <3>2. p \in Owns
      BY <1>4, <1>p DEF Owns, Sections, AtFineTag
    <3>3. c = 1 /\ y = Len(nodes) + a + b + 1
      BY <1>p, <2>1, <3>1, <3>2 DEF TagNodes
    <3> QED BY <1>p, <3>1, <3>3
  <2>4. /\ w \in Seq(Nat) /\ Len(w) = h + 1 /\ w[h + 1] = y /\ \A k \in 1..h : w[k] = stack[k]
    BY <1>2, <2>2, <2>3
  <2>5. Len(st2) = h + 1 /\ st2[h + 1] = p /\ \A k \in 1..h : st2[k] = st[k]
    BY <1>2, <1>h, <2>2
  <2>6. \A k \in 1..(h + 1) : k \in 1..h \/ k = h + 1
    BY <1>2
  <2>7. \A k \in 1..(h + 1) : w[k] = Rank(st2[k], 3)
    BY <1>2, <2>3, <2>4, <2>5, <2>6
  <2> QED BY <1>1, <2>4, <2>5, <2>7, <1>p, <1>s, <1>w DEF Stacks
<1>5. CASE TagType(p) = "Stop"
  <2>1. st2 = SubSeq(st, 1, h - 1) /\ w = SubSeq(stack, 1, h - 1)
    BY <1>2, <1>3, <1>5, <1>s, <1>w, <1>k, <1>h DEF StackAfter, TagStack, Sections
  <2>2. h # 0
    BY <1>1, <1>2, <1>5, <1>h
  <2>3. /\ w \in Seq(Nat) /\ Len(w) = h - 1 /\ \A k \in 1..(h - 1) : w[k] = stack[k] /\ k \in 1..h
    BY <1>2, <2>1, <2>2
  <2>4. Len(st2) = h - 1 /\ \A k \in 1..(h - 1) : st2[k] = st[k]
    BY <1>2, <1>h, <2>1, <2>2
  <2>5. \A k \in 1..(h - 1) : w[k] = Rank(st2[k], 3)
    BY <1>2, <2>3, <2>4
  <2> QED BY <1>1, <2>3, <2>4, <2>5, <1>p, <1>s, <1>w DEF Stacks
<1>6. CASE TagType(p) \notin Sections /\ TagType(p) # "Stop"
  <2>1. st2 = st /\ w = stack
    BY <1>3, <1>6, <1>s, <1>w, <1>k DEF StackAfter, TagStack
  <2> QED BY <1>1, <1>2, <2>1, <1>p, <1>s, <1>w, <1>h DEF Stacks
<1> QED BY <1>4, <1>5, <1>6

\* The nodes of what comes before the tag are those of the reference, the length of the section
\* that the tag ends included.
LEMMA OldNodes ==
    ASSUME NEW st, AtFineTag(st), NEW i, NEW q, IsSite(i, q), i < pos
    PROVE  Rank(i, q) \in 1..Len(nodes) /\ SectionSource[Rank(i, q)] = Wanted(i, q, TagEnd + 1)
<1>p. PICK p : p = pos
  OBVIOUS
<1>n. PICK n : n = Len(nodes)
  OBVIOUS
<1>e. PICK e : e = TagEnd
  OBVIOUS
<1>g. PICK s : s = SectionSource
  OBVIOUS
<1>r. PICK r : r = Rank(i, q)
  OBVIOUS
<1>1. /\ template \in Seq(Lexemes) /\ p \in 1..Len(template) /\ p \in Tags /\ p \in Nat \ {0} /\ i \in Nat \ {0} /\ q \in 1..4
      /\ i < p /\ Passed(p) /\ Stacks(st, p, nodeStack) /\ Brackets(st, p) /\ DOMAIN nodes = 1..n
  <2>1. /\ template \in Seq(Lexemes) /\ p \in 1..Len(template) /\ p \in Tags /\ Passed(p) /\ Stacks(st, p, nodeStack)
        /\ TreeInv
    BY <1>p DEF AtFineTag
  <2>2. i \in Nat \ {0} /\ q \in 1..4
    BY <2>1, RankOfSite
  <2>3. DOMAIN nodes = 1..n
    BY <1>n, <2>1 DEF TreeInv, IsTree
  <2> QED BY <1>p, <2>1, <2>2, <2>3, Places DEF Stacks
<1>2. r \in 1..n
  <2>1. Rank(p, 0) = n
    BY <1>p, <1>n, TagRanks
  <2>2. r \in Nat \ {0}
    BY <1>1, <1>r, RankOfSite
  <2>3. Rank(i, q) \in Nat /\ Rank(p, 0) \in Nat /\ Rank(i, q) <= Rank(p, 0)
    <3>1. PICK z : z = 0
      OBVIOUS
    <3>2. template \in Seq(Lexemes) /\ i \in Nat /\ q \in Nat /\ p \in Nat /\ z \in Nat /\ i < p
      BY <1>1, <3>1
    <3> QED BY <3>1, <3>2, RankGrows
  <2> QED BY <1>r, <2>1, <2>2, <2>3
<1>3. nodes[r] = Wanted(i, q, p)
  BY <1>p, <1>r DEF AtFineTag, DrawnTo
<1>4. /\ \A x \in Enclosing(Tags, e + 1) : x \in Enclosing(Tags, p) \/ (x = p /\ TagType(p) \in Sections)
      /\ \A x \in Enclosing(Tags, p) : x \in Enclosing(Tags, e + 1) \/ (TagType(p) = "Stop" /\ x = ParentOf(Tags, p))
      /\ TagType(p) = "Stop" =>
            st # <<>> /\ ParentOf(Tags, p) < p /\ ParentOf(Tags, p) \notin Enclosing(Tags, e + 1)
  BY <1>p, <1>e, SectionsAfter
<1>5. Type = TagType(p)
  BY <1>p DEF Type, TagType, Current
<1>6. ASSUME TagType(p) = "Stop"
      PROVE  /\ IsSite(ParentOf(Tags, p), 3) /\ Parent = Rank(ParentOf(Tags, p), 3)
             /\ ParentOf(Tags, p) \in Enclosing(Tags, p) /\ EndOf(Tags, ParentOf(Tags, p)) = {p}
  <2>h. PICK h : h = Len(st)
    OBVIOUS
  <2>1. ParentOf(Tags, p) = st[h] /\ st[h] \in Enclosing(Tags, p) /\ EndOf(Tags, st[h]) = {p}
    BY <1>1, <1>4, <1>6, <2>h, EndIs
  <2>2. st[h] \in Owns
    BY <2>1 DEF Enclosing, Owns, Sections
  <2>3. st \in Seq(Nat) /\ st # <<>> /\ nodeStack \in Seq(Nat) /\ Len(nodeStack) = h /\ \A k \in 1..h : nodeStack[k] = Rank(st[k], 3)
    BY <1>1, <1>4, <1>6, <2>h DEF Stacks, Brackets
  <2>4. h \in 1..h /\ nodeStack # <<>>
    BY <2>3, <2>h
  <2>5. Parent = Rank(st[h], 3)
    BY <2>3, <2>4 DEF Parent, Innermost
  <2> QED BY <2>1, <2>2, <2>5 DEF IsSite
<1>7. CASE TagType(p) = "Stop" /\ i = ParentOf(Tags, p) /\ q = 3
  <2>1. nodes[r] = Unmeasured(i) /\ Parent = r /\ EndOf(Tags, i) = {p}
    BY <1>3, <1>6, <1>7, <1>r DEF Wanted
  <2>2. Wanted(i, q, e + 1) = NodeOfTag(Tags, i)
    BY <1>4, <1>7 DEF Wanted
  <2>3. /\ Unmeasured(i).type = TagType(i)
        /\ TagType(i) = "Section" => [Unmeasured(i) EXCEPT !.length = p - Unmeasured(i).begin] = NodeOfTag(Tags, i)
        /\ TagType(i) # "Section" => Unmeasured(i) = NodeOfTag(Tags, i)
    BY <1>1, <2>1, MeasuredIs
  <2>4. CASE TagType(i) = "Section"
    <3>1. s = [nodes EXCEPT ![r].length = p - nodes[r].begin]
      BY <1>5, <1>7, <1>p, <1>g, <2>1, <2>3, <2>4 DEF SectionSource
    <3>2. s[r] = [nodes[r] EXCEPT !.length = p - nodes[r].begin]
      BY <1>1, <1>2, <3>1
    <3> QED BY <1>2, <2>1, <2>2, <2>3, <2>4, <3>2, <1>r, <1>n, <1>g, <1>e
  <2>5. CASE TagType(i) # "Section"
    <3>1. s = nodes
      BY <1>g, <2>1, <2>3, <2>5 DEF SectionSource
    <3> QED BY <1>2, <2>1, <2>2, <2>3, <2>5, <3>1, <1>r, <1>n, <1>g, <1>e
  <2> QED BY <2>4, <2>5
<1>8. CASE ~(TagType(p) = "Stop" /\ i = ParentOf(Tags, p) /\ q = 3)
  <2>1. Wanted(i, q, e + 1) = Wanted(i, q, p)
    <3>1. CASE q = 3
      <4>1. i # p
        BY <1>1
      <4>2. i \in Enclosing(Tags, e + 1) <=> i \in Enclosing(Tags, p)
        BY <1>4, <1>8, <3>1, <4>1
      <4> QED BY <3>1, <4>2 DEF Wanted
    <3>2. CASE q # 3
      BY <1>1, <3>2 DEF Wanted
    <3> QED BY <3>1, <3>2
  <2>2. s[r] = nodes[r]
    <3>1. CASE s = nodes
      BY <3>1
    <3>2. CASE s # nodes
      <4>1. TagType(p) = "Stop" /\ s = [nodes EXCEPT ![Parent].length = pos - nodes[Parent].begin]
        BY <1>5, <1>g, <3>2 DEF SectionSource
      <4>2. IsSite(ParentOf(Tags, p), 3) /\ Parent = Rank(ParentOf(Tags, p), 3)
        BY <1>6, <4>1
      <4>3. r # Parent
        BY <1>1, <1>8, <1>r, <4>1, <4>2, RanksDiffer
      <4>4. PICK y, z : y = Parent /\ z = pos - nodes[Parent].begin
        OBVIOUS
      <4>5. s = [nodes EXCEPT ![y].length = z] /\ r # y
        BY <4>1, <4>3, <4>4
      <4> QED BY <1>1, <1>2, <4>5
    <3> QED BY <3>1, <3>2
  <2> QED BY <1>2, <1>3, <2>1, <2>2, <1>r, <1>n, <1>g, <1>e
<1> QED BY <1>7, <1>8

\* The nodes the tag adds are the reference's.
LEMMA NewNodes ==
    ASSUME NEW st, AtFineTag(st), NEW q, IsSite(pos, q)
    PROVE  TagAll[Rank(pos, q)] = Wanted(pos, q, TagEnd + 1)
<1>p. PICK p : p = pos
  OBVIOUS
<1>n. PICK n : n = Len(nodes)
  OBVIOUS
<1>e. PICK e : e = TagEnd
  OBVIOUS
<1>g. PICK g : g = TagAll
  OBVIOUS
<1>1. /\ template \in Seq(Lexemes) /\ p \in 1..Len(template) /\ p \in Tags /\ p \in Nat \ {0} /\ q \in 1..4
      /\ e + 1 \in Nat \ {0} /\ Stacks(st, p, nodeStack)
  <2>1. /\ template \in Seq(Lexemes) /\ p \in 1..Len(template) /\ p \in Tags /\ Stacks(st, p, nodeStack)
        /\ LineKnown(pos, lineStart, linePrefixIsIndent)
    BY <1>p DEF AtFineTag
  <2>2. e \in p..Len(template)
    BY <2>1, <1>p, <1>e, TagLine
  <2> QED BY <2>1, <2>2, Places DEF IsSite
<1>2. PICK a \in {0, 1}, b \in {0, 1}, c \in {0, 1}, d \in {0, 1} :
              /\ TagNodes(a, b, c, d) /\ n \in Nat
              /\ Rank(p, 1) = n + a /\ Rank(p, 2) = n + a + b
              /\ Rank(p, 3) = n + a + b + c /\ Rank(p, 4) = n + a + b + c + d
  BY <1>p, <1>n, TagRanks
<1>3. /\ a = 1 <=> p \in Texts
      /\ b = 1 <=> p \in Standalones(Tags)
      /\ c = 1 <=> p \in Owns
      /\ d = 1 <=> p \in Rests
  BY <1>2, <1>p DEF TagNodes
<1>4. /\ c = 1 => g[n + a + b + 1] = TagNode
      /\ a = 1 => g[n + a] = Output(Parent, OutputBeforeTag)
      /\ b = 1 => g[n + a + b] = TagMarker
      /\ d = 1 => g[n + a + b + c + d] = SourceOnly(Innermost(TagStack), TagRest, FALSE)
  BY <1>2, <1>n, <1>g DEF TagNodes
<1>5. Parent = ParentIndex(Tags, p)
  BY <1>1, InnermostIs DEF Parent
<1>6. /\ OutputBeforeTag = Text(TextBefore(Tags, p))
      /\ p \in Standalones(Tags) => SubSeq(template, lineStart, p - 1) = Text({j \in Line(p, Tags) : j < p})
      /\ p \in Rests => TagRest = Text(RestOf(Tags, p))
  BY <1>p, TextsAt DEF AtFineTag
<1>7. CASE q = 1
  <2>1. a = 1
    BY <1>3, <1>7, <1>p DEF IsSite
  <2> QED BY <1>2, <1>4, <1>5, <1>6, <1>7, <1>p, <1>g, <2>1 DEF Wanted, TextNode
<1>8. CASE q = 2
  <2>1. p \in Standalones(Tags) /\ b = 1
    BY <1>3, <1>8, <1>p DEF IsSite
  <2>2. Type = TagType(p)
    BY <1>p DEF Type, TagType, Current
  <2>3. TagMarker = MarkerNode(Tags, p)
    BY <1>5, <1>6, <1>p, <2>1, <2>2 DEF TagMarker, MarkerNode
  <2> QED BY <1>2, <1>4, <1>8, <1>p, <1>g, <2>1, <2>3 DEF Wanted
<1>9. CASE q = 3
  <2>1. c = 1
    BY <1>3, <1>9, <1>p DEF IsSite
  <2>2. TagNode = Unmeasured(p)
    BY <1>5, <1>p, TagNodeIs DEF AtFineTag
  <2>3. g[Rank(p, 3)] = Unmeasured(p)
    BY <1>2, <1>4, <2>1, <2>2
  <2>4. p \notin Enclosing(Tags, e + 1) => Unmeasured(p) = NodeOfTag(Tags, p)
    <3>1. TagType(p) \in Sections => p \in Enclosing(Tags, e + 1)
      BY <1>p, <1>e, SectionsAfter
    <3>2. TagType(p) # "Section" => Unmeasured(p) = NodeOfTag(Tags, p)
      BY NodeIs
    <3> QED BY <3>1, <3>2 DEF Sections
  <2>5. Wanted(p, 3, e + 1) = Unmeasured(p)
    BY <2>4 DEF Wanted
  <2> QED BY <1>9, <1>p, <1>g, <1>e, <2>3, <2>5
<1>10. CASE q = 4
  <2>1. p \in Rests /\ d = 1
    BY <1>3, <1>10, <1>p DEF IsSite
  <2>2. Innermost(TagStack) = ParentIndex(Tags, e + 1)
    <3>1. Stacks(StackAfter(st, p), e + 1, TagStack)
      BY <1>p, <1>e, StacksTag
    <3> QED BY <1>1, <3>1, InnermostIs
  <2>3. ParentIndex(Tags, e + 1) = ParentIndex(Tags, p + 1)
    <3>1. Enclosing(Tags, e + 1) = Enclosing(Tags, p + 1)
      BY <1>p, <1>e, SectionsAfter
    <3>2. ParentOf(Tags, e + 1) = ParentOf(Tags, p + 1)
      BY <3>1 DEF ParentOf
    <3> QED BY <3>2 DEF ParentIndex
  <2>4. g[Rank(p, 4)] = RestNode(Tags, p)
    BY <1>2, <1>4, <1>6, <2>1, <2>2, <2>3 DEF RestNode
  <2> QED BY <1>10, <1>p, <1>g, <2>4 DEF Wanted
<1> QED BY <1>1, <1>7, <1>8, <1>9, <1>10

LEMMA DrawnTag == ASSUME NEW st, AtFineTag(st) PROVE DrawnTo(TagEnd + 1, TagAll)
<1>p. PICK p : p = pos
  OBVIOUS
<1>e. PICK e : e = TagEnd
  OBVIOUS
<1>1. template \in Seq(Lexemes) /\ p \in 1..Len(template) /\ LineKnown(pos, lineStart, linePrefixIsIndent) /\ p \in Tags
  BY <1>p DEF AtFineTag
<1>2. e \in p..Len(template) /\ \A j \in (p + 1)..e : j \notin Tags
  BY <1>1, <1>p, <1>e, TagLine
<1>3. ASSUME NEW i, NEW q, IsSite(i, q), i < e + 1 PROVE TagAll[Rank(i, q)] = Wanted(i, q, e + 1)
  <2>1. i \in Nat /\ (i \in Tags \/ i = Len(template) + 1)
    <3>1. PICK X \in {Texts, Standalones(Tags), Owns, Rests} : i \in X
      BY <1>3 DEF IsSite
    <3> QED BY <1>1, <3>1, CountedSets
  <2>2. i < p \/ i = p
    <3>1. i # Len(template) + 1 /\ i \notin (p + 1)..e
      BY <1>1, <1>2, <1>3, <2>1, Places
    <3> QED BY <1>1, <1>2, <1>3, <2>1, <3>1
  <2>3. CASE i < p
    <3>1. Rank(i, q) \in 1..Len(nodes) /\ SectionSource[Rank(i, q)] = Wanted(i, q, e + 1)
      BY <1>3, <1>p, <1>e, <2>3, OldNodes
    <3>2. \A k \in 1..Len(nodes) : TagAll[k] = SectionSource[k]
      <4>1. PICK a \in {0, 1}, b \in {0, 1}, c \in {0, 1}, d \in {0, 1} : TagNodes(a, b, c, d)
        BY TagRanks
      <4> QED BY <4>1 DEF TagNodes
    <3> QED BY <3>1, <3>2
  <2>4. CASE i = p
    BY <1>3, <1>p, <1>e, <2>4, NewNodes
  <2> QED BY <2>2, <2>3, <2>4
<1> QED BY <1>3, <1>e DEF DrawnTo

LEMMA DrawnText ==
    ASSUME template \in Seq(Lexemes), NEW p \in 1..Len(template), p \notin Tags, NEW ns, DrawnTo(p, ns)
    PROVE  DrawnTo(p + 1, ns)
<1>1. p \in Nat \ {0} /\ p + 1 \in Nat /\ p <= p + 1 /\ p # Len(template) + 1 /\ \A k \in p..((p + 1) - 1) : k = p
  BY Places
<1>2. Enclosing(Tags, p + 1) = Enclosing(Tags, p)
  <2>1. \A k \in p..((p + 1) - 1) : k \notin OpeningTags /\ k \notin StopTags
    BY <1>1 DEF OpeningTags, StopTags
  <2> QED BY <1>1, <2>1, EnclosingKeeps
<1>3. ASSUME NEW i, NEW q, IsSite(i, q), i < p + 1 PROVE ns[Rank(i, q)] = Wanted(i, q, p + 1)
  <2>1. i \in Nat /\ (i \in Tags \/ i = Len(template) + 1)
    <3>1. PICK X \in {Texts, Standalones(Tags), Owns, Rests} : i \in X
      BY <1>3 DEF IsSite
    <3> QED BY <3>1, CountedSets
  <2>2. i < p
    BY <1>1, <1>3, <2>1
  <2>3. Wanted(i, q, p + 1) = Wanted(i, q, p)
    BY <1>2 DEF Wanted
  <2> QED BY <1>3, <2>2, <2>3 DEF DrawnTo
<1> QED BY <1>3 DEF DrawnTo

\* The tree that is published is the reference's.
LEMMA FinishDraws ==
    ASSUME TextInv, TreeInv, FollowsInv, DrawnInv, Finish, outcome' = "accepted"
    PROVE  IsTreeOf(root', Tags)
<1>1. scanning /\ pos > Len(template)
  BY DEF Finish
<1>2. template \in Seq(Lexemes) /\ pos = Len(template) + 1 /\ Len(template) \in Nat /\ buffer \in Seq(Lexemes)
  BY <1>1 DEF TextInv
<1>e. PICK e : e = Len(template) + 1
  OBVIOUS
<1>n. PICK n : n = Len(nodes)
  OBVIOUS
<1>f. PICK f : f = pos - Len(buffer)
  OBVIOUS
<1>g. PICK g : g = nodes \o UnlessEmpty(Output(Parent, buffer))
  OBVIOUS
<1>3. root' = g /\ nodeStack = <<>>
  BY <1>g DEF Finish, Reject
<1>4. PICK a \in {0, 1} :
              /\ a = 1 <=> e \in Texts
              /\ Len(g) = n + a /\ Size(Tags) = n + a /\ Rank(e, 1) = n + a
              /\ \A k \in 1..n : g[k] = nodes[k]
              /\ a = 1 => g[n + a] = Output(Parent, buffer)
  BY <1>1, <1>2, <1>e, <1>n, <1>g, LastText
<1>5. e \notin Tags /\ n \in Nat /\ Rank(e, 0) = n
  BY <1>1, <1>2, <1>e, <1>n, <1>g, LastText
<1>6. PICK st : Stacks(st, e, nodeStack)
  BY <1>1, <1>2, <1>e DEF DrawnInv
<1>7. DrawnTo(e, nodes) /\ buffer = SubSeq(template, f, e - 1)
  BY <1>1, <1>2, <1>e, <1>f DEF DrawnInv
<1>8. Flushed(f, e)
  BY <1>1, <1>2, <1>e, <1>f DEF FollowsInv, Follows
<1>9. e \in Nat \ {0}
  BY <1>2, <1>e
<1>10. Enclosing(Tags, e) = {}
  <2>1. st = <<>>
    <3>1. st \in Seq(Nat) /\ Len(nodeStack) = Len(st)
      BY <1>6 DEF Stacks, Brackets
    <3> QED BY <1>3, <3>1
  <2>2. Brackets(st, e)
    BY <1>6 DEF Stacks
  <2> QED BY <1>2, <1>9, <2>1, <2>2, BracketsMean
<1>11. ASSUME NEW i, NEW q, IsSite(i, q), i < e PROVE g[Rank(i, q)] = Wanted(i, q, e)
  <2>1. i \in Nat /\ q \in Nat /\ Rank(i, q) \in Nat \ {0}
    BY <1>2, <1>11, RankOfSite
  <2>z. PICK z : z = 0
    OBVIOUS
  <2>2. template \in Seq(Lexemes) /\ i \in Nat /\ q \in Nat /\ e \in Nat /\ z \in Nat /\ i < e
    BY <1>2, <1>9, <1>11, <2>1, <2>z
  <2>3. Rank(i, q) <= Rank(e, z)
    BY <2>2, RankGrows
  <2>4. Rank(i, q) \in 1..n
    BY <1>5, <2>1, <2>3, <2>z
  <2> QED BY <1>4, <1>7, <1>11, <2>4 DEF DrawnTo
<1>12. ASSUME e \in Texts PROVE g[Rank(e, 1)] = TextNode(Tags, e)
  <2>1. TextBefore(Tags, e) = f..(e - 1)
    <3>1. e \in 1..(Len(template) + 1) /\ e \notin Standalones(Tags)
      BY <1>2, <1>5, <1>e DEF Standalones
    <3> QED BY <1>2, <1>8, <1>e, <3>1, FlushedIs
  <2>2. f \in Nat \ {0} /\ e - 1 \in Nat /\ e - 1 <= Len(template) /\ f <= (e - 1) + 1
    BY <1>2, <1>8, <1>e DEF Flushed
  <2>3. Text(TextBefore(Tags, e)) = buffer
    BY <1>2, <1>7, <2>1, <2>2, TextIs
  <2>4. Parent = ParentIndex(Tags, e)
    BY <1>2, <1>6, <1>9, InnermostIs DEF Parent
  <2> QED BY <1>4, <1>12, <2>3, <2>4 DEF TextNode
<1>13. \A X \in {Texts, Standalones(Tags), Owns, Rests} : \A i \in X : i < e \/ (i = e /\ X = Texts)
  <2> SUFFICES ASSUME NEW X \in {Texts, Standalones(Tags), Owns, Rests}, NEW i \in X PROVE i < e \/ (i = e /\ X = Texts)
    OBVIOUS
  <2>1. i \in Nat /\ i <= e
    BY <1>2, <1>e, CountedSets
  <2>2. i = e => X = Texts
    BY <1>5 DEF Standalones, Owns, Rests
  <2> QED BY <1>9, <2>1, <2>2
<1>14. \A j \in Texts : g[Rank(j, 1)] = TextNode(Tags, j)
  BY <1>11, <1>12, <1>13 DEF IsSite, Wanted
<1>15. \A i \in Standalones(Tags) : g[Rank(i, 2)] = MarkerNode(Tags, i)
  <2> SUFFICES ASSUME NEW i \in Standalones(Tags) PROVE g[Rank(i, 2)] = MarkerNode(Tags, i)
    OBVIOUS
  <2>1. i < e
    BY <1>5, <1>13 DEF Standalones
  <2> QED BY <1>11, <2>1 DEF IsSite, Wanted
<1>16. \A i \in Owns : g[Rank(i, 3)] = NodeOfTag(Tags, i)
  <2> SUFFICES ASSUME NEW i \in Owns PROVE g[Rank(i, 3)] = NodeOfTag(Tags, i)
    OBVIOUS
  <2>1. i < e
    BY <1>5, <1>13 DEF Owns
  <2> QED BY <1>10, <1>11, <2>1 DEF IsSite, Wanted
<1>17. \A i \in Rests : g[Rank(i, 4)] = RestNode(Tags, i)
  <2> SUFFICES ASSUME NEW i \in Rests PROVE g[Rank(i, 4)] = RestNode(Tags, i)
    OBVIOUS
  <2>1. i < e
    BY <1>5, <1>13 DEF Rests, Standalones
  <2> QED BY <1>11, <2>1 DEF IsSite, Wanted
<1>18. Texts = TextSites(Tags) /\ Owns = TagSites(Tags) /\ Rests = RestSites(Tags)
  BY DEF Texts, TextSites, Owns, TagSites, Rests, RestSites
<1>19. Len(g) = Size(Tags)
  BY <1>4
<1> QED BY <1>3, <1>14, <1>15, <1>16, <1>17, <1>18, <1>19 DEF IsTreeOf, Rank

LEMMA SameTree ==
    ASSUME UNCHANGED <<template, sequences, escapes>>
    PROVE  /\ \A p, ns : DrawnTo(p, ns)' <=> DrawnTo(p, ns)
           /\ \A st, p, stack : Stacks(st, p, stack)' <=> Stacks(st, p, stack)
           /\ \A tree : IsTreeOf(tree, Tags)' <=> IsTreeOf(tree, Tags)
<1>1. /\ Tags' = Tags /\ Size(Tags)' = Size(Tags) /\ PairAt' = PairAt /\ Positions' = Positions
      /\ \A i : TagType(i)' = TagType(i) /\ Line(i, Tags)' = Line(i, Tags) /\ RestOf(Tags, i)' = RestOf(Tags, i)
      /\ \A i, j : Openings(Tags, i, j)' = Openings(Tags, i, j) /\ Closings(Tags, i, j)' = Closings(Tags, i, j)
      /\ Standalones(Tags)' = Standalones(Tags)
      /\ Texts' = Texts /\ Owns' = Owns /\ Rests' = Rests
  BY SameReference
<1>2. \A p : Enclosing(Tags, p)' = Enclosing(Tags, p)
  BY SameReference
<1>3. \A p : ParentOf(Tags, p)' = ParentOf(Tags, p) /\ EndOf(Tags, p)' = EndOf(Tags, p)
  BY SameReference
<1>4. \A j : TextBefore(Tags, j)' = TextBefore(Tags, j)
  BY SameReference
<1>5. Texts = TextSites(Tags) /\ Owns = TagSites(Tags) /\ Rests = RestSites(Tags)
  BY DEF Texts, TextSites, Owns, TagSites, Rests, RestSites
<1>6. (Texts = TextSites(Tags) /\ Owns = TagSites(Tags) /\ Rests = RestSites(Tags))'
  BY DEF Texts, TextSites, Owns, TagSites, Rests, RestSites
<1>7. \A i, q : Index(Tags, i, q)' = Index(Tags, i, q)
  BY <1>1, <1>5, <1>6 DEF Index
<1>8. \A j : ParentIndex(Tags, j)' = ParentIndex(Tags, j)
  BY <1>3, <1>7 DEF ParentIndex
<1>9. \A P : Text(P)' = Text(P)
  BY DEF Text
<1>10. /\ \A j : TextNode(Tags, j)' = TextNode(Tags, j)
       /\ \A j : RestNode(Tags, j)' = RestNode(Tags, j)
       /\ \A j : MarkerNode(Tags, j)' = MarkerNode(Tags, j)
  <2>1. \A j : TextNode(Tags, j)' = TextNode(Tags, j)
    BY <1>4, <1>8, <1>9 DEF TextNode, Output
  <2>2. \A j : RestNode(Tags, j)' = RestNode(Tags, j)
    BY <1>1, <1>8, <1>9 DEF RestNode, Output, SourceOnly
  <2>3. \A j : MarkerNode(Tags, j)' = MarkerNode(Tags, j)
    BY <1>1, <1>8, <1>9 DEF MarkerNode, Output, SourceOnly
  <2> QED BY <2>1, <2>2, <2>3
<1>11. \A i : NodeOfTag(Tags, i)' = NodeOfTag(Tags, i)
  <2> SUFFICES ASSUME NEW i PROVE NodeOfTag(Tags, i)' = NodeOfTag(Tags, i)
    OBVIOUS
  <2>1. Escaped(i)' = Escaped(i)
    BY <1>1 DEF Escaped
  <2>2. Cardinality(Inside(i))' = Cardinality(Inside(i))
    BY <1>1, <1>3 DEF Inside
  <2>3. \A q, x, m : NodeWith(i, q, x, m)' = NodeWith(i, q, x, m)
    BY <1>1 DEF NodeWith, Output
  <2>4. /\ TagType(i) = "Section" =>
                NodeOfTag(Tags, i) = NodeWith(i, ParentIndex(Tags, i), Escaped(i), Cardinality(Inside(i)))
        /\ TagType(i) # "Section" => NodeOfTag(Tags, i) = NodeWith(i, ParentIndex(Tags, i), Escaped(i), 0)
    BY NodeIs
  <2>5. (/\ TagType(i) = "Section" =>
                NodeOfTag(Tags, i) = NodeWith(i, ParentIndex(Tags, i), Escaped(i), Cardinality(Inside(i)))
         /\ TagType(i) # "Section" => NodeOfTag(Tags, i) = NodeWith(i, ParentIndex(Tags, i), Escaped(i), 0))'
    BY NodeIs, PTL
  <2>6. TagType(i)' = TagType(i) /\ ParentIndex(Tags, i)' = ParentIndex(Tags, i)
    BY <1>1, <1>8
  <2> QED BY <2>1, <2>2, <2>3, <2>4, <2>5, <2>6
<1>12. \A i, q : IsSite(i, q)' <=> IsSite(i, q)
  BY <1>1 DEF IsSite
<1>13. \A i, q, p : Wanted(i, q, p)' = Wanted(i, q, p)
  <2>1. \A i : Unmeasured(i)' = Unmeasured(i)
    BY <1>11 DEF Unmeasured
  <2>2. \A i, p : (i \in Enclosing(Tags, p))' <=> i \in Enclosing(Tags, p)
    BY <1>2
  <2> QED BY <1>10, <1>11, <2>1, <2>2 DEF Wanted
<1>14. \A p, ns : DrawnTo(p, ns)' <=> DrawnTo(p, ns)
  BY <1>7, <1>12, <1>13 DEF DrawnTo, Rank
<1>15. \A st, p : Brackets(st, p)' <=> Brackets(st, p)
  BY <1>1, <1>2 DEF Brackets, OpeningTags
<1>16. \A st, p, stack : Stacks(st, p, stack)' <=> Stacks(st, p, stack)
  BY <1>7, <1>15 DEF Stacks, Rank
<1>17. \A tree : IsTreeOf(tree, Tags)' <=> IsTreeOf(tree, Tags)
  BY <1>1, <1>5, <1>6, <1>7, <1>10, <1>11 DEF IsTreeOf
<1> QED BY <1>14, <1>16, <1>17

LEMMA DrawnAgain ==
    ASSUME UNCHANGED <<template, sequences, escapes>>, NEW p, p = pos', NEW ns, ns = nodes', NEW stack, stack = nodeStack',
           DrawnTo(p, ns), NEW st, Stacks(st, p, stack), buffer' = SubSeq(template, p - Len(buffer'), p - 1)
    PROVE  DrawnInv'
<1>1. DrawnTo(p, ns)' /\ Stacks(st, p, stack)'
  BY SameTree
<1>2. DrawnTo(pos, nodes)' /\ Stacks(st, pos, nodeStack)'
  BY <1>1
<1> QED BY <1>2 DEF DrawnInv

LEMMA TextDraws == ASSUME TextInv, FollowsInv, DrawnInv, ReadText PROVE DrawnInv'
<1>1. /\ scanning /\ UNCHANGED <<template, sequences, escapes, nodes, nodeStack>>
      /\ buffer' = Append(buffer, Current) /\ pos' = pos + 1 /\ pos <= Len(template) /\ Current.kind # "open" /\ ~AtTag
  BY DEF ReadText, settings
<1>2. template \in Seq(Lexemes) /\ pos \in 1..Len(template) /\ buffer \in Seq(Lexemes) /\ Current = template[pos]
  BY <1>1 DEF TextInv, Current
<1>p. PICK p : p = pos
  OBVIOUS
<1>b. PICK b : b = Len(buffer)
  OBVIOUS
<1>f. PICK f : f = p - b
  OBVIOUS
<1>3. PICK st : Stacks(st, p, nodeStack)
  BY <1>1, <1>p DEF DrawnInv
<1>4. DrawnTo(p, nodes) /\ buffer = SubSeq(template, f, p - 1)
  BY <1>1, <1>p, <1>b, <1>f DEF DrawnInv
<1>5. pair = PairAt[p] /\ Flushed(f, p) /\ Passed(p)
  BY <1>1, <1>p, <1>b, <1>f DEF FollowsInv, Follows
<1>6. p \in 1..Len(template) /\ p \notin Tags /\ template[p].kind # "open" /\ p \in Nat /\ b \in Nat
  BY <1>1, <1>2, <1>5, <1>p, <1>b DEF Tags, AtTag
<1>7. DrawnTo(p + 1, nodes)
  BY <1>2, <1>4, <1>6, DrawnText
<1>8. Stacks(st, p + 1, nodeStack)
  <2>1. Brackets(st, p)
    BY <1>3 DEF Stacks
  <2>2. Brackets(st, p + 1)
    BY <1>2, <1>5, <1>6, <2>1, PassedText
  <2> QED BY <1>3, <2>2 DEF Stacks
<1>9. buffer' = SubSeq(template, f, p)
  <2>1. f \in Nat \ {0} /\ f <= p
    BY <1>5, <1>6 DEF Flushed
  <2>2. Append(SubSeq(template, f, p - 1), template[p]) = SubSeq(template, f, p)
    BY <1>2, <1>6, <2>1, TextGrows
  <2> QED BY <1>1, <1>2, <1>4, <1>p, <2>2
<1>10. (p + 1) - Len(buffer') = f /\ (p + 1) - 1 = p
  <2>1. Len(buffer') = b + 1
    BY <1>1, <1>2, <1>b
  <2> QED BY <1>6, <1>f, <2>1
<1>c. PICK p2, ns, stack : p2 = p + 1 /\ ns = nodes /\ stack = nodeStack
  OBVIOUS
<1>11. /\ p2 = pos' /\ ns = nodes' /\ stack = nodeStack' /\ DrawnTo(p2, ns) /\ Stacks(st, p2, stack)
       /\ buffer' = SubSeq(template, p2 - Len(buffer'), p2 - 1)
  BY <1>1, <1>7, <1>8, <1>9, <1>10, <1>c, <1>p
<1>12. UNCHANGED <<template, sequences, escapes>>
  BY <1>1
<1> QED BY <1>11, <1>12, DrawnAgain

LEMMA TagDraws ==
    ASSUME TextInv, TreeInv, FollowsInv, DrawnInv, escapes \in BOOLEAN, ReadTag, scanning'
    PROVE  DrawnInv'
<1>1. /\ scanning /\ UNCHANGED <<template, sequences, escapes>> /\ pos <= Len(template) /\ AtTag
      /\ Acceptable /\ nodes' = TagAll /\ nodeStack' = TagStack /\ buffer' = <<>> /\ pos' = TagEnd + 1
  BY DEF ReadTag, Reject, settings, TagAll, TagStack, TagRest, TagLeading
<1>2. template \in Seq(Lexemes) /\ pos \in 1..Len(template) /\ Current = template[pos]
  BY <1>1 DEF TextInv, Current
<1>3. PICK x : /\ Follows(x, pos, pair, pos - Len(buffer), lineStart, linePrefixIsIndent, Len(nodes))
               /\ Named(x, nodes, nodeStack)
  BY <1>1 DEF FollowsInv
<1>4. pos \in Tags
  <2>1. pair = PairAt[pos]
    BY <1>3 DEF Follows
  <2> QED BY <1>1, <1>2, <2>1 DEF Tags, Positions, AtTag
<1>5. TagFine(pos)
  BY <1>1, <1>2, <1>3, <1>4, AcceptableMeans DEF Follows
<1>6. PICK st : Stacks(st, pos, nodeStack)
  BY <1>1 DEF DrawnInv
<1>7. AtFineTag(st)
  <2>1. DrawnTo(pos, nodes) /\ buffer = SubSeq(template, pos - Len(buffer), pos - 1)
    BY <1>1 DEF DrawnInv
  <2>2. /\ pair = PairAt[pos]
        /\ LineKnown(pos, lineStart, linePrefixIsIndent)
        /\ Flushed(pos - Len(buffer), pos) /\ Counted(pos, Len(nodes)) /\ Passed(pos)
    BY <1>3 DEF Follows
  <2> QED BY <1>1, <1>2, <1>4, <1>5, <1>6, <2>1, <2>2 DEF AtFineTag
<1>c. PICK p2, ns, stack, st2 : p2 = TagEnd + 1 /\ ns = TagAll /\ stack = TagStack /\ st2 = StackAfter(st, pos)
  OBVIOUS
<1>8. DrawnTo(p2, ns)
  BY <1>7, <1>c, DrawnTag
<1>9. Stacks(st2, p2, stack)
  BY <1>7, <1>c, StacksTag
<1>10. buffer' = SubSeq(template, p2 - Len(buffer'), p2 - 1)
  <2>1. p2 \in Nat
    <3>1. TagEnd \in pos..Len(template)
      BY <1>2, <1>4, <1>7, TagLine DEF AtFineTag
    <3> QED BY <1>2, <1>c, <3>1
  <2>2. Len(buffer') = 0 /\ p2 - 0 = p2 /\ p2 - 1 < p2
    BY <1>1, <2>1
  <2>3. SubSeq(template, p2, p2 - 1) = <<>>
    BY <1>2, <2>1, <2>2, SubSeqEmpty
  <2> QED BY <1>1, <2>2, <2>3
<1>11. p2 = pos' /\ ns = nodes' /\ stack = nodeStack' /\ UNCHANGED <<template, sequences, escapes>>
  BY <1>1, <1>c
<1> QED BY <1>8, <1>9, <1>10, <1>11, DrawnAgain

\* Before the first lexeme there are no nodes.
StartDraws == template \in Seq(Lexemes) => DrawnTo(1, <<>>) /\ Stacks(<<>>, 1, <<>>) /\ SubSeq(template, 1, 0) = <<>>

LEMMA StartsDrawing == StartDraws
<1> SUFFICES ASSUME template \in Seq(Lexemes)
             PROVE  DrawnTo(1, <<>>) /\ Stacks(<<>>, 1, <<>>) /\ SubSeq(template, 1, 0) = <<>>
  BY DEF StartDraws
<1>1. ASSUME NEW i, NEW q, IsSite(i, q) PROVE ~(i < 1)
  <2>1. i \in Nat \ {0}
    BY <1>1, RankOfSite
  <2> QED BY <2>1
<1>2. DrawnTo(1, <<>>)
  BY <1>1 DEF DrawnTo
<1>3. Stacks(<<>>, 1, <<>>)
  <2>1. Brackets(<<>>, 1)
    BY StartsFollowing DEF StartFollows, Follows
  <2>2. <<>> \in Seq(Nat) /\ \A k : k \notin 1..Len(<<>>)
    OBVIOUS
  <2> QED BY <2>1, <2>2 DEF Stacks
<1>4. SubSeq(template, 1, 0) = <<>>
  BY SubSeqEmpty
<1> QED BY <1>2, <1>3, <1>4

LEMMA StartsDrawingNext == StartDraws'
BY StartsDrawing, PTL

LEMMA StartTokenizeDraws ==
    ASSUME NEW t \in Templates, NEW l \in LimitChoices, StartTokenize(t, l)
    PROVE  DrawnInv'
<1>1. template' = t /\ pos' = 1 /\ buffer' = <<>> /\ nodes' = <<>> /\ nodeStack' = <<>>
  BY DEF StartTokenize
<1>2. template' \in Seq(Lexemes)
  BY <1>1, TemplatesAssumption
<1>e. PICK e : e = <<>>
  OBVIOUS
<1>3. DrawnTo(1, e)' /\ Stacks(e, 1, e)' /\ SubSeq(template', 1, 0) = e
  BY <1>2, <1>e, StartsDrawingNext DEF StartDraws
<1>4. 1 = pos' - Len(buffer') /\ 0 = pos' - 1
  <2>1. Len(<<>>) = 0
    OBVIOUS
  <2> QED BY <1>1, <2>1
<1>5. DrawnTo(pos, nodes)' /\ Stacks(e, pos, nodeStack)'
  BY <1>1, <1>3, <1>e
<1> QED BY <1>1, <1>3, <1>4, <1>5, <1>e DEF DrawnInv

LEMMA DrawNext ==
    ASSUME TextFits, TreeInv, scanning => outcome = "none", FollowsInv, DrawnInv, escapes \in BOOLEAN,
           TreeIsTheTemplates, [Next]_vars
    PROVE  DrawnInv' /\ escapes' \in BOOLEAN /\ TreeIsTheTemplates'
<1>1. CASE UNCHANGED vars
  <2>1. UNCHANGED <<template, sequences, escapes, outcome, root, scanning, pos, buffer, nodes, nodeStack>>
    BY <1>1 DEF vars, settings, scan
  <2>2. TreeIsTheTemplates'
    <3>1. PICK tree : tree = root
      OBVIOUS
    <3>2. IsTreeOf(tree, Tags)' <=> IsTreeOf(tree, Tags)
      BY <2>1, SameTree
    <3> QED BY <2>1, <3>1, <3>2 DEF TreeIsTheTemplates
  <2>3. ASSUME scanning PROVE DrawnInv'
    <3>1. PICK p, ns, stack : p = pos /\ ns = nodes /\ stack = nodeStack
      OBVIOUS
    <3>2. PICK st : Stacks(st, p, stack)
      BY <2>3, <3>1 DEF DrawnInv
    <3>3. /\ p = pos' /\ ns = nodes' /\ stack = nodeStack' /\ DrawnTo(p, ns)
          /\ buffer' = SubSeq(template, p - Len(buffer'), p - 1) /\ UNCHANGED <<template, sequences, escapes>>
      BY <2>1, <2>3, <3>1 DEF DrawnInv
    <3> QED BY <3>2, <3>3, DrawnAgain
  <2>4. ~scanning => DrawnInv'
    BY <2>1 DEF DrawnInv
  <2> QED BY <2>1, <2>2, <2>3, <2>4
<1>2. CASE ReadText
  <2>1. scanning /\ outcome' = outcome /\ escapes' = escapes
    BY <1>2 DEF ReadText, settings
  <2>2. DrawnInv'
    BY <1>2, <2>1, TextDraws DEF TextFits
  <2> QED BY <2>1, <2>2 DEF TreeIsTheTemplates
<1>3. CASE ReadTag
  <2>1. scanning /\ escapes' = escapes
    BY <1>3 DEF ReadTag, Reject, settings
  <2>2. CASE scanning'
    <3>1. outcome' = outcome
      BY <1>3, <2>2 DEF ReadTag, Reject
    <3>2. DrawnInv'
      BY <1>3, <2>1, <2>2, TagDraws DEF TextFits
    <3> QED BY <2>1, <3>1, <3>2 DEF TreeIsTheTemplates
  <2>3. CASE ~scanning'
    <3>1. outcome' = "rejected"
      BY <1>3, <2>1, <2>3 DEF ReadTag, Reject
    <3> QED BY <2>1, <2>3, <3>1 DEF DrawnInv, TreeIsTheTemplates
  <2> QED BY <2>2, <2>3
<1>4. CASE UnclosedTag
  <2>1. ~scanning' /\ outcome' = "rejected" /\ escapes' = escapes
    BY <1>4 DEF UnclosedTag, Reject, settings
  <2> QED BY <2>1 DEF DrawnInv, TreeIsTheTemplates
<1>5. CASE Finish
  <2>1. scanning /\ ~scanning' /\ UNCHANGED <<template, sequences, escapes>>
    BY <1>5 DEF Finish, Reject, settings
  <2>2. ASSUME outcome' = "accepted" PROVE IsTreeOf(root, Tags)'
    <3>1. PICK tree : tree = root'
      OBVIOUS
    <3>2. IsTreeOf(tree, Tags)
      BY <1>5, <2>1, <2>2, <3>1, FinishDraws DEF TextFits
    <3>3. IsTreeOf(tree, Tags)'
      BY <2>1, <3>2, SameTree
    <3> QED BY <3>1, <3>3
  <2> QED BY <2>1, <2>2 DEF DrawnInv, TreeIsTheTemplates
<1>6. CASE SetSequences \/ SetEscapeByDefault
  <2>1. ~scanning' /\ outcome' = "none" /\ escapes' \in BOOLEAN
    BY <1>6 DEF SetSequences, SetEscapeByDefault, Idle
  <2> QED BY <2>1 DEF DrawnInv, TreeIsTheTemplates
<1>7. ASSUME Idle, NEW t \in Templates, NEW l \in LimitChoices, StartTokenize(t, l)
      PROVE  DrawnInv' /\ escapes' \in BOOLEAN /\ TreeIsTheTemplates'
  <2>1. outcome' = "none" /\ escapes' = escapes
    BY <1>7 DEF StartTokenize, settings
  <2>2. DrawnInv'
    BY <1>7, StartTokenizeDraws
  <2> QED BY <2>1, <2>2 DEF TreeIsTheTemplates
<1>8. ASSUME Idle, NEW t \in Templates, NEW l \in LimitChoices, RejectAtOnce(t, l)
      PROVE  DrawnInv' /\ escapes' \in BOOLEAN /\ TreeIsTheTemplates'
  <2>1. ~scanning' /\ outcome' = "rejected" /\ escapes' = escapes
    BY <1>8 DEF RejectAtOnce, Idle, settings
  <2> QED BY <2>1 DEF DrawnInv, TreeIsTheTemplates
<1>9. Stop => UNCHANGED vars
  BY DEF Stop
<1> QED BY <1>1, <1>2, <1>3, <1>4, <1>5, <1>6, <1>7, <1>8, <1>9 DEF Next, Scan

\* The tree that tokenize publishes is the one the positions of the template give, node for node: no
\* text is lost, doubled or moved to another section, what hides is exactly the blanks and newlines
\* of standalone lines, and a section holds the source between its tags.
THEOREM TemplatesBecomeTheirTrees == Spec => []TreeIsTheTemplates
<1> DEFINE I == /\ TextFits /\ TreeInv /\ ScanInv /\ (scanning => outcome = "none")
                /\ FollowsInv /\ SettingsInv /\ AcceptsExactly
                /\ DrawnInv /\ escapes \in BOOLEAN /\ TreeIsTheTemplates
<1>1. I /\ [Next]_vars => I'
  <2> SUFFICES ASSUME I, [Next]_vars PROVE I'
    OBVIOUS
  <2>1. TextFits' /\ TreeInv' /\ ScanInv' /\ (scanning => outcome = "none")'
    BY TextFitsNext, TreesNext
  <2>2. FollowsInv' /\ SettingsInv' /\ AcceptsExactly'
    BY AcceptNext
  <2>3. DrawnInv' /\ escapes' \in BOOLEAN /\ TreeIsTheTemplates'
    BY DrawNext
  <2> QED BY <2>1, <2>2, <2>3
<1>2. I => TreeIsTheTemplates
  OBVIOUS
<1>3. Init => I
  BY TreesInit DEF Init, FollowsInv, SettingsInv, AcceptsExactly, DrawnInv, TreeIsTheTemplates
<1> HIDE DEF I
<1> QED BY <1>1, <1>2, <1>3, PTL DEF Spec

=============================================================================
