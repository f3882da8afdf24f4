--------------------------- MODULE NodeReader_proofs ---------------------------
(***************************************************************************)
(* Two results about Node::unserialize.  What it reads lies inside the      *)
(* ranges that the headers around it announce, and these inside the input,  *)
(* whatever the bytes say.  And it accepts exactly the bytes that stand for *)
(* a valid tree within the limits: the frames of the reader follow a walk   *)
(* over the records (Walked), from which each of the conditions of          *)
(* WellFormed is read off when its record is left, and which no record of   *)
(* well formed bytes can stop; a reader that lost the walk only fails.      *)
(***************************************************************************)
EXTENDS NodeReader, SequenceTheorems, FiniteSetTheorems, NaturalsInduction, WellFoundedInduction, TLAPS

vars == <<reader, limits, state>>
ReaderNext == (\E s \in Serials, l \in LimitChoices : Unserialize(s, l)) \/ ReadNode \/ FinishRead
ReaderSpec == ReaderInit /\ [][ReaderNext]_vars

IsSeq(s) == \E S : s \in Seq(S)
IsFrame(f) == f = [node |-> f.node, count |-> f.count, end |-> f.end] /\ f.end \in Nat

\* Ranges around a byte, each inside the one before, in an input of a length.
Nested(ranges, p, length) ==
    /\ IsSeq(ranges) /\ p \in Nat /\ length \in Nat /\ p <= length
    /\ \A i \in 1..Len(ranges) : IsFrame(ranges[i]) /\ p <= ranges[i].end /\ ranges[i].end <= length
    /\ \A i, j \in 1..Len(ranges) : i < j => ranges[j].end <= ranges[i].end

ReaderInv ==
    /\ read = "idle" => reading = <<>>
    /\ read = "busy" => serial \in Serials /\ Nested(reading, pos, serial.length)

-----------------------------------------------------------------------------
(* Ranges *)

LEMMA NoRanges ==
    ASSUME NEW p \in Nat, NEW length \in Nat, p <= length
    PROVE  Nested(<<>>, p, length)
<1>1. <<>> \in Seq({}) /\ Len(<<>>) = 0
  BY EmptySeq
<1> QED BY <1>1 DEF Nested, IsSeq

\* A range begins where reading goes on, and ends within what surrounds it.
LEMMA NewRange ==
    ASSUME NEW ranges, NEW p, NEW length, Nested(ranges, p, length),
           NEW f, IsFrame(f), NEW q \in Nat, p <= q, q <= f.end,
           f.end <= IF ranges = <<>> THEN length ELSE ranges[Len(ranges)].end
    PROVE  Nested(Append(ranges, f), q, length)
<1> DEFINE all == Append(ranges, f)
           n == Len(ranges)
<1>1. PICK S : ranges \in Seq(S)
  BY DEF Nested, IsSeq
<1>2. ranges \in Seq(S \cup {f}) /\ f \in S \cup {f} /\ n \in Nat
  BY <1>1, SeqMonotonic, LenProperties
<1>3. all \in Seq(S \cup {f}) /\ Len(all) = n + 1 /\ all[n + 1] = f /\ \A i \in 1..n : all[i] = ranges[i]
  BY <1>2, AppendProperties, LenProperties
<1>4. \A i \in 1..n : IsFrame(ranges[i]) /\ ranges[i].end \in Nat /\ ranges[i].end <= length
  BY DEF Nested, IsFrame
<1>5. \A i, j \in 1..n : i < j => ranges[j].end <= ranges[i].end
  BY DEF Nested
<1>6. f.end \in Nat /\ length \in Nat /\ p \in Nat
  BY DEF IsFrame, Nested
<1>7. f.end <= length /\ \A i \in 1..n : f.end <= ranges[i].end
  <2>1. CASE ranges = <<>>
    <3>1. n = 0
      BY <2>1, EmptySeq
    <3> QED BY <2>1, <3>1
  <2>2. CASE ranges # <<>>
    <3>1. n \in 1..n
      BY <1>1, <1>2, <2>2, EmptySeq, LenProperties
    <3>2. ranges[n].end \in Nat /\ ranges[n].end <= length
      BY <1>4, <3>1
    <3>3. \A i \in 1..n : i < n \/ i = n
      BY <1>2
    <3>4. \A i \in 1..n : ranges[n].end <= ranges[i].end
      BY <1>4, <1>5, <3>1, <3>3
    <3> QED BY <1>4, <1>6, <2>2, <3>2, <3>4
  <2> QED BY <2>1, <2>2
<1> HIDE DEF all
<1>8. \A i \in 1..Len(all) : i \in 1..n \/ i = n + 1
  BY <1>2, <1>3
<1>9. \A i \in 1..Len(all) : IsFrame(all[i]) /\ q <= all[i].end /\ all[i].end <= length
  BY <1>3, <1>4, <1>6, <1>7, <1>8
<1>10. \A i, j \in 1..Len(all) : i < j => all[j].end <= all[i].end
  <2> SUFFICES ASSUME NEW i \in 1..Len(all), NEW j \in 1..Len(all), i < j PROVE all[j].end <= all[i].end
    OBVIOUS
  <2>1. i \in 1..n /\ (j \in 1..n \/ j = n + 1)
    BY <1>2, <1>3
  <2> QED BY <1>3, <1>5, <1>7, <2>1
<1>11. IsSeq(all) /\ q <= length
  BY <1>3, <1>6, <1>7 DEF IsSeq
<1> QED BY <1>6, <1>9, <1>10, <1>11 DEF Nested, all

\* The innermost range ends.
LEMMA EndedRange ==
    ASSUME NEW ranges, NEW p, NEW length, Nested(ranges, p, length), ranges # <<>>
    PROVE  Nested(SubSeq(ranges, 1, Len(ranges) - 1), p, length)
<1> DEFINE outer == SubSeq(ranges, 1, Len(ranges) - 1)
           n == Len(ranges)
<1>1. PICK S : ranges \in Seq(S)
  BY DEF Nested, IsSeq
<1>2. n \in Nat \ {0}
  BY <1>1, LenProperties, EmptySeq
<1>3. outer \in Seq(S) /\ Len(outer) = n - 1 /\ \A i \in 1..(n - 1) : outer[i] = ranges[i]
  <2>1. \A i \in 1..(n - 1) : ranges[i] \in S
    BY <1>1, <1>2, ElementOfSeq
  <2>2. 1 \in Int /\ n - 1 \in Int
    BY <1>2
  <2>3. outer \in Seq(S)
    BY <2>1, <2>2, SubSeqProperties
  <2>4. Len(outer) = IF 1 <= n - 1 THEN (n - 1) - 1 + 1 ELSE 0
    BY <2>1, <2>2, SubSeqProperties
  <2>5. \A i \in 1..((n - 1) - 1 + 1) : outer[i] = ranges[1 + i - 1]
    BY <2>1, <2>2, SubSeqProperties
  <2> HIDE DEF outer, n
  <2>6. (n - 1) - 1 + 1 = n - 1 /\ \A i \in 1..(n - 1) : 1 + i - 1 = i
    BY <1>2
  <2>7. Len(outer) = n - 1
    BY <1>2, <2>4
  <2>8. \A i \in 1..(n - 1) : outer[i] = ranges[i]
    BY <2>5, <2>6
  <2> QED BY <2>3, <2>7, <2>8
<1> HIDE DEF outer
<1>4. \A i \in 1..Len(outer) : i \in 1..n /\ outer[i] = ranges[i]
  BY <1>2, <1>3
<1>5. IsSeq(outer)
  BY <1>3 DEF IsSeq
<1> QED BY <1>4, <1>5 DEF Nested, outer

\* A subtree is added to the node around it.
LEMMA ChildAdded ==
    ASSUME NEW ranges, NEW p, NEW length, Nested(ranges, p, length), ranges # <<>>,
           NEW f, IsFrame(f), f.end = ranges[Len(ranges)].end
    PROVE  Nested([ranges EXCEPT ![Len(ranges)] = f], p, length)
<1> DEFINE all == [ranges EXCEPT ![Len(ranges)] = f]
           n == Len(ranges)
<1>1. PICK S : ranges \in Seq(S)
  BY DEF Nested, IsSeq
<1>2. ranges \in Seq(S \cup {f}) /\ f \in S \cup {f} /\ n \in Nat \ {0}
  BY <1>1, SeqMonotonic, LenProperties, EmptySeq
<1>3. all \in Seq(S \cup {f}) /\ Len(all) = n /\ all[n] = f /\ \A i \in 1..n : i # n => all[i] = ranges[i]
  BY <1>2, ExceptSeq, LenProperties
<1> HIDE DEF all
<1>4. \A i \in 1..n : IsFrame(ranges[i])
  BY DEF Nested
<1>5. \A i \in 1..n : IsFrame(all[i]) /\ all[i].end = ranges[i].end
  BY <1>3, <1>4
<1>6. IsSeq(all)
  BY <1>3 DEF IsSeq
<1> QED BY <1>3, <1>5, <1>6 DEF Nested, all

-----------------------------------------------------------------------------
(* Steps *)

\* What the next record announces is a number.
LEMMA RecordTyped ==
    ASSUME serial \in Serials
    PROVE  Record.size \in Nat /\ Record.childrenSize \in Nat
<1>1. CASE RecordsAt(serial, pos) = {}
  BY <1>1 DEF Record, NoRecord
<1>2. CASE RecordsAt(serial, pos) # {}
  <2> DEFINE at == CHOOSE i \in RecordsAt(serial, pos) : TRUE
  <2>1. at \in RecordsAt(serial, pos) /\ Record = serial.records[at]
    BY <1>2 DEF Record
  <2>2. at \in DOMAIN serial.records
    BY <2>1 DEF RecordsAt
  <2>3. serial.records \in Seq(SerialRecords)
    BY SerialsAssumption
  <2>4. serial.records[at] \in SerialRecords
    BY <2>2, <2>3, LenProperties, ElementOfSeq
  <2> QED BY <2>1, <2>4 DEF SerialRecords
<1> QED BY <1>1, <1>2

LEMMA UnserializeReads ==
    ASSUME ReaderInv, NEW s \in Serials, NEW l \in LimitChoices, Unserialize(s, l)
    PROVE  ReaderInv'
<1>1. reading' = <<>> /\ pos' = s.offset /\ serial' = s /\ read' \in {"busy", "failed"}
  BY DEF ReaderInv, Unserialize
<1>2. read' = "busy" => s.offset <= s.length
  BY DEF Unserialize
<1>3. s.offset \in Nat /\ s.length \in Nat
  BY SerialsAssumption
<1>4. read' = "busy" => Nested(reading', pos', serial'.length)
  BY <1>1, <1>2, <1>3, NoRanges
<1> QED BY <1>1, <1>4 DEF ReaderInv, Nested, IsSeq, IsFrame

LEMMA ReadNodeReads ==
    ASSUME ReaderInv, ReadNode
    PROVE  ReaderInv'
<1>1. read = "busy" /\ serial \in Serials /\ Nested(reading, pos, serial.length)
  BY DEF ReadNode, ReaderInv
<1>2. CASE FailRead
  BY <1>2 DEF FailRead, ReaderInv
<1>3. CASE /\ Readable(Record) /\ pos' = pos + HeaderSize + Record.size
           /\ reading' = Append(reading, [node |-> NodeOf(Record), count |-> Record.count, end |-> pos' + Record.childrenSize])
           /\ UNCHANGED <<serial, read>>
  <2> DEFINE f == [node |-> NodeOf(Record), count |-> Record.count, end |-> pos' + Record.childrenSize]
  <2>1. Record.size \in Nat /\ Record.childrenSize \in Nat /\ pos \in Nat /\ serial.length \in Nat
    BY <1>1, RecordTyped DEF Nested
  <2>2. Limit = (IF reading = <<>> THEN serial.length ELSE reading[Len(reading)].end) /\ Limit \in Nat
    <3>1. CASE reading = <<>>
      BY <2>1, <3>1 DEF Limit
    <3>2. CASE reading # <<>>
      <4>1. Len(reading) \in 1..Len(reading)
        <5>1. PICK S : reading \in Seq(S)
          BY <1>1 DEF Nested, IsSeq
        <5>2. Len(reading) \in Nat \ {0}
          BY <3>2, <5>1, LenProperties, EmptySeq
        <5> QED BY <5>2
      <4>2. reading[Len(reading)].end \in Nat
        BY <1>1, <4>1 DEF Nested, IsFrame
      <4> QED BY <3>2, <4>2 DEF Limit, Innermost
    <3> QED BY <3>1, <3>2
  <2>3. Record.childrenSize <= Limit - (pos + HeaderSize + Record.size)
    BY <1>3 DEF Readable, ChildrenFit
  <2>4. pos' \in Nat /\ pos <= pos' /\ f.end \in Nat /\ pos' <= f.end /\ f.end <= Limit
    BY <1>3, <2>1, <2>2, <2>3, SMTT(30) DEF HeaderSize
  <2>5. IsFrame(f)
    BY <2>4 DEF IsFrame
  <2> HIDE DEF f
  <2>6. Nested(Append(reading, f), pos', serial.length)
    BY <1>1, <2>2, <2>4, <2>5, NewRange
  <2>7. Nested(reading', pos', serial'.length)
    BY <1>3, <2>6 DEF f
  <2> QED BY <1>1, <1>3, <2>7 DEF ReaderInv, Nested, IsSeq, IsFrame
<1> QED BY <1>2, <1>3 DEF ReadNode

\* The range of a node does not depend on what was read of it.
LEMMA SameRange ==
    ASSUME NEW f, IsFrame(f), NEW node
    PROVE  IsFrame([f EXCEPT !.node = node]) /\ [f EXCEPT !.node = node].end = f.end
<1>1. [f EXCEPT !.node = node] = [node |-> node, count |-> f.count, end |-> f.end]
  BY DEF IsFrame
<1> QED BY <1>1 DEF IsFrame

LEMMA FinishReadReads ==
    ASSUME ReaderInv, FinishRead
    PROVE  ReaderInv'
<1> DEFINE outer == SubSeq(reading, 1, Len(reading) - 1)
<1>1. read = "busy" /\ serial \in Serials /\ reading # <<>> /\ Nested(reading, pos, serial.length)
  BY DEF FinishRead, AllChildrenRead, ReaderInv
<1>2. Nested(outer, pos, serial.length)
  BY <1>1, EndedRange
<1>3. CASE read' \in {"done", "failed"}
  BY <1>3 DEF ReaderInv
<1>4. CASE /\ outer # <<>> /\ UNCHANGED <<serial, pos, read>>
           /\ reading' = [outer EXCEPT ![Len(outer)].node.children = Append(@, Innermost.node)]
  <2> DEFINE f == [outer[Len(outer)] EXCEPT !.node.children = Append(@, Innermost.node)]
  <2>1. reading' = [outer EXCEPT ![Len(outer)] = f]
    BY <1>4
  <2>2. IsFrame(outer[Len(outer)])
    <3>1. PICK S : outer \in Seq(S)
      BY <1>2 DEF Nested, IsSeq
    <3>2. Len(outer) \in Nat \ {0}
      BY <1>4, <3>1, LenProperties, EmptySeq
    <3>3. Len(outer) \in 1..Len(outer)
      BY <3>2
    <3> QED BY <1>2, <3>3 DEF Nested
  <2>3. IsFrame(f) /\ f.end = outer[Len(outer)].end
    <3>1. f = [outer[Len(outer)] EXCEPT !.node = [outer[Len(outer)].node EXCEPT !.children = Append(@, Innermost.node)]]
      BY <2>2 DEF IsFrame
    <3> HIDE DEF f, outer
    <3> QED BY <2>2, <3>1, SameRange
  <2> HIDE DEF f, outer
  <2>4. Nested([outer EXCEPT ![Len(outer)] = f], pos, serial.length)
    BY <1>2, <1>4, <2>3, ChildAdded
  <2>5. Nested(reading', pos', serial'.length)
    BY <1>4, <2>1, <2>4
  <2> QED BY <1>1, <1>4, <2>5 DEF ReaderInv, Nested, IsSeq, IsFrame
<1> QED BY <1>3, <1>4 DEF FinishRead, FailRead

LEMMA StepReads == ReaderInv /\ [ReaderNext]_vars => ReaderInv'
<1> SUFFICES ASSUME ReaderInv, [ReaderNext]_vars PROVE ReaderInv'
  OBVIOUS
<1>1. CASE UNCHANGED vars
  BY <1>1 DEF vars, reader, ReaderInv, Nested, IsSeq, IsFrame
<1> QED BY <1>1, UnserializeReads, ReadNodeReads, FinishReadReads DEF ReaderNext

LEMMA AlwaysReads == ReaderSpec => []ReaderInv
<1>1. ReaderInit => ReaderInv
  BY DEF ReaderInit, ReaderInv
<1> QED BY <1>1, StepReads, PTL DEF ReaderSpec

LEMMA ReadsInRanges == ReaderInv => RangesNested
<1> SUFFICES ASSUME ReaderInv, read = "busy" PROVE RangesNested
  BY DEF RangesNested
<1>1. PICK S : reading \in Seq(S)
  BY DEF ReaderInv, Nested, IsSeq
<1>2. DOMAIN reading = 1..Len(reading)
  BY <1>1, LenProperties
<1> QED BY <1>2 DEF ReaderInv, Nested, RangesNested

-----------------------------------------------------------------------------
(* Where records begin *)

LEMMA Least ==
    ASSUME NEW S \in SUBSET Nat, S # {}
    PROVE  \E x \in S : \A y \in S : x <= y
<1> DEFINE R == {ss \in Nat \X Nat : ss[1] < ss[2]}
<1>1. IsWellFoundedOn(R, Nat)
  BY NatLessThanWellFounded DEF OpToRel
<1>2. PICK x \in S : \A y \in S : ~ (<<y, x>> \in R)
  <2> HIDE DEF R
  <2> QED BY <1>1, WFMin, Zenon
<1>3. \A y \in S : ~ (y < x)
  BY <1>2
<1> QED BY <1>3

LEMMA RecordsTyped ==
    ASSUME NEW s \in Serials
    PROVE  /\ s.offset \in Nat /\ s.length \in Nat /\ Len(s.records) \in Nat
           /\ DOMAIN s.records = 1..Len(s.records)
           /\ \A i \in 1..Len(s.records) :
                 s.records[i] \in SerialRecords /\ RecordSize(s.records[i]) \in Nat /\ RecordSize(s.records[i]) >= HeaderSize
<1>1. s.offset \in Nat /\ s.length \in Nat /\ s.records \in Seq(SerialRecords)
  BY SerialsAssumption
<1>2. Len(s.records) \in Nat /\ DOMAIN s.records = 1..Len(s.records)
  BY <1>1, LenProperties
<1>3. ASSUME NEW r \in SerialRecords PROVE RecordSize(r) \in Nat /\ RecordSize(r) >= HeaderSize
  <2>1. CASE r.data = Null
    BY <2>1 DEF RecordSize, HeaderSize
  <2>2. CASE r.data # Null
    <3>1. r.data \in Seq(STRING)
      BY <2>2 DEF SerialRecords
    <3>2. Len(r.data) \in Nat
      BY <3>1, LenProperties
    <3> QED BY <2>2, <3>2 DEF RecordSize, HeaderSize
  <2> QED BY <2>1, <2>2
<1>4. \A i \in 1..Len(s.records) : s.records[i] \in SerialRecords
  BY <1>1, ElementOfSeq
<1> QED BY <1>1, <1>2, <1>3, <1>4

\* The beginnings that Starts defines are those of the records one after the other.
LEMMA StartsMean ==
    ASSUME NEW s \in Serials
    PROVE  /\ Starts(s) \in [1..(Len(s.records) + 1) -> Nat]
           /\ Starts(s)[1] = s.offset
           /\ \A i \in 1..Len(s.records) : Starts(s)[i + 1] = Starts(s)[i] + RecordSize(s.records[i])
<1> DEFINE n == Len(s.records)
           size(i) == RecordSize(s.records[i])
           step(f, i) == IF i = 1 THEN s.offset ELSE f[i - 1] + size(i - 1)
           Solves(f, p) == f \in [1..p -> Nat] /\ \A i \in 1..p : f[i] = step(f, i)
           Unsolved == {p \in 0..(n + 1) : ~\E f \in [1..p -> Nat] : Solves(f, p)}
<1>1. n \in Nat /\ s.offset \in Nat /\ \A i \in 1..n : size(i) \in Nat
  BY RecordsTyped
<1>2. Unsolved = {}
  <2> SUFFICES ASSUME Unsolved # {} PROVE FALSE
    OBVIOUS
  <2>1. Unsolved \in SUBSET Nat
    BY <1>1
  <2>2. PICK p \in Unsolved : \A q \in Unsolved : p <= q
    <3> HIDE DEF Unsolved
    <3> QED BY <2>1, Least
  <2>3. p \in 0..(n + 1) /\ p # 0
    <3>1. Solves([i \in 1..0 |-> 0], 0)
      OBVIOUS
    <3> QED BY <2>2, <3>1
  <2>4. p - 1 \in 0..(n + 1) /\ p - 1 \notin Unsolved
    <3>1. p - 1 \in 0..(n + 1) /\ ~(p <= p - 1)
      BY <1>1, <2>3
    <3> HIDE DEF Unsolved
    <3> QED BY <2>2, <3>1
  <2>5. PICK f \in [1..(p - 1) -> Nat] : Solves(f, p - 1)
    BY <2>4
  <2> DEFINE g == [i \in 1..p |-> IF i = p THEN step(f, i) ELSE f[i]]
  <2>6. step(f, p) \in Nat
    <3>1. p = 1 \/ p - 1 \in 1..n
      BY <1>1, <2>3
    <3>2. p # 1 => f[p - 1] \in Nat /\ size(p - 1) \in Nat
      BY <1>1, <2>3, <3>1
    <3> HIDE DEF size
    <3> QED BY <1>1, <3>2
  <2>7. \A i \in 1..p : g[i] \in Nat /\ g[i] = step(f, i)
    <3> SUFFICES ASSUME NEW i \in 1..p PROVE g[i] \in Nat /\ g[i] = step(f, i)
      OBVIOUS
    <3>1. CASE i = p
      BY <2>6, <3>1
    <3>2. CASE i # p
      <4>1. i \in 1..(p - 1)
        BY <2>3, <3>2
      <4> QED BY <2>5, <3>2, <4>1
    <3> QED BY <3>1, <3>2
  <2>8. \A i \in 1..p : step(g, i) = step(f, i)
    <3> SUFFICES ASSUME NEW i \in 1..p, i # 1 PROVE g[i - 1] = f[i - 1]
      OBVIOUS
    <3>1. i - 1 \in 1..p /\ i - 1 # p
      BY <2>3
    <3> QED BY <3>1
  <2>9. g \in [1..p -> Nat]
    BY <2>7
  <2> HIDE DEF g, step
  <2>10. Solves(g, p)
    BY <2>7, <2>8, <2>9
  <2>11. ~\E h \in [1..p -> Nat] : Solves(h, p)
    BY <2>2
  <2> HIDE DEF Solves
  <2> QED BY <2>9, <2>10, <2>11
<1>3. n + 1 \in 0..(n + 1) /\ n + 1 \notin Unsolved
  <2> HIDE DEF Unsolved
  <2> QED BY <1>1, <1>2
<1>4. PICK f \in [1..(n + 1) -> Nat] : Solves(f, n + 1)
  BY <1>3
<1>5. f = [i \in 1..(n + 1) |-> step(f, i)]
  BY <1>4
<1>6. Starts(s) = CHOOSE g : g = [i \in 1..(n + 1) |-> step(g, i)]
  BY DEF Starts
<1>7. Starts(s) = [i \in 1..(n + 1) |-> step(Starts(s), i)]
  BY <1>5, <1>6
<1>8. PICK b : b = Starts(s)
  OBVIOUS
<1>9. b = [i \in 1..(n + 1) |-> step(b, i)]
  BY <1>7, <1>8
<1>10. \A i \in 1..(n + 1) : b[i] = step(b, i)
  BY <1>9
<1>11. DOMAIN b = 1..(n + 1) /\ b[1] = s.offset
  BY <1>1, <1>9, <1>10
<1>12. \A i \in 1..n : b[i + 1] = b[i] + size(i)
  <2> SUFFICES ASSUME NEW i \in 1..n PROVE b[i + 1] = b[i] + size(i)
    OBVIOUS
  <2>1. i + 1 \in 1..(n + 1) /\ i + 1 # 1 /\ (i + 1) - 1 = i
    BY <1>1
  <2> HIDE DEF size
  <2> QED BY <1>10, <2>1
<1>13. b \in [1..(n + 1) -> Nat]
  <2> DEFINE Bad == {i \in 1..(n + 1) : b[i] \notin Nat}
  <2> SUFFICES ASSUME Bad # {} PROVE FALSE
    BY <1>9
  <2>1. Bad \in SUBSET Nat
    BY <1>1
  <2>2. PICK i \in Bad : \A j \in Bad : i <= j
    <3> HIDE DEF Bad
    <3> QED BY <2>1, Least
  <2>3. i \in 2..(n + 1)
    BY <1>1, <1>11
  <2>4. i - 1 \in 1..n /\ (i - 1) + 1 = i /\ ~(i <= i - 1)
    BY <1>1, <2>3
  <2>5. b[i - 1] \in Nat
    BY <1>1, <2>2, <2>4
  <2> HIDE DEF size
  <2>6. b[i] = b[i - 1] + size(i - 1) /\ size(i - 1) \in Nat
    BY <1>1, <1>12, <2>4
  <2> QED BY <2>5, <2>6
<1> QED BY <1>8, <1>11, <1>12, <1>13

\* They are apart by at least a header for every record between them.
LEMMA StartsGrow ==
    ASSUME NEW s \in Serials, NEW a \in 1..(Len(s.records) + 1), NEW b \in 1..(Len(s.records) + 1), a <= b
    PROVE  Starts(s)[a] + HeaderSize * (b - a) <= Starts(s)[b]
<1> DEFINE n == Len(s.records)
           Bad == {c \in a..b : ~(Starts(s)[a] + HeaderSize * (c - a) <= Starts(s)[c])}
<1>1. n \in Nat /\ HeaderSize = 14
  BY RecordsTyped DEF HeaderSize
<1>2. /\ Starts(s) \in [1..(n + 1) -> Nat]
      /\ \A i \in 1..n : Starts(s)[i + 1] = Starts(s)[i] + RecordSize(s.records[i])
      /\ \A i \in 1..n : RecordSize(s.records[i]) \in Nat /\ RecordSize(s.records[i]) >= HeaderSize
  BY StartsMean, RecordsTyped
<1>3. \A c \in a..b : c \in 1..(n + 1) /\ Starts(s)[c] \in Nat
  BY <1>1, <1>2
<1> SUFFICES ASSUME Bad # {} PROVE FALSE
  BY <1>1
<1>4. Bad \in SUBSET Nat
  BY <1>1
<1>5. PICK c \in Bad : \A d \in Bad : c <= d
  <2> HIDE DEF Bad
  <2> QED BY <1>4, Least
<1>6. c \in a..b /\ ~(Starts(s)[a] + HeaderSize * (c - a) <= Starts(s)[c])
  OBVIOUS
<1>7. c # a
  BY <1>1, <1>3, <1>6
<1>8. c - 1 \in a..b /\ c - 1 \in 1..n /\ (c - 1) + 1 = c /\ ~(c <= c - 1)
  BY <1>1, <1>6, <1>7
<1>9. Starts(s)[a] + HeaderSize * ((c - 1) - a) <= Starts(s)[c - 1]
  BY <1>5, <1>8
<1>10. PICK x \in Nat, y \in Nat, z \in Nat, w \in Nat :
          x = Starts(s)[a] /\ y = Starts(s)[c - 1] /\ z = Starts(s)[c] /\ w = RecordSize(s.records[c - 1])
  <2>1. a \in a..b
    OBVIOUS
  <2> QED BY <1>2, <1>3, <1>6, <1>8, <2>1
<1>11. z = y + w /\ w >= 14
  BY <1>1, <1>2, <1>8, <1>10
<1>12. x + 14 * ((c - 1) - a) <= y /\ ~(x + 14 * (c - a) <= z)
  BY <1>1, <1>6, <1>9, <1>10
<1> QED BY <1>11, <1>12

\* So no two are the same, and which record comes first says which begins first.
LEMMA StartsApart ==
    ASSUME NEW s \in Serials, NEW a \in 1..(Len(s.records) + 1), NEW b \in 1..(Len(s.records) + 1)
    PROVE  /\ Starts(s)[a] \in Nat /\ Starts(s)[b] \in Nat
           /\ a < b <=> Starts(s)[a] < Starts(s)[b]
           /\ a = b <=> Starts(s)[a] = Starts(s)[b]
           /\ a <= b <=> Starts(s)[a] <= Starts(s)[b]
<1>1. Starts(s)[a] \in Nat /\ Starts(s)[b] \in Nat /\ Len(s.records) \in Nat
  BY StartsMean, RecordsTyped
<1>2. a < b => Starts(s)[a] < Starts(s)[b]
  <2> SUFFICES ASSUME a < b PROVE Starts(s)[a] < Starts(s)[b]
    OBVIOUS
  <2>1. Starts(s)[a] + 14 * (b - a) <= Starts(s)[b]
    BY <1>1, StartsGrow DEF HeaderSize
  <2>2. 14 * (b - a) >= 14
    BY <1>1
  <2> QED BY <1>1, <2>1, <2>2
<1>3. b < a => Starts(s)[b] < Starts(s)[a]
  <2> SUFFICES ASSUME b < a PROVE Starts(s)[b] < Starts(s)[a]
    OBVIOUS
  <2>1. Starts(s)[b] + 14 * (a - b) <= Starts(s)[a]
    BY <1>1, StartsGrow DEF HeaderSize
  <2>2. 14 * (a - b) >= 14
    BY <1>1
  <2> QED BY <1>1, <2>1, <2>2
<1>4. a < b \/ a = b \/ b < a
  BY <1>1
<1> QED BY <1>1, <1>2, <1>3, <1>4

-----------------------------------------------------------------------------
(* The walk, told by the records *)

\* A record whose children are being read, and the records of those that were.
Opened(s) == [at : 1..Len(s.records), kids : Seq(1..Len(s.records))]
\* The record that follows what was read of the children of the k-th one, after m records.
NextRecord(open, m, k) == IF k < Len(open) THEN open[k + 1].at ELSE m + 1

KidsOf(o) == {o.kids[c] : c \in 1..Len(o.kids)}
ChildrenUpTo(s, m, o) == {j \in 1..m : IsChild(s, j, o.at)}
\* The children read of a record are the first of those it has; each begins where the one
\* before it ends.
Family(s, m, o, next) ==
    /\ {j \in 1..m : IsChild(s, j, o.at)} = {o.kids[c] : c \in 1..Len(o.kids)} \cup ({next} \cap 1..m)
    /\ \A c \in 1..Len(o.kids) : o.kids[c] < next /\ \A d \in 1..Len(o.kids) : c < d => o.kids[c] < o.kids[d]
    /\ \A c \in 1..Len(o.kids) :
          Starts(s)[IF c = Len(o.kids) THEN next ELSE o.kids[c + 1]] = End(s, o.kids[c])

\* What is known of a record whose header was read, and of one whose children were.
ReadRecord(s, l, i) ==
    LET r == s.records[i] IN
    /\ Exact(r) /\ ShapeFits(r.type, r.flags, r.data # Null, r.count)
    /\ \A k \in Around(s, i) : End(s, i) <= End(s, k)
    /\ Cardinality(Around(s, i)) < l.nesting /\ PartsAt(s, i) <= l.partsPerNode
    /\ i > 1 => \E k \in 1..(i - 1) : IsChild(s, i, k)
IndentsRight(s, i) ==
    "PartialIndent" \in s.records[i].flags => IsPartialIndentation(s.records[i]) /\ IndentsPartial(s, i)
ClosedRecord(s, p, i) ==
    /\ End(s, i) <= p /\ \E j \in 1..(Len(s.records) + 1) : Starts(s)[j] = End(s, i)
    /\ s.records[i].count = Cardinality(ChildrenOf(s, i))
    /\ \A j \in ChildrenOf(s, i) : IndentsRight(s, j)

Walked(s, l, m, open) ==
    /\ m \in 0..Len(s.records) /\ open \in Seq(Opened(s))
    /\ \A a \in 1..Len(open) : open[a].at <= m /\ \A b \in 1..Len(open) : a < b => open[a].at < open[b].at
    /\ m > 0 => open # <<>> /\ open[1].at = 1
    /\ \A k \in 1..Len(open) : Family(s, m, open[k], NextRecord(open, m, k))
    /\ \A i \in 1..m : ReadRecord(s, l, i)
    /\ \A i \in 1..m : (\A k \in 1..Len(open) : open[k].at # i) => ClosedRecord(s, Starts(s)[m + 1], i)

LEMMA OpenTyped ==
    ASSUME NEW s, NEW l, NEW m, NEW open, s \in Serials, Walked(s, l, m, open)
    PROVE  /\ Len(s.records) \in Nat /\ Len(open) \in Nat /\ m \in 0..Len(s.records)
           /\ (open = <<>> <=> Len(open) = 0)
           /\ \A k \in 1..Len(open) :
                 /\ open[k] \in Opened(s) /\ open[k].at \in 1..Len(s.records) /\ open[k].at <= m
                 /\ open[k].kids \in Seq(1..Len(s.records)) /\ Len(open[k].kids) \in Nat
                 /\ \A c \in 1..Len(open[k].kids) : open[k].kids[c] \in 1..Len(s.records)
<1>1. Len(s.records) \in Nat /\ open \in Seq(Opened(s)) /\ m \in 0..Len(s.records)
  BY RecordsTyped DEF Walked
<1>2. Len(open) \in Nat /\ (open = <<>> <=> Len(open) = 0)
  BY <1>1, LenProperties, EmptySeq
<1>3. \A k \in 1..Len(open) : open[k] \in Opened(s)
  BY <1>1, ElementOfSeq
<1>4. \A o \in Opened(s) : o.at \in 1..Len(s.records) /\ o.kids \in Seq(1..Len(s.records))
  BY DEF Opened
<1>5. \A q \in Seq(1..Len(s.records)) : Len(q) \in Nat /\ \A c \in 1..Len(q) : q[c] \in 1..Len(s.records)
  BY LenProperties, ElementOfSeq
<1>6. \A k \in 1..Len(open) : open[k].at <= m
  BY DEF Walked
<1> QED BY <1>1, <1>2, <1>3, <1>4, <1>5, <1>6

LEMMA EndsTyped ==
    ASSUME NEW s \in Serials, NEW i \in 1..Len(s.records)
    PROVE  /\ End(s, i) \in Nat /\ Starts(s)[i + 1] <= End(s, i) /\ Starts(s)[i] + HeaderSize <= End(s, i)
           /\ End(s, i) = Starts(s)[i + 1] + s.records[i].childrenSize /\ s.records[i].childrenSize \in Nat
<1>1. s.records[i] \in SerialRecords
  BY RecordsTyped
<1>2. s.records[i].childrenSize \in Nat
  BY <1>1 DEF SerialRecords
<1>3. i \in 1..(Len(s.records) + 1) /\ i + 1 \in 1..(Len(s.records) + 1) /\ i <= i + 1
  BY RecordsTyped
<1>4. Starts(s)[i] \in Nat /\ Starts(s)[i + 1] \in Nat
  BY <1>3, StartsMean
<1>5. Starts(s)[i] + HeaderSize * ((i + 1) - i) <= Starts(s)[i + 1]
  BY <1>3, StartsGrow
<1>6. (i + 1) - i = 1 /\ HeaderSize = 14
  BY DEF HeaderSize
<1>7. Starts(s)[i] + 14 <= Starts(s)[i + 1]
  BY <1>4, <1>5, <1>6
<1>8. End(s, i) = Starts(s)[i + 1] + s.records[i].childrenSize
  BY DEF End
<1>9. PICK a \in Nat, b \in Nat, c \in Nat :
         a = Starts(s)[i] /\ b = Starts(s)[i + 1] /\ c = s.records[i].childrenSize
  BY <1>2, <1>4
<1>10. End(s, i) = b + c /\ a + 14 <= b
  BY <1>7, <1>8, <1>9
<1>11. b + c \in Nat /\ b <= b + c /\ a + 14 <= b + c
  BY <1>10
<1> QED BY <1>6, <1>8, <1>9, <1>10, <1>11

\* A record lies next in at most one other.
LEMMA OneParent ==
    ASSUME NEW s, NEW j \in Nat, NEW a, NEW b, IsChild(s, j, a), IsChild(s, j, b)
    PROVE  a = b
<1>1. a \in 1..(j - 1) /\ b \in 1..(j - 1) /\ a <= b /\ b <= a
  BY DEF IsChild, Around
<1> QED BY <1>1

\* The next record lies in the range of the innermost open one, and otherwise in those of
\* open ones only.
LEMMA NextIsChild ==
    ASSUME NEW s, NEW l, NEW m, NEW open, s \in Serials, Walked(s, l, m, open), m < Len(s.records)
    PROVE  /\ \A i \in Around(s, m + 1) : \E k \in 1..Len(open) : i = open[k].at
           /\ open # <<>> /\ Starts(s)[m + 1] < End(s, open[Len(open)].at) => IsChild(s, m + 1, open[Len(open)].at)
<1> DEFINE n == Len(s.records)
           L == Len(open)
<1>1. /\ n \in Nat /\ L \in Nat /\ m \in 0..n /\ (open = <<>> <=> L = 0)
      /\ \A k \in 1..L : open[k].at \in 1..n /\ open[k].at <= m
  BY OpenTyped
<1>2. \A i \in Around(s, m + 1) : i \in 1..m /\ Starts(s)[m + 1] < End(s, i)
  BY <1>1 DEF Around
<1>3. \A i \in 1..m : (\A k \in 1..L : open[k].at # i) => End(s, i) <= Starts(s)[m + 1]
  BY DEF Walked, ClosedRecord
<1>4. \A i \in 1..m : End(s, i) \in Nat
  BY <1>1, EndsTyped
<1>5. Starts(s)[m + 1] \in Nat
  <2>1. m + 1 \in 1..(n + 1)
    BY <1>1
  <2>2. Starts(s) \in [1..(n + 1) -> Nat]
    BY StartsMean
  <2> QED BY <2>1, <2>2
<1>6. \A i \in Around(s, m + 1) : \E k \in 1..L : i = open[k].at
  BY <1>2, <1>3, <1>4, <1>5
<1>7. ASSUME open # <<>>, Starts(s)[m + 1] < End(s, open[L].at)
      PROVE  IsChild(s, m + 1, open[L].at)
  <2>1. L \in 1..L /\ open[L].at \in 1..m
    BY <1>1, <1>7
  <2>2. open[L].at \in Around(s, m + 1)
    BY <1>1, <1>7, <2>1 DEF Around
  <2>3. \A k \in 1..L : open[k].at <= open[L].at
    <3>1. \A k \in 1..L : k < L => open[k].at < open[L].at
      BY <2>1 DEF Walked
    <3> QED BY <1>1, <2>1, <3>1
  <2>4. \A i \in Around(s, m + 1) : i <= open[L].at
    BY <1>6, <2>3
  <2> QED BY <2>2, <2>4 DEF IsChild
<1> QED BY <1>6, <1>7

LEMMA Ascending ==
    ASSUME NEW n \in Nat, NEW f \in [1..n -> Nat], \A a, b \in 1..n : a < b => f[a] < f[b]
    PROVE  Cardinality({f[i] : i \in 1..n}) = n /\ IsFiniteSet({f[i] : i \in 1..n})
<1> DEFINE S == {f[i] : i \in 1..n}
<1>1. \A a, b \in 1..n : f[a] = f[b] => a = b
  <2> SUFFICES ASSUME NEW a \in 1..n, NEW b \in 1..n, f[a] = f[b] PROVE a = b
    OBVIOUS
  <2>1. ~(a < b) /\ ~(b < a)
    BY f[a] \in Nat, f[b] \in Nat
  <2> QED BY <2>1
<1>2. f \in Bijection(1..n, S)
  BY <1>1 DEF Bijection, Injection, Surjection, IsInjective
<1>3. ExistsBijection(1..n, S)
  BY <1>2 DEF ExistsBijection
<1> HIDE DEF S
<1>4. Cardinality(S) = n
  BY <1>3, FS_CountingElements
<1>5. IsFiniteSet(S)
  BY <1>3, FS_NatBijection
<1> QED BY <1>4, <1>5 DEF S

\* A record in the ranges of all open ones is as deep as there are of them.
LEMMA NextDepth ==
    ASSUME NEW s, NEW l, NEW m, NEW open, s \in Serials, Walked(s, l, m, open), m < Len(s.records),
           \A k \in 1..Len(open) : Starts(s)[m + 1] < End(s, open[k].at)
    PROVE  Cardinality(Around(s, m + 1)) = Len(open)
<1> DEFINE L == Len(open)
           f == [k \in 1..L |-> open[k].at]
<1>1. L \in Nat /\ m \in Nat /\ \A k \in 1..L : open[k].at \in Nat /\ open[k].at \in 1..m
  BY OpenTyped
<1>2. \A a, b \in 1..L : a < b => open[a].at < open[b].at
  BY DEF Walked
<1>3. \A i \in Around(s, m + 1) : \E k \in 1..L : i = open[k].at
  BY NextIsChild
<1>4. \A k \in 1..L : open[k].at \in Around(s, m + 1)
  BY <1>1 DEF Around
<1>5. Around(s, m + 1) = {f[k] : k \in 1..L}
  BY <1>3, <1>4
<1>6. f \in [1..L -> Nat] /\ \A a, b \in 1..L : a < b => f[a] < f[b]
  BY <1>1, <1>2
<1> HIDE DEF f
<1> QED BY <1>1, <1>5, <1>6, Ascending

\* How much room the children of a record need.
LEMMA ChildrenBelow ==
    ASSUME NEW s \in Serials, NEW i \in 1..Len(s.records), NEW j \in 1..(Len(s.records) + 1), Starts(s)[j] = End(s, i)
    PROVE  /\ i + 1 <= j /\ \A c \in ChildrenOf(s, i) : c \in (i + 1)..(j - 1)
           /\ IsFiniteSet(ChildrenOf(s, i)) /\ Cardinality(ChildrenOf(s, i)) \in Nat
           /\ HeaderSize * Cardinality(ChildrenOf(s, i)) <= s.records[i].childrenSize
<1> DEFINE n == Len(s.records)
           C == ChildrenOf(s, i)
<1>1. n \in Nat /\ DOMAIN s.records = 1..n /\ HeaderSize = 14
  BY RecordsTyped DEF HeaderSize
<1>2. i + 1 \in 1..(n + 1)
  BY <1>1
<1>3. Starts(s)[i + 1] <= Starts(s)[j] /\ s.records[i].childrenSize \in Nat
      /\ Starts(s)[j] = Starts(s)[i + 1] + s.records[i].childrenSize
  BY EndsTyped
<1>4. i + 1 <= j
  BY <1>2, <1>3, StartsApart
<1>5. \A c \in C : c \in 1..n /\ i \in 1..(c - 1) /\ Starts(s)[c] < Starts(s)[j]
  BY <1>1 DEF ChildrenOf, IsChild, Around
<1>6. \A c \in C : c \in (i + 1)..(j - 1)
  <2> SUFFICES ASSUME NEW c \in C PROVE c \in (i + 1)..(j - 1)
    OBVIOUS
  <2>1. c \in 1..(n + 1) /\ c \in Nat /\ i < c
    BY <1>1, <1>5
  <2>2. c < j
    BY <1>5, <2>1, StartsApart
  <2> QED BY <2>1, <2>2
<1>7. IsFiniteSet((i + 1)..(j - 1)) /\ Cardinality((i + 1)..(j - 1)) = j - (i + 1)
  <2>1. i + 1 \in Int /\ j - 1 \in Int
    BY <1>1
  <2>2. IsFiniteSet((i + 1)..(j - 1)) /\ Cardinality((i + 1)..(j - 1)) = IF i + 1 > j - 1 THEN 0 ELSE (j - 1) - (i + 1) + 1
    BY <2>1, FS_Interval
  <2>3. (IF i + 1 > j - 1 THEN 0 ELSE (j - 1) - (i + 1) + 1) = j - (i + 1)
    BY <1>4, <2>1
  <2> QED BY <2>2, <2>3
<1> HIDE DEF C
<1>8. IsFiniteSet(C) /\ Cardinality(C) <= j - (i + 1) /\ Cardinality(C) \in Nat
  <2>1. C \in SUBSET ((i + 1)..(j - 1))
    BY <1>6
  <2>2. IsFiniteSet(C) /\ Cardinality(C) <= Cardinality((i + 1)..(j - 1))
    BY <1>7, <2>1, FS_Subset
  <2> QED BY <1>7, <2>2, FS_CardinalityType
<1>9. Starts(s)[i + 1] + 14 * (j - (i + 1)) <= Starts(s)[j]
  BY <1>1, <1>2, <1>4, StartsGrow
<1>10. PICK x \in Nat : x = Starts(s)[i + 1]
  BY <1>2, StartsApart
<1>11. PICK y \in Nat : y = s.records[i].childrenSize
  BY <1>3
<1>12. PICK z \in Nat : z = Cardinality(C)
  BY <1>8
<1>13. z <= j - (i + 1) /\ x + 14 * (j - (i + 1)) <= x + y
  BY <1>3, <1>8, <1>9, <1>10, <1>11, <1>12
<1>14. 14 * z <= y
  BY <1>2, <1>13
<1> QED BY <1>1, <1>4, <1>6, <1>8, <1>11, <1>12, <1>14 DEF C

\* The next record is opened.
LEMMA WalkEnters ==
    ASSUME NEW s, NEW l, NEW m, NEW open, s \in Serials, Walked(s, l, m, open), m < Len(s.records),
           open = <<>> => m = 0,
           Exact(s.records[m + 1]),
           ShapeFits(s.records[m + 1].type, s.records[m + 1].flags, s.records[m + 1].data # Null, s.records[m + 1].count),
           Len(open) < l.nesting, PartsAt(s, m + 1) <= l.partsPerNode,
           \A k \in 1..Len(open) : Starts(s)[m + 1] < End(s, open[k].at) /\ End(s, m + 1) <= End(s, open[k].at)
    PROVE  Walked(s, l, m + 1, Append(open, [at |-> m + 1, kids |-> <<>>]))
<1> DEFINE n == Len(s.records)
           L == Len(open)
           o == [at |-> m + 1, kids |-> <<>>]
           all == Append(open, o)
<1>1. /\ n \in Nat /\ L \in Nat /\ m \in 0..n /\ m + 1 \in 1..n /\ m + 1 \in 0..n /\ (open = <<>> <=> L = 0)
      /\ \A k \in 1..L : open[k].at \in 1..n /\ open[k].at <= m
  BY OpenTyped
<1>2. o \in Opened(s) /\ Len(o.kids) = 0 /\ o.at = m + 1
  BY <1>1, EmptySeq DEF Opened
<1>3. /\ all \in Seq(Opened(s)) /\ all # <<>> /\ Len(all) = L + 1 /\ all[L + 1] = o
      /\ \A k \in 1..L : all[k] = open[k]
  BY <1>2, AppendProperties DEF Walked
<1> HIDE DEF all, o
<1>4. \A k \in 1..(L + 1) : k \in 1..L \/ k = L + 1
  BY <1>1
<1>5. \A a \in 1..Len(all) : all[a].at <= m + 1 /\ \A b \in 1..Len(all) : a < b => all[a].at < all[b].at
  <2> SUFFICES ASSUME NEW a \in 1..(L + 1)
               PROVE  all[a].at <= m + 1 /\ \A b \in 1..(L + 1) : a < b => all[a].at < all[b].at
    BY <1>3
  <2>1. CASE a = L + 1
    BY <1>1, <1>2, <1>3, <2>1
  <2>2. CASE a \in 1..L
    <3>1. \A b \in 1..L : a < b => open[a].at < open[b].at
      BY <2>2 DEF Walked
    <3>2. all[a].at <= m /\ all[a].at \in Nat
      BY <1>1, <1>3, <2>2
    <3>3. all[a].at < all[L + 1].at /\ all[a].at <= m + 1
      BY <1>1, <1>2, <1>3, <3>2
    <3>4. \A b \in 1..L : a < b => all[a].at < all[b].at
      BY <1>3, <2>2, <3>1
    <3> QED BY <1>4, <3>3, <3>4
  <2> QED BY <1>4, <2>1, <2>2
<1>6. all[1].at = 1
  <2>1. CASE L = 0
    BY <1>1, <1>2, <1>3, <2>1
  <2>2. CASE L # 0
    <3>1. 1 \in 1..L /\ m > 0
      BY <1>1, <2>2
    <3>2. open[1].at = 1
      BY <3>1 DEF Walked
    <3> QED BY <1>3, <3>1, <3>2
  <2> QED BY <2>1, <2>2
<1>7. \A k \in 1..Len(all) : Family(s, m + 1, all[k], NextRecord(all, m + 1, k))
  <2> SUFFICES ASSUME NEW k \in 1..(L + 1) PROVE Family(s, m + 1, all[k], NextRecord(all, m + 1, k))
    BY <1>3
  <2>1. CASE k = L + 1
    <3>1. NextRecord(all, m + 1, k) = (m + 1) + 1
      BY <1>1, <1>3, <2>1 DEF NextRecord
    <3>2. {j \in 1..(m + 1) : IsChild(s, j, m + 1)} = {}
      BY <1>1 DEF IsChild, Around
    <3>3. {(m + 1) + 1} \cap 1..(m + 1) = {}
      BY <1>1
    <3>4. {o.kids[c] : c \in 1..Len(o.kids)} = {}
      BY <1>2
    <3>5. Family(s, m + 1, o, (m + 1) + 1)
      BY <1>2, <3>2, <3>3, <3>4 DEF Family
    <3> QED BY <1>3, <2>1, <3>1, <3>5
  <2>2. CASE k \in 1..L
    <3> DEFINE next == NextRecord(open, m, k)
    <3>1. NextRecord(all, m + 1, k) = next
      <4>1. CASE k < L
        <5>1. k + 1 \in 1..L /\ k < L + 1
          BY <1>1, <2>2, <4>1
        <5> QED BY <1>3, <4>1, <5>1 DEF NextRecord
      <4>2. CASE k = L
        BY <1>1, <1>2, <1>3, <4>2 DEF NextRecord
      <4> QED BY <1>1, <2>2, <4>1, <4>2
    <3>2. Family(s, m, open[k], next)
      BY <2>2 DEF Walked
    <3>3. IsChild(s, m + 1, open[L].at)
      <4>1. open # <<>> /\ L \in 1..L
        BY <1>1, <2>2
      <4> QED BY <4>1, NextIsChild
    <3>4. IsChild(s, m + 1, open[k].at) <=> k = L
      <4>1. k < L => open[k].at < open[L].at
        BY <1>1, <2>2 DEF Walked
      <4>2. k # L => open[k].at # open[L].at
        BY <1>1, <2>2, <4>1
      <4>3. m + 1 \in Nat
        BY <1>1
      <4> QED BY <3>3, <4>2, <4>3, OneParent
    <3>5. k = L <=> next = m + 1
      <4>1. k < L => next = open[k + 1].at /\ k + 1 \in 1..L
        BY <1>1, <2>2 DEF NextRecord
      <4>2. k < L => next \in 1..n /\ next <= m
        BY <1>1, <4>1
      <4>3. k = L => next = m + 1
        BY DEF NextRecord
      <4> HIDE DEF next
      <4> QED BY <1>1, <2>2, <4>2, <4>3
    <3> HIDE DEF next
    <3>6. 1..(m + 1) = 1..m \cup {m + 1}
      BY <1>1
    <3>7. {j \in 1..(m + 1) : IsChild(s, j, open[k].at)} = {j \in 1..m : IsChild(s, j, open[k].at)} \cup ({next} \cap {m + 1})
      BY <3>4, <3>5, <3>6
    <3>8. {next} \cap 1..(m + 1) = ({next} \cap 1..m) \cup ({next} \cap {m + 1})
      BY <3>6
    <3>9. {j \in 1..m : IsChild(s, j, open[k].at)} = {open[k].kids[c] : c \in 1..Len(open[k].kids)} \cup ({next} \cap 1..m)
      BY <3>2 DEF Family
    <3>10. {j \in 1..(m + 1) : IsChild(s, j, open[k].at)} =
               {open[k].kids[c] : c \in 1..Len(open[k].kids)} \cup ({next} \cap 1..(m + 1))
      BY <3>7, <3>8, <3>9, Zenon
    <3>11. Family(s, m + 1, open[k], next)
      BY <3>2, <3>10 DEF Family
    <3> QED BY <1>3, <2>2, <3>1, <3>11
  <2> QED BY <1>4, <2>1, <2>2
<1>8. \A i \in 1..(m + 1) : ReadRecord(s, l, i)
  <2>1. \A i \in 1..m : ReadRecord(s, l, i)
    BY DEF Walked
  <2>2. ReadRecord(s, l, m + 1)
    <3>1. Cardinality(Around(s, m + 1)) = L
      BY NextDepth
    <3>2. \A k \in Around(s, m + 1) : End(s, m + 1) <= End(s, k)
      BY NextIsChild
    <3>3. m + 1 > 1 => \E k \in 1..((m + 1) - 1) : IsChild(s, m + 1, k)
      <4> SUFFICES ASSUME m + 1 > 1 PROVE \E k \in 1..((m + 1) - 1) : IsChild(s, m + 1, k)
        OBVIOUS
      <4>1. m > 0
        BY <1>1
      <4>2. open # <<>> /\ L \in 1..L
        BY <1>1, <4>1
      <4>3. IsChild(s, m + 1, open[L].at)
        BY <4>2, NextIsChild
      <4>4. open[L].at \in 1..((m + 1) - 1)
        BY <1>1, <4>2
      <4> QED BY <4>3, <4>4
    <3> QED BY <3>1, <3>2, <3>3 DEF ReadRecord
  <2> QED BY <1>1, <2>1, <2>2
<1>9. \A i \in 1..(m + 1) : (\A k \in 1..Len(all) : all[k].at # i) => ClosedRecord(s, Starts(s)[(m + 1) + 1], i)
  <2> SUFFICES ASSUME NEW i \in 1..(m + 1), \A k \in 1..(L + 1) : all[k].at # i
               PROVE  ClosedRecord(s, Starts(s)[(m + 1) + 1], i)
    BY <1>3
  <2>1. i # m + 1
    BY <1>1, <1>2, <1>3
  <2>2. i \in 1..m /\ \A k \in 1..L : open[k].at # i
    BY <1>1, <1>3, <2>1
  <2>3. ClosedRecord(s, Starts(s)[m + 1], i)
    BY <2>2 DEF Walked
  <2>4. m + 1 \in 1..(n + 1) /\ (m + 1) + 1 \in 1..(n + 1) /\ m + 1 <= (m + 1) + 1
    BY <1>1
  <2>5. Starts(s)[m + 1] \in Nat /\ Starts(s)[(m + 1) + 1] \in Nat /\ Starts(s)[m + 1] <= Starts(s)[(m + 1) + 1]
    BY <2>4, StartsApart
  <2>6. End(s, i) \in Nat /\ End(s, i) <= Starts(s)[m + 1]
    BY <1>1, <2>2, <2>3, EndsTyped DEF ClosedRecord
  <2>7. End(s, i) <= Starts(s)[(m + 1) + 1]
    BY <2>5, <2>6
  <2> QED BY <2>3, <2>7 DEF ClosedRecord
<1>10. Walked(s, l, m + 1, all)
  BY <1>1, <1>3, <1>5, <1>6, <1>7, <1>8, <1>9 DEF Walked
<1> QED BY <1>10 DEF all, o

\* Of the innermost open record, the children that begin before the next one were read.
LEMMA KidsRead ==
    ASSUME NEW s, NEW l, NEW m, NEW open, s \in Serials, Walked(s, l, m, open), open # <<>>,
           NEW o, o = open[Len(open)]
    PROVE  /\ Family(s, m, o, m + 1)
           /\ ChildrenUpTo(s, m, o) = KidsOf(o)
           /\ IsFiniteSet(KidsOf(o))
           /\ Cardinality(KidsOf(o)) = Len(o.kids)
<1> DEFINE L == Len(open)
           f == [c \in 1..Len(o.kids) |-> o.kids[c]]
<1>1. L \in 1..L /\ m \in Nat /\ Len(o.kids) \in Nat /\ \A c \in 1..Len(o.kids) : o.kids[c] \in Nat
  BY OpenTyped
<1>2. NextRecord(open, m, L) = m + 1
  BY <1>1 DEF NextRecord
<1>3. Family(s, m, o, m + 1)
  BY <1>1, <1>2 DEF Walked
<1>4. {m + 1} \cap 1..m = {}
  BY <1>1
<1>5. ChildrenUpTo(s, m, o) = KidsOf(o)
  BY <1>3, <1>4 DEF Family, KidsOf, ChildrenUpTo
<1>6. f \in [1..Len(o.kids) -> Nat] /\ \A a, b \in 1..Len(o.kids) : a < b => f[a] < f[b]
  BY <1>1, <1>3 DEF Family
<1>7. {f[c] : c \in 1..Len(o.kids)} = KidsOf(o)
  BY DEF KidsOf
<1> HIDE DEF f
<1>8. IsFiniteSet({f[c] : c \in 1..Len(o.kids)}) /\ Cardinality({f[c] : c \in 1..Len(o.kids)}) = Len(o.kids)
  BY <1>1, <1>6, Ascending
<1> QED BY <1>3, <1>5, <1>7, <1>8

LEMMA KidsAreChildren ==
    ASSUME NEW s, NEW l, NEW m, NEW open, s \in Serials, Walked(s, l, m, open), open # <<>>,
           NEW o, o = open[Len(open)], End(s, o.at) = Starts(s)[m + 1]
    PROVE  ChildrenOf(s, o.at) = KidsOf(o)
<1>1. Len(s.records) \in Nat /\ m \in 0..Len(s.records) /\ DOMAIN s.records = 1..Len(s.records)
  BY OpenTyped, RecordsTyped
<1>2. ChildrenUpTo(s, m, o) = KidsOf(o)
  BY KidsRead
<1>3. ASSUME NEW j \in 1..Len(s.records), IsChild(s, j, o.at) PROVE j \in 1..m
  <2>1. Starts(s)[j] < Starts(s)[m + 1]
    BY <1>3 DEF IsChild, Around
  <2>2. j \in 1..(Len(s.records) + 1) /\ m + 1 \in 1..(Len(s.records) + 1)
    BY <1>1
  <2>3. j < m + 1
    BY <2>1, <2>2, StartsApart
  <2> QED BY <1>1, <2>3
<1>4. 1..m \subseteq 1..Len(s.records)
  BY <1>1
<1>5. ChildrenOf(s, o.at) = ChildrenUpTo(s, m, o)
  BY <1>1, <1>3, <1>4 DEF ChildrenOf, ChildrenUpTo
<1> QED BY <1>2, <1>5

\* What FinishRead looks at, of the innermost open record.
Complete(s, m, o) ==
    /\ End(s, o.at) = Starts(s)[m + 1] /\ s.records[o.at].count = Len(o.kids)
    /\ \A c \in 1..Len(o.kids) :
          "PartialIndent" \in s.records[o.kids[c]].flags =>
              /\ IsPartialIndentation(s.records[o.kids[c]])
              /\ c < Len(o.kids) /\ s.records[o.kids[c + 1]].type = "Partial"

\* The last of p + 1 open records was added to the children of the one around it.
Added(open, p, all) ==
    /\ Len(all) = p /\ \A k \in 1..(p - 1) : all[k] = open[k]
    /\ all[p] = [at |-> open[p].at, kids |-> Append(open[p].kids, open[p + 1].at)]

LEMMA Closes ==
    ASSUME NEW s, NEW l, NEW m, NEW open, s \in Serials, Walked(s, l, m, open), open # <<>>,
           NEW o, o = open[Len(open)], Complete(s, m, o)
    PROVE  ClosedRecord(s, Starts(s)[m + 1], o.at)
<1> DEFINE n == Len(s.records)
           kids == o.kids
<1>1. n \in Nat /\ m \in 0..n /\ DOMAIN s.records = 1..n
  BY OpenTyped, RecordsTyped
<1>2. o.at \in 1..n /\ Len(kids) \in Nat /\ \A c \in 1..Len(kids) : kids[c] \in 1..n
  <2>1. Len(open) \in 1..Len(open)
    BY OpenTyped
  <2> QED BY <2>1, OpenTyped
<1>3. ChildrenOf(s, o.at) = {kids[c] : c \in 1..Len(kids)}
  BY KidsAreChildren DEF Complete, KidsOf
<1>4. s.records[o.at].count = Cardinality(ChildrenOf(s, o.at))
  BY KidsAreChildren, KidsRead DEF Complete
<1>5. Family(s, m, o, m + 1)
  BY KidsRead
<1>6. \A j \in ChildrenOf(s, o.at) : IndentsRight(s, j)
  <2> SUFFICES ASSUME NEW c \in 1..Len(kids), "PartialIndent" \in s.records[kids[c]].flags
               PROVE  IsPartialIndentation(s.records[kids[c]]) /\ IndentsPartial(s, kids[c])
    BY <1>3 DEF IndentsRight
  <2>1. IsPartialIndentation(s.records[kids[c]]) /\ c < Len(kids) /\ s.records[kids[c + 1]].type = "Partial"
    BY DEF Complete
  <2>2. c + 1 \in 1..Len(kids) /\ c # Len(kids)
    BY <1>2, <2>1
  <2>3. Starts(s)[kids[c + 1]] = End(s, kids[c])
    BY <1>5, <2>2 DEF Family
  <2>4. IsChild(s, kids[c], o.at) /\ IsChild(s, kids[c + 1], o.at)
    BY <1>3, <2>2 DEF ChildrenOf
  <2>5. kids[c + 1] \in DOMAIN s.records /\ o.at \in DOMAIN s.records
    BY <1>1, <1>2, <2>2
  <2> HIDE DEF kids
  <2>6. IndentsPartial(s, kids[c])
    BY <2>1, <2>3, <2>4, <2>5 DEF IndentsPartial
  <2> QED BY <2>1, <2>6
<1>7. Starts(s)[m + 1] \in Nat /\ m + 1 \in 1..(n + 1)
  <2>1. m + 1 \in 1..(n + 1)
    BY <1>1
  <2> QED BY <2>1, StartsApart
<1>8. End(s, o.at) <= Starts(s)[m + 1] /\ \E j \in 1..(n + 1) : Starts(s)[j] = End(s, o.at)
  <2>1. End(s, o.at) = Starts(s)[m + 1]
    BY DEF Complete
  <2>2. End(s, o.at) <= Starts(s)[m + 1]
    BY <1>7, <2>1
  <2> QED BY <1>7, <2>1, <2>2
<1> QED BY <1>4, <1>6, <1>8 DEF ClosedRecord

\* The innermost open record is left: it becomes a child of the one around it.
LEMMA WalkLeaves ==
    ASSUME NEW s, NEW l, NEW m, NEW open, s \in Serials, Walked(s, l, m, open),
           NEW p \in Nat \ {0}, Len(open) = p + 1, Complete(s, m, open[p + 1])
    PROVE  \E all : Walked(s, l, m, all) /\ Added(open, p, all)
<1> DEFINE n == Len(s.records)
           i == open[p + 1].at
           kids == open[p].kids
           kids2 == Append(kids, i)
           o == [at |-> open[p].at, kids |-> kids2]
           all == [SubSeq(open, 1, p) EXCEPT ![p] = o]
<1>1. /\ n \in Nat /\ m \in 0..n /\ open # <<>> /\ open \in Seq(Opened(s)) /\ p + 1 \in 1..(p + 1) /\ p \in 1..(p + 1)
      /\ \A k \in 1..(p + 1) : /\ open[k] \in Opened(s) /\ open[k].at \in 1..n /\ open[k].at <= m
                               /\ open[k].kids \in Seq(1..n) /\ Len(open[k].kids) \in Nat
                               /\ \A c \in 1..Len(open[k].kids) : open[k].kids[c] \in 1..n
  <2>1. open \in Seq(Opened(s)) /\ p + 1 # 0 /\ p + 1 \in 1..(p + 1) /\ p \in 1..(p + 1)
    BY DEF Walked
  <2>2. /\ n \in Nat /\ m \in 0..n /\ open # <<>>
        /\ \A k \in 1..Len(open) : /\ open[k] \in Opened(s) /\ open[k].at \in 1..n /\ open[k].at <= m
                                    /\ open[k].kids \in Seq(1..n) /\ Len(open[k].kids) \in Nat
                                    /\ \A c \in 1..Len(open[k].kids) : open[k].kids[c] \in 1..n
    BY <2>1, OpenTyped
  <2> QED BY <2>1, <2>2
<1>2. /\ kids2 \in Seq(1..n) /\ Len(kids2) = Len(kids) + 1 /\ kids2[Len(kids) + 1] = i
      /\ \A c \in 1..Len(kids) : kids2[c] = kids[c]
  <2>1. kids \in Seq(1..n) /\ i \in 1..n
    BY <1>1
  <2> HIDE DEF kids, i
  <2> QED BY <2>1, AppendProperties
<1>3. /\ o \in Opened(s) /\ o.at = open[p].at /\ o.kids = kids2
  BY <1>1, <1>2 DEF Opened
<1> HIDE DEF o, kids2
<1>4. /\ all \in Seq(Opened(s)) /\ Len(all) = p /\ all[p] = o
      /\ \A k \in 1..(p - 1) : all[k] = open[k]
  <2>1. \A k \in 1..p : open[k] \in Opened(s)
    BY <1>1
  <2>2. 1 \in Int /\ p \in Int /\ p - 1 + 1 = p /\ 1 <= p /\ \A k \in 1..p : 1 + k - 1 = k
    OBVIOUS
  <2> DEFINE sub == SubSeq(open, 1, p)
  <2>3. sub \in Seq(Opened(s)) /\ Len(sub) = (IF 1 <= p THEN p - 1 + 1 ELSE 0) /\ \A k \in 1..(p - 1 + 1) : sub[k] = open[1 + k - 1]
    BY <2>1, <2>2, SubSeqProperties
  <2> HIDE DEF sub
  <2>4. Len(sub) = p /\ \A k \in 1..p : sub[k] = open[k]
    BY <2>2, <2>3
  <2>5. p \in 1..Len(sub)
    BY <2>2, <2>4
  <2>6. [sub EXCEPT ![p] = o] \in Seq(Opened(s)) /\ Len([sub EXCEPT ![p] = o]) = Len(sub)
        /\ \A j \in 1..Len(sub) : [sub EXCEPT ![p] = o][j] = IF j = p THEN o ELSE sub[j]
    BY <1>3, <2>3, <2>5, ExceptSeq
  <2>7. \A k \in 1..(p - 1) : k \in 1..p /\ k # p
    OBVIOUS
  <2> QED BY <2>4, <2>5, <2>6, <2>7 DEF sub
<1> HIDE DEF all
<1>5. \A k \in 1..p : k \in 1..(p + 1) /\ all[k].at = open[k].at
  <2> SUFFICES ASSUME NEW k \in 1..p PROVE k \in 1..(p + 1) /\ all[k].at = open[k].at
    OBVIOUS
  <2>1. k = p \/ k \in 1..(p - 1)
    OBVIOUS
  <2> QED BY <1>3, <1>4, <2>1
<1>6. all # <<>> /\ all[1].at = open[1].at
  <2>1. 1 \in 1..p
    OBVIOUS
  <2> QED BY <1>4, <1>5, <2>1, EmptySeq
<1>7. \A a, b \in 1..(p + 1) : a < b => open[a].at < open[b].at
  BY DEF Walked
<1>8. \A k \in 1..p : Family(s, m, all[k], NextRecord(all, m, k))
  <2> SUFFICES ASSUME NEW k \in 1..p PROVE Family(s, m, all[k], NextRecord(all, m, k))
    OBVIOUS
  <2>1. Family(s, m, open[k], NextRecord(open, m, k)) /\ NextRecord(open, m, k) = open[k + 1].at
    <3>1. k \in 1..(p + 1) /\ k < p + 1
      OBVIOUS
    <3> QED BY <3>1 DEF Walked, NextRecord
  <2>2. CASE k < p
    <3>1. k \in 1..(p - 1) /\ k + 1 \in 1..p
      BY <2>2
    <3>2. NextRecord(all, m, k) = open[k + 1].at
      BY <1>4, <1>5, <2>2, <3>1 DEF NextRecord
    <3> QED BY <1>4, <2>1, <3>1, <3>2
  <2>3. CASE k = p
    <3>1. NextRecord(all, m, k) = m + 1
      BY <1>4, <2>3 DEF NextRecord
    <3>2. Family(s, m, open[p], i)
      BY <2>1, <2>3
    <3>3. i \in 1..m /\ Len(kids) \in Nat
      BY <1>1
    <3>4. End(s, i) = Starts(s)[m + 1]
      BY DEF Complete
    <3> HIDE DEF kids, i
    <3>5. {kids2[c] : c \in 1..Len(kids2)} = {kids[c] : c \in 1..Len(kids)} \cup {i}
      <4>1. \A c : c \in 1..Len(kids2) <=> c \in 1..Len(kids) \/ c = Len(kids) + 1
        BY <1>2, <3>3
      <4> QED BY <1>2, <4>1
    <3>6. {i} \cap 1..m = {i} /\ {m + 1} \cap 1..m = {}
      BY <1>1, <3>3
    <3>7. {j \in 1..m : IsChild(s, j, open[p].at)} = {kids[c] : c \in 1..Len(kids)} \cup ({i} \cap 1..m)
      BY <3>2 DEF Family, kids
    <3>8. {j \in 1..m : IsChild(s, j, o.at)} = {o.kids[c] : c \in 1..Len(o.kids)} \cup ({m + 1} \cap 1..m)
      BY <1>3, <3>5, <3>6, <3>7
    <3>9. \A c \in 1..Len(kids) : kids[c] \in Nat /\ kids[c] < i /\ \A d \in 1..Len(kids) : c < d => kids[c] < kids[d]
      BY <1>1, <3>2 DEF Family, kids
    <3>10. \A c \in 1..Len(kids2) : kids2[c] < m + 1 /\ \A d \in 1..Len(kids2) : c < d => kids2[c] < kids2[d]
      <4> SUFFICES ASSUME NEW c \in 1..Len(kids2)
                   PROVE  kids2[c] < m + 1 /\ \A d \in 1..Len(kids2) : c < d => kids2[c] < kids2[d]
        OBVIOUS
      <4>1. CASE c = Len(kids) + 1
        <5>1. kids2[c] = i /\ i < m + 1
          BY <1>1, <1>2, <3>3, <4>1
        <5> QED BY <1>2, <3>3, <4>1, <5>1
      <4>2. CASE c \in 1..Len(kids)
        <5>1. kids2[c] = kids[c] /\ kids[c] < i /\ kids[c] < m + 1
          BY <1>1, <1>2, <3>3, <3>9, <4>2, SMTT(30)
        <5>2. \A d \in 1..Len(kids2) : (d \in 1..Len(kids) /\ kids2[d] = kids[d]) \/ kids2[d] = i
          BY <1>2, <3>3
        <5> QED BY <3>9, <4>2, <5>1, <5>2
      <4> QED BY <1>2, <3>3, <4>1, <4>2
    <3>11. \A c \in 1..Len(kids2) : Starts(s)[IF c = Len(kids2) THEN m + 1 ELSE kids2[c + 1]] = End(s, kids2[c])
      <4> SUFFICES ASSUME NEW c \in 1..Len(kids2)
                   PROVE  Starts(s)[IF c = Len(kids2) THEN m + 1 ELSE kids2[c + 1]] = End(s, kids2[c])
        OBVIOUS
      <4>1. CASE c = Len(kids) + 1
        BY <1>2, <3>4, <4>1
      <4>2. CASE c \in 1..Len(kids)
        <5>1. Starts(s)[IF c = Len(kids) THEN i ELSE kids[c + 1]] = End(s, kids[c])
          BY <3>2, <4>2 DEF Family, kids
        <5>2. c # Len(kids2) /\ kids2[c] = kids[c]
          BY <1>2, <3>3, <4>2
        <5>3. kids2[c + 1] = IF c = Len(kids) THEN i ELSE kids[c + 1]
          <6>1. c # Len(kids) => c + 1 \in 1..Len(kids)
            BY <3>3, <4>2
          <6> QED BY <1>2, <6>1
        <5> QED BY <5>1, <5>2, <5>3
      <4> QED BY <1>2, <3>3, <4>1, <4>2
    <3>12. Family(s, m, o, m + 1)
      BY <1>3, <3>8, <3>10, <3>11 DEF Family
    <3> QED BY <1>4, <2>3, <3>1, <3>12
  <2> QED BY <2>2, <2>3
<1>9. \A j \in 1..m : (\A k \in 1..p : all[k].at # j) => ClosedRecord(s, Starts(s)[m + 1], j)
  <2> SUFFICES ASSUME NEW j \in 1..m, \A k \in 1..p : all[k].at # j PROVE ClosedRecord(s, Starts(s)[m + 1], j)
    OBVIOUS
  <2>1. CASE j = i
    <3>1. ClosedRecord(s, Starts(s)[m + 1], open[p + 1].at)
      BY <1>1, Closes
    <3> QED BY <2>1, <3>1
  <2>2. CASE j # i
    <3>1. \A k \in 1..(p + 1) : k \in 1..p \/ k = p + 1
      OBVIOUS
    <3>2. \A k \in 1..(p + 1) : open[k].at # j
      BY <1>5, <2>2, <3>1
    <3> QED BY <3>2 DEF Walked
  <2> QED BY <2>1, <2>2
<1>10. \A a \in 1..p : all[a].at <= m /\ \A b \in 1..p : a < b => all[a].at < all[b].at
  BY <1>1, <1>5, <1>7
<1>11. m > 0 => all[1].at = 1
  BY <1>6 DEF Walked
<1>12. Walked(s, l, m, all)
  BY <1>1, <1>4, <1>6, <1>8, <1>9, <1>10, <1>11 DEF Walked
<1>13. Added(open, p, all)
  BY <1>4 DEF o, kids2, Added
<1> QED BY <1>12, <1>13

-----------------------------------------------------------------------------
(* Counting parts *)

LEMMA PartsNatural == ASSUME NEW s \in Serials, NEW i \in 1..Len(s.records) PROVE PartsAt(s, i) \in Nat
<1>1. PICK data : data = s.records[i].data
  OBVIOUS
<1>2. s.records[i] \in SerialRecords
  BY RecordsTyped
<1>3. data = Null \/ data \in Seq(STRING)
  BY <1>1, <1>2 DEF SerialRecords
<1>4. PICK type : type = s.records[i].type
  OBVIOUS
<1>5. PartsAt(s, i) = Parts(type, data)
  BY <1>1, <1>4 DEF PartsAt
<1>6. CASE data = Null
  BY <1>5, <1>6 DEF Parts
<1>7. CASE data \in Seq(STRING)
  <2>1. Len(data) \in Nat /\ DOMAIN data = 1..Len(data)
    BY <1>7, LenProperties
  <2>2. IsFiniteSet(DOMAIN data)
    BY <2>1, FS_Interval
  <2>3. IsFiniteSet({k \in DOMAIN data : data[k] = "."})
    BY <2>2, FS_Subset
  <2>4. Cardinality({k \in DOMAIN data : data[k] = "."}) \in Nat
    BY <2>3, FS_CardinalityType
  <2> QED BY <1>5, <2>4 DEF Parts
<1> QED BY <1>3, <1>6, <1>7

LEMMA PartsMean ==
    ASSUME NEW s, NEW nodes
    PROVE  \A x : x \in PartsOf(s, nodes) <=> \E i \in nodes : x \in {i} \X (1..PartsAt(s, i))
BY DEF PartsOf

\* One more record adds as many as its name has.
LEMMA OneMorePart ==
    ASSUME NEW s \in Serials, NEW m \in Nat, m < Len(s.records), IsFiniteSet(PartsOf(s, 1..m))
    PROVE  /\ IsFiniteSet(PartsOf(s, 1..(m + 1)))
           /\ Cardinality(PartsOf(s, 1..(m + 1))) = Cardinality(PartsOf(s, 1..m)) + PartsAt(s, m + 1)
<1>1. m + 1 \in 1..Len(s.records) /\ 1..(m + 1) = 1..m \cup {m + 1} /\ m + 1 \notin 1..m
  BY RecordsTyped
<1>2. PICK n \in Nat : n = PartsAt(s, m + 1)
  BY <1>1, PartsNatural
<1>3. PICK old, new : old = PartsOf(s, 1..m) /\ new = {m + 1} \X (1..n)
  OBVIOUS
<1>4. IsFiniteSet(new) /\ Cardinality(new) = n
  <2>1. IsFiniteSet(1..n) /\ Cardinality(1..n) = n
    <3>1. 1 \in Int /\ n \in Int
      OBVIOUS
    <3>2. IsFiniteSet(1..n) /\ Cardinality(1..n) = IF 1 > n THEN 0 ELSE n - 1 + 1
      BY <3>1, FS_Interval
    <3> QED BY <3>2
  <2>2. IsFiniteSet({m + 1}) /\ Cardinality({m + 1}) = 1
    BY FS_Singleton
  <2>3. IsFiniteSet({m + 1} \X (1..n)) /\ Cardinality({m + 1} \X (1..n)) = 1 * n
    BY <2>1, <2>2, FS_Product
  <2> QED BY <1>3, <2>3
<1>5. PartsOf(s, 1..(m + 1)) = old \cup new
  BY <1>1, <1>2, <1>3, PartsMean
<1>6. old \cap new = {}
  BY <1>1, <1>3, PartsMean
<1>7. IsFiniteSet(old) /\ Cardinality(old) \in Nat /\ Cardinality({}) = 0
  BY <1>3, FS_CardinalityType, FS_EmptySet
<1>8. IsFiniteSet(old \cup new) /\ Cardinality(old \cup new) = Cardinality(old) + Cardinality(new) - Cardinality(old \cap new)
  BY <1>4, <1>7, FS_Union
<1>9. Cardinality(old \cup new) = Cardinality(old) + n
  <2>1. Cardinality(old \cap new) = 0
    BY <1>6, <1>7
  <2>2. PICK x \in Nat : x = Cardinality(old)
    BY <1>7
  <2>3. Cardinality(old \cup new) = x + n - 0
    BY <1>4, <1>8, <2>1, <2>2
  <2> QED BY <2>2, <2>3
<1> QED BY <1>2, <1>3, <1>5, <1>8, <1>9

\* The parts of some records are no more than those of all.
LEMMA FewerParts ==
    ASSUME NEW s \in Serials, NEW n \in Nat, \A i \in 1..Len(s.records) : PartsAt(s, i) <= n,
           NEW nodes \in SUBSET 1..Len(s.records)
    PROVE  /\ IsFiniteSet(PartsOf(s, nodes)) /\ IsFiniteSet(PartsOf(s, 1..Len(s.records)))
           /\ Cardinality(PartsOf(s, nodes)) <= Cardinality(PartsOf(s, 1..Len(s.records)))
<1> DEFINE all == 1..Len(s.records)
<1>1. IsFiniteSet(all \X (1..n))
  <2>1. IsFiniteSet(all) /\ IsFiniteSet(1..n)
    <3>1. 1 \in Int /\ n \in Int /\ Len(s.records) \in Int
      BY RecordsTyped
    <3> QED BY <3>1, FS_Interval
  <2> QED BY <2>1, FS_Product
<1>2. PartsOf(s, all) \subseteq all \X (1..n)
  <2>1. \A i \in all : 1..PartsAt(s, i) \subseteq 1..n
    BY PartsNatural
  <2> QED BY <2>1, PartsMean
<1>3. PartsOf(s, nodes) \subseteq PartsOf(s, all)
  BY PartsMean
<1>4. IsFiniteSet(PartsOf(s, all))
  BY <1>1, <1>2, FS_Subset
<1> QED BY <1>3, <1>4, FS_Subset

-----------------------------------------------------------------------------
(* What was read to the end is well formed *)

LEMMA WalkEnds ==
    ASSUME NEW s, NEW l, NEW m, NEW open, s \in Serials, Walked(s, l, m, open),
           s.offset <= s.length, Len(open) = 1, Complete(s, m, open[1]),
           Starts(s)[m + 1] = s.length, "PartialIndent" \notin s.records[open[1].at].flags,
           m <= l.nodes, Cardinality(PartsOf(s, 1..m)) <= l.parts
    PROVE  WellFormed(s, l)
<1> DEFINE n == Len(s.records)
<1>1. n \in Nat /\ m \in 0..n /\ DOMAIN s.records = 1..n /\ open # <<>> /\ 1 \in 1..Len(open) /\ open[1].at <= m
      /\ open[1].at \in 1..n
  <2>1. 1 \in 1..Len(open) /\ Len(open) # 0
    OBVIOUS
  <2> QED BY <2>1, OpenTyped, RecordsTyped
<1>2. m > 0 /\ open[1].at = 1
  <2>1. m > 0
    BY <1>1
  <2> QED BY <2>1 DEF Walked
<1>3. m = n
  <2>1. \A i \in DOMAIN s.records : Starts(s)[i] < s.length
    BY SerialsAssumption
  <2>2. m < n => m + 1 \in DOMAIN s.records
    BY <1>1
  <2>3. s.length \in Nat
    BY RecordsTyped
  <2>4. ~(m < n)
    BY <2>1, <2>2, <2>3
  <2> QED BY <1>1, <2>4
<1>4. \A i \in 1..n : ClosedRecord(s, s.length, i)
  <2> SUFFICES ASSUME NEW i \in 1..n PROVE ClosedRecord(s, s.length, i)
    OBVIOUS
  <2>1. CASE i = 1
    <3>1. ClosedRecord(s, Starts(s)[m + 1], open[1].at)
      BY <1>1, Closes
    <3> QED BY <1>2, <2>1, <3>1
  <2>2. CASE i # 1
    <3>1. \A k \in 1..Len(open) : open[k].at # i
      BY <1>2, <2>2
    <3>2. ClosedRecord(s, Starts(s)[m + 1], i)
      BY <1>3, <3>1 DEF Walked
    <3> QED BY <3>2
  <2> QED BY <2>1, <2>2
<1>5. \A i \in 1..n : ReadRecord(s, l, i)
  BY <1>3 DEF Walked
<1>6. \A i \in 1..n : IndentsRight(s, i)
  <2> SUFFICES ASSUME NEW i \in 1..n PROVE IndentsRight(s, i)
    OBVIOUS
  <2>1. CASE i = 1
    BY <1>2, <2>1 DEF IndentsRight
  <2>2. CASE i # 1
    <3>1. i > 1
      BY <2>2
    <3>2. PICK k \in 1..(i - 1) : IsChild(s, i, k)
      BY <1>5, <3>1 DEF ReadRecord
    <3>3. k \in 1..n /\ i \in ChildrenOf(s, k)
      BY <1>1, <3>2 DEF ChildrenOf
    <3> QED BY <1>4, <3>3 DEF ClosedRecord
  <2> QED BY <2>1, <2>2
<1>7. \A i \in DOMAIN s.records : ValidRecord(s, l, i)
  BY <1>1, <1>4, <1>5, <1>6 DEF ValidRecord, ReadRecord, ClosedRecord, IndentsRight
<1>8. End(s, 1) = s.length /\ Starts(s)[n + 1] = s.length
  BY <1>2, <1>3 DEF Complete
<1>9. n <= l.nodes /\ Cardinality(PartsOf(s, DOMAIN s.records)) <= l.parts
  BY <1>1, <1>3
<1>10. s.records # <<>>
  BY <1>1, <1>2, <1>3, EmptySeq
<1> QED BY <1>7, <1>8, <1>9, <1>10 DEF WellFormed

-----------------------------------------------------------------------------
(* What is well formed passes every check *)

\* As long as children are missing, there is a next record and it is one.
LEMMA ChildrenMissing ==
    ASSUME NEW s, NEW l, NEW m, NEW open, s \in Serials, Walked(s, l, m, open), open # <<>>, WellFormed(s, l),
           NEW o, o = open[Len(open)], Len(o.kids) # s.records[o.at].count
    PROVE  m < Len(s.records) /\ Starts(s)[m + 1] < End(s, o.at)
<1> DEFINE n == Len(s.records)
<1>1. n \in Nat /\ m \in 0..n /\ DOMAIN s.records = 1..n /\ o.at \in 1..n
  <2>1. Len(open) \in 1..Len(open)
    BY OpenTyped
  <2> QED BY <2>1, OpenTyped, RecordsTyped
<1>2. s.records[o.at].count = Cardinality(ChildrenOf(s, o.at))
  BY <1>1 DEF WellFormed, ValidRecord
<1>3. Cardinality(KidsOf(o)) = Len(o.kids) /\ KidsOf(o) = ChildrenUpTo(s, m, o)
  BY KidsRead
<1>4. KidsOf(o) \subseteq ChildrenOf(s, o.at)
  BY <1>1, <1>3 DEF ChildrenOf, ChildrenUpTo
<1>5. PICK j \in ChildrenOf(s, o.at) : j \notin KidsOf(o)
  <2>1. KidsOf(o) # ChildrenOf(s, o.at)
    BY <1>2, <1>3
  <2> QED BY <1>4, <2>1
<1>6. j \in 1..n /\ IsChild(s, j, o.at)
  BY <1>1 DEF ChildrenOf
<1>7. j \notin 1..m
  BY <1>3, <1>5, <1>6 DEF ChildrenUpTo
<1>8. m + 1 <= j /\ m + 1 \in 1..(n + 1) /\ j \in 1..(n + 1) /\ m < n
  BY <1>1, <1>6, <1>7
<1>9. Starts(s)[m + 1] <= Starts(s)[j] /\ Starts(s)[m + 1] \in Nat /\ Starts(s)[j] \in Nat
  BY <1>8, StartsApart
<1>10. Starts(s)[j] < End(s, o.at) /\ End(s, o.at) \in Nat
  BY <1>1, <1>6, EndsTyped DEF IsChild, Around
<1> QED BY <1>8, <1>9, <1>10

\* Once all were read, they fill the range and stand in the right order.
LEMMA ChildrenInOrder ==
    ASSUME NEW s, NEW l, NEW m, NEW open, s \in Serials, Walked(s, l, m, open), open # <<>>, WellFormed(s, l),
           NEW o, o = open[Len(open)], Len(o.kids) = s.records[o.at].count, Starts(s)[m + 1] <= End(s, o.at)
    PROVE  Complete(s, m, o)
<1> DEFINE n == Len(s.records)
<1>1. /\ n \in Nat /\ m \in 0..n /\ DOMAIN s.records = 1..n /\ o.at \in 1..n
      /\ Len(o.kids) \in Nat /\ \A c \in 1..Len(o.kids) : o.kids[c] \in 1..n
  <2>1. Len(open) \in 1..Len(open)
    BY OpenTyped
  <2> QED BY <2>1, OpenTyped, RecordsTyped
<1>2. PICK e \in 1..(n + 1) : Starts(s)[e] = End(s, o.at)
  BY <1>1 DEF WellFormed, ValidRecord
<1>3. Family(s, m, o, m + 1) /\ KidsOf(o) = ChildrenUpTo(s, m, o)
  BY KidsRead
<1>4. KidsOf(o) = ChildrenOf(s, o.at)
  <2>1. Cardinality(KidsOf(o)) = Cardinality(ChildrenOf(s, o.at))
    <3>1. s.records[o.at].count = Cardinality(ChildrenOf(s, o.at))
      BY <1>1 DEF WellFormed, ValidRecord
    <3>2. Cardinality(KidsOf(o)) = Len(o.kids)
      BY KidsRead
    <3> QED BY <3>1, <3>2
  <2>2. IsFiniteSet(ChildrenOf(s, o.at))
    BY <1>1, <1>2, ChildrenBelow
  <2>3. KidsOf(o) \in SUBSET ChildrenOf(s, o.at)
    BY <1>1, <1>3 DEF ChildrenOf, ChildrenUpTo
  <2> QED BY <2>1, <2>2, <2>3, FS_Subset
<1>5. m + 1 \in 1..(n + 1) /\ m + 1 \notin KidsOf(o)
  <2>1. m + 1 \notin 1..m /\ m + 1 \in 1..(n + 1)
    BY <1>1
  <2> QED BY <1>3, <2>1 DEF ChildrenUpTo
<1>6. Starts(s)[m + 1] = End(s, o.at)
  <2> SUFFICES ASSUME Starts(s)[m + 1] # End(s, o.at) PROVE FALSE
    OBVIOUS
  <2>1. Starts(s)[m + 1] < Starts(s)[e] /\ Starts(s)[m + 1] < End(s, o.at)
    BY <1>2, <1>5, StartsApart
  <2>2. m + 1 < e
    BY <1>2, <1>5, <2>1, StartsApart
  <2>3. m < n /\ m + 1 \in 1..n
    BY <1>1, <1>2, <2>2
  <2>4. IsChild(s, m + 1, o.at)
    BY <2>1, <2>3, NextIsChild
  <2>5. m + 1 \in ChildrenOf(s, o.at)
    BY <1>1, <2>3, <2>4 DEF ChildrenOf
  <2> QED BY <1>4, <1>5, <2>5
<1>7. ASSUME NEW c \in 1..Len(o.kids), "PartialIndent" \in s.records[o.kids[c]].flags
      PROVE  /\ IsPartialIndentation(s.records[o.kids[c]])
             /\ c < Len(o.kids) /\ s.records[o.kids[c + 1]].type = "Partial"
  <2> DEFINE i == o.kids[c]
  <2>1. i \in 1..n /\ i \in KidsOf(o)
    BY <1>1 DEF KidsOf
  <2>2. IsPartialIndentation(s.records[i]) /\ IndentsPartial(s, i)
    BY <1>1, <1>7, <2>1 DEF WellFormed, ValidRecord
  <2>3. Starts(s)[IF c = Len(o.kids) THEN m + 1 ELSE o.kids[c + 1]] = End(s, i)
    BY <1>3 DEF Family
  <2> HIDE DEF i
  <2>4. PICK j \in DOMAIN s.records, k \in DOMAIN s.records :
            s.records[j].type = "Partial" /\ Starts(s)[j] = End(s, i) /\ IsChild(s, i, k) /\ IsChild(s, j, k)
    BY <2>2 DEF IndentsPartial
  <2>5. IsChild(s, i, o.at) /\ i \in Nat
    BY <1>4, <2>1 DEF ChildrenOf
  <2>6. k = o.at
    BY <2>4, <2>5, OneParent
  <2>7. j \in ChildrenOf(s, o.at) /\ j \in 1..n /\ j \in 1..(n + 1)
    BY <1>1, <2>4, <2>6 DEF ChildrenOf
  <2>8. j \in KidsOf(o) /\ j # m + 1
    BY <1>4, <1>5, <2>7
  <2>9. c # Len(o.kids)
    <3> SUFFICES ASSUME c = Len(o.kids) PROVE FALSE
      OBVIOUS
    <3>1. Starts(s)[j] = Starts(s)[m + 1]
      BY <2>3, <2>4
    <3> QED BY <1>5, <2>7, <2>8, <3>1, StartsApart
  <2>10. c < Len(o.kids) /\ o.kids[c + 1] \in 1..(n + 1)
    <3>1. c < Len(o.kids) /\ c + 1 \in 1..Len(o.kids)
      BY <1>1, <2>9, SMTT(30)
    <3>2. o.kids[c + 1] \in 1..n
      BY <1>1, <3>1
    <3> QED BY <1>1, <3>1, <3>2, SMTT(30)
  <2>11. j = o.kids[c + 1]
    <3>1. Starts(s)[j] = Starts(s)[o.kids[c + 1]]
      BY <2>3, <2>4, <2>9
    <3> QED BY <2>7, <2>10, <3>1, StartsApart
  <2> QED BY <2>2, <2>4, <2>10, <2>11 DEF i
<1> QED BY <1>6, <1>7 DEF Complete

\* The next record passes, in the ranges of all open ones.
LEMMA NextFits ==
    ASSUME NEW s, NEW l, NEW m, NEW open, s \in Serials, l \in LimitChoices, Walked(s, l, m, open), WellFormed(s, l),
           m < Len(s.records), open = <<>> => m = 0,
           \A k \in 1..Len(open) : Starts(s)[m + 1] < End(s, open[k].at),
           NEW r, r = s.records[m + 1]
    PROVE  /\ Exact(r) /\ ShapeFits(r.type, r.flags, r.data # Null, r.count)
           /\ Len(open) < l.nesting /\ m < l.nodes /\ PartsAt(s, m + 1) <= l.partsPerNode
           /\ Cardinality(PartsOf(s, 1..(m + 1))) <= l.parts
           /\ End(s, m + 1) <= IF open = <<>> THEN s.length ELSE End(s, open[Len(open)].at)
           /\ HeaderSize * r.count <= r.childrenSize
<1> DEFINE n == Len(s.records)
<1>1. n \in Nat /\ m \in 0..n /\ m + 1 \in 1..n /\ DOMAIN s.records = 1..n
  BY OpenTyped, RecordsTyped
<1>2. ValidRecord(s, l, m + 1)
  BY <1>1 DEF WellFormed
<1>3. Exact(r) /\ ShapeFits(r.type, r.flags, r.data # Null, r.count) /\ PartsAt(s, m + 1) <= l.partsPerNode
  BY <1>2 DEF ValidRecord
<1>4. Len(open) < l.nesting
  <2>1. Cardinality(Around(s, m + 1)) < l.nesting
    BY <1>2 DEF ValidRecord
  <2> QED BY <2>1, NextDepth
<1>5. l.nodes \in Nat /\ l.partsPerNode \in Nat /\ l.parts \in Nat
  BY SerialLimitsAssumption
<1>6. m < l.nodes
  BY <1>1, <1>5 DEF WellFormed
<1>7. Cardinality(PartsOf(s, 1..(m + 1))) <= l.parts
  <2>1. \A i \in 1..n : PartsAt(s, i) <= l.partsPerNode
    BY <1>1 DEF WellFormed, ValidRecord
  <2>2. 1..(m + 1) \in SUBSET (1..n)
    BY <1>1
  <2>3. Cardinality(PartsOf(s, 1..(m + 1))) <= Cardinality(PartsOf(s, 1..n))
    BY <1>5, <2>1, <2>2, FewerParts
  <2>4. Cardinality(PartsOf(s, 1..n)) <= l.parts
    BY <1>1 DEF WellFormed
  <2>5. IsFiniteSet(PartsOf(s, 1..n)) /\ IsFiniteSet(PartsOf(s, 1..(m + 1)))
    BY <1>5, <2>1, <2>2, FewerParts
  <2>6. Cardinality(PartsOf(s, 1..n)) \in Nat /\ Cardinality(PartsOf(s, 1..(m + 1))) \in Nat
    BY <2>5, FS_CardinalityType
  <2> QED BY <1>5, <2>3, <2>4, <2>6
<1>8. End(s, m + 1) <= IF open = <<>> THEN s.length ELSE End(s, open[Len(open)].at)
  <2>1. CASE open = <<>>
    <3>1. End(s, m + 1) = s.length /\ s.length \in Nat
      BY <2>1, RecordsTyped DEF WellFormed
    <3> QED BY <2>1, <3>1
  <2>2. CASE open # <<>>
    <3>1. Len(open) \in 1..Len(open)
      BY <2>2, OpenTyped
    <3>2. IsChild(s, m + 1, open[Len(open)].at)
      BY <2>2, <3>1, NextIsChild
    <3>3. open[Len(open)].at \in Around(s, m + 1)
      BY <3>2 DEF IsChild
    <3> QED BY <1>2, <2>2, <3>3 DEF ValidRecord
  <2> QED BY <2>1, <2>2
<1>9. HeaderSize * r.count <= r.childrenSize
  <2>1. PICK e \in 1..(n + 1) : Starts(s)[e] = End(s, m + 1)
    BY <1>2 DEF ValidRecord
  <2>2. r.count = Cardinality(ChildrenOf(s, m + 1))
    BY <1>2 DEF ValidRecord
  <2> QED BY <1>1, <2>1, <2>2, ChildrenBelow
<1> QED BY <1>3, <1>4, <1>6, <1>7, <1>8, <1>9

-----------------------------------------------------------------------------
(* How the reader follows the walk *)

\* A frame shows an open record and the children read of it.
IsNodeOf(s, node, i) ==
    node.type = s.records[i].type /\ node.flags = s.records[i].flags /\ node.data = s.records[i].data
Shows(s, f, o) ==
    LET r == s.records[o.at] IN
    /\ f = [node |-> f.node, count |-> r.count, end |-> End(s, o.at)]
    /\ f.node = [type |-> r.type, flags |-> r.flags, data |-> r.data, delimiters |-> f.node.delimiters,
                 original |-> f.node.original, children |-> f.node.children]
    /\ IsSeq(f.node.children) /\ Len(f.node.children) = Len(o.kids)
    /\ \A c \in 1..Len(o.kids) : IsNodeOf(s, f.node.children[c], o.kids[c])
AllShown(s, ranges, open) ==
    IsSeq(ranges) /\ Len(ranges) = Len(open) /\ \A k \in 1..Len(open) : Shows(s, ranges[k], open[k])

Follows(m, open) ==
    /\ Walked(serial, limits, m, open) /\ AllShown(serial, reading, open) /\ pos = Starts(serial)[m + 1]
    /\ state = [nodes |-> m, parts |-> Cardinality(PartsOf(serial, 1..m))] /\ IsFiniteSet(PartsOf(serial, 1..m))
    /\ m <= limits.nodes /\ state.parts <= limits.parts
\* A header without a size for its data leaves the reader in the middle of the record.
Lost ==
    /\ pos < serial.length /\ \A j \in 1..(Len(serial.records) + 1) : Starts(serial)[j] # pos
    /\ \E i \in DOMAIN serial.records : ~Exact(serial.records[i])

ExactInv ==
    /\ ReaderInv /\ ReadsExactly
    /\ read = "busy" => /\ serial \in Serials /\ limits \in LimitChoices /\ Admitted(serial, limits)
                        /\ Lost \/ \E m, open : Follows(m, open)

\* The order of the children in memory is that of the records.
LEMMA IndentationMeans ==
    ASSUME NEW s, NEW f, NEW o, Shows(s, f, o), Len(o.kids) \in Nat
    PROVE  IndentationFits(f.node.children) <=>
               \A c \in 1..Len(o.kids) :
                  "PartialIndent" \in s.records[o.kids[c]].flags =>
                      /\ IsPartialIndentation(s.records[o.kids[c]])
                      /\ c < Len(o.kids) /\ s.records[o.kids[c + 1]].type = "Partial"
<1> DEFINE Right(c) ==
               "PartialIndent" \in s.records[o.kids[c]].flags =>
                      /\ IsPartialIndentation(s.records[o.kids[c]])
                      /\ c < Len(o.kids) /\ s.records[o.kids[c + 1]].type = "Partial"
           Fits(c) ==
               "PartialIndent" \in f.node.children[c].flags =>
                      /\ IsPartialIndentation(f.node.children[c])
                      /\ c < Len(f.node.children) /\ f.node.children[c + 1].type = "Partial"
<1>1. PICK S : f.node.children \in Seq(S)
  BY DEF Shows, IsSeq
<1>2. DOMAIN f.node.children = 1..Len(o.kids) /\ Len(f.node.children) = Len(o.kids)
  BY <1>1, LenProperties DEF Shows
<1>3. ASSUME NEW c \in 1..Len(o.kids) PROVE Fits(c) <=> Right(c)
  <2>1. IsNodeOf(s, f.node.children[c], o.kids[c])
    BY DEF Shows
  <2>2. IsPartialIndentation(f.node.children[c]) <=> IsPartialIndentation(s.records[o.kids[c]])
    BY <2>1 DEF IsNodeOf, IsPartialIndentation
  <2>3. c < Len(o.kids) => f.node.children[c + 1].type = s.records[o.kids[c + 1]].type
    <3>1. c < Len(o.kids) => c + 1 \in 1..Len(o.kids)
      OBVIOUS
    <3> QED BY <3>1 DEF Shows, IsNodeOf
  <2>4. f.node.children[c].flags = s.records[o.kids[c]].flags
    BY <2>1 DEF IsNodeOf
  <2> QED BY <1>2, <2>2, <2>3, <2>4
<1>4. IndentationFits(f.node.children) <=> \A c \in 1..Len(o.kids) : Fits(c)
  BY <1>2 DEF IndentationFits
<1> HIDE DEF Fits, Right
<1>5. IndentationFits(f.node.children) <=> \A c \in 1..Len(o.kids) : Right(c)
  BY <1>3, <1>4
<1> QED BY <1>5 DEF Right

\* The innermost frame and the innermost open record.
LEMMA InnermostShown ==
    ASSUME ReaderInv, read = "busy", NEW m, NEW open, Follows(m, open)
    PROVE  /\ serial \in Serials /\ Len(reading) = Len(open) /\ (reading = <<>> <=> open = <<>>) /\ Len(open) \in Nat
           /\ m \in 0..Len(serial.records) /\ (open = <<>> => m = 0)
           /\ pos \in Nat /\ pos = Starts(serial)[m + 1] /\ m + 1 \in 1..(Len(serial.records) + 1)
           /\ \A k \in 1..Len(open) : /\ reading[k].end = End(serial, open[k].at) /\ End(serial, open[k].at) \in Nat
                                      /\ pos <= End(serial, open[k].at)
                                      /\ End(serial, open[Len(open)].at) <= End(serial, open[k].at)
           /\ open # <<>> => /\ Len(open) \in 1..Len(open)
                             /\ Shows(serial, Innermost, open[Len(open)]) /\ Innermost.end = End(serial, open[Len(open)].at)
                             /\ Len(open[Len(open)].kids) \in Nat
           /\ AllChildrenRead <=> open # <<>> /\ Len(open[Len(open)].kids) = serial.records[open[Len(open)].at].count
<1> DEFINE L == Len(open)
<1>1. /\ serial \in Serials /\ Nested(reading, pos, serial.length) /\ Walked(serial, limits, m, open)
      /\ AllShown(serial, reading, open) /\ pos = Starts(serial)[m + 1]
  BY DEF ReaderInv, Follows
<1>2. /\ Len(serial.records) \in Nat /\ L \in Nat /\ m \in 0..Len(serial.records) /\ (open = <<>> <=> L = 0)
      /\ \A k \in 1..L : open[k].at \in 1..Len(serial.records) /\ Len(open[k].kids) \in Nat
  BY <1>1, OpenTyped
<1>3. PICK S : reading \in Seq(S)
  BY <1>1 DEF AllShown, IsSeq
<1>4. Len(reading) = L /\ (reading = <<>> <=> open = <<>>)
  <2>1. Len(reading) = L
    BY <1>1 DEF AllShown
  <2>2. reading = <<>> <=> Len(reading) = 0
    BY <1>3, EmptySeq
  <2> QED BY <1>2, <2>1, <2>2
<1>5. open = <<>> => m = 0
  BY <1>1, <1>2 DEF Walked
<1>6. pos \in Nat /\ m + 1 \in 1..(Len(serial.records) + 1)
  BY <1>1, <1>2 DEF Nested
<1>7. \A k \in 1..L : reading[k].end = End(serial, open[k].at) /\ End(serial, open[k].at) \in Nat
  <2>1. \A k \in 1..L : reading[k].end = End(serial, open[k].at)
    <3>1. ASSUME NEW k \in 1..L PROVE reading[k].end = End(serial, open[k].at)
      <4>1. Shows(serial, reading[k], open[k])
        BY <1>1 DEF AllShown
      <4> QED BY <4>1 DEF Shows
    <3> QED BY <3>1
  <2> QED BY <1>1, <1>2, <2>1, EndsTyped
<1>8. \A k \in 1..L : pos <= End(serial, open[k].at)
  BY <1>1, <1>4, <1>7 DEF Nested
<1>9. \A k \in 1..L : End(serial, open[L].at) <= End(serial, open[k].at)
  <2> SUFFICES ASSUME NEW k \in 1..L PROVE End(serial, open[L].at) <= End(serial, open[k].at)
    OBVIOUS
  <2>1. L \in 1..L /\ (k = L \/ k < L)
    BY <1>2
  <2>2. CASE k = L
    BY <1>7, <2>1, <2>2
  <2>3. CASE k < L
    <3>1. reading[L].end <= reading[k].end
      BY <1>1, <1>4, <2>1, <2>3 DEF Nested
    <3> QED BY <1>7, <2>1, <3>1
  <2> QED BY <2>1, <2>2, <2>3
<1>10. open # <<>> => /\ L \in 1..L
                      /\ Shows(serial, Innermost, open[L]) /\ Innermost.end = End(serial, open[L].at)
                      /\ Len(open[L].kids) \in Nat
  <2> SUFFICES ASSUME open # <<>> PROVE /\ L \in 1..L
                      /\ Shows(serial, Innermost, open[L]) /\ Innermost.end = End(serial, open[L].at)
                      /\ Len(open[L].kids) \in Nat
    OBVIOUS
  <2>1. L \in 1..L /\ Innermost = reading[L]
    BY <1>2, <1>4 DEF Innermost
  <2>2. Shows(serial, reading[L], open[L])
    BY <1>1, <2>1 DEF AllShown
  <2> QED BY <1>2, <1>7, <2>1, <2>2
<1>11. AllChildrenRead <=> open # <<>> /\ Len(open[L].kids) = serial.records[open[L].at].count
  <2>1. CASE open = <<>>
    BY <1>4, <2>1 DEF AllChildrenRead
  <2>2. CASE open # <<>>
    <3>1. Innermost.count = serial.records[open[L].at].count /\ Len(Innermost.node.children) = Len(open[L].kids)
      BY <1>10, <2>2 DEF Shows
    <3> QED BY <1>4, <2>2, <3>1 DEF AllChildrenRead
  <2> QED BY <2>1, <2>2
<1>12. serial \in Serials /\ pos = Starts(serial)[m + 1] /\ m \in 0..Len(serial.records) /\ L \in Nat
  BY <1>1, <1>2
<1> QED BY <1>4, <1>5, <1>6, <1>7, <1>8, <1>9, <1>10, <1>11, <1>12

LEMMA RecordMeans ==
    ASSUME serial \in Serials
    PROVE  /\ \A i \in 1..Len(serial.records) : Starts(serial)[i] = pos => Record = serial.records[i]
           /\ Record.magic => \E i \in 1..Len(serial.records) : Starts(serial)[i] = pos
<1>1. Len(serial.records) \in Nat /\ DOMAIN serial.records = 1..Len(serial.records)
  BY RecordsTyped
<1>2. ASSUME NEW i \in 1..Len(serial.records), Starts(serial)[i] = pos PROVE Record = serial.records[i]
  <2>1. \A j \in RecordsAt(serial, pos) : j = i
    <3> SUFFICES ASSUME NEW j \in RecordsAt(serial, pos) PROVE j = i
      OBVIOUS
    <3>1. j \in 1..Len(serial.records) /\ Starts(serial)[j] = pos
      BY <1>1 DEF RecordsAt
    <3>2. j \in 1..(Len(serial.records) + 1) /\ i \in 1..(Len(serial.records) + 1)
      BY <1>1, <3>1
    <3> QED BY <1>2, <3>1, <3>2, StartsApart
  <2>2. i \in RecordsAt(serial, pos)
    BY <1>1, <1>2 DEF RecordsAt
  <2> QED BY <2>1, <2>2 DEF Record
<1>3. Record.magic => \E i \in 1..Len(serial.records) : Starts(serial)[i] = pos
  <2> SUFFICES ASSUME ~\E i \in 1..Len(serial.records) : Starts(serial)[i] = pos PROVE ~Record.magic
    OBVIOUS
  <2>1. RecordsAt(serial, pos) = {}
    BY <1>1 DEF RecordsAt
  <2>2. Record = NoRecord
    BY <2>1 DEF Record
  <2> QED BY <2>2 DEF NoRecord
<1> QED BY <1>2, <1>3

\* What is read of a record is the whole of it, or nothing can be read after it.
LEMMA ReadWhole ==
    ASSUME NEW s \in Serials, NEW i \in 1..Len(s.records), s.offset <= s.length, NEW r, r = s.records[i],
           r.magic, DataTerminated(r)
    PROVE  \/ Exact(r) /\ (r.size > 0 <=> r.data # Null) /\ DataOf(r) = r.data
              /\ Starts(s)[i] + HeaderSize + r.size = Starts(s)[i + 1]
           \/ /\ ~Exact(r) /\ Starts(s)[i] + HeaderSize + r.size < s.length
              /\ \A j \in 1..(Len(s.records) + 1) : Starts(s)[j] # Starts(s)[i] + HeaderSize + r.size
<1> DEFINE n == Len(s.records)
           p == Starts(s)[i] + HeaderSize + r.size
<1>1. n \in Nat /\ r \in SerialRecords /\ DOMAIN s.records = 1..n
  BY RecordsTyped
<1>2. r.size \in Nat /\ (r.data = Null \/ r.data \in Seq(STRING))
  BY <1>1 DEF SerialRecords
<1>3. i \in 1..(n + 1) /\ i + 1 \in 1..(n + 1)
  BY <1>1
<1>4. PICK a \in Nat, b \in Nat : a = Starts(s)[i] /\ b = Starts(s)[i + 1]
  BY <1>3, StartsApart
<1>5. b = a + RecordSize(r)
  BY <1>4, StartsMean
<1>6. CASE r.data = Null
  <2>1. r.size = 0
    BY <1>2, <1>6 DEF DataTerminated
  <2>2. RecordSize(r) = 14
    BY <1>6 DEF RecordSize, HeaderSize
  <2>3. Exact(r) /\ DataOf(r) = r.data
    BY <1>6, <2>1, <2>2 DEF Exact, DataOf, HeaderSize
  <2>4. Starts(s)[i] + HeaderSize + r.size = Starts(s)[i + 1]
    BY <1>4, <1>5, <2>1, <2>2 DEF HeaderSize
  <2> QED BY <1>6, <2>1, <2>3, <2>4
<1>7. CASE r.data # Null /\ r.size > 0
  <2>1. PICK d \in Nat : d = Len(r.data)
    BY <1>2, <1>7, LenProperties
  <2>2. r.terminated /\ r.size = d + 1
    BY <1>7, <2>1 DEF DataTerminated
  <2>3. RecordSize(r) = 14 + (d + 1)
    BY <1>7, <2>1 DEF RecordSize, HeaderSize
  <2>4. Exact(r)
    BY <2>1, <2>2, <2>3 DEF Exact, HeaderSize
  <2>5. DataOf(r) = r.data
    BY <1>2, <1>7 DEF DataOf
  <2>6. Starts(s)[i] + HeaderSize + r.size = Starts(s)[i + 1]
    <3>1. a + 14 + (d + 1) = b
      BY <1>5, <2>3
    <3> QED BY <1>4, <2>2, <3>1 DEF HeaderSize
  <2> QED BY <1>7, <2>4, <2>5, <2>6
<1>8. CASE r.data # Null /\ r.size = 0
  <2>1. PICK d \in Nat : d = Len(r.data)
    BY <1>2, <1>8, LenProperties
  <2>2. RecordSize(r) = 14 + (d + 1)
    BY <1>8, <2>1 DEF RecordSize, HeaderSize
  <2>3. ~Exact(r)
    BY <1>8, <2>1, <2>2 DEF Exact, HeaderSize
  <2>4. p = a + 14 /\ a < a + 14 /\ a + 14 < b
    BY <1>4, <1>5, <1>8, <2>1, <2>2, SMTT(30) DEF HeaderSize
  <2>5. b <= s.length /\ s.length \in Nat
    <3>1. s.records[i].size = 0 /\ s.records[i].data # Null /\ i \in DOMAIN s.records
      BY <1>1, <1>8
    <3>2. Starts(s)[i + 1] <= s.length /\ s.length \in Nat
      BY <3>1, SerialsAssumption
    <3> QED BY <1>4, <3>2
  <2>6. \A j \in 1..(n + 1) : Starts(s)[j] # a + 14
    <3> SUFFICES ASSUME NEW j \in 1..(n + 1), Starts(s)[j] = a + 14 PROVE FALSE
      OBVIOUS
    <3>1. i < j /\ j < i + 1
      BY <1>3, <1>4, <2>4, StartsApart
    <3> QED BY <1>1, <3>1
  <2>7. p < s.length
    BY <2>4, <2>5
  <2> QED BY <2>3, <2>4, <2>6, <2>7
<1> QED BY <1>2, <1>6, <1>7, <1>8

LEMMA OneMoreShown ==
    ASSUME NEW s, NEW ranges, NEW open, AllShown(s, ranges, open), open \in Seq(Opened(s)),
           NEW f, NEW o \in Opened(s), Shows(s, f, o)
    PROVE  AllShown(s, Append(ranges, f), Append(open, o))
<1>1. PICK S : ranges \in Seq(S)
  BY DEF AllShown, IsSeq
<1>2. ranges \in Seq(S \cup {f}) /\ f \in S \cup {f}
  BY <1>1, SeqMonotonic
<1>3. PICK n \in Nat : n = Len(open) /\ n = Len(ranges)
  BY <1>1, LenProperties DEF AllShown
<1>4. /\ Append(ranges, f) \in Seq(S \cup {f}) /\ Len(Append(ranges, f)) = n + 1 /\ Append(ranges, f)[n + 1] = f
      /\ \A k \in 1..n : Append(ranges, f)[k] = ranges[k]
  BY <1>2, <1>3, AppendProperties
<1>5. /\ Len(Append(open, o)) = n + 1 /\ Append(open, o)[n + 1] = o
      /\ \A k \in 1..n : Append(open, o)[k] = open[k]
  <2>1. PICK T : T = Opened(s)
    OBVIOUS
  <2>2. open \in Seq(T) /\ o \in T
    BY <2>1
  <2>3. /\ Len(Append(open, o)) = Len(open) + 1 /\ Append(open, o)[Len(open) + 1] = o
        /\ \A k \in 1..Len(open) : Append(open, o)[k] = open[k]
    BY <2>2, AppendProperties
  <2> QED BY <1>3, <2>3
<1>6. PICK rs, os : rs = Append(ranges, f) /\ os = Append(open, o)
  OBVIOUS
<1>7. \A k \in 1..(n + 1) : Shows(s, rs[k], os[k])
  <2> SUFFICES ASSUME NEW k \in 1..(n + 1) PROVE Shows(s, rs[k], os[k])
    OBVIOUS
  <2>1. CASE k = n + 1
    BY <1>4, <1>5, <1>6, <2>1
  <2>2. CASE k \in 1..n
    <3>1. Shows(s, ranges[k], open[k])
      BY <1>3, <2>2 DEF AllShown
    <3> QED BY <1>4, <1>5, <1>6, <2>2, <3>1
  <2> QED BY <2>1, <2>2
<1>8. IsSeq(rs) /\ Len(rs) = Len(os) /\ Len(os) = n + 1
  BY <1>4, <1>5, <1>6 DEF IsSeq
<1>9. AllShown(s, rs, os)
  BY <1>7, <1>8 DEF AllShown
<1> QED BY <1>6, <1>9

\* The record that is next is read: the walk enters it, unless its size leads astray.
LEMMA NextRead ==
    ASSUME ReaderInv, read = "busy", limits \in LimitChoices, serial.offset <= serial.length,
           NEW m, NEW open, Follows(m, open), Readable(Record),
           pos' = pos + HeaderSize + Record.size,
           reading' = Append(reading, [node |-> NodeOf(Record), count |-> Record.count, end |-> pos' + Record.childrenSize]),
           Charge(Record.type, DataOf(Record)), UNCHANGED <<serial, limits>>
    PROVE  Lost' \/ \E m2, open2 : Follows(m2, open2)'
<1> DEFINE n == Len(serial.records)
           L == Len(open)
<1>1. /\ serial \in Serials /\ Len(reading) = L /\ (reading = <<>> <=> open = <<>>) /\ L \in Nat
      /\ m \in 0..n /\ (open = <<>> => m = 0) /\ pos \in Nat /\ pos = Starts(serial)[m + 1] /\ m + 1 \in 1..(n + 1)
      /\ \A k \in 1..L : /\ End(serial, open[k].at) \in Nat
                         /\ End(serial, open[L].at) <= End(serial, open[k].at)
      /\ open # <<>> => L \in 1..L /\ Innermost.end = End(serial, open[L].at)
  BY InnermostShown
<1>2. n \in Nat /\ DOMAIN serial.records = 1..n /\ serial.length \in Nat
  BY <1>1, RecordsTyped
<1>3. m < n /\ m + 1 \in 1..n /\ Record = serial.records[m + 1]
  <2>1. PICK i \in 1..n : Starts(serial)[i] = pos
    BY <1>1, RecordMeans DEF Readable
  <2>2. i \in 1..(n + 1)
    BY <1>2
  <2>3. i = m + 1
    BY <1>1, <2>1, <2>2, StartsApart
  <2>4. Record = serial.records[m + 1]
    BY <1>1, <2>1, <2>3, RecordMeans
  <2> QED BY <1>1, <1>2, <2>3, <2>4
<1>4. PICK r : r = Record /\ r = serial.records[m + 1]
  BY <1>3
<1>5. Readable(r) /\ pos' = pos + HeaderSize + r.size /\ serial' = serial /\ limits' = limits
      /\ reading' = Append(reading, [node |-> NodeOf(r), count |-> r.count, end |-> pos' + r.childrenSize])
      /\ Charge(r.type, DataOf(r))
  BY <1>4
<1>6. r.magic /\ DataTerminated(r)
  BY <1>5 DEF Readable
<1>7. CASE /\ ~Exact(r) /\ Starts(serial)[m + 1] + HeaderSize + r.size < serial.length
           /\ \A j \in 1..(n + 1) : Starts(serial)[j] # Starts(serial)[m + 1] + HeaderSize + r.size
  <2>1. pos' < serial'.length /\ \A j \in 1..(n + 1) : Starts(serial)[j] # pos'
    BY <1>1, <1>5, <1>7
  <2>2. \E i \in DOMAIN serial.records : ~Exact(serial.records[i])
    BY <1>2, <1>3, <1>4, <1>7
  <2>3. Lost'
    BY <1>5, <2>1, <2>2 DEF Lost
  <2> QED BY <2>3
<1>8. CASE /\ Exact(r) /\ (r.size > 0 <=> r.data # Null) /\ DataOf(r) = r.data
           /\ Starts(serial)[m + 1] + HeaderSize + r.size = Starts(serial)[(m + 1) + 1]
  <2> DEFINE o == [at |-> m + 1, kids |-> <<>>]
             f == [node |-> NodeOf(r), count |-> r.count, end |-> pos' + r.childrenSize]
  <2>1. pos' = Starts(serial)[(m + 1) + 1]
    BY <1>1, <1>5, <1>8
  <2>2. /\ End(serial, m + 1) = pos' + r.childrenSize /\ End(serial, m + 1) \in Nat /\ r.childrenSize \in Nat
        /\ pos + HeaderSize <= End(serial, m + 1)
    <3>1. End(serial, m + 1) = Starts(serial)[(m + 1) + 1] + r.childrenSize
      BY <1>1, <1>3, <1>4, EndsTyped
    <3>2. End(serial, m + 1) \in Nat /\ r.childrenSize \in Nat /\ Starts(serial)[m + 1] + HeaderSize <= End(serial, m + 1)
      BY <1>1, <1>3, <1>4, EndsTyped
    <3> QED BY <1>1, <2>1, <3>1, <3>2
  <2>3. \A k \in 1..L : Starts(serial)[m + 1] < End(serial, open[k].at) /\ End(serial, m + 1) <= End(serial, open[k].at)
    <3> SUFFICES ASSUME NEW k \in 1..L
                 PROVE  pos < End(serial, open[k].at) /\ End(serial, m + 1) <= End(serial, open[k].at)
      BY <1>1
    <3>1. open # <<>> /\ L \in 1..L
      <4>1. L # 0
        BY <1>1
      <4>2. open \in Seq(Opened(serial))
        BY DEF Follows, Walked
      <4> QED BY <1>1, <4>1, EmptySeq
    <3>2. Limit = End(serial, open[L].at)
      BY <1>1, <3>1 DEF Limit
    <3>3. r.childrenSize <= Limit - (pos + HeaderSize + r.size)
      BY <1>5 DEF Readable, ChildrenFit
    <3>4. r.childrenSize <= End(serial, open[L].at) - pos'
      <4>1. pos' = pos + HeaderSize + r.size
        BY <1>5
      <4>2. r.childrenSize <= End(serial, open[L].at) - (pos + HeaderSize + r.size)
        BY <3>2, <3>3
      <4> QED BY <4>1, <4>2
    <3>5. pos' \in Nat
      <4>1. (m + 1) + 1 \in 1..(n + 1)
        BY <1>2, <1>3
      <4> QED BY <1>1, <2>1, <4>1, StartsApart, SMTT(30)
    <3>6. PICK x \in Nat, y \in Nat, z \in Nat : x = End(serial, open[L].at) /\ y = End(serial, open[k].at) /\ z = End(serial, m + 1)
      BY <1>1, <2>2, <3>1
    <3>7. z <= x
      <4>1. PICK q \in Nat, c \in Nat : q = pos' /\ c = r.childrenSize
        BY <2>2, <3>5
      <4>2. z = q + c /\ c <= x - q
        BY <2>2, <3>4, <3>6, <4>1
      <4> QED BY <4>2
    <3>8. x <= y
      BY <1>1, <3>6
    <3>9. pos + 14 <= z
      BY <2>2, <3>6 DEF HeaderSize
    <3>10. pos < y /\ z <= y
      BY <1>1, <3>7, <3>8, <3>9, SMTT(30)
    <3> QED BY <3>6, <3>10
  <2>4. ShapeFits(r.type, r.flags, r.data # Null, r.count)
    <3>1. ShapeFits(r.type, r.flags, r.size > 0, r.count)
      BY <1>5 DEF Readable
    <3> QED BY <1>8, <3>1 DEF ShapeFits
  <2>5. L < limits.nesting /\ m < limits.nodes
    BY <1>1, <1>5 DEF Readable, NodeFits, Follows
  <2>6. PartsAt(serial, m + 1) = Parts(r.type, DataOf(r)) /\ PartsAt(serial, m + 1) \in Nat
    BY <1>1, <1>3, <1>4, <1>8, PartsNatural DEF PartsAt
  <2>7. PartsAt(serial, m + 1) <= limits.partsPerNode /\ state.parts + PartsAt(serial, m + 1) <= limits.parts
    BY <1>5, <2>6 DEF Readable, PartsFit
  <2> HIDE DEF o, f
  <2>8. Walked(serial, limits, m + 1, Append(open, o))
    BY <1>1, <1>3, <1>4, <1>8, <2>3, <2>4, <2>5, <2>7, WalkEnters DEF Follows, o
  <2>9. o \in Opened(serial) /\ o.at = m + 1 /\ Len(o.kids) = 0 /\ open \in Seq(Opened(serial))
    BY <1>3, EmptySeq DEF o, Opened, Follows, Walked
  <2>10. Shows(serial, f, o)
    <3>1. f = [node |-> f.node, count |-> r.count, end |-> End(serial, m + 1)]
      BY <2>2 DEF f
    <3>2. f.node = [type |-> r.type, flags |-> r.flags, data |-> r.data, delimiters |-> f.node.delimiters,
                    original |-> f.node.original, children |-> f.node.children]
      BY <1>8 DEF f, NodeOf
    <3>3. f.node.children = <<>>
      BY DEF f, NodeOf
    <3>4. IsSeq(f.node.children) /\ Len(f.node.children) = 0
      BY <3>3, EmptySeq DEF IsSeq
    <3> QED BY <1>4, <2>9, <3>1, <3>2, <3>4 DEF Shows
  <2>11. AllShown(serial, Append(reading, f), Append(open, o))
    BY <2>9, <2>10, OneMoreShown DEF Follows
  <2>12. /\ IsFiniteSet(PartsOf(serial, 1..(m + 1)))
         /\ Cardinality(PartsOf(serial, 1..(m + 1))) = Cardinality(PartsOf(serial, 1..m)) + PartsAt(serial, m + 1)
    BY <1>1, <1>3, OneMorePart DEF Follows
  <2>13. state' = [nodes |-> m + 1, parts |-> Cardinality(PartsOf(serial, 1..(m + 1)))]
    BY <1>5, <2>6, <2>12 DEF Charge, Follows
  <2>14. m + 1 <= limits.nodes /\ state'.parts <= limits.parts
    <3>1. limits.nodes \in Nat
      BY SerialLimitsAssumption
    <3>2. state'.parts = state.parts + PartsAt(serial, m + 1)
      BY <2>12, <2>13 DEF Follows
    <3> QED BY <1>1, <2>5, <2>7, <3>1, <3>2
  <2>15. reading' = Append(reading, f)
    BY <1>5 DEF f
  <2>16. Follows(m + 1, Append(open, o))'
    BY <1>5, <2>1, <2>8, <2>11, <2>12, <2>13, <2>14, <2>15 DEF Follows
  <2> QED BY <2>16
<1> QED BY <1>1, <1>3, <1>4, <1>6, <1>7, <1>8, ReadWhole

\* In a well-formed input the next record passes every check of the reader.
LEMMA NextReadable ==
    ASSUME ReaderInv, read = "busy", limits \in LimitChoices, NEW m, NEW open, Follows(m, open),
           WellFormed(serial, limits), ~AllChildrenRead
    PROVE  Readable(Record)
<1> DEFINE n == Len(serial.records)
           L == Len(open)
<1>1. /\ serial \in Serials /\ Len(reading) = L /\ (reading = <<>> <=> open = <<>>) /\ L \in Nat
      /\ m \in 0..n /\ (open = <<>> => m = 0) /\ pos \in Nat /\ pos = Starts(serial)[m + 1] /\ m + 1 \in 1..(n + 1)
      /\ \A k \in 1..L : /\ End(serial, open[k].at) \in Nat
                         /\ End(serial, open[L].at) <= End(serial, open[k].at)
      /\ open # <<>> => L \in 1..L /\ Innermost.end = End(serial, open[L].at)
      /\ AllChildrenRead <=> open # <<>> /\ Len(open[L].kids) = serial.records[open[L].at].count
      /\ Walked(serial, limits, m, open)
  BY InnermostShown DEF Follows
<1>2. n \in Nat /\ DOMAIN serial.records = 1..n /\ serial.length \in Nat
  BY <1>1, RecordsTyped
<1>3. m < n /\ (open # <<>> => Starts(serial)[m + 1] < End(serial, open[L].at))
  <2>1. CASE open = <<>>
    <3>1. serial.records # <<>> /\ serial.records \in Seq(SerialRecords)
      BY <1>1, SerialsAssumption DEF WellFormed
    <3>2. n # 0
      BY <3>1, EmptySeq
    <3> QED BY <1>1, <1>2, <2>1, <3>2
  <2>2. CASE open # <<>>
    BY <1>1, <2>2, ChildrenMissing
  <2> QED BY <2>1, <2>2
<1>4. \A k \in 1..L : Starts(serial)[m + 1] < End(serial, open[k].at)
  <2> SUFFICES ASSUME NEW k \in 1..L PROVE pos < End(serial, open[k].at)
    BY <1>1
  <2>1. open # <<>> /\ L \in 1..L
    <3>1. L # 0
      BY <1>1
    <3>2. open \in Seq(Opened(serial))
      BY <1>1 DEF Walked
    <3> QED BY <1>1, <3>1, <3>2, EmptySeq
  <2>2. PICK x \in Nat, y \in Nat : x = End(serial, open[L].at) /\ y = End(serial, open[k].at)
    BY <1>1, <2>1
  <2>3. pos < x /\ x <= y
    BY <1>1, <1>3, <2>1, <2>2
  <2> QED BY <1>1, <2>2, <2>3
<1>5. m + 1 \in 1..n /\ Record = serial.records[m + 1]
  BY <1>1, <1>2, <1>3, RecordMeans
<1>6. PICK r : r = Record /\ r = serial.records[m + 1]
  BY <1>5
<1>7. /\ Exact(r) /\ ShapeFits(r.type, r.flags, r.data # Null, r.count)
      /\ L < limits.nesting /\ m < limits.nodes /\ PartsAt(serial, m + 1) <= limits.partsPerNode
      /\ Cardinality(PartsOf(serial, 1..(m + 1))) <= limits.parts
      /\ End(serial, m + 1) <= IF open = <<>> THEN serial.length ELSE End(serial, open[L].at)
      /\ HeaderSize * r.count <= r.childrenSize
  BY <1>1, <1>3, <1>4, <1>6, NextFits
<1>8. r \in SerialRecords
  BY <1>1, <1>5, <1>6, RecordsTyped
<1>9. r.magic /\ DataTerminated(r) /\ (r.size > 0 <=> r.data # Null) /\ DataOf(r) = r.data /\ r.size \in Nat
      /\ Starts(serial)[m + 1] + HeaderSize + r.size = Starts(serial)[(m + 1) + 1]
  <2>1. r.magic
    BY <1>7 DEF Exact
  <2>2. DataTerminated(r) /\ r.size \in Nat /\ (r.data = Null => r.size = 0)
    <3>1. CASE r.data = Null
      <4>1. r.size = 0
        BY <1>7, <3>1 DEF Exact, RecordSize, HeaderSize
      <4> QED BY <4>1 DEF DataTerminated
    <3>2. CASE r.data # Null
      <4>1. PICK d \in Nat : d = Len(r.data)
        BY <1>8, <3>2, LenProperties DEF SerialRecords
      <4>2. r.size = d + 1 /\ r.terminated
        BY <1>7, <3>2, <4>1 DEF Exact, RecordSize, HeaderSize
      <4> QED BY <3>2, <4>1, <4>2 DEF DataTerminated
    <3> QED BY <3>1, <3>2
  <2>4. Starts(serial)[(m + 1) + 1] = Starts(serial)[m + 1] + RecordSize(r)
    BY <1>1, <1>5, <1>6, StartsMean
  <2>5. PICK z \in Nat : z = RecordSize(r) /\ z >= 14
    BY <1>1, <1>5, <1>6, RecordsTyped DEF HeaderSize
  <2>6. r.size = z - 14
    BY <1>7, <2>5 DEF Exact, HeaderSize
  <2>7. Starts(serial)[m + 1] + HeaderSize + r.size = Starts(serial)[(m + 1) + 1]
    BY <1>1, <2>4, <2>5, <2>6 DEF HeaderSize
  <2>8. r.size > 0 <=> r.data # Null
    <3>1. r.data # Null => r.size > 0
      <4> SUFFICES ASSUME r.data # Null PROVE r.size > 0
        OBVIOUS
      <4>1. PICK d \in Nat : d = Len(r.data)
        BY <1>8, LenProperties DEF SerialRecords
      <4>2. RecordSize(r) = 14 + (d + 1)
        BY <4>1 DEF RecordSize, HeaderSize
      <4> QED BY <2>5, <2>6, <4>2
    <3>2. r.data = Null => ~(r.size > 0)
      BY <2>2
    <3> QED BY <3>1, <3>2
  <2>9. DataOf(r) = r.data
    BY <2>2, <2>8 DEF DataOf
  <2> QED BY <2>1, <2>2, <2>7, <2>8, <2>9
<1>10. PICK e \in Nat, c \in Nat, lim \in Nat, b \in Nat :
          /\ e = End(serial, m + 1) /\ c = r.childrenSize /\ lim = Limit /\ b = Starts(serial)[(m + 1) + 1]
          /\ e = b + c /\ e <= lim /\ pos + 14 + r.size = b
  <2>1. /\ End(serial, m + 1) = Starts(serial)[(m + 1) + 1] + r.childrenSize
        /\ End(serial, m + 1) \in Nat /\ r.childrenSize \in Nat
    BY <1>1, <1>5, <1>6, EndsTyped
  <2>2. Limit = (IF open = <<>> THEN serial.length ELSE End(serial, open[L].at)) /\ Limit \in Nat
    BY <1>1, <1>2 DEF Limit
  <2>3. Starts(serial)[(m + 1) + 1] \in Nat
    <3>1. (m + 1) + 1 \in 1..(n + 1)
      BY <1>2, <1>5
    <3> QED BY <1>1, <3>1, StartsApart
  <2>4. pos + 14 + r.size = Starts(serial)[(m + 1) + 1]
    BY <1>1, <1>9 DEF HeaderSize
  <2> QED BY <1>7, <2>1, <2>2, <2>3, <2>4
<1>11. NodeFits(Len(reading))
  BY <1>1, <1>7 DEF NodeFits, Follows
<1>12. pos <= Limit /\ Limit - pos >= HeaderSize /\ r.size <= Limit - (pos + HeaderSize) /\ ChildrenFit(r)
  <2>1. PICK p \in Nat, z \in Nat : p = pos /\ z = r.size
    BY <1>1, <1>9
  <2>2. p + 14 + z = b /\ e = b + c /\ e <= lim
    BY <1>10, <2>1
  <2>3. p <= lim /\ lim - p >= 14 /\ z <= lim - (p + 14) /\ c <= lim - (p + 14 + z)
    BY <2>2
  <2> QED BY <1>10, <2>1, <2>3 DEF ChildrenFit, HeaderSize
<1>13. ShapeFits(r.type, r.flags, r.size > 0, r.count)
  BY <1>7, <1>9 DEF ShapeFits
<1>14. PartsFit(r.type, DataOf(r))
  <2>1. PartsAt(serial, m + 1) = Parts(r.type, DataOf(r))
    BY <1>6, <1>9 DEF PartsAt
  <2>2. Cardinality(PartsOf(serial, 1..(m + 1))) = Cardinality(PartsOf(serial, 1..m)) + PartsAt(serial, m + 1)
    BY <1>1, <1>3, OneMorePart DEF Follows
  <2> QED BY <1>7, <2>1, <2>2 DEF PartsFit, Follows
<1>15. CountFits(r)
  <2>1. r.count \in Nat
    BY <1>8 DEF SerialRecords
  <2>2. 14 * r.count <= c
    BY <1>7, <1>10 DEF HeaderSize
  <2>3. c \div 14 >= r.count
    BY <2>1, <2>2
  <2> QED BY <1>10, <2>3 DEF CountFits, HeaderSize
<1>16. Readable(r)
  BY <1>9, <1>11, <1>12, <1>13, <1>14, <1>15 DEF Readable
<1> QED BY <1>6, <1>16

LEMMA OneMoreChild ==
    ASSUME NEW s \in Serials, NEW f, NEW o \in Opened(s), Shows(s, f, o),
           NEW i \in 1..Len(s.records), NEW x, IsNodeOf(s, x, i)
    PROVE  Shows(s, [f EXCEPT !.node.children = Append(@, x)], [at |-> o.at, kids |-> Append(o.kids, i)])
<1> DEFINE g == [f EXCEPT !.node.children = Append(@, x)]
           o2 == [at |-> o.at, kids |-> Append(o.kids, i)]
<1>1. PICK r, cs, d, w, e : /\ r = s.records[o.at] /\ cs = f.node.children /\ d = f.node.delimiters /\ w = f.node.original
                            /\ e = End(s, o.at)
  OBVIOUS
<1>2. f = [node |-> [type |-> r.type, flags |-> r.flags, data |-> r.data, delimiters |-> d, original |-> w,
                     children |-> cs],
           count |-> r.count, end |-> e]
  BY <1>1 DEF Shows
<1>3. g = [node |-> [type |-> r.type, flags |-> r.flags, data |-> r.data, delimiters |-> d, original |-> w,
                     children |-> Append(cs, x)],
           count |-> r.count, end |-> e]
  <2>1. PICK node : node = [type |-> r.type, flags |-> r.flags, data |-> r.data, delimiters |-> d, original |-> w,
                            children |-> cs]
    OBVIOUS
  <2>2. PICK more : more = Append(cs, x)
    OBVIOUS
  <2>3. [node EXCEPT !.children = more] = [type |-> r.type, flags |-> r.flags, data |-> r.data, delimiters |-> d,
                                           original |-> w, children |-> more]
    BY <2>1
  <2>4. f = [node |-> node, count |-> r.count, end |-> e] /\ f.node = node /\ node.children = cs
    BY <1>2, <2>1
  <2>5. g = [f EXCEPT !.node = [node EXCEPT !.children = more]]
    BY <2>2, <2>4
  <2> HIDE DEF g
  <2>6. g = [node |-> [node EXCEPT !.children = more], count |-> r.count, end |-> e]
    BY <2>4, <2>5
  <2> QED BY <2>2, <2>3, <2>6
<1>4. PICK S : cs \in Seq(S)
  BY <1>1 DEF Shows, IsSeq
<1>5. PICK n \in Nat : n = Len(cs) /\ n = Len(o.kids)
  BY <1>1, <1>4, LenProperties DEF Shows
<1>6. cs \in Seq(S \cup {x}) /\ x \in S \cup {x}
  BY <1>4, SeqMonotonic
<1>7. /\ Append(cs, x) \in Seq(S \cup {x}) /\ Len(Append(cs, x)) = n + 1 /\ Append(cs, x)[n + 1] = x
      /\ \A c \in 1..n : Append(cs, x)[c] = cs[c]
  <2>1. PICK T : T = S \cup {x}
    OBVIOUS
  <2>2. cs \in Seq(T) /\ x \in T
    BY <1>6, <2>1
  <2>3. /\ Append(cs, x) \in Seq(T) /\ Len(Append(cs, x)) = Len(cs) + 1 /\ Append(cs, x)[Len(cs) + 1] = x
        /\ \A c \in 1..Len(cs) : Append(cs, x)[c] = cs[c]
    BY <2>2, AppendProperties
  <2> QED BY <1>5, <2>1, <2>3
<1>8. /\ Len(Append(o.kids, i)) = n + 1 /\ Append(o.kids, i)[n + 1] = i
      /\ \A c \in 1..n : Append(o.kids, i)[c] = o.kids[c]
  <2>1. PICK T : T = 1..Len(s.records)
    OBVIOUS
  <2>2. o.kids \in Seq(T) /\ i \in T
    BY <2>1 DEF Opened
  <2>3. /\ Len(Append(o.kids, i)) = Len(o.kids) + 1 /\ Append(o.kids, i)[Len(o.kids) + 1] = i
        /\ \A c \in 1..Len(o.kids) : Append(o.kids, i)[c] = o.kids[c]
    BY <2>2, AppendProperties
  <2> QED BY <1>5, <2>3
<1>9. o2.at = o.at /\ o2.kids = Append(o.kids, i) /\ g.node.children = Append(cs, x)
  BY <1>3
<1> HIDE DEF g, o2
<1>10. \A c \in 1..(n + 1) : IsNodeOf(s, g.node.children[c], o2.kids[c])
  <2> SUFFICES ASSUME NEW c \in 1..(n + 1) PROVE IsNodeOf(s, Append(cs, x)[c], Append(o.kids, i)[c])
    BY <1>9
  <2>1. CASE c = n + 1
    BY <1>7, <1>8, <2>1
  <2>2. CASE c \in 1..n
    <3>1. PICK a, b : a = cs[c] /\ b = o.kids[c]
      OBVIOUS
    <3>2. IsNodeOf(s, a, b)
      <4>1. \A k \in 1..Len(o.kids) : IsNodeOf(s, cs[k], o.kids[k])
        <5>1. \A k \in 1..Len(o.kids) : IsNodeOf(s, f.node.children[k], o.kids[k])
          BY DEF Shows
        <5> QED BY <1>1, <5>1
      <4>2. c \in 1..Len(o.kids)
        BY <1>5, <2>2
      <4> QED BY <3>1, <4>1, <4>2
    <3>3. Append(cs, x)[c] = a /\ Append(o.kids, i)[c] = b
      BY <1>7, <1>8, <2>2, <3>1
    <3> QED BY <3>2, <3>3, Zenon
  <2>3. c = n + 1 \/ c \in 1..n
    BY <1>5
  <2> QED BY <2>1, <2>2, <2>3, Zenon
<1>11. IsSeq(g.node.children) /\ Len(g.node.children) = n + 1 /\ Len(o2.kids) = n + 1
  BY <1>7, <1>8, <1>9 DEF IsSeq
<1>12. g = [node |-> g.node, count |-> r.count, end |-> e]
  BY <1>3
<1>13. g.node = [type |-> r.type, flags |-> r.flags, data |-> r.data, delimiters |-> g.node.delimiters,
                 original |-> g.node.original, children |-> g.node.children]
  BY <1>3
<1>14. s.records[o2.at] = r /\ End(s, o2.at) = e
  BY <1>1, <1>9
<1>15. Shows(s, g, o2)
  BY <1>10, <1>11, <1>12, <1>13, <1>14 DEF Shows
<1> QED BY <1>15 DEF g, o2

\* The frames after a subtree was added to the node around it.
LEMMA OuterShown ==
    ASSUME NEW s \in Serials, NEW ranges, NEW open \in Seq(Opened(s)), AllShown(s, ranges, open),
           NEW p \in Nat \ {0}, Len(open) = p + 1, NEW all, Added(open, p, all),
           NEW outer, outer = SubSeq(ranges, 1, p)
    PROVE  AllShown(s, [outer EXCEPT ![p].node.children = Append(@, ranges[p + 1].node)], all)
<1>1. PICK S : ranges \in Seq(S)
  BY DEF AllShown, IsSeq
<1>2. Len(ranges) = p + 1 /\ \A k \in 1..(p + 1) : Shows(s, ranges[k], open[k])
  BY DEF AllShown
<1>3. outer \in Seq(S) /\ Len(outer) = p /\ \A k \in 1..p : outer[k] = ranges[k]
  <2>1. \A k \in 1..p : ranges[k] \in S
    <3>1. \A k \in 1..p : k \in 1..Len(ranges)
      BY <1>2
    <3> QED BY <1>1, <3>1, ElementOfSeq
  <2>2. 1 \in Int /\ p \in Int /\ p - 1 + 1 = p /\ 1 <= p /\ \A k \in 1..p : 1 + k - 1 = k
    OBVIOUS
  <2>3. outer \in Seq(S) /\ Len(outer) = (IF 1 <= p THEN p - 1 + 1 ELSE 0) /\ \A k \in 1..(p - 1 + 1) : outer[k] = ranges[1 + k - 1]
    BY <2>1, <2>2, SubSeqProperties
  <2> QED BY <2>2, <2>3
<1>4. PICK f, x : f = outer[p] /\ x = ranges[p + 1].node
  OBVIOUS
<1>5. PICK g : g = [f EXCEPT !.node.children = Append(@, x)]
  OBVIOUS
<1>6. PICK rs : rs = [outer EXCEPT ![p] = g]
  OBVIOUS
<1>7. rs = [outer EXCEPT ![p].node.children = Append(@, ranges[p + 1].node)]
  BY <1>4, <1>5, <1>6
<1>8. p \in 1..p /\ p \in 1..(p + 1) /\ p + 1 \in 1..(p + 1)
  OBVIOUS
<1>9. open[p] \in Opened(s) /\ open[p + 1] \in Opened(s)
  <2>1. PICK T : T = Opened(s)
    OBVIOUS
  <2>2. open \in Seq(T)
    BY <2>1
  <2>3. open[p] \in T /\ open[p + 1] \in T
    BY <1>8, <2>2, ElementOfSeq
  <2> QED BY <2>1, <2>3
<1>10. IsNodeOf(s, x, open[p + 1].at) /\ open[p + 1].at \in 1..Len(s.records)
  <2>1. Shows(s, ranges[p + 1], open[p + 1])
    BY <1>2, <1>8
  <2>2. /\ x.type = s.records[open[p + 1].at].type /\ x.flags = s.records[open[p + 1].at].flags
        /\ x.data = s.records[open[p + 1].at].data
    BY <1>4, <2>1 DEF Shows
  <2> QED BY <1>9, <2>2 DEF IsNodeOf, Opened
<1>11. Shows(s, f, open[p])
  BY <1>2, <1>3, <1>4, <1>8
<1>12. Shows(s, g, all[p])
  <2>1. PICK o, i : o = open[p] /\ i = open[p + 1].at
    OBVIOUS
  <2>4. o \in Opened(s) /\ i \in 1..Len(s.records) /\ Shows(s, f, o) /\ IsNodeOf(s, x, i)
    BY <1>9, <1>10, <1>11, <2>1, Zenon
  <2>2. Shows(s, [f EXCEPT !.node.children = Append(@, x)], [at |-> o.at, kids |-> Append(o.kids, i)])
    BY <2>4, OneMoreChild, Zenon
  <2>3. all[p] = [at |-> o.at, kids |-> Append(o.kids, i)]
    BY <2>1 DEF Added
  <2> QED BY <1>5, <2>2, <2>3
<1>13. outer \in Seq(S \cup {g}) /\ g \in S \cup {g}
  BY <1>3, SeqMonotonic
<1>14. rs \in Seq(S \cup {g}) /\ Len(rs) = p /\ \A k \in 1..p : rs[k] = IF k = p THEN g ELSE outer[k]
  <2>1. PICK T : T = S \cup {g}
    OBVIOUS
  <2>2. outer \in Seq(T) /\ g \in T /\ p \in 1..Len(outer)
    BY <1>3, <1>8, <1>13, <2>1
  <2>3. rs \in Seq(T) /\ Len(rs) = Len(outer)
    BY <1>6, <2>2, ExceptSeq
  <2>4. \A k \in 1..Len(outer) : rs[k] = IF k = p THEN g ELSE outer[k]
    <3>1. DOMAIN outer = 1..Len(outer)
      BY <2>2, LenProperties
    <3> QED BY <1>6, <3>1
  <2> QED BY <1>3, <2>1, <2>3, <2>4
<1>15. \A k \in 1..p : Shows(s, rs[k], all[k])
  <2> SUFFICES ASSUME NEW k \in 1..p PROVE Shows(s, rs[k], all[k])
    OBVIOUS
  <2>1. CASE k = p
    BY <1>12, <1>14, <2>1
  <2>2. CASE k # p
    <3>1. k \in 1..(p - 1) /\ k \in 1..(p + 1)
      BY <2>2
    <3> QED BY <1>2, <1>3, <1>14, <2>2, <3>1 DEF Added
  <2> QED BY <2>1, <2>2
<1>16. AllShown(s, rs, all)
  BY <1>14, <1>15 DEF AllShown, IsSeq, Added
<1> QED BY <1>7, <1>16

LEMMA NothingRead ==
    ASSUME NEW s \in Serials, NEW l
    PROVE  /\ Walked(s, l, 0, <<>>) /\ AllShown(s, <<>>, <<>>) /\ s.offset = Starts(s)[0 + 1]
           /\ IsFiniteSet(PartsOf(s, 1..0)) /\ Cardinality(PartsOf(s, 1..0)) = 0
<1>1. <<>> \in Seq(Opened(s)) /\ Len(<<>>) = 0
  BY EmptySeq
<1>2. 0 \in 0..Len(s.records)
  BY RecordsTyped
<1>3. Walked(s, l, 0, <<>>)
  BY <1>1, <1>2 DEF Walked
<1>4. AllShown(s, <<>>, <<>>)
  BY <1>1 DEF AllShown, IsSeq
<1>5. PartsOf(s, 1..0) = {}
  <2>1. ASSUME NEW x PROVE x \notin PartsOf(s, 1..0)
    <3>1. ~\E i \in 1..0 : x \in {i} \X (1..PartsAt(s, i))
      OBVIOUS
    <3> QED BY <3>1, PartsMean
  <2> QED BY <2>1
<1>6. IsFiniteSet(PartsOf(s, 1..0)) /\ Cardinality(PartsOf(s, 1..0)) = 0
  BY <1>5, FS_EmptySet
<1>7. s.offset = Starts(s)[1] /\ 0 + 1 = 1
  BY StartsMean
<1> QED BY <1>3, <1>4, <1>6, <1>7

LEMMA UnserializeExact ==
    ASSUME ExactInv, NEW s \in Serials, NEW l \in LimitChoices, Unserialize(s, l)
    PROVE  ExactInv'
<1>1. ReaderInv'
  BY UnserializeReads DEF ExactInv
<1>2. /\ serial' = s /\ limits' = l /\ pos' = s.offset /\ reading' = <<>> /\ state' = [nodes |-> 0, parts |-> 0]
      /\ read' = IF Admitted(s, l) THEN "busy" ELSE "failed"
  BY DEF ExactInv, ReaderInv, Unserialize, NothingCharged, Admitted
<1>3. read' = "busy" => Follows(0, <<>>)'
  <2>1. l.nodes \in Nat /\ l.parts \in Nat
    BY SerialLimitsAssumption
  <2>2. /\ Walked(s, l, 0, <<>>) /\ AllShown(s, <<>>, <<>>) /\ s.offset = Starts(s)[0 + 1]
        /\ IsFiniteSet(PartsOf(s, 1..0)) /\ Cardinality(PartsOf(s, 1..0)) = 0
    BY NothingRead
  <2>3. Walked(s, l, 0, <<>>)' /\ AllShown(serial, reading, <<>>)'
    BY <1>2, <2>2 DEF Walked, AllShown, Family, Shows
  <2>4. state'.parts = 0 /\ 0 <= l.nodes /\ 0 <= l.parts
    BY <1>2, <2>1
  <2> QED BY <1>2, <2>2, <2>4 DEF Follows
<1>4. ReadsExactly'
  BY <1>2 DEF ReadsExactly
<1>5. read' = "busy" => serial' \in Serials /\ limits' \in LimitChoices /\ Admitted(serial, limits)'
  BY <1>2 DEF Admitted
<1> QED BY <1>1, <1>3, <1>4, <1>5 DEF ExactInv

\* Once lost, the reader finds no header again.
LEMMA LostFails ==
    ASSUME serial \in Serials, Lost
    PROVE  ~Readable(Record) /\ ~WellFormed(serial, limits) /\ pos # serial.length
<1>1. Len(serial.records) \in Nat /\ DOMAIN serial.records = 1..Len(serial.records) /\ serial.length \in Nat
  BY RecordsTyped
<1>2. ~Readable(Record)
  <2> SUFFICES ASSUME Readable(Record) PROVE FALSE
    OBVIOUS
  <2>1. Record.magic
    BY DEF Readable
  <2>2. PICK i \in 1..Len(serial.records) : Starts(serial)[i] = pos
    BY <2>1, RecordMeans
  <2>3. i \in 1..(Len(serial.records) + 1)
    BY <1>1
  <2> QED BY <2>2, <2>3 DEF Lost
<1>3. ~WellFormed(serial, limits)
  BY DEF Lost, WellFormed, ValidRecord
<1>4. pos < serial.length
  BY DEF Lost
<1>5. pos # serial.length
  BY <1>1, <1>4
<1> QED BY <1>2, <1>3, <1>5

LEMMA FailsRightly ==
    ASSUME ExactInv, ReaderInv', read' = "failed", ~WellFormed(serial, limits), UNCHANGED <<serial, limits>>
    PROVE  ExactInv'
<1>1. ~WellFormed(serial', limits')
  BY Zenon
<1> QED BY <1>1 DEF ExactInv, ReadsExactly

LEMMA ReadNodeExact ==
    ASSUME ExactInv, ReadNode
    PROVE  ExactInv'
<1>1. /\ ReaderInv /\ ReaderInv' /\ read = "busy" /\ ~AllChildrenRead
      /\ serial \in Serials /\ limits \in LimitChoices /\ Admitted(serial, limits)
  BY ReadNodeReads DEF ExactInv, ReadNode
<1>2. CASE Lost
  <2>1. ~Readable(Record) /\ ~WellFormed(serial, limits)
    BY <1>1, <1>2, LostFails
  <2>2. read' = "failed" /\ UNCHANGED <<serial, limits>>
    BY <2>1 DEF ReadNode, FailRead
  <2> QED BY <1>1, <2>1, <2>2, FailsRightly
<1>3. CASE ~Lost
  <2>1. PICK m, open : Follows(m, open)
    BY <1>1, <1>3 DEF ExactInv
  <2>2. CASE Readable(Record)
    <3>1. /\ pos' = pos + HeaderSize + Record.size
          /\ reading' = Append(reading, [node |-> NodeOf(Record), count |-> Record.count, end |-> pos' + Record.childrenSize])
          /\ Charge(Record.type, DataOf(Record)) /\ UNCHANGED <<serial, limits>> /\ read' = "busy"
      BY <1>1, <2>2 DEF ReadNode
    <3>2. serial.offset <= serial.length
      BY <1>1 DEF Admitted
    <3>3. Lost' \/ \E m2, open2 : Follows(m2, open2)'
      BY <1>1, <2>1, <2>2, <3>1, <3>2, NextRead
    <3>4. serial' \in Serials /\ limits' \in LimitChoices /\ Admitted(serial, limits)' /\ ReadsExactly'
      BY <1>1, <3>1 DEF Admitted, ReadsExactly
    <3> QED BY <1>1, <3>3, <3>4 DEF ExactInv
  <2>3. CASE ~Readable(Record)
    <3>1. read' = "failed" /\ UNCHANGED <<serial, limits>>
      BY <2>3 DEF ReadNode, FailRead
    <3>2. ~WellFormed(serial, limits)
      BY <1>1, <2>1, <2>3, NextReadable
    <3> QED BY <1>1, <3>1, <3>2, FailsRightly
  <2> QED BY <2>2, <2>3
<1> QED BY <1>2, <1>3

LEMMA CompleteMeans ==
    ASSUME ReaderInv, read = "busy", NEW m, NEW open, Follows(m, open), AllChildrenRead
    PROVE  /\ open # <<>> /\ Len(open) \in 1..Len(open)
           /\ ChildrenComplete <=> Complete(serial, m, open[Len(open)])
<1> DEFINE o == open[Len(open)]
<1>1. /\ open # <<>> /\ Len(open) \in 1..Len(open) /\ Len(o.kids) = serial.records[o.at].count /\ Len(o.kids) \in Nat
      /\ Shows(serial, Innermost, o) /\ Innermost.end = End(serial, o.at) /\ pos = Starts(serial)[m + 1]
  BY InnermostShown
<1>2. RangeUsed <=> End(serial, o.at) = Starts(serial)[m + 1]
  BY <1>1 DEF RangeUsed
<1> HIDE DEF o
<1>3. IndentationFits(Innermost.node.children) <=>
               \A c \in 1..Len(o.kids) :
                  "PartialIndent" \in serial.records[o.kids[c]].flags =>
                      /\ IsPartialIndentation(serial.records[o.kids[c]])
                      /\ c < Len(o.kids) /\ serial.records[o.kids[c + 1]].type = "Partial"
  BY <1>1, IndentationMeans
<1>4. ChildrenComplete <=> Complete(serial, m, o)
  BY <1>1, <1>2, <1>3 DEF ChildrenComplete, Complete
<1> QED BY <1>1, <1>4 DEF o

\* The root is the first record.
LEMMA RootIsFirst ==
    ASSUME ReaderInv, read = "busy", NEW m, NEW open, Follows(m, open), Len(open) = 1
    PROVE  /\ open # <<>> /\ open[1].at = 1 /\ 1 \in 1..Len(serial.records) /\ Len(reading) = 1
           /\ IsWhole <=> "PartialIndent" \notin serial.records[1].flags /\ Starts(serial)[m + 1] = serial.length
<1>1. serial \in Serials /\ Walked(serial, limits, m, open)
  BY DEF ReaderInv, Follows
<1>2. /\ m \in 0..Len(serial.records) /\ open # <<>> /\ open[1].at \in 1..Len(serial.records) /\ open[1].at <= m
      /\ Len(serial.records) \in Nat
  <2>1. 1 \in 1..Len(open) /\ Len(open) # 0
    OBVIOUS
  <2> QED BY <1>1, <2>1, OpenTyped
<1>3. open[1].at = 1
  <2>1. m > 0
    BY <1>2
  <2> QED BY <1>1, <2>1 DEF Walked
<1>4. Len(reading) = Len(open) /\ Shows(serial, Innermost, open[Len(open)]) /\ pos = Starts(serial)[m + 1]
  BY <1>2, InnermostShown
<1>5. Innermost.node.flags = serial.records[1].flags
  BY <1>3, <1>4 DEF Shows
<1> QED BY <1>2, <1>3, <1>4, <1>5 DEF IsWhole

LEMMA WholeTree ==
    ASSUME ReaderInv, read = "busy", NEW m, NEW open, Follows(m, open), AllChildrenRead, Len(open) = 1,
           ChildrenComplete, IsWhole, serial.offset <= serial.length
    PROVE  WellFormed(serial, limits)
<1>1. /\ open[1].at = 1 /\ "PartialIndent" \notin serial.records[1].flags /\ Starts(serial)[m + 1] = serial.length
  BY RootIsFirst
<1>2. Complete(serial, m, open[1])
  BY CompleteMeans
<1>3. /\ serial \in Serials /\ Walked(serial, limits, m, open) /\ m <= limits.nodes
      /\ Cardinality(PartsOf(serial, 1..m)) <= limits.parts
  BY DEF ReaderInv, Follows
<1> QED BY <1>1, <1>2, <1>3, WalkEnds

LEMMA ValidTreeFinishes ==
    ASSUME ReaderInv, read = "busy", NEW m, NEW open, Follows(m, open), AllChildrenRead, WellFormed(serial, limits)
    PROVE  ChildrenComplete /\ IsWhole
<1> DEFINE o == open[Len(open)]
<1>1. /\ open # <<>> /\ Len(open) \in 1..Len(open) /\ Len(open) \in Nat /\ Len(reading) = Len(open)
      /\ Len(o.kids) = serial.records[o.at].count /\ Starts(serial)[m + 1] <= End(serial, o.at)
      /\ serial \in Serials /\ Walked(serial, limits, m, open)
  <2>1. /\ open # <<>> /\ Len(open) \in 1..Len(open) /\ Len(open) \in Nat /\ Len(reading) = Len(open)
        /\ Len(o.kids) = serial.records[o.at].count /\ serial \in Serials /\ pos = Starts(serial)[m + 1]
        /\ pos <= End(serial, o.at)
    BY InnermostShown, CompleteMeans
  <2> QED BY <2>1 DEF Follows
<1>2. Complete(serial, m, o)
  <2> HIDE DEF o
  <2>1. o = open[Len(open)]
    BY DEF o
  <2> QED BY <1>1, <2>1, ChildrenInOrder
<1>3. ChildrenComplete
  BY <1>2, CompleteMeans
<1>4. CASE Len(open) = 1
  <2>1. /\ open[1].at = 1 /\ 1 \in 1..Len(serial.records)
        /\ IsWhole <=> "PartialIndent" \notin serial.records[1].flags /\ Starts(serial)[m + 1] = serial.length
    BY <1>4, RootIsFirst
  <2>2. DOMAIN serial.records = 1..Len(serial.records)
    BY <1>1, RecordsTyped
  <2>3. ValidRecord(serial, limits, 1) /\ End(serial, 1) = serial.length
    BY <2>1, <2>2 DEF WellFormed
  <2>4. Starts(serial)[m + 1] = serial.length
    BY <1>2, <1>4, <2>1, <2>3 DEF Complete
  <2>5. ~IndentsPartial(serial, 1)
    <3>1. Around(serial, 1) = {}
      BY DEF Around
    <3> QED BY <3>1 DEF IndentsPartial, IsChild
  <2>6. "PartialIndent" \notin serial.records[1].flags
    BY <2>3, <2>5 DEF ValidRecord
  <2> QED BY <1>3, <2>1, <2>4, <2>6
<1>5. CASE Len(open) # 1
  BY <1>1, <1>3, <1>5 DEF IsWhole
<1> QED BY <1>4, <1>5

LEMMA SubtreeRead ==
    ASSUME ReaderInv, read = "busy", NEW m, NEW open, Follows(m, open), AllChildrenRead, ChildrenComplete,
           NEW p \in Nat \ {0}, Len(open) = p + 1, NEW outer, outer = SubSeq(reading, 1, p),
           reading' = [outer EXCEPT ![p].node.children = Append(@, reading[p + 1].node)],
           UNCHANGED <<serial, pos, limits, state>>
    PROVE  \E all : Follows(m, all)'
<1>1. /\ serial \in Serials /\ Walked(serial, limits, m, open) /\ AllShown(serial, reading, open)
      /\ open \in Seq(Opened(serial))
  BY DEF ReaderInv, Follows, Walked
<1>2. Complete(serial, m, open[p + 1])
  BY CompleteMeans
<1>3. PICK all : Walked(serial, limits, m, all) /\ Added(open, p, all)
  <2>1. PICK s, l : s = serial /\ l = limits
    OBVIOUS
  <2>2. s \in Serials /\ Walked(s, l, m, open) /\ Complete(s, m, open[p + 1])
    BY <1>1, <1>2, <2>1
  <2>3. \E all : Walked(s, l, m, all) /\ Added(open, p, all)
    BY <2>2, WalkLeaves
  <2> QED BY <2>1, <2>3
<1>4. AllShown(serial, reading', all)
  <2>1. PICK ranges : ranges = reading
    OBVIOUS
  <2>2. AllShown(serial, ranges, open) /\ outer = SubSeq(ranges, 1, p)
    BY <1>1, <2>1
  <2>3. AllShown(serial, [outer EXCEPT ![p].node.children = Append(@, ranges[p + 1].node)], all)
    BY <1>1, <1>3, <2>2, OuterShown
  <2> QED BY <2>1, <2>3
<1>5. PICK rs : rs = reading'
  OBVIOUS
<1>6. serial' = serial /\ limits' = limits /\ pos' = pos /\ state' = state
  OBVIOUS
<1>7. Walked(serial', limits', m, all) /\ AllShown(serial', reading', all) /\ pos' = Starts(serial')[m + 1]
  BY <1>3, <1>4, <1>6 DEF Follows
<1>8. /\ state' = [nodes |-> m, parts |-> Cardinality(PartsOf(serial', 1..m))] /\ IsFiniteSet(PartsOf(serial', 1..m))
      /\ m <= limits'.nodes /\ state'.parts <= limits'.parts
  BY <1>6 DEF Follows
<1>9. Follows(m, all)'
  BY <1>7, <1>8 DEF Follows
<1> QED BY <1>9

LEMMA FinishReadExact ==
    ASSUME ExactInv, FinishRead
    PROVE  ExactInv'
<1> DEFINE outer == SubSeq(reading, 1, Len(reading) - 1)
<1>1. /\ ReaderInv /\ ReaderInv' /\ read = "busy" /\ AllChildrenRead /\ serial.offset <= serial.length
      /\ serial \in Serials /\ limits \in LimitChoices /\ Admitted(serial, limits)
  BY FinishReadReads DEF ExactInv, FinishRead, Admitted
<1>2. PICK S : reading \in Seq(S)
  BY <1>1 DEF ReaderInv, Nested, IsSeq
<1>3. Len(reading) \in Nat \ {0}
  BY <1>1, <1>2, LenProperties, EmptySeq DEF AllChildrenRead
<1>4. /\ outer = <<>> <=> Len(reading) = 1
      /\ Len(outer) = Len(reading) - 1
  <2>1. PICK n \in Nat : n = Len(reading) - 1
    BY <1>3
  <2>2. \A i \in 1..n : reading[i] \in S
    BY <1>2, <1>3, <2>1, ElementOfSeq
  <2>3. SubSeq(reading, 1, n) \in Seq(S) /\ Len(SubSeq(reading, 1, n)) = IF 1 <= n THEN n - 1 + 1 ELSE 0
    <3>1. 1 \in Int /\ n \in Int
      OBVIOUS
    <3> QED BY <2>2, <3>1, SubSeqProperties
  <2>4. Len(SubSeq(reading, 1, n)) = n
    BY <2>3
  <2>5. SubSeq(reading, 1, n) = <<>> <=> n = 0
    BY <2>3, <2>4, EmptySeq
  <2> QED BY <1>3, <2>1, <2>4, <2>5
<1> HIDE DEF outer
<1>5. \/ ~(ChildrenComplete /\ IsWhole) /\ FailRead
      \/ /\ ChildrenComplete /\ IsWhole /\ outer = <<>> /\ read' = "done"
         /\ UNCHANGED <<serial, pos, limits, state>>
      \/ /\ ChildrenComplete /\ IsWhole /\ outer # <<>>
         /\ reading' = [outer EXCEPT ![Len(outer)].node.children = Append(@, Innermost.node)]
         /\ UNCHANGED <<serial, pos, limits, state, result, read>>
  BY DEF FinishRead, outer
<1>6. CASE ~(ChildrenComplete /\ IsWhole) /\ FailRead
  <2>1. read' = "failed" /\ UNCHANGED <<serial, limits>>
    BY <1>6 DEF FailRead
  <2>2. ~WellFormed(serial, limits)
    <3>1. CASE Lost
      BY <1>1, <3>1, LostFails
    <3>2. CASE ~Lost
      <4>1. PICK m, open : Follows(m, open)
        BY <1>1, <3>2 DEF ExactInv
      <4> QED BY <1>1, <1>6, <4>1, ValidTreeFinishes
    <3> QED BY <3>1, <3>2
  <2> QED BY <1>1, <2>1, <2>2, FailsRightly
<1>7. CASE /\ ChildrenComplete /\ IsWhole /\ outer = <<>> /\ read' = "done"
           /\ UNCHANGED <<serial, pos, limits, state>>
  <2>1. ~Lost
    <3>1. pos = serial.length
      BY <1>4, <1>7 DEF IsWhole
    <3> QED BY <1>1, <3>1, LostFails
  <2>2. PICK m, open : Follows(m, open)
    BY <1>1, <2>1 DEF ExactInv
  <2>3. Len(open) = 1
    BY <1>4, <1>7, <2>2 DEF Follows, AllShown
  <2>4. WellFormed(serial, limits)
    BY <1>1, <1>7, <2>2, <2>3, WholeTree
  <2>5. WellFormed(serial', limits') /\ Admitted(serial', limits')
    BY <1>1, <1>7, <2>4
  <2> QED BY <1>1, <1>7, <2>5 DEF ExactInv, ReadsExactly
<1>8. CASE /\ ChildrenComplete /\ IsWhole /\ outer # <<>>
           /\ reading' = [outer EXCEPT ![Len(outer)].node.children = Append(@, Innermost.node)]
           /\ UNCHANGED <<serial, pos, limits, state, result, read>>
  <2>1. serial' \in Serials /\ limits' \in LimitChoices /\ Admitted(serial, limits)' /\ ReadsExactly'
    BY <1>1, <1>8 DEF Admitted, ReadsExactly
  <2>2. CASE Lost
    <3>1. Lost'
      BY <1>8, <2>2 DEF Lost
    <3> QED BY <1>1, <2>1, <3>1 DEF ExactInv
  <2>3. CASE ~Lost
    <3>1. PICK m, open : Follows(m, open)
      BY <1>1, <2>3 DEF ExactInv
    <3>2. PICK p \in Nat \ {0} : Len(reading) = p + 1 /\ Len(outer) = p
      <4>1. Len(reading) - 1 \in Nat \ {0} /\ Len(reading) = (Len(reading) - 1) + 1
        BY <1>3, <1>4, <1>8
      <4> QED BY <1>4, <4>1
    <3>3. Len(open) = p + 1
      BY <3>1, <3>2 DEF Follows, AllShown
    <3>4. outer = SubSeq(reading, 1, p) /\ Innermost = reading[p + 1]
      <4>1. Len(reading) - 1 = p
        BY <3>2
      <4> QED BY <3>2, <4>1 DEF outer, Innermost
    <3>5. reading' = [outer EXCEPT ![p].node.children = Append(@, reading[p + 1].node)]
      BY <1>8, <3>2, <3>4
    <3>6. \E all : Follows(m, all)'
      <4>1. UNCHANGED <<serial, pos, limits, state>> /\ ChildrenComplete
        BY <1>8
      <4> QED BY <1>1, <3>1, <3>3, <3>4, <3>5, <4>1, SubtreeRead
    <3> QED BY <1>1, <2>1, <3>6 DEF ExactInv
  <2> QED BY <2>2, <2>3
<1> QED BY <1>5, <1>6, <1>7, <1>8

LEMMA StepExact == ExactInv /\ [ReaderNext]_vars => ExactInv'
<1> SUFFICES ASSUME ExactInv, [ReaderNext]_vars PROVE ExactInv'
  OBVIOUS
<1>1. CASE UNCHANGED vars
  BY <1>1 DEF vars, reader, ExactInv, ReaderInv, Nested, IsSeq, IsFrame, ReadsExactly, Admitted, Lost, Follows
<1> QED BY <1>1, UnserializeExact, ReadNodeExact, FinishReadExact DEF ReaderNext

LEMMA AlwaysExact == ReaderSpec => []ExactInv
<1>1. ReaderInit => ExactInv
  BY DEF ReaderInit, ExactInv, ReaderInv, ReadsExactly
<1> QED BY <1>1, StepExact, PTL DEF ReaderSpec

-----------------------------------------------------------------------------
(* Theorems *)

\* Whatever sizes the headers announce, the next byte to read lies inside the range of every node around it, the
\* ranges are nested, and all are inside the input.
THEOREM ReadsStayInRange == ReaderSpec => []RangesNested
BY AlwaysReads, ReadsInRanges, PTL

\* Bytes are accepted only if they are, to the last one, the records of a valid tree within the limits, and are
\* refused only if they are not: for all records, sizes, limits and nestings.
THEOREM ReadsExactlyTheFormat == ReaderSpec => []ReadsExactly
<1>1. ExactInv => ReadsExactly
  BY DEF ExactInv
<1> QED BY <1>1, AlwaysExact, PTL

=============================================================================
