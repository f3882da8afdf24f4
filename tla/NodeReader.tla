------------------------------- MODULE NodeReader -------------------------------
(***************************************************************************)
(* Node::unserialize: a walk over bytes that nobody vouches for.  Every     *)
(* node announces the size of its children, and that range is the limit of  *)
(* what they may read.                                                     *)
(***************************************************************************)
EXTENDS NodeFormat

CONSTANTS Serials   \* what an application passes: records, the length of the bytes and an offset

VARIABLES
    serial,
    pos,            \* of the next byte
    reading,        \* the nodes whose children are being read, the innermost last
    result,
    read            \* "idle", "busy", "done" or "failed"

reader == <<serial, pos, reading, result, read>>

-----------------------------------------------------------------------------
(* Bytes *)

SerialRecords ==
    [magic : BOOLEAN, type : STRING, flags : SUBSET STRING, size : Nat, count : Nat, childrenSize : Nat,
     data : {Null} \cup Seq(STRING), terminated : BOOLEAN]
RecordSize(r) == HeaderSize + (IF r.data = Null THEN 0 ELSE Len(r.data) + 1)
\* Where the records begin, and where the last one ends.
Starts(s) ==
    LET start[i \in 1..(Len(s.records) + 1)] ==
            IF i = 1 THEN s.offset ELSE start[i - 1] + RecordSize(s.records[i - 1])
    IN start
\* Every record begins in the bytes there are, and only a string that its header announces
\* may be cut off.
ASSUME SerialsAssumption ==
    \A s \in Serials :
        /\ s.offset \in Nat /\ s.length \in Nat /\ s.records \in Seq(SerialRecords)
        /\ s.offset <= s.length =>
              \A i \in DOMAIN s.records :
                  /\ Starts(s)[i] < s.length
                  /\ s.records[i].size = 0 /\ s.records[i].data # Null => Starts(s)[i + 1] <= s.length

\* The record at the next byte; between records nothing looks like a header.
NoRecord ==
    [magic |-> FALSE, type |-> "None", flags |-> {}, size |-> 0, count |-> 0, childrenSize |-> 0, data |-> Null,
     terminated |-> FALSE]
RecordsAt(s, p) == {i \in DOMAIN s.records : Starts(s)[i] = p}
Record ==
    IF RecordsAt(serial, pos) = {} THEN NoRecord ELSE serial.records[CHOOSE i \in RecordsAt(serial, pos) : TRUE]
\* The string terminates where the header says it does.
DataTerminated(r) == r.size > 0 => r.terminated /\ r.data # Null /\ r.size = Len(r.data) + 1
DataOf(r) == IF r.size = 0 THEN Null ELSE r.data

-----------------------------------------------------------------------------
(* Operations *)

ReaderInit ==
    /\ serial = Null /\ pos = 0 /\ reading = <<>> /\ result = Null
    /\ read = "idle"

\* unserializeOwnedRange
Unserialize(s, l) ==
    /\ read = "idle"
    /\ serial' = s /\ limits' = l /\ state' = NothingCharged
    /\ pos' = s.offset
    /\ read' = IF s.offset <= s.length /\ s.length - s.offset <= l.input THEN "busy" ELSE "failed"
    /\ UNCHANGED <<reading, result>>

Innermost == reading[Len(reading)]
AllChildrenRead == reading # <<>> /\ Len(Innermost.node.children) = Innermost.count
Limit == IF reading = <<>> THEN serial.length ELSE Innermost.end

\* Fault: the children's size is compared with the whole range instead of what is left of it.
SizeBelowLimit(r) == r.childrenSize <= Limit
ChildrenFit(r) == r.childrenSize <= Limit - (pos + HeaderSize + r.size)
\* Every child needs at least a header.
CountFits(r) == r.count > 0 => r.childrenSize \div HeaderSize >= r.count

Readable(r) ==
    /\ NodeFits(Len(reading))
    /\ pos <= Limit /\ Limit - pos >= HeaderSize
    /\ r.magic
    /\ ShapeFits(r.type, r.flags, r.size > 0, r.count)
    /\ r.size <= Limit - (pos + HeaderSize)
    /\ DataTerminated(r) /\ PartsFit(r.type, DataOf(r))
    /\ ChildrenFit(r) /\ CountFits(r)
NodeOf(r) ==
    [type |-> r.type, flags |-> r.flags, data |-> DataOf(r),
     delimiters |-> IF r.type = "Section" THEN "default" ELSE Null, original |-> Null, children |-> <<>>]

FailRead == read' = "failed" /\ UNCHANGED <<serial, pos, reading, result, limits, state>>

\* unserializeNode, up to its children
ReadNode ==
    /\ read = "busy" /\ ~AllChildrenRead
    /\ \/ /\ Readable(Record)
          /\ pos' = pos + HeaderSize + Record.size
          /\ reading' = Append(reading,
                [node |-> NodeOf(Record), count |-> Record.count, end |-> pos' + Record.childrenSize])
          /\ Charge(Record.type, DataOf(Record))
          /\ UNCHANGED <<serial, result, read, limits>>
       \/ ~Readable(Record) /\ FailRead

\* Fault: children may leave bytes of their range unread.
WithinRange == pos <= Innermost.end
RangeUsed == pos = Innermost.end
IsWhole == Len(reading) = 1 => "PartialIndent" \notin Innermost.node.flags /\ pos = serial.length
ChildrenComplete == IndentationFits(Innermost.node.children) /\ RangeUsed

\* unserializeNode, after its children; the root also ends unserializeOwnedRange
FinishRead ==
    /\ read = "busy" /\ AllChildrenRead
    /\ \/ /\ ChildrenComplete /\ IsWhole
          /\ LET outer == SubSeq(reading, 1, Len(reading) - 1) IN
             IF outer = <<>>
             THEN reading' = <<>> /\ result' = Innermost.node /\ read' = "done"
             ELSE /\ reading' = [outer EXCEPT ![Len(outer)].node.children = Append(@, Innermost.node)]
                  /\ UNCHANGED <<result, read>>
          /\ UNCHANGED <<serial, pos, limits, state>>
       \/ ~(ChildrenComplete /\ IsWhole) /\ FailRead

-----------------------------------------------------------------------------
(* What the bytes must be, said of the records alone *)

\* Where the children of a record end, as it announces, and the records in whose ranges
\* another one lies.
End(s, i) == Starts(s)[i + 1] + s.records[i].childrenSize
Around(s, j) == {i \in 1..(j - 1) : Starts(s)[j] < End(s, i)}
IsChild(s, j, i) == i \in Around(s, j) /\ \A k \in Around(s, j) : k <= i
ChildrenOf(s, i) == {j \in DOMAIN s.records : IsChild(s, j, i)}

PartsAt(s, i) == Parts(s.records[i].type, s.records[i].data)
\* The parts of these records' dotted names, one by one.
PartsOf(s, nodes) == UNION {{i} \X (1..PartsAt(s, i)) : i \in nodes}
Exact(r) == r.magic /\ (r.data # Null => r.terminated) /\ r.size = RecordSize(r) - HeaderSize
\* A partial follows, next to it.
IndentsPartial(s, i) ==
    \E j, k \in DOMAIN s.records :
        /\ s.records[j].type = "Partial" /\ Starts(s)[j] = End(s, i)
        /\ IsChild(s, i, k) /\ IsChild(s, j, k)

\* The range that a record's sizes announce ends where a record does, lies in those around
\* it, and holds as many nodes as announced.
ValidRecord(s, l, i) ==
    LET r == s.records[i] IN
    /\ Exact(r) /\ ShapeFits(r.type, r.flags, r.data # Null, r.count)
    /\ \E j \in 1..(Len(s.records) + 1) : Starts(s)[j] = End(s, i)
    /\ \A k \in Around(s, i) : End(s, i) <= End(s, k)
    /\ r.count = Cardinality(ChildrenOf(s, i))
    /\ "PartialIndent" \in r.flags => IsPartialIndentation(r) /\ IndentsPartial(s, i)
    /\ Cardinality(Around(s, i)) < l.nesting /\ PartsAt(s, i) <= l.partsPerNode
WellFormed(s, l) ==
    /\ s.records # <<>> /\ \A i \in DOMAIN s.records : ValidRecord(s, l, i)
    /\ End(s, 1) = s.length /\ Starts(s)[Len(s.records) + 1] = s.length
    /\ Len(s.records) <= l.nodes /\ Cardinality(PartsOf(s, DOMAIN s.records)) <= l.parts
Admitted(s, l) == s.offset <= s.length /\ s.length - s.offset <= l.input

-----------------------------------------------------------------------------
(* Properties *)

\* Bytes are accepted exactly when they stand for a valid tree within the limits, to the
\* last byte: nothing trailing, nothing left out, no node in a range not its own
\* (unserializeOwnedRange, "Trailing serial data").
ReadsExactly ==
    /\ read = "done" => Admitted(serial, limits) /\ WellFormed(serial, limits)
    /\ read = "failed" => ~(Admitted(serial, limits) /\ WellFormed(serial, limits))

\* The ranges of nested nodes are nested, the next byte is inside all of them and all
\* of them are inside the input: no read can leave its node's range (require), whatever
\* the headers announce.
RangesNested ==
    read = "busy" =>
        /\ \A i \in DOMAIN reading : pos <= reading[i].end /\ reading[i].end <= serial.length
        /\ \A i, j \in DOMAIN reading : i < j => reading[j].end <= reading[i].end

=============================================================================
