------------------------------ MODULE ArchiveFrame ------------------------------
(***************************************************************************)
(* The bytes around an archived graph: a preamble, the version of its      *)
(* types, a checksum, and the headers of three vectors that say where the  *)
(* graph's tables lie.  Cista writes them and reads them in place, so what *)
(* a header says is checked before anything looks at it.                   *)
(*                                                                         *)
(* An archive is a record of what its bytes say: their number; whether     *)
(* magic, generation, fingerprint and typeVersion are those of this build  *)
(* and the checksum fits; the vectors; and the graph that is found where   *)
(* they lead.  Positions count from the payload's first byte, which is     *)
(* aligned as every table needs it.  Sizes, offsets and the counts of a    *)
(* vector have one width, as in builds of 32 bits.                         *)
(***************************************************************************)
EXTENDS ArchiveFormat, Integers

CONSTANT SizeWidth          \* of std::size_t and of cista::offset_t, which is signed
ASSUME SizeWidthAssumption == SizeWidth \in Nat \ {0}

MaxSize == 2 ^ SizeWidth - 1
MaxOffset == 2 ^ (SizeWidth - 1) - 1
NullOffset == -(2 ^ (SizeWidth - 1))

Tables == <<"nodes", "partials", "strings">>
ElementSize == [nodes |-> NodeSize, partials |-> PartialSize, strings |-> 1]
Alignment == [nodes |-> 4, partials |-> 4, strings |-> 1]
\* Where a vector's header begins, with its pointer.
VectorAt == [nodes |-> HeaderSize + 24, partials |-> HeaderSize + 48, strings |-> HeaderSize + 72]

-----------------------------------------------------------------------------
(* Writing *)

\* CistaSizeCounter and CistaBoundedBuffer: size bytes so far, the last write at position
\* at, and whether everything fits the maximum.
NothingWritten == [size |-> 0, at |-> 0, fits |-> TRUE]
Padding(size, alignment) == (alignment - (size % alignment)) % alignment
Written(target, bytes, alignment, maximum) ==
    LET padding == Padding(target.size, alignment)
        start == target.size + padding
        fits == /\ target.fits
                /\ padding # 0 => target.size <= maximum /\ padding <= maximum - target.size
                /\ start <= maximum /\ bytes <= maximum - start /\ start <= MaxOffset
    IN IF fits THEN [size |-> start + bytes, at |-> start, fits |-> TRUE] ELSE [target EXCEPT !.fits = FALSE]

\* cista::serialize: the type's version, a place for the checksum, the graph, and each
\* table that is not empty.
VectorOf(table, at, used) ==
    [offset |-> IF used = 0 THEN NullOffset ELSE at - VectorAt[table],
     used |-> used, allocated |-> used, self |-> FALSE]
Serialized(g, maximum) ==
    LET headers == Written(Written(NothingWritten, 8, 1, maximum), 8, 1, maximum)
        after[k \in 0..Len(Tables)] ==
            IF k = 0 THEN Written(headers, GraphSize, 8, maximum)
            ELSE LET t == Tables[k] IN
                 IF g[t] = <<>> THEN after[k - 1]
                 ELSE Written(after[k - 1], Len(g[t]) * ElementSize[t], Alignment[t], maximum)
        vector(k) == VectorOf(Tables[k], after[k].at, Len(g[Tables[k]]))
    IN [fits |-> after[Len(Tables)].fits, size |-> after[Len(Tables)].size,
        vectors |-> [nodes |-> vector(1), partials |-> vector(2), strings |-> vector(3)]]

\* Once it is counted, the size is stored in the graph, and everything is written again.
FrameArchive(g, serialized) ==
    [size |-> PreambleSize + serialized.size, magic |-> TRUE, generation |-> TRUE, fingerprint |-> TRUE,
     typeVersion |-> TRUE, checksum |-> TRUE, vectors |-> serialized.vectors,
     graph |-> [g EXCEPT !.size = serialized.size]]

-----------------------------------------------------------------------------
(* Reading *)

Payload(a) == a.size - PreambleSize

PreambleRefusal(a, l) ==
    CASE a.size > l.bytes -> "limit"
      [] a.size <= l.bytes /\ (a.size < PreambleSize \/ ~a.magic) -> "invalid"
      [] a.size \in PreambleSize..l.bytes /\ a.magic /\ ~(a.generation /\ a.fingerprint) -> "unsupported"
      [] a.size = PreambleSize /\ a.size <= l.bytes /\ a.magic /\ a.generation /\ a.fingerprint -> "invalid"
      [] OTHER -> "none"
VersionRefusal(a) ==
    IF Payload(a) < 8 THEN "invalid" ELSE IF ~a.typeVersion THEN "unsupported" ELSE "none"

\* Fault: the number of a table's bytes wraps around.
VectorFitsWrapped(a, t) ==
    LET v == a.vectors[t]
        target == VectorAt[t] + v.offset
    IN  /\ ~v.self /\ v.allocated = v.used
        /\ v.offset = NullOffset <=> v.used = 0
        /\ v.offset # NullOffset =>
              /\ target \in 0..Payload(a)
              /\ (v.used * ElementSize[t]) % (MaxSize + 1) <= Payload(a) - target
              /\ target % Alignment[t] = 0
\* validateSerializedVector: no sum or product is formed before it is known not to wrap.
VectorFits(a, t) ==
    LET v == a.vectors[t]
        target == VectorAt[t] + v.offset
    IN  /\ ~v.self /\ v.allocated = v.used
        /\ v.offset = NullOffset <=> v.used = 0
        /\ v.offset # NullOffset =>
              /\ target \in 0..Payload(a)
              /\ v.used <= MaxSize \div ElementSize[t]
              /\ v.used * ElementSize[t] <= Payload(a) - target
              /\ target % Alignment[t] = 0
LayoutRefusal(a) ==
    IF Payload(a) >= HeaderSize + GraphSize /\ \A t \in DOMAIN ElementSize : VectorFits(a, t)
    THEN "none" ELSE "invalid"

\* cista::deserialize compares the checksum and checks the vectors again, but reports a
\* size that wraps around with an exception that its caller does not expect.
Overflows(a, t) == a.vectors[t].offset # NullOffset /\ a.vectors[t].used > MaxSize \div ElementSize[t]
CistaRefusal(a) ==
    IF ~a.checksum THEN "invalid"
    ELSE IF \E t \in DOMAIN ElementSize : Overflows(a, t) THEN "overflow error" ELSE "none"

\* readArchive, up to the graph
FrameRefusal(a, l) ==
    IF PreambleRefusal(a, l) # "none" THEN PreambleRefusal(a, l)
    ELSE IF VersionRefusal(a) # "none" THEN VersionRefusal(a)
    ELSE IF LayoutRefusal(a) # "none" THEN LayoutRefusal(a)
    ELSE CistaRefusal(a)

=============================================================================
