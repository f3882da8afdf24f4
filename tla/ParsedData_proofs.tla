----------------------------- MODULE ParsedData_proofs ---------------------------
(***************************************************************************)
(* The handlers of JSONDataBuilder make of a text the value it means, and  *)
(* reject it for what it costs only; the expansion of a YAML document      *)
(* follows one way down its graph, never passes a node twice and never     *)
(* exceeds the limits; the preflight and the expansion accept a document   *)
(* exactly when it expands within the limits, to the tree its aliases      *)
(* stand for.  For every text whose events are those of a value or of a    *)
(* document, every graph a text may compose to, cyclic and shared ones     *)
(* included, and every limits.                                             *)
(***************************************************************************)
EXTENDS JSONReference, YAMLReference, FiniteSetTheorems, SequenceTheorems, WellFoundedInduction, TLAPS

-----------------------------------------------------------------------------
(* YAML: the expansion *)

IsSeq(s) == \E S : s \in Seq(S)
IsCall(c) == c = [node |-> c.node, key |-> c.key, done |-> c.done, value |-> c.value]

\* A sequence of calls for different nodes, which are the active ones.
Path(p, a) ==
    /\ IsSeq(p) /\ \A i \in 1..Len(p) : IsCall(p[i])
    /\ \A i, j \in 1..Len(p) : p[i].node = p[j].node => i = j
    /\ a = {p[i].node : i \in 1..Len(p)}
    /\ IsFiniteSet(a) /\ Cardinality(a) = Len(p)

\* Only a build is under way with a path, and it is within the limits.
ExpansionInv ==
    /\ limits \in ParseLimits
    /\ Path(path, active)
    /\ phase \in {"preflight", "load"} => path = <<>> /\ active = {}
    /\ phase = "build" =>
          Len(path) <= limits.nesting /\ Len(path) <= ParseNestingCeiling /\ WithinLimits(used)

-----------------------------------------------------------------------------
(* YAML: paths *)

LEMMA EmptyPath == Path(<<>>, {})
<1>1. <<>> \in Seq({}) /\ Len(<<>>) = 0
  BY EmptySeq
<1> QED BY <1>1, FS_EmptySet DEF Path, IsSeq

LEMMA PushedPath ==
    ASSUME NEW p, NEW a, Path(p, a), NEW c, IsCall(c), c.node \notin a
    PROVE  Path(Append(p, c), a \cup {c.node}) /\ Len(Append(p, c)) = Len(p) + 1 /\ Len(p) \in Nat
<1> DEFINE q == Append(p, c)
<1>a. \A i \in 1..Len(p) : IsCall(p[i])
  BY DEF Path
<1>b. \A i, j \in 1..Len(p) : p[i].node = p[j].node => i = j
  BY DEF Path
<1>c. a = {p[i].node : i \in 1..Len(p)}
  BY DEF Path
<1>d. IsFiniteSet(a) /\ Cardinality(a) = Len(p)
  BY DEF Path
<1>1. PICK S : p \in Seq(S)
  BY DEF Path, IsSeq
<1>2. p \in Seq(S \cup {c}) /\ c \in S \cup {c} /\ Len(p) \in Nat
  BY <1>1, SeqMonotonic, LenProperties
<1>3. q \in Seq(S \cup {c}) /\ Len(q) = Len(p) + 1 /\ q[Len(p) + 1] = c /\ \A i \in 1..Len(p) : q[i] = p[i]
  BY <1>2, AppendProperties, LenProperties
<1> HIDE DEF q
<1>4. \A i \in 1..Len(q) : i \in 1..Len(p) \/ i = Len(p) + 1
  BY <1>2, <1>3
<1>5. \A i \in 1..Len(q) : IsCall(q[i])
  BY <1>a, <1>3, <1>4
<1>6. \A i, j \in 1..Len(q) : q[i].node = q[j].node => i = j
  <2>1. \A i \in 1..Len(p) : q[i].node \in a /\ q[i].node # q[Len(p) + 1].node
    BY <1>c, <1>3
  <2> QED BY <1>b, <1>3, <1>4, <2>1
<1>7. a \cup {c.node} = {q[i].node : i \in 1..Len(q)}
  <2>1. a = {p[i].node : i \in 1..Len(p)}
    BY <1>c
  <2>2. 1..Len(q) = (1..Len(p)) \cup {Len(p) + 1}
    BY <1>2, <1>3
  <2> QED BY <1>3, <2>1, <2>2
<1>8. IsFiniteSet(a \cup {c.node}) /\ Cardinality(a \cup {c.node}) = Len(q)
  BY <1>d, <1>3, FS_AddElement
<1>9. IsSeq(q)
  BY <1>3 DEF IsSeq
<1> QED BY <1>2, <1>3, <1>5, <1>6, <1>7, <1>8, <1>9 DEF Path, q

\* The innermost call goes on.
LEMMA ChangedPath ==
    ASSUME NEW p, NEW a, Path(p, a), p # <<>>, NEW c, IsCall(c), c.node = p[Len(p)].node
    PROVE  Path([p EXCEPT ![Len(p)] = c], a) /\ Len([p EXCEPT ![Len(p)] = c]) = Len(p)
<1> DEFINE q == [p EXCEPT ![Len(p)] = c]
<1>a. \A i \in 1..Len(p) : IsCall(p[i])
  BY DEF Path
<1>b. \A i, j \in 1..Len(p) : p[i].node = p[j].node => i = j
  BY DEF Path
<1>c. a = {p[i].node : i \in 1..Len(p)}
  BY DEF Path
<1>d. IsFiniteSet(a) /\ Cardinality(a) = Len(p)
  BY DEF Path
<1>1. PICK S : p \in Seq(S)
  BY DEF Path, IsSeq
<1>2. p \in Seq(S \cup {c}) /\ c \in S \cup {c} /\ Len(p) \in Nat \ {0}
  BY <1>1, SeqMonotonic, LenProperties, EmptySeq
<1>3. q \in Seq(S \cup {c}) /\ Len(q) = Len(p) /\ q[Len(p)] = c /\ \A i \in 1..Len(p) : i # Len(p) => q[i] = p[i]
  BY <1>2, ExceptSeq, LenProperties
<1> HIDE DEF q
<1>4. \A i \in 1..Len(p) : q[i].node = p[i].node /\ IsCall(q[i])
  BY <1>a, <1>2, <1>3
<1>5. {q[i].node : i \in 1..Len(q)} = {p[i].node : i \in 1..Len(p)}
  BY <1>3, <1>4
<1>6. \A i, j \in 1..Len(q) : q[i].node = q[j].node => i = j
  BY <1>b, <1>3, <1>4
<1>7. IsSeq(q)
  BY <1>3 DEF IsSeq
<1> QED BY <1>c, <1>d, <1>3, <1>4, <1>5, <1>6, <1>7 DEF Path, q

\* The innermost call ends, and its node is no longer active.
LEMMA PoppedPath ==
    ASSUME NEW p, NEW a, Path(p, a), p # <<>>
    PROVE  /\ Path(SubSeq(p, 1, Len(p) - 1), a \ {p[Len(p)].node})
           /\ Len(p) \in Nat \ {0} /\ Len(SubSeq(p, 1, Len(p) - 1)) = Len(p) - 1
<1> DEFINE q == SubSeq(p, 1, Len(p) - 1)
<1>a. \A i \in 1..Len(p) : IsCall(p[i])
  BY DEF Path
<1>b. \A i, j \in 1..Len(p) : p[i].node = p[j].node => i = j
  BY DEF Path
<1>c. a = {p[i].node : i \in 1..Len(p)}
  BY DEF Path
<1>d. IsFiniteSet(a) /\ Cardinality(a) = Len(p)
  BY DEF Path
<1>1. PICK S : p \in Seq(S)
  BY DEF Path, IsSeq
<1>2. Len(p) \in Nat \ {0} /\ \A i \in 1..(Len(p) - 1) : p[i] \in S
  BY <1>1, LenProperties, EmptySeq, ElementOfSeq
<1>3. q \in Seq(S) /\ Len(q) = Len(p) - 1 /\ \A i \in 1..(Len(p) - 1) : q[i] = p[i]
  <2>1. 1 \in Int /\ Len(p) - 1 \in Int /\ Len(p) - 1 <= Len(p)
    BY <1>2
  <2>2. q \in Seq(S)
    BY <1>2, <2>1, SubSeqProperties
  <2>3. Len(q) = IF 1 <= Len(p) - 1 THEN (Len(p) - 1) - 1 + 1 ELSE 0
    BY <1>2, <2>1, SubSeqProperties
  <2>4. \A i \in 1..((Len(p) - 1) - 1 + 1) : q[i] = p[1 + i - 1]
    BY <1>2, <2>1, SubSeqProperties
  <2>5. (Len(p) - 1) - 1 + 1 = Len(p) - 1 /\ \A i \in 1..(Len(p) - 1) : 1 + i - 1 = i
    BY <1>2
  <2> HIDE DEF q
  <2>6. Len(q) = Len(p) - 1
    <3>1. ASSUME NEW n \in Nat \ {0} PROVE (IF 1 <= n - 1 THEN (n - 1) - 1 + 1 ELSE 0) = n - 1
      OBVIOUS
    <3> QED BY <1>2, <2>3, <3>1
  <2>7. \A i \in 1..(Len(p) - 1) : q[i] = p[i]
    BY <2>4, <2>5
  <2> QED BY <2>2, <2>6, <2>7
<1> HIDE DEF q
<1>4. \A i \in 1..Len(q) : IsCall(q[i])
  BY <1>a, <1>2, <1>3
<1>5. \A i, j \in 1..Len(q) : q[i].node = q[j].node => i = j
  BY <1>b, <1>2, <1>3
<1>6. a \ {p[Len(p)].node} = {q[i].node : i \in 1..Len(q)}
  <2>1. a = {p[i].node : i \in 1..Len(p)} /\ \A i \in 1..(Len(p) - 1) : p[i].node # p[Len(p)].node
    BY <1>b, <1>c, <1>2
  <2>2. 1..Len(p) = (1..(Len(p) - 1)) \cup {Len(p)}
    BY <1>2
  <2>3. a = {p[i].node : i \in 1..(Len(p) - 1)} \cup {p[Len(p)].node}
    BY <2>1, <2>2
  <2>4. a \ {p[Len(p)].node} = {p[i].node : i \in 1..(Len(p) - 1)}
    BY <2>1, <2>3
  <2> QED BY <1>3, <2>4
<1>7. p[Len(p)].node \in a
  BY <1>c, <1>2
<1>8. IsFiniteSet(a \ {p[Len(p)].node}) /\ Cardinality(a \ {p[Len(p)].node}) = Len(q)
  BY <1>d, <1>3, <1>7, FS_RemoveElement
<1>9. IsSeq(q)
  BY <1>3 DEF IsSeq
<1> QED BY <1>2, <1>3, <1>4, <1>5, <1>6, <1>8, <1>9 DEF Path, q

-----------------------------------------------------------------------------
(* YAML: steps *)

\* The preflight, and whatever fails, leaves the expansion alone.
LEMMA QuietStep ==
    ASSUME ExpansionInv, UNCHANGED <<limits, path, active>>,
           phase' \in {"preflight", "load"} => phase \in {"preflight", "load"},
           phase' = "build" => phase = "build" /\ UNCHANGED used
    PROVE  ExpansionInv'
<1>1. Path(path', active')
  BY DEF ExpansionInv
<1>2. /\ limits' \in ParseLimits /\ (phase' \in {"preflight", "load"} => path' = <<>> /\ active' = {})
      /\ phase' = "build" =>
            Len(path') <= limits'.nesting /\ Len(path') <= ParseNestingCeiling /\ WithinLimits(used)'
  BY DEF ExpansionInv, WithinLimits
<1> QED BY <1>1, <1>2 DEF ExpansionInv, Path, IsSeq, IsCall, WithinLimits

LEMMA CallIsCall ==
    ASSUME NEW id, NEW key
    PROVE  IsCall(Call(id, key)) /\ Call(id, key).node = id
<1>1. ASSUME NEW v PROVE [node |-> id, key |-> key, done |-> 0, value |-> v].node = id
  OBVIOUS
<1>2. ASSUME NEW v PROVE IsCall([node |-> id, key |-> key, done |-> 0, value |-> v])
  BY DEF IsCall
<1> QED BY <1>1, <1>2 DEF Call

LEMMA AdvancedIsCall ==
    ASSUME NEW call, IsCall(call)
    PROVE  IsCall([call EXCEPT !.done = @ + 1]) /\ [call EXCEPT !.done = @ + 1].node = call.node
BY DEF IsCall

LEMMA PlacedIsCall ==
    ASSUME NEW call, IsCall(call), NEW key, NEW value
    PROVE  IsCall(Placed(call, key, value)) /\ Placed(call, key, value).node = call.node
BY DEF IsCall, Placed

\* A call begins on a path that may go on.
LEMMA EnterStep ==
    ASSUME limits \in ParseLimits, limits' = limits, NEW id, NEW key, NEW spent, NEW calls,
           Path(calls, active), Len(calls) = Len(path),
           CanEnter(id, spent), Enter(id, key, spent, calls), phase' = "build"
    PROVE  ExpansionInv'
<1>1. Path(path', active') /\ Len(path') = Len(path) + 1 /\ Len(path) \in Nat
  BY CallIsCall, PushedPath DEF Enter, CanEnter
<1>2. limits.nesting \in Nat /\ ParseNestingCeiling \in Nat
  BY ParseLimitsAssumption
<1>3. Len(path') <= limits'.nesting /\ Len(path') <= ParseNestingCeiling
  BY <1>1, <1>2 DEF CanEnter, TooDeep
<1>4. WithinLimits(used)'
  BY DEF CanEnter, Enter, Affordable, WithinLimits, Consume
<1> QED BY <1>1, <1>3, <1>4 DEF ExpansionInv, Path, IsSeq, IsCall, WithinLimits

LEMMA InitExpands == Init => ExpansionInv
<1> SUFFICES ASSUME Init PROVE ExpansionInv
  OBVIOUS
<1>1. limits \in ParseLimits /\ path = <<>> /\ active = {} /\ phase # "build"
  BY DEF Init
<1> QED BY <1>1, EmptyPath DEF ExpansionInv

LEMMA PreflightExpands ==
    ASSUME ExpansionInv, Preflight
    PROVE  ExpansionInv'
<1>1. UNCHANGED <<limits, path, active>> /\ phase = "preflight" /\ phase' \in {"preflight", "load", "failed"}
  BY DEF Preflight, DocumentStart, DocumentEnd, ConsumeKey, ConsumeValue, StartContainer, EndContainer, EndPreflight,
     Event, Go, Fail, builder
<1> QED BY <1>1, QuietStep

LEMMA LoadExpands ==
    ASSUME ExpansionInv, Load
    PROVE  ExpansionInv'
<1>1. CASE Fail
  BY <1>1, QuietStep DEF Fail, builder
<1>2. CASE CanEnter(1, Unused) /\ Enter(1, Null, Unused, path) /\ phase' = "build" /\ limits' = limits
  BY <1>2, EnterStep DEF ExpansionInv
<1> QED BY <1>1, <1>2 DEF Load

LEMMA NextItemExpands ==
    ASSUME ExpansionInv, NextItem
    PROVE  ExpansionInv'
<1> DEFINE item == Children(Innermost.node)[Innermost.done + 1]
           mapping == Node(Innermost.node).kind = "mapping"
           spent == IF mapping /\ (mapping => Node(item.key).kind = "scalar")
                    THEN Consume(used, Cost(0, Node(item.key).size, 0)) ELSE used
           key == IF mapping THEN Node(item.key).text ELSE Null
           calls == [path EXCEPT ![Len(path)].done = @ + 1]
<1>1. CASE Fail
  BY <1>1, QuietStep DEF Fail, builder
<1>2. CASE CanEnter(item.node, spent) /\ Enter(item.node, key, spent, calls) /\ UNCHANGED <<limits, phase>>
  <2>1. path # <<>> /\ phase' = "build" /\ Path(path, active) /\ limits \in ParseLimits
    BY <1>2 DEF NextItem, ExpansionInv
  <2> DEFINE call == [path[Len(path)] EXCEPT !.done = @ + 1]
  <2>2. IsCall(path[Len(path)])
    <3>1. Len(path) \in 1..Len(path)
      BY <2>1, PoppedPath
    <3>2. \A i \in 1..Len(path) : IsCall(path[i])
      BY <2>1 DEF Path
    <3> QED BY <3>1, <3>2
  <2>3. IsCall(call) /\ call.node = path[Len(path)].node
    BY <2>2, AdvancedIsCall
  <2>4. calls = [path EXCEPT ![Len(path)] = call]
    OBVIOUS
  <2>5. Path(calls, active) /\ Len(calls) = Len(path)
    BY <2>1, <2>3, <2>4, ChangedPath
  <2> HIDE DEF item, mapping, spent, key, calls
  <2> QED BY <1>2, <2>1, <2>5, EnterStep
<1> QED BY <1>1, <1>2 DEF NextItem

LEMMA ReturnExpands ==
    ASSUME ExpansionInv, Return
    PROVE  ExpansionInv'
<1> DEFINE callers == SubSeq(path, 1, Len(path) - 1)
<1>1. /\ phase = "build" /\ path # <<>> /\ Path(path, active) /\ active' = active \ {path[Len(path)].node}
      /\ UNCHANGED <<limits, used>>
  BY DEF Return, ExpansionInv, Left, Innermost
<1>2. Path(callers, active') /\ Len(path) \in Nat \ {0} /\ Len(callers) = Len(path) - 1
  BY <1>1, PoppedPath
<1>3. CASE callers = <<>> /\ path' = <<>> /\ phase' = "trailing"
  <2>1. Path(path', active')
    BY <1>2, <1>3
  <2> QED BY <1>1, <1>3, <2>1 DEF ExpansionInv, Path, IsSeq, IsCall
<1>4. CASE /\ callers # <<>> /\ UNCHANGED phase
           /\ path' = [callers EXCEPT ![Len(callers)] = Placed(@, Innermost.key, Innermost.value)]
  <2> DEFINE call == Placed(callers[Len(callers)], Innermost.key, Innermost.value)
  <2>1. IsCall(callers[Len(callers)])
    BY <1>2, <1>4, PoppedPath DEF Path
  <2>2. IsCall(call) /\ call.node = callers[Len(callers)].node
    BY <2>1, PlacedIsCall
  <2>3. path' = [callers EXCEPT ![Len(callers)] = call]
    BY <1>4
  <2> HIDE DEF call, callers
  <2>4. Path([callers EXCEPT ![Len(callers)] = call], active')
        /\ Len([callers EXCEPT ![Len(callers)] = call]) = Len(callers)
    BY <1>2, <1>4, <2>2, ChangedPath
  <2>5. Path(path', active') /\ Len(path') = Len(path) - 1
    BY <1>2, <2>3, <2>4 DEF callers
  <2>6. Len(path') <= limits'.nesting /\ Len(path') <= ParseNestingCeiling
    <3>1. limits.nesting \in Nat /\ ParseNestingCeiling \in Nat
      BY ParseLimitsAssumption DEF ExpansionInv
    <3> QED BY <1>1, <1>2, <2>5, <3>1 DEF ExpansionInv
  <2>7. WithinLimits(used)' /\ limits' \in ParseLimits /\ phase' = "build"
    BY <1>1, <1>4 DEF ExpansionInv, WithinLimits
  <2> QED BY <2>5, <2>6, <2>7 DEF ExpansionInv, Path, IsSeq, IsCall, WithinLimits
<1> QED BY <1>3, <1>4 DEF Return

LEMMA StepExpands == ExpansionInv /\ [Next]_vars => ExpansionInv'
<1> SUFFICES ASSUME ExpansionInv, [Next]_vars PROVE ExpansionInv'
  OBVIOUS
<1>1. CASE CheckTrailing
  BY <1>1, QuietStep DEF CheckTrailing, Fail, builder
<1>2. CASE UNCHANGED vars
  BY <1>2, QuietStep DEF vars, builder
<1> QED
  BY <1>1, <1>2, PreflightExpands, LoadExpands, NextItemExpands, ReturnExpands DEF Next, Build, Ended

LEMMA AlwaysExpands == Spec => []ExpansionInv
BY InitExpands, StepExpands, PTL DEF Spec

LEMMA ExpansionIsPath == ExpansionInv => ActiveIsPath
<1> SUFFICES ASSUME ExpansionInv, phase = "build" PROVE ActiveIsPath
  BY DEF ActiveIsPath
<1>1. PICK S : path \in Seq(S)
  BY DEF ExpansionInv, Path, IsSeq
<1>2. DOMAIN path = 1..Len(path)
  BY <1>1, LenProperties
<1> QED BY <1>2 DEF ExpansionInv, Path, ActiveIsPath

\* No alias makes a document expand without end: while it is built, the nodes being expanded are different ones
\* on one way from the root, no more than the nesting limits allow, and what was charged stays within the limits.
THEOREM ExpansionStaysOnPath == Spec => []ActiveIsPath
BY AlwaysExpands, ExpansionIsPath, PTL

-----------------------------------------------------------------------------
(* JSON: which container an event lies in *)

\* A set of numbers that is not empty has a least element.
LEMMA Least ==
    ASSUME NEW S \in SUBSET Nat, S # {}
    PROVE  \E x \in S : \A y \in S : x <= y
<1> DEFINE R == {ss \in Nat \X Nat : ss[1] < ss[2]}
<1>1. IsWellFoundedOn(R, Nat)
  BY NatLessThanWellFounded DEF OpToRel
<1>2. PICK x \in S : \A y \in S : ~ (<<y, x>> \in R)
  <2> HIDE DEF R
  <2> QED BY <1>1, WFMin, Zenon
<1>3. \A y \in S : ~ (y < x)
  BY <1>2
<1> QED BY <1>3

Kind(events, p) == events[p].kind
\* What a parser reports, as far as it is assumed.
Proper(events) ==
    /\ events \in Seq({events[p] : p \in DOMAIN events})
    /\ \A p \in DOMAIN events :
          Kind(events, p) \in Kinds /\ events[p].size \in Nat /\ events[p].inRange \in BOOLEAN
    /\ IsValue(events)

LEMMA DocumentIsProper == ASSUME NEW d \in Documents PROVE Proper(d.events)
  BY DocumentsAssumption DEF Proper, Kind

LEMMA ProperShape ==
    ASSUME NEW events, Proper(events)
    PROVE  Len(events) \in Nat /\ Len(events) # 0 /\ DOMAIN events = 1..Len(events)
<1>1. PICK S : events \in Seq(S)
  BY DEF Proper
<1>2. events # <<>>
  BY DEF Proper, IsValue
<1> QED BY <1>1, <1>2, LenProperties, EmptySeq

\* The equation that Around solves.
AroundAt(events, f, p) ==
    IF p <= 1 THEN 0
    ELSE IF events[p - 1].kind \in Starts THEN p - 1
    ELSE IF events[p - 1].kind \in Ends THEN f[f[p - 1]]
    ELSE f[p - 1]

LEMMA AroundExists ==
    ASSUME NEW events, NEW n \in Nat
    PROVE  \E f : f = [p \in 0..n |-> AroundAt(events, f, p)]
<1> DEFINE Solves(f, m) == f \in [0..m -> Nat] /\ \A p \in 0..m : f[p] <= p /\ f[p] = AroundAt(events, f, p)
           Bad == {m \in Nat : ~ \E f : Solves(f, m)}
<1>1. Bad = {}
  <2> SUFFICES ASSUME Bad # {} PROVE FALSE
    OBVIOUS
  <2>1. PICK m \in Bad : \A k \in Bad : m <= k
    <3>1. Bad \in SUBSET Nat
      OBVIOUS
    <3> HIDE DEF Bad
    <3> QED BY <3>1, Least
  <2>2. m \in Nat /\ ~ \E f : Solves(f, m)
    OBVIOUS
  <2>3. m # 0
    <3>1. Solves([p \in 0..0 |-> 0], 0)
      BY DEF AroundAt
    <3> QED BY <2>2, <3>1
  <2>4. m - 1 \in Nat /\ m - 1 \notin Bad
    <3>1. m - 1 \in Nat /\ m - 1 < m
      BY <2>2, <2>3
    <3> HIDE DEF Bad
    <3> QED BY <2>1, <3>1, <2>2
  <2>5. PICK f : Solves(f, m - 1)
    BY <2>4
  <2>6. \A p \in 0..(m - 1) : f[p] \in 0..p
    BY <2>5
  <2>7. PICK v : v = AroundAt(events, f, m)
    OBVIOUS
  <2>8. v \in Nat /\ v <= m
    <3>1. m = 1 \/ (m - 1 \in 0..(m - 1) /\ ~(m <= 1))
      BY <2>2, <2>3
    <3>2. CASE m = 1
      BY <2>7, <3>2 DEF AroundAt
    <3>3. CASE m - 1 \in 0..(m - 1) /\ ~(m <= 1)
      <4>1. f[m - 1] \in 0..(m - 1)
        BY <2>6, <3>3
      <4>2. f[f[m - 1]] \in 0..(m - 1)
        BY <2>2, <2>6, <4>1
      <4> QED BY <2>2, <2>7, <3>3, <4>1, <4>2 DEF AroundAt
    <3> QED BY <3>1, <3>2, <3>3
  <2>9. PICK g : g = [p \in 0..m |-> IF p = m THEN v ELSE f[p]]
    OBVIOUS
  <2>10. g \in [0..m -> Nat] /\ g[m] = v /\ \A p \in 0..(m - 1) : g[p] = f[p]
    <3>1. \A p \in 0..m : p = m \/ p \in 0..(m - 1)
      BY <2>2
    <3>2. \A p \in 0..(m - 1) : p \in 0..m /\ p # m
      BY <2>2
    <3> QED BY <2>2, <2>6, <2>8, <2>9, <3>1, <3>2
  <2>11. ASSUME NEW p \in 0..m PROVE AroundAt(events, g, p) = AroundAt(events, f, p)
    <3>1. CASE p <= 1
      BY <3>1 DEF AroundAt
    <3>2. CASE ~(p <= 1)
      <4>1. p - 1 \in 0..(m - 1)
        BY <2>2, <3>2
      <4>2. f[p - 1] \in 0..(p - 1)
        BY <2>6, <4>1
      <4>3. f[p - 1] \in 0..(m - 1)
        BY <2>2, <4>2
      <4>4. g[p - 1] = f[p - 1] /\ g[f[p - 1]] = f[f[p - 1]]
        BY <2>10, <4>1, <4>3
      <4> QED BY <4>4 DEF AroundAt
    <3> QED BY <3>1, <3>2
  <2>12. ASSUME NEW p \in 0..m PROVE g[p] <= p /\ g[p] = AroundAt(events, g, p)
    <3>1. CASE p = m
      BY <2>7, <2>8, <2>10, <2>11, <3>1
    <3>2. CASE p # m
      <4>1. p \in 0..(m - 1)
        BY <2>2, <3>2
      <4>2. g[p] = f[p] /\ f[p] <= p /\ f[p] = AroundAt(events, f, p)
        BY <2>5, <2>10, <4>1
      <4> QED BY <2>11, <4>2
    <3> QED BY <3>1, <3>2
  <2>13. Solves(g, m)
    BY <2>10, <2>12
  <2> QED BY <2>2, <2>13
<1>2. PICK f : Solves(f, n)
  BY <1>1
<1> QED BY <1>2

LEMMA AroundIs ==
    ASSUME NEW events, Len(events) \in Nat
    PROVE  /\ DOMAIN Around(events) = 0..(Len(events) + 1)
           /\ \A p \in 0..(Len(events) + 1) : Around(events)[p] = AroundAt(events, Around(events), p)
<1> DEFINE D == 0..(Len(events) + 1)
           Solves(f) == f = [p \in D |-> AroundAt(events, f, p)]
<1>1. \E f : Solves(f)
  <2>1. Len(events) + 1 \in Nat
    OBVIOUS
  <2> QED BY <2>1, AroundExists
<1>2. Around(events) = CHOOSE f : Solves(f)
  BY DEF Around, AroundAt
<1>3. Solves(Around(events))
  <2> HIDE DEF Solves
  <2> QED BY <1>1, <1>2
<1>4. PICK w : w = Around(events)
  OBVIOUS
<1>5. w = [p \in D |-> AroundAt(events, w, p)]
  BY <1>3, <1>4
<1> QED BY <1>4, <1>5

\* It lies before the event.
LEMMA AroundIsBefore ==
    ASSUME NEW events, Len(events) \in Nat, NEW p \in 0..(Len(events) + 1)
    PROVE  Around(events)[p] \in Nat /\ Around(events)[p] <= p /\ (p # 0 => Around(events)[p] < p)
<1>1. PICK w, n : w = Around(events) /\ n = Len(events) + 1 /\ n \in Nat
  OBVIOUS
<1>2. \A i \in 0..n : w[i] = AroundAt(events, w, i)
  BY <1>1, AroundIs
<1> DEFINE Good(i) == w[i] \in Nat /\ w[i] <= i /\ (i # 0 => w[i] < i)
           Bad == {i \in 0..n : ~Good(i)}
<1>3. Bad = {}
  <2> SUFFICES ASSUME Bad # {} PROVE FALSE
    OBVIOUS
  <2>1. PICK m \in Bad : \A k \in Bad : m <= k
    <3>1. Bad \in SUBSET Nat
      BY <1>1
    <3> HIDE DEF Bad
    <3> QED BY <3>1, Least
  <2>2. m \in 0..n /\ ~Good(m)
    OBVIOUS
  <2>3. ASSUME NEW k \in 0..(m - 1) PROVE w[k] \in 0..k
    <3>1. k \in 0..n /\ ~(m <= k)
      BY <1>1, <2>2
    <3>2. Good(k)
      <4>1. k \notin Bad
        <5> HIDE DEF Bad
        <5> QED BY <2>1, <3>1
      <4> QED BY <3>1, <4>1
    <3> QED BY <3>1, <3>2
  <2>4. CASE m <= 1
    <3>1. w[m] = 0
      BY <1>2, <2>2, <2>4 DEF AroundAt
    <3> QED BY <2>2, <3>1
  <2>5. CASE ~(m <= 1)
    <3>1. m - 1 \in 0..(m - 1)
      BY <2>2, <2>5
    <3>2. w[m - 1] \in 0..(m - 1)
      BY <2>3, <3>1
    <3>3. w[w[m - 1]] \in 0..w[m - 1]
      BY <2>3, <3>2
    <3>4. w[w[m - 1]] \in 0..(m - 1)
      BY <2>2, <3>2, <3>3
    <3>5. w[m] = AroundAt(events, w, m)
      BY <1>2, <2>2
    <3>6. w[m] \in 0..(m - 1)
      BY <2>2, <2>5, <3>1, <3>2, <3>4, <3>5 DEF AroundAt
    <3> QED BY <2>2, <3>6
  <2> QED BY <2>4, <2>5
<1>4. p \in 0..n
  BY <1>1
<1> QED BY <1>1, <1>3, <1>4

LEMMA AroundNext ==
    ASSUME NEW events, Len(events) \in Nat, NEW p \in 1..Len(events)
    PROVE  /\ Kind(events, p) \in Starts => Around(events)[p + 1] = p
           /\ Kind(events, p) \in Ends => Around(events)[p + 1] = Around(events)[Around(events)[p]]
           /\ Kind(events, p) \notin Starts \cup Ends => Around(events)[p + 1] = Around(events)[p]
<1>1. PICK w : w = Around(events)
  OBVIOUS
<1>2. p + 1 \in 0..(Len(events) + 1) /\ ~(p + 1 <= 1) /\ (p + 1) - 1 = p
  OBVIOUS
<1>3. w[p + 1] = AroundAt(events, w, p + 1)
  BY <1>1, <1>2, AroundIs
<1>4. w[p + 1] = IF events[p].kind \in Starts THEN p ELSE IF events[p].kind \in Ends THEN w[w[p]] ELSE w[p]
  BY <1>2, <1>3 DEF AroundAt
<1>5. Starts \cap Ends = {}
  BY DEF Starts, Ends
<1> QED BY <1>1, <1>4, <1>5 DEF Kind

LEMMA ProperMeans ==
    ASSUME NEW events, Proper(events)
    PROVE  /\ Kind(events, 1) \in Scalars \cup Starts
           /\ Around(events)[Len(events) + 1] = 0
           /\ \A p \in 2..Len(events) : Around(events)[p] # 0
           /\ Around(events)[1] = 0
           /\ \A p \in 1..Len(events) : Kind(events, p) = "endArray" => Kind(events, Around(events)[p]) = "startArray"
           /\ \A p \in 1..Len(events) : Kind(events, p) \in {"endObject", "key"} =>
                  Around(events)[p] # 0 /\ Kind(events, Around(events)[p]) = "startObject"
           /\ \A p \in 1..Len(events) : Kind(events, p) = "key" => Kind(events, p + 1) \in Scalars \cup Starts
           /\ \A p \in 1..Len(events) :
                  Kind(events, p) \in Scalars \cup Starts /\ Around(events)[p] # 0
                        /\ Kind(events, Around(events)[p]) = "startObject" => Kind(events, p - 1) = "key"
<1>1. Len(events) \in Nat /\ Len(events) # 0
  BY ProperShape
<1>2. Around(events)[1] = 0
  <2>1. 1 \in 0..(Len(events) + 1)
    BY <1>1
  <2>2. Around(events)[1] \in Nat /\ Around(events)[1] < 1
    BY <1>1, <2>1, AroundIsBefore
  <2> QED BY <2>2
<1>3. IsValue(events)
  BY DEF Proper
<1> QED BY <1>2, <1>3 DEF IsValue, Kind

\* A container is one that was started before.
LEMMA AroundIsStart ==
    ASSUME NEW events, Len(events) \in Nat, NEW p \in 1..(Len(events) + 1), Around(events)[p] # 0
    PROVE  /\ Around(events)[p] \in 1..Len(events) /\ Around(events)[p] < p
           /\ Kind(events, Around(events)[p]) \in Starts
<1>1. PICK w, n : w = Around(events) /\ n = Len(events) /\ n \in Nat
  OBVIOUS
<1>2. \A i \in 1..(n + 1) : w[i] \in Nat /\ w[i] < i
  BY <1>1, AroundIsBefore
<1> DEFINE Bad == {i \in 1..(n + 1) : w[i] # 0 /\ Kind(events, w[i]) \notin Starts}
<1>3. Bad = {}
  <2> SUFFICES ASSUME Bad # {} PROVE FALSE
    OBVIOUS
  <2>1. PICK m \in Bad : \A k \in Bad : m <= k
    <3>1. Bad \in SUBSET Nat
      BY <1>1
    <3> HIDE DEF Bad
    <3> QED BY <3>1, Least
  <2>2. m \in 1..(n + 1) /\ w[m] # 0 /\ Kind(events, w[m]) \notin Starts
    OBVIOUS
  <2>3. ASSUME NEW k \in 1..(n + 1), k < m, w[k] # 0 PROVE Kind(events, w[k]) \in Starts
    <3>1. k \notin Bad
      <4> HIDE DEF Bad
      <4> QED BY <1>1, <2>1, <2>2, <2>3
    <3> QED BY <2>3, <3>1
  <2>4. PICK q : q = m - 1
    OBVIOUS
  <2>5. q \in 1..n /\ m = q + 1 /\ q < m /\ q \in 1..(n + 1)
    <3>1. m # 1
      <4>1. w[1] < 1
        BY <1>1, <1>2
      <4> QED BY <1>1, <1>2, <2>2, <4>1
    <3> QED BY <1>1, <2>2, <2>4, <3>1
  <2>6. /\ Kind(events, q) \in Starts => w[m] = q
        /\ Kind(events, q) \in Ends => w[m] = w[w[q]]
        /\ Kind(events, q) \notin Starts \cup Ends => w[m] = w[q]
    BY <1>1, <2>5, AroundNext
  <2>7. CASE Kind(events, q) \in Starts
    BY <2>2, <2>6, <2>7
  <2>8. CASE Kind(events, q) \notin Starts \cup Ends
    BY <2>2, <2>3, <2>5, <2>6, <2>8
  <2>9. CASE Kind(events, q) \in Ends
    <3>1. w[m] = w[w[q]] /\ w[q] \in Nat /\ w[q] < q
      BY <1>2, <2>5, <2>6, <2>9
    <3>2. w[q] # 0
      <4>1. w[0] = 0
        <5>1. 0 \in 0..(n + 1)
          BY <1>1
        <5> QED BY <1>1, <5>1, AroundIsBefore
      <4> QED BY <2>2, <3>1, <4>1
    <3>3. w[q] \in 1..(n + 1) /\ w[q] < m
      BY <1>1, <2>5, <3>1, <3>2
    <3> QED BY <2>2, <2>3, <3>1, <3>3
  <2> QED BY <2>7, <2>8, <2>9
<1>4. p \in 1..(n + 1) /\ w[p] # 0
  BY <1>1
<1>5. Kind(events, w[p]) \in Starts
  BY <1>3, <1>4
<1>6. w[p] \in 1..n /\ w[p] < p
  BY <1>1, <1>2, <1>4
<1> QED BY <1>1, <1>5, <1>6

\* What comes after the end of a container does not lie in it, nor in a part of it.
LEMMA EndedForGood ==
    ASSUME NEW events, Len(events) \in Nat, NEW e \in 1..Len(events), Kind(events, e) \in Ends, Around(events)[e] # 0,
           NEW p \in (e + 1)..(Len(events) + 1)
    PROVE  Around(events)[p] < Around(events)[e] \/ Around(events)[p] > e
<1>1. PICK w, n : w = Around(events) /\ n = Len(events) /\ n \in Nat
  OBVIOUS
<1>2. \A i \in 1..(n + 1) : w[i] \in Nat /\ w[i] < i
  BY <1>1, AroundIsBefore
<1>3. PICK o : o = w[e] /\ o \in 1..n /\ o < e
  BY <1>1, <1>2
<1>4. w[o] < o /\ w[o] \in Nat
  BY <1>1, <1>2, <1>3
<1> DEFINE Bad == {i \in (e + 1)..(n + 1) : ~(w[i] < o \/ w[i] > e)}
<1>5. Bad = {}
  <2> SUFFICES ASSUME Bad # {} PROVE FALSE
    OBVIOUS
  <2>1. PICK m \in Bad : \A k \in Bad : m <= k
    <3>1. Bad \in SUBSET Nat
      BY <1>1
    <3> HIDE DEF Bad
    <3> QED BY <3>1, Least
  <2>2. m \in (e + 1)..(n + 1) /\ ~(w[m] < o \/ w[m] > e)
    OBVIOUS
  <2>3. ASSUME NEW k \in (e + 1)..(n + 1), k < m PROVE w[k] < o \/ w[k] > e
    <3>1. k \notin Bad
      <4> HIDE DEF Bad
      <4> QED BY <1>1, <2>1, <2>2, <2>3
    <3> QED BY <2>3, <3>1
  <2>4. PICK q : q = m - 1
    OBVIOUS
  <2>5. q \in 1..n /\ m = q + 1 /\ q < m /\ q \in 1..(n + 1) /\ q >= e
    BY <1>1, <2>2, <2>4
  <2>6. /\ Kind(events, q) \in Starts => w[m] = q
        /\ Kind(events, q) \in Ends => w[m] = w[w[q]]
        /\ Kind(events, q) \notin Starts \cup Ends => w[m] = w[q]
    BY <1>1, <2>5, AroundNext
  <2>7. CASE q = e
    BY <1>3, <1>4, <2>2, <2>6, <2>7
  <2>8. CASE q # e
    <3>1. q \in (e + 1)..(n + 1)
      BY <1>1, <2>5, <2>8
    <3>2. w[q] < o \/ w[q] > e
      BY <2>3, <2>5, <3>1
    <3>3. w[q] \in Nat /\ w[q] < q
      BY <1>2, <2>5
    <3>4. CASE Kind(events, q) \in Starts
      BY <1>1, <2>2, <2>6, <3>1, <3>4
    <3>5. CASE Kind(events, q) \notin Starts \cup Ends
      BY <2>2, <2>6, <3>2, <3>5
    <3>6. CASE Kind(events, q) \in Ends
      <4>1. w[m] = w[w[q]]
        BY <2>6, <3>6
      <4>2. CASE w[q] < o
        <5>1. w[q] \in 0..(n + 1)
          BY <1>1, <1>3, <3>3, <4>2
        <5>2. w[w[q]] \in Nat /\ w[w[q]] <= w[q]
          BY <1>1, <5>1, AroundIsBefore
        <5> QED BY <1>3, <2>2, <3>3, <4>1, <4>2, <5>2
      <4>3. CASE w[q] > e
        <5>1. w[q] \in (e + 1)..(n + 1) /\ w[q] < m
          BY <1>1, <2>5, <3>3, <4>3
        <5> QED BY <2>2, <2>3, <4>1, <5>1
      <4> QED BY <3>2, <4>2, <4>3
    <3> QED BY <3>4, <3>5, <3>6
  <2> QED BY <2>7, <2>8
<1>6. p \in (e + 1)..(n + 1)
  BY <1>1
<1> QED BY <1>1, <1>3, <1>5, <1>6

\* What comes between the start and the end of a container lies in it or in a part of it.
LEMMA BetweenIsInside ==
    ASSUME NEW events, Len(events) \in Nat, NEW e \in 1..Len(events), Kind(events, e) \in Ends, Around(events)[e] # 0,
           NEW p \in (Around(events)[e] + 1)..e
    PROVE  Around(events)[p] >= Around(events)[e]
<1>1. PICK w, n : w = Around(events) /\ n = Len(events) /\ n \in Nat
  OBVIOUS
<1>2. \A i \in 1..(n + 1) : w[i] \in Nat /\ w[i] < i
  BY <1>1, AroundIsBefore
<1>3. PICK o : o = w[e] /\ o \in 1..n /\ o < e
  BY <1>1, <1>2
<1>4. Kind(events, o) \in Starts
  <2>1. e \in 1..(Len(events) + 1)
    OBVIOUS
  <2> QED BY <1>1, <1>3, <2>1, AroundIsStart
<1> DEFINE Bad == {i \in (o + 1)..e : ~(w[i] >= o)}
<1>5. Bad = {}
  <2> SUFFICES ASSUME Bad # {} PROVE FALSE
    OBVIOUS
  <2>1. PICK m \in Bad : \A k \in Bad : m <= k
    <3>1. Bad \in SUBSET Nat
      BY <1>1, <1>3
    <3> HIDE DEF Bad
    <3> QED BY <3>1, Least
  <2>2. m \in (o + 1)..e /\ ~(w[m] >= o)
    OBVIOUS
  <2>3. ASSUME NEW k \in (o + 1)..e, k < m PROVE w[k] >= o
    <3>1. k \notin Bad
      <4> HIDE DEF Bad
      <4> QED BY <1>1, <1>3, <2>1, <2>2, <2>3
    <3> QED BY <2>3, <3>1
  <2>4. PICK q : q = m - 1
    OBVIOUS
  <2>5. q \in 1..n /\ m = q + 1 /\ q < m /\ q \in 1..(n + 1) /\ q >= o /\ q < e /\ m \in 1..(n + 1)
    BY <1>1, <1>3, <2>2, <2>4
  <2>6. /\ Kind(events, q) \in Starts => w[m] = q
        /\ Kind(events, q) \in Ends => w[m] = w[w[q]]
        /\ Kind(events, q) \notin Starts \cup Ends => w[m] = w[q]
    BY <1>1, <2>5, AroundNext
  <2>7. CASE Kind(events, q) \in Starts
    BY <2>2, <2>5, <2>6, <2>7
  <2>8. CASE Kind(events, q) \notin Starts
    <3>1. q # o
      BY <1>4, <2>8
    <3>2. q \in (o + 1)..e
      BY <1>1, <1>3, <2>5, <3>1
    <3>3. w[q] >= o /\ w[q] \in Nat /\ w[q] < q
      BY <1>2, <2>3, <2>5, <3>2
    <3>4. CASE Kind(events, q) \notin Ends
      BY <2>2, <2>6, <2>8, <3>3, <3>4
    <3>5. CASE Kind(events, q) \in Ends
      <4>1. w[m] = w[w[q]]
        BY <2>6, <3>5
      <4>2. CASE w[q] = o
        <5>1. e \in (q + 1)..(Len(events) + 1) /\ q \in 1..Len(events) /\ Around(events)[q] # 0
          BY <1>1, <1>3, <2>5, <4>2
        <5>2. w[e] < w[q] \/ w[e] > q
          BY <1>1, <3>5, <5>1, EndedForGood
        <5> QED BY <1>3, <3>2, <4>2, <5>2
      <4>3. CASE w[q] # o
        <5>1. w[q] \in (o + 1)..e /\ w[q] < m
          BY <1>1, <1>3, <2>5, <3>3, <4>3
        <5> QED BY <2>2, <2>3, <4>1, <5>1
      <4> QED BY <4>2, <4>3
    <3> QED BY <3>4, <3>5
  <2> QED BY <2>7, <2>8
<1>6. p \in (o + 1)..e
  BY <1>1, <1>3
<1> QED BY <1>1, <1>3, <1>5, <1>6

-----------------------------------------------------------------------------
(* JSON: lists of meanings *)

LEMMA TheOnly == ASSUME NEW x, NEW S, S = {x} PROVE The(S) = x
  BY DEF The

LEMMA TheIsIn == ASSUME NEW S, S # {} PROVE The(S) \in S
  BY DEF The

\* How many of a set of places are at one or before it.
Rank(S, c) == Cardinality({b \in S : b <= c})

LEMMA RankIs ==
    ASSUME NEW S \in SUBSET Nat, IsFiniteSet(S), NEW c \in S
    PROVE  /\ Rank(S, c) \in 1..Cardinality(S) /\ Cardinality(S) \in Nat
           /\ \A d \in S : c < d => Rank(S, c) < Rank(S, d)
<1> DEFINE Upto(d) == {b \in S : b <= d}
<1>1. \A d : Upto(d) \in SUBSET S
  OBVIOUS
<1>2. \A d : IsFiniteSet(Upto(d)) /\ Cardinality(Upto(d)) \in Nat /\ Cardinality(Upto(d)) <= Cardinality(S)
  <2> SUFFICES ASSUME NEW d
               PROVE  IsFiniteSet(Upto(d)) /\ Cardinality(Upto(d)) \in Nat /\ Cardinality(Upto(d)) <= Cardinality(S)
    OBVIOUS
  <2> HIDE DEF Upto
  <2>1. IsFiniteSet(Upto(d)) /\ Cardinality(Upto(d)) <= Cardinality(S)
    BY <1>1, FS_Subset
  <2> QED BY <2>1, FS_CardinalityType
<1>3. Cardinality(S) \in Nat
  BY FS_CardinalityType
<1>4. c \in Upto(c)
  OBVIOUS
<1>5. Cardinality(Upto(c)) # 0
  <2> HIDE DEF Upto
  <2> QED BY <1>2, <1>4, FS_EmptySet
<1>6. ASSUME NEW d \in S, c < d PROVE Cardinality(Upto(c)) < Cardinality(Upto(d))
  <2>1. Upto(c) \in SUBSET Upto(d) /\ d \in Upto(d) /\ d \notin Upto(c)
    <3>1. c \in Nat /\ d \in Nat /\ ~(d <= c) /\ d <= d
      BY <1>6
    <3>2. \A b \in S : b \in Nat /\ (b <= c => b <= d)
      BY <1>6
    <3> QED BY <3>1, <3>2
  <2> HIDE DEF Upto
  <2>2. IsFiniteSet(Upto(d)) /\ Upto(c) # Upto(d)
    BY <1>2, <2>1
  <2>3. Cardinality(Upto(c)) <= Cardinality(Upto(d)) /\ (Cardinality(Upto(d)) = Cardinality(Upto(c)) => Upto(d) = Upto(c))
    BY <2>1, <2>2, FS_Subset
  <2> QED BY <1>2, <2>2, <2>3
<1>7. \A d : Rank(S, d) = Cardinality(Upto(d))
  BY DEF Rank
<1> HIDE DEF Upto
<1> QED BY <1>2, <1>3, <1>5, <1>6, <1>7

\* Every rank up to their number is the rank of one of them, and of no other.
LEMMA RanksAreTaken ==
    ASSUME NEW S \in SUBSET Nat, IsFiniteSet(S), NEW k \in 1..Cardinality(S)
    PROVE  \E c \in S : {d \in S : Rank(S, d) = k} = {c}
<1>1. PICK n : n = Cardinality(S) /\ n \in Nat
  BY FS_CardinalityType
<1>2. PICK r : r = [c \in S |-> Rank(S, c)]
  OBVIOUS
<1>3. \A c \in S : r[c] = Rank(S, c)
  BY <1>2
<1>4. r \in [S -> 1..n]
  <2>1. \A c \in S : Rank(S, c) \in 1..n
    BY <1>1, RankIs
  <2> QED BY <1>2, <2>1
<1>5. \A c, d \in S : c < d => r[c] < r[d]
  BY <1>3, RankIs
<1>6. \A c, d \in S : r[c] = r[d] => c = d
  <2>1. \A c, d \in S : c < d \/ d < c \/ c = d
    OBVIOUS
  <2>2. \A c \in S : r[c] \in Nat
    BY <1>1, <1>4
  <2> QED BY <1>5, <2>1, <2>2
<1>7. r \in Injection(S, 1..n)
  BY <1>4, <1>6 DEF Injection, IsInjective
<1>8. IsFiniteSet(1..n) /\ Cardinality(1..n) = n
  <2>1. 1 \in Int /\ n \in Int
    BY <1>1
  <2> QED BY <1>1, <2>1, FS_Interval
<1>9. r \in Surjection(S, 1..n)
  BY <1>1, <1>7, <1>8, FS_Injection
<1>10. PICK c \in S : r[c] = k
  BY <1>1, <1>9 DEF Surjection
<1>11. \A d \in S : Rank(S, d) = k <=> d = c
  BY <1>3, <1>6, <1>10
<1> QED BY <1>11

LEMMA NthIsIn ==
    ASSUME NEW S \in SUBSET Nat, IsFiniteSet(S), NEW k \in 1..Cardinality(S)
    PROVE  The({c \in S : Cardinality({b \in S : b <= c}) = k}) \in S
<1>1. PICK c \in S : {d \in S : Rank(S, d) = k} = {c}
  BY RanksAreTaken
<1>2. {d \in S : Cardinality({b \in S : b <= d}) = k} = {c}
  BY <1>1 DEF Rank
<1> QED BY <1>2, TheOnly

\* A list depends on what is listed only.
LEMMA ListedSame ==
    ASSUME NEW S \in SUBSET Nat, IsFiniteSet(S), NEW f, NEW g, \A c \in S : f[c] = g[c]
    PROVE  Listed(f, S) = Listed(g, S)
<1>1. \A k \in 1..Cardinality(S) : f[The({c \in S : Cardinality({b \in S : b <= c}) = k})]
                                   = g[The({c \in S : Cardinality({b \in S : b <= c}) = k})]
  BY NthIsIn
<1> QED BY <1>1 DEF Listed

\* The next place is the last of the list.
LEMMA ListedGrows ==
    ASSUME NEW S \in SUBSET Nat, IsFiniteSet(S), NEW e \in Nat, \A c \in S : c < e, NEW m
    PROVE  Listed(m, S \cup {e}) = Append(Listed(m, S), m[e])
<1>1. PICK n : n = Cardinality(S) /\ n \in Nat
  BY FS_CardinalityType
<1>2. PICK T : T = S \cup {e}
  OBVIOUS
<1>3. Cardinality(T) = n + 1 /\ IsFiniteSet(T) /\ T \in SUBSET Nat
  BY <1>1, <1>2, FS_AddElement
<1> DEFINE NthOf(A, k) == The({c \in A : Cardinality({b \in A : b <= c}) = k})
<1>4. ASSUME NEW c \in S PROVE {b \in T : b <= c} = {b \in S : b <= c}
  <2>1. ~(e <= c)
    OBVIOUS
  <2> QED BY <1>2, <2>1
<1>5. {b \in T : b <= e} = T
  <2>1. \A b \in T : b <= e
    BY <1>2
  <2> QED BY <2>1
<1>6. ASSUME NEW k \in 1..n PROVE NthOf(T, k) = NthOf(S, k)
  <2>1. {c \in T : Cardinality({b \in T : b <= c}) = k} = {c \in S : Cardinality({b \in S : b <= c}) = k}
    <3>1. Cardinality({b \in T : b <= e}) # k
      BY <1>1, <1>3, <1>5
    <3>2. \A c \in S : Cardinality({b \in T : b <= c}) = Cardinality({b \in S : b <= c})
      BY <1>4
    <3>3. \A c : c \in T <=> (c \in S \/ c = e)
      BY <1>2
    <3> QED BY <3>1, <3>2, <3>3
  <2> QED BY <2>1
<1>7. NthOf(T, n + 1) = e
  <2>1. \A c \in S : Cardinality({b \in T : b <= c}) # n + 1
    <3> SUFFICES ASSUME NEW c \in S PROVE Cardinality({b \in T : b <= c}) # n + 1
      OBVIOUS
    <3>1. Rank(S, c) \in 1..n
      BY <1>1, RankIs
    <3>2. Rank(S, c) = Cardinality({b \in T : b <= c})
      BY <1>4 DEF Rank
    <3> QED BY <1>1, <3>1, <3>2
  <2>2. Cardinality({b \in T : b <= e}) = n + 1
    BY <1>3, <1>5
  <2>3. {c \in T : Cardinality({b \in T : b <= c}) = n + 1} = {e}
    BY <1>2, <2>1, <2>2
  <2> QED BY <2>3, TheOnly
<1> HIDE DEF NthOf
<1>8. Listed(m, S) = [k \in 1..n |-> m[NthOf(S, k)]] /\ Listed(m, T) = [k \in 1..(n + 1) |-> m[NthOf(T, k)]]
  BY <1>1, <1>3 DEF Listed, NthOf
<1>9. PICK s, t : s = Listed(m, S) /\ t = Listed(m, T)
  OBVIOUS
<1>10. PICK X : X = {m[c] : c \in T} \cup {m[NthOf(S, k)] : k \in 1..n}
  OBVIOUS
<1>11. s \in Seq(X) /\ Len(s) = n /\ m[e] \in X /\ \A k \in 1..n : s[k] = m[NthOf(S, k)]
  <2>1. s \in [1..n -> X]
    BY <1>8, <1>9, <1>10
  <2>2. s \in Seq(X)
    BY <1>1, <2>1, SeqDef
  <2>3. Len(s) = n
    BY <1>1, <2>1, <2>2, LenProperties
  <2> QED BY <1>2, <1>8, <1>9, <1>10, <2>2, <2>3
<1>12. DOMAIN t = 1..(n + 1) /\ \A k \in 1..(n + 1) : t[k] = m[NthOf(T, k)]
  BY <1>8, <1>9
<1>13. PICK u : u = Append(s, m[e])
  OBVIOUS
<1>14. u \in Seq(X) /\ Len(u) = n + 1 /\ u[n + 1] = m[e] /\ \A k \in 1..n : u[k] = s[k]
  BY <1>11, <1>13, AppendProperties
<1>15. DOMAIN u = 1..(n + 1)
  BY <1>14, LenProperties
<1>16. \A k \in 1..(n + 1) : u[k] = t[k]
  <2>1. \A k \in 1..(n + 1) : k \in 1..n \/ k = n + 1
    BY <1>1
  <2> QED BY <1>6, <1>7, <1>11, <1>12, <1>14, <2>1
<1>17. u = t
  <2>1. u = [k \in DOMAIN u |-> u[k]]
    BY <1>14
  <2>2. t = [k \in DOMAIN t |-> t[k]]
    BY <1>8, <1>9
  <2> QED BY <1>12, <1>15, <1>16, <2>1, <2>2
<1> QED BY <1>2, <1>9, <1>13, <1>17

\* A finite set of numbers that is not empty has a greatest element.
LEMMA Greatest ==
    ASSUME NEW S \in SUBSET Nat, IsFiniteSet(S), S # {}
    PROVE  \E x \in S : \A y \in S : y <= x
<1>1. PICK n : n = Cardinality(S) /\ n \in Nat /\ n # 0
  BY FS_CardinalityType, FS_EmptySet
<1>2. n \in 1..n
  BY <1>1
<1>3. PICK x \in S : Rank(S, x) = n
  BY <1>1, <1>2, RanksAreTaken
<1>4. ASSUME NEW y \in S PROVE ~(x < y)
  <2>1. x < y => Rank(S, x) < Rank(S, y)
    BY RankIs
  <2>2. Rank(S, y) \in 1..n
    BY <1>1, RankIs
  <2> QED BY <1>1, <1>3, <2>1, <2>2
<1> QED BY <1>4

NameAt(events, c) == events[c - 1].text
\* The last of some members with a name.
LastNamed(events, S, x) == {c \in S : NameAt(events, c) = x /\ \A b \in S : NameAt(events, b) = x => b <= c}

LEMMA LastIsIn ==
    ASSUME NEW events, NEW S \in SUBSET Nat, IsFiniteSet(S), NEW d \in S
    PROVE  The(LastNamed(events, S, NameAt(events, d))) \in S
<1>1. PICK R : R = {c \in S : NameAt(events, c) = NameAt(events, d)}
  OBVIOUS
<1>2. R \in SUBSET Nat /\ IsFiniteSet(R) /\ d \in R
  <2>1. R \in SUBSET S /\ d \in R
    BY <1>1
  <2> QED BY <2>1, FS_Subset
<1>3. PICK x \in R : \A y \in R : y <= x
  BY <1>2, Greatest
<1>4. x \in LastNamed(events, S, NameAt(events, d))
  BY <1>1, <1>3 DEF LastNamed
<1>5. The(LastNamed(events, S, NameAt(events, d))) \in LastNamed(events, S, NameAt(events, d))
  BY <1>4, TheIsIn
<1> QED BY <1>5 DEF LastNamed

LEMMA NamedSame ==
    ASSUME NEW events, NEW S \in SUBSET Nat, IsFiniteSet(S), NEW f, NEW g, \A c \in S : f[c] = g[c]
    PROVE  Named(events, f, S) = Named(events, g, S)
<1>1. PICK N : N = {NameAt(events, c) : c \in S}
  OBVIOUS
<1>2. ASSUME NEW x \in N PROVE f[The(LastNamed(events, S, x))] = g[The(LastNamed(events, S, x))]
  <2>1. PICK d \in S : x = NameAt(events, d)
    BY <1>1
  <2>2. The(LastNamed(events, S, x)) \in S
    BY <2>1, LastIsIn
  <2> QED BY <2>2
<1>3. Named(events, f, S) = [x \in N |-> f[The(LastNamed(events, S, x))]]
  BY <1>1 DEF Named, NameAt, LastNamed
<1>4. Named(events, g, S) = [x \in N |-> g[The(LastNamed(events, S, x))]]
  BY <1>1 DEF Named, NameAt, LastNamed
<1> QED BY <1>2, <1>3, <1>4

\* The next member is stored under its name.
LEMMA NamedGrows ==
    ASSUME NEW events, NEW S \in SUBSET Nat, NEW e \in Nat, \A c \in S : c < e, NEW m
    PROVE  Named(events, m, S \cup {e}) = Stored(Named(events, m, S), NameAt(events, e), m[e])
<1>1. PICK T, x0, N : T = S \cup {e} /\ x0 = NameAt(events, e) /\ N = {NameAt(events, c) : c \in S}
  OBVIOUS
<1>2. {NameAt(events, c) : c \in T} = N \cup {x0}
  BY <1>1
<1>3. The(LastNamed(events, T, x0)) = e
  <2>1. \A b \in T : b <= e
    BY <1>1
  <2>2. \A c \in S : ~(e <= c)
    OBVIOUS
  <2>3. LastNamed(events, T, x0) = {e}
    BY <1>1, <2>1, <2>2 DEF LastNamed
  <2> QED BY <2>3, TheOnly
<1>4. ASSUME NEW x \in N, x # x0 PROVE LastNamed(events, T, x) = LastNamed(events, S, x)
  BY <1>1, <1>4 DEF LastNamed
<1>5. PICK s, t : s = Named(events, m, S) /\ t = Named(events, m, T)
  OBVIOUS
<1>6. DOMAIN s = N /\ \A x \in N : s[x] = m[The(LastNamed(events, S, x))]
  <2>1. s = [x \in N |-> m[The(LastNamed(events, S, x))]]
    BY <1>1, <1>5 DEF Named, NameAt, LastNamed
  <2> QED BY <2>1
<1>7. t = [x \in N \cup {x0} |-> m[The(LastNamed(events, T, x))]]
  BY <1>2, <1>5 DEF Named, NameAt, LastNamed
<1>8. \A x \in N \cup {x0} : m[The(LastNamed(events, T, x))] = IF x = x0 THEN m[e] ELSE s[x]
  BY <1>3, <1>4, <1>6
<1>9. t = [x \in N \cup {x0} |-> IF x = x0 THEN m[e] ELSE s[x]]
  BY <1>7, <1>8
<1> QED BY <1>1, <1>5, <1>6, <1>9 DEF Stored

-----------------------------------------------------------------------------
(* JSON: what values mean *)

LEMMA InsideIs ==
    ASSUME NEW events, Proper(events), NEW p
    PROVE  /\ Inside(events, p) \in SUBSET Nat /\ IsFiniteSet(Inside(events, p))
           /\ Inside(events, p) \in SUBSET (1..Len(events))
           /\ \A c \in Inside(events, p) : Around(events)[c] = p /\ Kind(events, c) \in Scalars \cup Starts
           /\ \A c \in Inside(events, p) : p \in Nat /\ p < c
<1>1. PICK n : n = Len(events) /\ n \in Nat /\ DOMAIN events = 1..n
  BY ProperShape
<1>2. PICK S : S = Inside(events, p)
  OBVIOUS
<1>3. S \in SUBSET (1..n) /\ \A c \in S : Around(events)[c] = p /\ Kind(events, c) \in Scalars \cup Starts
  BY <1>1, <1>2 DEF Inside, ValuesIn, Kind
<1>4. IsFiniteSet(1..n)
  <2>1. 1 \in Int /\ n \in Int
    BY <1>1
  <2> QED BY <2>1, FS_Interval
<1>5. IsFiniteSet(S)
  BY <1>3, <1>4, FS_Subset
<1>6. S \in SUBSET Nat
  BY <1>3
<1>7. ASSUME NEW c \in S PROVE p \in Nat /\ p < c
  <2>1. Around(events)[c] = p /\ c \in 0..(Len(events) + 1) /\ c # 0
    BY <1>1, <1>3
  <2> QED BY <1>1, <2>1, AroundIsBefore
<1> QED BY <1>1, <1>2, <1>3, <1>5, <1>6, <1>7

LEMMA HoldingSame ==
    ASSUME NEW events, NEW p, NEW S \in SUBSET Nat, IsFiniteSet(S), NEW f, NEW g, \A c \in S : f[c] = g[c]
    PROVE  Holding(events, f, p, S) = Holding(events, g, p, S)
<1>1. Listed(f, S) = Listed(g, S) /\ Named(events, f, S) = Named(events, g, S)
  BY ListedSame, NamedSame
<1> QED BY <1>1 DEF Holding

\* The equation that Meanings solves.
MeaningAt(events, f, p) ==
    IF events[p].kind \in Starts THEN Holding(events, f, p, Inside(events, p)) ELSE ScalarValue(events[p])

LEMMA MeaningsExist ==
    ASSUME NEW events, Proper(events)
    PROVE  \E f : f = [p \in DOMAIN events |-> MeaningAt(events, f, p)]
<1>1. PICK n : n = Len(events) /\ n \in Nat /\ DOMAIN events = 1..n
  BY ProperShape
<1> DEFINE Solves(f, k) == /\ DOMAIN f = 1..n /\ f = [p \in 1..n |-> f[p]]
                           /\ \A p \in 1..n : p + k > n => f[p] = MeaningAt(events, f, p)
           Bad == {k \in 0..n : ~ \E f : Solves(f, k)}
<1>2. Bad = {}
  <2> SUFFICES ASSUME Bad # {} PROVE FALSE
    OBVIOUS
  <2>1. PICK k \in Bad : \A j \in Bad : k <= j
    <3>1. Bad \in SUBSET Nat
      BY <1>1
    <3> HIDE DEF Bad
    <3> QED BY <3>1, Least
  <2>2. k \in 0..n /\ ~ \E f : Solves(f, k)
    OBVIOUS
  <2>3. k # 0
    <3>1. Solves([p \in 1..n |-> 0], 0)
      BY <1>1
    <3> QED BY <2>2, <3>1
  <2>4. k - 1 \in 0..n /\ k - 1 \notin Bad
    <3>1. k - 1 \in 0..n /\ k - 1 < k
      BY <1>1, <2>2, <2>3
    <3> HIDE DEF Bad
    <3> QED BY <1>1, <2>1, <2>2, <3>1
  <2>5. PICK f : Solves(f, k - 1)
    BY <2>4
  <2>6. PICK q : q = n - k + 1
    OBVIOUS
  <2>7. q \in 1..n /\ \A p \in 1..n : p + k > n <=> p = q \/ p + (k - 1) > n
    BY <1>1, <2>2, <2>3, <2>6
  <2>8. PICK v : v = MeaningAt(events, f, q)
    OBVIOUS
  <2>9. PICK g : g = [p \in 1..n |-> IF p = q THEN v ELSE f[p]]
    OBVIOUS
  <2>10. DOMAIN g = 1..n /\ g[q] = v /\ \A p \in 1..n : p # q => g[p] = f[p]
    BY <2>7, <2>9
  <2>11. ASSUME NEW p \in 1..n, p >= q PROVE MeaningAt(events, g, p) = MeaningAt(events, f, p)
    <3>1. PICK S : S = Inside(events, p)
      OBVIOUS
    <3>2. S \in SUBSET Nat /\ IsFiniteSet(S) /\ S \in SUBSET (1..n) /\ \A c \in S : p < c
      BY <1>1, <3>1, InsideIs
    <3>3. \A c \in S : g[c] = f[c]
      BY <2>7, <2>10, <2>11, <3>2
    <3>4. Holding(events, g, p, S) = Holding(events, f, p, S)
      BY <3>2, <3>3, HoldingSame
    <3> QED BY <3>1, <3>4 DEF MeaningAt
  <2>12. ASSUME NEW p \in 1..n, p + k > n PROVE g[p] = MeaningAt(events, g, p)
    <3>1. p >= q
      BY <1>1, <2>2, <2>6, <2>12
    <3>2. CASE p = q
      BY <2>8, <2>10, <2>11, <3>1, <3>2
    <3>3. CASE p # q
      <4>1. p + (k - 1) > n
        BY <2>7, <2>12, <3>3
      <4>2. f[p] = MeaningAt(events, f, p)
        BY <2>5, <4>1
      <4> QED BY <2>10, <2>11, <3>1, <3>3, <4>2
    <3> QED BY <3>2, <3>3
  <2>13. g = [p \in 1..n |-> g[p]]
    BY <2>9, <2>10
  <2>14. Solves(g, k)
    BY <2>10, <2>12, <2>13
  <2> QED BY <2>2, <2>14
<1>3. n \in 0..n
  BY <1>1
<1>4. PICK f : Solves(f, n)
  BY <1>2, <1>3
<1>5. \A p \in 1..n : f[p] = MeaningAt(events, f, p)
  BY <1>1, <1>4
<1>6. f = [p \in 1..n |-> MeaningAt(events, f, p)]
  BY <1>4, <1>5
<1> QED BY <1>1, <1>6

LEMMA MeaningsAre ==
    ASSUME NEW events, Proper(events)
    PROVE  \A p \in DOMAIN events : Meanings(events)[p] = MeaningAt(events, Meanings(events), p)
<1> DEFINE Solves(f) == f = [p \in DOMAIN events |-> MeaningAt(events, f, p)]
<1>1. \E f : Solves(f)
  BY MeaningsExist
<1>2. Meanings(events) = CHOOSE f : Solves(f)
  BY DEF Meanings, MeaningAt
<1>3. Solves(Meanings(events))
  <2> HIDE DEF Solves
  <2> QED BY <1>1, <1>2
<1>4. PICK m : m = Meanings(events)
  OBVIOUS
<1>5. m = [p \in DOMAIN events |-> MeaningAt(events, m, p)]
  BY <1>3, <1>4
<1> QED BY <1>4, <1>5

-----------------------------------------------------------------------------
(* JSON: the frames of open containers *)

\* The values a container has been given before an event, and the name that waits for its value.
Heard(events, p, b) == {c \in Inside(events, p) : c < b}
KeyBefore(events, b) == IF Kind(events, b - 1) = "key" THEN <<events[b - 1].text>> ELSE <<>>
FrameAt(events, m, p, b) == [value |-> Holding(events, m, p, Heard(events, p, b)), key |-> KeyBefore(events, b)]

\* The starts of the containers that are open at an event, the innermost last.
Opened(events, st, q) ==
    /\ st \in Seq(Nat)
    /\ \A i \in 1..Len(st) : st[i] \in 1..Len(events) /\ Kind(events, st[i]) \in Starts /\ st[i] < q
    /\ Around(events)[q] = IF st = <<>> THEN 0 ELSE st[Len(st)]
    /\ \A i \in 1..Len(st) : Around(events)[st[i]] = IF i = 1 THEN 0 ELSE st[i - 1]
\* Each has been given the values before the one that is open in it.
Bound(st, i, q) == IF i = Len(st) THEN q ELSE st[i + 1]
FramesOf(events, m, st, q) == [i \in 1..Len(st) |-> FrameAt(events, m, st[i], Bound(st, i, q))]

\* A name waits in an object, for the value that comes next.
LEMMA KeyIsNamed ==
    ASSUME NEW events, Proper(events), NEW b \in 2..(Len(events) + 1), Kind(events, b - 1) = "key"
    PROVE  /\ b \in 2..Len(events) /\ Kind(events, b) \in Scalars \cup Starts
           /\ Around(events)[b] # 0 /\ Kind(events, Around(events)[b]) = "startObject"
<1>1. Len(events) \in Nat
  BY ProperShape
<1>2. PICK a : a = b - 1
  OBVIOUS
<1>3. a \in 1..Len(events) /\ a + 1 = b /\ Kind(events, a) = "key"
  BY <1>1, <1>2
<1>4. Kind(events, a) \notin Starts \cup Ends
  BY <1>3 DEF Starts, Ends
<1>5. Around(events)[b] = Around(events)[a]
  BY <1>1, <1>3, <1>4, AroundNext
<1>6. Around(events)[a] # 0 /\ Kind(events, Around(events)[a]) = "startObject"
  BY <1>3, ProperMeans
<1>7. Kind(events, b) \in Scalars \cup Starts
  BY <1>3, ProperMeans
<1>8. b # Len(events) + 1
  BY <1>5, <1>6, ProperMeans
<1> QED BY <1>1, <1>5, <1>6, <1>7, <1>8

\* A value in an array has no name before it, one in an object has.
LEMMA ValueIsNamed ==
    ASSUME NEW events, Proper(events), NEW p, p # 0, NEW c \in Inside(events, p)
    PROVE  /\ p \in 1..Len(events) /\ p < c /\ c \in 2..Len(events) /\ Kind(events, p) \in Starts
           /\ Kind(events, p) = "startArray" => KeyBefore(events, c) = <<>>
           /\ Kind(events, p) # "startArray" => KeyBefore(events, c) = <<NameAt(events, c)>>
<1>1. Len(events) \in Nat
  BY ProperShape
<1>2. c \in 1..Len(events) /\ Around(events)[c] = p /\ Kind(events, c) \in Scalars \cup Starts /\ p \in Nat /\ p < c
  BY InsideIs
<1>3. p \in 1..Len(events) /\ Kind(events, p) \in Starts
  BY <1>1, <1>2, AroundIsStart
<1>4. c \in 2..Len(events)
  BY <1>1, <1>2, <1>3
<1>5. ASSUME Kind(events, p) = "startArray" PROVE KeyBefore(events, c) = <<>>
  <2>1. CASE Kind(events, c - 1) = "key"
    <3>1. c \in 2..(Len(events) + 1)
      BY <1>1, <1>4
    <3>2. Kind(events, Around(events)[c]) = "startObject"
      BY <2>1, <3>1, KeyIsNamed
    <3> QED BY <1>2, <1>5, <3>2
  <2>2. CASE Kind(events, c - 1) # "key"
    BY <2>2 DEF KeyBefore
  <2> QED BY <2>1, <2>2
<1>6. ASSUME Kind(events, p) # "startArray" PROVE KeyBefore(events, c) = <<NameAt(events, c)>>
  <2>1. Kind(events, p) = "startObject"
    BY <1>3, <1>6 DEF Starts
  <2>2. Kind(events, c - 1) = "key"
    BY <1>2, <2>1, ProperMeans
  <2> QED BY <2>2 DEF KeyBefore, NameAt
<1> QED BY <1>2, <1>3, <1>4, <1>5, <1>6

\* A frame takes the value of an event: what it has been given grows by that.
LEMMA FrameFills ==
    ASSUME NEW events, Proper(events), NEW m, NEW p, p # 0, NEW c \in Inside(events, p), NEW b,
           \A d \in Inside(events, p) : d < b <=> d <= c, KeyBefore(events, b) = <<>>
    PROVE  Filled(FrameAt(events, m, p, c), m[c]) = FrameAt(events, m, p, b)
<1>1. PICK S, T : S = Heard(events, p, c) /\ T = Heard(events, p, b)
  OBVIOUS
<1>2. Inside(events, p) \in SUBSET Nat /\ IsFiniteSet(Inside(events, p)) /\ c \in Nat
  BY InsideIs
<1>3. S \in SUBSET Nat /\ (\A d \in S : d < c) /\ S \in SUBSET Inside(events, p)
  BY <1>1, <1>2 DEF Heard
<1>4. IsFiniteSet(S)
  BY <1>2, <1>3, FS_Subset
<1>5. T = S \cup {c}
  <2>1. \A d \in Inside(events, p) : d <= c <=> d < c \/ d = c
    BY <1>2
  <2> QED BY <1>1, <2>1 DEF Heard
<1>6. PICK f, v : f = FrameAt(events, m, p, c) /\ v = m[c]
  OBVIOUS
<1>7. f = [value |-> Holding(events, m, p, S), key |-> KeyBefore(events, c)]
  BY <1>1, <1>6 DEF FrameAt
<1>8. FrameAt(events, m, p, b) = [value |-> Holding(events, m, p, T), key |-> <<>>]
  BY <1>1 DEF FrameAt
<1>9. CASE Kind(events, p) = "startArray"
  <2>1. PICK s, t : s = Listed(m, S) /\ t = Listed(m, T)
    OBVIOUS
  <2>2. t = Append(s, v)
    BY <1>2, <1>3, <1>4, <1>5, <1>6, <2>1, ListedGrows
  <2>3. KeyBefore(events, c) = <<>>
    BY <1>9, ValueIsNamed
  <2>4. Holding(events, m, p, S) = [type |-> "array", items |-> s] /\ Holding(events, m, p, T) = [type |-> "array", items |-> t]
    BY <1>9, <2>1 DEF Holding, Kind
  <2>5. f = [value |-> [type |-> "array", items |-> s], key |-> <<>>]
    BY <1>7, <2>3, <2>4
  <2>6. Filled(f, v) = [value |-> [type |-> "array", items |-> Append(s, v)], key |-> <<>>]
    BY <2>5 DEF Filled
  <2> QED BY <1>6, <1>8, <2>2, <2>4, <2>6
<1>10. CASE Kind(events, p) # "startArray"
  <2>1. PICK s, t, x : s = Named(events, m, S) /\ t = Named(events, m, T) /\ x = NameAt(events, c)
    OBVIOUS
  <2>2. t = Stored(s, x, v)
    BY <1>2, <1>3, <1>5, <1>6, <2>1, NamedGrows
  <2>3. KeyBefore(events, c) = <<x>>
    BY <1>10, <2>1, ValueIsNamed
  <2>4. Holding(events, m, p, S) = [type |-> "map", map |-> s] /\ Holding(events, m, p, T) = [type |-> "map", map |-> t]
    BY <1>10, <2>1 DEF Holding, Kind
  <2>5. f = [value |-> [type |-> "map", map |-> s], key |-> <<x>>]
    BY <1>7, <2>3, <2>4
  <2>6. Filled(f, v) = [value |-> [type |-> "map", map |-> Stored(s, x, v)], key |-> <<>>]
    BY <2>5 DEF Filled
  <2> QED BY <1>6, <1>8, <2>2, <2>4, <2>6
<1> QED BY <1>9, <1>10

LEMMA FramesAreSeq ==
    ASSUME NEW events, NEW m, NEW st \in Seq(Nat), NEW q
    PROVE  /\ \E S : FramesOf(events, m, st, q) \in Seq(S)
           /\ Len(FramesOf(events, m, st, q)) = Len(st)
           /\ DOMAIN FramesOf(events, m, st, q) = 1..Len(st)
           /\ (FramesOf(events, m, st, q) = <<>>) <=> (st = <<>>)
           /\ \A i \in 1..Len(st) : FramesOf(events, m, st, q)[i] = FrameAt(events, m, st[i], Bound(st, i, q))
<1>1. PICK n : n = Len(st) /\ n \in Nat
  OBVIOUS
<1>2. PICK S : S = {FrameAt(events, m, st[i], Bound(st, i, q)) : i \in 1..n}
  OBVIOUS
<1>3. PICK f : f = FramesOf(events, m, st, q)
  OBVIOUS
<1>4. f \in [1..n -> S] /\ \A i \in 1..n : f[i] = FrameAt(events, m, st[i], Bound(st, i, q))
  BY <1>1, <1>2, <1>3 DEF FramesOf
<1>5. f \in Seq(S)
  BY <1>1, <1>4, SeqDef
<1>6. Len(f) = n /\ DOMAIN f = 1..n
  BY <1>1, <1>4, <1>5, LenProperties
<1>7. (f = <<>>) <=> (st = <<>>)
  BY <1>1, <1>5, <1>6, EmptySeq
<1> QED BY <1>1, <1>3, <1>4, <1>5, <1>6, <1>7

Put(f, i, v) == [f EXCEPT ![i] = v]

\* Only the innermost frame changes when it takes a value or a name.
LEMMA FramesChange ==
    ASSUME NEW events, NEW m, NEW st \in Seq(Nat), st # <<>>, NEW q, NEW r,
           NEW v, v = FrameAt(events, m, st[Len(st)], r)
    PROVE  Put(FramesOf(events, m, st, q), Len(st), v) = FramesOf(events, m, st, r)
<1>1. PICK n : n = Len(st) /\ n \in Nat /\ n # 0
  BY EmptySeq
<1>2. PICK f, g, h : /\ f = FramesOf(events, m, st, q) /\ g = FramesOf(events, m, st, r)
                     /\ h = [f EXCEPT ![n] = v]
  OBVIOUS
<1>3. DOMAIN f = 1..n /\ DOMAIN g = 1..n /\ g = [i \in 1..n |-> g[i]]
  BY <1>1, <1>2 DEF FramesOf
<1>4. DOMAIN h = 1..n /\ h = [i \in 1..n |-> h[i]] /\ \A i \in 1..n : h[i] = IF i = n THEN v ELSE f[i]
  BY <1>2, <1>3
<1>5. \A i \in 1..n : i # n => f[i] = g[i]
  <2>1. ASSUME NEW i \in 1..n, i # n PROVE f[i] = FrameAt(events, m, st[i], st[i + 1]) /\ g[i] = FrameAt(events, m, st[i], st[i + 1])
    BY <1>1, <1>2, <2>1 DEF FramesOf, Bound
  <2> QED BY <2>1
<1>6. g[n] = v
  BY <1>1, <1>2 DEF FramesOf, Bound
<1>7. h = g
  BY <1>3, <1>4, <1>5, <1>6
<1> QED BY <1>1, <1>2, <1>7 DEF Put

-----------------------------------------------------------------------------
(* JSON: how events change what is open *)

\* Nothing is open only before the first event and after the last one.
LEMMA NothingOpen ==
    ASSUME NEW events, Proper(events), NEW q \in 1..(Len(events) + 1), NEW st, Opened(events, st, q)
    PROVE  /\ st = <<>> => q = 1 \/ q = Len(events) + 1
           /\ st # <<>> => /\ q \in 2..Len(events) /\ Len(st) \in Nat /\ Len(st) # 0
                           /\ st[Len(st)] = Around(events)[q] /\ Around(events)[q] # 0
<1>1. Len(events) \in Nat /\ st \in Seq(Nat)
  BY ProperShape DEF Opened
<1>2. ASSUME st = <<>> PROVE q = 1 \/ q = Len(events) + 1
  <2>1. Around(events)[q] = 0
    BY <1>2 DEF Opened
  <2> QED BY <1>1, <2>1, ProperMeans
<1>3. ASSUME st # <<>>
      PROVE  /\ q \in 2..Len(events) /\ Len(st) \in Nat /\ Len(st) # 0
             /\ st[Len(st)] = Around(events)[q] /\ Around(events)[q] # 0
  <2>1. Len(st) \in Nat /\ Len(st) # 0 /\ Len(st) \in 1..Len(st)
    BY <1>1, <1>3, EmptySeq, LenProperties
  <2>2. st[Len(st)] = Around(events)[q] /\ st[Len(st)] \in 1..Len(events)
    BY <1>3, <2>1 DEF Opened
  <2>3. q # 1 /\ q # Len(events) + 1
    BY <1>1, <2>2, ProperMeans
  <2> QED BY <1>1, <2>1, <2>2, <2>3
<1> QED BY <1>2, <1>3

LEMMA PassesBy ==
    ASSUME NEW events, Proper(events), NEW q \in 1..Len(events), Kind(events, q) \notin Starts \cup Ends,
           NEW st, Opened(events, st, q)
    PROVE  Opened(events, st, q + 1)
<1>1. Len(events) \in Nat
  BY ProperShape
<1>2. Around(events)[q + 1] = Around(events)[q]
  BY <1>1, AroundNext
<1>3. \A i \in 1..Len(st) : st[i] < q + 1
  <2>1. \A i \in 1..Len(st) : st[i] \in 1..Len(events) /\ st[i] < q
    BY DEF Opened
  <2> QED BY <1>1, <2>1
<1> QED BY <1>2, <1>3 DEF Opened

LEMMA EmptyHolding ==
    ASSUME NEW events, NEW m, NEW p
    PROVE  Holding(events, m, p, {}) =
               IF Kind(events, p) = "startArray" THEN [type |-> "array", items |-> <<>>] ELSE [type |-> "map", map |-> <<>>]
<1>1. \A f : DOMAIN f = 1..0 /\ f = [x \in 1..0 |-> f[x]] => f = <<>>
  <2> SUFFICES ASSUME NEW f, DOMAIN f = 1..0, f = [x \in 1..0 |-> f[x]] PROVE f = <<>>
    OBVIOUS
  <2>1. f \in [1..0 -> {}]
    OBVIOUS
  <2>2. f \in Seq({})
    BY <2>1, SeqDef
  <2>3. Len(f) = 0
    BY <2>1, <2>2, LenProperties
  <2> QED BY <2>2, <2>3, EmptySeq
<1>2. PICK s, t : s = Listed(m, {}) /\ t = Named(events, m, {})
  OBVIOUS
<1>3. 1..0 = {} /\ Cardinality({}) = 0
  BY FS_EmptySet
<1>4. s = <<>>
  <2>1. DOMAIN s = 1..0 /\ s = [k \in 1..0 |-> s[k]]
    BY <1>2, <1>3 DEF Listed
  <2> QED BY <1>1, <2>1
<1>5. t = <<>>
  <2>1. DOMAIN t = {} /\ t = [k \in {} |-> t[k]]
    BY <1>2 DEF Named
  <2> QED BY <1>1, <1>3, <2>1
<1> QED BY <1>2, <1>4, <1>5 DEF Holding, Kind

LEMMA StartOpens ==
    ASSUME NEW events, Proper(events), NEW m, NEW q \in 1..Len(events), Kind(events, q) \in Starts,
           NEW st, Opened(events, st, q)
    PROVE  /\ Opened(events, Append(st, q), q + 1)
           /\ Append(FramesOf(events, m, st, q), Frame(IF Kind(events, q) = "startArray" THEN "array" ELSE "map"))
                  = FramesOf(events, m, Append(st, q), q + 1)
<1>1. Len(events) \in Nat
  BY ProperShape
<1>2. st \in Seq(Nat) /\ q \in Nat
  BY <1>1 DEF Opened
<1>3. PICK n, u : n = Len(st) /\ u = Append(st, q)
  OBVIOUS
<1>4. n \in Nat /\ u \in Seq(Nat) /\ Len(u) = n + 1 /\ u[n + 1] = q /\ \A i \in 1..n : u[i] = st[i]
  BY <1>2, <1>3, AppendProperties, LenProperties
<1>5. u # <<>>
  BY <1>4, EmptySeq
<1>6. Around(events)[q + 1] = q
  BY <1>1, AroundNext
<1>7. \A i \in 1..n : st[i] \in 1..Len(events) /\ Kind(events, st[i]) \in Starts /\ st[i] < q
  BY <1>3 DEF Opened
<1>8. Around(events)[q] = IF st = <<>> THEN 0 ELSE st[n]
  BY <1>3 DEF Opened
<1>9. \A i \in 1..n : Around(events)[st[i]] = IF i = 1 THEN 0 ELSE st[i - 1]
  BY <1>3 DEF Opened
<1>10. (st = <<>>) <=> n = 0
  BY <1>2, <1>3, EmptySeq
<1>11. ASSUME NEW i \in 1..(n + 1) PROVE u[i] \in 1..Len(events) /\ Kind(events, u[i]) \in Starts /\ u[i] < q + 1
  <2>1. CASE i = n + 1
    BY <1>2, <1>4, <2>1
  <2>2. CASE i # n + 1
    <3>1. i \in 1..n
      BY <1>4, <2>2
    <3>2. st[i] \in 1..Len(events) /\ Kind(events, st[i]) \in Starts /\ st[i] < q
      BY <1>7, <3>1
    <3>3. u[i] = st[i]
      BY <1>4, <3>1
    <3>4. st[i] < q + 1
      BY <1>1, <3>2
    <3> QED BY <3>2, <3>3, <3>4
  <2> QED BY <2>1, <2>2
<1>12. ASSUME NEW i \in 1..(n + 1) PROVE Around(events)[u[i]] = IF i = 1 THEN 0 ELSE u[i - 1]
  <2>1. CASE i = n + 1
    <3>1. CASE n = 0
      BY <1>4, <1>8, <1>10, <2>1, <3>1
    <3>2. CASE n # 0
      <4>1. n \in 1..n /\ i - 1 = n /\ i # 1
        BY <1>4, <2>1, <3>2
      <4> QED BY <1>4, <1>8, <1>10, <2>1, <3>2, <4>1
    <3> QED BY <3>1, <3>2
  <2>2. CASE i # n + 1
    <3>1. i \in 1..n /\ (i # 1 => i - 1 \in 1..n)
      BY <1>4, <2>2
    <3> QED BY <1>4, <1>9, <3>1
  <2> QED BY <2>1, <2>2
<1>13. Opened(events, u, q + 1)
  BY <1>4, <1>5, <1>6, <1>11, <1>12 DEF Opened
<1>14. PICK f, g, x : /\ f = FramesOf(events, m, st, q) /\ g = FramesOf(events, m, u, q + 1)
                      /\ x = Frame(IF Kind(events, q) = "startArray" THEN "array" ELSE "map")
  OBVIOUS
<1>15. x = FrameAt(events, m, q, q + 1)
  <2>1. Heard(events, q, q + 1) = {}
    <3>1. \A c \in Inside(events, q) : c \in Nat /\ q < c
      BY InsideIs
    <3>2. \A c \in Inside(events, q) : ~(c < q + 1)
      BY <1>2, <3>1
    <3> QED BY <3>2 DEF Heard
  <2>2. KeyBefore(events, q + 1) = <<>>
    <3>1. (q + 1) - 1 = q /\ Kind(events, q) # "key"
      BY <1>2 DEF Starts
    <3> QED BY <3>1 DEF KeyBefore
  <2>3. FrameAt(events, m, q, q + 1) = [value |-> Holding(events, m, q, {}), key |-> <<>>]
    BY <2>1, <2>2 DEF FrameAt
  <2>4. PICK y : y = Holding(events, m, q, {})
    OBVIOUS
  <2>5. y = IF Kind(events, q) = "startArray" THEN [type |-> "array", items |-> <<>>] ELSE [type |-> "map", map |-> <<>>]
    BY <2>4, EmptyHolding
  <2>6. x = [value |-> y, key |-> <<>>]
    BY <1>14, <2>5 DEF Frame
  <2> QED BY <2>3, <2>4, <2>6
<1>16. PICK S : f \in Seq(S)
  BY <1>2, <1>14, FramesAreSeq
<1>17. Len(f) = n /\ DOMAIN f = 1..n /\ \A i \in 1..n : f[i] = FrameAt(events, m, st[i], Bound(st, i, q))
  BY <1>2, <1>3, <1>14, FramesAreSeq
<1>18. PICK h : h = Append(f, x)
  OBVIOUS
<1>19. h \in Seq(S \cup {x}) /\ Len(h) = n + 1 /\ h[n + 1] = x /\ \A i \in 1..n : h[i] = f[i]
  <2>1. f \in Seq(S \cup {x}) /\ x \in S \cup {x}
    BY <1>16, SeqMonotonic
  <2> QED BY <1>17, <1>18, <2>1, AppendProperties
<1>20. DOMAIN h = 1..(n + 1) /\ h = [i \in 1..(n + 1) |-> h[i]]
  BY <1>19, LenProperties
<1>21. DOMAIN g = 1..(n + 1) /\ g = [i \in 1..(n + 1) |-> g[i]]
  BY <1>4, <1>14 DEF FramesOf
<1>22. \A i \in 1..(n + 1) : g[i] = FrameAt(events, m, u[i], Bound(u, i, q + 1))
  BY <1>4, <1>14 DEF FramesOf
<1>23. ASSUME NEW i \in 1..(n + 1) PROVE h[i] = g[i]
  <2>1. CASE i = n + 1
    <3>1. Bound(u, i, q + 1) = q + 1
      BY <1>4, <2>1 DEF Bound
    <3> QED BY <1>4, <1>15, <1>19, <1>22, <2>1, <3>1
  <2>2. CASE i # n + 1
    <3>1. i \in 1..n
      BY <1>4, <2>2
    <3>2. Bound(u, i, q + 1) = u[i + 1]
      BY <1>4, <2>2 DEF Bound
    <3>3. Bound(st, i, q) = u[i + 1]
      <4>1. CASE i = n
        BY <1>3, <1>4, <4>1 DEF Bound
      <4>2. CASE i # n
        <5>1. i + 1 \in 1..n
          BY <1>4, <3>1, <4>2
        <5> QED BY <1>3, <1>4, <4>2, <5>1 DEF Bound
      <4> QED BY <4>1, <4>2
    <3> QED BY <1>4, <1>17, <1>19, <1>22, <3>1, <3>2, <3>3
  <2> QED BY <2>1, <2>2
<1>24. h = g
  BY <1>20, <1>21, <1>23
<1> QED BY <1>3, <1>13, <1>14, <1>18, <1>24

\* The container that ends has been given all that is in it.
LEMMA EndedHolds ==
    ASSUME NEW events, Proper(events), NEW q \in 1..Len(events), Kind(events, q) \in Ends, Around(events)[q] # 0
    PROVE  /\ Holding(events, Meanings(events), Around(events)[q], Heard(events, Around(events)[q], q))
                  = Meanings(events)[Around(events)[q]]
           /\ KeyBefore(events, q) = <<>>
<1>1. Len(events) \in Nat /\ DOMAIN events = 1..Len(events)
  BY ProperShape
<1>2. PICK o : o = Around(events)[q]
  OBVIOUS
<1>3. o \in 1..Len(events) /\ Kind(events, o) \in Starts /\ o < q
  BY <1>1, <1>2, AroundIsStart
<1>4. ASSUME NEW c \in Inside(events, o) PROVE c < q
  <2>1. c \in 1..Len(events) /\ Around(events)[c] = o /\ Kind(events, c) \in Scalars \cup Starts
    BY InsideIs
  <2>2. c # q
    BY <2>1 DEF Scalars, Starts, Ends
  <2>3. ~(c > q)
    <3> SUFFICES ASSUME c > q PROVE FALSE
      OBVIOUS
    <3>1. c \in (q + 1)..(Len(events) + 1)
      BY <1>1, <2>1
    <3>2. Around(events)[c] < Around(events)[q] \/ Around(events)[c] > q
      BY <1>1, <3>1, EndedForGood
    <3> QED BY <1>1, <1>2, <1>3, <2>1, <3>2
  <2> QED BY <1>1, <2>1, <2>2, <2>3
<1>5. Heard(events, o, q) = Inside(events, o)
  BY <1>4 DEF Heard
<1>6. Meanings(events)[o] = MeaningAt(events, Meanings(events), o)
  BY <1>1, <1>3, MeaningsAre
<1>7. Meanings(events)[o] = Holding(events, Meanings(events), o, Inside(events, o))
  BY <1>3, <1>6 DEF MeaningAt, Kind
<1>8. KeyBefore(events, q) = <<>>
  <2>1. q \in 2..(Len(events) + 1)
    BY <1>1, <1>3
  <2>2. Kind(events, q - 1) = "key" => Kind(events, q) \in Scalars \cup Starts
    BY <2>1, KeyIsNamed
  <2>3. Kind(events, q) \notin Scalars \cup Starts
    BY DEF Scalars, Starts, Ends
  <2> QED BY <2>2, <2>3 DEF KeyBefore
<1> QED BY <1>2, <1>5, <1>7, <1>8

\* All but the last of some open containers.
LEMMA Outer ==
    ASSUME NEW S, NEW s \in Seq(S), s # <<>>
    PROVE  /\ Len(s) \in Nat /\ Len(s) # 0
           /\ SubSeq(s, 1, Len(s) - 1) \in Seq(S) /\ Len(SubSeq(s, 1, Len(s) - 1)) = Len(s) - 1
           /\ \A i \in 1..(Len(s) - 1) : SubSeq(s, 1, Len(s) - 1)[i] = s[i]
<1>1. PICK n, k : n = Len(s) /\ n \in Nat /\ n # 0 /\ k = n - 1
  BY EmptySeq
<1>2. 1 \in Int /\ k \in Int /\ k \in Nat
  BY <1>1
<1>3. \A i \in 1..k : s[i] \in S
  <2>1. \A i \in 1..k : i \in 1..Len(s)
    BY <1>1
  <2> QED BY <2>1, LenProperties
<1>4. PICK t : t = SubSeq(s, 1, k)
  OBVIOUS
<1>5. t \in Seq(S) /\ Len(t) = (IF 1 <= k THEN k - 1 + 1 ELSE 0) /\ \A i \in 1..(k - 1 + 1) : t[i] = s[1 + i - 1]
  BY <1>2, <1>3, <1>4, SubSeqProperties
<1>6. Len(t) = k /\ \A i \in 1..k : t[i] = s[i]
  BY <1>2, <1>5
<1> QED BY <1>1, <1>4, <1>5, <1>6

\* The end of a container leaves those around it open.
LEMMA EndLeaves ==
    ASSUME NEW events, Proper(events), NEW q \in 1..Len(events), Kind(events, q) \in Ends,
           NEW st, Opened(events, st, q)
    PROVE  st # <<>> /\ Opened(events, SubSeq(st, 1, Len(st) - 1), q + 1)
<1>1. Len(events) \in Nat
  BY ProperShape
<1>2. st \in Seq(Nat)
  BY DEF Opened
<1>3. st # <<>>
  <2>1. q # 1
    <3>1. Kind(events, 1) \in Scalars \cup Starts
      BY ProperMeans
    <3> QED BY <3>1 DEF Scalars, Starts, Ends
  <2>2. q \in 1..(Len(events) + 1) /\ q # Len(events) + 1
    BY <1>1
  <2> QED BY <2>1, <2>2, NothingOpen
<1>4. PICK n, u : n = Len(st) /\ u = SubSeq(st, 1, Len(st) - 1)
  OBVIOUS
<1>5. n \in Nat /\ n # 0 /\ u \in Seq(Nat) /\ Len(u) = n - 1 /\ \A i \in 1..(n - 1) : u[i] = st[i]
  BY <1>2, <1>3, <1>4, Outer
<1>6. (u = <<>>) <=> n = 1
  BY <1>5, EmptySeq
<1>7. \A i \in 1..n : st[i] \in 1..Len(events) /\ Kind(events, st[i]) \in Starts /\ st[i] < q
  BY <1>4 DEF Opened
<1>8. Around(events)[q] = st[n]
  BY <1>3, <1>4 DEF Opened
<1>9. \A i \in 1..n : Around(events)[st[i]] = IF i = 1 THEN 0 ELSE st[i - 1]
  BY <1>4 DEF Opened
<1>10. Around(events)[q + 1] = Around(events)[st[n]]
  BY <1>1, <1>8, AroundNext
<1>11. Around(events)[q + 1] = IF u = <<>> THEN 0 ELSE u[Len(u)]
  <2>1. n \in 1..n
    BY <1>5
  <2>2. Around(events)[st[n]] = IF n = 1 THEN 0 ELSE st[n - 1]
    BY <1>9, <2>1
  <2>3. CASE n = 1
    BY <1>6, <1>10, <2>2, <2>3
  <2>4. CASE n # 1
    <3>1. n - 1 \in 1..(n - 1)
      BY <1>5, <2>4
    <3>2. u[Len(u)] = st[n - 1]
      BY <1>5, <3>1
    <3> QED BY <1>6, <1>10, <2>2, <2>4, <3>2
  <2> QED BY <2>3, <2>4
<1>12. ASSUME NEW i \in 1..(n - 1) PROVE u[i] \in 1..Len(events) /\ Kind(events, u[i]) \in Starts /\ u[i] < q + 1
  <2>1. i \in 1..n
    BY <1>5
  <2>2. st[i] \in 1..Len(events) /\ Kind(events, st[i]) \in Starts /\ st[i] < q
    BY <1>7, <2>1
  <2>3. u[i] = st[i]
    BY <1>5
  <2>4. st[i] < q + 1
    BY <1>1, <2>2
  <2> QED BY <2>2, <2>3, <2>4
<1>13. ASSUME NEW i \in 1..(n - 1) PROVE Around(events)[u[i]] = IF i = 1 THEN 0 ELSE u[i - 1]
  <2>1. i \in 1..n /\ (i # 1 => i - 1 \in 1..(n - 1))
    BY <1>5
  <2> QED BY <1>5, <1>9, <2>1
<1> QED BY <1>3, <1>4, <1>5, <1>11, <1>12, <1>13 DEF Opened

\* The value that ends is the last of those in the container around it.
LEMMA EndIsLast ==
    ASSUME NEW events, Proper(events), NEW q \in 1..Len(events), Kind(events, q) \in Ends, Around(events)[q] # 0,
           NEW p, p # 0, p = Around(events)[Around(events)[q]]
    PROVE  /\ Around(events)[q] \in Inside(events, p)
           /\ \A d \in Inside(events, p) : d < q + 1 <=> d <= Around(events)[q]
           /\ KeyBefore(events, q + 1) = <<>>
<1>1. Len(events) \in Nat /\ DOMAIN events = 1..Len(events)
  BY ProperShape
<1>2. PICK o : o = Around(events)[q]
  OBVIOUS
<1>3. q \in 1..(Len(events) + 1)
  BY <1>1
<1>4. o \in 1..Len(events) /\ Kind(events, o) \in Starts /\ o < q
  BY <1>1, <1>2, <1>3, AroundIsStart
<1>5. o \in Inside(events, p)
  BY <1>1, <1>2, <1>4 DEF Inside, ValuesIn, Kind
<1>6. ASSUME NEW d \in Inside(events, p) PROVE d < q + 1 <=> d <= o
  <2>1. d \in 1..Len(events) /\ Around(events)[d] = p /\ Kind(events, d) \in Scalars \cup Starts
    BY InsideIs
  <2>2. p \in Nat /\ p < o
    BY <1>5, InsideIs
  <2>3. ~(o < d /\ d <= q)
    <3> SUFFICES ASSUME o < d, d <= q PROVE FALSE
      OBVIOUS
    <3>1. d \in (Around(events)[q] + 1)..q
      BY <1>1, <1>2, <1>4, <2>1
    <3>2. Around(events)[d] >= Around(events)[q]
      BY <1>1, <3>1, BetweenIsInside
    <3> QED BY <1>2, <1>4, <2>1, <2>2, <3>2
  <2> QED BY <1>1, <1>4, <2>1, <2>3
<1>7. KeyBefore(events, q + 1) = <<>>
  <2>1. (q + 1) - 1 = q /\ Kind(events, q) # "key"
    BY <1>1 DEF Ends
  <2> QED BY <2>1 DEF KeyBefore
<1> QED BY <1>2, <1>5, <1>6, <1>7

\* The frame around the one that ends takes its value.
LEMMA EndFills ==
    ASSUME NEW events, Proper(events), NEW q \in 1..Len(events), Kind(events, q) \in Ends,
           NEW st, Opened(events, st, q), Len(st) # 1,
           NEW below, below = SubSeq(FramesOf(events, Meanings(events), st, q), 1, Len(st) - 1),
           NEW value, value = Meanings(events)[Around(events)[q]]
    PROVE  Put(below, Len(st) - 1, Filled(below[Len(st) - 1], value))
               = FramesOf(events, Meanings(events), SubSeq(st, 1, Len(st) - 1), q + 1)
<1>1. Len(events) \in Nat
  BY ProperShape
<1>2. st \in Seq(Nat) /\ st # <<>>
  BY EndLeaves DEF Opened
<1>3. PICK n, k, u : n = Len(st) /\ k = n - 1 /\ u = SubSeq(st, 1, Len(st) - 1)
  OBVIOUS
<1>4. n \in Nat /\ k \in Nat /\ k # 0 /\ u \in Seq(Nat) /\ Len(u) = k /\ \A i \in 1..k : u[i] = st[i]
  <2>1. n \in Nat /\ n # 0 /\ u \in Seq(Nat) /\ Len(u) = n - 1 /\ \A i \in 1..(n - 1) : u[i] = st[i]
    BY <1>2, <1>3, Outer
  <2> QED BY <1>3, <2>1
<1>5. PICK o, p : o = st[n] /\ p = st[k]
  OBVIOUS
<1>6. o = Around(events)[q] /\ p = Around(events)[o] /\ p # 0 /\ o # 0
  <2>1. n \in 1..n /\ k \in 1..n /\ n # 1
    BY <1>3, <1>4
  <2>2. Around(events)[st[n]] = st[n - 1] /\ st[k] \in 1..Len(events) /\ st[n] \in 1..Len(events)
    BY <1>3, <2>1 DEF Opened
  <2>3. Around(events)[q] = st[n]
    BY <1>2, <1>3 DEF Opened
  <2> QED BY <1>1, <1>3, <1>5, <2>2, <2>3
<1>7. /\ o \in Inside(events, p)
      /\ \A d \in Inside(events, p) : d < q + 1 <=> d <= o
      /\ KeyBefore(events, q + 1) = <<>>
  BY <1>6, EndIsLast
<1>8. PICK m, b : m = Meanings(events) /\ b = q + 1
  OBVIOUS
<1>9. Filled(FrameAt(events, m, p, o), m[o]) = FrameAt(events, m, p, b)
  BY <1>6, <1>7, <1>8, FrameFills
<1>10. PICK f, g, h : /\ f = FramesOf(events, m, st, q) /\ g = FramesOf(events, m, u, b)
                      /\ h = [below EXCEPT ![k] = Filled(below[k], value)]
  OBVIOUS
<1>11. PICK S : f \in Seq(S)
  BY <1>2, <1>10, FramesAreSeq
<1>12. Len(f) = n /\ f # <<>> /\ \A i \in 1..n : f[i] = FrameAt(events, m, st[i], Bound(st, i, q))
  BY <1>2, <1>3, <1>10, FramesAreSeq
<1>13. below \in Seq(S) /\ Len(below) = k /\ \A i \in 1..k : below[i] = f[i]
  <2>1. below = SubSeq(f, 1, Len(f) - 1)
    BY <1>3, <1>8, <1>10, <1>12
  <2>2. /\ SubSeq(f, 1, Len(f) - 1) \in Seq(S) /\ Len(SubSeq(f, 1, Len(f) - 1)) = Len(f) - 1
        /\ \A i \in 1..(Len(f) - 1) : SubSeq(f, 1, Len(f) - 1)[i] = f[i]
    BY <1>11, <1>12, Outer
  <2> QED BY <1>3, <1>12, <2>1, <2>2
<1>14. DOMAIN below = 1..k
  BY <1>13, LenProperties
<1>15. k \in 1..k /\ k \in 1..n /\ k # n /\ k + 1 = n
  BY <1>3, <1>4
<1>16. below[k] = FrameAt(events, m, p, o)
  <2>1. Bound(st, k, q) = o
    BY <1>3, <1>5, <1>15 DEF Bound
  <2> QED BY <1>5, <1>12, <1>13, <1>15, <2>1
<1>17. h[k] = FrameAt(events, m, p, b)
  <2>1. value = m[o]
    BY <1>6, <1>8
  <2> QED BY <1>9, <1>10, <1>14, <1>15, <1>16, <2>1
<1>18. DOMAIN h = 1..k /\ h = [i \in 1..k |-> h[i]] /\ \A i \in 1..k : i # k => h[i] = below[i]
  BY <1>10, <1>14
<1>19. DOMAIN g = 1..k /\ g = [i \in 1..k |-> g[i]] /\ \A i \in 1..k : g[i] = FrameAt(events, m, u[i], Bound(u, i, b))
  BY <1>4, <1>10 DEF FramesOf
<1>20. ASSUME NEW i \in 1..k PROVE h[i] = g[i]
  <2>1. CASE i = k
    <3>1. Bound(u, k, b) = b
      BY <1>4 DEF Bound
    <3> QED BY <1>4, <1>5, <1>15, <1>17, <1>19, <2>1, <3>1
  <2>2. CASE i # k
    <3>1. i \in 1..n /\ i # n /\ i + 1 \in 1..k
      BY <1>3, <1>4, <2>2
    <3>2. Bound(st, i, q) = st[i + 1] /\ Bound(u, i, b) = u[i + 1]
      BY <1>3, <1>4, <2>2, <3>1 DEF Bound
    <3>3. h[i] = FrameAt(events, m, st[i], st[i + 1])
      BY <1>12, <1>13, <1>18, <2>2, <3>1, <3>2
    <3>4. g[i] = FrameAt(events, m, st[i], st[i + 1])
      <4>1. u[i] = st[i] /\ u[i + 1] = st[i + 1]
        BY <1>4, <3>1
      <4> QED BY <1>19, <3>2, <4>1
    <3> QED BY <3>3, <3>4
  <2> QED BY <2>1, <2>2
<1>21. h = g
  BY <1>18, <1>19, <1>20
<1> QED BY <1>3, <1>8, <1>10, <1>21 DEF Put

\* The innermost frame takes a value that is no container at once.
LEMMA ScalarFills ==
    ASSUME NEW events, Proper(events), NEW q \in 1..Len(events), Kind(events, q) \in Scalars,
           NEW st, Opened(events, st, q), st # <<>>,
           NEW f, f = FramesOf(events, Meanings(events), st, q)
    PROVE  Put(f, Len(st), Filled(f[Len(st)], ScalarValue(events[q])))
               = FramesOf(events, Meanings(events), st, q + 1)
<1>1. Len(events) \in Nat /\ DOMAIN events = 1..Len(events)
  BY ProperShape
<1>2. st \in Seq(Nat)
  BY DEF Opened
<1>3. PICK n, p, m, b : n = Len(st) /\ p = st[n] /\ m = Meanings(events) /\ b = q + 1
  OBVIOUS
<1>4. n \in Nat /\ n # 0 /\ n \in 1..n /\ p = Around(events)[q] /\ p # 0
  <2>1. q \in 1..(Len(events) + 1)
    BY <1>1
  <2>2. Len(st) \in Nat /\ Len(st) # 0 /\ st[Len(st)] = Around(events)[q] /\ Around(events)[q] # 0
    BY <2>1, NothingOpen
  <2> QED BY <1>3, <2>2
<1>5. q \in Inside(events, p)
  BY <1>1, <1>4 DEF Inside, ValuesIn, Kind
<1>6. \A d \in Inside(events, p) : d < b <=> d <= q
  <2>1. \A d \in Inside(events, p) : d \in Nat
    BY InsideIs
  <2> QED BY <1>1, <1>3, <2>1
<1>7. KeyBefore(events, b) = <<>>
  <2>1. b - 1 = q /\ Kind(events, q) # "key"
    BY <1>1, <1>3 DEF Scalars
  <2> QED BY <2>1 DEF KeyBefore
<1>8. Filled(FrameAt(events, m, p, q), m[q]) = FrameAt(events, m, p, b)
  BY <1>4, <1>5, <1>6, <1>7, FrameFills
<1>9. m[q] = ScalarValue(events[q])
  <2>1. Kind(events, q) \notin Starts
    BY DEF Scalars, Starts
  <2>2. m[q] = MeaningAt(events, m, q)
    BY <1>1, <1>3, MeaningsAre
  <2> QED BY <2>1, <2>2 DEF MeaningAt, Kind
<1>10. f[n] = FrameAt(events, m, p, q)
  <2>1. Bound(st, n, q) = q
    BY <1>3 DEF Bound
  <2>2. f = FramesOf(events, m, st, q) /\ n \in 1..Len(st)
    BY <1>3, <1>4
  <2>3. f[n] = FrameAt(events, m, st[n], Bound(st, n, q))
    BY <1>2, <2>2, FramesAreSeq
  <2> QED BY <1>3, <2>1, <2>3
<1>11. PICK v : v = Filled(f[n], ScalarValue(events[q]))
  OBVIOUS
<1>12. v = FrameAt(events, m, st[Len(st)], b)
  BY <1>3, <1>8, <1>9, <1>10, <1>11
<1>13. Put(FramesOf(events, m, st, q), Len(st), v) = FramesOf(events, m, st, b)
  BY <1>2, <1>12, FramesChange
<1> QED BY <1>3, <1>11, <1>13

\* Around a name there is an object that waits for none.
LEMMA KeyIsExpected ==
    ASSUME NEW events, Proper(events), NEW q \in 1..Len(events), Kind(events, q) = "key",
           NEW st, Opened(events, st, q)
    PROVE  /\ st # <<>> /\ Len(st) \in Nat /\ Len(st) # 0 /\ st[Len(st)] = Around(events)[q]
           /\ Kind(events, Around(events)[q]) = "startObject" /\ KeyBefore(events, q) = <<>>
<1>1. Len(events) \in Nat
  BY ProperShape
<1>2. Around(events)[q] # 0 /\ Kind(events, Around(events)[q]) = "startObject"
  BY ProperMeans
<1>3. st # <<>>
  BY <1>2 DEF Opened
<1>4. q \in 1..(Len(events) + 1)
  BY <1>1
<1>5. q \in 2..Len(events) /\ Len(st) \in Nat /\ Len(st) # 0 /\ st[Len(st)] = Around(events)[q]
  BY <1>3, <1>4, NothingOpen
<1>6. KeyBefore(events, q) = <<>>
  <2>1. q \in 2..(Len(events) + 1)
    BY <1>1, <1>5
  <2>2. Kind(events, q - 1) = "key" => Kind(events, q) \in Scalars \cup Starts
    BY <2>1, KeyIsNamed
  <2>3. Kind(events, q) \notin Scalars \cup Starts
    BY DEF Scalars, Starts
  <2> QED BY <2>2, <2>3 DEF KeyBefore
<1> QED BY <1>2, <1>3, <1>5, <1>6

\* A name waits in the innermost frame.
LEMMA KeyWaits ==
    ASSUME NEW events, Proper(events), NEW q \in 1..Len(events), Kind(events, q) = "key",
           NEW st, Opened(events, st, q), NEW m,
           NEW f, f = FramesOf(events, m, st, q)
    PROVE  Put(f, Len(st), [f[Len(st)] EXCEPT !.key = <<events[q].text>>]) = FramesOf(events, m, st, q + 1)
<1>1. Len(events) \in Nat
  BY ProperShape
<1>2. st \in Seq(Nat) /\ st # <<>> /\ Len(st) \in Nat /\ Len(st) # 0
  BY KeyIsExpected DEF Opened
<1>3. PICK n, p, b, x : n = Len(st) /\ p = st[n] /\ b = q + 1 /\ x = <<events[q].text>>
  OBVIOUS
<1>4. f[n] = FrameAt(events, m, p, q)
  <2>1. Bound(st, n, q) = q
    BY <1>3 DEF Bound
  <2>2. n \in 1..Len(st)
    BY <1>2, <1>3
  <2>3. f[n] = FrameAt(events, m, st[n], Bound(st, n, q))
    BY <1>2, <1>3, <2>2, FramesAreSeq
  <2> QED BY <1>3, <2>1, <2>3
<1>5. Heard(events, p, q) = Heard(events, p, b)
  <2>1. \A c \in Inside(events, p) : c \in Nat /\ Kind(events, c) \in Scalars \cup Starts
    BY InsideIs
  <2>2. q \notin Inside(events, p)
    BY <2>1 DEF Scalars, Starts
  <2>3. \A c \in Inside(events, p) : c < q <=> c < b
    BY <1>1, <1>3, <2>1, <2>2
  <2> QED BY <2>3 DEF Heard
<1>6. KeyBefore(events, b) = x
  <2>1. b - 1 = q
    BY <1>1, <1>3
  <2> QED BY <1>3, <2>1 DEF KeyBefore
<1>7. PICK v : v = [f[n] EXCEPT !.key = x]
  OBVIOUS
<1>8. v = FrameAt(events, m, st[Len(st)], b)
  <2>1. PICK y, z : y = Holding(events, m, p, Heard(events, p, q)) /\ z = KeyBefore(events, q)
    OBVIOUS
  <2>2. f[n] = [value |-> y, key |-> z]
    BY <1>4, <2>1 DEF FrameAt
  <2>3. FrameAt(events, m, p, b) = [value |-> y, key |-> x]
    BY <1>5, <1>6, <2>1 DEF FrameAt
  <2> QED BY <1>3, <1>7, <2>2, <2>3
<1>9. st \in Seq(Nat) /\ st # <<>>
  BY <1>2
<1>10. Put(FramesOf(events, m, st, q), Len(st), v) = FramesOf(events, m, st, b)
  BY <1>8, <1>9, FramesChange
<1> QED BY <1>3, <1>7, <1>10

-----------------------------------------------------------------------------
(* JSON: what events cost *)

Early(S, b) == {p \in S : p < b}

LEMMA EarlyGrows ==
    ASSUME NEW S \in SUBSET Nat, NEW q \in Nat
    PROVE  /\ IsFiniteSet(Early(S, q)) /\ Cardinality(Early(S, q)) \in Nat
           /\ Cardinality(Early(S, q + 1)) = Cardinality(Early(S, q)) + (IF q \in S THEN 1 ELSE 0)
<1>1. PICK A, B : A = Early(S, q) /\ B = Early(S, q + 1)
  OBVIOUS
<1>2. IsFiniteSet(A)
  <2>1. \A p \in A : p <= q
    BY <1>1 DEF Early
  <2>2. A \in SUBSET Nat
    BY <1>1 DEF Early
  <2> QED BY <2>1, <2>2, FS_BoundedSetOfNaturals
<1>3. Cardinality(A) \in Nat
  BY <1>2, FS_CardinalityType
<1>4. q \notin A
  BY <1>1 DEF Early
<1>5. \A p \in S : p < q + 1 <=> p < q \/ p = q
  OBVIOUS
<1>6. CASE q \in S
  <2>1. B = A \cup {q}
    BY <1>1, <1>5, <1>6 DEF Early
  <2> QED BY <1>1, <1>2, <1>3, <1>4, <1>6, <2>1, FS_AddElement
<1>7. CASE q \notin S
  <2>1. B = A
    BY <1>1, <1>5, <1>7 DEF Early
  <2> QED BY <1>1, <1>2, <1>3, <1>7, <2>1
<1> QED BY <1>6, <1>7

\* No more of a set are early than are in it at all.
LEMMA EarlyIsSome ==
    ASSUME NEW S \in SUBSET Nat, IsFiniteSet(S), NEW b
    PROVE  Cardinality(Early(S, b)) \in Nat /\ Cardinality(S) \in Nat /\ Cardinality(Early(S, b)) <= Cardinality(S)
<1>1. PICK A : A = Early(S, b)
  OBVIOUS
<1>2. A \in SUBSET S
  BY <1>1 DEF Early
<1>3. IsFiniteSet(A) /\ Cardinality(A) <= Cardinality(S)
  BY <1>2, FS_Subset
<1>4. Cardinality(A) \in Nat /\ Cardinality(S) \in Nat
  BY <1>3, FS_CardinalityType
<1> QED BY <1>1, <1>3, <1>4

TextKinds == {"key", "string", "float"}
BytesBefore(events, b) == {x \in Bytes(events) : x[1] < b}

LEMMA BytesAre ==
    ASSUME NEW events
    PROVE  \A x : x \in Bytes(events) <=>
               \E p \in DOMAIN events : Kind(events, p) \in TextKinds /\ x \in {p} \X (1..events[p].size)
  BY DEF Bytes, TextKinds, Kind

LEMMA BytesGrow ==
    ASSUME NEW events, Proper(events), NEW q \in 1..Len(events), IsFiniteSet(BytesBefore(events, q))
    PROVE  /\ IsFiniteSet(BytesBefore(events, q + 1)) /\ Cardinality(BytesBefore(events, q)) \in Nat
           /\ Cardinality(BytesBefore(events, q + 1))
                  = Cardinality(BytesBefore(events, q)) + (IF Kind(events, q) \in TextKinds THEN events[q].size ELSE 0)
<1>1. DOMAIN events = 1..Len(events) /\ Len(events) \in Nat
  BY ProperShape
<1>2. PICK A, B, n : A = BytesBefore(events, q) /\ B = BytesBefore(events, q + 1) /\ n = events[q].size
  OBVIOUS
<1>3. n \in Nat
  BY <1>1, <1>2 DEF Proper
<1>4. Cardinality(A) \in Nat
  BY <1>2, FS_CardinalityType
<1>5. \A x \in Bytes(events) : x[1] \in Nat /\ (x[1] < q + 1 <=> x[1] < q \/ x[1] = q)
  <2> SUFFICES ASSUME NEW x \in Bytes(events) PROVE x[1] \in Nat /\ (x[1] < q + 1 <=> x[1] < q \/ x[1] = q)
    OBVIOUS
  <2>1. PICK p \in DOMAIN events : x \in {p} \X (1..events[p].size)
    BY BytesAre
  <2>2. x[1] = p /\ p \in Nat
    BY <1>1, <2>1
  <2> QED BY <1>1, <2>2
<1>6. CASE Kind(events, q) \in TextKinds
  <2>1. PICK C : C = {q} \X (1..n)
    OBVIOUS
  <2>2. IsFiniteSet(C) /\ Cardinality(C) = n
    <3>1. IsFiniteSet({q}) /\ Cardinality({q}) = 1
      BY FS_Singleton
    <3>2. IsFiniteSet(1..n) /\ Cardinality(1..n) = n
      <4>1. 1 \in Int /\ n \in Int
        BY <1>3
      <4> QED BY <1>3, <4>1, FS_Interval
    <3>3. IsFiniteSet(C) /\ Cardinality(C) = Cardinality({q}) * Cardinality(1..n)
      BY <2>1, <3>1, <3>2, FS_Product
    <3> QED BY <1>3, <3>1, <3>2, <3>3
  <2>3. \A x : x \in C <=> x \in Bytes(events) /\ x[1] = q
    <3>1. \A x \in C : x \in Bytes(events) /\ x[1] = q
      BY <1>1, <1>2, <1>6, <2>1, BytesAre
    <3>2. ASSUME NEW x \in Bytes(events), x[1] = q PROVE x \in C
      <4>1. PICK p \in DOMAIN events : x \in {p} \X (1..events[p].size)
        BY BytesAre
      <4>2. p = q
        BY <3>2, <4>1
      <4> QED BY <1>2, <2>1, <4>1, <4>2
    <3> QED BY <3>1, <3>2
  <2>4. B = A \cup C
    <3>1. \A x : x \in B <=> x \in Bytes(events) /\ x[1] < q + 1
      BY <1>2 DEF BytesBefore
    <3>2. \A x : x \in A <=> x \in Bytes(events) /\ x[1] < q
      BY <1>2 DEF BytesBefore
    <3>3. \A x : x \in B <=> x \in A \/ x \in C
      BY <1>5, <2>3, <3>1, <3>2
    <3> QED BY <3>3
  <2>5. A \cap C = {}
    BY <1>2, <2>3 DEF BytesBefore
  <2>6. IsFiniteSet(A \cup C) /\ Cardinality(A \cup C) = Cardinality(A) + Cardinality(C) - Cardinality(A \cap C)
    BY <1>2, <2>2, FS_Union
  <2>7. Cardinality(A \cap C) = 0
    BY <2>5, FS_EmptySet
  <2>8. IsFiniteSet(B) /\ Cardinality(B) = Cardinality(A) + n
    BY <1>3, <1>4, <2>2, <2>4, <2>6, <2>7
  <2> QED BY <1>2, <1>4, <1>6, <2>8
<1>7. CASE Kind(events, q) \notin TextKinds
  <2>1. \A x \in Bytes(events) : x[1] # q
    <3> SUFFICES ASSUME NEW x \in Bytes(events), x[1] = q PROVE FALSE
      OBVIOUS
    <3>1. PICK p \in DOMAIN events : Kind(events, p) \in TextKinds /\ x \in {p} \X (1..events[p].size)
      BY BytesAre
    <3> QED BY <1>7, <3>1
  <2>2. A = B
    BY <1>2, <1>5, <2>1 DEF BytesBefore
  <2> QED BY <1>2, <1>4, <1>7, <2>2
<1> QED BY <1>6, <1>7

LEMMA BytesAreFinite ==
    ASSUME NEW events, Proper(events)
    PROVE  /\ \A b \in 1..(Len(events) + 1) : IsFiniteSet(BytesBefore(events, b))
           /\ BytesBefore(events, 1) = {} /\ BytesBefore(events, Len(events) + 1) = Bytes(events)
<1>1. PICK n : n = Len(events) /\ n \in Nat /\ DOMAIN events = 1..n
  BY ProperShape
<1>2. \A x \in Bytes(events) : x[1] \in 1..n
  <2> SUFFICES ASSUME NEW x \in Bytes(events) PROVE x[1] \in 1..n
    OBVIOUS
  <2>1. PICK p \in DOMAIN events : x \in {p} \X (1..events[p].size)
    BY BytesAre
  <2> QED BY <1>1, <2>1
<1>3. BytesBefore(events, 1) = {}
  <2>1. \A x \in Bytes(events) : ~(x[1] < 1)
    BY <1>2
  <2> QED BY <2>1 DEF BytesBefore
<1>4. BytesBefore(events, n + 1) = Bytes(events)
  <2>1. \A x \in Bytes(events) : x[1] < n + 1
    BY <1>1, <1>2
  <2> QED BY <2>1 DEF BytesBefore
<1> DEFINE Bad == {b \in 1..(n + 1) : ~IsFiniteSet(BytesBefore(events, b))}
<1>5. Bad = {}
  <2> SUFFICES ASSUME Bad # {} PROVE FALSE
    OBVIOUS
  <2>1. PICK m \in Bad : \A k \in Bad : m <= k
    <3>1. Bad \in SUBSET Nat
      BY <1>1
    <3> HIDE DEF Bad
    <3> QED BY <3>1, Least
  <2>2. m \in 1..(n + 1) /\ ~IsFiniteSet(BytesBefore(events, m))
    OBVIOUS
  <2>3. m # 1
    BY <1>3, <2>2, FS_EmptySet
  <2>4. PICK q : q = m - 1
    OBVIOUS
  <2>5. q \in 1..Len(events) /\ q + 1 = m /\ q \in 1..(n + 1) /\ ~(m <= q)
    BY <1>1, <2>2, <2>3, <2>4
  <2>6. q \notin Bad
    <3> HIDE DEF Bad
    <3> QED BY <2>1, <2>5
  <2>7. IsFiniteSet(BytesBefore(events, q))
    BY <2>5, <2>6
  <2>8. IsFiniteSet(BytesBefore(events, q + 1))
    BY <2>5, <2>7, BytesGrow
  <2> QED BY <2>2, <2>5, <2>8
<1> QED BY <1>1, <1>3, <1>4, <1>5

\* What the events before one cost, and what the event itself does.
CostBefore(events, b) ==
    Cost(Cardinality(Early(ValuesIn(events), b)), Cardinality(BytesBefore(events, b)), Cardinality(Early(Entries(events), b)))
CostOf(events, q) ==
    Cost(IF q \in ValuesIn(events) THEN 1 ELSE 0, IF Kind(events, q) \in TextKinds THEN events[q].size ELSE 0,
         IF q \in Entries(events) THEN 1 ELSE 0)

LEMMA PlacesAre ==
    ASSUME NEW events, Proper(events)
    PROVE  /\ ValuesIn(events) \in SUBSET Nat /\ IsFiniteSet(ValuesIn(events))
           /\ Entries(events) \in SUBSET Nat /\ IsFiniteSet(Entries(events))
           /\ ValuesIn(events) \in SUBSET (1..Len(events)) /\ Entries(events) \in SUBSET (1..Len(events))
<1>1. PICK n : n = Len(events) /\ n \in Nat /\ DOMAIN events = 1..n
  BY ProperShape
<1>2. PICK A, B : A = ValuesIn(events) /\ B = Entries(events)
  OBVIOUS
<1>3. A \in SUBSET (1..n) /\ B \in SUBSET (1..n)
  BY <1>1, <1>2 DEF ValuesIn, Entries
<1>4. IsFiniteSet(1..n)
  <2>1. 1 \in Int /\ n \in Int
    BY <1>1
  <2> QED BY <2>1, FS_Interval
<1>5. IsFiniteSet(A) /\ IsFiniteSet(B)
  BY <1>3, <1>4, FS_Subset
<1>6. A \in SUBSET Nat /\ B \in SUBSET Nat
  BY <1>3
<1> QED BY <1>1, <1>2, <1>3, <1>5, <1>6

LEMMA CostGrows ==
    ASSUME NEW events, Proper(events), NEW q \in 1..Len(events)
    PROVE  CostBefore(events, q + 1) = Consume(CostBefore(events, q), CostOf(events, q))
<1>1. Len(events) \in Nat /\ q \in Nat /\ q \in 1..(Len(events) + 1)
  BY ProperShape
<1>2. ValuesIn(events) \in SUBSET Nat /\ Entries(events) \in SUBSET Nat
  BY PlacesAre
<1>3. IsFiniteSet(BytesBefore(events, q))
  BY <1>1, BytesAreFinite
<1>4. PICK a, b, c : /\ a = Cardinality(Early(ValuesIn(events), q)) /\ b = Cardinality(BytesBefore(events, q))
                     /\ c = Cardinality(Early(Entries(events), q))
  OBVIOUS
<1>5. Cardinality(Early(ValuesIn(events), q + 1)) = a + (IF q \in ValuesIn(events) THEN 1 ELSE 0)
  BY <1>1, <1>2, <1>4, EarlyGrows
<1>6. Cardinality(BytesBefore(events, q + 1)) = b + (IF Kind(events, q) \in TextKinds THEN events[q].size ELSE 0)
  BY <1>3, <1>4, BytesGrow
<1>7. Cardinality(Early(Entries(events), q + 1)) = c + (IF q \in Entries(events) THEN 1 ELSE 0)
  BY <1>1, <1>2, <1>4, EarlyGrows
<1> QED BY <1>4, <1>5, <1>6, <1>7 DEF CostBefore, CostOf, Cost, Consume

LEMMA CostAtFirst ==
    ASSUME NEW events, Proper(events)
    PROVE  CostBefore(events, 1) = Unused
<1>1. BytesBefore(events, 1) = {}
  BY BytesAreFinite
<1>2. ValuesIn(events) \in SUBSET (1..Len(events)) /\ Entries(events) \in SUBSET (1..Len(events)) /\ Len(events) \in Nat
  BY PlacesAre, ProperShape
<1>3. Early(ValuesIn(events), 1) = {} /\ Early(Entries(events), 1) = {}
  BY <1>2 DEF Early
<1>4. Cardinality({}) = 0
  BY FS_EmptySet
<1> QED BY <1>1, <1>3, <1>4 DEF CostBefore, Cost, Unused

\* The whole costs no less, and all events before the end are the whole.
CostAll(events) == Cost(Cardinality(ValuesIn(events)), Cardinality(Bytes(events)), Cardinality(Entries(events)))

LEMMA CostIsSome ==
    ASSUME NEW events, Proper(events), NEW b \in 1..(Len(events) + 1)
    PROVE  /\ CostBefore(events, b) \in Uses /\ CostAll(events) \in Uses
           /\ CostBefore(events, b).nodes <= CostAll(events).nodes
           /\ CostBefore(events, b).strings <= CostAll(events).strings
           /\ CostBefore(events, b).entries <= CostAll(events).entries
<1>1. /\ ValuesIn(events) \in SUBSET Nat /\ IsFiniteSet(ValuesIn(events))
      /\ Entries(events) \in SUBSET Nat /\ IsFiniteSet(Entries(events))
  BY PlacesAre
<1>2. PICK a, c, d, e : /\ a = Cardinality(Early(ValuesIn(events), b)) /\ c = Cardinality(ValuesIn(events))
                        /\ d = Cardinality(Early(Entries(events), b)) /\ e = Cardinality(Entries(events))
  OBVIOUS
<1>3. a \in Nat /\ c \in Nat /\ a <= c /\ d \in Nat /\ e \in Nat /\ d <= e
  BY <1>1, <1>2, EarlyIsSome
<1>4. PICK f, g : f = Cardinality(BytesBefore(events, b)) /\ g = Cardinality(Bytes(events))
  OBVIOUS
<1>5. f \in Nat /\ g \in Nat /\ f <= g
  <2>1. IsFiniteSet(Bytes(events))
    <3>1. Len(events) + 1 \in 1..(Len(events) + 1)
      BY ProperShape
    <3> QED BY <3>1, BytesAreFinite
  <2>2. BytesBefore(events, b) \in SUBSET Bytes(events)
    BY DEF BytesBefore
  <2>3. IsFiniteSet(BytesBefore(events, b)) /\ f <= g
    BY <1>4, <2>1, <2>2, FS_Subset
  <2> QED BY <1>4, <2>1, <2>3, FS_CardinalityType
<1> QED BY <1>2, <1>3, <1>4, <1>5 DEF CostBefore, CostAll, Cost, Uses

LEMMA CostAtLast ==
    ASSUME NEW events, Proper(events)
    PROVE  CostBefore(events, Len(events) + 1) = CostAll(events)
<1>1. Len(events) \in Nat /\ ValuesIn(events) \in SUBSET (1..Len(events)) /\ Entries(events) \in SUBSET (1..Len(events))
  BY PlacesAre, ProperShape
<1>2. \A p \in 1..Len(events) : p < Len(events) + 1
  BY <1>1
<1>3. Early(ValuesIn(events), Len(events) + 1) = ValuesIn(events) /\ Early(Entries(events), Len(events) + 1) = Entries(events)
  BY <1>1, <1>2 DEF Early
<1>4. BytesBefore(events, Len(events) + 1) = Bytes(events)
  BY BytesAreFinite
<1> QED BY <1>3, <1>4 DEF CostBefore, CostAll

LEMMA DepthGrows ==
    ASSUME NEW events, Proper(events), NEW q \in 1..Len(events)
    PROVE  /\ Depth(events, q) \in Int /\ Depth(events, 1) = 0
           /\ Kind(events, q) \in Starts => Depth(events, q + 1) = Depth(events, q) + 1
           /\ Kind(events, q) \in Ends => Depth(events, q + 1) = Depth(events, q) - 1
           /\ Kind(events, q) \notin Starts \cup Ends => Depth(events, q + 1) = Depth(events, q)
<1>1. Len(events) \in Nat /\ DOMAIN events = 1..Len(events) /\ q \in Nat
  BY ProperShape
<1>2. PICK A, B : /\ A = {p \in 1..Len(events) : Kind(events, p) \in Starts}
                  /\ B = {p \in 1..Len(events) : Kind(events, p) \in Ends}
  OBVIOUS
<1>3. \A b : Amount(Starts, b, events) = Cardinality(Early(A, b)) /\ Amount(Ends, b, events) = Cardinality(Early(B, b))
  <2> SUFFICES ASSUME NEW b
               PROVE  Amount(Starts, b, events) = Cardinality(Early(A, b)) /\ Amount(Ends, b, events) = Cardinality(Early(B, b))
    OBVIOUS
  <2>1. Early(A, b) = {p \in DOMAIN events : p < b /\ events[p].kind \in Starts}
    BY <1>1, <1>2 DEF Early, Kind
  <2>2. Early(B, b) = {p \in DOMAIN events : p < b /\ events[p].kind \in Ends}
    BY <1>1, <1>2 DEF Early, Kind
  <2> QED BY <2>1, <2>2 DEF Amount
<1>4. A \in SUBSET Nat /\ B \in SUBSET Nat
  BY <1>2
<1>5. PICK a, b : a = Cardinality(Early(A, q)) /\ b = Cardinality(Early(B, q))
  OBVIOUS
<1>6. a \in Nat /\ b \in Nat
  BY <1>1, <1>4, <1>5, EarlyGrows
<1>7. Cardinality(Early(A, q + 1)) = a + (IF q \in A THEN 1 ELSE 0)
  BY <1>1, <1>4, <1>5, EarlyGrows
<1>8. Cardinality(Early(B, q + 1)) = b + (IF q \in B THEN 1 ELSE 0)
  BY <1>1, <1>4, <1>5, EarlyGrows
<1>9. Depth(events, q) = a - b
  BY <1>3, <1>5 DEF Depth
<1>10. Depth(events, q + 1) = (a + (IF q \in A THEN 1 ELSE 0)) - (b + (IF q \in B THEN 1 ELSE 0))
  BY <1>3, <1>7, <1>8 DEF Depth
<1>11. Depth(events, 1) = 0
  <2>1. Early(A, 1) = {} /\ Early(B, 1) = {}
    BY <1>2 DEF Early
  <2>2. Cardinality({}) = 0
    BY FS_EmptySet
  <2>3. Amount(Starts, 1, events) = Cardinality(Early(A, 1)) /\ Amount(Ends, 1, events) = Cardinality(Early(B, 1))
    BY <1>3, Zenon
  <2>4. Amount(Starts, 1, events) = 0 /\ Amount(Ends, 1, events) = 0
    BY <2>1, <2>2, <2>3
  <2> QED BY <2>4 DEF Depth
<1>12. (q \in A <=> Kind(events, q) \in Starts) /\ (q \in B <=> Kind(events, q) \in Ends)
  BY <1>2
<1>13. Starts \cap Ends = {}
  BY DEF Starts, Ends
<1> QED BY <1>6, <1>9, <1>10, <1>11, <1>12, <1>13

-----------------------------------------------------------------------------
(* JSON: where the handlers stand at an event *)

\* The innermost frame is of the container the event lies in.
LEMMA LastIs ==
    ASSUME NEW events, Proper(events), NEW q \in 1..Len(events), NEW st, Opened(events, st, q), NEW m,
           NEW f, f = FramesOf(events, m, st, q)
    PROVE  /\ (f = <<>>) <=> (Around(events)[q] = 0)
           /\ Len(f) = Len(st) /\ Len(st) \in Nat /\ ((f = <<>>) <=> (st = <<>>))
           /\ f # <<>> => f[Len(f)] = FrameAt(events, m, Around(events)[q], q)
<1>1. Len(events) \in Nat /\ q \in 1..(Len(events) + 1)
  BY ProperShape
<1>2. st \in Seq(Nat) /\ Len(st) \in Nat
  BY DEF Opened
<1>3. /\ Len(f) = Len(st) /\ ((f = <<>>) <=> (st = <<>>))
      /\ \A i \in 1..Len(st) : f[i] = FrameAt(events, m, st[i], Bound(st, i, q))
  BY <1>2, FramesAreSeq
<1>4. CASE st = <<>>
  BY <1>2, <1>3, <1>4 DEF Opened
<1>5. CASE st # <<>>
  <2>1. Len(st) # 0 /\ st[Len(st)] = Around(events)[q] /\ Around(events)[q] # 0
    BY <1>1, <1>5, NothingOpen
  <2>2. Len(st) \in 1..Len(st)
    BY <1>2, <2>1
  <2>3. Bound(st, Len(st), q) = q
    BY DEF Bound
  <2>4. f[Len(st)] = FrameAt(events, m, st[Len(st)], Bound(st, Len(st), q))
    BY <1>3, <2>2
  <2> QED BY <1>2, <1>3, <1>5, <2>1, <2>3, <2>4
<1> QED BY <1>4, <1>5

LEMMA NoFrames ==
    ASSUME NEW events, NEW m, NEW st, st = <<>>, NEW q
    PROVE  FramesOf(events, m, st, q) = <<>>
<1>1. st \in Seq(Nat)
  OBVIOUS
<1>2. (FramesOf(events, m, st, q) = <<>>) <=> (st = <<>>)
  BY <1>1, FramesAreSeq
<1> QED BY <1>2

LEMMA FrameIs ==
    ASSUME NEW events, NEW m, NEW p, NEW c
    PROVE  /\ FrameAt(events, m, p, c).value = Holding(events, m, p, Heard(events, p, c))
           /\ FrameAt(events, m, p, c).value.type = IF Kind(events, p) = "startArray" THEN "array" ELSE "map"
           /\ FrameAt(events, m, p, c).key = KeyBefore(events, c)
<1>1. PICK h, k : h = Holding(events, m, p, Heard(events, p, c)) /\ k = KeyBefore(events, c)
  OBVIOUS
<1>2. FrameAt(events, m, p, c) = [value |-> h, key |-> k]
  BY <1>1 DEF FrameAt
<1>3. h.type = IF Kind(events, p) = "startArray" THEN "array" ELSE "map"
  BY <1>1 DEF Holding, Kind
<1> QED BY <1>1, <1>2, <1>3

\* There is a place for a value: in an array, or after a name.
HasRoom(frame) == frame.value.type = "array" \/ frame.key # <<>>

LEMMA ValueIsPlaced ==
    ASSUME NEW events, Proper(events), NEW m, NEW p, p # 0, NEW c \in Inside(events, p)
    PROVE  HasRoom(FrameAt(events, m, p, c))
<1>1. PICK f : f = FrameAt(events, m, p, c)
  OBVIOUS
<1>2. f.value.type = (IF Kind(events, p) = "startArray" THEN "array" ELSE "map") /\ f.key = KeyBefore(events, c)
  BY <1>1, FrameIs
<1>3. CASE Kind(events, p) = "startArray"
  BY <1>1, <1>2, <1>3 DEF HasRoom
<1>4. CASE Kind(events, p) # "startArray"
  <2>1. KeyBefore(events, c) = <<NameAt(events, c)>>
    BY <1>4, ValueIsNamed
  <2> QED BY <1>1, <1>2, <2>1 DEF HasRoom
<1> QED BY <1>3, <1>4

\* What the handlers have made of the events before one.
Standing(events, q, f, r, b) ==
    /\ q \in 1..(Len(events) + 1)
    /\ \E st : Opened(events, st, q) /\ f = FramesOf(events, Meanings(events), st, q) /\ Depth(events, q) = Len(st)
    /\ r = IF q > Len(events) THEN <<Meanings(events)[1]>> ELSE <<>>
    /\ b = CostBefore(events, q)

\* At a value, the innermost frame has a place for it and says whether it counts as an entry.
LEMMA ValueFinds ==
    ASSUME NEW events, Proper(events), NEW q \in 1..Len(events), Kind(events, q) \in Scalars \cup Starts,
           NEW f, NEW r, NEW b, Standing(events, q, f, r, b)
    PROVE  /\ f = <<>> => r = <<>>
           /\ f # <<>> => HasRoom(f[Len(f)])
           /\ (q \in Entries(events)) <=> (f # <<>> /\ f[Len(f)].value.type = "array")
           /\ q \in ValuesIn(events) /\ Depth(events, q) = Len(f)
<1>1. Len(events) \in Nat /\ DOMAIN events = 1..Len(events)
  BY ProperShape
<1>2. PICK st, m : /\ Opened(events, st, q) /\ f = FramesOf(events, m, st, q) /\ Depth(events, q) = Len(st)
                   /\ m = Meanings(events)
  BY DEF Standing
<1>3. r = <<>>
  BY <1>1 DEF Standing
<1>4. q \in ValuesIn(events)
  BY <1>1 DEF ValuesIn, Kind
<1>5. PICK p : p = Around(events)[q]
  OBVIOUS
<1>6. /\ (f = <<>>) <=> (p = 0)
      /\ Len(f) = Len(st)
      /\ f # <<>> => f[Len(f)] = FrameAt(events, m, p, q)
  BY <1>2, <1>5, LastIs
<1>7. q \in Entries(events) <=> (p # 0 /\ Kind(events, p) = "startArray")
  <2>1. Kind(events, q) # "key"
    BY DEF Scalars, Starts
  <2> QED BY <1>1, <1>4, <1>5, <2>1 DEF Entries, Kind
<1>8. ASSUME p # 0 PROVE /\ HasRoom(FrameAt(events, m, p, q))
                         /\ FrameAt(events, m, p, q).value.type = IF Kind(events, p) = "startArray" THEN "array" ELSE "map"
  <2>1. q \in Inside(events, p)
    BY <1>4, <1>5 DEF Inside
  <2>2. HasRoom(FrameAt(events, m, p, q))
    BY <1>8, <2>1, ValueIsPlaced
  <2> QED BY <2>2, FrameIs
<1> QED BY <1>2, <1>3, <1>4, <1>6, <1>7, <1>8

LEMMA FirstStands ==
    ASSUME NEW events, Proper(events)
    PROVE  Standing(events, 1, <<>>, <<>>, Unused)
<1>1. Len(events) \in Nat /\ Len(events) # 0 /\ 1 \in 1..(Len(events) + 1) /\ ~(1 > Len(events))
  BY ProperShape
<1>2. PICK st : st = <<>>
  OBVIOUS
<1>3. st \in Seq(Nat) /\ Len(st) = 0
  BY <1>2
<1>4. Opened(events, st, 1)
  <2>1. Around(events)[1] = 0
    BY ProperMeans
  <2> QED BY <1>2, <1>3, <2>1 DEF Opened
<1>5. FramesOf(events, Meanings(events), st, 1) = <<>>
  BY <1>2, NoFrames
<1>6. Depth(events, 1) = Len(st)
  <2>1. 1 \in 1..Len(events)
    BY <1>1
  <2>2. Depth(events, 1) = 0
    BY <2>1, DepthGrows
  <2> QED BY <1>3, <2>2
<1>7. CostBefore(events, 1) = Unused
  BY CostAtFirst
<1> QED BY <1>1, <1>4, <1>5, <1>6, <1>7 DEF Standing

LEMMA ScalarStands ==
    ASSUME NEW events, Proper(events), NEW q \in 1..Len(events), Kind(events, q) \in Scalars,
           NEW f, NEW r, NEW b, Standing(events, q, f, r, b), NEW v, v = ScalarValue(events[q])
    PROVE  /\ f = <<>> => Standing(events, q + 1, <<>>, <<v>>, CostBefore(events, q + 1))
           /\ f # <<>> => Standing(events, q + 1, Put(f, Len(f), Filled(f[Len(f)], v)), r, CostBefore(events, q + 1))
<1>1. Len(events) \in Nat /\ DOMAIN events = 1..Len(events) /\ q + 1 \in 1..(Len(events) + 1)
  BY ProperShape
<1>2. PICK st, m : /\ Opened(events, st, q) /\ f = FramesOf(events, m, st, q) /\ Depth(events, q) = Len(st)
                   /\ m = Meanings(events)
  BY DEF Standing
<1>3. Kind(events, q) \notin Starts \cup Ends
  BY DEF Scalars, Starts, Ends
<1>4. Opened(events, st, q + 1)
  BY <1>2, <1>3, PassesBy
<1>5. Depth(events, q + 1) = Len(st)
  BY <1>2, <1>3, DepthGrows
<1>6. Len(f) = Len(st) /\ ((f = <<>>) <=> (st = <<>>))
  BY <1>2, LastIs
<1>7. CASE f = <<>>
  <2>1. q = 1 /\ q + 1 = Len(events) + 1
    <3>1. q \in 1..(Len(events) + 1)
      BY <1>1
    <3>2. q = 1 \/ q = Len(events) + 1
      BY <1>2, <1>6, <1>7, <3>1, NothingOpen
    <3>3. q + 1 = 1 \/ q + 1 = Len(events) + 1
      BY <1>1, <1>4, <1>6, <1>7, NothingOpen
    <3> QED BY <1>1, <3>2, <3>3
  <2>2. v = Meanings(events)[1]
    <3>1. Meanings(events)[q] = MeaningAt(events, Meanings(events), q)
      BY <1>1, MeaningsAre
    <3> QED BY <1>3, <2>1, <3>1 DEF MeaningAt, Kind
  <2>3. FramesOf(events, m, st, q + 1) = <<>>
    BY <1>6, <1>7, NoFrames
  <2>4. q + 1 > Len(events)
    BY <1>1, <2>1
  <2> QED BY <1>1, <1>2, <1>4, <1>5, <1>7, <2>2, <2>3, <2>4 DEF Standing
<1>8. CASE f # <<>>
  <2>1. PICK g : g = Put(f, Len(f), Filled(f[Len(f)], v))
    OBVIOUS
  <2>2. g = FramesOf(events, m, st, q + 1)
    <3>1. Put(f, Len(st), Filled(f[Len(st)], ScalarValue(events[q]))) = FramesOf(events, Meanings(events), st, q + 1)
      BY <1>2, <1>6, <1>8, ScalarFills
    <3> QED BY <1>2, <1>6, <2>1, <3>1
  <2>3. q + 1 \in 2..Len(events)
    BY <1>1, <1>4, <1>6, <1>8, NothingOpen
  <2>4. ~(q + 1 > Len(events)) /\ r = <<>>
    BY <1>1, <2>3 DEF Standing
  <2> QED BY <1>1, <1>2, <1>4, <1>5, <1>8, <2>1, <2>2, <2>4 DEF Standing
<1> QED BY <1>7, <1>8

LEMMA StartStands ==
    ASSUME NEW events, Proper(events), NEW q \in 1..Len(events), Kind(events, q) \in Starts,
           NEW f, NEW r, NEW b, Standing(events, q, f, r, b),
           NEW v, v = Frame(IF Kind(events, q) = "startArray" THEN "array" ELSE "map")
    PROVE  Standing(events, q + 1, Append(f, v), r, CostBefore(events, q + 1))
<1>1. Len(events) \in Nat /\ q + 1 \in 1..(Len(events) + 1) /\ q \in Nat
  BY ProperShape
<1>2. PICK st, m : /\ Opened(events, st, q) /\ f = FramesOf(events, m, st, q) /\ Depth(events, q) = Len(st)
                   /\ m = Meanings(events)
  BY DEF Standing
<1>3. PICK u, g : u = Append(st, q) /\ g = Append(f, v)
  OBVIOUS
<1>4. Opened(events, u, q + 1) /\ g = FramesOf(events, m, u, q + 1)
  BY <1>2, <1>3, StartOpens
<1>5. Len(u) = Len(st) + 1 /\ u # <<>>
  <2>1. st \in Seq(Nat)
    BY <1>2 DEF Opened
  <2> QED BY <1>1, <1>3, <2>1, AppendProperties
<1>6. Depth(events, q + 1) = Len(u)
  BY <1>2, <1>5, DepthGrows
<1>7. q + 1 \in 2..Len(events)
  BY <1>1, <1>4, <1>5, NothingOpen
<1>8. ~(q + 1 > Len(events)) /\ r = <<>>
  BY <1>1, <1>7 DEF Standing
<1> QED BY <1>1, <1>2, <1>3, <1>4, <1>6, <1>8 DEF Standing

LEMMA KeyStands ==
    ASSUME NEW events, Proper(events), NEW q \in 1..Len(events), Kind(events, q) = "key",
           NEW f, NEW r, NEW b, Standing(events, q, f, r, b)
    PROVE  /\ f # <<>> /\ f[Len(f)].value.type = "map" /\ f[Len(f)].key = <<>>
           /\ Standing(events, q + 1, Put(f, Len(f), [f[Len(f)] EXCEPT !.key = <<events[q].text>>]), r, CostBefore(events, q + 1))
<1>1. Len(events) \in Nat /\ q + 1 \in 1..(Len(events) + 1)
  BY ProperShape
<1>2. PICK st, m : /\ Opened(events, st, q) /\ f = FramesOf(events, m, st, q) /\ Depth(events, q) = Len(st)
                   /\ m = Meanings(events)
  BY DEF Standing
<1>3. st # <<>> /\ Kind(events, Around(events)[q]) = "startObject" /\ KeyBefore(events, q) = <<>>
  BY <1>2, KeyIsExpected
<1>4. Len(f) = Len(st) /\ f # <<>> /\ f[Len(f)] = FrameAt(events, m, Around(events)[q], q)
  BY <1>2, <1>3, LastIs
<1>5. f[Len(f)].value.type = "map" /\ f[Len(f)].key = <<>>
  <2>1. PICK p, h : p = Around(events)[q] /\ h = f[Len(f)]
    OBVIOUS
  <2>2. h.value.type = (IF Kind(events, p) = "startArray" THEN "array" ELSE "map") /\ h.key = KeyBefore(events, q)
    BY <1>4, <2>1, FrameIs
  <2> QED BY <1>3, <2>1, <2>2
<1>6. Kind(events, q) \notin Starts \cup Ends
  BY DEF Starts, Ends
<1>7. Opened(events, st, q + 1)
  BY <1>2, <1>6, PassesBy
<1>8. Depth(events, q + 1) = Len(st)
  BY <1>2, <1>6, DepthGrows
<1>9. PICK g : g = Put(f, Len(f), [f[Len(f)] EXCEPT !.key = <<events[q].text>>])
  OBVIOUS
<1>10. g = FramesOf(events, m, st, q + 1)
  <2>1. Put(f, Len(st), [f[Len(st)] EXCEPT !.key = <<events[q].text>>]) = FramesOf(events, m, st, q + 1)
    BY <1>2, KeyWaits
  <2> QED BY <1>4, <1>9, <2>1
<1>11. q + 1 \in 2..Len(events)
  BY <1>1, <1>3, <1>7, NothingOpen
<1>12. ~(q + 1 > Len(events)) /\ r = <<>>
  BY <1>1, <1>11 DEF Standing
<1>13. Standing(events, q + 1, g, r, CostBefore(events, q + 1))
  BY <1>1, <1>2, <1>7, <1>8, <1>10, <1>12 DEF Standing
<1> QED BY <1>4, <1>5, <1>9, <1>13

LastOf(f) == f[Len(f)].value
ButLast(f) == SubSeq(f, 1, Len(f) - 1)
EndType(events, q) == IF Kind(events, q) = "endArray" THEN "array" ELSE "map"

LEMMA EndStands ==
    ASSUME NEW events, Proper(events), NEW q \in 1..Len(events), Kind(events, q) \in Ends,
           NEW f, NEW r, NEW b, Standing(events, q, f, r, b),
           NEW below, below = ButLast(f), NEW v, v = LastOf(f)
    PROVE  /\ f # <<>> /\ v.type = EndType(events, q)
           /\ f[Len(f)].key = <<>>
           /\ r = <<>> /\ (below # <<>> => HasRoom(below[Len(below)]))
           /\ below = <<>> => Standing(events, q + 1, <<>>, <<v>>, CostBefore(events, q + 1))
           /\ below # <<>> => Standing(events, q + 1, Put(below, Len(below), Filled(below[Len(below)], v)), r,
                                       CostBefore(events, q + 1))
<1>1. Len(events) \in Nat /\ q + 1 \in 1..(Len(events) + 1) /\ q \in 1..(Len(events) + 1) /\ DOMAIN events = 1..Len(events)
  BY ProperShape
<1>2. PICK st, m : /\ Opened(events, st, q) /\ f = FramesOf(events, m, st, q) /\ Depth(events, q) = Len(st)
                   /\ m = Meanings(events)
  BY DEF Standing
<1>3. PICK n, u, o : n = Len(st) /\ u = SubSeq(st, 1, Len(st) - 1) /\ o = Around(events)[q]
  OBVIOUS
<1>4. st # <<>> /\ Opened(events, u, q + 1)
  BY <1>2, <1>3, EndLeaves
<1>5. Len(f) = n /\ f # <<>> /\ f[n] = FrameAt(events, m, o, q) /\ o # 0 /\ n \in Nat
  BY <1>2, <1>3, <1>4, LastIs
<1>6. o \in 1..Len(events) /\ Kind(events, o) \in Starts /\ o < q
  BY <1>1, <1>3, <1>5, AroundIsStart
<1>7. st \in Seq(Nat)
  BY <1>2 DEF Opened
<1>8. Len(u) = n - 1 /\ u \in Seq(Nat) /\ n # 0 /\ \A i \in 1..(n - 1) : u[i] = st[i]
  BY <1>3, <1>4, <1>7, Outer
<1>9. PICK S : f \in Seq(S)
  BY <1>2, <1>7, FramesAreSeq
<1>10. below \in Seq(S) /\ Len(below) = n - 1 /\ \A i \in 1..(n - 1) : below[i] = f[i]
  BY <1>5, <1>9, Outer DEF ButLast
<1>11. (below = <<>>) <=> n = 1
  BY <1>5, <1>10, EmptySeq
<1>12. v = f[n].value
  BY <1>5 DEF LastOf
<1>13. v = Meanings(events)[o] /\ f[n].key = <<>>
  <2>1. f[n].value = Holding(events, m, o, Heard(events, o, q)) /\ f[n].key = KeyBefore(events, q)
    BY <1>5, FrameIs
  <2>2. Holding(events, m, o, Heard(events, o, q)) = Meanings(events)[o] /\ KeyBefore(events, q) = <<>>
    BY <1>2, <1>3, <1>5, EndedHolds
  <2> QED BY <1>12, <2>1, <2>2
<1>14. f[n].value.type = EndType(events, q)
  <2>1. f[n].value.type = IF Kind(events, o) = "startArray" THEN "array" ELSE "map"
    BY <1>5, FrameIs
  <2>2. Kind(events, q) = "endArray" => Kind(events, o) = "startArray"
    BY <1>3, ProperMeans
  <2>3. Kind(events, q) # "endArray" => Kind(events, q) = "endObject"
    BY DEF Ends
  <2>4. Kind(events, q) = "endObject" => Kind(events, o) = "startObject"
    BY <1>3, ProperMeans
  <2> QED BY <2>1, <2>2, <2>3, <2>4 DEF EndType
<1>15. Depth(events, q + 1) = Len(u)
  BY <1>2, <1>3, <1>5, <1>8, DepthGrows
<1>16. r = <<>>
  BY <1>1 DEF Standing
<1>17. CASE n = 1
  <2>1. u = <<>>
    BY <1>8, <1>17, EmptySeq
  <2>2. q + 1 = Len(events) + 1
    <3>1. q + 1 = 1 \/ q + 1 = Len(events) + 1
      BY <1>1, <1>4, <2>1, NothingOpen
    <3> QED BY <1>1, <3>1
  <2>3. o = 1
    <3>1. 1 \in 1..Len(st)
      BY <1>3, <1>17
    <3>2. Around(events)[st[1]] = 0
      BY <1>2, <3>1 DEF Opened
    <3>3. Around(events)[q] = st[Len(st)]
      BY <1>2, <1>4 DEF Opened
    <3>4. Around(events)[o] = 0
      BY <1>3, <1>17, <3>2, <3>3
    <3>5. o \notin 2..Len(events)
      BY <3>4, ProperMeans
    <3> QED BY <1>1, <1>6, <3>5
  <2>4. q + 1 > Len(events)
    BY <1>1, <2>2
  <2>5. FramesOf(events, m, u, q + 1) = <<>>
    BY <2>1, NoFrames
  <2>6. Standing(events, q + 1, <<>>, <<v>>, CostBefore(events, q + 1))
    BY <1>1, <1>2, <1>4, <1>13, <1>15, <2>3, <2>4, <2>5 DEF Standing
  <2> QED BY <1>5, <1>11, <1>12, <1>13, <1>14, <1>16, <1>17, <2>6
<1>18. CASE n # 1
  <2>1. u # <<>>
    <3>1. Len(u) # 0
      BY <1>5, <1>8, <1>18
    <3> QED BY <1>8, <3>1, EmptySeq
  <2>2. q + 1 \in 2..Len(events)
    BY <1>1, <1>4, <2>1, NothingOpen
  <2>3. ~(q + 1 > Len(events))
    BY <1>1, <2>2
  <2>4. PICK g : g = Put(below, n - 1, Filled(below[n - 1], v))
    OBVIOUS
  <2>5. below = SubSeq(FramesOf(events, Meanings(events), st, q), 1, Len(st) - 1)
    BY <1>2, <1>3, <1>5 DEF ButLast
  <2>6. Put(below, Len(st) - 1, Filled(below[Len(st) - 1], v)) = FramesOf(events, Meanings(events), SubSeq(st, 1, Len(st) - 1), q + 1)
    BY <1>2, <1>3, <1>13, <1>18, <2>5, EndFills
  <2>7. g = FramesOf(events, Meanings(events), u, q + 1)
    BY <1>3, <2>4, <2>6
  <2>8. Standing(events, q + 1, g, r, CostBefore(events, q + 1))
    BY <1>1, <1>4, <1>15, <1>16, <2>3, <2>7 DEF Standing
  <2>9. HasRoom(below[n - 1])
    <3>1. PICK p, k : k = n - 1 /\ p = st[k]
      OBVIOUS
    <3>2. k \in 1..n /\ k \in 1..(n - 1) /\ n \in 1..n /\ k # n /\ k + 1 = n
      BY <1>5, <1>8, <1>18, <3>1
    <3>3. st[n] = o /\ Around(events)[o] = p /\ p # 0
      <4>1. Around(events)[q] = st[Len(st)]
        BY <1>2, <1>4 DEF Opened
      <4>2. Around(events)[st[n]] = st[n - 1] /\ st[k] \in 1..Len(events)
        BY <1>2, <1>3, <1>18, <3>2 DEF Opened
      <4> QED BY <1>1, <1>3, <3>1, <4>1, <4>2
    <3>4. o \in Inside(events, p)
      BY <1>3, <1>5, <3>3, EndIsLast
    <3>5. f[k] = FrameAt(events, m, p, o)
      <4>1. Bound(st, k, q) = o
        BY <1>3, <3>2, <3>3 DEF Bound
      <4>2. f[k] = FrameAt(events, m, st[k], Bound(st, k, q))
        BY <1>2, <1>3, <1>7, <3>2, FramesAreSeq
      <4> QED BY <3>1, <4>1, <4>2
    <3>6. HasRoom(FrameAt(events, m, p, o))
      BY <3>3, <3>4, ValueIsPlaced
    <3> QED BY <1>10, <3>1, <3>2, <3>5, <3>6
  <2> QED BY <1>5, <1>10, <1>11, <1>12, <1>13, <1>14, <1>16, <1>18, <2>4, <2>8, <2>9
<1> QED BY <1>5, <1>17, <1>18

-----------------------------------------------------------------------------
(* JSON: the handlers *)

InRange(events, p) == Kind(events, p) \in Scalars => events[p].inRange
\* The values before an event were neither too many, nor too deep, nor out of range.
Passed(events, b) ==
    /\ WithinLimits(CostBefore(events, b))
    /\ \A p \in Early(ValuesIn(events), b) : ~TooDeep(Depth(events, p)) /\ InRange(events, p)

ParsingInv ==
    Parsing => /\ Readable(document)
               /\ Standing(document.events, position, frames, parsed, budget)
               /\ Passed(document.events, position)
JSONInv ==
    /\ document \in Documents /\ limits \in ParseLimits
    /\ ParsingInv /\ ParsesToMeaning /\ RejectsExactly

LEMMA LimitsAre ==
    ASSUME limits \in ParseLimits
    PROVE  limits.nesting \in Nat /\ limits.nodes \in Nat /\ limits.strings \in Nat /\ limits.entries \in Nat
  BY ParseLimitsAssumption

\* More than the whole may cost is too much for a part.
LEMMA PartFits ==
    ASSUME document \in Documents, limits \in ParseLimits, NEW b \in 1..(Len(document.events) + 1),
           DocumentFits
    PROVE  WithinLimits(CostBefore(document.events, b))
<1>1. PICK events : events = document.events
  OBVIOUS
<1>2. Proper(events)
  BY <1>1, DocumentIsProper
<1>3. PICK c, a : c = CostBefore(events, b) /\ a = CostAll(events)
  OBVIOUS
<1>4. c \in Uses /\ a \in Uses /\ c.nodes <= a.nodes /\ c.strings <= a.strings /\ c.entries <= a.entries
  BY <1>1, <1>2, <1>3, CostIsSome
<1>5. a.nodes <= limits.nodes /\ a.strings <= limits.strings /\ a.entries <= limits.entries
  BY <1>1, <1>3 DEF DocumentFits, CostAll, Cost
<1>6. WithinLimits(c)
  BY <1>4, <1>5, LimitsAre DEF WithinLimits, Uses
<1> QED BY <1>1, <1>3, <1>6

LEMMA AllPassed ==
    ASSUME document \in Documents, limits \in ParseLimits, Passed(document.events, Len(document.events) + 1)
    PROVE  DocumentFits /\ DocumentInRange
<1>1. PICK events : events = document.events
  OBVIOUS
<1>2. Proper(events)
  BY <1>1, DocumentIsProper
<1>3. WithinLimits(CostAll(events))
  <2>1. CostBefore(events, Len(events) + 1) = CostAll(events)
    BY <1>2, CostAtLast
  <2> QED BY <1>1, <2>1 DEF Passed
<1>4. /\ Cardinality(ValuesIn(events)) <= limits.nodes /\ Cardinality(Bytes(events)) <= limits.strings
      /\ Cardinality(Entries(events)) <= limits.entries
  BY <1>3 DEF WithinLimits, CostAll, Cost
<1>5. ASSUME NEW p \in ValuesIn(events)
      PROVE  /\ Depth(events, p) < limits.nesting /\ Depth(events, p) < ParseNestingCeiling /\ InRange(events, p)
  <2>1. p \in 1..Len(events) /\ Len(events) \in Nat
    BY <1>2, PlacesAre, ProperShape
  <2>2. p \in Early(ValuesIn(events), Len(events) + 1)
    BY <2>1 DEF Early
  <2>3. ~TooDeep(Depth(events, p)) /\ InRange(events, p)
    BY <1>1, <2>2 DEF Passed
  <2>4. PICK d : d = Depth(events, p)
    OBVIOUS
  <2>5. d \in Int
    BY <1>2, <2>1, <2>4, DepthGrows
  <2>6. d < limits.nesting /\ d < ParseNestingCeiling
    BY <2>3, <2>4, <2>5, LimitsAre, ParseLimitsAssumption DEF TooDeep
  <2> QED BY <2>3, <2>4, <2>6
<1> QED BY <1>1, <1>4, <1>5 DEF DocumentFits, DocumentInRange, InRange, Kind

LEMMA TooDeepFits ==
    ASSUME document \in Documents, limits \in ParseLimits, NEW p \in ValuesIn(document.events),
           TooDeep(Depth(document.events, p))
    PROVE  ~DocumentFits
<1>1. PICK events : events = document.events
  OBVIOUS
<1>2. Proper(events)
  BY <1>1, DocumentIsProper
<1>3. p \in 1..Len(events)
  BY <1>1, <1>2, PlacesAre
<1>4. PICK d : d = Depth(events, p)
  OBVIOUS
<1>5. d \in Int
  BY <1>2, <1>3, <1>4, DepthGrows
<1>6. ~(d < limits.nesting /\ d < ParseNestingCeiling)
  BY <1>1, <1>4, <1>5, LimitsAre, ParseLimitsAssumption DEF TooDeep
<1> QED BY <1>1, <1>4, <1>6 DEF DocumentFits

LEMMA RejectKeeps ==
    ASSUME JSONInv, Throw("rejected"), ~(DocumentFits /\ DocumentInRange)
    PROVE  JSONInv'
<1>1. outcome' = "rejected" /\ document' = document /\ limits' = limits
  BY DEF Throw
<1>2. DocumentFits' = DocumentFits /\ DocumentInRange' = DocumentInRange
  BY <1>1 DEF DocumentFits, DocumentInRange
<1>3. ParsingInv' /\ ParsesToMeaning' /\ RejectsExactly'
  BY <1>1, <1>2 DEF ParsingInv, Parsing, ParsesToMeaning, RejectsExactly
<1> QED BY <1>1, <1>3 DEF JSONInv

LEMMA AdvanceKeeps ==
    ASSUME JSONInv, Parsing, Advance,
           Standing(document.events, position + 1, frames', parsed', budget'), Passed(document.events, position + 1)
    PROVE  JSONInv'
<1>1. outcome' = "parsing" /\ document' = document /\ limits' = limits /\ position' = position + 1
  BY DEF Advance, Parsing
<1>2. Readable(document)'
  <2>1. Readable(document)
    BY DEF JSONInv, ParsingInv
  <2> QED BY <1>1, <2>1 DEF Readable
<1>3. Standing(document.events, position, frames, parsed, budget)'
  BY <1>1
<1>4. Passed(document.events, position)'
  BY <1>1 DEF Passed, WithinLimits, TooDeep, InRange
<1>5. ParsingInv'
  BY <1>2, <1>3, <1>4 DEF ParsingInv
<1>6. ParsesToMeaning' /\ RejectsExactly'
  BY <1>1 DEF ParsesToMeaning, RejectsExactly
<1> QED BY <1>1, <1>5, <1>6 DEF JSONInv

\* What holds when a handler is called.
LEMMA HandlerFinds ==
    ASSUME JSONInv, NEW kinds, Handles(kinds)
    PROVE  /\ Proper(document.events) /\ position \in 1..Len(document.events) /\ Kind(document.events, position) \in kinds
           /\ Standing(document.events, position, frames, parsed, budget) /\ Passed(document.events, position)
           /\ document \in Documents /\ limits \in ParseLimits /\ Parsing
           /\ budget = CostBefore(document.events, position)
<1>1. document \in Documents /\ limits \in ParseLimits /\ Parsing
  BY DEF JSONInv, Handles
<1>2. Standing(document.events, position, frames, parsed, budget) /\ Passed(document.events, position)
  BY <1>1 DEF JSONInv, ParsingInv
<1>3. Proper(document.events)
  BY <1>1, DocumentIsProper
<1>4. Len(document.events) \in Nat
  BY <1>3, ProperShape
<1>5. position \in 1..Len(document.events) /\ Kind(document.events, position) \in kinds
  BY <1>2, <1>4 DEF Handles, Standing, Kind
<1> QED BY <1>1, <1>2, <1>3, <1>5 DEF Standing

\* Another event passes when it can be afforded and, if it is a value, is neither too deep nor out of range.
LEMMA OneMorePassed ==
    ASSUME document \in Documents, limits \in ParseLimits, NEW q \in 1..Len(document.events), Passed(document.events, q),
           WithinLimits(CostBefore(document.events, q + 1)),
           q \in ValuesIn(document.events) => ~TooDeep(Depth(document.events, q)) /\ InRange(document.events, q)
    PROVE  Passed(document.events, q + 1)
<1>1. PICK events : events = document.events
  OBVIOUS
<1>2. Proper(events)
  BY <1>1, DocumentIsProper
<1>3. ValuesIn(events) \in SUBSET (1..Len(events)) /\ Len(events) \in Nat
  BY <1>2, PlacesAre, ProperShape
<1>4. ASSUME NEW p \in Early(ValuesIn(events), q + 1) PROVE ~TooDeep(Depth(events, p)) /\ InRange(events, p)
  <2>1. p \in ValuesIn(events) /\ p < q + 1 /\ p \in Nat
    BY <1>3 DEF Early
  <2>2. CASE p = q
    BY <1>1, <2>1, <2>2
  <2>3. CASE p # q
    <3>1. p \in Early(ValuesIn(events), q)
      BY <1>1, <1>3, <2>1, <2>3 DEF Early
    <3> QED BY <1>1, <3>1 DEF Passed
  <2> QED BY <2>2, <2>3
<1> QED BY <1>1, <1>4 DEF Passed

\* What a value is charged for its beginning and its text is what it costs.
LEMMA BeginIsCost ==
    ASSUME NEW events, Proper(events), NEW q \in 1..Len(events), Kind(events, q) \in Scalars \cup Starts,
           Standing(events, q, frames, parsed, budget),
           NEW strings, strings = IF Kind(events, q) \in {"string", "float"} THEN events[q].size ELSE 0
    PROVE  /\ BeginCost(strings) = CostOf(events, q)
           /\ q \in ValuesIn(events) /\ Depth(events, q) = Len(frames)
           /\ Consume(CostBefore(events, q), BeginCost(strings)) = CostBefore(events, q + 1)
<1>1. /\ (q \in Entries(events)) <=> (frames # <<>> /\ frames[Len(frames)].value.type = "array")
      /\ q \in ValuesIn(events) /\ Depth(events, q) = Len(frames)
  BY ValueFinds
<1>2. InArray <=> q \in Entries(events)
  BY <1>1 DEF InArray, LastFrame
<1>3. Kind(events, q) \in TextKinds <=> Kind(events, q) \in {"string", "float"}
  BY DEF Scalars, Starts, TextKinds
<1>4. BeginCost(strings) = CostOf(events, q)
  BY <1>1, <1>2, <1>3 DEF BeginCost, CostOf
<1> QED BY <1>1, <1>4, CostGrows

\* A value may begin exactly when nothing is wrong with it.
LEMMA BeginDecides ==
    ASSUME JSONInv, NEW q, q = position, Handles(Scalars \cup Starts),
           NEW strings, strings = IF Kind(document.events, q) \in {"string", "float"} THEN document.events[q].size ELSE 0
    PROVE  /\ ~MayBegin(strings) => ~DocumentFits
           /\ MayBegin(strings) /\ InRange(document.events, q) => Passed(document.events, q + 1)
           /\ Consume(budget, BeginCost(strings)) = CostBefore(document.events, q + 1)
           /\ q \in ValuesIn(document.events)
<1>1. /\ Proper(document.events) /\ q \in 1..Len(document.events) /\ Kind(document.events, q) \in Scalars \cup Starts
      /\ Standing(document.events, q, frames, parsed, budget) /\ Passed(document.events, q)
      /\ document \in Documents /\ limits \in ParseLimits /\ budget = CostBefore(document.events, q)
  BY HandlerFinds
<1>2. PICK events : events = document.events
  OBVIOUS
<1>3. /\ q \in ValuesIn(events) /\ Depth(events, q) = Len(frames)
      /\ Consume(CostBefore(events, q), BeginCost(strings)) = CostBefore(events, q + 1)
  BY <1>1, <1>2, BeginIsCost
<1>4. Len(events) \in Nat
  BY <1>1, <1>2, ProperShape
<1>5. ASSUME ~MayBegin(strings) PROVE ~DocumentFits
  <2>1. TooDeep(Depth(events, q)) \/ ~WithinLimits(CostBefore(events, q + 1))
    BY <1>1, <1>2, <1>3, <1>5 DEF MayBegin, Affordable
  <2>2. q + 1 \in 1..(Len(events) + 1)
    BY <1>1, <1>2, <1>4
  <2> QED BY <1>1, <1>2, <1>3, <2>1, <2>2, TooDeepFits, PartFits
<1>6. ASSUME MayBegin(strings), InRange(events, q) PROVE Passed(events, q + 1)
  <2>1. ~TooDeep(Depth(events, q)) /\ WithinLimits(CostBefore(events, q + 1))
    BY <1>1, <1>2, <1>3, <1>6 DEF MayBegin, Affordable
  <2> QED BY <1>1, <1>2, <1>6, <2>1, OneMorePassed
<1> QED BY <1>1, <1>2, <1>3, <1>5, <1>6

LEMMA ScalarKeeps == ASSUME JSONInv, ScalarHandler PROVE JSONInv'
<1>1. Handles(Scalars)
  BY DEF ScalarHandler
<1>2. PICK events, q : events = document.events /\ q = position
  OBVIOUS
<1>3. /\ Proper(events) /\ q \in 1..Len(events) /\ Kind(events, q) \in Scalars
      /\ Standing(events, q, frames, parsed, budget) /\ Parsing /\ document \in Documents
  BY <1>1, <1>2, HandlerFinds
<1>4. Kind(events, q) \in Scalars \cup Starts
  BY <1>3
<1>5. Handles(Scalars \cup Starts)
  BY <1>1 DEF Handles
<1>6. PICK strings : strings = IF Kind(events, q) \in {"string", "float"} THEN events[q].size ELSE 0
  OBVIOUS
<1>7. /\ ~MayBegin(strings) => ~DocumentFits
      /\ MayBegin(strings) /\ InRange(events, q) => Passed(events, q + 1)
      /\ Consume(budget, BeginCost(strings)) = CostBefore(events, q + 1)
      /\ q \in ValuesIn(events)
  BY <1>2, <1>5, <1>6, BeginDecides
<1>8. (frames = <<>> => parsed = <<>>) /\ (frames # <<>> => HasRoom(frames[Len(frames)]))
  BY <1>3, <1>4, ValueFinds
<1>9. HasPlace(frames)
  BY <1>8 DEF HasPlace, HasRoom
<1>10. PICK v : v = ScalarValue(events[q])
  OBVIOUS
<1>11. Handled = events[q] /\ events[q].kind = Kind(events, q)
  BY <1>2 DEF Handled, Kind
<1>12. \/ ~MayBegin(strings) /\ Throw("rejected")
       \/ MayBegin(strings) /\ ~events[q].inRange /\ Throw("rejected")
       \/ MayBegin(strings) /\ events[q].inRange /\ ~HasPlace(frames) /\ Throw("protocol")
       \/ /\ MayBegin(strings) /\ events[q].inRange
          /\ AddValue(frames, v)
          /\ budget' = Consume(budget, BeginCost(strings))
          /\ Advance
  BY <1>6, <1>10, <1>11 DEF ScalarHandler
<1>13. CASE ~MayBegin(strings) /\ Throw("rejected")
  BY <1>7, <1>13, RejectKeeps
<1>14. CASE ~events[q].inRange /\ Throw("rejected")
  <2>1. ~DocumentInRange
    BY <1>2, <1>3, <1>7, <1>14 DEF DocumentInRange, Kind
  <2> QED BY <1>14, <2>1, RejectKeeps
<1>15. CASE /\ MayBegin(strings) /\ events[q].inRange /\ AddValue(frames, v)
            /\ budget' = Consume(budget, BeginCost(strings)) /\ Advance
  <2>1. budget' = CostBefore(events, q + 1) /\ Passed(events, q + 1)
    BY <1>7, <1>15 DEF InRange
  <2>2. Standing(events, q + 1, frames', parsed', budget')
    <3>1. /\ frames = <<>> => Standing(events, q + 1, <<>>, <<v>>, CostBefore(events, q + 1))
          /\ frames # <<>> =>
                 Standing(events, q + 1, Put(frames, Len(frames), Filled(frames[Len(frames)], v)), parsed, CostBefore(events, q + 1))
      BY <1>3, <1>10, ScalarStands
    <3>2. CASE frames = <<>>
      <4>1. frames' = <<>> /\ parsed' = <<v>>
        BY <1>15, <3>2 DEF AddValue
      <4> QED BY <2>1, <3>1, <3>2, <4>1
    <3>3. CASE frames # <<>>
      <4>1. frames' = Put(frames, Len(frames), Filled(frames[Len(frames)], v)) /\ parsed' = parsed
        BY <1>15, <3>3 DEF AddValue, Put
      <4> QED BY <2>1, <3>1, <3>3, <4>1
    <3> QED BY <3>2, <3>3
  <2> QED BY <1>2, <1>3, <1>15, <2>1, <2>2, AdvanceKeeps
<1> QED BY <1>9, <1>12, <1>13, <1>14, <1>15

LEMMA StartKeeps == ASSUME JSONInv, StartFrame PROVE JSONInv'
<1>1. Handles(Starts)
  BY DEF StartFrame
<1>2. PICK events, q : events = document.events /\ q = position
  OBVIOUS
<1>3. /\ Proper(events) /\ q \in 1..Len(events) /\ Kind(events, q) \in Starts
      /\ Standing(events, q, frames, parsed, budget) /\ Parsing /\ document \in Documents
  BY <1>1, <1>2, HandlerFinds
<1>4. Handles(Scalars \cup Starts)
  BY <1>1 DEF Handles
<1>5. PICK strings : strings = 0
  OBVIOUS
<1>6. strings = IF Kind(events, q) \in {"string", "float"} THEN events[q].size ELSE 0
  BY <1>3, <1>5 DEF Starts
<1>7. /\ ~MayBegin(strings) => ~DocumentFits
      /\ MayBegin(strings) /\ InRange(events, q) => Passed(events, q + 1)
      /\ Consume(budget, BeginCost(strings)) = CostBefore(events, q + 1)
  BY <1>2, <1>4, <1>6, BeginDecides
<1>8. PICK v : v = Frame(IF Kind(events, q) = "startArray" THEN "array" ELSE "map")
  OBVIOUS
<1>9. \/ ~MayBegin(strings) /\ Throw("rejected")
      \/ /\ MayBegin(strings)
         /\ frames' = Append(frames, v) /\ budget' = Consume(budget, BeginCost(strings))
         /\ Advance /\ UNCHANGED parsed
  <2>1. Handled.kind = Kind(events, q)
    BY <1>2 DEF Handled, Kind
  <2> QED BY <1>5, <1>8, <2>1 DEF StartFrame
<1>10. CASE ~MayBegin(strings) /\ Throw("rejected")
  BY <1>7, <1>10, RejectKeeps
<1>11. CASE /\ MayBegin(strings)
            /\ frames' = Append(frames, v) /\ budget' = Consume(budget, BeginCost(strings))
            /\ Advance /\ UNCHANGED parsed
  <2>1. budget' = CostBefore(events, q + 1) /\ Passed(events, q + 1)
    <3>1. InRange(events, q)
      BY <1>3 DEF InRange, Scalars, Starts
    <3> QED BY <1>7, <1>11, <3>1
  <2>2. Standing(events, q + 1, Append(frames, v), parsed, CostBefore(events, q + 1))
    BY <1>3, <1>8, StartStands
  <2>3. Standing(events, q + 1, frames', parsed', budget')
    BY <1>11, <2>1, <2>2
  <2> QED BY <1>2, <1>3, <1>11, <2>1, <2>3, AdvanceKeeps
<1> QED BY <1>9, <1>10, <1>11

LEMMA KeyKeeps == ASSUME JSONInv, Key PROVE JSONInv'
<1>1. Handles({"key"})
  BY DEF Key
<1>2. PICK events, q : events = document.events /\ q = position
  OBVIOUS
<1>3. /\ Proper(events) /\ q \in 1..Len(events) /\ Kind(events, q) = "key"
      /\ Standing(events, q, frames, parsed, budget) /\ Passed(events, q) /\ Parsing
      /\ document \in Documents /\ limits \in ParseLimits /\ budget = CostBefore(events, q)
  BY <1>1, <1>2, HandlerFinds
<1>4. PICK cost : cost = Cost(0, events[q].size, 1)
  OBVIOUS
<1>5. Len(events) \in Nat /\ DOMAIN events = 1..Len(events)
  BY <1>3, ProperShape
<1>6. Consume(budget, cost) = CostBefore(events, q + 1) /\ q \notin ValuesIn(events)
  <2>1. q \notin ValuesIn(events)
    BY <1>3 DEF ValuesIn, Kind, Scalars, Starts
  <2>2. q \in Entries(events)
    BY <1>3, <1>5 DEF Entries, Kind
  <2>3. Kind(events, q) \in TextKinds
    BY <1>3 DEF TextKinds
  <2>4. CostOf(events, q) = cost
    BY <1>4, <2>1, <2>2, <2>3 DEF CostOf
  <2> QED BY <1>3, <2>1, <2>4, CostGrows
<1>7. PICK f : f = Put(frames, Len(frames), [frames[Len(frames)] EXCEPT !.key = <<events[q].text>>])
  OBVIOUS
<1>8. /\ frames # <<>> /\ frames[Len(frames)].value.type = "map" /\ frames[Len(frames)].key = <<>>
      /\ Standing(events, q + 1, f, parsed, CostBefore(events, q + 1))
  BY <1>3, <1>7, KeyStands
<1>9. frames # <<>> /\ LastFrame.value.type = "map" /\ LastFrame.key = <<>>
  BY <1>8 DEF LastFrame
<1>10. Handled = events[q]
  BY <1>2 DEF Handled
<1>11. \/ ~Affordable(budget, cost) /\ Throw("rejected")
       \/ /\ Affordable(budget, cost)
          /\ frames' = f /\ budget' = Consume(budget, cost)
          /\ Advance /\ UNCHANGED parsed
  <2>1. f = [frames EXCEPT ![Len(frames)].key = <<events[q].text>>]
    BY <1>7 DEF Put
  <2> QED BY <1>4, <1>9, <1>10, <2>1 DEF Key
<1>12. CASE ~Affordable(budget, cost) /\ Throw("rejected")
  <2>1. ~WithinLimits(CostBefore(events, q + 1))
    BY <1>6, <1>12 DEF Affordable
  <2>2. q + 1 \in 1..(Len(events) + 1)
    BY <1>3, <1>5
  <2>3. ~DocumentFits
    BY <1>2, <1>3, <2>1, <2>2, PartFits
  <2> QED BY <1>12, <2>3, RejectKeeps
<1>13. CASE /\ Affordable(budget, cost) /\ frames' = f /\ budget' = Consume(budget, cost)
            /\ Advance /\ UNCHANGED parsed
  <2>1. budget' = CostBefore(events, q + 1) /\ WithinLimits(CostBefore(events, q + 1))
    BY <1>6, <1>13 DEF Affordable
  <2>2. Passed(events, q + 1)
    BY <1>2, <1>3, <1>6, <2>1, OneMorePassed
  <2>3. Standing(events, q + 1, frames', parsed', budget')
    BY <1>8, <1>13, <2>1
  <2> QED BY <1>2, <1>3, <1>13, <2>2, <2>3, AdvanceKeeps
<1> QED BY <1>11, <1>12, <1>13

LEMMA EndKeeps == ASSUME JSONInv, EndFrame PROVE JSONInv'
<1>1. Handles(Ends)
  BY DEF EndFrame
<1>2. PICK events, q, below : events = document.events /\ q = position /\ below = SubSeq(frames, 1, Len(frames) - 1)
  OBVIOUS
<1>3. /\ Proper(events) /\ q \in 1..Len(events) /\ Kind(events, q) \in Ends
      /\ Standing(events, q, frames, parsed, budget) /\ Passed(events, q) /\ Parsing
      /\ document \in Documents /\ limits \in ParseLimits /\ budget = CostBefore(events, q)
  BY <1>1, <1>2, HandlerFinds
<1>4. Len(events) \in Nat /\ DOMAIN events = 1..Len(events)
  BY <1>3, ProperShape
<1>5. CostBefore(events, q + 1) = budget /\ q \notin ValuesIn(events)
  <2>1. q \notin ValuesIn(events)
    BY <1>3 DEF ValuesIn, Kind, Scalars, Starts, Ends
  <2>2. q \notin Entries(events)
    BY <1>3, <2>1 DEF Entries, Kind, Ends
  <2>3. Kind(events, q) \notin TextKinds
    BY <1>3 DEF TextKinds, Ends
  <2>4. CostOf(events, q) = Cost(0, 0, 0)
    BY <2>1, <2>2, <2>3 DEF CostOf
  <2>5. q \in 1..(Len(events) + 1)
    BY <1>3, <1>4
  <2>6. PICK c : c = CostBefore(events, q)
    OBVIOUS
  <2>7. c \in Uses
    BY <1>3, <2>5, <2>6, CostIsSome
  <2>8. Consume(c, Cost(0, 0, 0)) = c
    BY <2>7 DEF Consume, Cost, Uses
  <2> QED BY <1>3, <2>1, <2>4, <2>6, <2>8, CostGrows
<1>6. PICK f, r, b, v : f = frames /\ r = parsed /\ b = budget /\ v = LastOf(f)
  OBVIOUS
<1>7. /\ f # <<>> /\ v.type = EndType(events, q)
      /\ f[Len(f)].key = <<>>
      /\ r = <<>> /\ (below # <<>> => HasRoom(below[Len(below)]))
      /\ below = <<>> => Standing(events, q + 1, <<>>, <<v>>, CostBefore(events, q + 1))
      /\ below # <<>> => Standing(events, q + 1, Put(below, Len(below), Filled(below[Len(below)], v)), r,
                                  CostBefore(events, q + 1))
  <2>1. Standing(events, q, f, r, b) /\ below = ButLast(f)
    BY <1>2, <1>3, <1>6 DEF ButLast
  <2> QED BY <1>3, <1>6, <2>1, EndStands
<1>8. HasPlace(below)
  BY <1>6, <1>7 DEF HasPlace, HasRoom
<1>9. Below = below /\ LastFrame = frames[Len(frames)] /\ Handled.kind = Kind(events, q)
  BY <1>2 DEF Below, LastFrame, Handled, Kind
<1>10. AddValue(below, v) /\ Advance /\ budget' = budget
  BY <1>6, <1>7, <1>8, <1>9 DEF EndFrame, EndType, LastOf
<1>11. Standing(events, q + 1, frames', parsed', budget')
  <2>1. CASE below = <<>>
    <3>1. frames' = <<>> /\ parsed' = <<v>>
      BY <1>10, <2>1 DEF AddValue
    <3> QED BY <1>5, <1>6, <1>7, <1>10, <2>1, <3>1
  <2>2. CASE below # <<>>
    <3>1. frames' = Put(below, Len(below), Filled(below[Len(below)], v)) /\ parsed' = parsed
      BY <1>10, <2>2 DEF AddValue, Put
    <3> QED BY <1>5, <1>6, <1>7, <1>10, <2>2, <3>1
  <2> QED BY <2>1, <2>2
<1>12. Passed(events, q + 1)
  <2>1. WithinLimits(CostBefore(events, q + 1))
    BY <1>3, <1>5 DEF Passed
  <2> QED BY <1>2, <1>3, <1>5, <2>1, OneMorePassed
<1> QED BY <1>2, <1>3, <1>10, <1>11, <1>12, AdvanceKeeps

LEMMA TakeKeeps == ASSUME JSONInv, TakeResult PROVE JSONInv'
<1>1. PICK events, n : events = document.events /\ n = Len(events)
  OBVIOUS
<1>2. Parsing /\ position > n /\ document \in Documents /\ limits \in ParseLimits
  BY <1>1 DEF TakeResult, JSONInv
<1>3. Readable(document) /\ Standing(events, position, frames, parsed, budget) /\ Passed(events, position)
  BY <1>1, <1>2 DEF JSONInv, ParsingInv
<1>4. Proper(events) /\ n \in Nat
  BY <1>1, <1>2, DocumentIsProper, ProperShape
<1>5. position = n + 1
  BY <1>1, <1>2, <1>3, <1>4 DEF Standing
<1>6. parsed = <<Meanings(events)[1]>>
  BY <1>1, <1>2, <1>3 DEF Standing
<1>7. frames = <<>>
  <2>1. PICK st, m : Opened(events, st, n + 1) /\ m = Meanings(events) /\ frames = FramesOf(events, m, st, n + 1)
    BY <1>3, <1>5 DEF Standing
  <2>2. st = <<>>
    <3>1. n + 1 \in 1..(Len(events) + 1) /\ n + 1 \notin 2..Len(events)
      BY <1>1, <1>4
    <3> QED BY <1>4, <2>1, <3>1, NothingOpen
  <2> QED BY <2>1, <2>2, NoFrames
<1>8. parsed # <<>>
  BY <1>6
<1>9. outcome' = "done" /\ UNCHANGED <<document, limits, position, frames, parsed, budget>>
  BY <1>7, <1>8 DEF TakeResult
<1>10. DocumentFits /\ DocumentInRange
  BY <1>1, <1>2, <1>3, <1>5, AllPassed
<1>11. DocumentFits' = DocumentFits /\ DocumentInRange' = DocumentInRange /\ Readable(document)' = Readable(document)
  BY <1>9 DEF DocumentFits, DocumentInRange, Readable
<1>12. ParsingInv'
  BY <1>9 DEF ParsingInv, Parsing
<1>13. ParsesToMeaning'
  BY <1>1, <1>6, <1>9 DEF ParsesToMeaning
<1>14. RejectsExactly'
  BY <1>3, <1>9, <1>10, <1>11 DEF RejectsExactly
<1> QED BY <1>2, <1>9, <1>12, <1>13, <1>14 DEF JSONInv

LEMMA ErrorKeeps == ASSUME JSONInv, ParseError PROVE JSONInv'
<1>1. outcome' = "syntax" /\ document' = document /\ limits' = limits
  BY DEF ParseError, Throw
<1>2. ParsingInv' /\ ParsesToMeaning' /\ RejectsExactly'
  BY <1>1 DEF ParsingInv, Parsing, ParsesToMeaning, RejectsExactly
<1> QED BY <1>1, <1>2 DEF JSONInv

LEMMA StutterKeeps == ASSUME JSONInv, UNCHANGED jsonVars PROVE JSONInv'
<1>1. /\ document' = document /\ limits' = limits /\ position' = position /\ frames' = frames
      /\ parsed' = parsed /\ budget' = budget /\ outcome' = outcome
  BY DEF jsonVars
<1>2. Passed(document.events, position)' = Passed(document.events, position)
  BY <1>1 DEF Passed, WithinLimits, TooDeep, InRange
<1>3. Readable(document)' = Readable(document) /\ DocumentFits' = DocumentFits /\ DocumentInRange' = DocumentInRange
  BY <1>1 DEF Readable, DocumentFits, DocumentInRange
<1>4. ParsingInv' = ParsingInv
  BY <1>1, <1>2, <1>3 DEF ParsingInv, Parsing
<1>5. ParsesToMeaning' = ParsesToMeaning /\ RejectsExactly' = RejectsExactly
  BY <1>1, <1>3 DEF ParsesToMeaning, RejectsExactly
<1> QED BY <1>1, <1>4, <1>5 DEF JSONInv

LEMMA JSONStarts == ASSUME JSONInit PROVE JSONInv
<1>1. PICK events : events = document.events
  OBVIOUS
<1>2. document \in Documents /\ limits \in ParseLimits /\ Proper(events)
  BY <1>1, DocumentIsProper DEF JSONInit
<1>3. ParsingInv
  <2> SUFFICES ASSUME Parsing PROVE ParsingInv
    BY DEF ParsingInv
  <2>1. Readable(document)
    BY DEF JSONInit, Parsing
  <2>2. Standing(events, position, frames, parsed, budget)
    <3>1. Standing(events, 1, <<>>, <<>>, Unused)
      BY <1>2, FirstStands
    <3> QED BY <3>1 DEF JSONInit
  <2>3. Passed(events, position)
    <3>1. position = 1
      BY DEF JSONInit
    <3>2. WithinLimits(CostBefore(events, 1))
      <4>1. CostBefore(events, 1) = Unused
        BY <1>2, CostAtFirst
      <4>2. WithinLimits(Unused)
        BY <1>2, LimitsAre DEF WithinLimits, Unused
      <4> QED BY <4>1, <4>2
    <3>3. Early(ValuesIn(events), 1) = {}
      <4>1. ValuesIn(events) \in SUBSET (1..Len(events)) /\ Len(events) \in Nat
        BY <1>2, PlacesAre, ProperShape
      <4> QED BY <4>1 DEF Early
    <3> QED BY <3>1, <3>2, <3>3 DEF Passed
  <2> QED BY <1>1, <2>1, <2>2, <2>3 DEF ParsingInv
<1>4. ParsesToMeaning /\ RejectsExactly
  BY DEF JSONInit, ParsesToMeaning, RejectsExactly
<1> QED BY <1>2, <1>3, <1>4 DEF JSONInv

LEMMA JSONSteps == ASSUME JSONInv, [JSONNext]_jsonVars PROVE JSONInv'
<1>1. CASE ScalarHandler
  BY <1>1, ScalarKeeps
<1>2. CASE StartFrame
  BY <1>2, StartKeeps
<1>3. CASE Key
  BY <1>3, KeyKeeps
<1>4. CASE EndFrame
  BY <1>4, EndKeeps
<1>5. CASE ParseError
  BY <1>5, ErrorKeeps
<1>6. CASE TakeResult
  BY <1>6, TakeKeeps
<1>7. CASE UNCHANGED jsonVars
  BY <1>7, StutterKeeps
<1> QED BY <1>1, <1>2, <1>3, <1>4, <1>5, <1>6, <1>7 DEF JSONNext, Returned

LEMMA JSONAlways == JSONSpec => []JSONInv
<1>1. JSONInit => JSONInv
  BY JSONStarts
<1>2. JSONInv /\ [JSONNext]_jsonVars => JSONInv'
  BY JSONSteps
<1> QED BY <1>1, <1>2, PTL DEF JSONSpec

\* Data::fromJSON returns the value the text means: JSONDataBuilder's handlers keep, for every
\* container that is open, the values it has been given in their order or under their names, the
\* last of those with the same name, and put what ends into what is around it.
THEOREM ValuesAreTheTexts == JSONSpec => []ParsesToMeaning
<1>1. JSONInv => ParsesToMeaning
  BY DEF JSONInv
<1> QED BY <1>1, JSONAlways, PTL

\* It rejects a text only if that is too long, out of range or over a limit, returns a value only if
\* it is none of these, and its handlers never find the events of a value out of their order: what
\* beginValue, string, key and number_float have charged before an event is what the events before
\* it cost.
THEOREM LimitsDecide == JSONSpec => []RejectsExactly
<1>1. JSONInv => RejectsExactly
  BY DEF JSONInv
<1> QED BY <1>1, JSONAlways, PTL

-----------------------------------------------------------------------------
(* YAML: what a graph expands to *)

\* The equation that Expanding solves.
LevelAt(nodes, f, n) ==
    IF n = 0 THEN {}
    ELSE {id \in DOMAIN nodes : \A i \in DOMAIN nodes[id].items :
             /\ nodes[id].items[i].node \in f[n - 1]
             /\ nodes[id].kind = "mapping" => KeyNode(nodes, id, i).kind = "scalar"}

LEMMA LevelsExist ==
    ASSUME NEW nodes
    PROVE  \E f : f = [n \in Nat |-> LevelAt(nodes, f, n)]
<1> DEFINE Solves(f, m) == \A k \in 0..m : f[k] = LevelAt(nodes, f, k)
<1>1. ASSUME NEW f, NEW g, NEW m \in Nat, NEW l \in Nat, Solves(f, m), Solves(g, l), NEW k \in Nat, k <= m, k <= l
      PROVE  f[k] = g[k]
  <2> DEFINE Bad == {j \in Nat : j <= m /\ j <= l /\ f[j] # g[j]}
  <2>1. SUFFICES ASSUME Bad # {} PROVE FALSE
    BY <1>1
  <2>2. PICK j \in Bad : \A b \in Bad : j <= b
    <3>1. Bad \in SUBSET Nat
      OBVIOUS
    <3> HIDE DEF Bad
    <3> QED BY <2>1, <3>1, Least
  <2>3. j \in Nat /\ j <= m /\ j <= l /\ f[j] # g[j]
    OBVIOUS
  <2>4. j = 0 \/ f[j - 1] = g[j - 1]
    <3>1. ASSUME j # 0 PROVE j - 1 \in Nat /\ j - 1 <= m /\ j - 1 <= l /\ ~(j <= j - 1)
      BY <2>3, <3>1
    <3> QED BY <2>2, <3>1
  <2>5. LevelAt(nodes, f, j) = LevelAt(nodes, g, j)
    BY <2>4 DEF LevelAt
  <2>6. j \in 0..m /\ j \in 0..l
    BY <2>3
  <2> QED BY <1>1, <2>3, <2>5, <2>6
<1>2. ASSUME NEW n \in Nat PROVE \E f : Solves(f, n)
  <2> DEFINE Bad == {m \in Nat : ~ \E f : Solves(f, m)}
  <2>1. SUFFICES ASSUME Bad # {} PROVE FALSE
    OBVIOUS
  <2>2. PICK m \in Bad : \A b \in Bad : m <= b
    <3>1. Bad \in SUBSET Nat
      OBVIOUS
    <3> HIDE DEF Bad
    <3> QED BY <2>1, <3>1, Least
  <2>3. m \in Nat /\ ~ \E f : Solves(f, m)
    OBVIOUS
  <2>4. PICK f : m # 0 => Solves(f, m - 1)
    <3>1. ASSUME m # 0 PROVE m - 1 \in Nat /\ ~(m <= m - 1)
      BY <2>3, <3>1
    <3> QED BY <2>2, <3>1
  <2>5. PICK v : v = LevelAt(nodes, f, m)
    OBVIOUS
  <2>6. PICK g : g = [k \in 0..m |-> IF k = m THEN v ELSE f[k]]
    OBVIOUS
  <2>7. g[m] = v /\ \A k \in 0..m : k # m => g[k] = f[k]
    BY <2>3, <2>6
  <2>8. ASSUME NEW k \in 0..m PROVE LevelAt(nodes, g, k) = LevelAt(nodes, f, k)
    <3>1. k # 0 => k - 1 \in 0..m /\ k - 1 # m
      BY <2>3
    <3> QED BY <2>7, <3>1 DEF LevelAt
  <2>9. Solves(g, m)
    <3>1. ASSUME NEW k \in 0..m PROVE k = m \/ (m # 0 /\ k # m /\ k \in 0..(m - 1))
      BY <2>3
    <3> QED BY <2>4, <2>5, <2>7, <2>8, <3>1
  <2> QED BY <2>3, <2>9
<1> DEFINE F(n) == CHOOSE f : Solves(f, n)
<1>3. ASSUME NEW n \in Nat PROVE Solves(F(n), n)
  <2>1. \E f : Solves(f, n)
    BY <1>2
  <2> HIDE DEF Solves
  <2> QED BY <2>1
<1> HIDE DEF F
<1>4. PICK g : g = [n \in Nat |-> F(n)[n]]
  OBVIOUS
<1>5. ASSUME NEW n \in Nat PROVE g[n] = LevelAt(nodes, g, n)
  <2>1. F(n)[n] = LevelAt(nodes, F(n), n)
    <3>1. n \in 0..n
      OBVIOUS
    <3> QED BY <1>3, <3>1
  <2>2. n = 0 \/ g[n - 1] = F(n)[n - 1]
    <3>1. ASSUME n # 0 PROVE g[n - 1] = F(n)[n - 1]
      <4>1. n - 1 \in Nat /\ n - 1 <= n
        BY <3>1
      <4>2. Solves(F(n), n) /\ Solves(F(n - 1), n - 1)
        BY <1>3, <4>1
      <4> HIDE DEF Solves
      <4>3. F(n - 1)[n - 1] = F(n)[n - 1]
        BY <1>1, <4>1, <4>2
      <4> QED BY <1>4, <4>1, <4>3
    <3> QED BY <3>1
  <2> QED BY <1>4, <2>1, <2>2 DEF LevelAt
<1>6. g = [n \in Nat |-> LevelAt(nodes, g, n)]
  <2>1. g = [n \in Nat |-> g[n]]
    BY <1>4
  <2> QED BY <1>5, <2>1
<1> QED BY <1>6

\* The nodes of at most so many levels.
Level(nodes, n) == Expanding(nodes)[n]

LEMMA LevelsAre ==
    ASSUME NEW nodes
    PROVE  /\ Level(nodes, 0) = {}
           /\ \A n \in Nat \ {0} : Level(nodes, n) =
                 {id \in DOMAIN nodes : \A i \in DOMAIN nodes[id].items :
                     /\ nodes[id].items[i].node \in Level(nodes, n - 1)
                     /\ nodes[id].kind = "mapping" => KeyNode(nodes, id, i).kind = "scalar"}
<1> DEFINE Solves(f) == f = [n \in Nat |-> LevelAt(nodes, f, n)]
<1>1. \E f : Solves(f)
  BY LevelsExist
<1>2. Expanding(nodes) = CHOOSE f : Solves(f)
  BY DEF Expanding, LevelAt
<1>3. Solves(Expanding(nodes))
  <2> HIDE DEF Solves
  <2> QED BY <1>1, <1>2
<1>4. PICK f : f = Expanding(nodes)
  OBVIOUS
<1>5. f = [n \in Nat |-> LevelAt(nodes, f, n)]
  BY <1>3, <1>4
<1>6. \A n \in Nat : f[n] = LevelAt(nodes, f, n)
  BY <1>5
<1>7. f[0] = {}
  BY <1>6 DEF LevelAt
<1>8. ASSUME NEW n \in Nat \ {0}
      PROVE  f[n] = {id \in DOMAIN nodes : \A i \in DOMAIN nodes[id].items :
                        /\ nodes[id].items[i].node \in f[n - 1]
                        /\ nodes[id].kind = "mapping" => KeyNode(nodes, id, i).kind = "scalar"}
  <2>1. f[n] = LevelAt(nodes, f, n) /\ n # 0
    BY <1>6
  <2> QED BY <2>1 DEF LevelAt
<1> QED BY <1>4, <1>7, <1>8 DEF Level

LEMMA LevelsGrow ==
    ASSUME NEW nodes, NEW n \in Nat, NEW m \in Nat, n <= m
    PROVE  Level(nodes, n) \subseteq Level(nodes, m)
<1>1. ASSUME NEW k \in Nat PROVE Level(nodes, k) \subseteq Level(nodes, k + 1)
  <2> DEFINE Bad == {j \in Nat : ~(Level(nodes, j) \subseteq Level(nodes, j + 1))}
  <2>1. SUFFICES ASSUME Bad # {} PROVE FALSE
    OBVIOUS
  <2>2. PICK j \in Bad : \A b \in Bad : j <= b
    <3>1. Bad \in SUBSET Nat
      OBVIOUS
    <3> HIDE DEF Bad
    <3> QED BY <2>1, <3>1, Least
  <2>3. j \in Nat /\ ~(Level(nodes, j) \subseteq Level(nodes, j + 1))
    OBVIOUS
  <2>4. j # 0
    BY <2>3, LevelsAre
  <2>5. Level(nodes, j - 1) \subseteq Level(nodes, j)
    <3>1. j - 1 \in Nat /\ ~(j <= j - 1) /\ (j - 1) + 1 = j
      BY <2>3, <2>4
    <3> QED BY <2>2, <3>1
  <2>6. j \in Nat \ {0} /\ j + 1 \in Nat \ {0} /\ (j + 1) - 1 = j
    BY <2>3, <2>4
  <2>7. PICK x \in Nat \ {0} : x = j + 1 /\ x - 1 = j
    BY <2>6
  <2>8. ASSUME NEW id \in Level(nodes, j) PROVE id \in Level(nodes, x)
    <3>1. /\ id \in DOMAIN nodes
          /\ \A i \in DOMAIN nodes[id].items :
                /\ nodes[id].items[i].node \in Level(nodes, j - 1)
                /\ nodes[id].kind = "mapping" => KeyNode(nodes, id, i).kind = "scalar"
      BY <2>6, LevelsAre
    <3>2. \A i \in DOMAIN nodes[id].items : nodes[id].items[i].node \in Level(nodes, x - 1)
      BY <2>5, <2>7, <3>1
    <3> QED BY <3>1, <3>2, LevelsAre
  <2> QED BY <2>3, <2>7, <2>8
<1> DEFINE Bad == {j \in Nat : n <= j /\ ~(Level(nodes, n) \subseteq Level(nodes, j))}
<1>2. SUFFICES ASSUME Bad # {} PROVE FALSE
  OBVIOUS
<1>3. PICK j \in Bad : \A b \in Bad : j <= b
  <2>1. Bad \in SUBSET Nat
    OBVIOUS
  <2> HIDE DEF Bad
  <2> QED BY <1>2, <2>1, Least
<1>4. j \in Nat /\ n <= j /\ ~(Level(nodes, n) \subseteq Level(nodes, j))
  OBVIOUS
<1>5. j # n
  BY <1>4
<1>6. j - 1 \in Nat /\ n <= j - 1 /\ ~(j <= j - 1) /\ (j - 1) + 1 = j
  BY <1>4, <1>5
<1>7. Level(nodes, n) \subseteq Level(nodes, j - 1)
  BY <1>3, <1>6
<1>8. Level(nodes, j - 1) \subseteq Level(nodes, j)
  BY <1>1, <1>6
<1> QED BY <1>4, <1>7, <1>8

\* What is below a node of some level, and in its names.
LEMMA BelowLevel ==
    ASSUME NEW nodes, NEW n \in Nat, NEW id \in Level(nodes, n)
    PROVE  /\ n # 0 /\ n - 1 \in Nat /\ id \in DOMAIN nodes
           /\ \A i \in DOMAIN nodes[id].items :
                 /\ nodes[id].items[i].node \in Level(nodes, n - 1)
                 /\ nodes[id].items[i].node \in Level(nodes, n)
                 /\ nodes[id].kind = "mapping" => KeyNode(nodes, id, i).kind = "scalar"
<1>1. n # 0
  BY LevelsAre
<1>2. n - 1 \in Nat /\ n - 1 <= n /\ n \in Nat \ {0}
  BY <1>1
<1>3. Level(nodes, n - 1) \subseteq Level(nodes, n)
  BY <1>2, LevelsGrow
<1> QED BY <1>1, <1>2, <1>3, LevelsAre

\* The items of a node are a sequence.
LEMMA ItemsAre ==
    ASSUME NEW nodes, IsGraph(nodes), NEW id \in DOMAIN nodes
    PROVE  /\ Len(nodes[id].items) \in Nat /\ DOMAIN nodes[id].items = 1..Len(nodes[id].items)
           /\ nodes[id].kind \in {"scalar", "sequence", "mapping"} /\ nodes[id].size \in Nat
           /\ nodes[id].kind = "scalar" => nodes[id].items = <<>> /\ Len(nodes[id].items) = 0
           /\ \A i \in 1..Len(nodes[id].items) :
                 /\ nodes[id].items[i].node \in DOMAIN nodes
                 /\ nodes[id].kind = "mapping" => nodes[id].items[i].key \in DOMAIN nodes
<1>1. PICK items : items = nodes[id].items
  OBVIOUS
<1>2. items \in Seq({items[i] : i \in DOMAIN items})
  <2>1. nodes[id].items \in Seq({nodes[id].items[i] : i \in DOMAIN nodes[id].items})
    BY DEF IsGraph
  <2> QED BY <1>1, <2>1
<1>3. Len(items) \in Nat /\ DOMAIN items = 1..Len(items)
  BY <1>2, LenProperties
<1>4. Len(<<>>) = 0
  BY EmptySeq
<1>5. /\ nodes[id].kind \in {"scalar", "sequence", "mapping"} /\ nodes[id].size \in Nat
      /\ nodes[id].kind = "scalar" => items = <<>>
      /\ \A i \in DOMAIN items : /\ nodes[id].items[i].node \in DOMAIN nodes
                                 /\ nodes[id].kind = "mapping" => nodes[id].items[i].key \in DOMAIN nodes
  BY <1>1 DEF IsGraph
<1> QED BY <1>1, <1>3, <1>4, <1>5

-----------------------------------------------------------------------------
(* YAML: what nodes mean *)

NameOf(nodes, id, i) == KeyNode(nodes, id, i).text
MeaningOf(nodes, f, id, i) == f[nodes[id].items[i].node]
\* The values of the first items of a mapping by their names.
NamedItems(nodes, f, id, count) ==
    [n \in {NameOf(nodes, id, i) : i \in 1..count} |-> MeaningOf(nodes, f, id, LastWithName(nodes, id, n, count))]
ListedItems(nodes, f, id, count) == [i \in 1..count |-> MeaningOf(nodes, f, id, i)]

LEMMA ComposedIs ==
    ASSUME NEW nodes, NEW f, NEW id, NEW count
    PROVE  /\ nodes[id].kind = "scalar" => Composed(nodes, f, id, count) = ScalarMeaning(nodes[id])
           /\ nodes[id].kind = "sequence" =>
                 Composed(nodes, f, id, count) = [type |-> "array", items |-> ListedItems(nodes, f, id, count)]
           /\ nodes[id].kind = "mapping" =>
                 Composed(nodes, f, id, count) = [type |-> "map", map |-> NamedItems(nodes, f, id, count)]
<1>1. CASE nodes[id].kind = "scalar"
  BY <1>1 DEF Composed
<1>2. CASE nodes[id].kind = "sequence"
  BY <1>2 DEF Composed, ListedItems, MeaningOf
<1>3. CASE nodes[id].kind = "mapping"
  BY <1>3 DEF Composed, NamedItems, MeaningOf, NameOf
<1> QED BY <1>1, <1>2, <1>3

LEMMA LastIsAny ==
    ASSUME NEW nodes, NEW id, NEW count \in Nat, NEW i \in 1..count
    PROVE  LastWithName(nodes, id, NameOf(nodes, id, i), count) \in 1..count
<1> DEFINE Latest(j) == /\ NameOf(nodes, id, j) = NameOf(nodes, id, i)
                      /\ \A k \in 1..count : NameOf(nodes, id, k) = NameOf(nodes, id, i) => k <= j
<1>1. PICK S : S = {j \in 1..count : NameOf(nodes, id, j) = NameOf(nodes, id, i)}
  OBVIOUS
<1>2. S \in SUBSET Nat /\ IsFiniteSet(S) /\ S # {}
  <2>1. S \in SUBSET (1..count) /\ i \in S
    BY <1>1
  <2>2. IsFiniteSet(1..count)
    BY FS_Interval
  <2>3. IsFiniteSet(S)
    BY <2>1, <2>2, FS_Subset
  <2> QED BY <2>1, <2>3
<1>3. PICK j \in S : \A k \in S : k <= j
  BY <1>2, Greatest
<1>4. \E k \in 1..count : Latest(k)
  BY <1>1, <1>3
<1>5. LastWithName(nodes, id, NameOf(nodes, id, i), count) = CHOOSE k \in 1..count : Latest(k)
  BY DEF LastWithName, NameOf
<1> HIDE DEF Latest
<1> QED BY <1>4, <1>5

\* Only the items themselves matter.
LEMMA ComposedSame ==
    ASSUME NEW nodes, NEW f, NEW g, NEW id, NEW count \in Nat,
           nodes[id].kind \in {"scalar", "sequence", "mapping"},
           \A i \in 1..count : MeaningOf(nodes, f, id, i) = MeaningOf(nodes, g, id, i)
    PROVE  Composed(nodes, f, id, count) = Composed(nodes, g, id, count)
<1>1. ListedItems(nodes, f, id, count) = ListedItems(nodes, g, id, count)
  BY DEF ListedItems
<1>2. NamedItems(nodes, f, id, count) = NamedItems(nodes, g, id, count)
  <2>1. PICK N : N = {NameOf(nodes, id, i) : i \in 1..count}
    OBVIOUS
  <2>2. ASSUME NEW n \in N
        PROVE  MeaningOf(nodes, f, id, LastWithName(nodes, id, n, count))
                  = MeaningOf(nodes, g, id, LastWithName(nodes, id, n, count))
    <3>1. PICK i \in 1..count : n = NameOf(nodes, id, i)
      BY <2>1
    <3>2. LastWithName(nodes, id, n, count) \in 1..count
      BY <3>1, LastIsAny
    <3> QED BY <3>2
  <2>3. NamedItems(nodes, f, id, count) =
            [n \in N |-> MeaningOf(nodes, f, id, LastWithName(nodes, id, n, count))]
    BY <2>1 DEF NamedItems
  <2>4. NamedItems(nodes, g, id, count) =
            [n \in N |-> MeaningOf(nodes, g, id, LastWithName(nodes, id, n, count))]
    BY <2>1 DEF NamedItems
  <2> QED BY <2>2, <2>3, <2>4
<1> QED BY <1>1, <1>2, ComposedIs

\* What is stored under a name.
PutNamed(map, name, value) == [n \in DOMAIN map \cup {name} |-> IF n = name THEN value ELSE map[n]]

LEMMA NamedItemsGrow ==
    ASSUME NEW nodes, NEW f, NEW id, NEW count \in Nat
    PROVE  NamedItems(nodes, f, id, count + 1) =
              PutNamed(NamedItems(nodes, f, id, count), NameOf(nodes, id, count + 1), MeaningOf(nodes, f, id, count + 1))
<1>1. PICK c, x, N, s : /\ c = count + 1 /\ x = NameOf(nodes, id, c) /\ N = {NameOf(nodes, id, i) : i \in 1..count}
                        /\ s = NamedItems(nodes, f, id, count)
  OBVIOUS
<1>2. \A i : i \in 1..c <=> i \in 1..count \/ i = c
  BY <1>1
<1>3. {NameOf(nodes, id, i) : i \in 1..c} = N \cup {x}
  BY <1>1, <1>2
<1>4. LastWithName(nodes, id, x, c) = c
  <2> DEFINE Latest(j) == NameOf(nodes, id, j) = x /\ \A k \in 1..c : NameOf(nodes, id, k) = x => k <= j
  <2>1. Latest(c) /\ c \in 1..c /\ \A j \in 1..c : Latest(j) => j = c
    BY <1>1
  <2>2. LastWithName(nodes, id, x, c) = CHOOSE j \in 1..c : Latest(j)
    BY DEF LastWithName, NameOf
  <2> HIDE DEF Latest
  <2> QED BY <2>1, <2>2
<1>5. ASSUME NEW n, n # x PROVE LastWithName(nodes, id, n, c) = LastWithName(nodes, id, n, count)
  <2> DEFINE LastTo(j, d) == NameOf(nodes, id, j) = n /\ \A k \in 1..d : NameOf(nodes, id, k) = n => k <= j
  <2>1. \A j : j \in 1..c /\ LastTo(j, c) <=> j \in 1..count /\ LastTo(j, count)
    BY <1>1, <1>2, <1>5
  <2>2. LastWithName(nodes, id, n, c) = CHOOSE j \in 1..c : LastTo(j, c)
    BY DEF LastWithName, NameOf
  <2>3. LastWithName(nodes, id, n, count) = CHOOSE j \in 1..count : LastTo(j, count)
    BY DEF LastWithName, NameOf
  <2> HIDE DEF LastTo
  <2> QED BY <2>1, <2>2, <2>3
<1>6. DOMAIN s = N /\ \A n \in N : s[n] = MeaningOf(nodes, f, id, LastWithName(nodes, id, n, count))
  BY <1>1 DEF NamedItems
<1>7. NamedItems(nodes, f, id, c) =
          [n \in N \cup {x} |-> MeaningOf(nodes, f, id, LastWithName(nodes, id, n, c))]
  BY <1>3 DEF NamedItems
<1>8. \A n \in N \cup {x} : MeaningOf(nodes, f, id, LastWithName(nodes, id, n, c)) =
                              IF n = x THEN MeaningOf(nodes, f, id, c) ELSE s[n]
  BY <1>4, <1>5, <1>6
<1>9. NamedItems(nodes, f, id, c) = [n \in N \cup {x} |-> IF n = x THEN MeaningOf(nodes, f, id, c) ELSE s[n]]
  BY <1>7, <1>8
<1> QED BY <1>1, <1>6, <1>9 DEF PutNamed

LEMMA ListedItemsGrow ==
    ASSUME NEW nodes, NEW f, NEW id, NEW count \in Nat
    PROVE  ListedItems(nodes, f, id, count + 1) =
              Append(ListedItems(nodes, f, id, count), MeaningOf(nodes, f, id, count + 1))
<1>1. PICK s, t : s = ListedItems(nodes, f, id, count) /\ t = ListedItems(nodes, f, id, count + 1)
  OBVIOUS
<1>2. s = [i \in 1..count |-> MeaningOf(nodes, f, id, i)] /\ t = [i \in 1..(count + 1) |-> MeaningOf(nodes, f, id, i)]
  BY <1>1 DEF ListedItems
<1>3. PICK T : T = {MeaningOf(nodes, f, id, i) : i \in 1..(count + 1)}
  OBVIOUS
<1>4. s \in Seq(T) /\ t \in Seq(T) /\ Len(s) = count /\ Len(t) = count + 1 /\ t[count + 1] \in T
  <2>1. s \in [1..count -> T] /\ t \in [1..(count + 1) -> T]
    BY <1>2, <1>3
  <2>2. count + 1 \in Nat
    OBVIOUS
  <2> QED BY <2>1, <2>2, SeqDef, LenProperties
<1>5. Append(s, t[count + 1]) = t
  <2>1. PICK a : a = Append(s, t[count + 1])
    OBVIOUS
  <2>2. /\ a \in Seq(T) /\ Len(a) = count + 1 /\ \A i \in 1..count : a[i] = s[i]
        /\ a[count + 1] = t[count + 1]
    BY <1>4, <2>1, AppendProperties
  <2>3. \A i \in 1..(count + 1) : a[i] = t[i]
    BY <1>2, <2>2
  <2> QED BY <1>4, <2>1, <2>2, <2>3, SeqEqual
<1>6. t[count + 1] = MeaningOf(nodes, f, id, count + 1)
  BY <1>2
<1> QED BY <1>1, <1>5, <1>6

MeaningAtLevel(nodes, f, id) == Composed(nodes, f, id, Len(nodes[id].items))

LEMMA MeaningSame ==
    ASSUME NEW nodes, IsGraph(nodes), NEW n \in Nat, NEW id \in Level(nodes, n), NEW f, NEW g,
           \A b \in Level(nodes, n - 1) : f[b] = g[b]
    PROVE  MeaningAtLevel(nodes, f, id) = MeaningAtLevel(nodes, g, id)
<1>1. /\ id \in DOMAIN nodes
      /\ \A i \in DOMAIN nodes[id].items : nodes[id].items[i].node \in Level(nodes, n - 1)
  BY BelowLevel
<1>2. /\ Len(nodes[id].items) \in Nat /\ DOMAIN nodes[id].items = 1..Len(nodes[id].items)
      /\ nodes[id].kind \in {"scalar", "sequence", "mapping"}
  BY <1>1, ItemsAre
<1>3. \A i \in 1..Len(nodes[id].items) : MeaningOf(nodes, f, id, i) = MeaningOf(nodes, g, id, i)
  BY <1>1, <1>2 DEF MeaningOf
<1>4. Composed(nodes, f, id, Len(nodes[id].items)) = Composed(nodes, g, id, Len(nodes[id].items))
  BY <1>2, <1>3, ComposedSame
<1> QED BY <1>4 DEF MeaningAtLevel

LEMMA ExpansionsExist ==
    ASSUME NEW nodes, IsGraph(nodes), NEW levels \in Nat
    PROVE  \E f : f = [id \in Level(nodes, levels) |-> MeaningAtLevel(nodes, f, id)]
<1> DEFINE Solves(f, n) == f = [id \in Level(nodes, n) |-> MeaningAtLevel(nodes, f, id)]
           Bad == {n \in Nat : ~ \E f : Solves(f, n)}
<1>1. SUFFICES ASSUME Bad # {} PROVE FALSE
  OBVIOUS
<1>2. PICK n \in Bad : \A b \in Bad : n <= b
  <2>1. Bad \in SUBSET Nat
    OBVIOUS
  <2> HIDE DEF Bad
  <2> QED BY <1>1, <2>1, Least
<1>3. n \in Nat /\ ~ \E f : Solves(f, n)
  OBVIOUS
<1>4. n # 0
  <2>1. PICK f : f = [id \in Level(nodes, 0) |-> 0]
    OBVIOUS
  <2>2. f = [id \in Level(nodes, 0) |-> MeaningAtLevel(nodes, f, id)]
    <3>1. Level(nodes, 0) = {}
      BY LevelsAre
    <3> QED BY <2>1, <3>1
  <2>3. Solves(f, 0)
    BY <2>2
  <2> QED BY <1>3, <2>3
<1>5. n - 1 \in Nat /\ n - 1 <= n /\ ~(n <= n - 1)
  BY <1>3, <1>4
<1>6. PICK f : Solves(f, n - 1)
  <2>1. n - 1 \notin Bad
    BY <1>2, <1>5
  <2> QED BY <1>5, <2>1
<1>7. \A id \in Level(nodes, n - 1) : f[id] = MeaningAtLevel(nodes, f, id)
  BY <1>6
<1>8. PICK g : g = [id \in Level(nodes, n) |-> MeaningAtLevel(nodes, f, id)]
  OBVIOUS
<1>9. \A id \in Level(nodes, n) : g[id] = MeaningAtLevel(nodes, f, id)
  BY <1>8
<1>10. \A id \in Level(nodes, n - 1) : f[id] = g[id]
  <2>1. Level(nodes, n - 1) \subseteq Level(nodes, n)
    BY <1>3, <1>5, LevelsGrow
  <2> QED BY <1>7, <1>9, <2>1
<1>11. \A id \in Level(nodes, n) : MeaningAtLevel(nodes, f, id) = MeaningAtLevel(nodes, g, id)
  BY <1>3, <1>10, MeaningSame
<1>12. g = [id \in Level(nodes, n) |-> MeaningAtLevel(nodes, g, id)]
  BY <1>8, <1>11
<1>13. Solves(g, n)
  BY <1>12
<1> QED BY <1>3, <1>13

LEMMA ExpansionsAre ==
    ASSUME NEW nodes, IsGraph(nodes), NEW levels \in Nat, NEW id \in Level(nodes, levels)
    PROVE  Expansions(nodes, levels)[id] = Composed(nodes, Expansions(nodes, levels), id, Len(nodes[id].items))
<1> DEFINE Solves(f) == f = [b \in Level(nodes, levels) |-> MeaningAtLevel(nodes, f, b)]
<1>1. \E f : Solves(f)
  BY ExpansionsExist
<1>2. Expansions(nodes, levels) = CHOOSE f : Solves(f)
  BY DEF Expansions, MeaningAtLevel, Level
<1>3. Solves(Expansions(nodes, levels))
  <2> HIDE DEF Solves
  <2> QED BY <1>1, <1>2
<1>4. PICK f : f = Expansions(nodes, levels)
  OBVIOUS
<1>5. f[id] = MeaningAtLevel(nodes, f, id)
  BY <1>3, <1>4
<1> QED BY <1>4, <1>5 DEF MeaningAtLevel

-----------------------------------------------------------------------------
(* YAML: what nodes cost *)

\* The equation that Running solves.
RunningAt(first, costs, f, k) == IF k = 0 THEN first ELSE Consume(f[k - 1], costs[k])

LEMMA RunningExists ==
    ASSUME NEW first, NEW costs, NEW n \in Nat
    PROVE  \E f : f = [k \in 0..n |-> RunningAt(first, costs, f, k)]
<1> DEFINE Solves(f, m) == f = [k \in 0..m |-> RunningAt(first, costs, f, k)]
           Bad == {m \in Nat : ~ \E f : Solves(f, m)}
<1>1. SUFFICES ASSUME Bad # {} PROVE FALSE
  OBVIOUS
<1>2. PICK m \in Bad : \A b \in Bad : m <= b
  <2>1. Bad \in SUBSET Nat
    OBVIOUS
  <2> HIDE DEF Bad
  <2> QED BY <1>1, <2>1, Least
<1>3. m \in Nat /\ ~ \E f : Solves(f, m)
  OBVIOUS
<1>4. m # 0
  <2>1. PICK f : f = [k \in 0..0 |-> first]
    OBVIOUS
  <2>2. \A k \in 0..0 : k = 0
    OBVIOUS
  <2>3. f = [k \in 0..0 |-> RunningAt(first, costs, f, k)]
    BY <2>1, <2>2 DEF RunningAt
  <2>4. Solves(f, 0)
    BY <2>3
  <2> QED BY <1>3, <2>4
<1>5. m - 1 \in Nat /\ ~(m <= m - 1)
  BY <1>3, <1>4
<1>6. PICK f : Solves(f, m - 1)
  <2>1. m - 1 \notin Bad
    BY <1>2, <1>5
  <2> QED BY <1>5, <2>1
<1>7. \A k \in 0..(m - 1) : f[k] = RunningAt(first, costs, f, k)
  BY <1>6
<1>8. PICK v : v = RunningAt(first, costs, f, m)
  OBVIOUS
<1>9. PICK g : g = [k \in 0..m |-> IF k = m THEN v ELSE f[k]]
  OBVIOUS
<1>10. g[m] = v /\ \A k \in 0..m : k # m => g[k] = f[k]
  BY <1>3, <1>9
<1>11. ASSUME NEW k \in 0..m PROVE g[k] = RunningAt(first, costs, g, k)
  <2>1. k # 0 => k - 1 \in 0..m /\ k - 1 # m
    BY <1>3
  <2>2. RunningAt(first, costs, g, k) = RunningAt(first, costs, f, k)
    BY <1>10, <2>1 DEF RunningAt
  <2>3. k # m => k \in 0..(m - 1)
    BY <1>3
  <2> QED BY <1>7, <1>8, <1>10, <2>2, <2>3
<1>12. g = [k \in 0..m |-> RunningAt(first, costs, g, k)]
  <2>1. g = [k \in 0..m |-> g[k]]
    BY <1>9
  <2> QED BY <1>11, <2>1
<1>13. Solves(g, m)
  BY <1>12
<1> QED BY <1>3, <1>13

LEMMA RunningIs ==
    ASSUME NEW first, NEW costs, NEW n \in Nat, Len(costs) = n
    PROVE  /\ Running(first, costs)[0] = first
           /\ \A k \in 1..n : Running(first, costs)[k] = Consume(Running(first, costs)[k - 1], costs[k])
<1> DEFINE Solves(f) == f = [k \in 0..n |-> RunningAt(first, costs, f, k)]
<1>1. \E f : Solves(f)
  BY RunningExists
<1>2. Running(first, costs) = CHOOSE f : Solves(f)
  BY DEF Running, RunningAt
<1>3. Solves(Running(first, costs))
  <2> HIDE DEF Solves
  <2> QED BY <1>1, <1>2
<1>4. PICK f : f = Running(first, costs)
  OBVIOUS
<1>5. \A k \in 0..n : f[k] = RunningAt(first, costs, f, k)
  BY <1>3, <1>4
<1>6. 0 \in 0..n /\ \A k \in 1..n : k \in 0..n /\ k # 0
  OBVIOUS
<1>7. f[0] = first
  BY <1>5, <1>6 DEF RunningAt
<1>8. \A k \in 1..n : f[k] = Consume(f[k - 1], costs[k])
  BY <1>5, <1>6 DEF RunningAt
<1> QED BY <1>4, <1>7, <1>8

NameCost(nodes, id, i) == Cost(0, IF nodes[id].kind = "mapping" THEN KeyNode(nodes, id, i).size ELSE 0, 0)
OwnCost(nodes, id) ==
    Cost(1, IF nodes[id].kind = "scalar" THEN nodes[id].size ELSE 0, Len(nodes[id].items))
ItemCosts(nodes, f, id) ==
    [i \in 1..Len(nodes[id].items) |-> Consume(NameCost(nodes, id, i), f[nodes[id].items[i].node])]
ChargeAtLevel(nodes, f, id) == Charged(nodes, f, id)[Len(nodes[id].items)]

LEMMA ChargedIs ==
    ASSUME NEW nodes, IsGraph(nodes), NEW id \in DOMAIN nodes, NEW f
    PROVE  /\ Charged(nodes, f, id) = Running(OwnCost(nodes, id), ItemCosts(nodes, f, id))
           /\ Len(ItemCosts(nodes, f, id)) = Len(nodes[id].items)
           /\ Charged(nodes, f, id)[0] = OwnCost(nodes, id)
           /\ \A k \in 1..Len(nodes[id].items) : Charged(nodes, f, id)[k] =
                 Consume(Charged(nodes, f, id)[k - 1], Consume(NameCost(nodes, id, k), f[nodes[id].items[k].node]))
<1>1. Charged(nodes, f, id) = Running(OwnCost(nodes, id), ItemCosts(nodes, f, id))
  BY DEF Charged, OwnCost, ItemCosts, NameCost
<1>2. PICK n : n = Len(nodes[id].items) /\ n \in Nat
  BY ItemsAre
<1>3. PICK s : s = ItemCosts(nodes, f, id)
  OBVIOUS
<1>4. s = [i \in 1..n |-> Consume(NameCost(nodes, id, i), f[nodes[id].items[i].node])]
  BY <1>2, <1>3 DEF ItemCosts
<1>5. Len(s) = n
  <2>1. PICK T : T = {s[i] : i \in 1..n}
    OBVIOUS
  <2>2. s \in [1..n -> T]
    BY <1>4, <2>1
  <2>3. s \in Seq(T)
    BY <1>2, <2>2, SeqDef
  <2>4. DOMAIN s = 1..n /\ DOMAIN s = 1..Len(s) /\ Len(s) \in Nat
    BY <2>2, <2>3, LenProperties
  <2> QED BY <1>2, <2>4
<1>6. \A k \in 1..n : s[k] = Consume(NameCost(nodes, id, k), f[nodes[id].items[k].node])
  BY <1>4
<1>7. PICK r : r = Running(OwnCost(nodes, id), s)
  OBVIOUS
<1>8. r[0] = OwnCost(nodes, id) /\ \A k \in 1..n : r[k] = Consume(r[k - 1], s[k])
  BY <1>2, <1>5, <1>7, RunningIs
<1> QED BY <1>1, <1>2, <1>3, <1>5, <1>6, <1>7, <1>8

LEMMA ChargeSame ==
    ASSUME NEW nodes, IsGraph(nodes), NEW n \in Nat, NEW id \in Level(nodes, n), NEW f, NEW g,
           \A b \in Level(nodes, n - 1) : f[b] = g[b]
    PROVE  ChargeAtLevel(nodes, f, id) = ChargeAtLevel(nodes, g, id)
<1>1. /\ id \in DOMAIN nodes
      /\ \A i \in DOMAIN nodes[id].items : nodes[id].items[i].node \in Level(nodes, n - 1)
  BY BelowLevel
<1>2. DOMAIN nodes[id].items = 1..Len(nodes[id].items)
  BY <1>1, ItemsAre
<1>3. ItemCosts(nodes, f, id) = ItemCosts(nodes, g, id)
  BY <1>1, <1>2 DEF ItemCosts
<1>4. Charged(nodes, f, id) = Charged(nodes, g, id)
  BY <1>1, <1>3, ChargedIs
<1> QED BY <1>4 DEF ChargeAtLevel

LEMMA ChargesExist ==
    ASSUME NEW nodes, IsGraph(nodes), NEW levels \in Nat
    PROVE  \E f : f = [id \in Level(nodes, levels) |-> ChargeAtLevel(nodes, f, id)]
<1> DEFINE Solves(f, n) == f = [id \in Level(nodes, n) |-> ChargeAtLevel(nodes, f, id)]
           Bad == {n \in Nat : ~ \E f : Solves(f, n)}
<1>1. SUFFICES ASSUME Bad # {} PROVE FALSE
  OBVIOUS
<1>2. PICK n \in Bad : \A b \in Bad : n <= b
  <2>1. Bad \in SUBSET Nat
    OBVIOUS
  <2> HIDE DEF Bad
  <2> QED BY <1>1, <2>1, Least
<1>3. n \in Nat /\ ~ \E f : Solves(f, n)
  OBVIOUS
<1>4. n # 0
  <2>1. PICK f : f = [id \in Level(nodes, 0) |-> 0]
    OBVIOUS
  <2>2. f = [id \in Level(nodes, 0) |-> ChargeAtLevel(nodes, f, id)]
    <3>1. Level(nodes, 0) = {}
      BY LevelsAre
    <3> QED BY <2>1, <3>1
  <2>3. Solves(f, 0)
    BY <2>2
  <2> QED BY <1>3, <2>3
<1>5. n - 1 \in Nat /\ n - 1 <= n /\ ~(n <= n - 1)
  BY <1>3, <1>4
<1>6. PICK f : Solves(f, n - 1)
  <2>1. n - 1 \notin Bad
    BY <1>2, <1>5
  <2> QED BY <1>5, <2>1
<1>7. \A id \in Level(nodes, n - 1) : f[id] = ChargeAtLevel(nodes, f, id)
  BY <1>6
<1>8. PICK g : g = [id \in Level(nodes, n) |-> ChargeAtLevel(nodes, f, id)]
  OBVIOUS
<1>9. \A id \in Level(nodes, n) : g[id] = ChargeAtLevel(nodes, f, id)
  BY <1>8
<1>10. \A id \in Level(nodes, n - 1) : f[id] = g[id]
  <2>1. Level(nodes, n - 1) \subseteq Level(nodes, n)
    BY <1>3, <1>5, LevelsGrow
  <2> QED BY <1>7, <1>9, <2>1
<1>11. \A id \in Level(nodes, n) : ChargeAtLevel(nodes, f, id) = ChargeAtLevel(nodes, g, id)
  BY <1>3, <1>10, ChargeSame
<1>12. g = [id \in Level(nodes, n) |-> ChargeAtLevel(nodes, g, id)]
  BY <1>8, <1>11
<1>13. Solves(g, n)
  BY <1>12
<1> QED BY <1>3, <1>13

\* The cost of a node, and of a node with its first items.
Charge(nodes, levels, id) == Charges(nodes, levels)[id]
Part(nodes, levels, id, k) == Charged(nodes, Charges(nodes, levels), id)[k]

LEMMA ChargesAre ==
    ASSUME NEW nodes, IsGraph(nodes), NEW levels \in Nat, NEW id \in Level(nodes, levels)
    PROVE  Charge(nodes, levels, id) = Part(nodes, levels, id, Len(nodes[id].items))
<1> DEFINE Solves(f) == f = [b \in Level(nodes, levels) |-> ChargeAtLevel(nodes, f, b)]
<1>1. \E f : Solves(f)
  BY ChargesExist
<1>2. Charges(nodes, levels) = CHOOSE f : Solves(f)
  BY DEF Charges, ChargeAtLevel, Level
<1>3. Solves(Charges(nodes, levels))
  <2> HIDE DEF Solves
  <2> QED BY <1>1, <1>2
<1>4. PICK f : f = Charges(nodes, levels)
  OBVIOUS
<1>5. f[id] = ChargeAtLevel(nodes, f, id)
  BY <1>3, <1>4
<1> QED BY <1>4, <1>5 DEF ChargeAtLevel, Charge, Part

-----------------------------------------------------------------------------
(* YAML: sums *)

AtMost(a, b) == a.nodes <= b.nodes /\ a.strings <= b.strings /\ a.entries <= b.entries

LEMMA CostIs ==
    ASSUME NEW a \in Nat, NEW b \in Nat, NEW c \in Nat
    PROVE  /\ Cost(a, b, c) \in Uses /\ Cost(a, b, c).nodes = a /\ Cost(a, b, c).strings = b
           /\ Cost(a, b, c).entries = c
BY DEF Cost, Uses

LEMMA SumIs ==
    ASSUME NEW a \in Uses, NEW b \in Uses
    PROVE  /\ Consume(a, b) \in Uses
           /\ Consume(a, b).nodes = a.nodes + b.nodes /\ Consume(a, b).strings = a.strings + b.strings
           /\ Consume(a, b).entries = a.entries + b.entries
BY DEF Consume, Uses

LEMMA UseIs ==
    ASSUME NEW a \in Uses
    PROVE  a.nodes \in Nat /\ a.strings \in Nat /\ a.entries \in Nat
BY DEF Uses

LEMMA SameUse ==
    ASSUME NEW a \in Uses, NEW b \in Uses, a.nodes = b.nodes, a.strings = b.strings, a.entries = b.entries
    PROVE  a = b
BY DEF Uses

LEMMA SumsAssociate ==
    ASSUME NEW a \in Uses, NEW b \in Uses, NEW c \in Uses
    PROVE  Consume(a, Consume(b, c)) = Consume(Consume(a, b), c)
<1>1. Consume(a, b) \in Uses /\ Consume(b, c) \in Uses
  BY SumIs
<1>2. PICK l, r : l = Consume(a, Consume(b, c)) /\ r = Consume(Consume(a, b), c)
  OBVIOUS
<1>3. l \in Uses /\ l.nodes = a.nodes + (b.nodes + c.nodes) /\ l.strings = a.strings + (b.strings + c.strings)
      /\ l.entries = a.entries + (b.entries + c.entries)
  BY <1>1, <1>2, SumIs
<1>4. r \in Uses /\ r.nodes = (a.nodes + b.nodes) + c.nodes /\ r.strings = (a.strings + b.strings) + c.strings
      /\ r.entries = (a.entries + b.entries) + c.entries
  BY <1>1, <1>2, SumIs
<1>5. l.nodes = r.nodes /\ l.strings = r.strings /\ l.entries = r.entries
  <2>1. /\ a.nodes \in Nat /\ b.nodes \in Nat /\ c.nodes \in Nat
        /\ a.strings \in Nat /\ b.strings \in Nat /\ c.strings \in Nat
        /\ a.entries \in Nat /\ b.entries \in Nat /\ c.entries \in Nat
    BY UseIs
  <2>2. ASSUME NEW x \in Nat, NEW y \in Nat, NEW z \in Nat PROVE x + (y + z) = (x + y) + z
    OBVIOUS
  <2> QED BY <1>3, <1>4, <2>1, <2>2
<1> QED BY <1>2, <1>3, <1>4, <1>5, SameUse

LEMMA AtMostItself == ASSUME NEW a \in Uses PROVE AtMost(a, a)
BY UseIs DEF AtMost

LEMMA AtMostTransitive ==
    ASSUME NEW a \in Uses, NEW b \in Uses, NEW c \in Uses, AtMost(a, b), AtMost(b, c)
    PROVE  AtMost(a, c)
BY UseIs DEF AtMost

LEMMA SumAtMost ==
    ASSUME NEW a \in Uses, NEW b \in Uses, NEW c \in Uses, NEW d \in Uses, AtMost(a, b), AtMost(c, d)
    PROVE  AtMost(Consume(a, c), Consume(b, d))
<1>1. PICK l, r : l = Consume(a, c) /\ r = Consume(b, d)
  OBVIOUS
<1>2. l.nodes = a.nodes + c.nodes /\ l.strings = a.strings + c.strings /\ l.entries = a.entries + c.entries
  BY <1>1, SumIs
<1>3. r.nodes = b.nodes + d.nodes /\ r.strings = b.strings + d.strings /\ r.entries = b.entries + d.entries
  BY <1>1, SumIs
<1>4. /\ a.nodes \in Nat /\ b.nodes \in Nat /\ c.nodes \in Nat /\ d.nodes \in Nat
      /\ a.strings \in Nat /\ b.strings \in Nat /\ c.strings \in Nat /\ d.strings \in Nat
      /\ a.entries \in Nat /\ b.entries \in Nat /\ c.entries \in Nat /\ d.entries \in Nat
  BY UseIs
<1>5. AtMost(l, r)
  BY <1>2, <1>3, <1>4 DEF AtMost
<1> QED BY <1>1, <1>5

LEMMA SumIsMore ==
    ASSUME NEW a \in Uses, NEW b \in Uses
    PROVE  AtMost(a, Consume(a, b)) /\ AtMost(b, Consume(a, b))
<1>1. PICK r : r = Consume(a, b)
  OBVIOUS
<1>2. r.nodes = a.nodes + b.nodes /\ r.strings = a.strings + b.strings /\ r.entries = a.entries + b.entries
  BY <1>1, SumIs
<1>3. /\ a.nodes \in Nat /\ b.nodes \in Nat /\ a.strings \in Nat /\ b.strings \in Nat
      /\ a.entries \in Nat /\ b.entries \in Nat
  BY UseIs
<1>4. AtMost(a, r) /\ AtMost(b, r)
  BY <1>2, <1>3 DEF AtMost
<1> QED BY <1>1, <1>4

LEMMA UnusedIsNothing == Unused \in Uses /\ \A a \in Uses : Consume(Unused, a) = a
<1>1. Unused \in Uses /\ Unused.nodes = 0 /\ Unused.strings = 0 /\ Unused.entries = 0
  BY DEF Unused, Uses
<1>2. ASSUME NEW a \in Uses PROVE Consume(Unused, a) = a
  <2>1. PICK r : r = Consume(Unused, a)
    OBVIOUS
  <2>2. r \in Uses /\ r.nodes = 0 + a.nodes /\ r.strings = 0 + a.strings /\ r.entries = 0 + a.entries
    BY <1>1, <2>1, SumIs
  <2>3. a.nodes \in Nat /\ a.strings \in Nat /\ a.entries \in Nat
    BY UseIs
  <2>4. r = a
    BY <2>2, <2>3, SameUse
  <2> QED BY <2>1, <2>4
<1> QED BY <1>1, <1>2

\* What is at most something within the limits is within them.
LEMMA AtMostFits ==
    ASSUME limits \in ParseLimits, NEW a \in Uses, NEW b \in Uses, AtMost(a, b), WithinLimits(b)
    PROVE  WithinLimits(a)
<1>1. limits.nodes \in Nat /\ limits.strings \in Nat /\ limits.entries \in Nat
  BY ParseLimitsAssumption
<1> QED BY <1>1, UseIs DEF AtMost, WithinLimits

-----------------------------------------------------------------------------
(* YAML: what the items of a node cost *)

LEMMA OwnCostIs ==
    ASSUME NEW nodes, IsGraph(nodes), NEW id \in DOMAIN nodes
    PROVE  /\ OwnCost(nodes, id) \in Uses
           /\ \A i \in 1..Len(nodes[id].items) : NameCost(nodes, id, i) \in Uses
<1>1. /\ Len(nodes[id].items) \in Nat /\ nodes[id].size \in Nat
      /\ \A i \in 1..Len(nodes[id].items) : nodes[id].kind = "mapping" => nodes[id].items[i].key \in DOMAIN nodes
  BY ItemsAre
<1>2. OwnCost(nodes, id) \in Uses
  <2>1. PICK z : z = IF nodes[id].kind = "scalar" THEN nodes[id].size ELSE 0
    OBVIOUS
  <2>2. z \in Nat
    BY <1>1, <2>1
  <2> QED BY <1>1, <2>1, <2>2, CostIs DEF OwnCost
<1>3. ASSUME NEW i \in 1..Len(nodes[id].items) PROVE NameCost(nodes, id, i) \in Uses
  <2>1. PICK z : z = IF nodes[id].kind = "mapping" THEN KeyNode(nodes, id, i).size ELSE 0
    OBVIOUS
  <2>2. z \in Nat
    BY <1>1, <2>1, ItemsAre DEF KeyNode
  <2> QED BY <2>1, <2>2, CostIs DEF NameCost
<1> QED BY <1>2, <1>3

LEMMA PartIs ==
    ASSUME NEW nodes, IsGraph(nodes), NEW levels, NEW id \in DOMAIN nodes
    PROVE  /\ Part(nodes, levels, id, 0) = OwnCost(nodes, id)
           /\ \A k \in 1..Len(nodes[id].items) : Part(nodes, levels, id, k) =
                 Consume(Part(nodes, levels, id, k - 1),
                         Consume(NameCost(nodes, id, k), Charge(nodes, levels, nodes[id].items[k].node)))
BY ChargedIs DEF Part, Charge

\* As far as the items have a cost, so has what comes before them.
LEMMA PartsAreUses ==
    ASSUME NEW nodes, IsGraph(nodes), NEW levels, NEW id \in DOMAIN nodes, NEW n \in 0..Len(nodes[id].items),
           \A i \in 1..n : Charge(nodes, levels, nodes[id].items[i].node) \in Uses
    PROVE  \A k \in 0..n : Part(nodes, levels, id, k) \in Uses
<1> DEFINE Bad == {k \in 0..n : Part(nodes, levels, id, k) \notin Uses}
<1>1. SUFFICES ASSUME Bad # {} PROVE FALSE
  OBVIOUS
<1>2. Len(nodes[id].items) \in Nat /\ n \in Nat
  BY ItemsAre
<1>3. PICK k \in Bad : \A b \in Bad : k <= b
  <2>1. Bad \in SUBSET Nat
    BY <1>2
  <2> HIDE DEF Bad
  <2> QED BY <1>1, <2>1, Least
<1>4. k \in 0..n /\ Part(nodes, levels, id, k) \notin Uses
  OBVIOUS
<1>5. k # 0
  BY <1>4, PartIs, OwnCostIs
<1>6. k - 1 \in 0..n /\ ~(k <= k - 1) /\ k \in 1..n /\ k \in 1..Len(nodes[id].items)
  BY <1>2, <1>4, <1>5
<1>7. Part(nodes, levels, id, k - 1) \in Uses
  BY <1>3, <1>6
<1>8. Consume(NameCost(nodes, id, k), Charge(nodes, levels, nodes[id].items[k].node)) \in Uses
  BY <1>6, OwnCostIs, SumIs
<1>9. Part(nodes, levels, id, k) =
          Consume(Part(nodes, levels, id, k - 1),
                  Consume(NameCost(nodes, id, k), Charge(nodes, levels, nodes[id].items[k].node)))
  BY <1>6, PartIs
<1> QED BY <1>4, <1>7, <1>8, <1>9, SumIs

LEMMA ChargeIsUse ==
    ASSUME NEW nodes, IsGraph(nodes), NEW levels \in Nat, NEW n \in 0..levels, NEW id \in Level(nodes, n)
    PROVE  Charge(nodes, levels, id) \in Uses
<1> DEFINE Bad == {l \in 0..levels : \E b \in Level(nodes, l) : Charge(nodes, levels, b) \notin Uses}
<1>1. SUFFICES ASSUME Bad # {} PROVE FALSE
  OBVIOUS
<1>2. PICK l \in Bad : \A b \in Bad : l <= b
  <2>1. Bad \in SUBSET Nat
    OBVIOUS
  <2> HIDE DEF Bad
  <2> QED BY <1>1, <2>1, Least
<1>3. l \in 0..levels /\ l \in Nat
  OBVIOUS
<1>4. PICK b \in Level(nodes, l) : Charge(nodes, levels, b) \notin Uses
  OBVIOUS
<1>5. /\ l # 0 /\ l - 1 \in Nat /\ b \in DOMAIN nodes
      /\ \A i \in DOMAIN nodes[b].items : nodes[b].items[i].node \in Level(nodes, l - 1)
  BY <1>3, BelowLevel
<1>6. l - 1 \in 0..levels /\ ~(l <= l - 1)
  BY <1>3, <1>5
<1>7. PICK len : len = Len(nodes[b].items) /\ len \in Nat /\ DOMAIN nodes[b].items = 1..len
  BY <1>5, ItemsAre
<1>8. \A i \in 1..len : Charge(nodes, levels, nodes[b].items[i].node) \in Uses
  BY <1>2, <1>5, <1>6, <1>7
<1>9. len \in 0..Len(nodes[b].items) /\ len \in 0..len
  BY <1>7
<1>10. Part(nodes, levels, b, len) \in Uses
  BY <1>5, <1>8, <1>9, PartsAreUses
<1>11. b \in Level(nodes, levels)
  <2>1. Level(nodes, l) \subseteq Level(nodes, levels)
    BY <1>3, LevelsGrow
  <2> QED BY <1>4, <2>1
<1> QED BY <1>4, <1>7, <1>10, <1>11, ChargesAre

\* With one more item, and all that it expands to.
LEMMA PartGrows ==
    ASSUME NEW nodes, IsGraph(nodes), NEW levels, NEW id \in DOMAIN nodes, NEW k \in Nat, k + 1 <= Len(nodes[id].items),
           Part(nodes, levels, id, k) \in Uses, Charge(nodes, levels, nodes[id].items[k + 1].node) \in Uses
    PROVE  /\ Part(nodes, levels, id, k + 1) \in Uses
           /\ Part(nodes, levels, id, k + 1) =
                 Consume(Consume(Part(nodes, levels, id, k), NameCost(nodes, id, k + 1)),
                         Charge(nodes, levels, nodes[id].items[k + 1].node))
           /\ Consume(Part(nodes, levels, id, k), NameCost(nodes, id, k + 1)) \in Uses
           /\ AtMost(Part(nodes, levels, id, k), Part(nodes, levels, id, k + 1))
<1>1. k + 1 \in 1..Len(nodes[id].items) /\ (k + 1) - 1 = k
  BY ItemsAre
<1>2. PICK p, c, h, q : /\ p = Part(nodes, levels, id, k) /\ c = NameCost(nodes, id, k + 1)
                        /\ h = Charge(nodes, levels, nodes[id].items[k + 1].node)
                        /\ q = Part(nodes, levels, id, k + 1)
  OBVIOUS
<1>3. p \in Uses /\ c \in Uses /\ h \in Uses
  BY <1>1, <1>2, OwnCostIs
<1>4. q = Consume(p, Consume(c, h))
  BY <1>1, <1>2, PartIs
<1>5. q = Consume(Consume(p, c), h)
  BY <1>3, <1>4, SumsAssociate
<1>6. Consume(p, c) \in Uses /\ Consume(c, h) \in Uses
  BY <1>3, SumIs
<1>7. q \in Uses /\ AtMost(p, q)
  BY <1>3, <1>4, <1>6, SumIs, SumIsMore
<1> QED BY <1>2, <1>5, <1>6, <1>7

\* A node costs at least what it costs with its first items.
LEMMA PartsFit ==
    ASSUME NEW nodes, IsGraph(nodes), NEW levels \in Nat, NEW id \in Level(nodes, levels)
    PROVE  /\ id \in DOMAIN nodes /\ Len(nodes[id].items) \in Nat /\ levels - 1 \in Nat
           /\ Charge(nodes, levels, id) \in Uses
           /\ Charge(nodes, levels, id) = Part(nodes, levels, id, Len(nodes[id].items))
           /\ \A i \in 1..Len(nodes[id].items) : Charge(nodes, levels, nodes[id].items[i].node) \in Uses
           /\ \A k \in 0..Len(nodes[id].items) :
                 /\ Part(nodes, levels, id, k) \in Uses
                 /\ AtMost(Part(nodes, levels, id, k), Charge(nodes, levels, id))
<1>1. /\ id \in DOMAIN nodes /\ levels - 1 \in Nat
      /\ \A i \in DOMAIN nodes[id].items : nodes[id].items[i].node \in Level(nodes, levels - 1)
  BY BelowLevel
<1>2. PICK len : len = Len(nodes[id].items) /\ len \in Nat /\ DOMAIN nodes[id].items = 1..len
  BY <1>1, ItemsAre
<1>3. \A i \in 1..len : Charge(nodes, levels, nodes[id].items[i].node) \in Uses
  <2>1. levels - 1 \in 0..levels
    BY <1>1
  <2> QED BY <1>1, <1>2, <2>1, ChargeIsUse
<1>4. \A k \in 0..len : Part(nodes, levels, id, k) \in Uses
  <2>1. len \in 0..Len(nodes[id].items)
    BY <1>2
  <2> QED BY <1>1, <1>3, <2>1, PartsAreUses
<1>5. Charge(nodes, levels, id) = Part(nodes, levels, id, len)
  BY <1>2, ChargesAre
<1>6. ASSUME NEW k \in 0..len PROVE AtMost(Part(nodes, levels, id, k), Part(nodes, levels, id, len))
  <2> DEFINE Bad == {j \in Nat : j <= len /\ ~AtMost(Part(nodes, levels, id, len - j), Part(nodes, levels, id, len))}
  <2>1. Bad = {}
    <3> SUFFICES ASSUME Bad # {} PROVE FALSE
      OBVIOUS
    <3>1. PICK j \in Bad : \A b \in Bad : j <= b
      <4>1. Bad \in SUBSET Nat
        OBVIOUS
      <4> HIDE DEF Bad
      <4> QED BY <4>1, Least
    <3>2. j \in Nat /\ j <= len /\ ~AtMost(Part(nodes, levels, id, len - j), Part(nodes, levels, id, len))
      OBVIOUS
    <3>3. j # 0
      <4>1. Part(nodes, levels, id, len) \in Uses /\ len - 0 = len
        BY <1>2, <1>4
      <4>2. AtMost(Part(nodes, levels, id, len), Part(nodes, levels, id, len))
        BY <4>1, AtMostItself
      <4> QED BY <3>2, <4>1, <4>2
    <3>4. PICK a, b : a = len - j /\ b = len - (j - 1)
      OBVIOUS
    <3>5. a \in Nat /\ b = a + 1 /\ b <= len /\ b \in 1..len /\ a \in 0..len /\ b \in 0..len /\ j - 1 \in Nat /\ j - 1 <= len /\ ~(j <= j - 1)
      BY <1>2, <3>2, <3>3, <3>4
    <3>6. AtMost(Part(nodes, levels, id, b), Part(nodes, levels, id, len))
      BY <3>1, <3>4, <3>5
    <3>7. AtMost(Part(nodes, levels, id, a), Part(nodes, levels, id, a + 1))
      <4>1. a + 1 <= Len(nodes[id].items) /\ Part(nodes, levels, id, a) \in Uses
            /\ Charge(nodes, levels, nodes[id].items[a + 1].node) \in Uses
        BY <1>2, <1>3, <1>4, <3>5
      <4> QED BY <1>1, <3>5, <4>1, PartGrows
    <3>8. Part(nodes, levels, id, a) \in Uses /\ Part(nodes, levels, id, b) \in Uses /\ Part(nodes, levels, id, len) \in Uses
      BY <1>2, <1>4, <3>5
    <3>9. AtMost(Part(nodes, levels, id, a), Part(nodes, levels, id, len))
      BY <3>5, <3>6, <3>7, <3>8, AtMostTransitive
    <3> QED BY <3>2, <3>4, <3>9
  <2>2. PICK j : j = len - k
    OBVIOUS
  <2>3. j \in Nat /\ j <= len /\ len - j = k
    BY <1>2, <2>2
  <2> QED BY <2>1, <2>3
<1> QED BY <1>1, <1>2, <1>3, <1>4, <1>5, <1>6

-----------------------------------------------------------------------------
(* YAML: the way to a node *)

\* A node on the way, with the items that are done, and what was spent when it was entered.
Stops(nodes) == [node : DOMAIN nodes, done : Nat, spent : Uses]
Size(nodes, id) == Len(nodes[id].items)
ChildOf(nodes, id, k) == nodes[id].items[k].node
\* What is spent when the next item is entered.
SpentOn(nodes, levels, stop) ==
    Consume(stop.spent, Consume(Part(nodes, levels, stop.node, stop.done), NameCost(nodes, stop.node, stop.done + 1)))
Way(nodes, levels, w) ==
    /\ w \in Seq(Stops(nodes)) /\ w # <<>>
    /\ w[1].node = 1 /\ w[1].spent = Unused
    /\ \A i \in 1..Len(w) : w[i].done <= Size(nodes, w[i].node)
    /\ \A i \in 1..Len(w) : i # Len(w) =>
          /\ w[i].done < Size(nodes, w[i].node)
          /\ w[i + 1].node = ChildOf(nodes, w[i].node, w[i].done + 1)
          /\ w[i + 1].spent = SpentOn(nodes, levels, w[i])

LEMMA WayIs ==
    ASSUME NEW nodes, NEW levels, NEW w, Way(nodes, levels, w)
    PROVE  /\ Len(w) \in Nat /\ Len(w) # 0 /\ 1 \in 1..Len(w) /\ Len(w) \in 1..Len(w)
           /\ \A i \in 1..Len(w) : w[i] \in Stops(nodes) /\ w[i].node \in DOMAIN nodes /\ w[i].done \in Nat /\ w[i].spent \in Uses
<1>1. w \in Seq(Stops(nodes)) /\ w # <<>>
  BY DEF Way
<1>2. Len(w) \in Nat /\ Len(w) # 0 /\ \A i \in 1..Len(w) : w[i] \in Stops(nodes)
  BY <1>1, LenProperties, EmptySeq, ElementOfSeq
<1>3. \A i \in 1..Len(w) : w[i].node \in DOMAIN nodes /\ w[i].done \in Nat /\ w[i].spent \in Uses
  BY <1>2 DEF Stops
<1> QED BY <1>2, <1>3

\* If the root expands to so many levels, each node on the way does to one less than the one above it.
LEMMA WayDescends ==
    ASSUME NEW nodes, IsGraph(nodes), NEW levels \in Nat, 1 \in Level(nodes, levels),
           NEW w, Way(nodes, levels, w), NEW i \in 1..Len(w)
    PROVE  i <= levels /\ w[i].node \in Level(nodes, levels - (i - 1))
<1> DEFINE Bad == {j \in 1..Len(w) : ~(j <= levels /\ w[j].node \in Level(nodes, levels - (j - 1)))}
<1>1. SUFFICES ASSUME Bad # {} PROVE FALSE
  OBVIOUS
<1>2. PICK j \in Bad : \A b \in Bad : j <= b
  <2>1. Bad \in SUBSET Nat
    BY WayIs
  <2> HIDE DEF Bad
  <2> QED BY <1>1, <2>1, Least
<1>3. j \in 1..Len(w) /\ ~(j <= levels /\ w[j].node \in Level(nodes, levels - (j - 1)))
  OBVIOUS
<1>4. Len(w) \in Nat
  BY WayIs
<1>5. levels # 0
  BY LevelsAre
<1>6. j # 1
  <2>1. w[1].node \in Level(nodes, levels) /\ levels - (1 - 1) = levels /\ 1 <= levels
    BY <1>5 DEF Way
  <2> QED BY <1>3, <2>1
<1>7. PICK k : k = j - 1
  OBVIOUS
<1>8. k \in 1..Len(w) /\ k # Len(w) /\ ~(j <= k) /\ j = k + 1 /\ k \in Nat
  BY <1>3, <1>4, <1>6, <1>7
<1>9. k <= levels /\ w[k].node \in Level(nodes, levels - (k - 1))
  BY <1>2, <1>8
<1>10. PICK l : l = levels - (k - 1)
  OBVIOUS
<1>11. l \in Nat /\ l - 1 = levels - (j - 1)
  <2>1. k <= levels
    BY <1>9
  <2>2. ASSUME NEW x \in Nat, NEW y \in Nat, x <= y PROVE y - (x - 1) \in Nat /\ (y - (x - 1)) - 1 = y - ((x + 1) - 1)
    BY <2>2
  <2> HIDE DEF Bad
  <2> QED BY <1>8, <1>10, <2>1, <2>2
<1>12. /\ l # 0 /\ l - 1 \in Nat /\ w[k].node \in DOMAIN nodes
       /\ \A b \in DOMAIN nodes[w[k].node].items : nodes[w[k].node].items[b].node \in Level(nodes, l - 1)
  BY <1>9, <1>10, <1>11, BelowLevel
<1>13. w[k].done + 1 \in DOMAIN nodes[w[k].node].items
  <2>1. w[k].done \in Nat /\ w[k].done < Size(nodes, w[k].node)
    BY <1>8, WayIs DEF Way
  <2> QED BY <1>12, <2>1, ItemsAre DEF Size
<1>14. w[j].node \in Level(nodes, l - 1)
  BY <1>8, <1>12, <1>13 DEF Way, ChildOf
<1>15. j <= levels
  <2>1. l - 1 # 0
    BY <1>14, LevelsAre
  <2> QED BY <1>8, <1>10, <1>12, <2>1
<1> QED BY <1>3, <1>11, <1>14, <1>15

\* No node is below itself.
LEMMA WayIsApart ==
    ASSUME NEW nodes, IsGraph(nodes), NEW levels \in Nat, 1 \in Level(nodes, levels),
           NEW w, Way(nodes, levels, w), NEW i \in 1..Len(w), NEW j \in 1..Len(w), i < j
    PROVE  w[i].node # w[j].node
<1> SUFFICES ASSUME w[i].node = w[j].node PROVE FALSE
  OBVIOUS
<1> DEFINE Bad == {n \in Nat : \E k \in i..j : w[k].node \in Level(nodes, n)}
<1>1. Len(w) \in Nat
  BY WayIs
<1>2. Bad # {}
  <2>1. i <= levels /\ w[i].node \in Level(nodes, levels - (i - 1))
    BY WayDescends
  <2>2. levels - (i - 1) \in Nat /\ i \in i..j
    BY <1>1, <2>1
  <2> QED BY <2>1, <2>2
<1>3. PICK n \in Bad : \A b \in Bad : n <= b
  <2>1. Bad \in SUBSET Nat
    OBVIOUS
  <2> HIDE DEF Bad
  <2> QED BY <1>2, <2>1, Least
<1>4. PICK k0 \in i..j : w[k0].node \in Level(nodes, n)
  OBVIOUS
<1>5. PICK k : k \in i..j /\ k # j /\ w[k].node \in Level(nodes, n)
  <2>1. CASE k0 = j
    <3>1. i \in i..j /\ i # j
      BY <1>1
    <3> QED BY <1>4, <2>1, <3>1
  <2> QED BY <1>4, <2>1
<1>6. k \in 1..Len(w) /\ k # Len(w) /\ k + 1 \in i..j /\ k \in Nat
  BY <1>1, <1>5
<1>7. /\ n \in Nat /\ n # 0 /\ n - 1 \in Nat /\ w[k].node \in DOMAIN nodes
      /\ \A b \in DOMAIN nodes[w[k].node].items : nodes[w[k].node].items[b].node \in Level(nodes, n - 1)
  BY <1>5, BelowLevel
<1>8. w[k].done + 1 \in DOMAIN nodes[w[k].node].items
  <2>1. w[k].done \in Nat /\ w[k].done < Size(nodes, w[k].node)
    BY <1>6, WayIs DEF Way
  <2> QED BY <1>7, <2>1, ItemsAre DEF Size
<1>9. w[k + 1].node \in Level(nodes, n - 1)
  BY <1>6, <1>7, <1>8 DEF Way, ChildOf
<1>10. n - 1 \in Bad /\ ~(n <= n - 1)
  BY <1>6, <1>7, <1>9
<1> QED BY <1>3, <1>10

\* What the nodes on the way cost is part of what the root costs.
LEMMA WayFits ==
    ASSUME NEW nodes, IsGraph(nodes), NEW levels \in Nat, 1 \in Level(nodes, levels),
           NEW w, Way(nodes, levels, w), NEW i \in 1..Len(w)
    PROVE  AtMost(Consume(w[i].spent, Charge(nodes, levels, w[i].node)), Charge(nodes, levels, 1))
<1> DEFINE InBudget(j) == AtMost(Consume(w[j].spent, Charge(nodes, levels, w[j].node)), Charge(nodes, levels, 1))
           Bad == {j \in 1..Len(w) : ~InBudget(j)}
<1>1. SUFFICES ASSUME Bad # {} PROVE FALSE
  OBVIOUS
<1>2. PICK j \in Bad : \A b \in Bad : j <= b
  <2>1. Bad \in SUBSET Nat
    BY WayIs
  <2> HIDE DEF Bad
  <2> QED BY <1>1, <2>1, Least
<1>3. j \in 1..Len(w) /\ ~InBudget(j)
  OBVIOUS
<1>4. Len(w) \in Nat
  BY WayIs
<1>5. \A k \in 1..Len(w) : w[k].node \in Level(nodes, levels)
  <2>1. ASSUME NEW k \in 1..Len(w) PROVE w[k].node \in Level(nodes, levels)
    <3>1. k <= levels /\ w[k].node \in Level(nodes, levels - (k - 1))
      BY WayDescends
    <3>2. levels - (k - 1) \in Nat /\ levels - (k - 1) <= levels
      BY <1>4, <3>1
    <3>3. Level(nodes, levels - (k - 1)) \subseteq Level(nodes, levels)
      BY <3>2, LevelsGrow
    <3> QED BY <3>1, <3>3
  <2> QED BY <2>1
<1>6. j # 1
  <2>1. Charge(nodes, levels, 1) \in Uses
    BY PartsFit
  <2>2. Consume(w[1].spent, Charge(nodes, levels, w[1].node)) = Charge(nodes, levels, 1)
    BY <2>1, UnusedIsNothing DEF Way
  <2> QED BY <1>3, <2>1, <2>2, AtMostItself
<1>7. PICK k : k = j - 1
  OBVIOUS
<1>8. k \in 1..Len(w) /\ k # Len(w) /\ ~(j <= k) /\ j = k + 1 /\ k \in Nat
  BY <1>3, <1>4, <1>6, <1>7
<1>9. InBudget(k)
  BY <1>2, <1>8
<1>10. PICK id, d, s : id = w[k].node /\ d = w[k].done /\ s = w[k].spent
  OBVIOUS
<1>11. id \in Level(nodes, levels) /\ d \in Nat /\ s \in Uses /\ d < Size(nodes, id)
  BY <1>5, <1>8, <1>10, WayIs DEF Way
<1>12. PICK p, c, h, t, q : /\ p = Part(nodes, levels, id, d) /\ c = NameCost(nodes, id, d + 1)
                            /\ h = Charge(nodes, levels, ChildOf(nodes, id, d + 1)) /\ t = Charge(nodes, levels, id)
                            /\ q = Part(nodes, levels, id, d + 1)
  OBVIOUS
<1>13. w[j].node = ChildOf(nodes, id, d + 1) /\ w[j].spent = Consume(s, Consume(p, c))
  BY <1>8, <1>10, <1>12 DEF Way, SpentOn
<1>14. /\ d \in 0..Len(nodes[id].items) /\ d + 1 \in 0..Len(nodes[id].items) /\ d + 1 \in 1..Len(nodes[id].items)
       /\ d + 1 <= Len(nodes[id].items) /\ id \in DOMAIN nodes
  BY <1>11, PartsFit DEF Size
<1>15. p \in Uses /\ h \in Uses /\ t \in Uses /\ q \in Uses /\ AtMost(q, t) /\ c \in Uses
  BY <1>11, <1>12, <1>14, PartsFit, OwnCostIs DEF ChildOf
<1>16. q = Consume(Consume(p, c), h)
  BY <1>11, <1>12, <1>14, <1>15, PartGrows DEF ChildOf
<1>17. Consume(p, c) \in Uses
  BY <1>15, SumIs
<1>18. Consume(Consume(s, Consume(p, c)), h) = Consume(s, q)
  BY <1>11, <1>15, <1>16, <1>17, SumsAssociate
<1>19. AtMost(Consume(s, q), Consume(s, t))
  BY <1>11, <1>15, SumAtMost, AtMostItself
<1>20. PICK r : r = Charge(nodes, levels, 1)
  OBVIOUS
<1>21. AtMost(Consume(s, t), r) /\ r \in Uses
  BY <1>9, <1>10, <1>12, <1>20, PartsFit
<1>22. Consume(s, q) \in Uses /\ Consume(s, t) \in Uses
  BY <1>11, <1>15, SumIs
<1>23. AtMost(Consume(s, q), r)
  BY <1>19, <1>21, <1>22, AtMostTransitive
<1> QED BY <1>3, <1>12, <1>13, <1>18, <1>20, <1>23

\* A way begins at the root, goes on to the next item, and back when that is done.
LEMMA WayBegins ==
    ASSUME NEW nodes, IsGraph(nodes), NEW levels
    PROVE  \E w : Way(nodes, levels, w) /\ Len(w) = 1 /\ w[1].node = 1 /\ w[1].done = 0 /\ w[1].spent = Unused
<1>1. PICK s : s = [node |-> 1, done |-> 0, spent |-> Unused]
  OBVIOUS
<1>2. 1 \in DOMAIN nodes
  BY DEF IsGraph
<1>3. s \in Stops(nodes) /\ s.node = 1 /\ s.done = 0 /\ s.spent = Unused
  BY <1>1, <1>2, UnusedIsNothing DEF Stops
<1>4. PICK w : w = <<s>>
  OBVIOUS
<1>5. w \in Seq(Stops(nodes)) /\ Len(w) = 1 /\ w[1] = s /\ w # <<>>
  BY <1>3, <1>4
<1>6. \A i \in 1..Len(w) : i = Len(w) /\ w[i].done <= Size(nodes, w[i].node)
  <2>1. Size(nodes, 1) \in Nat
    BY <1>2, ItemsAre DEF Size
  <2> QED BY <1>3, <1>5, <2>1
<1> QED BY <1>3, <1>5, <1>6 DEF Way

LEMMA WayGoesOn ==
    ASSUME NEW nodes, IsGraph(nodes), NEW levels, NEW w, Way(nodes, levels, w), NEW n, n = Len(w),
           w[n].done < Size(nodes, w[n].node), SpentOn(nodes, levels, w[n]) \in Uses
    PROVE  \E v : /\ Way(nodes, levels, v) /\ Len(v) = n + 1 /\ \A i \in 1..n : v[i] = w[i]
                  /\ v[n + 1].node = ChildOf(nodes, w[n].node, w[n].done + 1) /\ v[n + 1].done = 0
                  /\ v[n + 1].spent = SpentOn(nodes, levels, w[n])
<1>1. n \in Nat /\ n # 0 /\ n \in 1..n /\ \A i \in 1..n : w[i] \in Stops(nodes) /\ w[i].node \in DOMAIN nodes /\ w[i].done \in Nat
  BY WayIs
<1>2. PICK s : s = [node |-> ChildOf(nodes, w[n].node, w[n].done + 1), done |-> 0, spent |-> SpentOn(nodes, levels, w[n])]
  OBVIOUS
<1>3. ChildOf(nodes, w[n].node, w[n].done + 1) \in DOMAIN nodes
  <2>1. w[n].done + 1 \in 1..Len(nodes[w[n].node].items)
    BY <1>1, ItemsAre DEF Size
  <2> QED BY <1>1, <2>1, ItemsAre DEF ChildOf
<1>4. s \in Stops(nodes) /\ s.node = ChildOf(nodes, w[n].node, w[n].done + 1) /\ s.done = 0 /\ s.spent = SpentOn(nodes, levels, w[n])
  BY <1>2, <1>3 DEF Stops
<1>5. PICK v : v = Append(w, s)
  OBVIOUS
<1>6. v \in Seq(Stops(nodes)) /\ Len(v) = n + 1 /\ v[n + 1] = s /\ \A i \in 1..n : v[i] = w[i]
  <2>1. w \in Seq(Stops(nodes))
    BY DEF Way
  <2> QED BY <1>4, <1>5, <2>1, AppendProperties
<1>7. v # <<>> /\ v[1] = w[1]
  BY <1>1, <1>6, EmptySeq
<1>8. ASSUME NEW i \in 1..Len(v) PROVE v[i].done <= Size(nodes, v[i].node)
  <2>1. CASE i = n + 1
    <3>1. Size(nodes, s.node) \in Nat
      BY <1>3, <1>4, ItemsAre DEF Size
    <3> QED BY <1>4, <1>6, <2>1, <3>1
  <2>2. CASE i # n + 1
    <3>1. i \in 1..n
      BY <1>1, <1>6, <2>2
    <3> QED BY <1>6, <3>1 DEF Way
  <2> QED BY <2>1, <2>2
<1>9. ASSUME NEW i \in 1..Len(v), i # Len(v)
      PROVE  /\ v[i].done < Size(nodes, v[i].node)
             /\ v[i + 1].node = ChildOf(nodes, v[i].node, v[i].done + 1)
             /\ v[i + 1].spent = SpentOn(nodes, levels, v[i])
  <2>1. i \in 1..n /\ v[i] = w[i]
    BY <1>1, <1>6, <1>9
  <2>2. CASE i = n
    BY <1>4, <1>6, <2>1, <2>2
  <2>3. CASE i # n
    <3>1. i + 1 \in 1..n /\ v[i + 1] = w[i + 1]
      BY <1>1, <1>6, <2>1, <2>3
    <3> QED BY <2>1, <2>3, <3>1 DEF Way
  <2> QED BY <2>2, <2>3
<1>10. Way(nodes, levels, v)
  BY <1>6, <1>7, <1>8, <1>9 DEF Way
<1> QED BY <1>4, <1>6, <1>10

LEMMA WayGoesBack ==
    ASSUME NEW nodes, IsGraph(nodes), NEW levels, NEW w, Way(nodes, levels, w), NEW n \in Nat, n # 0, Len(w) = n + 1
    PROVE  \E v : /\ Way(nodes, levels, v) /\ Len(v) = n /\ \A i \in 1..n : i # n => v[i] = w[i]
                  /\ v[n].node = w[n].node /\ v[n].done = w[n].done + 1 /\ v[n].spent = w[n].spent
<1>1. \A i \in 1..(n + 1) : w[i] \in Stops(nodes) /\ w[i].node \in DOMAIN nodes /\ w[i].done \in Nat /\ w[i].spent \in Uses
  BY WayIs
<1>2. n \in 1..Len(w) /\ n # Len(w)
  OBVIOUS
<1>3. w[n].done < Size(nodes, w[n].node)
  BY <1>2 DEF Way
<1>4. PICK s : s = [node |-> w[n].node, done |-> w[n].done + 1, spent |-> w[n].spent]
  OBVIOUS
<1>5. s \in Stops(nodes) /\ s.node = w[n].node /\ s.done = w[n].done + 1 /\ s.spent = w[n].spent
  BY <1>1, <1>2, <1>4 DEF Stops
<1>6. PICK v : v = [i \in 1..n |-> IF i = n THEN s ELSE w[i]]
  OBVIOUS
<1>7. v \in Seq(Stops(nodes)) /\ Len(v) = n /\ v[n] = s /\ \A i \in 1..n : i # n => v[i] = w[i]
  <2>1. v \in [1..n -> Stops(nodes)]
    BY <1>1, <1>5, <1>6
  <2>2. v \in Seq(Stops(nodes))
    BY <2>1, SeqDef
  <2> QED BY <1>6, <2>1, <2>2, LenProperties
<1>8. v # <<>> /\ v[1].node = 1 /\ v[1].spent = Unused
  <2>1. v # <<>>
    BY <1>7, EmptySeq
  <2>2. n = 1 \/ (1 \in 1..n /\ 1 # n)
    OBVIOUS
  <2> QED BY <1>5, <1>7, <2>1, <2>2 DEF Way
<1>9. ASSUME NEW i \in 1..Len(v) PROVE v[i].done <= Size(nodes, v[i].node)
  <2>1. CASE i = n
    <3>1. Size(nodes, w[n].node) \in Nat /\ w[n].done \in Nat
      BY <1>1, ItemsAre DEF Size
    <3> QED BY <1>3, <1>5, <1>7, <2>1, <3>1
  <2>2. CASE i # n
    <3>1. i \in 1..n /\ i \in 1..Len(w)
      BY <1>7
    <3> QED BY <1>7, <2>2, <3>1 DEF Way
  <2> QED BY <2>1, <2>2
<1>10. ASSUME NEW i \in 1..Len(v), i # Len(v)
       PROVE  /\ v[i].done < Size(nodes, v[i].node)
              /\ v[i + 1].node = ChildOf(nodes, v[i].node, v[i].done + 1)
              /\ v[i + 1].spent = SpentOn(nodes, levels, v[i])
  <2>1. i \in 1..Len(w) /\ i # Len(w) /\ v[i] = w[i] /\ i + 1 \in 1..n
    BY <1>7, <1>10
  <2>2. v[i + 1].node = w[i + 1].node /\ v[i + 1].spent = w[i + 1].spent
    <3>1. CASE i + 1 = n
      BY <1>5, <1>7, <3>1
    <3>2. CASE i + 1 # n
      BY <1>7, <2>1, <3>2
    <3> QED BY <3>1, <3>2
  <2> QED BY <2>1, <2>2 DEF Way
<1>11. Way(nodes, levels, v)
  BY <1>7, <1>8, <1>9, <1>10 DEF Way
<1> QED BY <1>5, <1>7, <1>11

-----------------------------------------------------------------------------
(* YAML: the pending calls *)

\* The scalars of a graph are read as what they mean.
Reads(nodes) == \A id \in DOMAIN nodes : nodes[id].kind = "scalar" => Resolve(nodes[id]) = ScalarMeaning(nodes[id])

ItemsDone(nodes, levels, stop, i) ==
    /\ i <= levels
    /\ \A k \in 1..stop.done : /\ ChildOf(nodes, stop.node, k) \in Level(nodes, levels - i)
                               /\ nodes[stop.node].kind = "mapping" => KeyNode(nodes, stop.node, k).kind = "scalar"
ValueDone(nodes, levels, call, stop) ==
    Reads(nodes) => call.value = Composed(nodes, Expansions(nodes, levels), stop.node, stop.done)
NameWaits(nodes, call, stop) ==
    nodes[stop.node].kind = "mapping" =>
        /\ KeyNode(nodes, stop.node, stop.done + 1).kind = "scalar"
        /\ call.key = NameOf(nodes, stop.node, stop.done + 1)
\* The calls are those for the nodes on a way; each has the value of the items that are done,
\* and all they cost was spent.
CallsStand(nodes, levels, w, p, spent) ==
    /\ Way(nodes, levels, w) /\ Len(p) = Len(w)
    /\ \A i \in 1..Len(w) : /\ p[i].node = w[i].node
                            /\ p[i].done = w[i].done + (IF i = Len(w) THEN 0 ELSE 1)
                            /\ ItemsDone(nodes, levels, w[i], i) /\ ValueDone(nodes, levels, p[i], w[i])
                            /\ i # Len(w) => NameWaits(nodes, p[i + 1], w[i])
    /\ spent = Consume(w[Len(w)].spent, Part(nodes, levels, w[Len(w)].node, w[Len(w)].done))

\* What the items that are done cost.
LEMMA DoneCosts ==
    ASSUME NEW nodes, IsGraph(nodes), NEW levels \in Nat, NEW stop \in Stops(nodes), NEW i \in Nat,
           stop.done <= Size(nodes, stop.node), ItemsDone(nodes, levels, stop, i)
    PROVE  /\ \A k \in 1..stop.done : Charge(nodes, levels, ChildOf(nodes, stop.node, k)) \in Uses
           /\ \A k \in 0..stop.done : Part(nodes, levels, stop.node, k) \in Uses
           /\ Consume(stop.spent, Part(nodes, levels, stop.node, stop.done)) \in Uses
<1>1. stop.node \in DOMAIN nodes /\ stop.done \in Nat /\ stop.spent \in Uses
  BY DEF Stops
<1>2. levels - i \in 0..levels
  BY DEF ItemsDone
<1>3. \A k \in 1..stop.done : Charge(nodes, levels, ChildOf(nodes, stop.node, k)) \in Uses
  BY <1>2, ChargeIsUse DEF ItemsDone
<1>4. \A k \in 0..stop.done : Part(nodes, levels, stop.node, k) \in Uses
  <2>1. stop.done \in 0..Len(nodes[stop.node].items)
    BY <1>1, ItemsAre DEF Size
  <2>2. \A k \in 1..stop.done : Charge(nodes, levels, nodes[stop.node].items[k].node) \in Uses
    BY <1>3 DEF ChildOf
  <2> QED BY <1>1, <2>1, <2>2, PartsAreUses
<1>5. Part(nodes, levels, stop.node, stop.done) \in Uses
  BY <1>1, <1>4
<1> QED BY <1>1, <1>3, <1>4, <1>5, SumIs

\* A call that begins.
CallOf(nodes, id, key) ==
    [node |-> id, key |-> key, done |-> 0, value |->
        CASE nodes[id].kind = "scalar" -> Resolve(nodes[id])
          [] nodes[id].kind = "sequence" -> [type |-> "array", items |-> <<>>]
          [] nodes[id].kind = "mapping" -> [type |-> "map", map |-> [k \in {} |-> Null]]]

LEMMA CallBegins ==
    ASSUME NEW nodes, IsGraph(nodes), NEW id \in DOMAIN nodes, NEW key, NEW levels, NEW stop, stop.node = id, stop.done = 0
    PROVE  /\ CallOf(nodes, id, key).node = id /\ CallOf(nodes, id, key).key = key /\ CallOf(nodes, id, key).done = 0
           /\ ValueDone(nodes, levels, CallOf(nodes, id, key), stop)
<1>1. PICK f : f = Expansions(nodes, levels)
  OBVIOUS
<1>2. PICK v : v = CASE nodes[id].kind = "scalar" -> Resolve(nodes[id])
                     [] nodes[id].kind = "sequence" -> [type |-> "array", items |-> <<>>]
                     [] nodes[id].kind = "mapping" -> [type |-> "map", map |-> [k \in {} |-> Null]]
  OBVIOUS
<1>3. CallOf(nodes, id, key) = [node |-> id, key |-> key, done |-> 0, value |-> v]
  BY <1>2 DEF CallOf
<1>4. ASSUME Reads(nodes) PROVE v = Composed(nodes, f, id, 0)
  <2>1. CASE nodes[id].kind = "scalar"
    <3>1. v = Resolve(nodes[id])
      BY <1>2, <2>1
    <3> QED BY <1>4, <2>1, <3>1, ComposedIs DEF Reads
  <2>2. CASE nodes[id].kind = "sequence"
    <3>1. v = [type |-> "array", items |-> <<>>]
      BY <1>2, <2>2
    <3>2. ListedItems(nodes, f, id, 0) = <<>>
      <4>1. PICK s : s = ListedItems(nodes, f, id, 0)
        OBVIOUS
      <4>2. s = [i \in 1..0 |-> MeaningOf(nodes, f, id, i)]
        BY <4>1 DEF ListedItems
      <4>3. s \in [1..0 -> {}]
        BY <4>2
      <4>4. s \in Seq({})
        BY <4>3, SeqDef
      <4>5. s = <<>>
        BY <4>3, <4>4, LenProperties, EmptySeq
      <4> QED BY <4>1, <4>5
    <3> QED BY <2>2, <3>1, <3>2, ComposedIs
  <2>3. CASE nodes[id].kind = "mapping"
    <3>1. v = [type |-> "map", map |-> [k \in {} |-> Null]]
      BY <1>2, <2>3
    <3>2. NamedItems(nodes, f, id, 0) = [k \in {} |-> Null]
      <4>1. {NameOf(nodes, id, i) : i \in 1..0} = {}
        OBVIOUS
      <4> QED BY <4>1 DEF NamedItems
    <3> QED BY <2>3, <3>1, <3>2, ComposedIs
  <2> QED BY <2>1, <2>2, <2>3, ItemsAre
<1> QED BY <1>1, <1>3, <1>4 DEF ValueDone

LEMMA CallsBegin ==
    ASSUME NEW nodes, IsGraph(nodes), NEW levels \in Nat, levels # 0, NEW p, Len(p) = 1, NEW key, p[1] = CallOf(nodes, 1, key)
    PROVE  \E w : CallsStand(nodes, levels, w, p, OwnCost(nodes, 1))
<1>1. PICK w : Way(nodes, levels, w) /\ Len(w) = 1 /\ w[1].node = 1 /\ w[1].done = 0 /\ w[1].spent = Unused
  BY WayBegins
<1>2. 1 \in DOMAIN nodes
  BY DEF IsGraph
<1>3. p[1].node = 1 /\ p[1].done = 0 /\ ValueDone(nodes, levels, p[1], w[1])
  BY <1>1, <1>2, CallBegins
<1>4. ItemsDone(nodes, levels, w[1], 1)
  BY <1>1 DEF ItemsDone
<1>5. OwnCost(nodes, 1) = Consume(w[1].spent, Part(nodes, levels, w[1].node, w[1].done))
  BY <1>1, <1>2, PartIs, OwnCostIs, UnusedIsNothing
<1>6. \A i \in 1..Len(w) : i = 1
  BY <1>1
<1>7. p[1].done = w[1].done + 0
  BY <1>1, <1>3
<1>8. \A i \in 1..Len(w) : /\ p[i].node = w[i].node
                           /\ p[i].done = w[i].done + (IF i = Len(w) THEN 0 ELSE 1)
                           /\ ItemsDone(nodes, levels, w[i], i) /\ ValueDone(nodes, levels, p[i], w[i])
                           /\ i # Len(w) => NameWaits(nodes, p[i + 1], w[i])
  BY <1>1, <1>3, <1>4, <1>6, <1>7
<1>9. CallsStand(nodes, levels, w, p, OwnCost(nodes, 1))
  <2>1. Len(p) = Len(w)
    BY <1>1
  <2>2. OwnCost(nodes, 1) = Consume(w[Len(w)].spent, Part(nodes, levels, w[Len(w)].node, w[Len(w)].done))
    BY <1>1, <1>5
  <2>3. Way(nodes, levels, w)
    BY <1>1
  <2> QED BY <1>8, <2>1, <2>2, <2>3 DEF CallsStand
<1> QED BY <1>9

\* The path q is p when its innermost call, for a node with d items done, has gone on to the next.
MovesOn(nodes, p, q, n, id, d, key) ==
    /\ nodes[id].kind = "mapping" => KeyNode(nodes, id, d + 1).kind = "scalar"
    /\ Len(q) = n + 1 /\ \A i \in 1..n : i # n => q[i] = p[i]
    /\ q[n].node = p[n].node /\ q[n].key = p[n].key /\ q[n].value = p[n].value /\ q[n].done = p[n].done + 1
    /\ nodes[id].kind = "mapping" => key = NameOf(nodes, id, d + 1)
    /\ q[n + 1] = CallOf(nodes, ChildOf(nodes, id, d + 1), key)

\* The next item is entered.
LEMMA CallsGoOn ==
    ASSUME NEW nodes, IsGraph(nodes), NEW levels \in Nat, NEW w, NEW p, NEW spent, CallsStand(nodes, levels, w, p, spent),
           NEW n, n = Len(w), n < levels, NEW id, id = w[n].node, NEW d, d = w[n].done, d < Size(nodes, id),
           NEW q, NEW key, MovesOn(nodes, p, q, n, id, d, key)
    PROVE  \E v : CallsStand(nodes, levels, v, q,
                     Consume(Consume(spent, NameCost(nodes, id, d + 1)), OwnCost(nodes, ChildOf(nodes, id, d + 1))))
<1> SUFFICES ASSUME nodes[id].kind = "mapping" => KeyNode(nodes, id, d + 1).kind = "scalar",
                    Len(q) = n + 1, \A i \in 1..n : i # n => q[i] = p[i],
                    q[n].node = p[n].node, q[n].key = p[n].key, q[n].value = p[n].value, q[n].done = p[n].done + 1,
                    nodes[id].kind = "mapping" => key = NameOf(nodes, id, d + 1),
                    q[n + 1] = CallOf(nodes, ChildOf(nodes, id, d + 1), key)
             PROVE  \E v : CallsStand(nodes, levels, v, q,
                        Consume(Consume(spent, NameCost(nodes, id, d + 1)), OwnCost(nodes, ChildOf(nodes, id, d + 1))))
  BY DEF MovesOn
<1>1. /\ n \in Nat /\ n # 0 /\ n \in 1..n
      /\ \A i \in 1..n : w[i] \in Stops(nodes) /\ w[i].node \in DOMAIN nodes /\ w[i].done \in Nat /\ w[i].spent \in Uses
      /\ Way(nodes, levels, w)
  BY WayIs DEF CallsStand
<1>2. PICK c : c = ChildOf(nodes, id, d + 1)
  OBVIOUS
<1>3. d + 1 \in 1..Len(nodes[id].items) /\ c \in DOMAIN nodes /\ id \in DOMAIN nodes
  <2>1. id \in DOMAIN nodes /\ d \in Nat
    BY <1>1
  <2>2. d + 1 \in 1..Len(nodes[id].items)
    BY <2>1, ItemsAre DEF Size
  <2> QED BY <1>2, <2>1, <2>2, ItemsAre DEF ChildOf
<1>4. PICK s, a, b : s = w[n].spent /\ a = Part(nodes, levels, id, d) /\ b = NameCost(nodes, id, d + 1)
  OBVIOUS
<1>5. s \in Uses /\ a \in Uses /\ b \in Uses /\ spent = Consume(s, a)
  <2>1. w[n].done <= Size(nodes, w[n].node) /\ ItemsDone(nodes, levels, w[n], n)
    BY <1>1 DEF CallsStand, Way
  <2>2. Part(nodes, levels, w[n].node, w[n].done) \in Uses
    <3>1. w[n].done \in 0..w[n].done
      BY <1>1
    <3> QED BY <1>1, <2>1, <3>1, DoneCosts
  <2>3. spent = Consume(w[n].spent, Part(nodes, levels, w[n].node, w[n].done))
    BY DEF CallsStand
  <2> QED BY <1>1, <1>3, <1>4, <2>2, <2>3, OwnCostIs
<1>6. SpentOn(nodes, levels, w[n]) = Consume(spent, b) /\ Consume(spent, b) \in Uses
  <2>1. SpentOn(nodes, levels, w[n]) = Consume(s, Consume(a, b))
    BY <1>4 DEF SpentOn
  <2> QED BY <1>5, <2>1, SumsAssociate, SumIs
<1>7. PICK v : /\ Way(nodes, levels, v) /\ Len(v) = n + 1 /\ \A i \in 1..n : v[i] = w[i]
               /\ v[n + 1].node = ChildOf(nodes, w[n].node, w[n].done + 1) /\ v[n + 1].done = 0
               /\ v[n + 1].spent = SpentOn(nodes, levels, w[n])
  <2>1. /\ w[n].done < Size(nodes, w[n].node) /\ SpentOn(nodes, levels, w[n]) \in Uses
        /\ Way(nodes, levels, w) /\ n = Len(w)
    BY <1>1, <1>6
  <2> QED BY <2>1, WayGoesOn
<1>8. v[n + 1].node = c /\ v[n + 1].done = 0 /\ v[n + 1].spent = Consume(spent, b)
  BY <1>2, <1>6, <1>7
<1>9. q[n + 1].node = c /\ q[n + 1].key = key /\ q[n + 1].done = 0 /\ ValueDone(nodes, levels, q[n + 1], v[n + 1])
  BY <1>2, <1>3, <1>8, CallBegins, SMTT(30)
<1>10. ASSUME NEW i \in 1..Len(v)
       PROVE  /\ q[i].node = v[i].node
              /\ q[i].done = v[i].done + (IF i = Len(v) THEN 0 ELSE 1)
              /\ ItemsDone(nodes, levels, v[i], i) /\ ValueDone(nodes, levels, q[i], v[i])
              /\ i # Len(v) => NameWaits(nodes, q[i + 1], v[i])
  <2>1. CASE i = n + 1
    <3>1. ItemsDone(nodes, levels, v[i], i)
      <4>1. i <= levels /\ v[i].done = 0
        BY <1>1, <1>8, <2>1
      <4> QED BY <4>1 DEF ItemsDone
    <3> QED BY <1>7, <1>8, <1>9, <2>1, <3>1
  <2>2. CASE i = n
    <3>1. v[i] = w[i] /\ i # Len(v) /\ i \in 1..Len(w)
      BY <1>1, <1>7, <2>2
    <3>2. p[i].node = w[i].node /\ p[i].done = w[i].done + 0 /\ ItemsDone(nodes, levels, w[i], i) /\ ValueDone(nodes, levels, p[i], w[i])
      BY <2>2, <3>1 DEF CallsStand
    <3>3. w[i].done \in Nat
      BY <1>1, <2>2
    <3>4. q[i].done = v[i].done + 1
      BY <2>2, <3>1, <3>2, <3>3
    <3>5. NameWaits(nodes, q[i + 1], v[i])
      BY <1>9, <2>2, <3>1 DEF NameWaits
    <3>6. ValueDone(nodes, levels, q[i], v[i])
      BY <2>2, <3>1, <3>2 DEF ValueDone
    <3> QED BY <2>2, <3>1, <3>2, <3>4, <3>5, <3>6
  <2>3. CASE i # n /\ i # n + 1
    <3>1. i \in 1..n /\ i # Len(w) /\ i \in 1..Len(w) /\ i # Len(v)
      BY <1>1, <1>7, <2>3
    <3>2. v[i] = w[i] /\ q[i] = p[i]
      BY <1>7, <2>3, <3>1
    <3>3. p[i].node = w[i].node /\ p[i].done = w[i].done + 1 /\ ItemsDone(nodes, levels, w[i], i) /\ ValueDone(nodes, levels, p[i], w[i])
          /\ NameWaits(nodes, p[i + 1], w[i])
      BY <3>1 DEF CallsStand
    <3>4. q[i + 1].key = p[i + 1].key
      <4>1. i + 1 = n \/ (i + 1 \in 1..n /\ i + 1 # n)
        BY <1>1, <2>3, <3>1
      <4> QED BY <4>1
    <3>5. NameWaits(nodes, q[i + 1], v[i])
      BY <3>2, <3>3, <3>4 DEF NameWaits
    <3> QED BY <3>1, <3>2, <3>3, <3>5
  <2> QED BY <2>1, <2>2, <2>3
<1>11. Consume(Consume(spent, b), OwnCost(nodes, c)) = Consume(v[n + 1].spent, Part(nodes, levels, v[n + 1].node, v[n + 1].done))
  BY <1>3, <1>8, PartIs
<1>12. CallsStand(nodes, levels, v, q, Consume(Consume(spent, b), OwnCost(nodes, c)))
  BY <1>7, <1>10, <1>11 DEF CallsStand
<1> QED BY <1>2, <1>4, <1>12

\* A call whose items are all done returns what its node means.
LEMMA CallIsDone ==
    ASSUME NEW nodes, IsGraph(nodes), NEW levels \in Nat, NEW stop \in Stops(nodes), NEW i \in Nat, i # 0,
           stop.done = Size(nodes, stop.node), ItemsDone(nodes, levels, stop, i)
    PROVE  /\ stop.node \in Level(nodes, levels - (i - 1)) /\ stop.node \in Level(nodes, levels)
           /\ Part(nodes, levels, stop.node, stop.done) = Charge(nodes, levels, stop.node)
           /\ Charge(nodes, levels, stop.node) \in Uses
           /\ Composed(nodes, Expansions(nodes, levels), stop.node, stop.done) = Expansions(nodes, levels)[stop.node]
<1>1. PICK id : id = stop.node
  OBVIOUS
<1>2. id \in DOMAIN nodes /\ DOMAIN nodes[id].items = 1..Len(nodes[id].items) /\ stop.done = Len(nodes[id].items)
  BY <1>1, ItemsAre DEF Stops, Size
<1>3. PICK m : m = levels - (i - 1)
  OBVIOUS
<1>4. m \in Nat \ {0} /\ m - 1 = levels - i /\ m <= levels
  BY <1>3 DEF ItemsDone
<1>5. \A k \in DOMAIN nodes[id].items :
         /\ nodes[id].items[k].node \in Level(nodes, m - 1)
         /\ nodes[id].kind = "mapping" => KeyNode(nodes, id, k).kind = "scalar"
  BY <1>1, <1>2, <1>4 DEF ItemsDone, ChildOf
<1>6. id \in Level(nodes, m)
  BY <1>2, <1>4, <1>5, LevelsAre, SMTT(30)
<1>7. id \in Level(nodes, levels)
  <2>1. Level(nodes, m) \subseteq Level(nodes, levels)
    BY <1>4, LevelsGrow
  <2> QED BY <1>6, <2>1
<1>8. Charge(nodes, levels, id) = Part(nodes, levels, id, Len(nodes[id].items)) /\ Charge(nodes, levels, id) \in Uses
  BY <1>7, PartsFit
<1>9. Composed(nodes, Expansions(nodes, levels), id, Len(nodes[id].items)) = Expansions(nodes, levels)[id]
  BY <1>7, ExpansionsAre
<1> QED BY <1>1, <1>2, <1>3, <1>6, <1>7, <1>8, <1>9

\* A caller that is given a value.
PlacedOn(nodes, call, key, value) ==
    IF nodes[call.node].kind = "sequence" THEN [call EXCEPT !.value.items = Append(@, value)]
    ELSE [call EXCEPT !.value.map = [n \in DOMAIN @ \cup {key} |-> IF n = key THEN value ELSE @[n]]]

PlacedValue(kind, v, key, value) ==
    IF kind = "sequence" THEN [v EXCEPT !.items = Append(@, value)]
    ELSE [v EXCEPT !.map = [n \in DOMAIN @ \cup {key} |-> IF n = key THEN value ELSE @[n]]]

MadeCall(a, b, c, v) == [node |-> a, key |-> b, done |-> c, value |-> v]

LEMMA PlacedOnIs ==
    ASSUME NEW nodes, NEW call, IsCall(call), NEW key, NEW value
    PROVE  PlacedOn(nodes, call, key, value) = MadeCall(call.node, call.key, call.done, PlacedValue(nodes[call.node].kind, call.value, key, value))
<1>1. PICK a, b, c, v : call = [node |-> a, key |-> b, done |-> c, value |-> v]
  BY DEF IsCall
<1>2. call.node = a /\ call.key = b /\ call.done = c /\ call.value = v
  BY <1>1
<1>3. PICK u : u = PlacedValue(nodes[a].kind, v, key, value)
  OBVIOUS
<1>4. PlacedOn(nodes, call, key, value) = [call EXCEPT !.value = u]
  <2>1. CASE nodes[a].kind = "sequence"
    BY <1>2, <1>3, <2>1 DEF PlacedOn, PlacedValue
  <2>2. CASE nodes[a].kind # "sequence"
    BY <1>2, <1>3, <2>2 DEF PlacedOn, PlacedValue
  <2> QED BY <2>1, <2>2
<1>5. PICK r : r = [call EXCEPT !.value = u]
  OBVIOUS
<1>6. r = [node |-> a, key |-> b, done |-> c, value |-> u]
  BY <1>1, <1>5
<1> QED BY <1>2, <1>3, <1>4, <1>5, <1>6 DEF MadeCall

LEMMA PlacedIs ==
    ASSUME NEW nodes, NEW call, IsCall(call), NEW key, NEW value, NEW r, r = PlacedOn(nodes, call, key, value)
    PROVE  r.node = call.node /\ r.key = call.key /\ r.done = call.done
<1>1. PICK a, b, c, v : /\ a = call.node /\ b = call.key /\ c = call.done
                        /\ v = PlacedValue(nodes[call.node].kind, call.value, key, value)
  OBVIOUS
<1>2. r = MadeCall(a, b, c, v)
  BY <1>1, PlacedOnIs
<1> QED BY <1>1, <1>2 DEF MadeCall

LEMMA ValueIs ==
    ASSUME NEW nodes, NEW call, IsCall(call), NEW key, NEW value
    PROVE  PlacedOn(nodes, call, key, value).value = PlacedValue(nodes[call.node].kind, call.value, key, value)
<1>1. PICK a, b, c, v : /\ a = call.node /\ b = call.key /\ c = call.done
                        /\ v = PlacedValue(nodes[call.node].kind, call.value, key, value)
  OBVIOUS
<1>2. PlacedOn(nodes, call, key, value) = MadeCall(a, b, c, v)
  BY <1>1, PlacedOnIs
<1> QED BY <1>1, <1>2 DEF MadeCall

LEMMA ItemPlaced ==
    ASSUME NEW s, NEW key, NEW value
    PROVE  PlacedValue("sequence", [type |-> "array", items |-> s], key, value) = [type |-> "array", items |-> Append(s, value)]
BY DEF PlacedValue

LEMMA NamePlaced ==
    ASSUME NEW s, NEW key, NEW value
    PROVE  PlacedValue("mapping", [type |-> "map", map |-> s], key, value) = [type |-> "map", map |-> PutNamed(s, key, value)]
BY DEF PlacedValue, PutNamed

KeyIs(nodes, stop, key) == nodes[stop.node].kind = "mapping" => key = NameOf(nodes, stop.node, stop.done + 1)

LEMMA ValuePlaced ==
    ASSUME NEW nodes, IsGraph(nodes), NEW levels \in Nat, NEW stop \in Stops(nodes), NEW call, IsCall(call),
           call.node = stop.node, stop.done < Size(nodes, stop.node), ValueDone(nodes, levels, call, stop),
           NEW key, KeyIs(nodes, stop, key),
           NEW value, Reads(nodes) => value = Expansions(nodes, levels)[ChildOf(nodes, stop.node, stop.done + 1)],
           NEW next0, next0.node = stop.node, next0.done = stop.done + 1
    PROVE  ValueDone(nodes, levels, PlacedOn(nodes, call, key, value), next0)
<1>7. PlacedOn(nodes, call, key, value).value = PlacedValue(nodes[call.node].kind, call.value, key, value)
  BY ValueIs
<1> SUFFICES ASSUME Reads(nodes)
             PROVE  PlacedOn(nodes, call, key, value).value =
                        Composed(nodes, Expansions(nodes, levels), stop.node, stop.done + 1)
  BY DEF ValueDone
<1>1. PICK f, id, d, u : /\ f = Expansions(nodes, levels) /\ id = stop.node /\ d = stop.done
                         /\ u = PlacedOn(nodes, call, key, value).value
  OBVIOUS
<1>2. id \in DOMAIN nodes /\ d \in Nat
  BY <1>1 DEF Stops
<1>3. call.value = Composed(nodes, f, id, d) /\ value = MeaningOf(nodes, f, id, d + 1)
  BY <1>1 DEF ValueDone, MeaningOf, ChildOf
<1>4. CASE nodes[id].kind = "sequence"
  <2>1. PICK s : s = ListedItems(nodes, f, id, d)
    OBVIOUS
  <2>2. call.value = [type |-> "array", items |-> s]
    BY <1>3, <1>4, <2>1, ComposedIs
  <2>3. u = [type |-> "array", items |-> Append(s, value)]
    <3>1. nodes[call.node].kind = "sequence"
      BY <1>1, <1>4
    <3> QED BY <1>1, <1>7, <2>2, <3>1, ItemPlaced
  <2>4. ListedItems(nodes, f, id, d + 1) = Append(s, value)
    BY <1>2, <1>3, <2>1, ListedItemsGrow
  <2>5. Composed(nodes, f, id, d + 1) = [type |-> "array", items |-> ListedItems(nodes, f, id, d + 1)]
    BY <1>4, ComposedIs
  <2> QED BY <1>1, <2>3, <2>4, <2>5
<1>5. CASE nodes[id].kind = "mapping"
  <2>1. PICK s : s = NamedItems(nodes, f, id, d)
    OBVIOUS
  <2>2. call.value = [type |-> "map", map |-> s]
    BY <1>3, <1>5, <2>1, ComposedIs
  <2>3. u = [type |-> "map", map |-> PutNamed(s, key, value)]
    <3>1. nodes[call.node].kind = "mapping"
      BY <1>1, <1>5
    <3> QED BY <1>1, <1>7, <2>2, <3>1, NamePlaced
  <2>4. NamedItems(nodes, f, id, d + 1) = PutNamed(s, key, value)
    BY <1>1, <1>2, <1>3, <1>5, <2>1, NamedItemsGrow DEF KeyIs
  <2>5. Composed(nodes, f, id, d + 1) = [type |-> "map", map |-> NamedItems(nodes, f, id, d + 1)]
    BY <1>5, ComposedIs
  <2> QED BY <1>1, <2>3, <2>4, <2>5
<1>6. nodes[id].kind # "scalar"
  <2>1. d < Len(nodes[id].items)
    BY <1>1 DEF Size
  <2> QED BY <1>2, <2>1, ItemsAre
<1> QED BY <1>2, <1>4, <1>5, <1>6, ItemsAre

\* The path q is p when its innermost call, the one after the n-th, has ended.
MovesBack(nodes, p, q, n) ==
    /\ Len(q) = n /\ \A i \in 1..n : i # n => q[i] = p[i]
    /\ q[n] = PlacedOn(nodes, p[n], p[n + 1].key, p[n + 1].value)

LEMMA CallsGoBack ==
    ASSUME NEW nodes, IsGraph(nodes), NEW levels \in Nat, NEW w, NEW p, NEW spent, CallsStand(nodes, levels, w, p, spent),
           NEW n \in Nat, n # 0, Len(w) = n + 1, w[n + 1].done = Size(nodes, w[n + 1].node), IsCall(p[n]),
           NEW q, MovesBack(nodes, p, q, n)
    PROVE  \E v : CallsStand(nodes, levels, v, q, spent)
<1> SUFFICES ASSUME Len(q) = n, \A i \in 1..n : i # n => q[i] = p[i],
                    q[n] = PlacedOn(nodes, p[n], p[n + 1].key, p[n + 1].value)
             PROVE  \E v : CallsStand(nodes, levels, v, q, spent)
  BY DEF MovesBack
<1>1. /\ \A i \in 1..(n + 1) : w[i] \in Stops(nodes) /\ w[i].node \in DOMAIN nodes /\ w[i].done \in Nat /\ w[i].spent \in Uses
      /\ Way(nodes, levels, w) /\ n \in 1..Len(w) /\ n + 1 \in 1..Len(w) /\ n # Len(w)
  <2>1. Way(nodes, levels, w)
    BY DEF CallsStand
  <2> QED BY <2>1, WayIs
<1>2. PICK id, d, c : id = w[n].node /\ d = w[n].done /\ c = w[n + 1].node
  OBVIOUS
<1>3. d < Size(nodes, id) /\ c = ChildOf(nodes, id, d + 1) /\ w[n + 1].spent = SpentOn(nodes, levels, w[n])
  BY <1>1, <1>2 DEF Way
<1>4. /\ p[n].node = id /\ p[n].done = d + 1 /\ ItemsDone(nodes, levels, w[n], n) /\ ValueDone(nodes, levels, p[n], w[n])
      /\ NameWaits(nodes, p[n + 1], w[n])
  BY <1>1, <1>2 DEF CallsStand
<1>5. /\ ItemsDone(nodes, levels, w[n + 1], n + 1) /\ ValueDone(nodes, levels, p[n + 1], w[n + 1])
      /\ spent = Consume(w[n + 1].spent, Part(nodes, levels, c, w[n + 1].done))
  BY <1>1, <1>2 DEF CallsStand
<1>6. /\ c \in Level(nodes, levels - n) /\ Part(nodes, levels, c, w[n + 1].done) = Charge(nodes, levels, c)
      /\ Charge(nodes, levels, c) \in Uses
      /\ Composed(nodes, Expansions(nodes, levels), c, w[n + 1].done) = Expansions(nodes, levels)[c]
  <2>1. (n + 1) - 1 = n /\ n + 1 \in Nat /\ n + 1 # 0
    OBVIOUS
  <2> QED BY <1>1, <1>2, <1>5, <2>1, CallIsDone
<1>7. Reads(nodes) => p[n + 1].value = Expansions(nodes, levels)[c]
  BY <1>2, <1>5, <1>6 DEF ValueDone
<1>8. PICK v : /\ Way(nodes, levels, v) /\ Len(v) = n /\ \A i \in 1..n : i # n => v[i] = w[i]
               /\ v[n].node = w[n].node /\ v[n].done = w[n].done + 1 /\ v[n].spent = w[n].spent
  <2>1. Way(nodes, levels, w) /\ n \in Nat /\ n # 0 /\ Len(w) = n + 1
    BY <1>1
  <2>2. \E v : /\ Way(nodes, levels, v) /\ Len(v) = n /\ \A i \in 1..n : i # n => v[i] = w[i]
               /\ v[n].node = w[n].node /\ v[n].done = w[n].done + 1 /\ v[n].spent = w[n].spent
    BY <2>1, WayGoesBack
  <2> QED BY <2>2
<1>9. ValueDone(nodes, levels, q[n], v[n])
  <2>1. KeyIs(nodes, w[n], p[n + 1].key)
    BY <1>4 DEF NameWaits, KeyIs
  <2>2. /\ w[n] \in Stops(nodes) /\ p[n].node = w[n].node /\ w[n].done < Size(nodes, w[n].node)
        /\ Reads(nodes) => p[n + 1].value = Expansions(nodes, levels)[ChildOf(nodes, w[n].node, w[n].done + 1)]
    BY <1>1, <1>2, <1>3, <1>4, <1>7
  <2>3. PICK key, value : key = p[n + 1].key /\ value = p[n + 1].value
    OBVIOUS
  <2>4. ValueDone(nodes, levels, PlacedOn(nodes, p[n], key, value), v[n])
    BY <1>4, <1>8, <2>1, <2>2, <2>3, ValuePlaced
  <2> QED BY <2>3, <2>4
<1>10. ItemsDone(nodes, levels, v[n], n)
  <2>1. n <= levels /\ d \in Nat
    BY <1>1, <1>2, <1>4 DEF ItemsDone
  <2>2. ASSUME NEW k \in 1..(d + 1)
        PROVE  /\ ChildOf(nodes, id, k) \in Level(nodes, levels - n)
               /\ nodes[id].kind = "mapping" => KeyNode(nodes, id, k).kind = "scalar"
    <3>1. CASE k = d + 1
      BY <1>2, <1>3, <1>4, <1>6, <3>1 DEF NameWaits
    <3>2. CASE k # d + 1
      <4>1. k \in 1..d
        BY <2>1, <3>2
      <4> QED BY <1>2, <1>4, <4>1 DEF ItemsDone
    <3> QED BY <3>1, <3>2
  <2> QED BY <1>2, <1>8, <2>1, <2>2 DEF ItemsDone
<1>14. q[n].node = p[n].node /\ q[n].done = p[n].done /\ q[n].key = p[n].key
  <2>1. PICK call, key, value, r : call = p[n] /\ key = p[n + 1].key /\ value = p[n + 1].value /\ r = q[n]
    OBVIOUS
  <2>2. IsCall(call) /\ r = PlacedOn(nodes, call, key, value)
    BY <2>1
  <2>3. r.node = call.node /\ r.key = call.key /\ r.done = call.done
    BY <2>2, PlacedIs
  <2> QED BY <2>1, <2>3
<1>11. ASSUME NEW i \in 1..Len(v)
       PROVE  /\ q[i].node = v[i].node
              /\ q[i].done = v[i].done + (IF i = Len(v) THEN 0 ELSE 1)
              /\ ItemsDone(nodes, levels, v[i], i) /\ ValueDone(nodes, levels, q[i], v[i])
              /\ i # Len(v) => NameWaits(nodes, q[i + 1], v[i])
  <2>1. CASE i = n
    <3>1. q[n].node = p[n].node /\ q[n].done = p[n].done
      BY <1>14
    <3>2. d \in Nat
      BY <1>1, <1>2
    <3> QED BY <1>2, <1>4, <1>8, <1>9, <1>10, <2>1, <3>1, <3>2
  <2>2. CASE i # n
    <3>1. i \in 1..n /\ i \in 1..Len(w) /\ i # Len(w) /\ i # Len(v) /\ v[i] = w[i] /\ q[i] = p[i] /\ i + 1 \in 1..n
      BY <1>8, <2>2
    <3>2. p[i].node = w[i].node /\ p[i].done = w[i].done + 1 /\ ItemsDone(nodes, levels, w[i], i)
          /\ ValueDone(nodes, levels, p[i], w[i]) /\ NameWaits(nodes, p[i + 1], w[i])
      BY <3>1 DEF CallsStand
    <3>3. q[i + 1].key = p[i + 1].key
      <4>1. CASE i + 1 = n
        BY <1>14, <4>1
      <4>2. CASE i + 1 # n
        BY <3>1, <4>2
      <4> QED BY <4>1, <4>2
    <3>4. NameWaits(nodes, q[i + 1], v[i])
      BY <3>1, <3>2, <3>3 DEF NameWaits
    <3> QED BY <3>1, <3>2, <3>4
  <2> QED BY <2>1, <2>2
<1>12. spent = Consume(v[n].spent, Part(nodes, levels, v[n].node, v[n].done))
  <2>1. PICK s, a, b, h : /\ s = w[n].spent /\ a = Part(nodes, levels, id, d) /\ b = NameCost(nodes, id, d + 1)
                          /\ h = Charge(nodes, levels, c)
    OBVIOUS
  <2>2. d \in Nat /\ id \in DOMAIN nodes /\ d + 1 \in 1..Len(nodes[id].items) /\ d + 1 <= Len(nodes[id].items)
    BY <1>1, <1>2, <1>3, ItemsAre DEF Size
  <2>3. s \in Uses /\ b \in Uses /\ h \in Uses /\ a \in Uses
    <3>1. w[n].done <= Size(nodes, w[n].node) /\ w[n].done \in 0..w[n].done
      BY <1>1 DEF Way
    <3>2. Part(nodes, levels, w[n].node, w[n].done) \in Uses
      BY <1>1, <1>4, <3>1, DoneCosts
    <3> QED BY <1>1, <1>2, <1>6, <2>1, <2>2, <3>2, OwnCostIs
  <2>4. Part(nodes, levels, id, d + 1) = Consume(Consume(a, b), h)
    BY <1>3, <2>1, <2>2, <2>3, PartGrows DEF ChildOf
  <2>5. Consume(a, b) \in Uses
    BY <2>3, SumIs
  <2>6. Consume(Consume(s, Consume(a, b)), h) = Consume(s, Consume(Consume(a, b), h))
    BY <2>3, <2>5, SumsAssociate
  <2>7. w[n + 1].spent = Consume(s, Consume(a, b))
    BY <1>2, <1>3, <2>1 DEF SpentOn
  <2> QED BY <1>2, <1>5, <1>6, <1>8, <2>1, <2>4, <2>6, <2>7
<1>13. CallsStand(nodes, levels, v, q, spent)
  BY <1>8, <1>11, <1>12 DEF CallsStand
<1> QED BY <1>13

\* If the root expands, the next item of the innermost call may begin.
LEMMA NextFits ==
    ASSUME NEW nodes, IsGraph(nodes), NEW levels \in Nat, 1 \in Level(nodes, levels),
           NEW w, NEW p, NEW spent, CallsStand(nodes, levels, w, p, spent), NEW n, n = Len(w),
           w[n].done < Size(nodes, w[n].node), NEW c, c = ChildOf(nodes, w[n].node, w[n].done + 1),
           NEW b, b = NameCost(nodes, w[n].node, w[n].done + 1)
    PROVE  /\ n < levels /\ c \in DOMAIN nodes
           /\ nodes[w[n].node].kind = "mapping" => KeyNode(nodes, w[n].node, w[n].done + 1).kind = "scalar"
           /\ \A i \in 1..n : p[i].node # c
           /\ spent \in Uses /\ b \in Uses /\ OwnCost(nodes, c) \in Uses /\ Charge(nodes, levels, 1) \in Uses
           /\ AtMost(Consume(spent, b), Charge(nodes, levels, 1))
           /\ AtMost(Consume(Consume(spent, b), OwnCost(nodes, c)), Charge(nodes, levels, 1))
<1>1. /\ Way(nodes, levels, w) /\ n \in Nat /\ n # 0 /\ n \in 1..n
      /\ \A i \in 1..n : w[i] \in Stops(nodes) /\ w[i].node \in DOMAIN nodes /\ w[i].done \in Nat /\ w[i].spent \in Uses
  <2>1. Way(nodes, levels, w)
    BY DEF CallsStand
  <2> QED BY <2>1, WayIs
<1>2. PICK id, d, s : id = w[n].node /\ d = w[n].done /\ s = w[n].spent
  OBVIOUS
<1>3. /\ id \in DOMAIN nodes /\ d \in Nat /\ s \in Uses /\ d + 1 <= Len(nodes[id].items) /\ d + 1 \in 1..Len(nodes[id].items)
      /\ DOMAIN nodes[id].items = 1..Len(nodes[id].items)
  BY <1>1, <1>2, ItemsAre DEF Size
<1>4. n <= levels /\ id \in Level(nodes, levels - (n - 1))
  BY <1>1, <1>2, WayDescends
<1>5. PICK m : m = levels - (n - 1)
  OBVIOUS
<1>6. m \in Nat /\ m - 1 = levels - n /\ m <= levels
  BY <1>1, <1>4, <1>5
<1>7. /\ m - 1 \in Nat /\ c \in Level(nodes, m - 1)
      /\ nodes[id].kind = "mapping" => KeyNode(nodes, id, d + 1).kind = "scalar"
  BY <1>2, <1>3, <1>4, <1>5, <1>6, BelowLevel, SMTT(30) DEF ChildOf
<1>8. m - 1 # 0 /\ c \in DOMAIN nodes
  BY <1>7, BelowLevel
<1>9. n < levels
  BY <1>1, <1>6, <1>7, <1>8
<1>10. c \in Level(nodes, levels) /\ id \in Level(nodes, levels)
  <2>1. Level(nodes, m - 1) \subseteq Level(nodes, levels) /\ Level(nodes, m) \subseteq Level(nodes, levels)
    BY <1>6, <1>7, LevelsGrow
  <2> QED BY <1>4, <1>5, <1>7, <2>1
<1>11. PICK a, h, t : a = Part(nodes, levels, id, d) /\ h = Charge(nodes, levels, c) /\ t = Charge(nodes, levels, 1)
  OBVIOUS
<1>12. a \in Uses /\ h \in Uses /\ t \in Uses /\ b \in Uses /\ OwnCost(nodes, c) \in Uses
  <2>1. d \in 0..Len(nodes[id].items)
    BY <1>3
  <2>2. a \in Uses
    BY <1>10, <1>11, <2>1, PartsFit
  <2>3. h \in Uses /\ t \in Uses
    BY <1>10, <1>11, PartsFit
  <2>4. b \in Uses
    BY <1>2, <1>3, OwnCostIs
  <2> QED BY <1>8, <2>2, <2>3, <2>4, OwnCostIs
<1>13. spent = Consume(s, a) /\ spent \in Uses /\ Consume(spent, b) \in Uses /\ Consume(a, b) \in Uses
       /\ Consume(spent, b) = Consume(s, Consume(a, b))
  <2>1. spent = Consume(s, a)
    BY <1>1, <1>2, <1>11 DEF CallsStand
  <2>2. s \in Uses /\ a \in Uses /\ b \in Uses
    BY <1>3, <1>12
  <2>3. Consume(s, a) \in Uses /\ Consume(a, b) \in Uses
    BY <2>2, SumIs
  <2>4. Consume(s, Consume(a, b)) = Consume(Consume(s, a), b)
    BY <2>2, SumsAssociate
  <2>5. Consume(spent, b) \in Uses
    BY <2>1, <2>2, <2>3, SumIs
  <2> QED BY <2>1, <2>3, <2>4, <2>5
<1>14. SpentOn(nodes, levels, w[n]) = Consume(spent, b)
  BY <1>2, <1>11, <1>13 DEF SpentOn
<1>15. PICK v : /\ Way(nodes, levels, v) /\ Len(v) = n + 1 /\ \A i \in 1..n : v[i] = w[i]
                /\ v[n + 1].node = c /\ v[n + 1].spent = Consume(spent, b)
  <2>1. Way(nodes, levels, w) /\ n = Len(w) /\ w[n].done < Size(nodes, w[n].node) /\ SpentOn(nodes, levels, w[n]) \in Uses
    BY <1>1, <1>13, <1>14
  <2>2. \E v : /\ Way(nodes, levels, v) /\ Len(v) = n + 1 /\ \A i \in 1..n : v[i] = w[i]
               /\ v[n + 1].node = ChildOf(nodes, w[n].node, w[n].done + 1) /\ v[n + 1].done = 0
               /\ v[n + 1].spent = SpentOn(nodes, levels, w[n])
    BY <2>1, WayGoesOn
  <2> QED BY <1>14, <2>2
<1>16. ASSUME NEW i \in 1..n PROVE p[i].node # c
  <2>1. i \in 1..Len(v) /\ n + 1 \in 1..Len(v) /\ i < n + 1
    BY <1>1, <1>15
  <2>2. v[i].node # v[n + 1].node
    BY <1>15, <2>1, WayIsApart
  <2>3. p[i].node = w[i].node
    BY DEF CallsStand
  <2> QED BY <1>15, <2>2, <2>3
<1>17. PICK e, o : e = Consume(spent, b) /\ o = OwnCost(nodes, c)
  OBVIOUS
<1>18. AtMost(Consume(e, h), t)
  <2>1. n + 1 \in 1..Len(v)
    BY <1>1, <1>15
  <2> QED BY <1>11, <1>15, <1>17, <2>1, WayFits
<1>19. AtMost(o, h)
  <2>1. 0 \in 0..Len(nodes[c].items)
    BY <1>8, ItemsAre
  <2>2. AtMost(Part(nodes, levels, c, 0), Charge(nodes, levels, c))
    BY <1>10, <2>1, PartsFit
  <2> QED BY <1>8, <1>11, <1>17, <2>2, PartIs
<1>20. e \in Uses /\ o \in Uses
  BY <1>12, <1>13, <1>17
<1>21. AtMost(Consume(e, o), Consume(e, h)) /\ Consume(e, h) \in Uses /\ Consume(e, o) \in Uses /\ AtMost(e, Consume(e, h))
  BY <1>12, <1>19, <1>20, SumAtMost, AtMostItself, SumIs, SumIsMore
<1>22. AtMost(Consume(e, o), t) /\ AtMost(e, t)
  BY <1>12, <1>18, <1>20, <1>21, AtMostTransitive
<1> QED BY <1>2, <1>7, <1>8, <1>9, <1>11, <1>12, <1>13, <1>16, <1>17, <1>22

-----------------------------------------------------------------------------
(* YAML: what the build has read *)

\* The text expands within the limits.
Expands ==
    /\ text.nodes # Null /\ 1 \in Level(text.nodes, Deepest)
    /\ WithinLimits(Charge(text.nodes, Deepest, 1))
\* What was built and spent is what a way through the graph tells; in the end it is all of it.
BuildInv ==
    /\ text \in Texts /\ limits \in ParseLimits
    /\ phase \in {"preflight", "load", "build", "trailing", "done", "failed"}
    /\ phase # "failed" => Readable(text)
    /\ phase \in {"load", "build", "trailing", "done"} => text.wellFormed
    /\ phase \in {"build", "trailing", "done"} => text.nodes # Null
    /\ phase = "build" => \E w : CallsStand(text.nodes, Deepest, w, path, used)
    /\ phase \in {"trailing", "done"} =>
          /\ Expands
          /\ Reads(text.nodes) => result = Expansions(text.nodes, Deepest)[1]
    /\ phase = "done" => text.documents <= 1
    /\ phase = "failed" => ~Acceptable

LEMMA TextIs ==
    ASSUME text \in Texts
    PROVE  /\ text.documents \in Nat
           /\ text.nodes # Null => text.documents > 0 /\ IsGraph(text.nodes) /\ 1 \in DOMAIN text.nodes
<1>1. /\ text.documents \in Nat
      /\ text.nodes # Null => text.documents > 0 /\ IsGraph(text.nodes)
  BY TextsAssumption
<1>2. IsGraph(text.nodes) => 1 \in DOMAIN text.nodes
  BY DEF IsGraph
<1> QED BY <1>1, <1>2

LEMMA DeepestIs ==
    ASSUME limits \in ParseLimits
    PROVE  Deepest \in Nat /\ \A d \in Nat : TooDeep(d) <=> d >= Deepest
<1>1. limits.nesting \in Nat /\ ParseNestingCeiling \in Nat
  BY ParseLimitsAssumption
<1> QED BY <1>1 DEF Deepest, TooDeep

LEMMA AcceptableIs == Acceptable <=> Readable(text) /\ text.wellFormed /\ text.documents = 1 /\ Expands
BY DEF Acceptable, Expands, Level, Charge

LEMMA CallIsOf == ASSUME NEW id, NEW key PROVE Call(id, key) = CallOf(text.nodes, id, key)
BY DEF Call, CallOf, Node

LEMMA PlacedIsOn == ASSUME NEW call, NEW key, NEW value PROVE Placed(call, key, value) = PlacedOn(text.nodes, call, key, value)
BY DEF Placed, PlacedOn, Node

LEMMA NodeCostIs ==
    ASSUME NEW id, IsGraph(text.nodes), id \in DOMAIN text.nodes
    PROVE  NodeCost(id) = OwnCost(text.nodes, id)
<1>1. text.nodes[id].kind = "scalar" => Len(text.nodes[id].items) = 0
  BY ItemsAre
<1> QED BY <1>1 DEF NodeCost, OwnCost, Node, Children

\* Neither the text nor the limits change, and what they tell stays.
LEMMA TextStays ==
    ASSUME UNCHANGED <<text, limits>>
    PROVE  /\ Deepest' = Deepest /\ Expands' = Expands /\ Acceptable' = Acceptable /\ Readable(text)' = Readable(text)
<1>1. Deepest' = Deepest
  BY DEF Deepest
<1>2. \A use : WithinLimits(use)' = WithinLimits(use)
  BY DEF WithinLimits
<1>3. Expands' = Expands
  BY <1>1, <1>2 DEF Expands
<1>4. Readable(text)' = Readable(text)
  BY DEF Readable
<1>5. Acceptable' <=> Readable(text)' /\ text'.wellFormed /\ text'.documents = 1 /\ Expands'
  BY DEF Acceptable, Expands, Level, Charge
<1> QED BY <1>1, <1>3, <1>4, <1>5, AcceptableIs

LEMMA FailureStep ==
    ASSUME BuildInv, Fail, ~Acceptable
    PROVE  BuildInv'
BY TextStays DEF BuildInv, Fail

LEMMA BuildStep ==
    ASSUME BuildInv, UNCHANGED <<text, limits>>, phase \in {"load", "build"}, phase' = "build", text.nodes # Null,
           \E w : CallsStand(text.nodes, Deepest, w, path', used')
    PROVE  BuildInv'
<1>1. /\ text' \in Texts /\ limits' \in ParseLimits /\ text'.wellFormed /\ text'.nodes # Null
      /\ Readable(text)' /\ \E w : CallsStand(text'.nodes, Deepest', w, path', used')
  BY TextStays DEF BuildInv
<1> QED BY <1>1 DEF BuildInv

LEMMA LoadBuilds ==
    ASSUME BuildInv, ExpansionInv, Load
    PROVE  BuildInv'
<1>1. phase = "load" /\ path = <<>> /\ active = {} /\ text \in Texts /\ limits \in ParseLimits
  BY DEF BuildInv, ExpansionInv, Load
<1>2. Len(path) = 0
  BY <1>1
<1>3. ASSUME text.nodes # Null
      PROVE  /\ IsGraph(text.nodes) /\ 1 \in DOMAIN text.nodes /\ NodeCost(1) = OwnCost(text.nodes, 1)
             /\ OwnCost(text.nodes, 1) \in Uses /\ Consume(Unused, NodeCost(1)) = OwnCost(text.nodes, 1)
  <2>1. IsGraph(text.nodes) /\ 1 \in DOMAIN text.nodes
    BY <1>1, <1>3, TextIs
  <2>2. NodeCost(1) = OwnCost(text.nodes, 1) /\ OwnCost(text.nodes, 1) \in Uses
    BY <2>1, NodeCostIs, OwnCostIs
  <2>3. Consume(Unused, OwnCost(text.nodes, 1)) = OwnCost(text.nodes, 1)
    BY <2>2, UnusedIsNothing
  <2> QED BY <2>1, <2>2, <2>3
<1>4. CASE ~(text.nodes # Null /\ CanEnter(1, Unused)) /\ Fail
  <2>1. ASSUME Acceptable PROVE FALSE
    <3>1. text.nodes # Null /\ 1 \in Level(text.nodes, Deepest) /\ WithinLimits(Charge(text.nodes, Deepest, 1))
      BY <2>1, AcceptableIs DEF Expands
    <3>2. Deepest \in Nat /\ (TooDeep(0) <=> 0 >= Deepest)
      BY <1>1, DeepestIs
    <3>3. PICK nodes, levels : nodes = text.nodes /\ levels = Deepest
      OBVIOUS
    <3>4. /\ levels - 1 \in Nat /\ Charge(nodes, levels, 1) \in Uses
          /\ AtMost(OwnCost(nodes, 1), Charge(nodes, levels, 1))
      <4>1. IsGraph(nodes) /\ levels \in Nat /\ 1 \in Level(nodes, levels) /\ 1 \in DOMAIN nodes
        BY <1>3, <3>1, <3>2, <3>3
      <4>2. 0 \in 0..Len(nodes[1].items)
        BY <4>1, ItemsAre
      <4>3. Part(nodes, levels, 1, 0) = OwnCost(nodes, 1)
        BY <4>1, PartIs
      <4> QED BY <4>1, <4>2, <4>3, PartsFit
    <3>5. ~TooDeep(Len(path))
      BY <1>2, <3>2, <3>3, <3>4
    <3>6. WithinLimits(OwnCost(nodes, 1))
      BY <1>1, <1>3, <3>1, <3>3, <3>4, AtMostFits
    <3> QED BY <1>1, <1>3, <1>4, <3>1, <3>3, <3>5, <3>6 DEF CanEnter, Affordable
  <2> QED BY <1>4, <2>1, FailureStep
<1>5. CASE /\ text.nodes # Null /\ CanEnter(1, Unused) /\ Enter(1, Null, Unused, path)
           /\ phase' = "build" /\ UNCHANGED <<text, limits>>
  <2>1. Deepest \in Nat /\ Deepest # 0
    BY <1>1, <1>2, <1>5, DeepestIs DEF CanEnter
  <2>2. used' = OwnCost(text.nodes, 1) /\ path' = Append(<<>>, CallOf(text.nodes, 1, Null))
    BY <1>1, <1>3, <1>5, CallIsOf DEF Enter
  <2>3. Len(path') = 1 /\ path'[1] = CallOf(text.nodes, 1, Null)
    <3>1. PICK c : c = CallOf(text.nodes, 1, Null)
      OBVIOUS
    <3> QED BY <2>2, <3>1
  <2>4. PICK nodes, levels, p : nodes = text.nodes /\ levels = Deepest /\ p = path'
    OBVIOUS
  <2>5. \E w : CallsStand(nodes, levels, w, p, OwnCost(nodes, 1))
    BY <1>3, <1>5, <2>1, <2>3, <2>4, CallsBegin
  <2>6. \E w : CallsStand(text.nodes, Deepest, w, path', used')
    BY <2>2, <2>4, <2>5
  <2> QED BY <1>1, <1>5, <2>6, BuildStep
<1> QED BY <1>1, <1>4, <1>5 DEF Load

\* A call that goes on to its next item.
LEMMA AdvancedIs ==
    ASSUME NEW call, IsCall(call), call.done \in Nat, NEW r, r = [call EXCEPT !.done = @ + 1]
    PROVE  r.node = call.node /\ r.key = call.key /\ r.value = call.value /\ r.done = call.done + 1
<1>1. PICK a, b, c, v : call = [node |-> a, key |-> b, done |-> c, value |-> v]
  BY DEF IsCall
<1>2. r = [node |-> a, key |-> b, done |-> c + 1, value |-> v]
  BY <1>1
<1> QED BY <1>1, <1>2

LEMMA InnermostIs ==
    ASSUME BuildInv, ExpansionInv, phase = "build", NEW w, CallsStand(text.nodes, Deepest, w, path, used),
           NEW n, n = Len(path)
    PROVE  /\ IsGraph(text.nodes) /\ Deepest \in Nat /\ limits \in ParseLimits
           /\ n = Len(w) /\ n \in Nat /\ n # 0
           /\ Innermost = path[n] /\ path[n].node = w[n].node /\ path[n].done = w[n].done
           /\ w[n] \in Stops(text.nodes) /\ w[n].node \in DOMAIN text.nodes /\ w[n].done \in Nat
           /\ w[n].done <= Size(text.nodes, w[n].node)
           /\ IsSeq(path) /\ \A i \in 1..n : IsCall(path[i])
           /\ active = {path[i].node : i \in 1..n}
           /\ Node(w[n].node) = text.nodes[w[n].node] /\ Len(Children(w[n].node)) = Size(text.nodes, w[n].node)
<1>1. text \in Texts /\ limits \in ParseLimits /\ text.nodes # Null /\ Path(path, active)
  BY DEF BuildInv, ExpansionInv
<1>2. IsGraph(text.nodes) /\ Deepest \in Nat
  BY <1>1, TextIs, DeepestIs
<1>3. Way(text.nodes, Deepest, w) /\ n = Len(w)
  BY DEF CallsStand
<1>4. /\ n \in Nat /\ n # 0 /\ n \in 1..n /\ w[n] \in Stops(text.nodes) /\ w[n].node \in DOMAIN text.nodes /\ w[n].done \in Nat
      /\ w[n].done <= Size(text.nodes, w[n].node)
  <2>1. /\ Len(w) \in Nat /\ Len(w) # 0 /\ Len(w) \in 1..Len(w)
        /\ \A i \in 1..Len(w) : w[i] \in Stops(text.nodes) /\ w[i].node \in DOMAIN text.nodes /\ w[i].done \in Nat
    BY <1>3, WayIs
  <2> QED BY <1>3, <2>1 DEF Way
<1>5. path[n].node = w[n].node /\ path[n].done = w[n].done + 0
  BY <1>3, <1>4 DEF CallsStand
<1>6. path[n].done = w[n].done
  BY <1>4, <1>5
<1>7. IsSeq(path) /\ (\A i \in 1..n : IsCall(path[i])) /\ active = {path[i].node : i \in 1..n}
  BY <1>1 DEF Path
<1>8. Innermost = path[n] /\ Node(w[n].node) = text.nodes[w[n].node] /\ Len(Children(w[n].node)) = Size(text.nodes, w[n].node)
  BY DEF Innermost, Node, Children, Size
<1> QED BY <1>1, <1>2, <1>3, <1>4, <1>5, <1>6, <1>7, <1>8

\* The path when the innermost call goes on to an item.
LEMMA PathGoesOn ==
    ASSUME NEW p, IsSeq(p), NEW n, n = Len(p), n \in Nat, n # 0, IsCall(p[n]), p[n].done \in Nat, NEW c,
           NEW q, q = Append([p EXCEPT ![Len(p)].done = @ + 1], c)
    PROVE  /\ Len(q) = n + 1 /\ (\A i \in 1..n : i # n => q[i] = p[i])
           /\ q[n].node = p[n].node /\ q[n].key = p[n].key /\ q[n].value = p[n].value /\ q[n].done = p[n].done + 1
           /\ q[n + 1] = c
<1>1. PICK S : p \in Seq(S)
  BY DEF IsSeq
<1>2. PICK r : r = [p[n] EXCEPT !.done = @ + 1]
  OBVIOUS
<1>3. PICK a : a = [p EXCEPT ![n] = r]
  OBVIOUS
<1>4. [p EXCEPT ![Len(p)].done = @ + 1] = a
  BY <1>2, <1>3
<1>5. DOMAIN p = 1..n /\ \A i \in 1..n : p[i] \in S
  BY <1>1, LenProperties, ElementOfSeq
<1>6. a \in Seq(S \cup {r}) /\ Len(a) = n /\ a[n] = r /\ \A i \in 1..n : i # n => a[i] = p[i]
  <2>1. p \in Seq(S \cup {r})
    BY <1>1, SeqMonotonic
  <2> QED BY <1>3, <1>5, <2>1, ExceptSeq
<1>7. q = Append(a, c)
  BY <1>4
<1>8. Len(q) = n + 1 /\ q[n + 1] = c /\ \A i \in 1..n : q[i] = a[i]
  <2>1. a \in Seq(S \cup {r, c}) /\ c \in S \cup {r, c}
    BY <1>6, SeqMonotonic
  <2> QED BY <1>6, <1>7, <2>1, AppendProperties, LenProperties, SMTT(30)
<1>9. r.node = p[n].node /\ r.key = p[n].key /\ r.value = p[n].value /\ r.done = p[n].done + 1
  BY <1>2, AdvancedIs
<1> QED BY <1>6, <1>8, <1>9

\* What the next item is charged for before its own call.
LEMMA NameCostIs ==
    ASSUME NEW nodes, IsGraph(nodes), NEW id \in DOMAIN nodes, NEW i \in 1..Len(nodes[id].items), NEW spent \in Uses
    PROVE  /\ NameCost(nodes, id, i) \in Uses
           /\ nodes[id].kind = "mapping" => NameCost(nodes, id, i) = Cost(0, KeyNode(nodes, id, i).size, 0)
           /\ nodes[id].kind # "mapping" => Consume(spent, NameCost(nodes, id, i)) = spent
<1>1. NameCost(nodes, id, i) \in Uses
  BY OwnCostIs
<1>2. ASSUME nodes[id].kind # "mapping" PROVE Consume(spent, NameCost(nodes, id, i)) = spent
  <2>1. NameCost(nodes, id, i) = Cost(0, 0, 0)
    BY <1>2 DEF NameCost
  <2>2. PICK u, v : u = Cost(0, 0, 0) /\ v = Consume(spent, u)
    OBVIOUS
  <2>3. u.nodes = 0 /\ u.strings = 0 /\ u.entries = 0 /\ u \in Uses
    BY <2>2, CostIs
  <2>4. v \in Uses /\ v.nodes = spent.nodes + u.nodes /\ v.strings = spent.strings + u.strings /\ v.entries = spent.entries + u.entries
    BY <2>2, <2>3, SumIs
  <2>5. spent.nodes \in Nat /\ spent.strings \in Nat /\ spent.entries \in Nat
    BY UseIs
  <2>6. v.nodes = spent.nodes /\ v.strings = spent.strings /\ v.entries = spent.entries
    BY <2>3, <2>4, <2>5
  <2>7. v = spent
    BY <2>4, <2>6, SameUse
  <2> QED BY <2>1, <2>2, <2>7
<1> QED BY <1>1, <1>2 DEF NameCost

LEMMA NextItemBuilds ==
    ASSUME BuildInv, ExpansionInv, NextItem
    PROVE  BuildInv'
<1> DEFINE item == Children(Innermost.node)[Innermost.done + 1]
           mapping == Node(Innermost.node).kind = "mapping"
           validKey == mapping => Node(item.key).kind = "scalar"
           spent == IF mapping /\ validKey THEN Consume(used, Cost(0, Node(item.key).size, 0)) ELSE used
           allowed == validKey /\ WithinLimits(spent) /\ CanEnter(item.node, spent)
           key == IF mapping THEN Node(item.key).text ELSE Null
           calls == [path EXCEPT ![Len(path)].done = @ + 1]
<1>1. phase = "build" /\ path # <<>> /\ Innermost.done < Len(Children(Innermost.node))
  BY DEF NextItem
<1>2. PICK w : CallsStand(text.nodes, Deepest, w, path, used)
  BY <1>1 DEF BuildInv
<1>3. PICK n, nodes, levels : n = Len(path) /\ nodes = text.nodes /\ levels = Deepest
  OBVIOUS
<1>4. /\ IsGraph(nodes) /\ levels \in Nat /\ limits \in ParseLimits
      /\ n = Len(w) /\ n \in Nat /\ n # 0
      /\ Innermost = path[n] /\ path[n].node = w[n].node /\ path[n].done = w[n].done
      /\ w[n] \in Stops(nodes) /\ w[n].node \in DOMAIN nodes /\ w[n].done \in Nat
      /\ IsSeq(path) /\ (\A i \in 1..n : IsCall(path[i]))
      /\ active = {path[i].node : i \in 1..n}
      /\ Node(w[n].node) = nodes[w[n].node] /\ Len(Children(w[n].node)) = Size(nodes, w[n].node)
  BY <1>1, <1>2, <1>3, InnermostIs
<1>5. PICK id, d : id = w[n].node /\ d = w[n].done
  OBVIOUS
<1>6. PICK c, b : c = ChildOf(nodes, id, d + 1) /\ b = NameCost(nodes, id, d + 1)
  OBVIOUS
<1>7. /\ id \in DOMAIN nodes /\ d \in Nat /\ d < Size(nodes, id) /\ d + 1 \in 1..Len(nodes[id].items)
      /\ Innermost.node = id /\ Innermost.done = d
  BY <1>1, <1>4, <1>5 DEF Size
<1>8. c \in DOMAIN nodes
  BY <1>4, <1>6, <1>7, ItemsAre DEF ChildOf
<1>9. item.node = c /\ (mapping <=> nodes[id].kind = "mapping") /\ Node(item.key) = KeyNode(nodes, id, d + 1)
  BY <1>3, <1>4, <1>5, <1>6, <1>7 DEF Node, Children, ChildOf, KeyNode
<1>10. used \in Uses
  <2>1. ItemsDone(nodes, levels, w[n], n) /\ used = Consume(w[n].spent, Part(nodes, levels, w[n].node, w[n].done))
    <3>1. n \in 1..Len(w)
      BY <1>4
    <3> QED BY <1>2, <1>3, <1>4, <3>1 DEF CallsStand
  <2>2. w[n].done <= Size(nodes, w[n].node)
    BY <1>4, <1>5, <1>7
  <2> QED BY <1>4, <2>1, <2>2, DoneCosts
<1>11. validKey => spent = Consume(used, b)
  <2>1. /\ nodes[id].kind = "mapping" => b = Cost(0, KeyNode(nodes, id, d + 1).size, 0)
        /\ nodes[id].kind # "mapping" => Consume(used, b) = used
    BY <1>4, <1>6, <1>7, <1>10, NameCostIs
  <2> QED BY <1>9, <2>1
<1>12. NodeCost(c) = OwnCost(nodes, c)
  BY <1>3, <1>4, <1>8, NodeCostIs
<1>13. CASE ~allowed /\ Fail
  <2>1. ASSUME Acceptable PROVE FALSE
    <3>1. 1 \in Level(nodes, levels) /\ WithinLimits(Charge(nodes, levels, 1))
      BY <1>3, <2>1, AcceptableIs DEF Expands
    <3>2. /\ n < levels
          /\ nodes[id].kind = "mapping" => KeyNode(nodes, id, d + 1).kind = "scalar"
          /\ \A i \in 1..n : path[i].node # c
          /\ used \in Uses /\ b \in Uses /\ OwnCost(nodes, c) \in Uses /\ Charge(nodes, levels, 1) \in Uses
          /\ AtMost(Consume(used, b), Charge(nodes, levels, 1))
          /\ AtMost(Consume(Consume(used, b), OwnCost(nodes, c)), Charge(nodes, levels, 1))
      <4>1. /\ IsGraph(nodes) /\ levels \in Nat /\ CallsStand(nodes, levels, w, path, used) /\ n = Len(w)
            /\ w[n].done < Size(nodes, w[n].node) /\ c = ChildOf(nodes, w[n].node, w[n].done + 1)
            /\ b = NameCost(nodes, w[n].node, w[n].done + 1)
        BY <1>2, <1>3, <1>4, <1>5, <1>6, <1>7
      <4> QED BY <1>5, <3>1, <4>1, NextFits
    <3>3. validKey /\ spent = Consume(used, b)
      BY <1>9, <1>11, <3>2
    <3>4. Consume(used, b) \in Uses /\ Consume(Consume(used, b), OwnCost(nodes, c)) \in Uses
      BY <3>2, SumIs
    <3>5. WithinLimits(Consume(used, b)) /\ WithinLimits(Consume(Consume(used, b), OwnCost(nodes, c)))
      BY <1>4, <3>1, <3>2, <3>4, AtMostFits
    <3>6. c \notin active
      BY <1>4, <3>2
    <3>7. ~TooDeep(Len(path))
      BY <1>3, <1>4, <3>2, DeepestIs
    <3>8. CanEnter(c, Consume(used, b))
      BY <1>12, <3>5, <3>6, <3>7 DEF CanEnter, Affordable
    <3> QED BY <1>9, <1>13, <3>3, <3>5, <3>8
  <2> QED BY <1>13, <2>1, FailureStep
<1>14. CASE allowed /\ Enter(item.node, key, spent, calls) /\ UNCHANGED <<text, limits, phase>>
  <2>1. validKey /\ CanEnter(c, Consume(used, b)) /\ Enter(c, key, Consume(used, b), calls)
    BY <1>9, <1>11, <1>14
  <2>2. n < levels
    <3>1. ~TooDeep(Len(path))
      BY <2>1 DEF CanEnter
    <3> QED BY <1>3, <1>4, <3>1, DeepestIs
  <2>3. nodes[id].kind = "mapping" => KeyNode(nodes, id, d + 1).kind = "scalar" /\ key = NameOf(nodes, id, d + 1)
    BY <1>9, <2>1 DEF NameOf
  <2>4. PICK k, q, new : k = key /\ q = path' /\ new = CallOf(nodes, c, k)
    OBVIOUS
  <2>5. q = Append([path EXCEPT ![Len(path)].done = @ + 1], new)
    BY <1>3, <2>1, <2>4, CallIsOf DEF Enter
  <2>6. /\ Len(q) = n + 1 /\ (\A i \in 1..n : i # n => q[i] = path[i])
        /\ q[n].node = path[n].node /\ q[n].key = path[n].key /\ q[n].value = path[n].value /\ q[n].done = path[n].done + 1
        /\ q[n + 1] = new
    <3>1. n = Len(path) /\ n \in Nat /\ n # 0 /\ IsSeq(path) /\ IsCall(path[n]) /\ path[n].done \in Nat
      BY <1>3, <1>4
    <3> QED BY <2>5, <3>1, PathGoesOn
  <2>7. used' = Consume(Consume(used, b), OwnCost(nodes, c))
    BY <1>12, <2>1 DEF Enter
  <2>8. \E v : CallsStand(nodes, levels, v, q, Consume(Consume(used, NameCost(nodes, id, d + 1)), OwnCost(nodes, ChildOf(nodes, id, d + 1))))
    <3>1. PICK p, u : p = path /\ u = used
      OBVIOUS
    <3>2. CallsStand(nodes, levels, w, p, u) /\ n = Len(w) /\ n < levels /\ id = w[n].node /\ d = w[n].done /\ d < Size(nodes, id)
      BY <1>2, <1>3, <1>4, <1>5, <1>7, <2>2, <3>1
    <3>3. MovesOn(nodes, p, q, n, id, d, k)
      BY <1>6, <2>3, <2>4, <2>6, <3>1 DEF MovesOn
    <3>5. IsGraph(nodes) /\ levels \in Nat
      BY <1>4
    <3> HIDE DEF item, mapping, validKey, spent, allowed, key, calls
    <3>6. \E v : CallsStand(nodes, levels, v, q, Consume(Consume(u, NameCost(nodes, id, d + 1)), OwnCost(nodes, ChildOf(nodes, id, d + 1))))
      BY <3>2, <3>3, <3>5, CallsGoOn
    <3> QED BY <3>1, <3>6
  <2>9. \E v : CallsStand(text.nodes, Deepest, v, path', used')
    BY <1>3, <1>6, <2>4, <2>7, <2>8
  <2>10. text.nodes # Null
    BY <1>1 DEF BuildInv
  <2> QED BY <1>1, <1>14, <2>9, <2>10, BuildStep
<1>15. \/ ~allowed /\ Fail
       \/ allowed /\ Enter(item.node, key, spent, calls) /\ UNCHANGED <<text, limits, phase, preflight, result>>
  BY DEF NextItem
<1> HIDE DEF allowed, item, key, spent, calls
<1> QED BY <1>13, <1>14, <1>15

WithLast(s, c) == [s EXCEPT ![Len(s)] = c]

LEMMA LastChanged ==
    ASSUME NEW S, NEW s \in Seq(S), NEW n, n = Len(s), n # 0, NEW c, NEW q, q = WithLast(s, c)
    PROVE  Len(q) = n /\ q[n] = c /\ \A i \in 1..n : i # n => q[i] = s[i]
<1>1. PICK T : T = S \cup {c}
  OBVIOUS
<1>2. s \in Seq(T) /\ c \in T /\ n \in Nat /\ n \in 1..n
  BY <1>1, SeqMonotonic, LenProperties
<1>3. q = [s EXCEPT ![n] = c]
  BY DEF WithLast
<1> QED BY <1>2, <1>3, ExceptSeq

Callers(p) == SubSeq(p, 1, Len(p) - 1)

\* The path when the innermost call has ended.
OneBack(p, r, q, c, n) ==
    Len(r) = n /\ r[n] = p[n] /\ Len(q) = n /\ q[n] = c /\ \A i \in 1..n : i # n => q[i] = p[i]

LEMMA PathGoesBack ==
    ASSUME NEW p, IsSeq(p), NEW n \in Nat, n # 0, Len(p) = n + 1, NEW callers, callers = Callers(p), NEW c,
           NEW q, q = WithLast(callers, c)
    PROVE  OneBack(p, callers, q, c, n)
<1>1. PICK S : p \in Seq(S)
  BY DEF IsSeq
<1>2. Len(p) - 1 = n /\ n \in 0..Len(p) /\ n \in 1..n
  OBVIOUS
<1>3. callers \in Seq(S) /\ Len(callers) = n /\ \A i \in 1..n : callers[i] = p[i]
  <2>1. callers = SubSeq(p, 1, n)
    BY <1>2 DEF Callers
  <2>2. 1 \in 1..(Len(p) + 1) /\ n \in 0..Len(p)
    BY <1>2
  <2>3. callers \in Seq(S) /\ Len(callers) = n
    BY <1>1, <1>2, <2>1, <2>2, SubSeqProperties
  <2>4. \A i \in 1..n : callers[i] = p[1 + i - 1]
    BY <1>1, <1>2, <2>1, <2>2, SubSeqProperties
  <2>5. \A i \in 1..n : 1 + i - 1 = i
    OBVIOUS
  <2> QED BY <2>3, <2>4, <2>5
<1>4. PICK r : r = callers
  OBVIOUS
<1>5. r \in Seq(S) /\ n = Len(r) /\ n # 0 /\ q = WithLast(r, c)
  BY <1>3, <1>4
<1>6. Len(q) = n /\ q[n] = c /\ \A i \in 1..n : i # n => q[i] = r[i]
  BY <1>5, LastChanged
<1> QED BY <1>2, <1>3, <1>4, <1>6 DEF OneBack

LEMMA ReturnBuilds ==
    ASSUME BuildInv, ExpansionInv, Return
    PROVE  BuildInv'
<1> DEFINE callers == SubSeq(path, 1, Len(path) - 1)
<1>1. /\ phase = "build" /\ path # <<>> /\ Innermost.done = Len(Children(Innermost.node))
      /\ UNCHANGED <<text, limits, used>> /\ WithinLimits(used) /\ text.nodes # Null
  BY DEF Return, BuildInv, ExpansionInv
<1>2. PICK w : CallsStand(text.nodes, Deepest, w, path, used)
  BY <1>1 DEF BuildInv
<1>3. PICK n, nodes, levels : n = Len(path) /\ nodes = text.nodes /\ levels = Deepest
  OBVIOUS
<1>4. /\ IsGraph(nodes) /\ levels \in Nat /\ limits \in ParseLimits
      /\ n = Len(w) /\ n \in Nat /\ n # 0
      /\ Innermost = path[n] /\ path[n].node = w[n].node /\ path[n].done = w[n].done
      /\ w[n] \in Stops(nodes) /\ w[n].node \in DOMAIN nodes /\ w[n].done \in Nat
      /\ IsSeq(path) /\ (\A i \in 1..n : IsCall(path[i]))
      /\ Len(Children(w[n].node)) = Size(nodes, w[n].node)
  BY <1>1, <1>2, <1>3, InnermostIs
<1>5. w[n].done = Size(nodes, w[n].node)
  BY <1>1, <1>4
<1>6. CASE callers = <<>> /\ result' = Innermost.value /\ phase' = "trailing"
  <2>1. n = 1
    <3>1. PICK S : path \in Seq(S)
      BY <1>4 DEF IsSeq
    <3>2. Len(callers) = n - 1
      <4>1. 1 \in 1..(Len(path) + 1) /\ n - 1 \in 0..Len(path)
        BY <1>3, <1>4
      <4> QED BY <1>3, <1>4, <3>1, <4>1, SubSeqProperties
    <3>3. PICK r : r = callers
      OBVIOUS
    <3>4. r = <<>> /\ Len(r) = n - 1
      BY <1>6, <3>2, <3>3
    <3>5. Len(r) = 0
      BY <3>4, EmptySeq
    <3>6. n \in Nat /\ n - 1 = 0
      BY <1>4, <3>4, <3>5
    <3> QED BY <3>6
  <2>2. 1 \in 1..Len(w)
    BY <1>4, <2>1
  <2>3. /\ w[1].node = 1 /\ w[1].spent = Unused
        /\ ItemsDone(nodes, levels, w[1], 1) /\ ValueDone(nodes, levels, path[1], w[1])
        /\ used = Consume(w[1].spent, Part(nodes, levels, w[1].node, w[1].done))
    BY <1>2, <1>3, <1>4, <2>1, <2>2 DEF CallsStand, Way
  <2>4. /\ w[1].node \in Level(nodes, levels) /\ Part(nodes, levels, w[1].node, w[1].done) = Charge(nodes, levels, w[1].node)
        /\ Charge(nodes, levels, w[1].node) \in Uses
        /\ Composed(nodes, Expansions(nodes, levels), w[1].node, w[1].done) = Expansions(nodes, levels)[w[1].node]
    <3>1. w[1] \in Stops(nodes) /\ w[1].done = Size(nodes, w[1].node) /\ 1 \in Nat /\ 1 # 0
      BY <1>4, <1>5, <2>1
    <3> QED BY <1>4, <2>3, <3>1, CallIsDone
  <2>5. used = Charge(nodes, levels, 1)
    BY <2>3, <2>4, UnusedIsNothing
  <2>6. Reads(nodes) => result' = Expansions(nodes, levels)[1]
    BY <1>4, <1>6, <2>1, <2>3, <2>4 DEF ValueDone
  <2>7. Expands
    BY <1>1, <1>3, <2>3, <2>4, <2>5 DEF Expands
  <2>8. /\ Expands' /\ Deepest' = Deepest /\ text'.nodes = nodes /\ text' \in Texts /\ limits' \in ParseLimits
        /\ Readable(text)' /\ text'.wellFormed /\ text'.nodes # Null
    BY <1>1, <1>3, <2>7, TextStays DEF BuildInv
  <2>9. Reads(text'.nodes) => result' = Expansions(text'.nodes, Deepest')[1]
    BY <1>3, <2>6, <2>8
  <2> QED BY <1>6, <2>8, <2>9 DEF BuildInv
<1>7. CASE /\ callers # <<>> /\ path' = [callers EXCEPT ![Len(callers)] = Placed(@, Innermost.key, Innermost.value)]
           /\ UNCHANGED phase
  <2>1. PICK k : k = n - 1
    OBVIOUS
  <2>2. k \in Nat /\ n = k + 1
    BY <1>4, <2>1
  <2>3. k # 0
    <3>1. ASSUME n = 1 PROVE callers = <<>>
      <4>1. Len(path) - 1 = 0
        BY <1>3, <3>1
      <4>2. SubSeq(path, 1, 0) = <<>>
        BY <1>4, SubSeqEmpty DEF IsSeq
      <4> QED BY <4>1, <4>2
    <3> QED BY <1>7, <2>2, <3>1
  <2>4. PICK p, q, r, new : /\ p = path /\ q = path' /\ r = callers
                            /\ new = Placed(callers[Len(callers)], Innermost.key, Innermost.value)
    OBVIOUS
  <2>5. r = Callers(p) /\ q = WithLast(r, new)
    BY <1>7, <2>4 DEF WithLast, Callers
  <2>6. Len(r) = k /\ r[k] = p[k] /\ Len(q) = k /\ q[k] = new /\ \A i \in 1..k : i # k => q[i] = p[i]
    <3>1. IsSeq(p) /\ k \in Nat /\ k # 0 /\ Len(p) = k + 1
      BY <1>3, <1>4, <2>2, <2>3, <2>4
    <3> HIDE DEF callers
    <3>2. OneBack(p, r, q, new, k)
      BY <2>5, <3>1, PathGoesBack
    <3> QED BY <3>2 DEF OneBack
  <2>7. q[k] = PlacedOn(nodes, p[k], p[k + 1].key, p[k + 1].value)
    BY <1>3, <1>4, <2>2, <2>4, <2>6, PlacedIsOn
  <2>8. k \in 1..n
    BY <2>2, <2>3
  <2>9. IsCall(p[k])
    BY <1>4, <2>4, <2>8
  <2>10. PICK u : u = used
    OBVIOUS
  <2>11. CallsStand(nodes, levels, w, p, u) /\ Len(w) = k + 1 /\ w[k + 1].done = Size(nodes, w[k + 1].node)
    BY <1>2, <1>3, <1>4, <1>5, <2>2, <2>4, <2>10
  <2>12. \E v : CallsStand(nodes, levels, v, q, u)
    <3>1. MovesBack(nodes, p, q, k)
      BY <2>6, <2>7 DEF MovesBack
    <3>2. IsGraph(nodes) /\ levels \in Nat /\ k \in Nat /\ k # 0
      BY <1>4, <2>2, <2>3
    <3> QED BY <2>9, <2>11, <3>1, <3>2, CallsGoBack
  <2>13. \E v : CallsStand(text.nodes, Deepest, v, path', used')
    BY <1>1, <1>3, <2>4, <2>10, <2>12
  <2> QED BY <1>1, <1>7, <2>13, BuildStep
<1> QED BY <1>6, <1>7 DEF Return

LEMMA TrailingBuilds ==
    ASSUME BuildInv, CheckTrailing
    PROVE  BuildInv'
<1>1. phase = "trailing" /\ text \in Texts
  BY DEF CheckTrailing, BuildInv
<1>2. CASE text.documents > 1 /\ Fail
  <2>1. ~Acceptable
    BY <1>2, AcceptableIs
  <2> QED BY <1>2, <2>1, FailureStep
<1>3. CASE text.documents <= 1 /\ phase' = "done" /\ UNCHANGED <<text, limits, builder>>
  BY <1>1, <1>3, TextStays DEF BuildInv, builder
<1> QED BY <1>2, <1>3 DEF CheckTrailing

-----------------------------------------------------------------------------
(* YAML: the containers that are open at an event *)

OpenStep(events, nodes, f, p) == IF p = 1 THEN <<>> ELSE OpenAfter(nodes, events[p - 1], f[p - 1])

LEMMA OpenExists ==
    ASSUME NEW events, NEW nodes, NEW n \in Nat
    PROVE  \E f : f = [p \in 1..n |-> OpenStep(events, nodes, f, p)]
<1> DEFINE Solves(f, m) == f = [p \in 1..m |-> OpenStep(events, nodes, f, p)]
           Bad == {m \in Nat : ~ \E f : Solves(f, m)}
<1>1. SUFFICES ASSUME Bad # {} PROVE FALSE
  OBVIOUS
<1>2. PICK m \in Bad : \A b \in Bad : m <= b
  <2>1. Bad \in SUBSET Nat
    OBVIOUS
  <2> HIDE DEF Bad
  <2> QED BY <1>1, <2>1, Least
<1>3. m \in Nat /\ ~ \E f : Solves(f, m)
  OBVIOUS
<1>4. m # 0
  <2>1. PICK f : f = [p \in 1..0 |-> <<>>]
    OBVIOUS
  <2>2. 1..0 = {}
    OBVIOUS
  <2>3. f = [p \in 1..0 |-> OpenStep(events, nodes, f, p)]
    BY <2>1, <2>2
  <2>4. Solves(f, 0)
    BY <2>3
  <2> QED BY <1>3, <2>4
<1>5. m - 1 \in Nat /\ ~(m <= m - 1)
  BY <1>3, <1>4
<1>6. PICK f : Solves(f, m - 1)
  <2>1. m - 1 \notin Bad
    BY <1>2, <1>5
  <2> QED BY <1>5, <2>1
<1>7. \A p \in 1..(m - 1) : f[p] = OpenStep(events, nodes, f, p)
  BY <1>6
<1>8. PICK v : v = OpenStep(events, nodes, f, m)
  OBVIOUS
<1>9. PICK g : g = [p \in 1..m |-> IF p = m THEN v ELSE f[p]]
  OBVIOUS
<1>10. g[m] = v /\ \A p \in 1..m : p # m => g[p] = f[p]
  BY <1>3, <1>4, <1>9
<1>11. ASSUME NEW p \in 1..m PROVE g[p] = OpenStep(events, nodes, g, p)
  <2>1. p # 1 => p - 1 \in 1..m /\ p - 1 # m
    BY <1>3
  <2>2. OpenStep(events, nodes, g, p) = OpenStep(events, nodes, f, p)
    BY <1>10, <2>1 DEF OpenStep
  <2>3. p # m => p \in 1..(m - 1)
    BY <1>3
  <2> QED BY <1>7, <1>8, <1>10, <2>2, <2>3
<1>12. g = [p \in 1..m |-> OpenStep(events, nodes, g, p)]
  <2>1. g = [p \in 1..m |-> g[p]]
    BY <1>9
  <2> QED BY <1>11, <2>1
<1>13. Solves(g, m)
  BY <1>12
<1> QED BY <1>3, <1>13

OpenTo(events, nodes, p) == OpenAt(events, nodes)[p]

LEMMA OpenIs ==
    ASSUME NEW events, NEW nodes, Len(events) \in Nat
    PROVE  /\ 1 <= Len(events) => OpenTo(events, nodes, 1) = <<>>
           /\ \A p \in 1..Len(events) : p # 1 => OpenTo(events, nodes, p) = OpenAfter(nodes, events[p - 1], OpenTo(events, nodes, p - 1))
<1> DEFINE Solves(f) == f = [p \in 1..Len(events) |-> OpenStep(events, nodes, f, p)]
<1>1. \E f : Solves(f)
  BY OpenExists
<1>2. OpenAt(events, nodes) = CHOOSE f : Solves(f)
  BY DEF OpenAt, OpenStep
<1>3. Solves(OpenAt(events, nodes))
  <2> HIDE DEF Solves
  <2> QED BY <1>1, <1>2
<1>4. PICK f : f = OpenAt(events, nodes)
  OBVIOUS
<1>5. \A p \in 1..Len(events) : f[p] = OpenStep(events, nodes, f, p)
  BY <1>3, <1>4
<1>6. 1 <= Len(events) => 1 \in 1..Len(events)
  OBVIOUS
<1>7. 1 <= Len(events) => f[1] = <<>>
  BY <1>5, <1>6 DEF OpenStep
<1>8. \A p \in 1..Len(events) : p # 1 => f[p] = OpenAfter(nodes, events[p - 1], f[p - 1])
  BY <1>5 DEF OpenStep
<1> QED BY <1>4, <1>7, <1>8 DEF OpenTo

LEMMA EventIs ==
    ASSUME NEW events, NEW nodes, IsComposed(events, nodes), NEW p \in 1..Len(events)
    PROVE  EventFits(nodes, events[p], OpenTo(events, nodes, p), p, Len(events))
BY DEF IsComposed, OpenTo

LEMMA ComposedEnds ==
    ASSUME NEW events, NEW nodes, IsComposed(events, nodes)
    PROVE  Len(events) > 2 /\ OpenTo(events, nodes, Len(events)) = <<>>
BY DEF IsComposed, OpenTo

\* What libyaml's events have told of a container: its items that were read whole, and whether
\* the key of the next was.
Marks(nodes) == [node : DOMAIN nodes, done : Nat, keyed : BOOLEAN]

\* If the root expands, the next item on the way does.
LEMMA NextOnWay ==
    ASSUME NEW nodes, IsGraph(nodes), NEW levels \in Nat, 1 \in Level(nodes, levels),
           NEW w, Way(nodes, levels, w), NEW n, n = Len(w), w[n].done < Size(nodes, w[n].node),
           NEW c, c = ChildOf(nodes, w[n].node, w[n].done + 1), NEW e, e = SpentOn(nodes, levels, w[n])
    PROVE  /\ n < levels /\ c \in DOMAIN nodes /\ n \in Nat /\ n # 0
           /\ nodes[w[n].node].kind = "mapping" => KeyNode(nodes, w[n].node, w[n].done + 1).kind = "scalar"
           /\ e \in Uses /\ OwnCost(nodes, c) \in Uses /\ Charge(nodes, levels, c) \in Uses /\ Charge(nodes, levels, 1) \in Uses
           /\ NameCost(nodes, w[n].node, w[n].done + 1) \in Uses /\ Part(nodes, levels, w[n].node, w[n].done) \in Uses
           /\ w[n].spent \in Uses /\ AtMost(OwnCost(nodes, c), Charge(nodes, levels, c))
           /\ AtMost(Consume(e, Charge(nodes, levels, c)), Charge(nodes, levels, 1))
           /\ Consume(e, Charge(nodes, levels, c)) = Consume(w[n].spent, Part(nodes, levels, w[n].node, w[n].done + 1))
           /\ \E v : /\ Way(nodes, levels, v) /\ Len(v) = n + 1 /\ \A i \in 1..n : v[i] = w[i]
                     /\ v[n + 1].node = c /\ v[n + 1].done = 0 /\ v[n + 1].spent = e
<1>1. /\ n \in Nat /\ n # 0 /\ n \in 1..n
      /\ \A i \in 1..n : w[i] \in Stops(nodes) /\ w[i].node \in DOMAIN nodes /\ w[i].done \in Nat /\ w[i].spent \in Uses
  BY WayIs
<1>2. PICK id, d, s : id = w[n].node /\ d = w[n].done /\ s = w[n].spent
  OBVIOUS
<1>3. /\ id \in DOMAIN nodes /\ d \in Nat /\ s \in Uses /\ d + 1 <= Len(nodes[id].items) /\ d + 1 \in 1..Len(nodes[id].items)
      /\ DOMAIN nodes[id].items = 1..Len(nodes[id].items)
  BY <1>1, <1>2, ItemsAre DEF Size
<1>4. n <= levels /\ id \in Level(nodes, levels - (n - 1))
  BY <1>1, <1>2, WayDescends
<1>5. PICK m : m = levels - (n - 1)
  OBVIOUS
<1>6. m \in Nat /\ m - 1 = levels - n /\ m <= levels
  BY <1>1, <1>4, <1>5
<1>7. /\ m - 1 \in Nat /\ c \in Level(nodes, m - 1)
      /\ nodes[id].kind = "mapping" => KeyNode(nodes, id, d + 1).kind = "scalar"
  BY <1>2, <1>3, <1>4, <1>5, <1>6, BelowLevel, SMTT(30) DEF ChildOf
<1>8. m - 1 # 0 /\ c \in DOMAIN nodes
  BY <1>7, BelowLevel
<1>9. n < levels
  BY <1>1, <1>6, <1>7, <1>8
<1>10. c \in Level(nodes, levels) /\ id \in Level(nodes, levels)
  <2>1. Level(nodes, m - 1) \subseteq Level(nodes, levels) /\ Level(nodes, m) \subseteq Level(nodes, levels)
    BY <1>6, <1>7, LevelsGrow
  <2> QED BY <1>4, <1>5, <1>7, <2>1
<1>11. PICK a, b, h, t : /\ a = Part(nodes, levels, id, d) /\ b = NameCost(nodes, id, d + 1)
                         /\ h = Charge(nodes, levels, c) /\ t = Charge(nodes, levels, 1)
  OBVIOUS
<1>12. a \in Uses /\ b \in Uses /\ h \in Uses /\ t \in Uses /\ OwnCost(nodes, c) \in Uses
  <2>1. d \in 0..Len(nodes[id].items)
    BY <1>3
  <2>2. a \in Uses
    BY <1>10, <1>11, <2>1, PartsFit
  <2>3. h \in Uses /\ t \in Uses
    BY <1>10, <1>11, PartsFit
  <2>4. b \in Uses
    BY <1>3, <1>11, OwnCostIs
  <2> QED BY <1>8, <2>2, <2>3, <2>4, OwnCostIs
<1>13. e = Consume(s, Consume(a, b))
  BY <1>2, <1>11 DEF SpentOn
<1>14. Consume(a, b) \in Uses /\ e \in Uses
  BY <1>3, <1>12, <1>13, SumIs
<1>15. Consume(e, h) = Consume(s, Part(nodes, levels, id, d + 1))
  <2>1. Part(nodes, levels, id, d + 1) = Consume(Consume(a, b), h)
    <3>1. c = nodes[id].items[d + 1].node
      BY <1>2 DEF ChildOf
    <3>2. Part(nodes, levels, id, d) \in Uses /\ Charge(nodes, levels, nodes[id].items[d + 1].node) \in Uses
      BY <1>11, <1>12, <3>1
    <3>3. Part(nodes, levels, id, d + 1) = Consume(Consume(Part(nodes, levels, id, d), NameCost(nodes, id, d + 1)),
                                                   Charge(nodes, levels, nodes[id].items[d + 1].node))
      BY <1>3, <3>2, PartGrows
    <3> QED BY <1>11, <3>1, <3>3
  <2>2. Consume(Consume(s, Consume(a, b)), h) = Consume(s, Consume(Consume(a, b), h))
    BY <1>3, <1>12, <1>14, SumsAssociate
  <2> QED BY <1>13, <2>1, <2>2
<1>16. PICK v : /\ Way(nodes, levels, v) /\ Len(v) = n + 1 /\ \A i \in 1..n : v[i] = w[i]
                /\ v[n + 1].node = c /\ v[n + 1].done = 0 /\ v[n + 1].spent = e
  <2>1. Way(nodes, levels, w) /\ n = Len(w) /\ w[n].done < Size(nodes, w[n].node) /\ SpentOn(nodes, levels, w[n]) \in Uses
    BY <1>14
  <2>2. \E v : /\ Way(nodes, levels, v) /\ Len(v) = n + 1 /\ \A i \in 1..n : v[i] = w[i]
               /\ v[n + 1].node = ChildOf(nodes, w[n].node, w[n].done + 1) /\ v[n + 1].done = 0
               /\ v[n + 1].spent = SpentOn(nodes, levels, w[n])
    BY <2>1, WayGoesOn
  <2> QED BY <2>2
<1>17. AtMost(Consume(e, h), t)
  <2>1. n + 1 \in 1..Len(v)
    BY <1>1, <1>16
  <2> QED BY <1>11, <1>16, <2>1, WayFits
<1>18. AtMost(OwnCost(nodes, c), h)
  <2>1. 0 \in 0..Len(nodes[c].items)
    BY <1>8, ItemsAre
  <2>2. AtMost(Part(nodes, levels, c, 0), Charge(nodes, levels, c))
    BY <1>10, <2>1, PartsFit
  <2> QED BY <1>8, <1>11, <2>2, PartIs
<1> QED BY <1>1, <1>2, <1>7, <1>8, <1>9, <1>11, <1>12, <1>14, <1>15, <1>16, <1>17, <1>18

\* What was spent, and so many entries that are to be, is no more than r.
Covers(u, k, r) == u.nodes <= r.nodes /\ u.strings <= r.strings /\ u.entries + k <= r.entries

LEMMA CoversMore ==
    ASSUME NEW u \in Uses, NEW k \in Nat, NEW r \in Uses, NEW s \in Uses, Covers(u, k, r), AtMost(r, s)
    PROVE  Covers(u, k, s) /\ AtMost(u, s)
<1>1. /\ u.nodes \in Nat /\ u.strings \in Nat /\ u.entries \in Nat /\ r.nodes \in Nat /\ r.strings \in Nat /\ r.entries \in Nat
      /\ s.nodes \in Nat /\ s.strings \in Nat /\ s.entries \in Nat
  BY UseIs
<1>2. /\ u.nodes <= r.nodes /\ u.strings <= r.strings /\ u.entries + k <= r.entries
      /\ r.nodes <= s.nodes /\ r.strings <= s.strings /\ r.entries <= s.entries
  BY DEF Covers, AtMost
<1>3. u.nodes <= s.nodes /\ u.strings <= s.strings /\ u.entries + k <= s.entries /\ u.entries <= s.entries
  BY <1>1, <1>2
<1> QED BY <1>3 DEF Covers, AtMost

LEMMA PaidFor ==
    ASSUME NEW u \in Uses, NEW r \in Uses, NEW h \in Uses, NEW k \in Nat, NEW n \in Nat, NEW x \in Nat, NEW z \in Nat, NEW m \in Nat,
           Covers(u, k, r), z <= k, n <= h.nodes, x <= h.strings, m <= h.entries
    PROVE  Consume(u, Cost(n, x, z)) \in Uses /\ (k - z) + m \in Nat /\ Covers(Consume(u, Cost(n, x, z)), (k - z) + m, Consume(r, h))
<1>1. /\ u.nodes \in Nat /\ u.strings \in Nat /\ u.entries \in Nat /\ r.nodes \in Nat /\ r.strings \in Nat /\ r.entries \in Nat
      /\ h.nodes \in Nat /\ h.strings \in Nat /\ h.entries \in Nat
  BY UseIs
<1>2. PICK c, v, s : c = Cost(n, x, z) /\ v = Consume(u, c) /\ s = Consume(r, h)
  OBVIOUS
<1>3. c \in Uses /\ c.nodes = n /\ c.strings = x /\ c.entries = z
  BY <1>2, CostIs
<1>4. /\ v \in Uses /\ v.nodes = u.nodes + n /\ v.strings = u.strings + x /\ v.entries = u.entries + z
      /\ s.nodes = r.nodes + h.nodes /\ s.strings = r.strings + h.strings /\ s.entries = r.entries + h.entries
  BY <1>2, <1>3, SumIs
<1>5. u.nodes <= r.nodes /\ u.strings <= r.strings /\ u.entries + k <= r.entries
  BY DEF Covers
<1>6. (k - z) + m \in Nat /\ u.nodes + n <= r.nodes + h.nodes /\ u.strings + x <= r.strings + h.strings
      /\ (u.entries + z) + ((k - z) + m) <= r.entries + h.entries
  BY <1>1, <1>5
<1> QED BY <1>2, <1>4, <1>6 DEF Covers

Reached(nodes, levels, keyed, stop) ==
    IF keyed THEN SpentOn(nodes, levels, stop) ELSE Consume(stop.spent, Part(nodes, levels, stop.node, stop.done))
\* The entries of the items that are to come, those left for it by the stops above among them.
Owes(nodes, levels, keyed, stop, left, u) ==
    \E owed \in Nat : /\ owed + stop.done + (IF keyed THEN 1 ELSE 0) = left + Size(nodes, stop.node)
                      /\ Covers(u, owed, Reached(nodes, levels, keyed, stop))
MarkFits(nodes, mark, stop) ==
    /\ mark.node = stop.node /\ mark.done = stop.done /\ nodes[stop.node].kind \in {"sequence", "mapping"}
    /\ mark.keyed => nodes[stop.node].kind = "mapping" /\ stop.done < Size(nodes, stop.node)
\* The item of a container is being read.
Within(nodes, mark, stop, left, leftBelow) ==
    /\ nodes[stop.node].kind = "mapping" => mark.keyed
    /\ leftBelow + stop.done + 1 = left + Size(nodes, stop.node)
\* The open containers are those on a way; the build will have spent what the preflight has, with the
\* entries that it owes.
OpenOnWay(nodes, levels, o, w, l, u) ==
    /\ o \in Seq(Marks(nodes)) /\ l \in Seq(Nat) /\ Way(nodes, levels, w) /\ Len(o) = Len(w) /\ Len(l) = Len(w)
    /\ \A i \in 1..Len(w) : MarkFits(nodes, o[i], w[i])
    /\ \A i \in 1..Len(w) : i # Len(w) => Within(nodes, o[i], w[i], l[i], l[i + 1])
    /\ u \in Uses /\ Owes(nodes, levels, o[Len(w)].keyed, w[Len(w)], l[Len(w)], u)

LEMMA MarkIs ==
    ASSUME NEW nodes, NEW top \in Marks(nodes), NEW m, m = WithPart(nodes, top)
    PROVE  /\ m \in Marks(nodes) /\ m.node = top.node
           /\ nodes[top.node].kind = "mapping" /\ ~top.keyed => m.done = top.done /\ m.keyed
           /\ ~(nodes[top.node].kind = "mapping" /\ ~top.keyed) => m.done = top.done + 1 /\ ~m.keyed
<1>1. /\ top = [node |-> top.node, done |-> top.done, keyed |-> top.keyed]
      /\ top.node \in DOMAIN nodes /\ top.done \in Nat /\ top.keyed \in BOOLEAN
  BY DEF Marks
<1>2. CASE nodes[top.node].kind = "mapping" /\ ~top.keyed
  <2>1. m = [node |-> top.node, done |-> top.done, keyed |-> TRUE]
    BY <1>1, <1>2 DEF WithPart
  <2>2. m.node = top.node /\ m.done = top.done /\ m.keyed
    BY <2>1
  <2>3. m \in Marks(nodes)
    BY <1>1, <2>1 DEF Marks
  <2> QED BY <1>2, <2>2, <2>3
<1>3. CASE ~(nodes[top.node].kind = "mapping" /\ ~top.keyed)
  <2>1. m = [node |-> top.node, done |-> top.done + 1, keyed |-> FALSE]
    BY <1>1, <1>3 DEF WithPart
  <2>2. m.node = top.node /\ m.done = top.done + 1 /\ ~m.keyed
    BY <2>1
  <2>3. m \in Marks(nodes)
    BY <1>1, <2>1 DEF Marks
  <2> QED BY <1>3, <2>2, <2>3
<1> QED BY <1>2, <1>3

LEMMA PartReadIs ==
    ASSUME NEW nodes, NEW o \in Seq(Marks(nodes)), NEW n, n = Len(o), n # 0, NEW m, m = WithPart(nodes, o[n]), NEW q, q = PartRead(nodes, o)
    PROVE  q \in Seq(Marks(nodes)) /\ Len(q) = n /\ q[n] = m /\ \A i \in 1..n : i # n => q[i] = o[i]
<1>1. n \in Nat /\ n \in 1..n /\ o # <<>>
  <2>1. Len(o) \in Nat /\ Len(<<>>) = 0
    BY LenProperties, EmptySeq
  <2> QED BY <2>1
<1>2. o[n] \in Marks(nodes)
  BY <1>1, ElementOfSeq
<1>3. m \in Marks(nodes)
  BY <1>2, MarkIs
<1>4. q = [o EXCEPT ![n] = m]
  BY <1>1 DEF PartRead
<1> QED BY <1>1, <1>3, <1>4, ExceptSeq

LEMMA OpenedIs ==
    ASSUME NEW nodes, IsGraph(nodes), NEW levels, NEW o, NEW w, NEW l, NEW u, OpenOnWay(nodes, levels, o, w, l, u), NEW n, n = Len(w)
    PROVE  /\ n \in Nat /\ n # 0 /\ n \in 1..n
           /\ o \in Seq(Marks(nodes)) /\ l \in Seq(Nat) /\ Way(nodes, levels, w) /\ Len(o) = n /\ Len(l) = n
           /\ o[n] \in Marks(nodes) /\ l[n] \in Nat /\ u \in Uses
           /\ o[n].node = w[n].node /\ o[n].done = w[n].done
           /\ w[n].node \in DOMAIN nodes /\ w[n].done \in Nat /\ w[n].spent \in Uses
           /\ w[n].done <= Size(nodes, w[n].node) /\ Size(nodes, w[n].node) \in Nat
           /\ nodes[w[n].node].kind \in {"sequence", "mapping"}
           /\ o[n].keyed => nodes[w[n].node].kind = "mapping" /\ w[n].done < Size(nodes, w[n].node)
           /\ Owes(nodes, levels, o[n].keyed, w[n], l[n], u)
           /\ \A i \in 1..n : MarkFits(nodes, o[i], w[i]) /\ (i # n => Within(nodes, o[i], w[i], l[i], l[i + 1]))
<1>1. o \in Seq(Marks(nodes)) /\ l \in Seq(Nat) /\ Way(nodes, levels, w) /\ Len(o) = n /\ Len(l) = n
  BY DEF OpenOnWay
<1>2. n \in Nat /\ n # 0 /\ n \in 1..n /\ w[n].node \in DOMAIN nodes /\ w[n].done \in Nat /\ w[n].spent \in Uses
  BY <1>1, WayIs
<1>3. w[n].done <= Size(nodes, w[n].node)
  BY <1>2 DEF OpenOnWay, Way
<1>4. Size(nodes, w[n].node) \in Nat
  BY <1>2, ItemsAre DEF Size
<1>5. o[n] \in Marks(nodes) /\ l[n] \in Nat
  BY <1>1, <1>2, ElementOfSeq
<1>6. /\ u \in Uses /\ Owes(nodes, levels, o[n].keyed, w[n], l[n], u)
      /\ \A i \in 1..n : MarkFits(nodes, o[i], w[i]) /\ (i # n => Within(nodes, o[i], w[i], l[i], l[i + 1]))
  BY DEF OpenOnWay
<1>7. /\ o[n].node = w[n].node /\ o[n].done = w[n].done /\ nodes[w[n].node].kind \in {"sequence", "mapping"}
      /\ o[n].keyed => nodes[w[n].node].kind = "mapping" /\ w[n].done < Size(nodes, w[n].node)
  BY <1>2, <1>6 DEF MarkFits
<1> QED BY <1>1, <1>2, <1>3, <1>4, <1>5, <1>6, <1>7

\* The key of an item is read.
LEMMA KeyIsRead ==
    ASSUME NEW nodes, IsGraph(nodes), NEW levels \in Nat, 1 \in Level(nodes, levels),
           NEW o, NEW w, NEW l, NEW u, OpenOnWay(nodes, levels, o, w, l, u), NEW n, n = Len(o),
           o[n].done < Size(nodes, o[n].node), nodes[o[n].node].kind = "mapping", ~o[n].keyed,
           NEW x \in Nat, x <= KeyNode(nodes, o[n].node, o[n].done + 1).size,
           NEW q, q = PartRead(nodes, o), NEW v, v = Consume(u, Cost(0, x, 1))
    PROVE  OpenOnWay(nodes, levels, q, w, l, v) /\ v \in Uses /\ AtMost(v, Charge(nodes, levels, 1))
<1>1. n = Len(w)
  BY DEF OpenOnWay
<1>2. /\ n \in Nat /\ n # 0 /\ n \in 1..n
      /\ o \in Seq(Marks(nodes)) /\ l \in Seq(Nat) /\ Way(nodes, levels, w) /\ Len(l) = n
      /\ o[n] \in Marks(nodes) /\ l[n] \in Nat /\ u \in Uses
      /\ o[n].node = w[n].node /\ o[n].done = w[n].done
      /\ w[n].node \in DOMAIN nodes /\ w[n].done \in Nat /\ w[n].spent \in Uses /\ Size(nodes, w[n].node) \in Nat
      /\ Owes(nodes, levels, o[n].keyed, w[n], l[n], u)
      /\ \A i \in 1..n : MarkFits(nodes, o[i], w[i]) /\ (i # n => Within(nodes, o[i], w[i], l[i], l[i + 1]))
  BY <1>1, OpenedIs
<1>3. PICK id, d, s, c, e : /\ id = w[n].node /\ d = w[n].done /\ s = w[n].spent
                            /\ c = ChildOf(nodes, w[n].node, w[n].done + 1) /\ e = SpentOn(nodes, levels, w[n])
  OBVIOUS
<1>4. /\ e \in Uses /\ Charge(nodes, levels, c) \in Uses /\ Charge(nodes, levels, 1) \in Uses
      /\ NameCost(nodes, id, d + 1) \in Uses /\ Part(nodes, levels, id, d) \in Uses
      /\ AtMost(Consume(e, Charge(nodes, levels, c)), Charge(nodes, levels, 1))
  <2>1. w[n].done < Size(nodes, w[n].node)
    BY <1>2
  <2> QED BY <1>1, <1>2, <1>3, <2>1, NextOnWay
<1>5. PICK p, b, r, t, h : /\ p = Part(nodes, levels, id, d) /\ b = NameCost(nodes, id, d + 1) /\ r = Consume(s, p)
                           /\ t = Charge(nodes, levels, 1) /\ h = Charge(nodes, levels, c)
  OBVIOUS
<1>6. r \in Uses /\ e = Consume(r, b)
  <2>1. e = Consume(s, Consume(p, b))
    BY <1>3, <1>5 DEF SpentOn
  <2>2. s \in Uses /\ p \in Uses /\ b \in Uses
    BY <1>2, <1>3, <1>4, <1>5
  <2>3. Consume(s, Consume(p, b)) = Consume(Consume(s, p), b)
    BY <2>2, SumsAssociate
  <2>4. Consume(s, p) \in Uses
    BY <2>2, SumIs
  <2> QED BY <1>5, <2>1, <2>3, <2>4
<1>7. PICK owed \in Nat : owed + d + 0 = l[n] + Size(nodes, id) /\ Covers(u, owed, r)
  BY <1>2, <1>3, <1>5 DEF Owes, Reached
<1>8. 1 <= owed /\ (owed - 1) + 0 \in Nat /\ owed - 1 \in Nat /\ (owed - 1) + d + 1 = l[n] + Size(nodes, id) /\ (owed - 1) + 0 = owed - 1
  <2>1. PICK z, y : z = Size(nodes, id) /\ y = l[n]
    OBVIOUS
  <2>2. z \in Nat /\ y \in Nat /\ d \in Nat /\ d < z
    BY <1>2, <1>3, <2>1
  <2>3. owed + d + 0 = y + z
    BY <1>7, <2>1
  <2>4. 1 <= owed /\ (owed - 1) + 0 \in Nat /\ owed - 1 \in Nat /\ (owed - 1) + d + 1 = y + z /\ (owed - 1) + 0 = owed - 1
    BY <2>2, <2>3
  <2> QED BY <2>1, <2>4
<1>9. x <= b.strings /\ 0 <= b.nodes /\ 0 <= b.entries
  <2>1. b = Cost(0, KeyNode(nodes, id, d + 1).size, 0)
    BY <1>2, <1>3, <1>5 DEF NameCost
  <2>2. b.strings = KeyNode(nodes, id, d + 1).size
    BY <2>1 DEF Cost
  <2>3. b.nodes \in Nat /\ b.entries \in Nat
    BY <1>4, <1>5, UseIs
  <2> QED BY <1>2, <1>3, <2>2, <2>3
<1>10. v \in Uses /\ Covers(v, owed - 1, e)
  <2>1. Consume(u, Cost(0, x, 1)) \in Uses /\ Covers(Consume(u, Cost(0, x, 1)), (owed - 1) + 0, Consume(r, b))
    <3>1. b \in Uses /\ 0 \in Nat /\ 1 \in Nat
      BY <1>4, <1>5
    <3> QED BY <1>2, <1>6, <1>7, <1>8, <1>9, <3>1, PaidFor
  <2> QED BY <1>6, <1>8, <2>1
<1>11. AtMost(v, t)
  <2>1. AtMost(e, Consume(e, h)) /\ Consume(e, h) \in Uses
    BY <1>4, <1>5, SumIsMore, SumIs
  <2>2. AtMost(v, e)
    BY <1>4, <1>8, <1>10, CoversMore, AtMostItself
  <2>3. AtMost(v, Consume(e, h))
    BY <1>4, <1>10, <2>1, <2>2, AtMostTransitive
  <2> QED BY <1>4, <1>5, <1>10, <2>1, <2>3, AtMostTransitive
<1>12. PICK m : m = WithPart(nodes, o[n])
  OBVIOUS
<1>13. m \in Marks(nodes) /\ m.node = id /\ m.done = d /\ m.keyed
  <2>1. m \in Marks(nodes) /\ m.node = o[n].node /\ m.done = o[n].done /\ m.keyed
    BY <1>2, <1>12, MarkIs
  <2>2. o[n].node = id /\ o[n].done = d
    BY <1>2, <1>3
  <2>3. m.node = id /\ m.done = d
    BY <2>1, <2>2
  <2> QED BY <2>1, <2>3
<1>14. q \in Seq(Marks(nodes)) /\ Len(q) = n /\ q[n] = m /\ \A i \in 1..n : i # n => q[i] = o[i]
  <2>1. o \in Seq(Marks(nodes)) /\ n = Len(o) /\ n # 0
    BY <1>2
  <2> QED BY <1>12, <2>1, PartReadIs
<1>15. \A i \in 1..n : MarkFits(nodes, q[i], w[i])
  <2>1. MarkFits(nodes, m, w[n])
    BY <1>2, <1>3, <1>13 DEF MarkFits
  <2> QED BY <1>2, <1>14, <2>1
<1>16. Owes(nodes, levels, q[n].keyed, w[n], l[n], v)
  BY <1>3, <1>8, <1>10, <1>13, <1>14 DEF Owes, Reached
<1>17. \A i \in 1..n : i # n => Within(nodes, q[i], w[i], l[i], l[i + 1])
  BY <1>2, <1>14
<1>18. OpenOnWay(nodes, levels, q, w, l, v)
  BY <1>1, <1>2, <1>10, <1>14, <1>15, <1>16, <1>17 DEF OpenOnWay
<1> QED BY <1>5, <1>10, <1>11, <1>18

LEMMA ReachedIs ==
    ASSUME NEW nodes, IsGraph(nodes), NEW levels \in Nat, 1 \in Level(nodes, levels), NEW w, Way(nodes, levels, w), NEW n, n = Len(w),
           w[n].done < Size(nodes, w[n].node), NEW keyed, keyed \/ nodes[w[n].node].kind # "mapping"
    PROVE  Reached(nodes, levels, keyed, w[n]) = SpentOn(nodes, levels, w[n])
<1>1. CASE keyed
  BY <1>1 DEF Reached
<1>2. CASE ~keyed
  <2>1. PICK id, d, s, p, b : /\ id = w[n].node /\ d = w[n].done /\ s = w[n].spent
                              /\ p = Part(nodes, levels, id, d) /\ b = NameCost(nodes, id, d + 1)
    OBVIOUS
  <2>2. id \in DOMAIN nodes /\ d \in Nat /\ p \in Uses
    <3>1. Part(nodes, levels, w[n].node, w[n].done) \in Uses
      <4>1. PICK c, e : c = ChildOf(nodes, w[n].node, w[n].done + 1) /\ e = SpentOn(nodes, levels, w[n])
        OBVIOUS
      <4> QED BY <4>1, NextOnWay
    <3> QED BY <2>1, <3>1, WayIs
  <2>3. d + 1 \in 1..Len(nodes[id].items)
    <3>1. Len(nodes[id].items) \in Nat /\ d < Len(nodes[id].items)
      BY <2>1, <2>2, ItemsAre DEF Size
    <3> QED BY <2>2, <3>1
  <2>4. Consume(p, b) = p
    <3>1. nodes[id].kind # "mapping"
      BY <1>2, <2>1
    <3> QED BY <2>1, <2>2, <2>3, <3>1, NameCostIs
  <2> QED BY <1>2, <2>1, <2>4 DEF Reached, SpentOn
<1> QED BY <1>1, <1>2

\* A value in a container is begun: it costs no more than the node does.
LEMMA ValueIsPaid ==
    ASSUME NEW nodes, IsGraph(nodes), NEW levels \in Nat, 1 \in Level(nodes, levels),
           NEW o, NEW w, NEW l, NEW u, OpenOnWay(nodes, levels, o, w, l, u), NEW n, n = Len(o),
           o[n].done < Size(nodes, o[n].node), nodes[o[n].node].kind = "mapping" => o[n].keyed,
           NEW c, c = ChildOf(nodes, o[n].node, o[n].done + 1), NEW x \in Nat, x <= OwnCost(nodes, c).strings,
           NEW z, z = IF nodes[o[n].node].kind = "sequence" THEN 1 ELSE 0, NEW v, v = Consume(u, Cost(1, x, z))
    PROVE  /\ n < levels /\ n \in Nat /\ c \in DOMAIN nodes /\ v \in Uses /\ AtMost(v, Charge(nodes, levels, 1))
           /\ Size(nodes, c) \in Nat
           /\ \E k \in Nat : /\ k + w[n].done + 1 = l[n] + Size(nodes, w[n].node)
                             /\ Covers(v, k + Size(nodes, c), Consume(SpentOn(nodes, levels, w[n]), OwnCost(nodes, c)))
<1>1. n = Len(w)
  BY DEF OpenOnWay
<1>2. /\ n \in Nat /\ n # 0 /\ Way(nodes, levels, w)
      /\ l[n] \in Nat /\ u \in Uses /\ o[n].node = w[n].node /\ o[n].done = w[n].done
      /\ w[n].node \in DOMAIN nodes /\ w[n].done \in Nat /\ Size(nodes, w[n].node) \in Nat
      /\ nodes[w[n].node].kind \in {"sequence", "mapping"}
      /\ o[n].keyed => nodes[w[n].node].kind = "mapping"
      /\ Owes(nodes, levels, o[n].keyed, w[n], l[n], u)
  BY <1>1, OpenedIs
<1>3. PICK id, d, y, e, a : id = w[n].node /\ d = w[n].done /\ y = Size(nodes, id) /\ e = SpentOn(nodes, levels, w[n]) /\ a = l[n]
  OBVIOUS
<1>4. /\ o[n].node = id /\ o[n].done = d /\ y \in Nat /\ d \in Nat /\ a \in Nat /\ d < y /\ id \in DOMAIN nodes
      /\ c = ChildOf(nodes, w[n].node, w[n].done + 1) /\ w[n].done < Size(nodes, w[n].node)
  BY <1>2, <1>3
<1>5. /\ n < levels /\ c \in DOMAIN nodes
      /\ e \in Uses /\ OwnCost(nodes, c) \in Uses /\ Charge(nodes, levels, c) \in Uses /\ Charge(nodes, levels, 1) \in Uses
      /\ AtMost(OwnCost(nodes, c), Charge(nodes, levels, c))
      /\ AtMost(Consume(e, Charge(nodes, levels, c)), Charge(nodes, levels, 1))
  BY <1>1, <1>2, <1>3, <1>4, NextOnWay
<1>6. PICK h, t, g : h = OwnCost(nodes, c) /\ t = Charge(nodes, levels, 1) /\ g = Charge(nodes, levels, c)
  OBVIOUS
<1>7. h \in Uses /\ t \in Uses /\ g \in Uses /\ AtMost(h, g) /\ AtMost(Consume(e, g), t)
  BY <1>5, <1>6
<1>8. Reached(nodes, levels, o[n].keyed, w[n]) = e
  <2>1. o[n].keyed \/ nodes[w[n].node].kind # "mapping"
    BY <1>2
  <2>2. PICK f : f = o[n].keyed
    OBVIOUS
  <2> QED BY <1>1, <1>2, <1>3, <1>4, <2>1, ReachedIs
<1>9. PICK owed \in Nat : owed + d + (IF o[n].keyed THEN 1 ELSE 0) = a + y /\ Covers(u, owed, e)
  BY <1>2, <1>3, <1>8 DEF Owes
<1>10. z \in {0, 1} /\ z <= owed /\ (owed - z) \in Nat /\ (owed - z) + d + 1 = a + y
  <2>1. CASE nodes[id].kind = "mapping"
    <3>1. o[n].keyed /\ z = 0
      BY <1>4, <2>1
    <3>2. owed + d + 1 = a + y
      BY <1>9, <3>1
    <3> QED BY <1>4, <3>1, <3>2
  <2>2. CASE nodes[id].kind = "sequence"
    <3>1. ~o[n].keyed /\ z = 1
      BY <1>2, <1>3, <1>4, <2>2
    <3>2. owed + d + 0 = a + y
      BY <1>9, <3>1
    <3> QED BY <1>4, <3>1, <3>2
  <2> QED BY <1>2, <1>3, <2>1, <2>2
<1>11. Size(nodes, c) \in Nat /\ h.nodes = 1 /\ h.entries = Size(nodes, c)
  <2>1. Len(nodes[c].items) \in Nat
    BY <1>5, ItemsAre
  <2> QED BY <1>6, <2>1 DEF OwnCost, Cost, Size
<1>12. PICK m : m = Size(nodes, c)
  OBVIOUS
<1>13. v \in Uses /\ Covers(v, (owed - z) + m, Consume(e, h))
  <2>1. /\ z \in Nat /\ m \in Nat /\ 1 \in Nat /\ 1 <= h.nodes /\ x <= h.strings /\ m <= h.entries
    BY <1>6, <1>10, <1>11, <1>12
  <2>2. u \in Uses /\ e \in Uses /\ h \in Uses /\ owed \in Nat /\ x \in Nat /\ z <= owed /\ Covers(u, owed, e)
    BY <1>2, <1>5, <1>7, <1>9, <1>10
  <2>3. v = Consume(u, Cost(1, x, z))
    OBVIOUS
  <2>4. Consume(u, Cost(1, x, z)) \in Uses /\ Covers(Consume(u, Cost(1, x, z)), (owed - z) + m, Consume(e, h))
    BY <2>1, <2>2, PaidFor
  <2> QED BY <2>3, <2>4
<1>14. AtMost(v, t)
  <2>1. (owed - z) + m \in Nat
    BY <1>10, <1>11, <1>12
  <2>2. Consume(e, h) \in Uses /\ Consume(e, g) \in Uses
    BY <1>5, <1>7, SumIs
  <2>3. AtMost(Consume(e, h), Consume(e, g))
    BY <1>5, <1>7, SumAtMost, AtMostItself
  <2>4. AtMost(v, Consume(e, h))
    BY <1>13, <2>1, <2>2, CoversMore, AtMostItself
  <2>5. AtMost(v, Consume(e, g))
    BY <1>13, <2>2, <2>3, <2>4, AtMostTransitive
  <2> QED BY <1>7, <1>13, <2>2, <2>5, AtMostTransitive
<1>15. \E k \in Nat : k + d + 1 = a + y /\ Covers(v, k + m, Consume(e, h))
  BY <1>10, <1>13
<1>16. \E k \in Nat : /\ k + w[n].done + 1 = l[n] + Size(nodes, w[n].node)
                      /\ Covers(v, k + Size(nodes, c), Consume(SpentOn(nodes, levels, w[n]), OwnCost(nodes, c)))
  BY <1>3, <1>6, <1>12, <1>15
<1> QED BY <1>2, <1>5, <1>6, <1>11, <1>13, <1>14, <1>16

PastItem(w, v, n) ==
    /\ Len(v) = n /\ \A i \in 1..n : i # n => v[i] = w[i]
    /\ v[n].node = w[n].node /\ v[n].done = w[n].done + 1
Stand(nodes, o, w, l, n) ==
    \A i \in 1..n : MarkFits(nodes, o[i], w[i]) /\ (i # n => Within(nodes, o[i], w[i], l[i], l[i + 1]))

LEMMA OpenStands ==
    ASSUME NEW nodes, NEW levels, NEW o, NEW w, NEW l, NEW u, OpenOnWay(nodes, levels, o, w, l, u), NEW n, n = Len(w)
    PROVE  Stand(nodes, o, w, l, n)
BY DEF OpenOnWay, Stand

\* The open containers with the item after those read of the last one opened too.
OpenedItem(nodes, levels, w, v, n) ==
    /\ Len(v) = n + 1 /\ \A i \in 1..n : v[i] = w[i]
    /\ v[n + 1].node = ChildOf(nodes, w[n].node, w[n].done + 1) /\ v[n + 1].done = 0
    /\ v[n + 1].spent = SpentOn(nodes, levels, w[n])

LEMMA WayOpens ==
    ASSUME NEW nodes, IsGraph(nodes), NEW levels, NEW w, Way(nodes, levels, w), NEW n, n = Len(w),
           w[n].done < Size(nodes, w[n].node), SpentOn(nodes, levels, w[n]) \in Uses
    PROVE  \E v : Way(nodes, levels, v) /\ OpenedItem(nodes, levels, w, v, n)
<1>1. PICK v : /\ Way(nodes, levels, v) /\ Len(v) = n + 1 /\ \A i \in 1..n : v[i] = w[i]
               /\ v[n + 1].node = ChildOf(nodes, w[n].node, w[n].done + 1) /\ v[n + 1].done = 0
               /\ v[n + 1].spent = SpentOn(nodes, levels, w[n])
  BY WayGoesOn
<1> QED BY <1>1 DEF OpenedItem

\* The innermost open container can be left.
Passes(nodes, levels, w, n) == \E v : Way(nodes, levels, v) /\ PastItem(w, v, n) /\ v[n].spent = w[n].spent

LEMMA WayPasses ==
    ASSUME NEW nodes, IsGraph(nodes), NEW levels, NEW w, Way(nodes, levels, w), NEW n \in Nat, n # 0, Len(w) = n + 1
    PROVE  Passes(nodes, levels, w, n)
<1>1. PICK v : /\ Way(nodes, levels, v) /\ Len(v) = n /\ \A i \in 1..n : i # n => v[i] = w[i]
               /\ v[n].node = w[n].node /\ v[n].done = w[n].done + 1 /\ v[n].spent = w[n].spent
  BY WayGoesBack
<1>2. Way(nodes, levels, v) /\ PastItem(w, v, n) /\ v[n].spent = w[n].spent
  BY <1>1 DEF PastItem
<1> QED BY <1>2 DEF Passes

\* The item of a container was read.
LEMMA ItemIsPast ==
    ASSUME NEW nodes, IsGraph(nodes), NEW levels, NEW o \in Seq(Marks(nodes)), NEW l \in Seq(Nat), NEW n \in Nat, n # 0,
           Len(o) = n, Len(l) = n, NEW w, Stand(nodes, o, w, l, n), w[n].done \in Nat, NEW v, Way(nodes, levels, v), PastItem(w, v, n),
           NEW k \in Nat, Within(nodes, o[n], w[n], l[n], k), NEW u \in Uses,
           Covers(u, k, Consume(v[n].spent, Part(nodes, levels, v[n].node, v[n].done))), NEW q, q = PartRead(nodes, o)
    PROVE  OpenOnWay(nodes, levels, q, v, l, u)
<1>1. /\ Len(v) = n /\ \A i \in 1..n : i # n => v[i] = w[i]
      /\ v[n].node = w[n].node /\ v[n].done = w[n].done + 1 /\ n \in 1..n
  BY DEF PastItem
<1>2. \A i \in 1..n : MarkFits(nodes, o[i], w[i]) /\ (i # n => Within(nodes, o[i], w[i], l[i], l[i + 1]))
  BY DEF Stand
<1>3. o[n] \in Marks(nodes) /\ l[n] \in Nat
  BY <1>1, ElementOfSeq
<1>4. PICK id, d, y, a : id = w[n].node /\ d = w[n].done /\ y = Size(nodes, id) /\ a = l[n]
  OBVIOUS
<1>5. /\ o[n].node = id /\ o[n].done = d /\ nodes[id].kind \in {"sequence", "mapping"} /\ id \in DOMAIN nodes
      /\ nodes[id].kind = "mapping" => o[n].keyed
      /\ k + d + 1 = a + y
  <2>1. MarkFits(nodes, o[n], w[n])
    BY <1>1, <1>2
  <2>2. o[n].node \in DOMAIN nodes
    BY <1>3 DEF Marks
  <2> QED BY <1>4, <2>1, <2>2 DEF MarkFits, Within
<1>6. d \in Nat /\ y \in Nat /\ a \in Nat /\ k + (d + 1) = a + y
  <2>1. y \in Nat
    BY <1>4, <1>5, ItemsAre DEF Size
  <2> QED BY <1>3, <1>4, <1>5, <2>1
<1>7. PICK m : m = WithPart(nodes, o[n])
  OBVIOUS
<1>8. m \in Marks(nodes) /\ m.node = id /\ m.done = d + 1 /\ ~m.keyed
  <2>1. ~(nodes[o[n].node].kind = "mapping" /\ ~o[n].keyed)
    BY <1>5
  <2>2. m \in Marks(nodes) /\ m.node = o[n].node /\ m.done = o[n].done + 1 /\ ~m.keyed
    BY <1>3, <1>7, <2>1, MarkIs
  <2>3. m.node = id /\ m.done = d + 1
    BY <1>5, <2>2
  <2> QED BY <2>2, <2>3
<1>9. q \in Seq(Marks(nodes)) /\ Len(q) = n /\ q[n] = m /\ \A i \in 1..n : i # n => q[i] = o[i]
  <2>1. o \in Seq(Marks(nodes)) /\ n = Len(o) /\ n # 0
    OBVIOUS
  <2> QED BY <1>7, <2>1, PartReadIs
<1>10. \A i \in 1..n : MarkFits(nodes, q[i], v[i])
  <2>1. v[n].node = id /\ v[n].done = d + 1
    BY <1>1, <1>4
  <2>2. MarkFits(nodes, m, v[n])
    BY <1>5, <1>8, <2>1 DEF MarkFits
  <2> QED BY <1>1, <1>2, <1>9, <2>2
<1>11. \A i \in 1..n : i # n => Within(nodes, q[i], v[i], l[i], l[i + 1])
  BY <1>1, <1>2, <1>9
<1>12. Owes(nodes, levels, q[n].keyed, v[n], l[n], u)
  <2>1. v[n].node = id /\ v[n].done = d + 1 /\ ~q[n].keyed
    BY <1>1, <1>4, <1>8, <1>9
  <2>2. k + v[n].done + 0 = l[n] + Size(nodes, v[n].node)
    BY <1>4, <1>6, <2>1
  <2> QED BY <2>1, <2>2 DEF Owes, Reached
<1> QED BY <1>1, <1>9, <1>10, <1>11, <1>12 DEF OpenOnWay

\* A scalar or an alias is read as the value of an item.
LEMMA ValueIsRead ==
    ASSUME NEW nodes, IsGraph(nodes), NEW levels \in Nat, 1 \in Level(nodes, levels),
           NEW o, NEW w, NEW l, NEW u, OpenOnWay(nodes, levels, o, w, l, u), NEW n, n = Len(o),
           o[n].done < Size(nodes, o[n].node), nodes[o[n].node].kind = "mapping" => o[n].keyed,
           NEW c, c = ChildOf(nodes, o[n].node, o[n].done + 1), NEW x \in Nat, x <= OwnCost(nodes, c).strings,
           NEW z, z = IF nodes[o[n].node].kind = "sequence" THEN 1 ELSE 0, NEW v, v = Consume(u, Cost(1, x, z)),
           NEW q, q = PartRead(nodes, o)
    PROVE  /\ n < levels /\ v \in Uses /\ AtMost(v, Charge(nodes, levels, 1))
           /\ \E t : OpenOnWay(nodes, levels, q, t, l, v)
<1>1. n = Len(w)
  BY DEF OpenOnWay
<1>2. /\ n \in Nat /\ n # 0 /\ Way(nodes, levels, w) /\ o \in Seq(Marks(nodes)) /\ l \in Seq(Nat) /\ Len(o) = n /\ Len(l) = n
      /\ o[n].node = w[n].node /\ o[n].done = w[n].done /\ w[n].done \in Nat
      /\ Stand(nodes, o, w, l, n)
  BY <1>1, OpenedIs, OpenStands
<1>3. /\ n < levels /\ c \in DOMAIN nodes /\ v \in Uses /\ AtMost(v, Charge(nodes, levels, 1)) /\ Size(nodes, c) \in Nat
      /\ \E k \in Nat : /\ k + w[n].done + 1 = l[n] + Size(nodes, w[n].node)
                        /\ Covers(v, k + Size(nodes, c), Consume(SpentOn(nodes, levels, w[n]), OwnCost(nodes, c)))
  BY ValueIsPaid
<1>4. PICK k \in Nat : /\ k + w[n].done + 1 = l[n] + Size(nodes, w[n].node)
                       /\ Covers(v, k + Size(nodes, c), Consume(SpentOn(nodes, levels, w[n]), OwnCost(nodes, c)))
  BY <1>3
<1>5. PICK e : e = SpentOn(nodes, levels, w[n])
  OBVIOUS
<1>6. w[n].done < Size(nodes, w[n].node) /\ c = ChildOf(nodes, w[n].node, w[n].done + 1)
  BY <1>2
<1>7. /\ e \in Uses /\ OwnCost(nodes, c) \in Uses /\ Charge(nodes, levels, c) \in Uses
      /\ AtMost(OwnCost(nodes, c), Charge(nodes, levels, c))
      /\ Consume(e, Charge(nodes, levels, c)) = Consume(w[n].spent, Part(nodes, levels, w[n].node, w[n].done + 1))
  <2>1. Way(nodes, levels, w) /\ n = Len(w) /\ w[n].done < Size(nodes, w[n].node)
    BY <1>1, <1>2, <1>6
  <2> QED BY <1>5, <1>6, <2>1, NextOnWay
<1>8. PICK s : Way(nodes, levels, s) /\ Len(s) = n + 1 /\ \A i \in 1..n : s[i] = w[i]
  <2>1. Way(nodes, levels, w) /\ n = Len(w) /\ SpentOn(nodes, levels, w[n]) \in Uses
    BY <1>1, <1>2, <1>5, <1>7
  <2>2. w[n].done < Size(nodes, w[n].node)
    BY <1>6
  <2>3. PICK v1 : Way(nodes, levels, v1) /\ OpenedItem(nodes, levels, w, v1, n)
    BY <2>1, <2>2, WayOpens
  <2>4. Way(nodes, levels, v1) /\ Len(v1) = n + 1 /\ \A i \in 1..n : v1[i] = w[i]
    BY <2>3 DEF OpenedItem
  <2> QED BY <2>4
<1>9. PICK t : /\ Way(nodes, levels, t) /\ Len(t) = n /\ \A i \in 1..n : i # n => t[i] = s[i]
               /\ t[n].node = s[n].node /\ t[n].done = s[n].done + 1 /\ t[n].spent = s[n].spent
  <2>1. Way(nodes, levels, s) /\ n \in Nat /\ n # 0 /\ Len(s) = n + 1
    BY <1>2, <1>8
  <2>2. Passes(nodes, levels, s, n)
    BY <2>1, WayPasses
  <2>3. PICK v1 : Way(nodes, levels, v1) /\ PastItem(s, v1, n) /\ v1[n].spent = s[n].spent
    BY <2>2 DEF Passes
  <2>4. /\ Way(nodes, levels, v1) /\ Len(v1) = n /\ \A i \in 1..n : i # n => v1[i] = s[i]
        /\ v1[n].node = s[n].node /\ v1[n].done = s[n].done + 1 /\ v1[n].spent = s[n].spent
    BY <2>3 DEF PastItem
  <2> QED BY <2>4
<1>10. s[n] = w[n]
  <2>1. n \in 1..n
    BY <1>2
  <2> QED BY <1>8, <2>1
<1>11. PastItem(w, t, n)
  BY <1>8, <1>9, <1>10 DEF PastItem
<1>12. Covers(v, k, Consume(t[n].spent, Part(nodes, levels, t[n].node, t[n].done)))
  <2>1. PICK h, g, m : h = OwnCost(nodes, c) /\ g = Charge(nodes, levels, c) /\ m = Size(nodes, c)
    OBVIOUS
  <2>2. h \in Uses /\ g \in Uses /\ AtMost(h, g) /\ m \in Nat /\ Covers(v, k + m, Consume(e, h)) /\ k + m \in Nat
    <3>1. h \in Uses /\ g \in Uses /\ AtMost(h, g)
      BY <1>7, <2>1
    <3>2. m \in Nat /\ k + m \in Nat
      BY <1>3, <2>1
    <3>3. Covers(v, k + m, Consume(e, h))
      BY <1>4, <1>5, <2>1
    <3> QED BY <3>1, <3>2, <3>3
  <2>3. Consume(e, h) \in Uses /\ Consume(e, g) \in Uses /\ AtMost(Consume(e, h), Consume(e, g))
    BY <1>7, <2>2, SumIs, SumAtMost, AtMostItself
  <2>4. Covers(v, k + m, Consume(e, g))
    BY <1>3, <2>2, <2>3, CoversMore
  <2>5. Covers(v, k, Consume(e, g))
    <3>1. PICK f : f = Consume(e, g)
      OBVIOUS
    <3>2. v.entries \in Nat /\ f.entries \in Nat
      BY <1>3, <2>3, <3>1, UseIs
    <3> QED BY <2>2, <2>4, <3>1, <3>2 DEF Covers
  <2>6. t[n].spent = w[n].spent /\ t[n].node = w[n].node /\ t[n].done = w[n].done + 1
    BY <1>9, <1>10
  <2> QED BY <1>7, <2>1, <2>5, <2>6
<1>13. Within(nodes, o[n], w[n], l[n], k)
  BY <1>2, <1>4 DEF Within
<1>14. OpenOnWay(nodes, levels, q, t, l, v)
  BY <1>2, <1>3, <1>9, <1>11, <1>12, <1>13, ItemIsPast
<1> QED BY <1>3, <1>14

NewMark(c) == [node |-> c, done |-> 0, keyed |-> FALSE]
Deeper(o, c) == Append(o, NewMark(c))
\* The next part is a value, and this is the entry charged for it.
AtValue(nodes, mark) == nodes[mark.node].kind = "mapping" => mark.keyed
EntryOf(nodes, mark) == IF nodes[mark.node].kind = "sequence" THEN 1 ELSE 0

\* A container is begun as the value of an item.
LEMMA ValueIsOpened ==
    ASSUME NEW nodes, IsGraph(nodes), NEW levels \in Nat, 1 \in Level(nodes, levels),
           NEW o, NEW w, NEW l, NEW u, OpenOnWay(nodes, levels, o, w, l, u), NEW n, n = Len(o),
           o[n].done < Size(nodes, o[n].node), AtValue(nodes, o[n]),
           NEW c, c = ChildOf(nodes, o[n].node, o[n].done + 1), nodes[c].kind \in {"sequence", "mapping"},
           NEW z, z = EntryOf(nodes, o[n]), NEW v, v = Consume(u, Cost(1, 0, z)),
           NEW q, q = Deeper(o, c)
    PROVE  /\ n < levels /\ v \in Uses /\ AtMost(v, Charge(nodes, levels, 1))
           /\ \E t, j : OpenOnWay(nodes, levels, q, t, j, v)
<1>1. n = Len(w)
  BY DEF OpenOnWay
<1>2. /\ n \in Nat /\ n # 0 /\ n \in 1..n /\ Way(nodes, levels, w)
      /\ o \in Seq(Marks(nodes)) /\ l \in Seq(Nat) /\ Len(o) = n /\ Len(l) = n
      /\ o[n].node = w[n].node /\ o[n].done = w[n].done /\ w[n].done \in Nat /\ w[n].node \in DOMAIN nodes
      /\ Stand(nodes, o, w, l, n)
  BY <1>1, OpenedIs, OpenStands
<1>3. w[n].done < Size(nodes, w[n].node) /\ c = ChildOf(nodes, w[n].node, w[n].done + 1)
  BY <1>2
<1>4. c \in DOMAIN nodes /\ OwnCost(nodes, c) \in Uses /\ SpentOn(nodes, levels, w[n]) \in Uses
  <2>1. PICK e : e = SpentOn(nodes, levels, w[n])
    OBVIOUS
  <2>2. Way(nodes, levels, w) /\ n = Len(w) /\ w[n].done < Size(nodes, w[n].node)
    BY <1>1, <1>2, <1>3
  <2> QED BY <1>3, <2>1, <2>2, NextOnWay
<1>5. 0 <= OwnCost(nodes, c).strings
  <2>1. OwnCost(nodes, c).strings \in Nat
    BY <1>4, UseIs
  <2> QED BY <2>1
<1>6. /\ n < levels /\ v \in Uses /\ AtMost(v, Charge(nodes, levels, 1)) /\ Size(nodes, c) \in Nat
      /\ \E k \in Nat : /\ k + w[n].done + 1 = l[n] + Size(nodes, w[n].node)
                        /\ Covers(v, k + Size(nodes, c), Consume(SpentOn(nodes, levels, w[n]), OwnCost(nodes, c)))
  <2>1. 0 \in Nat
    OBVIOUS
  <2>2. z = (IF nodes[o[n].node].kind = "sequence" THEN 1 ELSE 0) /\ (nodes[o[n].node].kind = "mapping" => o[n].keyed)
    BY DEF AtValue, EntryOf
  <2> QED BY <1>5, <2>1, <2>2, ValueIsPaid
<1>7. PICK k \in Nat : /\ k + w[n].done + 1 = l[n] + Size(nodes, w[n].node)
                       /\ Covers(v, k + Size(nodes, c), Consume(SpentOn(nodes, levels, w[n]), OwnCost(nodes, c)))
  BY <1>6
<1>8. PICK t : /\ Way(nodes, levels, t) /\ Len(t) = n + 1 /\ \A i \in 1..n : t[i] = w[i]
               /\ t[n + 1].node = c /\ t[n + 1].done = 0 /\ t[n + 1].spent = SpentOn(nodes, levels, w[n])
  <2>1. Way(nodes, levels, w) /\ n = Len(w) /\ SpentOn(nodes, levels, w[n]) \in Uses
    BY <1>1, <1>2, <1>4
  <2>2. \E s : /\ Way(nodes, levels, s) /\ Len(s) = n + 1 /\ \A i \in 1..n : s[i] = w[i]
               /\ s[n + 1].node = ChildOf(nodes, w[n].node, w[n].done + 1) /\ s[n + 1].done = 0
               /\ s[n + 1].spent = SpentOn(nodes, levels, w[n])
    BY <1>3, <2>1, WayGoesOn
  <2> QED BY <1>3, <2>2
<1>9. PICK j, m : j = Append(l, k) /\ m = NewMark(c)
  OBVIOUS
<1>10. m \in Marks(nodes) /\ m.node = c /\ m.done = 0 /\ ~m.keyed /\ m.keyed = FALSE
  BY <1>4, <1>9 DEF Marks, NewMark
<1>11. q \in Seq(Marks(nodes)) /\ Len(q) = n + 1 /\ q[n + 1] = m /\ \A i \in 1..n : q[i] = o[i]
  <2>1. q = Append(o, m) /\ o \in Seq(Marks(nodes)) /\ n = Len(o) /\ m \in Marks(nodes)
    BY <1>2, <1>9, <1>10 DEF Deeper
  <2> QED BY <2>1, AppendProperties
<1>12. j \in Seq(Nat) /\ Len(j) = n + 1 /\ j[n + 1] = k /\ \A i \in 1..n : j[i] = l[i]
  BY <1>2, <1>9, AppendProperties
<1>13. \A i \in 1..(n + 1) : i # n + 1 => i \in 1..n
  BY <1>2
<1>14. \A i \in 1..n : MarkFits(nodes, o[i], w[i]) /\ (i # n => Within(nodes, o[i], w[i], l[i], l[i + 1]))
  BY <1>2 DEF Stand
<1>15. \A i \in 1..(n + 1) : MarkFits(nodes, q[i], t[i])
  <2>1. MarkFits(nodes, m, t[n + 1])
    BY <1>8, <1>10 DEF MarkFits
  <2>2. \A i \in 1..n : MarkFits(nodes, q[i], t[i])
    BY <1>8, <1>11, <1>14
  <2> QED BY <1>11, <1>13, <2>1, <2>2
<1>16. \A i \in 1..(n + 1) : i # n + 1 => Within(nodes, q[i], t[i], j[i], j[i + 1])
  <2>1. Within(nodes, o[n], w[n], l[n], k)
    BY <1>2, <1>7 DEF Within, AtValue
  <2>2. \A i \in 1..n : i # n => i + 1 \in 1..n
    BY <1>2
  <2>3. \A i \in 1..n : i # n => Within(nodes, q[i], t[i], j[i], j[i + 1])
    BY <1>8, <1>11, <1>12, <1>14, <2>2
  <2>4. Within(nodes, q[n], t[n], j[n], j[n + 1])
    BY <1>2, <1>8, <1>11, <1>12, <2>1
  <2> QED BY <1>13, <2>3, <2>4
<1>17. Owes(nodes, levels, q[n + 1].keyed, t[n + 1], j[n + 1], v)
  <2>1. PICK y : y = Size(nodes, c)
    OBVIOUS
  <2>2. k + y \in Nat /\ (k + y) + 0 + 0 = k + y
    BY <1>6, <2>1
  <2>3. Part(nodes, levels, c, 0) = OwnCost(nodes, c)
    BY <1>4, PartIs
  <2>4. PICK s : s = t[n + 1]
    OBVIOUS
  <2>5. s.node = c /\ s.done = 0 /\ s.spent = SpentOn(nodes, levels, w[n]) /\ j[n + 1] = k
    BY <1>8, <1>12, <2>4
  <2>6. Reached(nodes, levels, FALSE, s) = Consume(SpentOn(nodes, levels, w[n]), OwnCost(nodes, c))
    BY <2>3, <2>5 DEF Reached
  <2>7. Covers(v, k + y, Reached(nodes, levels, FALSE, s)) /\ (k + y) + s.done + 0 = j[n + 1] + Size(nodes, s.node)
    BY <1>7, <2>1, <2>2, <2>5, <2>6
  <2>8. Owes(nodes, levels, FALSE, s, j[n + 1], v)
    BY <2>2, <2>7 DEF Owes
  <2>9. q[n + 1].keyed = FALSE
    BY <1>10, <1>11
  <2> QED BY <2>4, <2>8, <2>9
<1>18. OpenOnWay(nodes, levels, q, t, j, v)
  <2>1. Len(q) = Len(t) /\ Len(j) = Len(t) /\ Len(t) = n + 1
    BY <1>8, <1>11, <1>12
  <2>2. Way(nodes, levels, t) /\ q \in Seq(Marks(nodes)) /\ j \in Seq(Nat) /\ v \in Uses
    BY <1>6, <1>8, <1>11, <1>12
  <2> QED BY <1>15, <1>16, <1>17, <2>1, <2>2 DEF OpenOnWay
<1> QED BY <1>6, <1>18

\* All that an item cost was spent when it is left.
LEMMA BackCosts ==
    ASSUME NEW nodes, IsGraph(nodes), NEW levels \in Nat, 1 \in Level(nodes, levels),
           NEW w, Way(nodes, levels, w), NEW k \in Nat, k # 0, Len(w) = k + 1
    PROVE  Consume(w[k + 1].spent, Part(nodes, levels, w[k + 1].node, Size(nodes, w[k + 1].node))) =
              Consume(w[k].spent, Part(nodes, levels, w[k].node, w[k].done + 1))
<1>1. k \in 1..Len(w) /\ k + 1 \in 1..Len(w) /\ k # Len(w)
  OBVIOUS
<1>2. w[k].node \in DOMAIN nodes /\ w[k].done \in Nat /\ w[k].spent \in Uses
  BY <1>1, WayIs
<1>3. /\ w[k].done < Size(nodes, w[k].node) /\ w[k + 1].node = ChildOf(nodes, w[k].node, w[k].done + 1)
      /\ w[k + 1].spent = SpentOn(nodes, levels, w[k])
  BY <1>1 DEF Way
<1>4. PICK id, d, s, c : id = w[k].node /\ d = w[k].done /\ s = w[k].spent /\ c = w[k + 1].node
  OBVIOUS
<1>5. /\ d \in Nat /\ s \in Uses /\ id \in DOMAIN nodes /\ Len(nodes[id].items) \in Nat /\ d + 1 <= Len(nodes[id].items)
      /\ c = nodes[id].items[d + 1].node
  <2>1. Len(nodes[id].items) \in Nat
    BY <1>2, <1>4, ItemsAre
  <2> QED BY <1>2, <1>3, <1>4, <2>1 DEF Size, ChildOf
<1>6. id \in Level(nodes, levels) /\ c \in Level(nodes, levels)
  <2>1. ASSUME NEW i \in 1..Len(w) PROVE w[i].node \in Level(nodes, levels)
    <3>1. i <= levels /\ w[i].node \in Level(nodes, levels - (i - 1))
      BY WayDescends
    <3>2. levels - (i - 1) \in Nat /\ levels - (i - 1) <= levels
      BY <3>1
    <3> QED BY <3>1, <3>2, LevelsGrow
  <2> QED BY <1>1, <1>4, <2>1
<1>7. PICK a, b, h : a = Part(nodes, levels, id, d) /\ b = NameCost(nodes, id, d + 1) /\ h = Charge(nodes, levels, c)
  OBVIOUS
<1>8. a \in Uses /\ h \in Uses /\ h = Part(nodes, levels, c, Size(nodes, c)) /\ b \in Uses
  <2>1. d \in 0..Len(nodes[id].items) /\ d + 1 \in 1..Len(nodes[id].items)
    BY <1>5
  <2>2. a \in Uses
    BY <1>6, <1>7, <2>1, PartsFit
  <2>3. h \in Uses /\ h = Part(nodes, levels, c, Size(nodes, c))
    BY <1>6, <1>7, PartsFit DEF Size
  <2>4. b \in Uses
    BY <1>5, <1>7, <2>1, OwnCostIs
  <2> QED BY <2>2, <2>3, <2>4
<1>9. Part(nodes, levels, id, d + 1) = Consume(Consume(a, b), h)
  BY <1>5, <1>7, <1>8, PartGrows
<1>10. Consume(Consume(s, Consume(a, b)), h) = Consume(s, Consume(Consume(a, b), h))
  <2>1. Consume(a, b) \in Uses
    BY <1>8, SumIs
  <2> QED BY <1>5, <1>8, <2>1, SumsAssociate
<1>11. w[k + 1].spent = Consume(s, Consume(a, b))
  BY <1>3, <1>4, <1>7 DEF SpentOn
<1> QED BY <1>4, <1>8, <1>9, <1>10, <1>11

LEMMA Shortened ==
    ASSUME NEW S, NEW s \in Seq(S), NEW k \in Nat, Len(s) = k + 1, NEW q, q = SubSeq(s, 1, (k + 1) - 1)
    PROVE  q \in Seq(S) /\ Len(q) = k /\ \A i \in 1..k : q[i] = s[i]
<1>1. (k + 1) - 1 = k /\ 1 \in 1..(Len(s) + 1) /\ k \in 0..Len(s)
  OBVIOUS
<1>2. q = SubSeq(s, 1, k)
  BY <1>1
<1>3. q \in Seq(S) /\ Len(q) = k
  BY <1>1, <1>2, SubSeqProperties
<1>4. \A i \in 1..k : q[i] = s[1 + i - 1]
  BY <1>1, <1>2, SubSeqProperties
<1>5. \A i \in 1..k : 1 + i - 1 = i
  OBVIOUS
<1> QED BY <1>3, <1>4, <1>5

\* A container ends that is the value of an item.
LEMMA ValueIsClosed ==
    ASSUME NEW nodes, IsGraph(nodes), NEW levels \in Nat, 1 \in Level(nodes, levels),
           NEW o, NEW w, NEW l, NEW u, OpenOnWay(nodes, levels, o, w, l, u), NEW k \in Nat, k # 0, Len(o) = k + 1,
           o[k + 1].done = Size(nodes, o[k + 1].node), ~o[k + 1].keyed,
           NEW p, p = SubSeq(o, 1, (k + 1) - 1), NEW q, q = PartRead(nodes, p)
    PROVE  \E t, j : OpenOnWay(nodes, levels, q, t, j, u)
<1>1. PICK n : n = k + 1
  OBVIOUS
<1>2. n = Len(w)
  BY <1>1 DEF OpenOnWay
<1>3. /\ n \in Nat /\ n # 0 /\ n \in 1..n /\ Way(nodes, levels, w)
      /\ o \in Seq(Marks(nodes)) /\ l \in Seq(Nat) /\ Len(o) = n /\ Len(l) = n /\ l[n] \in Nat /\ u \in Uses
      /\ o[n].node = w[n].node /\ o[n].done = w[n].done /\ Size(nodes, w[n].node) \in Nat
      /\ Owes(nodes, levels, o[n].keyed, w[n], l[n], u)
      /\ Stand(nodes, o, w, l, n)
  BY <1>2, OpenedIs, OpenStands
<1>4. w[n].done = Size(nodes, w[n].node) /\ ~o[n].keyed
  BY <1>1, <1>3
<1>5. PICK j : j = SubSeq(l, 1, (k + 1) - 1)
  OBVIOUS
<1>6. p \in Seq(Marks(nodes)) /\ Len(p) = k /\ \A i \in 1..k : p[i] = o[i]
  BY <1>1, <1>3, Shortened
<1>7. j \in Seq(Nat) /\ Len(j) = k /\ \A i \in 1..k : j[i] = l[i]
  BY <1>1, <1>3, <1>5, Shortened
<1>8. PICK t : /\ Way(nodes, levels, t) /\ Len(t) = k /\ \A i \in 1..k : i # k => t[i] = w[i]
               /\ t[k].node = w[k].node /\ t[k].done = w[k].done + 1 /\ t[k].spent = w[k].spent
  <2>1. Way(nodes, levels, w) /\ Len(w) = k + 1
    BY <1>1, <1>2, <1>3
  <2>2. Passes(nodes, levels, w, k)
    BY <1>3, <2>1, WayPasses
  <2>3. PICK v1 : Way(nodes, levels, v1) /\ PastItem(w, v1, k) /\ v1[k].spent = w[k].spent
    BY <2>2 DEF Passes
  <2>4. /\ Way(nodes, levels, v1) /\ Len(v1) = k /\ \A i \in 1..k : i # k => v1[i] = w[i]
        /\ v1[k].node = w[k].node /\ v1[k].done = w[k].done + 1 /\ v1[k].spent = w[k].spent
    BY <2>3 DEF PastItem
  <2> QED BY <2>4
<1>9. PastItem(w, t, k)
  BY <1>8 DEF PastItem
<1>10. \A i \in 1..n : MarkFits(nodes, o[i], w[i]) /\ (i # n => Within(nodes, o[i], w[i], l[i], l[i + 1]))
  BY <1>3 DEF Stand
<1>11. k \in 1..k /\ \A i \in 1..k : i \in 1..n /\ i # n /\ (i # k => i + 1 \in 1..k)
  BY <1>1
<1>12. Stand(nodes, p, w, j, k)
  <2>1. \A i \in 1..k : MarkFits(nodes, p[i], w[i])
    BY <1>6, <1>10, <1>11
  <2>2. \A i \in 1..k : i # k => Within(nodes, p[i], w[i], j[i], j[i + 1])
    BY <1>6, <1>7, <1>10, <1>11
  <2> QED BY <2>1, <2>2 DEF Stand
<1>13. Within(nodes, p[k], w[k], j[k], l[n])
  BY <1>1, <1>6, <1>7, <1>10, <1>11
<1>14. Covers(u, l[n], Consume(t[k].spent, Part(nodes, levels, t[k].node, t[k].done)))
  <2>1. PICK a, y : a = l[n] /\ y = Size(nodes, w[n].node)
    OBVIOUS
  <2>2. PICK owed \in Nat : owed + w[n].done + (IF o[n].keyed THEN 1 ELSE 0) = a + y /\ Covers(u, owed, Reached(nodes, levels, o[n].keyed, w[n]))
    BY <1>3, <2>1 DEF Owes
  <2>3. owed + y + 0 = a + y
    BY <1>4, <2>1, <2>2
  <2>4. owed = a
    BY <1>3, <2>1, <2>3
  <2>5. Reached(nodes, levels, o[n].keyed, w[n]) = Consume(w[n].spent, Part(nodes, levels, w[n].node, w[n].done))
    BY <1>4 DEF Reached
  <2>6. Consume(w[n].spent, Part(nodes, levels, w[n].node, Size(nodes, w[n].node))) = Consume(w[k].spent, Part(nodes, levels, w[k].node, w[k].done + 1))
    <3>1. Len(w) = k + 1
      BY <1>1, <1>2
    <3>2. Consume(w[k + 1].spent, Part(nodes, levels, w[k + 1].node, Size(nodes, w[k + 1].node))) =
             Consume(w[k].spent, Part(nodes, levels, w[k].node, w[k].done + 1))
      BY <1>3, <3>1, BackCosts
    <3> QED BY <1>1, <3>2
  <2> QED BY <1>4, <1>8, <2>1, <2>2, <2>4, <2>5, <2>6
<1>15. w[k].done \in Nat
  <2>1. k \in 1..Len(w)
    BY <1>1, <1>2, <1>11
  <2> QED BY <1>3, <2>1, WayIs
<1>16. OpenOnWay(nodes, levels, q, t, j, u)
  BY <1>3, <1>6, <1>7, <1>8, <1>9, <1>12, <1>13, <1>14, <1>15, ItemIsPast
<1> QED BY <1>16

LEMMA OneLong ==
    ASSUME NEW S, NEW m \in S, NEW q, q = Append(<<>>, m)
    PROVE  q \in Seq(S) /\ Len(q) = 1 /\ q[1] = m
<1>1. <<>> \in Seq(S) /\ Len(<<>>) = 0
  BY EmptySeq
<1>2. q \in Seq(S) /\ Len(q) = 0 + 1 /\ q[0 + 1] = m
  BY <1>1, AppendProperties
<1> QED BY <1>2

\* The root is a container.
LEMMA RootIsOpened ==
    ASSUME NEW nodes, IsGraph(nodes), NEW levels \in Nat, 1 \in Level(nodes, levels), nodes[1].kind \in {"sequence", "mapping"},
           NEW v, v = Consume(Unused, Cost(1, 0, 0)),
           NEW q, q \in Seq(Marks(nodes)), Len(q) = 1, q[1] = NewMark(1)
    PROVE  /\ v \in Uses /\ AtMost(v, Charge(nodes, levels, 1)) /\ levels # 0
           /\ \E t, j : OpenOnWay(nodes, levels, q, t, j, v)
<1>1. 1 \in DOMAIN nodes /\ Size(nodes, 1) \in Nat /\ levels # 0
  BY ItemsAre, BelowLevel DEF Size
<1>2. OwnCost(nodes, 1) \in Uses /\ Charge(nodes, levels, 1) \in Uses /\ AtMost(OwnCost(nodes, 1), Charge(nodes, levels, 1))
  <2>1. 0 \in 0..Len(nodes[1].items)
    BY <1>1 DEF Size
  <2>2. AtMost(Part(nodes, levels, 1, 0), Charge(nodes, levels, 1)) /\ Charge(nodes, levels, 1) \in Uses
    BY <2>1, PartsFit
  <2> QED BY <1>1, <2>2, PartIs, OwnCostIs
<1>3. PICK h, y : h = OwnCost(nodes, 1) /\ y = Size(nodes, 1)
  OBVIOUS
<1>4. h.nodes = 1 /\ h.entries = y /\ h.strings \in Nat /\ y \in Nat
  BY <1>1, <1>2, <1>3, UseIs DEF OwnCost, Cost, Size
<1>5. v = Cost(1, 0, 0) /\ v \in Uses /\ v.nodes = 1 /\ v.strings = 0 /\ v.entries = 0
  BY CostIs, UnusedIsNothing
<1>6. Covers(v, y, h)
  BY <1>4, <1>5 DEF Covers
<1>7. AtMost(v, Charge(nodes, levels, 1))
  BY <1>2, <1>3, <1>4, <1>5, <1>6, CoversMore
<1>8. PICK t : Way(nodes, levels, t) /\ Len(t) = 1 /\ t[1].node = 1 /\ t[1].done = 0 /\ t[1].spent = Unused
  BY WayBegins
<1>9. PICK j, m : j = Append(<<>>, 0) /\ m = NewMark(1)
  OBVIOUS
<1>10. m \in Marks(nodes) /\ m.node = 1 /\ m.done = 0 /\ m.keyed = FALSE
  BY <1>1, <1>9 DEF Marks, NewMark
<1>11. q \in Seq(Marks(nodes)) /\ Len(q) = 1 /\ q[1] = m
  BY <1>9, <1>10
<1>12. j \in Seq(Nat) /\ Len(j) = 1 /\ j[1] = 0
  <2>1. <<>> \in Seq(Nat) /\ Len(<<>>) = 0 /\ 0 \in Nat
    BY EmptySeq
  <2> QED BY <1>9, <2>1, AppendProperties
<1>13. \A i \in 1..1 : i = 1
  OBVIOUS
<1>14. MarkFits(nodes, q[1], t[1])
  BY <1>8, <1>10, <1>11 DEF MarkFits
<1>15. Owes(nodes, levels, q[1].keyed, t[1], j[1], v)
  <2>1. PICK s : s = t[1]
    OBVIOUS
  <2>2. s.node = 1 /\ s.done = 0 /\ s.spent = Unused
    BY <1>8, <2>1
  <2>3. Reached(nodes, levels, FALSE, s) = h
    BY <1>1, <1>2, <1>3, <2>2, PartIs, UnusedIsNothing DEF Reached
  <2>4. y + s.done + 0 = 0 + Size(nodes, s.node)
    BY <1>3, <1>4, <2>2
  <2>5. Owes(nodes, levels, FALSE, s, 0, v)
    BY <1>4, <1>6, <2>3, <2>4 DEF Owes
  <2>6. q[1].keyed = FALSE /\ j[1] = 0
    BY <1>10, <1>11, <1>12
  <2> QED BY <2>1, <2>5, <2>6
<1>16. OpenOnWay(nodes, levels, q, t, j, v)
  <2>1. Len(q) = Len(t) /\ Len(j) = Len(t) /\ Len(t) = 1
    BY <1>8, <1>11, <1>12
  <2>2. Way(nodes, levels, t) /\ q \in Seq(Marks(nodes)) /\ j \in Seq(Nat) /\ v \in Uses
    BY <1>5, <1>8, <1>11, <1>12
  <2>3. /\ \A i \in 1..1 : MarkFits(nodes, q[i], t[i])
        /\ \A i \in 1..1 : i # 1 => Within(nodes, q[i], t[i], j[i], j[i + 1])
    BY <1>13, <1>14
  <2> QED BY <1>15, <2>1, <2>2, <2>3 DEF OpenOnWay
<1> QED BY <1>1, <1>5, <1>7, <1>16

-----------------------------------------------------------------------------
(* YAML: the preflight stands where the events say it does *)

Containers == [type : {"sequence", "mapping"}, expectingKey : BOOLEAN]
FrameFits(nodes, mark, frame) ==
    /\ frame.type = nodes[mark.node].kind
    /\ frame.type = "mapping" => (frame.expectingKey <=> ~mark.keyed)
OpenFits(nodes, o, s) ==
    /\ s \in Seq(Containers) /\ Len(s) = Len(o)
    /\ \A i \in 1..Len(o) : FrameFits(nodes, o[i], s[i])

\* ConsumeKey changes the innermost container.
KeyTook(s) == [s EXCEPT ![Len(s)].expectingKey = FALSE]

LEMMA KeyTaken ==
    ASSUME NEW s \in Seq(Containers), NEW n \in Nat, n = Len(s), n # 0, NEW r, r = KeyTook(s)
    PROVE  /\ r \in Seq(Containers) /\ Len(r) = n /\ (\A i \in 1..n : i # n => r[i] = s[i])
           /\ r[n].type = s[n].type /\ ~r[n].expectingKey
<1>1. n \in 1..n /\ s[n] \in Containers
  BY ElementOfSeq
<1>2. PICK f, g : f = s[n] /\ g = [f EXCEPT !.expectingKey = FALSE]
  OBVIOUS
<1>3. f = [type |-> f.type, expectingKey |-> f.expectingKey] /\ f.type \in {"sequence", "mapping"}
  BY <1>1, <1>2 DEF Containers
<1>4. g = [type |-> f.type, expectingKey |-> FALSE]
  BY <1>2, <1>3
<1>5. g \in Containers /\ g.type = f.type /\ ~g.expectingKey
  BY <1>3, <1>4 DEF Containers
<1>6. r = [s EXCEPT ![n] = g]
  BY <1>2 DEF KeyTook
<1>7. r \in Seq(Containers) /\ Len(r) = n /\ r[n] = g /\ \A i \in 1..n : i # n => r[i] = s[i]
  BY <1>1, <1>5, <1>6, ExceptSeq
<1> QED BY <1>2, <1>5, <1>7

\* So does Finished, if it is a mapping.
ValueTook(s) == [s EXCEPT ![Len(s)].expectingKey = TRUE]

LEMMA ValueTaken ==
    ASSUME NEW s \in Seq(Containers), NEW n \in Nat, n = Len(s), n # 0, NEW r, r = ValueTook(s)
    PROVE  /\ r \in Seq(Containers) /\ Len(r) = n /\ (\A i \in 1..n : i # n => r[i] = s[i])
           /\ r[n].type = s[n].type /\ r[n].expectingKey
<1>1. n \in 1..n /\ s[n] \in Containers
  BY ElementOfSeq
<1>2. PICK f, g : f = s[n] /\ g = [f EXCEPT !.expectingKey = TRUE]
  OBVIOUS
<1>3. f = [type |-> f.type, expectingKey |-> f.expectingKey] /\ f.type \in {"sequence", "mapping"}
  BY <1>1, <1>2 DEF Containers
<1>4. g = [type |-> f.type, expectingKey |-> TRUE]
  BY <1>2, <1>3
<1>5. g \in Containers /\ g.type = f.type /\ g.expectingKey
  BY <1>3, <1>4 DEF Containers
<1>6. r = [s EXCEPT ![n] = g]
  BY <1>2 DEF ValueTook
<1>7. r \in Seq(Containers) /\ Len(r) = n /\ r[n] = g /\ \A i \in 1..n : i # n => r[i] = s[i]
  BY <1>1, <1>5, <1>6, ExceptSeq
<1> QED BY <1>2, <1>5, <1>7

LEMMA NothingFits ==
    ASSUME NEW nodes, NEW o, NEW s, OpenFits(nodes, o, s), o \in Seq(Marks(nodes))
    PROVE  /\ o = <<>> <=> s = <<>>
           /\ o # <<>> => Len(o) \in Nat /\ Len(o) # 0 /\ Len(s) = Len(o) /\ Len(o) \in 1..Len(o) /\ o[Len(o)] \in Marks(nodes)
<1>1. s \in Seq(Containers) /\ Len(s) = Len(o)
  BY DEF OpenFits
<1>2. PICK n : n = Len(o)
  OBVIOUS
<1>3. n \in Nat /\ (o = <<>> <=> n = 0)
  BY <1>2, EmptySeq, LenProperties
<1>4. s = <<>> <=> n = 0
  BY <1>1, <1>2, EmptySeq
<1>5. n # 0 => n \in 1..n
  BY <1>3
<1>6. n # 0 => o[n] \in Marks(nodes)
  BY <1>2, <1>5, ElementOfSeq
<1> QED BY <1>1, <1>2, <1>3, <1>4, <1>5, <1>6

\* After a key.
LEMMA KeyFits ==
    ASSUME NEW nodes, NEW o \in Seq(Marks(nodes)), NEW s, OpenFits(nodes, o, s), NEW n \in Nat, n = Len(o), n # 0,
           nodes[o[n].node].kind = "mapping", ~o[n].keyed, NEW r, r = KeyTook(s)
    PROVE  OpenFits(nodes, PartRead(nodes, o), r)
<1>1. s \in Seq(Containers) /\ n = Len(s) /\ n \in 1..n /\ o[n] \in Marks(nodes)
  BY ElementOfSeq DEF OpenFits
<1>2. \A i \in 1..n : FrameFits(nodes, o[i], s[i])
  BY DEF OpenFits
<1>3. PICK q, m : q = PartRead(nodes, o) /\ m = WithPart(nodes, o[n])
  OBVIOUS
<1>4. q \in Seq(Marks(nodes)) /\ Len(q) = n /\ q[n] = m /\ \A i \in 1..n : i # n => q[i] = o[i]
  BY <1>3, PartReadIs
<1>5. m.node = o[n].node /\ m.keyed
  BY <1>1, <1>3, MarkIs
<1>6. /\ r \in Seq(Containers) /\ Len(r) = n /\ (\A i \in 1..n : i # n => r[i] = s[i])
      /\ r[n].type = s[n].type /\ ~r[n].expectingKey
  BY <1>1, KeyTaken
<1>7. FrameFits(nodes, q[n], r[n])
  <2>1. FrameFits(nodes, m, r[n])
    BY <1>1, <1>2, <1>5, <1>6 DEF FrameFits
  <2> QED BY <1>4, <2>1
<1>8. \A i \in 1..n : FrameFits(nodes, q[i], r[i])
  BY <1>2, <1>4, <1>6, <1>7
<1> QED BY <1>3, <1>4, <1>6, <1>8 DEF OpenFits

\* After a value.
LEMMA ValueFits ==
    ASSUME NEW nodes, NEW o \in Seq(Marks(nodes)), NEW s, OpenFits(nodes, o, s), NEW n \in Nat, n = Len(o), n # 0,
           nodes[o[n].node].kind = "mapping" => o[n].keyed
    PROVE  OpenFits(nodes, PartRead(nodes, o), Finished(s))
<1>1. s \in Seq(Containers) /\ n = Len(s) /\ n \in 1..n /\ o[n] \in Marks(nodes) /\ s # <<>>
  BY ElementOfSeq, EmptySeq DEF OpenFits
<1>2. \A i \in 1..n : FrameFits(nodes, o[i], s[i])
  BY DEF OpenFits
<1>3. PICK q, m, r : q = PartRead(nodes, o) /\ m = WithPart(nodes, o[n]) /\ r = Finished(s)
  OBVIOUS
<1>4. q \in Seq(Marks(nodes)) /\ Len(q) = n /\ q[n] = m /\ \A i \in 1..n : i # n => q[i] = o[i]
  BY <1>3, PartReadIs
<1>5. m.node = o[n].node /\ ~m.keyed
  <2>1. ~(nodes[o[n].node].kind = "mapping" /\ ~o[n].keyed)
    OBVIOUS
  <2> QED BY <1>1, <1>3, <2>1, MarkIs
<1>6. /\ r \in Seq(Containers) /\ Len(r) = n /\ (\A i \in 1..n : i # n => r[i] = s[i])
      /\ r[n].type = s[n].type /\ (s[n].type = "mapping" => r[n].expectingKey)
  <2>1. CASE s[n].type = "mapping"
    <3>1. r = ValueTook(s)
      BY <1>1, <1>3, <2>1 DEF Finished, ValueTook
    <3> QED BY <1>1, <3>1, ValueTaken
  <2>2. CASE s[n].type # "mapping"
    <3>1. r = s
      BY <1>1, <1>3, <2>2 DEF Finished
    <3> QED BY <1>1, <2>2, <3>1
  <2> QED BY <2>1, <2>2
<1>7. FrameFits(nodes, q[n], r[n])
  <2>1. FrameFits(nodes, m, r[n])
    BY <1>1, <1>2, <1>5, <1>6 DEF FrameFits
  <2> QED BY <1>4, <2>1
<1>8. \A i \in 1..n : FrameFits(nodes, q[i], r[i])
  BY <1>2, <1>4, <1>6, <1>7
<1> QED BY <1>3, <1>4, <1>6, <1>8 DEF OpenFits

\* After the start of a container.
LEMMA StartFits ==
    ASSUME NEW nodes, NEW o \in Seq(Marks(nodes)), NEW s, OpenFits(nodes, o, s), NEW m \in Marks(nodes), NEW f \in Containers,
           FrameFits(nodes, m, f)
    PROVE  OpenFits(nodes, Append(o, m), Append(s, f)) /\ Append(o, m) \in Seq(Marks(nodes))
<1>1. PICK n, q, r : n = Len(o) /\ q = Append(o, m) /\ r = Append(s, f)
  OBVIOUS
<1>2. s \in Seq(Containers) /\ n = Len(s) /\ \A i \in 1..n : FrameFits(nodes, o[i], s[i])
  BY <1>1 DEF OpenFits
<1>3. q \in Seq(Marks(nodes)) /\ Len(q) = n + 1 /\ q[n + 1] = m /\ \A i \in 1..n : q[i] = o[i]
  BY <1>1, AppendProperties
<1>4. r \in Seq(Containers) /\ Len(r) = n + 1 /\ r[n + 1] = f /\ \A i \in 1..n : r[i] = s[i]
  BY <1>1, <1>2, AppendProperties
<1>5. n \in Nat
  BY <1>1, LenProperties
<1>6. \A i \in 1..(n + 1) : i # n + 1 => i \in 1..n
  BY <1>5
<1>7. \A i \in 1..(n + 1) : FrameFits(nodes, q[i], r[i])
  BY <1>2, <1>3, <1>4, <1>6
<1>8. OpenFits(nodes, q, r)
  BY <1>3, <1>4, <1>7 DEF OpenFits
<1> QED BY <1>1, <1>3, <1>8

\* Without the innermost container.
LEMMA EndFits ==
    ASSUME NEW nodes, NEW o \in Seq(Marks(nodes)), NEW s, OpenFits(nodes, o, s), NEW k \in Nat, Len(o) = k + 1
    PROVE  /\ Callers(o) \in Seq(Marks(nodes)) /\ OpenFits(nodes, Callers(o), Callers(s)) /\ Len(Callers(o)) = k
           /\ \A i \in 1..k : Callers(o)[i] = o[i]
<1>1. s \in Seq(Containers) /\ Len(s) = k + 1 /\ \A i \in 1..(k + 1) : FrameFits(nodes, o[i], s[i])
  BY DEF OpenFits
<1>2. PICK p, r : p = SubSeq(o, 1, (k + 1) - 1) /\ r = SubSeq(s, 1, (k + 1) - 1)
  OBVIOUS
<1>3. p = Callers(o) /\ r = Callers(s)
  BY <1>1, <1>2 DEF Callers
<1>4. p \in Seq(Marks(nodes)) /\ Len(p) = k /\ \A i \in 1..k : p[i] = o[i]
  BY <1>2, Shortened
<1>5. r \in Seq(Containers) /\ Len(r) = k /\ \A i \in 1..k : r[i] = s[i]
  BY <1>1, <1>2, Shortened
<1>6. \A i \in 1..k : i \in 1..(k + 1)
  OBVIOUS
<1>7. \A i \in 1..k : FrameFits(nodes, p[i], r[i])
  BY <1>1, <1>4, <1>5, <1>6
<1>8. OpenFits(nodes, p, r)
  BY <1>4, <1>5, <1>7 DEF OpenFits
<1> QED BY <1>3, <1>4, <1>8

PreflightStands(nodes, levels, o, p, u, s) ==
    /\ o \in Seq(Marks(nodes)) /\ OpenFits(nodes, o, s)
    /\ o = <<>> /\ p <= 2 => u = Unused
    /\ o # <<>> => \E w, l : OpenOnWay(nodes, levels, o, w, l, u)
\* In a text that expands within the limits, the preflight has spent what the build will at least spend.
PreflightInv ==
    phase = "preflight" /\ Acceptable =>
        /\ next \in 1..(Len(text.events) + 1)
        /\ sawRoot <=> next > 2
        /\ next <= Len(text.events) =>
              /\ completedDocuments = 0
              /\ PreflightStands(text.nodes, Deepest, OpenTo(text.events, text.nodes, next), next, used, containers)

LEMMA TextEvents ==
    ASSUME text \in Texts
    PROVE  /\ Len(text.events) \in Nat
           /\ \A p \in 1..Len(text.events) :
                 /\ text.events[p].kind \in {"documentStart", "documentEnd"} \cup OpenKinds \cup CloseKinds \cup LeafKinds
                 /\ text.events[p].size \in Nat
           /\ text.nodes # Null /\ text.documents = 1 /\ text.wellFormed => IsComposed(text.events, text.nodes)
<1>1. PICK e : e = text.events
  OBVIOUS
<1>2. /\ e \in Seq({e[p] : p \in DOMAIN e})
      /\ \A p \in DOMAIN e :
            /\ e[p].kind \in {"documentStart", "documentEnd"} \cup OpenKinds \cup CloseKinds \cup LeafKinds
            /\ e[p].size \in Nat
  BY <1>1, TextsAssumption
<1>3. PICK S : S = {e[p] : p \in DOMAIN e}
  OBVIOUS
<1>4. Len(e) \in Nat /\ DOMAIN e = 1..Len(e)
  BY <1>2, <1>3, LenProperties
<1>5. text.nodes # Null /\ text.documents = 1 /\ text.wellFormed => IsComposed(text.events, text.nodes)
  BY TextsAssumption
<1> QED BY <1>1, <1>2, <1>4, <1>5

LEMMA NowIs ==
    ASSUME BuildInv, PreflightInv, Acceptable, phase = "preflight", next <= Len(text.events),
           NEW nodes, nodes = text.nodes, NEW events, events = text.events, NEW levels, levels = Deepest,
           NEW o, o = OpenTo(events, nodes, next), NEW e, e = events[next]
    PROVE  /\ IsGraph(nodes) /\ levels \in Nat /\ 1 \in Level(nodes, levels) /\ Len(events) \in Nat /\ Len(events) > 2
           /\ limits \in ParseLimits /\ WithinLimits(Charge(nodes, levels, 1)) /\ Charge(nodes, levels, 1) \in Uses
           /\ next \in 1..Len(events) /\ completedDocuments = 0 /\ (sawRoot <=> next > 2)
           /\ e.kind \in {"documentStart", "documentEnd"} \cup OpenKinds \cup CloseKinds \cup LeafKinds /\ e.size \in Nat
           /\ EventFits(nodes, e, o, next, Len(events)) /\ PreflightStands(nodes, levels, o, next, used, containers)
           /\ next < Len(events) => OpenTo(events, nodes, next + 1) = OpenAfter(nodes, e, o)
           /\ next <= 2 \/ next = Len(events) => o = <<>>
<1>1. /\ text \in Texts /\ limits \in ParseLimits /\ text.wellFormed /\ text.documents = 1 /\ Expands
      /\ next \in 1..(Len(events) + 1) /\ (sawRoot <=> next > 2)
      /\ completedDocuments = 0 /\ PreflightStands(nodes, levels, o, next, used, containers)
  BY AcceptableIs DEF BuildInv, PreflightInv
<1>2. /\ nodes # Null /\ 1 \in Level(nodes, levels) /\ WithinLimits(Charge(nodes, levels, 1))
  BY <1>1 DEF Expands
<1>3. IsGraph(nodes) /\ levels \in Nat
  BY <1>1, <1>2, TextIs, DeepestIs
<1>4. IsComposed(events, nodes) /\ Len(events) \in Nat
  BY <1>1, <1>2, TextEvents
<1>5. next \in 1..Len(events)
  BY <1>1, <1>4
<1>6. e.kind \in {"documentStart", "documentEnd"} \cup OpenKinds \cup CloseKinds \cup LeafKinds /\ e.size \in Nat
  BY <1>1, <1>5, TextEvents
<1>7. EventFits(nodes, e, o, next, Len(events))
  BY <1>4, <1>5, EventIs
<1>8. Len(events) > 2 /\ OpenTo(events, nodes, Len(events)) = <<>>
  BY <1>4, ComposedEnds
<1>9. OpenTo(events, nodes, 1) = <<>> /\ \A p \in 1..Len(events) : p # 1 => OpenTo(events, nodes, p) = OpenAfter(nodes, events[p - 1], OpenTo(events, nodes, p - 1))
  <2>1. 1 <= Len(events)
    BY <1>4, <1>8
  <2>2. 1 <= Len(events) => OpenTo(events, nodes, 1) = <<>>
    BY <1>4, OpenIs
  <2>3. \A p \in 1..Len(events) : p # 1 => OpenTo(events, nodes, p) = OpenAfter(nodes, events[p - 1], OpenTo(events, nodes, p - 1))
    BY <1>4, OpenIs
  <2> QED BY <2>1, <2>2, <2>3
<1>10. next < Len(events) => OpenTo(events, nodes, next + 1) = OpenAfter(nodes, e, o)
  <2>1. ASSUME next < Len(events) PROVE next + 1 \in 1..Len(events) /\ next + 1 # 1 /\ (next + 1) - 1 = next
    BY <1>4, <1>5, <2>1
  <2> QED BY <1>9, <2>1
<1>11. OpenTo(events, nodes, 2) = <<>>
  <2>1. 1 \in 1..Len(events) /\ 2 \in 1..Len(events) /\ 2 # 1 /\ 2 - 1 = 1
    BY <1>4, <1>8
  <2>2. EventFits(nodes, events[1], OpenTo(events, nodes, 1), 1, Len(events))
    BY <1>4, <2>1, EventIs
  <2>3. events[1].kind = "documentStart"
    BY <2>2 DEF EventFits
  <2>4. OpenTo(events, nodes, 2) = OpenAfter(nodes, events[1], <<>>)
    BY <1>9, <2>1
  <2> QED BY <2>3, <2>4 DEF OpenAfter, OpenKinds, CloseKinds, LeafKinds
<1>12. Charge(nodes, levels, 1) \in Uses
  BY <1>2, <1>3, PartsFit
<1>13. next <= 2 \/ next = Len(events) => o = <<>>
  BY <1>4, <1>5, <1>8, <1>9, <1>11
<1> QED BY <1>1, <1>2, <1>3, <1>4, <1>5, <1>6, <1>7, <1>8, <1>10, <1>12, <1>13

\* The preflight goes on.
LEMMA GoBuilds ==
    ASSUME BuildInv, phase = "preflight", Go
    PROVE  BuildInv' /\ Acceptable' = Acceptable
<1>1. UNCHANGED <<text, limits, phase>>
  BY DEF Go
<1>2. Acceptable' = Acceptable /\ Readable(text)' = Readable(text) /\ text' = text /\ limits' = limits /\ phase' = "preflight"
  BY <1>1, TextStays
<1> QED BY <1>2 DEF BuildInv

LEMMA Disagrees ==
    ASSUME BuildInv, phase = "preflight", ~Acceptable, Fail \/ Go
    PROVE  BuildInv' /\ PreflightInv'
<1>1. CASE Fail
  <2>1. BuildInv'
    BY <1>1, FailureStep
  <2>2. phase' = "failed"
    BY <1>1 DEF Fail
  <2> QED BY <2>1, <2>2 DEF PreflightInv
<1>2. CASE Go
  BY <1>2, GoBuilds DEF PreflightInv
<1> QED BY <1>1, <1>2

LEMMA StandsOn ==
    ASSUME BuildInv, PreflightInv, Acceptable, phase = "preflight", next < Len(text.events), Go,
           sawRoot' <=> next + 1 > 2, completedDocuments' = completedDocuments,
           PreflightStands(text.nodes, Deepest, OpenAfter(text.nodes, text.events[next], OpenTo(text.events, text.nodes, next)),
                    next + 1, used', containers')
    PROVE  BuildInv' /\ PreflightInv'
<1>1. PICK nodes, events, levels, o, e : /\ nodes = text.nodes /\ events = text.events /\ levels = Deepest
                                         /\ o = OpenTo(events, nodes, next) /\ e = events[next]
  OBVIOUS
<1>2. Len(events) \in Nat /\ next <= Len(events)
  <2>1. Len(text.events) \in Nat /\ next \in 1..(Len(text.events) + 1)
    BY TextEvents DEF BuildInv, PreflightInv
  <2> QED BY <1>1, <2>1
<1>3. /\ next \in 1..Len(events) /\ completedDocuments = 0
      /\ next < Len(events) => OpenTo(events, nodes, next + 1) = OpenAfter(nodes, e, o)
  <2>1. next <= Len(text.events)
    BY <1>1, <1>2
  <2> QED BY <1>1, <2>1, NowIs
<1>4. PreflightStands(nodes, levels, OpenTo(events, nodes, next + 1), next + 1, used', containers')
  BY <1>1, <1>3
<1>5. BuildInv' /\ text' = text /\ Deepest' = Deepest /\ next' = next + 1
  <2>1. UNCHANGED <<text, limits>> /\ next' = next + 1
    BY DEF Go
  <2> QED BY <2>1, GoBuilds, TextStays
<1>6. next + 1 \in 1..(Len(events) + 1)
  BY <1>2, <1>3
<1>7. PreflightStands(text'.nodes, Deepest', OpenTo(text'.events, text'.nodes, next'), next', used', containers')
  BY <1>1, <1>4, <1>5
<1>8. next' \in 1..(Len(text'.events) + 1) /\ (sawRoot' <=> next' > 2) /\ completedDocuments' = 0
  BY <1>1, <1>3, <1>5, <1>6
<1>9. PreflightInv'
  BY <1>7, <1>8 DEF PreflightInv
<1> QED BY <1>5, <1>9

LEMMA DocumentStartStands ==
    ASSUME BuildInv, PreflightInv, Acceptable, DocumentStart
    PROVE  BuildInv' /\ PreflightInv'
<1>1. PICK nodes, events, levels, o, e : /\ nodes = text.nodes /\ events = text.events /\ levels = Deepest
                                         /\ o = OpenTo(events, nodes, next) /\ e = events[next]
  OBVIOUS
<1>2. phase = "preflight" /\ next <= Len(text.events) /\ e.kind = "documentStart"
  BY <1>1 DEF DocumentStart, Event
<1>3. /\ Len(events) \in Nat /\ Len(events) > 2 /\ completedDocuments = 0 /\ (sawRoot <=> next > 2)
      /\ EventFits(nodes, e, o, next, Len(events)) /\ PreflightStands(nodes, levels, o, next, used, containers)
      /\ next <= 2 \/ next = Len(events) => o = <<>>
  BY <1>1, <1>2, NowIs
<1>4. next = 1
  BY <1>2, <1>3 DEF EventFits
<1>5. Go /\ UNCHANGED <<containers, sawRoot, completedDocuments, used>>
  BY <1>3 DEF DocumentStart
<1>6. o = <<>> /\ OpenAfter(nodes, e, o) = o
  BY <1>2, <1>3, <1>4 DEF OpenAfter, OpenKinds, CloseKinds, LeafKinds
<1>7. PreflightStands(nodes, levels, OpenAfter(nodes, e, o), next + 1, used', containers')
  <2>1. o \in Seq(Marks(nodes)) /\ OpenFits(nodes, o, containers) /\ used = Unused
    BY <1>3, <1>4, <1>6 DEF PreflightStands
  <2>2. containers' = containers /\ used' = used
    BY <1>5
  <2>3. PICK s, u : s = containers' /\ u = used'
    OBVIOUS
  <2>4. OpenFits(nodes, o, s) /\ u = Unused
    BY <2>1, <2>2, <2>3
  <2>5. PreflightStands(nodes, levels, o, next + 1, u, s)
    BY <1>6, <2>1, <2>4 DEF PreflightStands
  <2> QED BY <1>6, <2>3, <2>5
<1>8. sawRoot' <=> next + 1 > 2
  BY <1>3, <1>4, <1>5
<1>9. next < Len(text.events) /\ completedDocuments' = completedDocuments
  BY <1>1, <1>3, <1>4, <1>5
<1> QED BY <1>1, <1>2, <1>5, <1>7, <1>8, <1>9, StandsOn

LEMMA DocumentEndStands ==
    ASSUME BuildInv, PreflightInv, Acceptable, DocumentEnd
    PROVE  BuildInv' /\ PreflightInv'
<1>1. PICK nodes, events, levels, o, e : /\ nodes = text.nodes /\ events = text.events /\ levels = Deepest
                                         /\ o = OpenTo(events, nodes, next) /\ e = events[next]
  OBVIOUS
<1>2. phase = "preflight" /\ next <= Len(text.events) /\ e.kind = "documentEnd"
  BY <1>1 DEF DocumentEnd, Event
<1>3. /\ Len(events) \in Nat /\ Len(events) > 2 /\ (sawRoot <=> next > 2)
      /\ EventFits(nodes, e, o, next, Len(events)) /\ PreflightStands(nodes, levels, o, next, used, containers)
      /\ next <= 2 \/ next = Len(events) => o = <<>>
  BY <1>1, <1>2, NowIs
<1>4. next = Len(events) /\ o = <<>>
  BY <1>2, <1>3 DEF EventFits
<1>5. containers = <<>>
  BY <1>3, <1>4, NothingFits DEF PreflightStands
<1>6. Go /\ UNCHANGED <<containers, sawRoot, used>>
  BY <1>5 DEF DocumentEnd
<1>7. text' = text /\ next' = next + 1
  BY <1>6 DEF Go
<1>8. next' = Len(text'.events) + 1 /\ sawRoot' /\ next' > 2
  BY <1>1, <1>3, <1>4, <1>6, <1>7
<1>9. next' \in 1..(Len(text'.events) + 1) /\ ~(next' <= Len(text'.events))
  BY <1>1, <1>3, <1>4, <1>7
<1> QED BY <1>2, <1>6, <1>8, <1>9, GoBuilds DEF PreflightInv

\* What fits the limits is affordable.
LEMMA Affords ==
    ASSUME limits \in ParseLimits, NEW c \in Uses, WithinLimits(c), NEW u, NEW a, NEW v, v = Consume(u, a), v \in Uses, AtMost(v, c)
    PROVE  Affordable(u, a)
BY AtMostFits DEF Affordable

LEMMA TopIs ==
    ASSUME NEW nodes, NEW o \in Seq(Marks(nodes)), OpenFits(nodes, o, containers), NEW n, n = Len(o)
    PROVE  /\ containers = <<>> <=> o = <<>>
           /\ o # <<>> =>
                 /\ n \in Nat /\ n # 0 /\ n \in 1..n /\ Len(containers) = n /\ o[n] \in Marks(nodes)
                 /\ Top.type = nodes[o[n].node].kind /\ Top.type \in {"sequence", "mapping"}
                 /\ ExpectingKey <=> nodes[o[n].node].kind = "mapping" /\ ~o[n].keyed
           /\ o = <<>> => ~ExpectingKey
<1>1. /\ containers \in Seq(Containers) /\ Len(containers) = n
      /\ \A i \in 1..n : FrameFits(nodes, o[i], containers[i])
  BY DEF OpenFits
<1>2. /\ containers = <<>> <=> o = <<>>
      /\ o # <<>> => n \in Nat /\ n # 0 /\ n \in 1..n /\ o[n] \in Marks(nodes)
  BY NothingFits
<1>3. ASSUME o # <<>>
      PROVE  /\ Top.type = nodes[o[n].node].kind /\ Top.type \in {"sequence", "mapping"}
             /\ ExpectingKey <=> nodes[o[n].node].kind = "mapping" /\ ~o[n].keyed
  <2>1. n \in 1..n /\ containers # <<>> /\ Top = containers[n]
    BY <1>1, <1>2, <1>3 DEF Top
  <2>2. FrameFits(nodes, o[n], Top)
    BY <1>1, <2>1
  <2>3. Top \in Containers
    BY <1>1, <2>1, ElementOfSeq
  <2>4. Top.type \in {"sequence", "mapping"}
    BY <2>3 DEF Containers
  <2>5. Top.type = nodes[o[n].node].kind /\ (Top.type = "mapping" => (Top.expectingKey <=> ~o[n].keyed))
    BY <2>2 DEF FrameFits
  <2> QED BY <2>1, <2>4, <2>5 DEF ExpectingKey
<1> QED BY <1>1, <1>2, <1>3 DEF ExpectingKey

LEMMA PartMeans ==
    ASSUME NEW nodes, NEW e, NEW o, NEW p, NEW last, EventFits(nodes, e, o, p, last), e.kind \in OpenKinds \cup LeafKinds, NEW n, n = Len(o)
    PROVE  /\ p # 1 /\ p # last /\ e.node \in DOMAIN nodes
           /\ o = <<>> => p = 2 /\ e.node = 1
           /\ o # <<>> =>
                 /\ o[n].done < Size(nodes, o[n].node)
                 /\ nodes[o[n].node].kind = "mapping" /\ ~o[n].keyed => nodes[e.node] = KeyNode(nodes, o[n].node, o[n].done + 1)
                 /\ ~(nodes[o[n].node].kind = "mapping" /\ ~o[n].keyed) => e.node = ChildOf(nodes, o[n].node, o[n].done + 1)
           /\ e.kind = "scalar" => nodes[e.node].kind = "scalar" /\ e.size = nodes[e.node].size
           /\ e.kind = "sequenceStart" => nodes[e.node].kind = "sequence"
           /\ e.kind = "mappingStart" => nodes[e.node].kind = "mapping"
<1>1. e.kind # "documentStart" /\ e.kind # "documentEnd"
  BY DEF OpenKinds, LeafKinds
<1>2. p # 1 /\ p # last
  BY <1>1 DEF EventFits
<1>3. /\ e.node \in DOMAIN nodes
      /\ o = <<>> => p = 2 /\ e.node = 1
      /\ o # <<>> => o[n].done < Len(nodes[o[n].node].items) /\ e.node = NextPart(nodes, o[n])
  BY DEF EventFits
<1>4. /\ e.kind = "scalar" => nodes[e.node].kind = "scalar" /\ e.size = nodes[e.node].size
      /\ e.kind = "sequenceStart" => nodes[e.node].kind = "sequence"
      /\ e.kind = "mappingStart" => nodes[e.node].kind = "mapping"
  BY DEF EventFits
<1>5. ASSUME o # <<>>
      PROVE  /\ o[n].done < Size(nodes, o[n].node)
             /\ nodes[o[n].node].kind = "mapping" /\ ~o[n].keyed => nodes[e.node] = KeyNode(nodes, o[n].node, o[n].done + 1)
             /\ ~(nodes[o[n].node].kind = "mapping" /\ ~o[n].keyed) => e.node = ChildOf(nodes, o[n].node, o[n].done + 1)
  <2>1. o[n].done < Len(nodes[o[n].node].items) /\ e.node = NextPart(nodes, o[n])
    BY <1>3, <1>5
  <2>2. o[n].done < Size(nodes, o[n].node)
    BY <2>1 DEF Size
  <2>3. CASE nodes[o[n].node].kind = "mapping" /\ ~o[n].keyed
    <3>1. e.node = nodes[o[n].node].items[o[n].done + 1].key
      BY <2>1, <2>3 DEF NextPart
    <3> QED BY <2>2, <2>3, <3>1 DEF KeyNode
  <2>4. CASE ~(nodes[o[n].node].kind = "mapping" /\ ~o[n].keyed)
    <3>1. e.node = nodes[o[n].node].items[o[n].done + 1].node
      BY <2>1, <2>4 DEF NextPart
    <3> QED BY <2>2, <2>4, <3>1 DEF ChildOf
  <2> QED BY <2>3, <2>4
<1> QED BY <1>2, <1>3, <1>4, <1>5

\* The text of an event is no longer than that of the node.
LEMMA TextCosts ==
    ASSUME NEW nodes, IsGraph(nodes), NEW e, e.node \in DOMAIN nodes, e.kind \in LeafKinds, e.size \in Nat,
           e.kind = "scalar" => nodes[e.node].kind = "scalar" /\ e.size = nodes[e.node].size,
           NEW x, x = IF e.kind = "scalar" THEN e.size ELSE 0
    PROVE  x \in Nat /\ x <= nodes[e.node].size /\ x <= OwnCost(nodes, e.node).strings
<1>1. nodes[e.node].size \in Nat
  BY ItemsAre
<1>2. OwnCost(nodes, e.node).strings = IF nodes[e.node].kind = "scalar" THEN nodes[e.node].size ELSE 0
  BY DEF OwnCost, Cost
<1>3. CASE e.kind = "scalar"
  BY <1>1, <1>2, <1>3
<1>4. CASE e.kind # "scalar"
  BY <1>1, <1>2, <1>4
<1> QED BY <1>3, <1>4

LEMMA KeyStandsOn ==
    ASSUME BuildInv, PreflightInv, Acceptable, ConsumeKey
    PROVE  BuildInv' /\ PreflightInv'
<1>1. PICK nodes, events, levels, o, e : /\ nodes = text.nodes /\ events = text.events /\ levels = Deepest
                                         /\ o = OpenTo(events, nodes, next) /\ e = events[next]
  OBVIOUS
<1>2. phase = "preflight" /\ next <= Len(text.events) /\ e.kind \in LeafKinds /\ ExpectingKey /\ Current = e
  BY <1>1 DEF ConsumeKey, Event, Current, LeafKinds
<1>3. /\ IsGraph(nodes) /\ levels \in Nat /\ 1 \in Level(nodes, levels) /\ Len(events) \in Nat
      /\ limits \in ParseLimits /\ WithinLimits(Charge(nodes, levels, 1)) /\ Charge(nodes, levels, 1) \in Uses
      /\ next \in 1..Len(events) /\ (sawRoot <=> next > 2) /\ e.size \in Nat
      /\ EventFits(nodes, e, o, next, Len(events)) /\ PreflightStands(nodes, levels, o, next, used, containers)
      /\ next <= 2 \/ next = Len(events) => o = <<>>
  BY <1>1, <1>2, NowIs
<1>4. o \in Seq(Marks(nodes)) /\ OpenFits(nodes, o, containers) /\ (o # <<>> => \E w, l : OpenOnWay(nodes, levels, o, w, l, used))
  BY <1>3 DEF PreflightStands
<1>5. PICK n, q, x, v : /\ n = Len(o) /\ q = PartRead(nodes, o) /\ x = (IF e.kind = "scalar" THEN e.size ELSE 0)
                        /\ v = Consume(used, Cost(0, x, 1))
  OBVIOUS
<1>6. o # <<>> /\ n \in Nat /\ n # 0 /\ nodes[o[n].node].kind = "mapping" /\ ~o[n].keyed
  BY <1>2, <1>4, <1>5, TopIs
<1>7. PICK w, l : OpenOnWay(nodes, levels, o, w, l, used)
  BY <1>4, <1>6
<1>8. e.kind \in OpenKinds \cup LeafKinds
  BY <1>2
<1>9. /\ next # Len(events) /\ e.node \in DOMAIN nodes
      /\ o[n].done < Size(nodes, o[n].node) /\ nodes[e.node] = KeyNode(nodes, o[n].node, o[n].done + 1)
      /\ e.kind = "scalar" => nodes[e.node].kind = "scalar" /\ e.size = nodes[e.node].size
  BY <1>3, <1>5, <1>6, <1>8, PartMeans
<1>10. x \in Nat /\ x <= KeyNode(nodes, o[n].node, o[n].done + 1).size
  <2>1. x \in Nat /\ x <= nodes[e.node].size
    BY <1>2, <1>3, <1>5, <1>9, TextCosts
  <2> QED BY <1>9, <2>1
<1>11. OpenOnWay(nodes, levels, q, w, l, v) /\ v \in Uses /\ AtMost(v, Charge(nodes, levels, 1))
  BY <1>3, <1>5, <1>6, <1>7, <1>9, <1>10, KeyIsRead
<1>12. Affordable(used, Cost(0, x, 1))
  BY <1>3, <1>5, <1>11, Affords
<1>13. containers' = KeyTook(containers) /\ used' = v /\ Go /\ UNCHANGED <<sawRoot, completedDocuments>>
  BY <1>2, <1>5, <1>12 DEF ConsumeKey, KeyTook
<1>14. OpenFits(nodes, q, containers')
  <2>1. PICK r : r = KeyTook(containers)
    OBVIOUS
  <2>2. OpenFits(nodes, PartRead(nodes, o), r)
    BY <1>4, <1>5, <1>6, <2>1, KeyFits
  <2> QED BY <1>5, <1>13, <2>1, <2>2
<1>15. q \in Seq(Marks(nodes)) /\ Len(q) = n
  <2>1. PICK m : m = WithPart(nodes, o[n])
    OBVIOUS
  <2> QED BY <1>4, <1>5, <1>6, <2>1, PartReadIs
<1>16. q # <<>>
  BY <1>6, <1>15, EmptySeq
<1>17. PreflightStands(nodes, levels, q, next + 1, used', containers')
  BY <1>11, <1>13, <1>14, <1>15, <1>16 DEF PreflightStands
<1>18. OpenAfter(nodes, e, o) = q
  BY <1>2, <1>5 DEF OpenAfter, OpenKinds, CloseKinds, LeafKinds
<1>19. next > 2 /\ (sawRoot' <=> next + 1 > 2)
  BY <1>3, <1>6, <1>13
<1>20. next < Len(text.events) /\ completedDocuments' = completedDocuments
  BY <1>1, <1>3, <1>9, <1>13
<1> QED BY <1>1, <1>2, <1>13, <1>17, <1>18, <1>19, <1>20, StandsOn

\* A value is begun that the build will pay for.
LEMMA Begins ==
    ASSUME BuildInv, containers = <<>> => ~sawRoot, NEW levels, levels = Deepest, NEW n, n \in Nat, n < levels, Len(containers) = n,
           NEW c \in Uses, WithinLimits(c), NEW x, NEW v, v = Consume(used, ValueCost(x)), v \in Uses, AtMost(v, c)
    PROVE  CanBegin(x)
<1>1. limits \in ParseLimits
  BY DEF BuildInv
<1>2. ~TooDeep(Len(containers))
  <2>1. levels \in Nat /\ \A d \in Nat : TooDeep(d) <=> d >= levels
    BY <1>1, DeepestIs
  <2> QED BY <2>1
<1>3. Affordable(used, ValueCost(x))
  <2>1. PICK a : a = ValueCost(x)
    OBVIOUS
  <2> QED BY <1>1, <2>1, Affords
<1> QED BY <1>2, <1>3 DEF CanBegin

\* The only value of a document that is no container.
LEMMA RootStandsOn ==
    ASSUME BuildInv, PreflightInv, Acceptable, ConsumeValue, OpenTo(text.events, text.nodes, next) = <<>>
    PROVE  BuildInv' /\ PreflightInv'
<1>1. PICK nodes, events, levels, o, e : /\ nodes = text.nodes /\ events = text.events /\ levels = Deepest
                                         /\ o = OpenTo(events, nodes, next) /\ e = events[next]
  OBVIOUS
<1>2. phase = "preflight" /\ next <= Len(text.events) /\ e.kind \in LeafKinds /\ Current = e /\ o = <<>>
  BY <1>1 DEF ConsumeValue, Event, Current, LeafKinds
<1>3. /\ IsGraph(nodes) /\ levels \in Nat /\ 1 \in Level(nodes, levels) /\ Len(events) \in Nat
      /\ limits \in ParseLimits /\ WithinLimits(Charge(nodes, levels, 1)) /\ Charge(nodes, levels, 1) \in Uses
      /\ next \in 1..Len(events) /\ (sawRoot <=> next > 2) /\ e.size \in Nat
      /\ EventFits(nodes, e, o, next, Len(events)) /\ PreflightStands(nodes, levels, o, next, used, containers)
  BY <1>1, <1>2, NowIs
<1>4. e.kind \in OpenKinds \cup LeafKinds
  BY <1>2
<1>5. /\ next # Len(events) /\ next = 2 /\ e.node = 1 /\ e.node \in DOMAIN nodes
      /\ e.kind = "scalar" => nodes[e.node].kind = "scalar" /\ e.size = nodes[e.node].size
  <2>1. PICK n : n = Len(o)
    OBVIOUS
  <2> QED BY <1>2, <1>3, <1>4, <2>1, PartMeans
<1>6. o \in Seq(Marks(nodes)) /\ OpenFits(nodes, o, containers) /\ used = Unused
  BY <1>2, <1>3, <1>5 DEF PreflightStands
<1>7. containers = <<>> /\ Len(containers) = 0
  BY <1>2, <1>6, NothingFits, EmptySeq
<1>8. PICK x, v : x = (IF e.kind = "scalar" THEN e.size ELSE 0) /\ v = Consume(used, ValueCost(x))
  OBVIOUS
<1>9. x \in Nat /\ x <= OwnCost(nodes, 1).strings
  <2>1. x \in Nat /\ x <= OwnCost(nodes, e.node).strings
    BY <1>2, <1>3, <1>5, <1>8, TextCosts
  <2> QED BY <1>5, <2>1
<1>10. v \in Uses /\ AtMost(v, Charge(nodes, levels, 1))
  <2>1. ValueCost(x) = Cost(1, x, 0)
    BY <1>7 DEF ValueCost
  <2>2. v = Cost(1, x, 0) /\ v \in Uses /\ v.nodes = 1 /\ v.strings = x /\ v.entries = 0
    BY <1>6, <1>8, <1>9, <2>1, CostIs, UnusedIsNothing
  <2>3. PICK h : h = OwnCost(nodes, 1)
    OBVIOUS
  <2>4. 1 \in DOMAIN nodes
    BY <1>5
  <2>5. h \in Uses /\ h.nodes = 1 /\ h.entries \in Nat /\ x <= h.strings
    BY <1>3, <1>9, <2>3, <2>4, OwnCostIs, UseIs DEF OwnCost, Cost
  <2>6. AtMost(v, h)
    BY <2>2, <2>5 DEF AtMost
  <2>7. AtMost(h, Charge(nodes, levels, 1))
    <3>1. 0 \in 0..Len(nodes[1].items)
      BY <1>3, <2>4, ItemsAre
    <3>2. AtMost(Part(nodes, levels, 1, 0), Charge(nodes, levels, 1))
      BY <1>3, <3>1, PartsFit
    <3> QED BY <1>3, <2>3, <2>4, <3>2, PartIs
  <2> QED BY <1>3, <2>2, <2>5, <2>6, <2>7, AtMostTransitive
<1>11. CanBegin(x)
  <2>1. 0 \in Nat /\ 0 < levels
    BY <1>3, BelowLevel
  <2>2. PICK c : c = Charge(nodes, levels, 1)
    OBVIOUS
  <2>3. c \in Uses /\ WithinLimits(c) /\ AtMost(v, c)
    BY <1>3, <1>10, <2>2
  <2>4. containers = <<>> => ~sawRoot
    BY <1>3, <1>5
  <2> QED BY <1>1, <1>7, <1>8, <1>10, <2>1, <2>3, <2>4, Begins
<1>12. containers' = <<>> /\ sawRoot' = TRUE /\ Go /\ completedDocuments' = completedDocuments
  BY <1>2, <1>7, <1>8, <1>11 DEF ConsumeValue, Begin, Finished
<1>13. OpenAfter(nodes, e, o) = <<>>
  BY <1>2 DEF OpenAfter, PartRead, OpenKinds, CloseKinds, LeafKinds
<1>14. PreflightStands(nodes, levels, <<>>, next + 1, used', containers')
  <2>1. OpenFits(nodes, <<>>, <<>>) /\ <<>> \in Seq(Marks(nodes))
    BY <1>2, <1>6, <1>7
  <2>2. ~(next + 1 <= 2)
    BY <1>5
  <2> QED BY <1>12, <2>1, <2>2 DEF PreflightStands
<1>15. (sawRoot' <=> next + 1 > 2) /\ next < Len(text.events)
  <2>1. next + 1 > 2
    BY <1>5
  <2>2. next < Len(text.events)
    <3>1. next < Len(events)
      <4>1. PICK m : m = Len(events)
        OBVIOUS
      <4>2. m \in Nat /\ 2 \in 1..m /\ 2 # m /\ next = 2
        BY <1>3, <1>5, <4>1
      <4> QED BY <4>1, <4>2
    <3> QED BY <1>1, <3>1
  <2>3. sawRoot'
    BY <1>12
  <2> QED BY <2>1, <2>2, <2>3
<1> QED BY <1>1, <1>2, <1>12, <1>13, <1>14, <1>15, StandsOn

LEMMA ValueStandsOn ==
    ASSUME BuildInv, PreflightInv, Acceptable, ConsumeValue, OpenTo(text.events, text.nodes, next) # <<>>
    PROVE  BuildInv' /\ PreflightInv'
<1>1. PICK nodes, events, levels, o, e : /\ nodes = text.nodes /\ events = text.events /\ levels = Deepest
                                         /\ o = OpenTo(events, nodes, next) /\ e = events[next]
  OBVIOUS
<1>2. phase = "preflight" /\ next <= Len(text.events) /\ e.kind \in LeafKinds /\ ~ExpectingKey /\ Current = e /\ o # <<>>
  BY <1>1 DEF ConsumeValue, Event, Current, LeafKinds
<1>3. /\ IsGraph(nodes) /\ levels \in Nat /\ 1 \in Level(nodes, levels) /\ Len(events) \in Nat
      /\ limits \in ParseLimits /\ WithinLimits(Charge(nodes, levels, 1)) /\ Charge(nodes, levels, 1) \in Uses
      /\ next \in 1..Len(events) /\ (sawRoot <=> next > 2) /\ e.size \in Nat
      /\ EventFits(nodes, e, o, next, Len(events)) /\ PreflightStands(nodes, levels, o, next, used, containers)
      /\ next <= 2 \/ next = Len(events) => o = <<>>
  BY <1>1, <1>2, NowIs
<1>4. o \in Seq(Marks(nodes)) /\ OpenFits(nodes, o, containers) /\ (o # <<>> => \E w, l : OpenOnWay(nodes, levels, o, w, l, used))
  BY <1>3 DEF PreflightStands
<1>5. PICK n, q, x, v, c : /\ n = Len(o) /\ q = PartRead(nodes, o) /\ x = (IF e.kind = "scalar" THEN e.size ELSE 0)
                           /\ v = Consume(used, ValueCost(x)) /\ c = ChildOf(nodes, o[n].node, o[n].done + 1)
  OBVIOUS
<1>6. /\ n \in Nat /\ n # 0 /\ containers # <<>> /\ Len(containers) = n /\ Top.type = nodes[o[n].node].kind
      /\ ~(nodes[o[n].node].kind = "mapping" /\ ~o[n].keyed)
  BY <1>2, <1>4, <1>5, TopIs
<1>7. PICK w, l : OpenOnWay(nodes, levels, o, w, l, used)
  BY <1>2, <1>4
<1>8. e.kind \in OpenKinds \cup LeafKinds
  BY <1>2
<1>9. /\ next # Len(events) /\ e.node \in DOMAIN nodes
      /\ o[n].done < Size(nodes, o[n].node) /\ e.node = c
      /\ e.kind = "scalar" => nodes[e.node].kind = "scalar" /\ e.size = nodes[e.node].size
  BY <1>2, <1>3, <1>5, <1>6, <1>8, PartMeans
<1>10. x \in Nat /\ x <= OwnCost(nodes, c).strings
  <2>1. x \in Nat /\ x <= OwnCost(nodes, e.node).strings
    BY <1>2, <1>3, <1>5, <1>9, TextCosts
  <2> QED BY <1>9, <2>1
<1>11. PICK z : z = IF nodes[o[n].node].kind = "sequence" THEN 1 ELSE 0
  OBVIOUS
<1>12. v = Consume(used, Cost(1, x, z))
  BY <1>5, <1>6, <1>11 DEF ValueCost
<1>13. /\ n < levels /\ v \in Uses /\ AtMost(v, Charge(nodes, levels, 1))
       /\ \E t : OpenOnWay(nodes, levels, q, t, l, v)
  <2>1. nodes[o[n].node].kind = "mapping" => o[n].keyed
    BY <1>6
  <2> QED BY <1>3, <1>5, <1>7, <1>9, <1>10, <1>11, <1>12, <2>1, ValueIsRead
<1>14. CanBegin(x)
  <2>1. PICK h : h = Charge(nodes, levels, 1)
    OBVIOUS
  <2>2. h \in Uses /\ WithinLimits(h) /\ AtMost(v, h)
    BY <1>3, <1>13, <2>1
  <2>3. containers = <<>> => ~sawRoot
    BY <1>6
  <2> QED BY <1>1, <1>5, <1>6, <1>13, <2>2, <2>3, Begins
<1>15. containers' = Finished(containers) /\ used' = v /\ sawRoot' = TRUE /\ Go /\ completedDocuments' = completedDocuments
  BY <1>2, <1>5, <1>14 DEF ConsumeValue, Begin
<1>16. OpenFits(nodes, q, containers')
  <2>1. OpenFits(nodes, PartRead(nodes, o), Finished(containers))
    BY <1>4, <1>5, <1>6, ValueFits
  <2> QED BY <1>5, <1>15, <2>1
<1>17. q \in Seq(Marks(nodes)) /\ Len(q) = n
  <2>1. PICK m : m = WithPart(nodes, o[n])
    OBVIOUS
  <2> QED BY <1>4, <1>5, <1>6, <2>1, PartReadIs
<1>18. q # <<>>
  BY <1>6, <1>17, EmptySeq
<1>19. PreflightStands(nodes, levels, q, next + 1, used', containers')
  BY <1>13, <1>15, <1>16, <1>17, <1>18 DEF PreflightStands
<1>20. OpenAfter(nodes, e, o) = q
  BY <1>2, <1>5 DEF OpenAfter, OpenKinds, CloseKinds, LeafKinds
<1>21. (sawRoot' <=> next + 1 > 2) /\ next < Len(text.events)
  <2>1. next + 1 > 2 /\ next < Len(text.events)
    BY <1>1, <1>2, <1>3, <1>9
  <2>2. sawRoot'
    BY <1>15
  <2> QED BY <2>1, <2>2
<1> QED BY <1>1, <1>2, <1>15, <1>19, <1>20, <1>21, StandsOn

\* StartContainer's frame
FrameOf(e) ==
    IF e.kind = "mappingStart" THEN [type |-> "mapping", expectingKey |-> TRUE]
    ELSE [type |-> "sequence", expectingKey |-> FALSE]
MarkOf(e) == NewMark(e.node)

LEMMA FrameOfFits ==
    ASSUME NEW nodes, NEW e, e.node \in DOMAIN nodes, e.kind \in OpenKinds,
           e.kind = "sequenceStart" => nodes[e.node].kind = "sequence", e.kind = "mappingStart" => nodes[e.node].kind = "mapping"
    PROVE  /\ FrameOf(e) \in Containers /\ MarkOf(e) \in Marks(nodes) /\ FrameFits(nodes, MarkOf(e), FrameOf(e))
           /\ nodes[e.node].kind \in {"sequence", "mapping"}
<1>1. e.kind = "sequenceStart" \/ e.kind = "mappingStart"
  BY DEF OpenKinds
<1>2. MarkOf(e) \in Marks(nodes) /\ MarkOf(e).node = e.node /\ ~MarkOf(e).keyed
  BY DEF MarkOf, NewMark, Marks
<1>3. CASE e.kind = "sequenceStart"
  <2>1. FrameOf(e) = [type |-> "sequence", expectingKey |-> FALSE]
    BY <1>3 DEF FrameOf
  <2>2. FrameOf(e) \in Containers /\ FrameOf(e).type = "sequence"
    BY <2>1 DEF Containers
  <2> QED BY <1>2, <1>3, <2>2 DEF FrameFits
<1>4. CASE e.kind = "mappingStart"
  <2>1. FrameOf(e) = [type |-> "mapping", expectingKey |-> TRUE]
    BY <1>4 DEF FrameOf
  <2>2. FrameOf(e) \in Containers /\ FrameOf(e).type = "mapping" /\ FrameOf(e).expectingKey
    BY <2>1 DEF Containers
  <2> QED BY <1>2, <1>4, <2>2 DEF FrameFits
<1> QED BY <1>1, <1>3, <1>4

\* What StartContainer does when it can.
LEMMA StartsOn ==
    ASSUME BuildInv, PreflightInv, Acceptable, StartContainer,
           ~ExpectingKey, CanBegin(0), NEW nodes, nodes = text.nodes, NEW levels, levels = Deepest, NEW e, e = text.events[next],
           NEW o, o = OpenTo(text.events, nodes, next), o \in Seq(Marks(nodes)), OpenFits(nodes, o, containers),
           e.node \in DOMAIN nodes, e.kind = "sequenceStart" => nodes[e.node].kind = "sequence",
           e.kind = "mappingStart" => nodes[e.node].kind = "mapping",
           \E t, j : OpenOnWay(nodes, levels, Append(o, MarkOf(e)), t, j, Consume(used, ValueCost(0))),
           next + 1 > 2, next < Len(text.events)
    PROVE  BuildInv' /\ PreflightInv'
<1>1. phase = "preflight" /\ e.kind \in OpenKinds /\ Current = e
  BY DEF StartContainer, Event, Current, OpenKinds
<1>2. PICK q, f, m : q = Append(o, m) /\ f = FrameOf(e) /\ m = MarkOf(e)
  OBVIOUS
<1>3. f \in Containers /\ m \in Marks(nodes) /\ FrameFits(nodes, m, f)
  BY <1>1, <1>2, FrameOfFits
<1>4. OpenFits(nodes, q, Append(containers, f)) /\ q \in Seq(Marks(nodes))
  BY <1>2, <1>3, StartFits
<1>5. /\ containers' = Append(containers, f) /\ used' = Consume(used, ValueCost(0)) /\ sawRoot' = TRUE
      /\ Go /\ completedDocuments' = completedDocuments
  BY <1>1, <1>2 DEF StartContainer, Begin, FrameOf
<1>6. q # <<>>
  <2>1. m \in Marks(nodes) /\ o \in Seq(Marks(nodes))
    BY <1>3
  <2> QED BY <1>2, <2>1, AppendProperties
<1>7. \E t, j : OpenOnWay(nodes, levels, q, t, j, used')
  BY <1>2, <1>5
<1>8. PreflightStands(nodes, levels, q, next + 1, used', containers')
  <2>1. PICK s, u : s = containers' /\ u = used'
    OBVIOUS
  <2>2. OpenFits(nodes, q, s) /\ \E t, j : OpenOnWay(nodes, levels, q, t, j, u)
    BY <1>4, <1>5, <1>7, <2>1
  <2>3. PreflightStands(nodes, levels, q, next + 1, u, s)
    BY <1>4, <1>6, <2>2 DEF PreflightStands
  <2> QED BY <2>1, <2>3
<1>9. OpenAfter(nodes, e, o) = q
  BY <1>1, <1>2 DEF OpenAfter, MarkOf, NewMark, OpenKinds, CloseKinds, LeafKinds
<1>10. sawRoot' <=> next + 1 > 2
  BY <1>5
<1> QED BY <1>1, <1>5, <1>8, <1>9, <1>10, StandsOn

LEMMA ContainerStandsOn ==
    ASSUME BuildInv, PreflightInv, Acceptable, StartContainer, OpenTo(text.events, text.nodes, next) # <<>>
    PROVE  BuildInv' /\ PreflightInv'
<1>1. PICK nodes, events, levels, o, e : /\ nodes = text.nodes /\ events = text.events /\ levels = Deepest
                                         /\ o = OpenTo(events, nodes, next) /\ e = events[next]
  OBVIOUS
<1>2. phase = "preflight" /\ next <= Len(text.events) /\ e.kind \in OpenKinds /\ o # <<>>
  BY <1>1 DEF StartContainer, Event, OpenKinds
<1>3. /\ IsGraph(nodes) /\ levels \in Nat /\ 1 \in Level(nodes, levels) /\ Len(events) \in Nat
      /\ limits \in ParseLimits /\ WithinLimits(Charge(nodes, levels, 1)) /\ Charge(nodes, levels, 1) \in Uses
      /\ next \in 1..Len(events)
      /\ EventFits(nodes, e, o, next, Len(events)) /\ PreflightStands(nodes, levels, o, next, used, containers)
      /\ next <= 2 \/ next = Len(events) => o = <<>>
  BY <1>1, <1>2, NowIs
<1>4. o \in Seq(Marks(nodes)) /\ OpenFits(nodes, o, containers) /\ (o # <<>> => \E w, l : OpenOnWay(nodes, levels, o, w, l, used))
  BY <1>3 DEF PreflightStands
<1>5. PICK n, q, v, c : /\ n = Len(o) /\ q = Append(o, MarkOf(e)) /\ v = Consume(used, ValueCost(0))
                        /\ c = ChildOf(nodes, o[n].node, o[n].done + 1)
  OBVIOUS
<1>6. /\ n \in Nat /\ n # 0 /\ containers # <<>> /\ Len(containers) = n /\ Top.type = nodes[o[n].node].kind
      /\ ExpectingKey <=> nodes[o[n].node].kind = "mapping" /\ ~o[n].keyed
  BY <1>2, <1>4, <1>5, TopIs
<1>7. PICK w, l : OpenOnWay(nodes, levels, o, w, l, used)
  BY <1>2, <1>4
<1>8. e.kind \in OpenKinds \cup LeafKinds
  BY <1>2
<1>9. /\ e.node \in DOMAIN nodes /\ o[n].done < Size(nodes, o[n].node)
      /\ nodes[o[n].node].kind = "mapping" /\ ~o[n].keyed => nodes[e.node] = KeyNode(nodes, o[n].node, o[n].done + 1)
      /\ ~(nodes[o[n].node].kind = "mapping" /\ ~o[n].keyed) => e.node = c
      /\ e.kind = "sequenceStart" => nodes[e.node].kind = "sequence"
      /\ e.kind = "mappingStart" => nodes[e.node].kind = "mapping"
  BY <1>2, <1>3, <1>5, <1>8, PartMeans
<1>10. nodes[e.node].kind \in {"sequence", "mapping"}
  BY <1>2, <1>9 DEF OpenKinds
<1>11. ~(nodes[o[n].node].kind = "mapping" /\ ~o[n].keyed)
  <2>1. SUFFICES ASSUME nodes[o[n].node].kind = "mapping", ~o[n].keyed PROVE FALSE
    OBVIOUS
  <2>2. n = Len(w)
    BY <1>5, <1>7 DEF OpenOnWay
  <2>3. Way(nodes, levels, w) /\ o[n].node = w[n].node /\ o[n].done = w[n].done
    BY <1>3, <1>7, <2>2, OpenedIs
  <2>4. PICK b, a : b = ChildOf(nodes, w[n].node, w[n].done + 1) /\ a = SpentOn(nodes, levels, w[n])
    OBVIOUS
  <2>5. w[n].done < Size(nodes, w[n].node) /\ nodes[w[n].node].kind = "mapping"
    BY <1>9, <2>1, <2>3
  <2>6. KeyNode(nodes, w[n].node, w[n].done + 1).kind = "scalar"
    BY <1>3, <2>2, <2>3, <2>4, <2>5, NextOnWay
  <2>7. nodes[e.node].kind = "scalar"
    BY <1>9, <2>1, <2>3, <2>6
  <2> QED BY <1>10, <2>7
<1>12. PICK z : z = EntryOf(nodes, o[n])
  OBVIOUS
<1>13. v = Consume(used, Cost(1, 0, z))
  BY <1>5, <1>6, <1>12 DEF ValueCost, EntryOf
<1>14. /\ n < levels /\ v \in Uses /\ AtMost(v, Charge(nodes, levels, 1))
       /\ \E t, j : OpenOnWay(nodes, levels, q, t, j, v)
  <2>1. AtValue(nodes, o[n])
    BY <1>11 DEF AtValue
  <2>2. e.node = c /\ nodes[c].kind \in {"sequence", "mapping"}
    BY <1>9, <1>10, <1>11
  <2>3. q = Deeper(o, c)
    BY <1>5, <2>2 DEF MarkOf, Deeper
  <2>4. IsGraph(nodes) /\ levels \in Nat /\ 1 \in Level(nodes, levels) /\ n = Len(o) /\ o[n].done < Size(nodes, o[n].node)
    BY <1>3, <1>5, <1>9
  <2>5. nodes[c].kind \in {"sequence", "mapping"} /\ c = ChildOf(nodes, o[n].node, o[n].done + 1)
    BY <1>5, <2>2
  <2> QED BY <1>7, <1>12, <1>13, <2>1, <2>3, <2>4, <2>5, ValueIsOpened
<1>15. ~ExpectingKey
  BY <1>6, <1>11
<1>16. CanBegin(0)
  <2>1. PICK h : h = Charge(nodes, levels, 1)
    OBVIOUS
  <2>2. h \in Uses /\ WithinLimits(h) /\ AtMost(v, h)
    BY <1>3, <1>14, <2>1
  <2>3. containers = <<>> => ~sawRoot
    BY <1>6
  <2> QED BY <1>1, <1>5, <1>6, <1>14, <2>2, <2>3, Begins
<1>17. next + 1 > 2 /\ next < Len(text.events)
  <2>1. PICK m : m = Len(events)
    OBVIOUS
  <2>2. m \in Nat /\ next \in 1..m /\ next # m /\ ~(next <= 2)
    BY <1>2, <1>3, <2>1
  <2>3. next < m /\ next + 1 > 2
    BY <2>2
  <2> QED BY <1>1, <2>1, <2>3
<1>18. \E t, j : OpenOnWay(nodes, levels, Append(o, MarkOf(e)), t, j, Consume(used, ValueCost(0)))
  BY <1>5, <1>14
<1>19. /\ nodes = text.nodes /\ levels = Deepest /\ e = text.events[next] /\ o = OpenTo(text.events, nodes, next)
       /\ o \in Seq(Marks(nodes)) /\ OpenFits(nodes, o, containers)
  BY <1>1, <1>4
<1> QED BY <1>9, <1>15, <1>16, <1>17, <1>18, <1>19, StartsOn
\* The document's root is a container.
LEMMA RootContainerStandsOn ==
    ASSUME BuildInv, PreflightInv, Acceptable, StartContainer, OpenTo(text.events, text.nodes, next) = <<>>
    PROVE  BuildInv' /\ PreflightInv'
<1>1. PICK nodes, events, levels, o, e : /\ nodes = text.nodes /\ events = text.events /\ levels = Deepest
                                         /\ o = OpenTo(events, nodes, next) /\ e = events[next]
  OBVIOUS
<1>2. phase = "preflight" /\ next <= Len(text.events) /\ e.kind \in OpenKinds /\ o = <<>>
  BY <1>1 DEF StartContainer, Event, OpenKinds
<1>3. /\ IsGraph(nodes) /\ levels \in Nat /\ 1 \in Level(nodes, levels) /\ Len(events) \in Nat
      /\ limits \in ParseLimits /\ WithinLimits(Charge(nodes, levels, 1)) /\ Charge(nodes, levels, 1) \in Uses
      /\ next \in 1..Len(events) /\ (sawRoot <=> next > 2)
      /\ EventFits(nodes, e, o, next, Len(events)) /\ PreflightStands(nodes, levels, o, next, used, containers)
  BY <1>1, <1>2, NowIs
<1>4. e.kind \in OpenKinds \cup LeafKinds
  BY <1>2
<1>5. /\ next # Len(events) /\ next = 2 /\ e.node = 1 /\ e.node \in DOMAIN nodes
      /\ e.kind = "sequenceStart" => nodes[e.node].kind = "sequence"
      /\ e.kind = "mappingStart" => nodes[e.node].kind = "mapping"
  <2>1. PICK n : n = Len(o)
    OBVIOUS
  <2> QED BY <1>2, <1>3, <1>4, <2>1, PartMeans
<1>6. o \in Seq(Marks(nodes)) /\ OpenFits(nodes, o, containers) /\ used = Unused
  BY <1>2, <1>3, <1>5 DEF PreflightStands
<1>7. containers = <<>> /\ Len(containers) = 0 /\ ~ExpectingKey
  BY <1>2, <1>6, NothingFits, EmptySeq DEF ExpectingKey
<1>8. PICK v, q, m : v = Consume(used, ValueCost(0)) /\ m = MarkOf(e) /\ q = Append(<<>>, m)
  OBVIOUS
<1>9. m \in Marks(nodes) /\ m = NewMark(1) /\ nodes[1].kind \in {"sequence", "mapping"}
  <2>1. MarkOf(e) \in Marks(nodes) /\ nodes[e.node].kind \in {"sequence", "mapping"}
    BY <1>2, <1>5, FrameOfFits
  <2>2. MarkOf(e) = NewMark(1)
    BY <1>5 DEF MarkOf
  <2> QED BY <1>5, <1>8, <2>1, <2>2
<1>10. q \in Seq(Marks(nodes)) /\ Len(q) = 1 /\ q[1] = NewMark(1)
  <2>1. q \in Seq(Marks(nodes)) /\ Len(q) = 1 /\ q[1] = m
    BY <1>8, <1>9, OneLong
  <2> QED BY <1>9, <2>1
<1>11. v = Consume(Unused, Cost(1, 0, 0))
  <2>1. ValueCost(0) = Cost(1, 0, 0)
    BY <1>7 DEF ValueCost
  <2> QED BY <1>6, <1>8, <2>1
<1>12. /\ v \in Uses /\ AtMost(v, Charge(nodes, levels, 1)) /\ levels # 0
       /\ \E t, j : OpenOnWay(nodes, levels, q, t, j, v)
  BY <1>3, <1>9, <1>10, <1>11, RootIsOpened
<1>13. CanBegin(0)
  <2>1. 0 \in Nat /\ 0 < levels
    BY <1>3, <1>12
  <2>2. PICK c : c = Charge(nodes, levels, 1)
    OBVIOUS
  <2>3. c \in Uses /\ WithinLimits(c) /\ AtMost(v, c)
    BY <1>3, <1>12, <2>2
  <2>4. containers = <<>> => ~sawRoot
    BY <1>3, <1>5
  <2> QED BY <1>1, <1>7, <1>8, <1>12, <2>1, <2>3, <2>4, Begins
<1>14. next + 1 > 2 /\ next < Len(text.events)
  <2>1. PICK y : y = Len(events)
    OBVIOUS
  <2>2. y \in Nat /\ 2 \in 1..y /\ 2 # y /\ next = 2
    BY <1>3, <1>5, <2>1
  <2>3. next < y /\ next + 1 > 2
    BY <2>2
  <2> QED BY <1>1, <2>1, <2>3
<1>15. \E t, j : OpenOnWay(nodes, levels, Append(o, MarkOf(e)), t, j, Consume(used, ValueCost(0)))
  BY <1>2, <1>8, <1>12
<1>16. /\ nodes = text.nodes /\ levels = Deepest /\ e = text.events[next] /\ o = OpenTo(text.events, nodes, next)
       /\ o \in Seq(Marks(nodes)) /\ OpenFits(nodes, o, containers)
  BY <1>1, <1>6
<1> QED BY <1>5, <1>7, <1>13, <1>14, <1>15, <1>16, StartsOn

\* What the end of a container tells of it.
LEMMA EndMeans ==
    ASSUME NEW nodes, NEW e, NEW o, NEW p, NEW last, EventFits(nodes, e, o, p, last), e.kind \in CloseKinds, NEW n, n = Len(o)
    PROVE  /\ p # 1 /\ p # last /\ o # <<>> /\ o[n].done = Size(nodes, o[n].node) /\ ~o[n].keyed
           /\ nodes[o[n].node].kind = IF e.kind = "mappingEnd" THEN "mapping" ELSE "sequence"
<1>1. e.kind # "documentStart" /\ e.kind # "documentEnd"
  BY DEF CloseKinds
<1>2. p # 1 /\ p # last
  BY <1>1 DEF EventFits
<1> QED BY <1>2 DEF EventFits, Size

LEMMA EndStandsOn ==
    ASSUME BuildInv, PreflightInv, Acceptable, EndContainer
    PROVE  BuildInv' /\ PreflightInv'
<1>1. PICK nodes, events, levels, o, e : /\ nodes = text.nodes /\ events = text.events /\ levels = Deepest
                                         /\ o = OpenTo(events, nodes, next) /\ e = events[next]
  OBVIOUS
<1>2. phase = "preflight" /\ next <= Len(text.events) /\ e.kind \in CloseKinds /\ Current = e
  BY <1>1 DEF EndContainer, Event, Current, CloseKinds
<1>3. /\ IsGraph(nodes) /\ levels \in Nat /\ 1 \in Level(nodes, levels) /\ Len(events) \in Nat
      /\ next \in 1..Len(events) /\ (sawRoot <=> next > 2)
      /\ EventFits(nodes, e, o, next, Len(events)) /\ PreflightStands(nodes, levels, o, next, used, containers)
      /\ next <= 2 \/ next = Len(events) => o = <<>>
  BY <1>1, <1>2, NowIs
<1>4. o \in Seq(Marks(nodes)) /\ OpenFits(nodes, o, containers) /\ (o # <<>> => \E w, l : OpenOnWay(nodes, levels, o, w, l, used))
  BY <1>3 DEF PreflightStands
<1>5. PICK n, p, q, r : /\ n = Len(o) /\ p = SubSeq(o, 1, n - 1) /\ q = PartRead(nodes, p)
                        /\ r = SubSeq(containers, 1, n - 1)
  OBVIOUS
<1>6. /\ next # Len(events) /\ o # <<>> /\ o[n].done = Size(nodes, o[n].node) /\ ~o[n].keyed
      /\ nodes[o[n].node].kind = IF e.kind = "mappingEnd" THEN "mapping" ELSE "sequence"
  BY <1>2, <1>3, <1>5, EndMeans
<1>7. /\ n \in Nat /\ n # 0 /\ containers # <<>> /\ Len(containers) = n /\ Top.type = nodes[o[n].node].kind
      /\ ExpectingKey <=> nodes[o[n].node].kind = "mapping" /\ ~o[n].keyed
  BY <1>4, <1>5, <1>6, TopIs
<1>8. PICK w, l : OpenOnWay(nodes, levels, o, w, l, used)
  BY <1>4, <1>6
<1>9. /\ containers' = Finished(r) /\ used' = used /\ sawRoot' = sawRoot /\ Go /\ completedDocuments' = completedDocuments
  <2>1. PICK y : y = IF e.kind = "mappingEnd" THEN "mapping" ELSE "sequence"
    OBVIOUS
  <2>2. containers # <<>> /\ Top.type = y /\ (y = "mapping" => Top.expectingKey)
    BY <1>6, <1>7, <2>1 DEF ExpectingKey
  <2> QED BY <1>2, <1>5, <1>7, <2>1, <2>2 DEF EndContainer
<1>10. PICK k \in Nat : k = n - 1
  BY <1>7
<1>11. k \in Nat /\ n = k + 1 /\ (k + 1) - 1 = k
  BY <1>7, <1>10
<1>12. p \in Seq(Marks(nodes)) /\ OpenFits(nodes, p, r) /\ Len(p) = k /\ \A i \in 1..k : p[i] = o[i]
  <2>1. p = Callers(o) /\ r = Callers(containers)
    BY <1>5, <1>7 DEF Callers
  <2>2. o \in Seq(Marks(nodes)) /\ OpenFits(nodes, o, containers) /\ k \in Nat /\ Len(o) = k + 1
    BY <1>4, <1>5, <1>11
  <2> QED BY <2>1, <2>2, EndFits
<1>13. ~(next + 1 <= 2) /\ next + 1 > 2 /\ next > 2
  BY <1>3, <1>6
<1>14. PreflightStands(nodes, levels, q, next + 1, used, Finished(r))
  <2>1. CASE k = 0
    <3>1. p = <<>>
      BY <1>12, <2>1, EmptySeq
    <3>2. q = <<>> /\ r = <<>>
      BY <1>5, <1>12, <3>1, NothingFits DEF PartRead
    <3>3. Finished(r) = <<>>
      BY <3>2 DEF Finished
    <3>4. q \in Seq(Marks(nodes)) /\ OpenFits(nodes, q, Finished(r))
      BY <1>12, <3>1, <3>2, <3>3
    <3> QED BY <1>13, <3>2, <3>4 DEF PreflightStands
  <2>2. CASE k # 0
    <3>1. \E t, j : OpenOnWay(nodes, levels, q, t, j, used)
      <4>1. Len(o) = k + 1 /\ p = SubSeq(o, 1, (k + 1) - 1) /\ o[k + 1].done = Size(nodes, o[k + 1].node) /\ ~o[k + 1].keyed
        BY <1>5, <1>6, <1>10, <1>11
      <4> QED BY <1>3, <1>5, <1>8, <1>11, <2>2, <4>1, ValueIsClosed
    <3>2. ~(nodes[p[k].node].kind = "mapping" /\ ~p[k].keyed)
      <4>1. k \in 1..k /\ k \in 1..n /\ k # n
        BY <1>11, <2>2
      <4>2. n = Len(w)
        BY <1>5, <1>8 DEF OpenOnWay
      <4>3. Within(nodes, o[k], w[k], l[k], l[k + 1]) /\ MarkFits(nodes, o[k], w[k])
        BY <1>3, <1>8, <4>1, <4>2, OpenedIs
      <4> QED BY <1>12, <4>1, <4>3 DEF Within, MarkFits
    <3>3. OpenFits(nodes, q, Finished(r))
      <4>1. k = Len(p) /\ (nodes[p[k].node].kind = "mapping" => p[k].keyed)
        BY <1>12, <3>2
      <4>2. p \in Seq(Marks(nodes)) /\ OpenFits(nodes, p, r) /\ k \in Nat
        BY <1>11, <1>12
      <4>3. OpenFits(nodes, PartRead(nodes, p), Finished(r))
        BY <2>2, <4>1, <4>2, ValueFits
      <4> QED BY <1>5, <4>3
    <3>4. q \in Seq(Marks(nodes)) /\ Len(q) = k
      <4>1. PICK m : m = WithPart(nodes, p[k])
        OBVIOUS
      <4>2. p \in Seq(Marks(nodes)) /\ k = Len(p) /\ q = PartRead(nodes, p)
        BY <1>5, <1>12
      <4> QED BY <2>2, <4>1, <4>2, PartReadIs
    <3>5. q # <<>>
      BY <2>2, <3>4, EmptySeq
    <3> QED BY <3>1, <3>3, <3>4, <3>5 DEF PreflightStands
  <2> QED BY <2>1, <2>2
<1>15. PreflightStands(nodes, levels, q, next + 1, used', containers')
  BY <1>9, <1>14
<1>16. OpenAfter(nodes, e, o) = q
  BY <1>2, <1>5 DEF OpenAfter, OpenKinds, CloseKinds, LeafKinds
<1>17. (sawRoot' <=> next + 1 > 2) /\ next < Len(text.events)
  <2>1. next < Len(events)
    BY <1>3, <1>6
  <2> QED BY <1>1, <1>3, <1>9, <1>13, <2>1
<1> QED BY <1>1, <1>2, <1>9, <1>15, <1>16, <1>17, StandsOn
\* Every value is read, and what the build will spend is within the limits.
LEMMA EndPreflightStands ==
    ASSUME BuildInv, PreflightInv, EndPreflight
    PROVE  BuildInv' /\ PreflightInv'
<1>1. phase = "preflight" /\ next > Len(text.events) /\ text \in Texts
  BY DEF EndPreflight, BuildInv
<1>2. CASE ~(text.wellFormed /\ sawRoot) /\ Fail
  <2>1. ~Acceptable
    <3> SUFFICES ASSUME Acceptable PROVE FALSE
      OBVIOUS
    <3>1. text.wellFormed /\ text.documents = 1 /\ text.nodes # Null
      BY AcceptableIs DEF Expands
    <3>2. IsComposed(text.events, text.nodes) /\ Len(text.events) \in Nat
      BY <1>1, <3>1, TextEvents
    <3>3. Len(text.events) > 2
      BY <3>2, ComposedEnds
    <3>4. next \in 1..(Len(text.events) + 1) /\ (sawRoot <=> next > 2)
      BY <1>1 DEF PreflightInv
    <3>5. next > 2
      BY <1>1, <3>2, <3>3, <3>4
    <3> QED BY <1>2, <3>1, <3>4, <3>5
  <2>2. phase' = "failed"
    BY <1>2 DEF Fail
  <2> QED BY <1>2, <2>1, <2>2, FailureStep DEF PreflightInv
<1>3. CASE text.wellFormed /\ phase' = "load" /\ UNCHANGED <<text, limits>>
  BY <1>1, <1>3, TextStays DEF BuildInv, PreflightInv
<1> QED BY <1>2, <1>3 DEF EndPreflight

\* Each handler fails or reads its event.
LEMMA HandlersEnd ==
    ASSUME DocumentStart \/ DocumentEnd \/ ConsumeKey \/ ConsumeValue \/ StartContainer \/ EndContainer
    PROVE  phase = "preflight" /\ (Fail \/ Go)
<1>1. phase = "preflight"
  BY DEF DocumentStart, DocumentEnd, ConsumeKey, ConsumeValue, StartContainer, EndContainer, Event
<1>2. CASE DocumentStart
  BY <1>1, <1>2 DEF DocumentStart
<1>3. CASE DocumentEnd
  BY <1>1, <1>3 DEF DocumentEnd
<1>4. CASE ConsumeKey
  BY <1>1, <1>4 DEF ConsumeKey
<1>5. CASE ConsumeValue
  BY <1>1, <1>5 DEF ConsumeValue
<1>6. CASE StartContainer
  BY <1>1, <1>6 DEF StartContainer
<1>7. CASE EndContainer
  BY <1>1, <1>7 DEF EndContainer
<1> QED BY <1>1, <1>2, <1>3, <1>4, <1>5, <1>6, <1>7

LEMMA PreflightBuilds ==
    ASSUME BuildInv, PreflightInv, Preflight
    PROVE  BuildInv' /\ PreflightInv'
<1>1. CASE EndPreflight
  BY <1>1, EndPreflightStands
<1>2. CASE DocumentStart \/ DocumentEnd \/ ConsumeKey \/ ConsumeValue \/ StartContainer \/ EndContainer
  <2>1. CASE ~Acceptable
    BY <1>2, <2>1, HandlersEnd, Disagrees
  <2>2. CASE Acceptable
    BY <1>2, <2>2, DocumentStartStands, DocumentEndStands, KeyStandsOn, RootStandsOn, ValueStandsOn, ContainerStandsOn,
       RootContainerStandsOn, EndStandsOn
  <2> QED BY <2>1, <2>2
<1> QED BY <1>1, <1>2 DEF Preflight

\* The build reads no event.
LEMMA BuildBuilds ==
    ASSUME BuildInv, ExpansionInv, Build
    PROVE  BuildInv' /\ PreflightInv'
<1>1. BuildInv'
  BY LoadBuilds, NextItemBuilds, ReturnBuilds, TrailingBuilds DEF Build
<1>2. phase' # "preflight"
  BY DEF Build, Load, NextItem, Return, CheckTrailing, Fail
<1> QED BY <1>1, <1>2 DEF PreflightInv

LEMMA StillBuilds ==
    ASSUME BuildInv, PreflightInv, UNCHANGED vars
    PROVE  BuildInv' /\ PreflightInv'
<1>1. UNCHANGED <<text, limits>> /\ UNCHANGED <<phase, next, containers, sawRoot, completedDocuments, used, path, result>>
  BY DEF vars, preflight, builder
<1>2. Deepest' = Deepest /\ Expands' = Expands /\ Acceptable' = Acceptable /\ Readable(text)' = Readable(text)
  BY <1>1, TextStays
<1> QED BY <1>1, <1>2 DEF BuildInv, PreflightInv

LEMMA BuildStarts == ASSUME Init PROVE BuildInv /\ PreflightInv
<1>1. /\ text \in Texts /\ limits \in ParseLimits /\ phase = (IF Readable(text) THEN "preflight" ELSE "failed")
      /\ next = 1 /\ containers = <<>> /\ sawRoot = FALSE /\ completedDocuments = 0 /\ used = Unused
  BY DEF Init
<1>2. BuildInv
  <2>1. phase = "failed" => ~Acceptable
    BY <1>1, AcceptableIs
  <2> QED BY <1>1, <2>1 DEF BuildInv
<1>3. PreflightInv
  <2> SUFFICES ASSUME Acceptable PROVE PreflightInv
    BY DEF PreflightInv
  <2>1. text.wellFormed /\ text.documents = 1 /\ text.nodes # Null
    BY AcceptableIs DEF Expands
  <2>2. IsComposed(text.events, text.nodes) /\ Len(text.events) \in Nat
    BY <1>1, <2>1, TextEvents
  <2>3. Len(text.events) > 2
    BY <2>2, ComposedEnds
  <2>4. OpenTo(text.events, text.nodes, 1) = <<>>
    BY <2>2, <2>3, OpenIs
  <2>5. PreflightStands(text.nodes, Deepest, <<>>, 1, Unused, <<>>)
    <3>1. <<>> \in Seq(Marks(text.nodes)) /\ <<>> \in Seq(Containers) /\ Len(<<>>) = 0
      BY EmptySeq
    <3>2. OpenFits(text.nodes, <<>>, <<>>)
      BY <3>1 DEF OpenFits
    <3> QED BY <3>1, <3>2 DEF PreflightStands
  <2>6. next \in 1..(Len(text.events) + 1) /\ ~(next > 2)
    BY <1>1, <2>2
  <2> QED BY <1>1, <2>4, <2>5, <2>6 DEF PreflightInv
<1> QED BY <1>2, <1>3

LEMMA YAMLSteps ==
    ASSUME ExpansionInv, BuildInv, PreflightInv, [Next]_vars
    PROVE  BuildInv' /\ PreflightInv'
BY PreflightBuilds, BuildBuilds, StillBuilds DEF Next, Ended

LEMMA YAMLAlways == Spec => [](ExpansionInv /\ BuildInv /\ PreflightInv)
<1>1. Init => ExpansionInv /\ BuildInv /\ PreflightInv
  BY InitExpands, BuildStarts
<1>2. (ExpansionInv /\ BuildInv /\ PreflightInv) /\ [Next]_vars => (ExpansionInv /\ BuildInv /\ PreflightInv)'
  BY StepExpands, YAMLSteps
<1> QED BY <1>1, <1>2, PTL DEF Spec

LEMMA BuildDecides == BuildInv => AcceptsExactly
<1> SUFFICES ASSUME BuildInv PROVE AcceptsExactly
  OBVIOUS
<1>1. ASSUME phase = "done" PROVE Acceptable
  <2>1. Readable(text) /\ text.wellFormed /\ Expands /\ text.documents <= 1 /\ text \in Texts /\ text.nodes # Null
    BY <1>1 DEF BuildInv, Expands
  <2>2. text.documents \in Nat /\ text.documents > 0
    BY <2>1, TextIs
  <2>3. text.documents = 1
    BY <2>1, <2>2
  <2> QED BY <2>1, <2>3, AcceptableIs
<1>2. ASSUME phase = "failed" PROVE ~Acceptable
  BY <1>2 DEF BuildInv
<1> QED BY <1>1, <1>2 DEF AcceptsExactly

\* Data::fromYAML returns exactly when the text is one document that expands within the limits: its two budgets
\* agree.  The preflight, which sees each alias as one value and does not know what it stands for, never rejects
\* a document that createFromNode would have built within the limits, and what it lets pass is rejected exactly when an
\* alias leads back to a node that is being expanded, or the expansion, each node charged as often as it is
\* reached, is over a limit.
THEOREM ExpansionDecides == Spec => []AcceptsExactly
BY YAMLAlways, BuildDecides, PTL

\* Where each scalar resolves to what it means, createFromNode returns the tree that the aliases expand to: the
\* pending calls hold, for every node on the way to the one that is read, its first items in their order, or by their
\* names with the last of those with the same name.
THEOREM AliasesAreExpanded == Spec => [](Reads(text.nodes) => BuildsExpansion)
<1>1. BuildInv => (Reads(text.nodes) => BuildsExpansion)
  BY DEF BuildInv, BuildsExpansion
<1> QED BY <1>1, YAMLAlways, PTL

=============================================================================
