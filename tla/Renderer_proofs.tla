---------------------------- MODULE Renderer_proofs ----------------------------
(***************************************************************************)
(* Theorems about the render engine, for every template, datum, partial,   *)
(* lambda behaviour and policy.                                            *)
(*                                                                         *)
(* The pending calls of control are well nested: each guard finds below it *)
(* the calls it is the guard of.  StackInv says so and counts renderer     *)
(* state against the pending guards; every action of Next replaces a call  *)
(* by plain calls, leaves guards behind, or runs one.  LedgerInv adds up   *)
(* what each live buffer holds against what was charged for it, and        *)
(* ChargeInv bounds the charges.                                           *)
(***************************************************************************)
EXTENDS Renderer, FiniteSetTheorems, SequenceTheorems, WellFoundedInduction, TLAPS

Settings ==
    [node : Roots \cup {Null}, data : Inputs \cup {Null}, partials : Externals \cup {NoPartials},
     resolver : Resolvers \cup {NoPartials}, limits : LimitChoices, mode : Modes]

-----------------------------------------------------------------------------
(* Sequences of pending calls *)

IsSeq(s) == \E S : s \in Seq(S)

\* Induction over a set of numbers.
LEMMA SetInduction ==
    ASSUME NEW S \in SUBSET Nat, 0 \in S, \A n \in S : n + 1 \in S
    PROVE  S = Nat
<1> SUFFICES ASSUME Nat \ S # {} PROVE FALSE
  OBVIOUS
<1> DEFINE R == {ss \in Nat \X Nat : ss[1] < ss[2]}
<1>1. IsWellFoundedOn(R, Nat)
  BY NatLessThanWellFounded DEF OpToRel
<1>2. PICK x \in Nat \ S : \A y \in Nat \ S : ~ (<<y, x>> \in R)
  <2> HIDE DEF R
  <2> QED BY <1>1, WFMin, Zenon
<1>3. \A y \in Nat \ S : ~ (y < x)
  BY <1>2
<1>4. x # 0 /\ x - 1 \in Nat /\ x - 1 < x /\ (x - 1) + 1 = x
  OBVIOUS
<1> QED BY <1>3, <1>4

\* What concatenation does to lengths and domains.
LEMMA Concat ==
    ASSUME NEW u, IsSeq(u), NEW t, IsSeq(t)
    PROVE  /\ IsSeq(u \o t) /\ Len(u) \in Nat /\ Len(t) \in Nat /\ Len(u \o t) = Len(u) + Len(t)
           /\ DOMAIN u = 1..Len(u) /\ DOMAIN t = 1..Len(t) /\ DOMAIN (u \o t) = 1..(Len(u) + Len(t))
           /\ <<>> \o t = t
<1>1. PICK S : u \in Seq(S)
  BY DEF IsSeq
<1>2. PICK T : t \in Seq(T)
  BY DEF IsSeq
<1>3. u \in Seq(S \cup T) /\ t \in Seq(S \cup T)
  BY <1>1, <1>2, SeqMonotonic
<1>4. u \o t \in Seq(S \cup T) /\ <<>> \o t = t
  BY <1>3, ConcatEmptySeq
<1>5. /\ Len(u) \in Nat /\ Len(t) \in Nat /\ Len(u \o t) = Len(u) + Len(t)
      /\ DOMAIN u = 1..Len(u) /\ DOMAIN t = 1..Len(t) /\ DOMAIN (u \o t) = 1..Len(u \o t)
  BY <1>3, <1>4
<1> QED BY <1>4, <1>5 DEF IsSeq

\* Concatenation associates.
LEMMA Associative ==
    ASSUME NEW s, IsSeq(s), NEW t, IsSeq(t), NEW u, IsSeq(u)
    PROVE  (s \o t) \o u = s \o (t \o u)
<1>1. PICK S : s \in Seq(S)
  BY DEF IsSeq
<1>2. PICK T : t \in Seq(T)
  BY DEF IsSeq
<1>3. PICK U : u \in Seq(U)
  BY DEF IsSeq
<1> DEFINE V == S \cup T \cup U
<1>4. s \in Seq(V) /\ t \in Seq(V) /\ u \in Seq(V)
  BY <1>1, <1>2, <1>3, SeqMonotonic
<1> HIDE DEF V
<1> QED BY <1>4, ConcatAssociative

\* A tuple of one call.
LEMMA Singleton ==
    ASSUME NEW x
    PROVE  IsSeq(<<x>>) /\ Len(<<x>>) = 1 /\ <<x>>[1] = x /\ <<x>> # <<>>
<1>1. <<x>> \in Seq({x})
  OBVIOUS
<1> QED BY <1>1 DEF IsSeq

\* A call on top of a stack.
LEMMA Push ==
    ASSUME NEW x, NEW t, IsSeq(t)
    PROVE  /\ IsSeq(<<x>> \o t) /\ <<x>> \o t # <<>>
           /\ Head(<<x>> \o t) = x /\ Tail(<<x>> \o t) = t
           /\ Len(t) \in Nat /\ Len(<<x>> \o t) = Len(t) + 1
           /\ DOMAIN t = 1..Len(t) /\ DOMAIN (<<x>> \o t) = 1..(Len(t) + 1)
           /\ (<<x>> \o t)[1] = x /\ \A i \in 1..Len(t) : (<<x>> \o t)[i + 1] = t[i]
<1>1. PICK T : t \in Seq(T)
  BY DEF IsSeq
<1>2. t \in Seq(T \cup {x}) /\ <<x>> \in Seq(T \cup {x}) /\ x \in T \cup {x}
  BY <1>1, SeqMonotonic
<1> DEFINE s == <<x>> \o t
<1>3. s \in Seq(T \cup {x}) /\ Len(t) \in Nat /\ Len(s) = Len(t) + 1 /\ DOMAIN t = 1..Len(t) /\ DOMAIN s = 1..Len(s)
  BY <1>2
<1>4. \A i \in 1..(1 + Len(t)) : s[i] = IF i <= 1 THEN x ELSE t[i - 1]
  BY <1>2, ConcatProperties
<1>5. s[1] = x /\ \A i \in 1..Len(t) : s[i + 1] = t[i]
  <2>1. 1 \in 1..(1 + Len(t))
    BY <1>3
  <2>2. ASSUME NEW i \in 1..Len(t) PROVE s[i + 1] = t[i]
    <3>1. i + 1 \in 1..(1 + Len(t)) /\ ~(i + 1 <= 1) /\ (i + 1) - 1 = i
      BY <1>3
    <3> QED BY <3>1, <1>4
  <2> QED BY <2>1, <2>2, <1>4
<1>6. s # <<>>
  BY <1>3
<1>7. /\ Head(s) = s[1] /\ Tail(s) \in Seq(T \cup {x}) /\ Len(Tail(s)) = Len(s) - 1
      /\ \A i \in 1..Len(Tail(s)) : Tail(s)[i] = s[i + 1]
  BY <1>3, <1>6, HeadTailProperties
<1>8. Tail(s) = t
  <2>1. Len(Tail(s)) = Len(t)
    BY <1>3, <1>7
  <2>2. \A i \in 1..Len(Tail(s)) : Tail(s)[i] = t[i]
    BY <1>5, <1>7, <2>1
  <2> QED BY <1>2, <1>7, <2>1, <2>2, SeqEqual
<1> QED BY <1>3, <1>5, <1>6, <1>7, <1>8 DEF IsSeq

\* A stack that is not empty is a call on top of the rest.
LEMMA Pop ==
    ASSUME NEW s, IsSeq(s), s # <<>>
    PROVE  IsSeq(Tail(s)) /\ s = <<Head(s)>> \o Tail(s) /\ Head(s) = s[1] /\ 1 \in DOMAIN s /\ Len(s) \in Nat \ {0}
<1>1. PICK S : s \in Seq(S)
  BY DEF IsSeq
<1>2. /\ Head(s) = s[1] /\ Tail(s) \in Seq(S) /\ Len(Tail(s)) = Len(s) - 1 /\ Len(s) \in Nat \ {0}
      /\ DOMAIN s = 1..Len(s) /\ \A i \in 1..Len(Tail(s)) : Tail(s)[i] = s[i + 1]
  BY <1>1, HeadTailProperties
<1>3. Head(s) \in S
  BY <1>1, HeadTailProperties
<1> DEFINE p == <<Head(s)>> \o Tail(s)
<1>4. p \in Seq(S) /\ IsSeq(Tail(s))
  BY <1>2, <1>3 DEF IsSeq
<1>5. Len(p) = Len(Tail(s)) + 1 /\ p[1] = Head(s) /\ \A i \in 1..Len(Tail(s)) : p[i + 1] = Tail(s)[i]
  BY <1>4, Push
<1>6. Len(p) = Len(s)
  BY <1>2, <1>5
<1>7. ASSUME NEW i \in 1..Len(s) PROVE s[i] = p[i]
  <2>1. CASE i = 1
    BY <2>1, <1>2, <1>5
  <2>2. CASE i # 1
    <3>1. i - 1 \in 1..Len(Tail(s)) /\ (i - 1) + 1 = i
      BY <2>2, <1>2
    <3> QED BY <3>1, <1>2, <1>5
  <2> QED BY <2>1, <2>2
<1>8. s = p
  BY <1>1, <1>4, <1>6, <1>7, SeqEqual
<1> QED BY <1>2, <1>4, <1>8

\* A call that ends leaves what was below it.
LEMMA NoCalls == ASSUME NEW t, IsSeq(t) PROVE <<>> \o t = t
BY Concat, Singleton

\* A call that is replaced by several leaves them in order.
LEMMA TwoCalls ==
    ASSUME NEW a, NEW b, NEW t, IsSeq(t)
    PROVE  IsSeq(<<a, b>>) /\ <<a, b>> \o t = <<a>> \o (<<b>> \o t)
<1>1. IsSeq(<<a>>) /\ IsSeq(<<b>>)
  BY Singleton
<1>2. <<a, b>> = <<a>> \o <<b>> /\ IsSeq(<<a, b>>)
  <2>1. <<a>> \in Seq({a, b}) /\ <<b>> \in Seq({a, b}) /\ <<a, b>> \in Seq({a, b})
    OBVIOUS
  <2>2. <<a, b>> = <<a>> \o <<b>>
    <3>1. Len(<<a>> \o <<b>>) = 2 /\ (<<a>> \o <<b>>)[1] = a /\ (<<a>> \o <<b>>)[2] = b
      BY <2>1, ConcatProperties
    <3>2. Len(<<a, b>>) = 2 /\ <<a, b>>[1] = a /\ <<a, b>>[2] = b /\ \A i \in 1..2 : i = 1 \/ i = 2
      OBVIOUS
    <3>3. <<a>> \o <<b>> \in Seq({a, b})
      BY <2>1
    <3> QED BY <2>1, <3>1, <3>2, <3>3, SeqEqual
  <2> QED BY <2>1, <2>2 DEF IsSeq
<1> QED BY <1>1, <1>2, Associative

\* The same, for three.
LEMMA ThreeCalls ==
    ASSUME NEW a, NEW b, NEW c, NEW t, IsSeq(t)
    PROVE  IsSeq(<<a, b, c>>) /\ <<a, b, c>> \o t = <<a>> \o (<<b>> \o (<<c>> \o t))
<1>1. PICK p : p = <<a, b>> /\ IsSeq(p)
  BY TwoCalls
<1>2. PICK q : q = <<c>> /\ IsSeq(q)
  BY Singleton
<1>3. <<a, b, c>> = <<a, b>> \o <<c>>
  OBVIOUS
<1>4. PICK r : r = q \o t /\ IsSeq(r)
  BY <1>2, Concat
<1>5. IsSeq(p) /\ IsSeq(q) /\ IsSeq(r)
  BY <1>1, <1>2, <1>4
<1>6. (p \o q) \o t = p \o (q \o t)
  BY <1>5, Associative
<1>7. IsSeq(p \o q)
  BY <1>5, Concat
<1>8. (p \o q) \o t = p \o r
  BY <1>4, <1>6
<1>9. <<a, b>> \o r = <<a>> \o (<<b>> \o r)
  BY <1>5, TwoCalls
<1> QED BY <1>1, <1>2, <1>3, <1>4, <1>8, <1>9, <1>7

\* The same, for four.
LEMMA FourCalls ==
    ASSUME NEW a, NEW b, NEW c, NEW d, NEW t, IsSeq(t)
    PROVE  /\ IsSeq(<<a, b, c, d>>)
           /\ <<a, b, c, d>> \o t = <<a>> \o (<<b>> \o (<<c>> \o (<<d>> \o t)))
<1>1. PICK p : p = <<a, b>> /\ IsSeq(p)
  BY TwoCalls
<1>2. PICK q : q = <<c, d>> /\ IsSeq(q)
  BY TwoCalls
<1>3. <<a, b, c, d>> = <<a, b>> \o <<c, d>>
  OBVIOUS
<1>4. PICK r : r = q \o t /\ IsSeq(r)
  BY <1>2, Concat
<1>5. IsSeq(p) /\ IsSeq(q) /\ IsSeq(r)
  BY <1>1, <1>2, <1>4
<1>6. (p \o q) \o t = p \o (q \o t)
  BY <1>5, Associative
<1>7. IsSeq(p \o q)
  BY <1>5, Concat
<1>8. <<a, b>> \o r = <<a>> \o (<<b>> \o r)
  BY <1>5, TwoCalls
<1>9. <<c, d>> \o t = <<c>> \o (<<d>> \o t)
  BY TwoCalls
<1> QED BY <1>1, <1>2, <1>3, <1>4, <1>6, <1>7, <1>8, <1>9

\* The same, for five.
LEMMA FiveCalls ==
    ASSUME NEW a, NEW b, NEW c, NEW d, NEW e, NEW t, IsSeq(t)
    PROVE  /\ IsSeq(<<a, b, c, d, e>>)
           /\ <<a, b, c, d, e>> \o t = <<a>> \o (<<b>> \o (<<c>> \o (<<d>> \o (<<e>> \o t))))
<1>1. PICK p : p = <<a, b, c, d>> /\ IsSeq(p)
  <2>1. IsSeq(<<>>)
    BY DEF IsSeq
  <2> QED BY <2>1, FourCalls
<1>2. PICK q : q = <<e>> /\ IsSeq(q)
  BY Singleton
<1>3. <<a, b, c, d, e>> = <<a, b, c, d>> \o <<e>>
  OBVIOUS
<1>4. PICK r : r = q \o t /\ IsSeq(r)
  BY <1>2, Concat
<1>5. IsSeq(p) /\ IsSeq(q) /\ IsSeq(r)
  BY <1>1, <1>2, <1>4
<1>6. (p \o q) \o t = p \o (q \o t)
  BY <1>5, Associative
<1>7. IsSeq(p \o q)
  BY <1>5, Concat
<1>8. (p \o q) \o t = p \o r
  BY <1>4, <1>6
<1>9. <<a, b, c, d>> \o r = <<a>> \o (<<b>> \o (<<c>> \o (<<d>> \o r)))
  BY <1>5, FourCalls
<1> QED BY <1>1, <1>2, <1>3, <1>4, <1>8, <1>9, <1>7

\* A call on top counts for itself alone.
LEMMA CountPush ==
    ASSUME NEW x, NEW t, IsSeq(t), NEW op
    PROVE  Count(t, op) \in Nat /\ Count(<<x>> \o t, op) = Count(t, op) + (IF x.op = op THEN 1 ELSE 0)
<1> DEFINE s == <<x>> \o t
           A == {i \in DOMAIN t : t[i].op = op}
           B == {i \in DOMAIN s : s[i].op = op}
           C == {i + 1 : i \in A}
<1>1. /\ Len(t) \in Nat /\ DOMAIN t = 1..Len(t) /\ DOMAIN s = 1..(Len(t) + 1)
      /\ s[1] = x /\ \A i \in 1..Len(t) : s[i + 1] = t[i]
  BY Push
<1>2. IsFiniteSet(A) /\ Cardinality(A) \in Nat
  <2>1. A \in SUBSET (1..Len(t)) /\ IsFiniteSet(1..Len(t))
    BY <1>1, FS_Interval
  <2> HIDE DEF A
  <2> QED BY <2>1, FS_Subset, FS_CardinalityType
<1>3. IsFiniteSet(C) /\ Cardinality(C) = Cardinality(A)
  <2> DEFINE f == [i \in A |-> i + 1]
  <2>1. f \in Bijection(A, C)
    <3>1. A \subseteq Nat
      BY <1>1
    <3> HIDE DEF A
    <3>2. f \in [A -> C] /\ \A i, j \in A : f[i] = f[j] => i = j
      BY <3>1
    <3>3. \A k \in C : \E i \in A : f[i] = k
      OBVIOUS
    <3> HIDE DEF C, f
    <3> QED BY <3>2, <3>3 DEF Bijection, Injection, IsInjective, Surjection
  <2>2. ExistsBijection(A, C)
    BY <2>1 DEF ExistsBijection
  <2> HIDE DEF A, C
  <2> QED BY <1>2, <2>2, FS_Bijection
<1>4. \A i \in DOMAIN s : i = 1 \/ (i - 1 \in 1..Len(t) /\ (i - 1) + 1 = i)
  BY <1>1
<1>5. \A i \in 1..Len(t) : i + 1 \in DOMAIN s
  BY <1>1
<1>6. C \subseteq B /\ 1 \notin C
  BY <1>1, <1>5
<1>7. B \ C \subseteq {1}
  BY <1>1, <1>4
<1>8. Count(t, op) = Cardinality(A) /\ Count(s, op) = Cardinality(B)
  BY DEF Count
<1>9. CASE x.op = op
  <2>1. 1 \in DOMAIN s
    BY <1>1
  <2>2. B = C \cup {1}
    BY <1>1, <1>6, <1>7, <1>9, <2>1
  <2> HIDE DEF A, B, C
  <2>3. Cardinality(C \cup {1}) = Cardinality(C) + 1
    BY <1>3, <1>6, FS_AddElement
  <2> QED BY <1>8, <1>2, <1>3, <1>9, <2>2, <2>3
<1>10. CASE x.op # op
  <2>1. B = C
    BY <1>1, <1>6, <1>7, <1>10
  <2> HIDE DEF A, B, C
  <2> QED BY <1>8, <1>2, <1>3, <1>10, <2>1
<1> QED BY <1>9, <1>10

\* The contexts whose callback frames are on the stack.
Granted(s) == {s[i].context : i \in Owners(s)}

\* A callback frame on top grants its own context.
LEMMA GrantedPush ==
    ASSUME NEW x, NEW t, IsSeq(t)
    PROVE  Granted(<<x>> \o t) = Granted(t) \cup (IF x.op = "endCallback" THEN {x.context} ELSE {})
<1> DEFINE s == <<x>> \o t
<1>1. /\ Len(t) \in Nat /\ DOMAIN t = 1..Len(t) /\ DOMAIN s = 1..(Len(t) + 1)
      /\ s[1] = x /\ \A i \in 1..Len(t) : s[i + 1] = t[i]
  BY Push
<1>2. \A i \in DOMAIN s : i = 1 \/ (i - 1 \in 1..Len(t) /\ (i - 1) + 1 = i)
  BY <1>1
<1>3. 1 \in DOMAIN s /\ \A i \in 1..Len(t) : i + 1 \in DOMAIN s
  BY <1>1
<1> HIDE DEF s
<1>4. ASSUME NEW i \in Owners(s)
      PROVE  s[i].context \in Granted(t) \cup (IF x.op = "endCallback" THEN {x.context} ELSE {})
  <2>1. CASE i = 1
    BY <2>1, <1>1 DEF Owners
  <2>2. CASE i # 1
    <3>1. i - 1 \in 1..Len(t) /\ s[i] = t[i - 1]
      BY <2>2, <1>1, <1>2 DEF Owners
    <3>2. i - 1 \in Owners(t)
      BY <3>1, <1>1 DEF Owners
    <3> QED BY <3>1, <3>2 DEF Granted
  <2> QED BY <2>1, <2>2
<1>5. ASSUME NEW j \in Owners(t) PROVE t[j].context \in Granted(s)
  <2>1. j \in 1..Len(t) /\ j + 1 \in DOMAIN s /\ s[j + 1] = t[j]
    BY <1>1, <1>3 DEF Owners
  <2>2. j + 1 \in Owners(s)
    BY <2>1 DEF Owners
  <2> QED BY <2>1, <2>2 DEF Granted
<1>6. x.op = "endCallback" => x.context \in Granted(s)
  BY <1>1, <1>3 DEF Owners, Granted
<1>7. Granted(s) \subseteq Granted(t) \cup (IF x.op = "endCallback" THEN {x.context} ELSE {})
  BY <1>4 DEF Granted
<1>8. Granted(t) \subseteq Granted(s)
  BY <1>5 DEF Granted
<1>9. Granted(s) = Granted(t) \cup (IF x.op = "endCallback" THEN {x.context} ELSE {})
  BY <1>6, <1>7, <1>8
<1> QED BY <1>9 DEF s

-----------------------------------------------------------------------------
(* What the tables and the data lookup yield *)

\* The string types of the model are sequences.
LEMMA SequenceIsSeq == ASSUME NEW s, Sequence(s) PROVE IsSeq(s)
BY DEF Sequence, IsSeq

\* A sequence over any set is one over its own elements.
LEMMA SeqIsSequence ==
    ASSUME NEW S, NEW s \in Seq(S)
    PROVE  Sequence(s) /\ \A i \in DOMAIN s : s[i] \in S
<1>1. \A i \in DOMAIN s : s[i] \in S
  OBVIOUS
<1>2. s \in Seq(Range(s))
  <2>1. Len(s) \in Nat /\ DOMAIN s = 1..Len(s) /\ s = [i \in 1..Len(s) |-> s[i]]
    OBVIOUS
  <2>2. \A i \in 1..Len(s) : s[i] \in Range(s)
    BY <2>1 DEF Range
  <2>3. [i \in 1..Len(s) |-> s[i]] \in Seq(Range(s))
    BY <2>1, <2>2
  <2> QED BY <2>1, <2>3
<1> QED BY <1>1, <1>2 DEF Sequence

\* The same, the set left open.
LEMMA IsSeqIsSequence == ASSUME NEW s, IsSeq(s) PROVE Sequence(s)
BY SeqIsSequence DEF IsSeq

\* A set of positions that is not empty has a last one.
LEMMA LastPosition ==
    ASSUME NEW n \in Nat, NEW s \in SUBSET (1..n), s # {}
    PROVE  Max(s) \in s /\ \A y \in s : Max(s) >= y
<1> DEFINE S == {k \in Nat : \A r \in SUBSET (1..k) : r # {} => \E x \in r : \A y \in r : x >= y}
<1>1. 0 \in S
  <2>1. \A r \in SUBSET (1..0) : r = {}
    OBVIOUS
  <2> QED BY <2>1
<1>2. ASSUME NEW k \in S PROVE k + 1 \in S
  <2> SUFFICES ASSUME NEW r \in SUBSET (1..(k + 1)), r # {} PROVE \E x \in r : \A y \in r : x >= y
    OBVIOUS
  <2>1. CASE k + 1 \in r
    BY <2>1
  <2>2. CASE k + 1 \notin r
    <3>1. r \in SUBSET (1..k)
      BY <2>2
    <3> QED BY <3>1
  <2> QED BY <2>1, <2>2
<1>3. S = Nat
  <2>1. S \in SUBSET Nat
    OBVIOUS
  <2> HIDE DEF S
  <2> QED BY <1>1, <1>2, <2>1, SetInduction
<1>4. \E x \in s : \A y \in s : x >= y
  BY <1>3
<1> QED BY <1>4 DEF Max

VN == Values \cup {Null}

\* A lookup in a map finds a value or nothing.
LEMMA FindValue == ASSUME NEW d \in VN, NEW key PROVE Find(d, key) \in VN
BY DataAssumption DEF Find, VN

\* So does a lookup along a dotted name, whatever its length.
LEMMA FoldValue ==
    ASSUME NEW base \in VN, NEW names, IsSeq(names)
    PROVE  FoldLeft(Find, base, names) \in VN
<1>1. PICK n \in Nat : DOMAIN names = 1..n
  <2>1. Len(names) \in Nat /\ DOMAIN names = 1..Len(names)
    BY DEF IsSeq
  <2> QED BY <2>1
<1> DEFINE Folds(g, k) == g = [s \in SUBSET (1..k) |->
                 IF s = {} THEN base ELSE Find(g[s \ {Max(s)}], names[Max(s)])]
           S == {k \in Nat : \E g : Folds(g, k)}
           T(g) == {k \in Nat : \A s \in SUBSET (1..k) : s \in SUBSET (1..n) => g[s] \in VN}
<1>2. ASSUME NEW k \in Nat, NEW s \in SUBSET (1..(k + 1)), s # {}
      PROVE  Max(s) \in s /\ s \ {Max(s)} \in SUBSET (1..k) /\ s \ {Max(s)} \in SUBSET (1..(k + 1))
  <2>1. k + 1 \in Nat
    OBVIOUS
  <2>2. Max(s) \in s /\ \A y \in s : Max(s) >= y
    BY <1>2, <2>1, LastPosition
  <2>3. PICK x : x = Max(s)
    OBVIOUS
  <2>4. \A y \in s \ {x} : y \in 1..k
    <3> SUFFICES ASSUME NEW y \in s, y # x PROVE y \in 1..k
      OBVIOUS
    <3>1. x >= y /\ x \in 1..(k + 1) /\ y \in 1..(k + 1)
      BY <2>2, <2>3
    <3> QED BY <3>1
  <2> QED BY <2>2, <2>3, <2>4
<1>3. 0 \in S
  <2>1. Folds([s \in SUBSET (1..0) |-> base], 0)
    OBVIOUS
  <2> HIDE DEF Folds
  <2> QED BY <2>1
<1>4. ASSUME NEW k \in S PROVE k + 1 \in S
  <2>1. PICK g : Folds(g, k)
    OBVIOUS
  <2> DEFINE h == [s \in SUBSET (1..(k + 1)) |-> IF s = {} THEN base ELSE Find(g[s \ {Max(s)}], names[Max(s)])]
  <2>2. k \in Nat
    OBVIOUS
  <2>3. ASSUME NEW s \in SUBSET (1..k) PROVE h[s] = g[s]
    <3>1. s \in SUBSET (1..(k + 1))
      BY <2>2
    <3>2. h[s] = IF s = {} THEN base ELSE Find(g[s \ {Max(s)}], names[Max(s)])
      BY <3>1
    <3>3. g[s] = IF s = {} THEN base ELSE Find(g[s \ {Max(s)}], names[Max(s)])
      BY <2>1
    <3> HIDE DEF h
    <3> QED BY <3>2, <3>3
  <2>4. ASSUME NEW s \in SUBSET (1..(k + 1)), s # {} PROVE h[s \ {Max(s)}] = g[s \ {Max(s)}]
    <3> HIDE DEF h, Folds
    <3> QED BY <1>2, <2>2, <2>3
  <2>5. Folds(h, k + 1)
    <3>1. \A s \in SUBSET (1..(k + 1)) :
             (IF s = {} THEN base ELSE Find(g[s \ {Max(s)}], names[Max(s)])) = (IF s = {} THEN base ELSE Find(h[s \ {Max(s)}], names[Max(s)]))
      <4> HIDE DEF h, Folds
      <4> QED BY <2>4
    <3> DEFINE hh == [s \in SUBSET (1..(k + 1)) |-> IF s = {} THEN base ELSE Find(h[s \ {Max(s)}], names[Max(s)])]
    <3>2. h = hh
      <4> PICK h2 : h2 = h
        OBVIOUS
      <4> QED BY <3>1
    <3> QED BY <3>2
  <2> HIDE DEF Folds, h
  <2> QED BY <2>2, <2>5
<1>5. S = Nat
  <2>1. S \in SUBSET Nat
    OBVIOUS
  <2> HIDE DEF S
  <2> QED BY <1>3, <1>4, <2>1, SetInduction
<1>6. ASSUME NEW g, Folds(g, n) PROVE g[1..n] \in VN
  <2>1. 0 \in T(g)
    <3>1. \A s \in SUBSET (1..0) : s = {}
      OBVIOUS
    <3>2. {} \in SUBSET (1..n) /\ g[{}] = base
      BY <1>6
    <3> HIDE DEF Folds
    <3> QED BY <3>1, <3>2
  <2>2. ASSUME NEW k \in T(g) PROVE k + 1 \in T(g)
    <3> SUFFICES ASSUME NEW s \in SUBSET (1..(k + 1)), s \in SUBSET (1..n) PROVE g[s] \in VN
      OBVIOUS
    <3>1. k \in Nat /\ \A r \in SUBSET (1..k) : r \in SUBSET (1..n) => g[r] \in VN
      OBVIOUS
    <3>2. g[s] = IF s = {} THEN base ELSE Find(g[s \ {Max(s)}], names[Max(s)])
      BY <1>6
    <3> HIDE DEF T, Folds
    <3>3. CASE s = {}
      BY <3>2, <3>3
    <3>4. CASE s # {}
      <4>1. s \ {Max(s)} \in SUBSET (1..k) /\ s \ {Max(s)} \in SUBSET (1..n)
        BY <1>2, <3>1, <3>4
      <4>2. g[s \ {Max(s)}] \in VN
        BY <3>1, <4>1
      <4> QED BY <3>2, <3>4, <4>2, FindValue
    <3> QED BY <3>3, <3>4
  <2>3. T(g) = Nat
    <3>1. T(g) \in SUBSET Nat
      OBVIOUS
    <3> PICK TT : TT = T(g)
      OBVIOUS
    <3> HIDE DEF T, Folds
    <3> QED BY <2>1, <2>2, <3>1, SetInduction
  <2> QED BY <2>3
<1>7. \E g : Folds(g, n)
  BY <1>5
<1>8. FoldLeft(Find, base, names) = (CHOOSE g : Folds(g, n))[1..n]
  BY <1>1 DEF FoldLeft, MapThenFoldSet
<1> HIDE DEF Folds
<1> QED BY <1>6, <1>7, <1>8

\* So does the search through the enclosing contexts.
LEMMA LookupValue ==
    ASSUME IsSeq(stack), stack # <<>>, \A i \in DOMAIN stack : stack[i] \in VN,
           NEW n \in Nodes, NodeTable[n].data # <<>>, NodeTable[n].type \notin {"None", "Root", "Container", "Output"}
    PROVE  Lookup(n) \in VN
<1> DEFINE parts == NodeTable[n].parts
           hits == {i \in DOMAIN stack : Find(stack[i], parts[1]) # Null}
           innermost == CHOOSE i \in hits : \A j \in hits : j <= i
<1>1. PICK top \in Nat : top = Len(stack) /\ DOMAIN stack = 1..top /\ top # 0
  BY DEF IsSeq
<1>2. Last(stack) \in VN
  <2>1. top \in DOMAIN stack
    BY <1>1
  <2> QED BY <1>1, <2>1 DEF Last
<1>3. parts # <<>> /\ IsSeq(parts)
  BY NodesAssumption, SequenceIsSeq
<1>4. IsSeq(Tail(parts))
  BY <1>3, Pop
<1>5. ASSUME hits # {} PROVE Find(stack[innermost], parts[1]) \in VN
  <2>1. hits \in SUBSET (1..top)
    BY <1>1
  <2>2. innermost \in hits
    <3> HIDE DEF hits, parts
    <3>1. Max(hits) \in hits /\ \A j \in hits : Max(hits) >= j
      BY <1>1, <1>5, <2>1, LastPosition
    <3>2. \A j \in hits : j <= Max(hits)
      BY <1>1, <2>1, <3>1
    <3> QED BY <3>1, <3>2
  <2>3. stack[innermost] \in VN
    <3> HIDE DEF innermost
    <3> QED BY <2>2
  <2> HIDE DEF innermost, hits, parts
  <2> QED BY <2>3, FindValue
<1>6. hits # {} => FoldLeft(Find, Find(stack[innermost], parts[1]), Tail(parts)) \in VN
  <2> HIDE DEF innermost, hits, parts
  <2> QED BY <1>4, <1>5, FoldValue
<1>7. Null \in VN
  BY DEF VN
<1>8. Lookup(n) = IF NodeTable[n].data = <<<<".">>>> THEN Last(stack)
                  ELSE IF hits = {} THEN Null
                  ELSE FoldLeft(Find, Find(stack[innermost], parts[1]), Tail(parts))
  BY DEF Lookup
<1> HIDE DEF innermost, hits, parts
<1> QED BY <1>2, <1>6, <1>7, <1>8

\* Joining pieces none of which is empty yields at least one element each.
LEMMA FlattenSeqLonger ==
    ASSUME NEW pieces, IsSeq(pieces), \A i \in DOMAIN pieces : IsSeq(pieces[i]) /\ Len(pieces[i]) \in Nat \ {0}
    PROVE  IsSeq(FlattenSeq(pieces)) /\ Len(FlattenSeq(pieces)) \in Nat /\ Len(FlattenSeq(pieces)) >= Len(pieces)
<1>1. PICK n \in Nat : Len(pieces) = n /\ DOMAIN pieces = 1..n
  BY DEF IsSeq
<1> DEFINE Flat(g, k) == g = [i \in 1..k |-> IF i = 1 THEN pieces[i] ELSE g[i - 1] \o pieces[i]]
           S == {k \in Nat : \E g : Flat(g, k)}
           T(g) == {k \in Nat : k + 1 <= n => IsSeq(g[k + 1]) /\ Len(g[k + 1]) >= k + 1}
<1>2. 0 \in S
  <2>1. Flat([i \in 1..0 |-> 0], 0)
    OBVIOUS
  <2> HIDE DEF Flat
  <2> QED BY <2>1
<1>3. ASSUME NEW k \in S PROVE k + 1 \in S
  <2>1. PICK g : Flat(g, k)
    OBVIOUS
  <2> DEFINE h == [i \in 1..(k + 1) |-> IF i = 1 THEN pieces[i] ELSE g[i - 1] \o pieces[i]]
             hh == [i \in 1..(k + 1) |-> IF i = 1 THEN pieces[i] ELSE h[i - 1] \o pieces[i]]
  <2>2. k \in Nat
    OBVIOUS
  <2>3. ASSUME NEW i \in 1..k PROVE h[i] = g[i]
    <3>1. i \in 1..(k + 1)
      BY <2>2
    <3>2. h[i] = IF i = 1 THEN pieces[i] ELSE g[i - 1] \o pieces[i]
      BY <3>1
    <3>3. g[i] = IF i = 1 THEN pieces[i] ELSE g[i - 1] \o pieces[i]
      BY <2>1
    <3> HIDE DEF h
    <3> QED BY <3>2, <3>3
  <2>4. \A i \in 1..(k + 1) : i # 1 => h[i - 1] = g[i - 1]
    <3> SUFFICES ASSUME NEW i \in 1..(k + 1), i # 1 PROVE h[i - 1] = g[i - 1]
      OBVIOUS
    <3>1. i - 1 \in 1..k
      BY <2>2
    <3> HIDE DEF h
    <3> QED BY <2>3, <3>1
  <2>5. h = hh
    <3> PICK h2 : h2 = h
      OBVIOUS
    <3> QED BY <2>4
  <2>6. Flat(h, k + 1)
    BY <2>5
  <2> HIDE DEF Flat, h
  <2> QED BY <2>2, <2>6
<1>4. S = Nat
  <2>1. S \in SUBSET Nat
    OBVIOUS
  <2> HIDE DEF S
  <2> QED BY <1>2, <1>3, <2>1, SetInduction
<1>5. ASSUME NEW g, Flat(g, n), n # 0 PROVE IsSeq(g[n]) /\ Len(g[n]) \in Nat /\ Len(g[n]) >= n
  <2>1. \A i \in 1..n : g[i] = IF i = 1 THEN pieces[i] ELSE g[i - 1] \o pieces[i]
    BY <1>5
  <2>2. 0 \in T(g)
    <3>1. 1 \in 1..n
      BY <1>5
    <3>2. g[1] = pieces[1]
      BY <2>1, <3>1
    <3>3. IsSeq(pieces[1]) /\ Len(pieces[1]) \in Nat \ {0}
      BY <1>1, <3>1
    <3> QED BY <3>2, <3>3
  <2>3. ASSUME NEW k \in T(g) PROVE k + 1 \in T(g)
    <3>1. PICK j \in Nat \ {0} : j = k + 1
      OBVIOUS
    <3>2. j <= n => IsSeq(g[j]) /\ Len(g[j]) >= j
      BY <3>1
    <3> HIDE DEF T, Flat, S
    <3>3. ASSUME j + 1 <= n PROVE IsSeq(g[j + 1]) /\ Len(g[j + 1]) >= j + 1
      <4>1. j + 1 \in 1..n /\ j + 1 # 1 /\ (j + 1) - 1 = j /\ j <= n
        BY <3>1, <3>3
      <4>2. g[j + 1] = g[j] \o pieces[j + 1]
        BY <2>1, <4>1
      <4>3. PICK x : x = pieces[j + 1]
        OBVIOUS
      <4>4. IsSeq(x) /\ Len(x) \in Nat \ {0}
        BY <1>1, <4>1, <4>3
      <4>5. PICK y : y = g[j] /\ IsSeq(y) /\ Len(y) >= j
        BY <3>2, <4>1
      <4>6. IsSeq(y \o x) /\ Len(y \o x) = Len(y) + Len(x) /\ Len(y) \in Nat
        BY <4>4, <4>5, Concat
      <4>7. Len(y \o x) >= j + 1
        <5>1. PICK lx \in Nat \ {0} : lx = Len(x)
          BY <4>4
        <5>2. PICK ly \in Nat : ly = Len(y) /\ ly >= j
          BY <4>5, <4>6
        <5>3. ly + lx >= j + 1
          BY <5>1, <5>2
        <5> QED BY <4>6, <5>1, <5>2, <5>3
      <4> QED BY <4>2, <4>3, <4>5, <4>6, <4>7
    <3> QED BY <3>1, <3>3 DEF T
  <2>4. T(g) = Nat
    <3>1. T(g) \in SUBSET Nat
      OBVIOUS
    <3> HIDE DEF T, Flat
    <3> QED BY <2>2, <2>3, <3>1, SetInduction
  <2>5. n - 1 \in T(g) /\ (n - 1) + 1 = n
    <3>1. n - 1 \in Nat /\ (n - 1) + 1 = n
      BY <1>5
    <3> HIDE DEF T, Flat
    <3> QED BY <2>4, <3>1
  <2>6. IsSeq(g[n]) /\ Len(g[n]) >= n
    BY <2>5
  <2> QED BY <2>6 DEF IsSeq
<1>6. \E g : Flat(g, n)
  BY <1>4
<1>7. n # 0 => FlattenSeq(pieces) = (CHOOSE g : Flat(g, n))[n]
  BY <1>1 DEF FlattenSeq
<1>8. n = 0 => FlattenSeq(pieces) = pieces
  BY <1>1 DEF FlattenSeq
<1> HIDE DEF Flat
<1> QED BY <1>1, <1>5, <1>6, <1>7, <1>8

\* Escaping never shortens a text: the growth that is charged is no negative number.
LEMMA EscapedLonger ==
    ASSUME NEW text, IsSeq(text)
    PROVE  IsSeq(Escaped(text)) /\ Len(Escaped(text)) \in Nat /\ Len(text) \in Nat /\ Len(Escaped(text)) >= Len(text)
<1> DEFINE pieces == [i \in DOMAIN text |-> EscapedValue(text[i])]
<1>1. PICK n \in Nat : Len(text) = n /\ DOMAIN text = 1..n
  BY DEF IsSeq
<1>2. \A c : IsSeq(EscapedValue(c)) /\ Len(EscapedValue(c)) \in Nat \ {0}
  <2> SUFFICES ASSUME NEW c PROVE IsSeq(EscapedValue(c)) /\ Len(EscapedValue(c)) \in Nat \ {0}
    OBVIOUS
  <2> DEFINE C == {c, "&", "l", "t", ";", "a", "m", "p", "#", "0", "3", "9", "q", "u", "o", "g"}
  <2>1. EscapedValue(c) \in Seq(C) /\ Len(EscapedValue(c)) \in Nat \ {0}
    <3>1. CASE c = "<"
      BY <3>1 DEF EscapedValue
    <3>2. CASE c = "&"
      BY <3>2 DEF EscapedValue
    <3>3. CASE c = "'"
      BY <3>3 DEF EscapedValue
    <3>4. CASE c = "dq"
      BY <3>4 DEF EscapedValue
    <3>5. CASE c = ">"
      BY <3>5 DEF EscapedValue
    <3>6. CASE c \notin {"<", "&", "'", "dq", ">"}
      <4>1. EscapedValue(c) = <<c>>
        BY <3>6 DEF EscapedValue
      <4>2. <<c>> \in Seq(C) /\ Len(<<c>>) = 1
        OBVIOUS
      <4> QED BY <4>1, <4>2
    <3> QED BY <3>1, <3>2, <3>3, <3>4, <3>5, <3>6
  <2> HIDE DEF C
  <2> QED BY <2>1 DEF IsSeq
<1>3. IsSeq(pieces) /\ Len(pieces) = n /\ DOMAIN pieces = 1..n
  <2>1. pieces \in Seq({EscapedValue(text[i]) : i \in 1..n})
    BY <1>1
  <2>2. Len(pieces) = n
    BY <1>1
  <2> QED BY <1>1, <2>1, <2>2 DEF IsSeq
<1>4. \A i \in DOMAIN pieces : IsSeq(pieces[i]) /\ Len(pieces[i]) \in Nat \ {0}
  BY <1>2
<1> HIDE DEF pieces
<1>5. IsSeq(FlattenSeq(pieces)) /\ Len(FlattenSeq(pieces)) \in Nat /\ Len(FlattenSeq(pieces)) >= Len(pieces)
  BY <1>3, <1>4, FlattenSeqLonger
<1> QED BY <1>1, <1>3, <1>5 DEF Escaped, pieces

-----------------------------------------------------------------------------
(* How pending calls nest *)

Inner == {"children", "context", "partial", "lambda", "invoke", "interpolate", "result"}
PlainOps == {"node", "beginTag", "template", "source", "append", "escape", "rebuild", "charge"} \cup Inner
Special == {"evaluated", "endHelper", "dropBuffer", "leaveScope"}
Frames(s) == Count(s, "restoreDepth")
DepthBelow(n) == IF n = 0 THEN 0 ELSE n - 1
HeadIn(s, ops) == s # <<>> /\ Head(s).op \in ops

\* What a pending call carries.
SeqOfSeqs(s) == IsSeq(s) /\ \A i \in DOMAIN s : IsSeq(s[i])
Typed(call) ==
    /\ call.op = "node" => call.node \in Nodes \cup {Null}
    /\ call.op \in Inner \cup {"rebuild"} => call.node \in Nodes
    /\ call.op \in {"node", "partial"} => SeqOfSeqs(call.indent)
    /\ call.op = "children" => DOMAIN call = {"op", "node", "depth", "at"}
    /\ call.op \in {"children", "rebuild"} => call.at \in Nat \ {0}
    /\ call.op = "rebuild" => DOMAIN call = {"op", "node", "depth", "at", "delims", "top"} /\ call.delims \in Nat \X Nat
    /\ call.op = "context" => call.data \in VN
    /\ call.op \in {"template", "source", "append", "escape"} => IsSeq(call.text)
    /\ call.op = "charge" => call.bytes \in Nat

\* What a pending call says of the calls below it: the depth it carries is the
\* number of renderNode calls there, a guard restores what they left, and a guard
\* that belongs to another stands directly below it.
Fits(call, rest) ==
    /\ Typed(call)
    /\ call.op = "node" => call.depth = Frames(rest)
    /\ call.op \in Inner => Frames(rest) > 0 /\ call.depth = Frames(rest) - 1
    /\ call.op \in UserOps => Frames(rest) > 0
    /\ call.op = "restoreDepth" => call.depth = Frames(rest) /\ call.parent = DepthBelow(Frames(rest))
    /\ call.op = "restoreOutput" => call.to = 1 + Count(rest, "restoreOutput")
    /\ call.op = "endCallback" => call.context \in Nat /\ \A c \in Granted(rest) : c < call.context
    /\ call.op = "endRoot" <=> rest = <<>>
    /\ call.op = "restoreOutput" <=> HeadIn(rest, {"evaluated", "endHelper"})
    /\ call.op = "evaluated" <=> HeadIn(rest, {"dropBuffer"})
    /\ call.op = "endCallback" <=> HeadIn(rest, {"leaveScope"})
    /\ HeadIn(rest, UserOps) => call.op = "endHelper"

\* Every call fits the calls below it: T holds the stack and its tails.
Nests(T) == \A s \in T : IsSeq(s) /\ (s # <<>> => Tail(s) \in T /\ Fits(Head(s), Tail(s)))
WellNested(s) == \E T : Nests(T) /\ s \in T

\* No call is pending at rest.
LEMMA WellNestedEmpty == WellNested(<<>>)
<1>1. IsSeq(<<>>)
  BY DEF IsSeq
<1>2. Nests({<<>>})
  BY <1>1 DEF Nests
<1> QED BY <1>2 DEF WellNested

\* Below a well-nested call is a well-nested stack that it fits.
LEMMA WellNestedPop ==
    ASSUME NEW s, WellNested(s)
    PROVE  IsSeq(s) /\ (s # <<>> => WellNested(Tail(s)) /\ Fits(Head(s), Tail(s)))
<1>1. PICK T : Nests(T) /\ s \in T
  BY DEF WellNested
<1>2. IsSeq(s) /\ (s # <<>> => Tail(s) \in T /\ Fits(Head(s), Tail(s)))
  BY <1>1 DEF Nests
<1> QED BY <1>1, <1>2 DEF WellNested

\* A call that fits a well-nested stack may be put on it.
LEMMA WellNestedPush ==
    ASSUME NEW t, WellNested(t), NEW x, Fits(x, t)
    PROVE  WellNested(<<x>> \o t)
<1>1. PICK T : Nests(T) /\ t \in T
  BY DEF WellNested
<1>2. IsSeq(t)
  BY <1>1 DEF Nests
<1> DEFINE s == <<x>> \o t
<1>3. IsSeq(s) /\ Head(s) = x /\ Tail(s) = t
  BY <1>2, Push
<1> HIDE DEF s
<1>4. Nests(T \cup {s})
  <2> SUFFICES ASSUME NEW r \in T \cup {s}
               PROVE  IsSeq(r) /\ (r # <<>> => Tail(r) \in T \cup {s} /\ Fits(Head(r), Tail(r)))
    BY DEF Nests
  <2>1. CASE r \in T
    BY <1>1, <2>1 DEF Nests
  <2>2. CASE r = s
    BY <1>1, <1>3, <2>2
  <2> QED BY <2>1, <2>2
<1>5. WellNested(s)
  BY <1>4 DEF WellNested
<1> QED BY <1>5 DEF s

\* The tallies of one more call.
LEMMA Tallies ==
    ASSUME NEW x, NEW t, IsSeq(t)
    PROVE  /\ \A op : Count(t, op) \in Nat
           /\ \A op : Count(<<x>> \o t, op) = Count(t, op) + (IF x.op = op THEN 1 ELSE 0)
           /\ Granted(<<x>> \o t) = Granted(t) \cup (IF x.op = "endCallback" THEN {x.context} ELSE {})
<1>1. \A op : Count(t, op) \in Nat /\ Count(<<x>> \o t, op) = Count(t, op) + (IF x.op = op THEN 1 ELSE 0)
  BY CountPush
<1>2. Granted(<<x>> \o t) = Granted(t) \cup (IF x.op = "endCallback" THEN {x.context} ELSE {})
  BY GrantedPush
<1> QED BY <1>1, <1>2

\* Nothing is counted when no call is pending.
LEMMA TalliesEmpty == (\A op : Count(<<>>, op) = 0) /\ Granted(<<>>) = {}
<1>1. \A op : {i \in DOMAIN <<>> : <<>>[i].op = op} = {}
  OBVIOUS
<1>2. Owners(<<>>) = {}
  BY DEF Owners
<1> QED BY <1>1, <1>2, FS_EmptySet DEF Count, Granted

\* The tallies of a stack and of the calls below its head.
LEMMA TalliesBelow ==
    ASSUME NEW s, IsSeq(s), s # <<>>
    PROVE  /\ IsSeq(Tail(s)) /\ s = <<Head(s)>> \o Tail(s)
           /\ \A op : Count(s, op) \in Nat /\ Count(Tail(s), op) \in Nat
           /\ \A op : Count(s, op) = Count(Tail(s), op) + (IF Head(s).op = op THEN 1 ELSE 0)
           /\ Granted(s) = Granted(Tail(s)) \cup (IF Head(s).op = "endCallback" THEN {Head(s).context} ELSE {})
<1>1. IsSeq(Tail(s)) /\ s = <<Head(s)>> \o Tail(s)
  BY Pop
<1>2. PICK h : h = Head(s)
  OBVIOUS
<1>3. PICK t : t = Tail(s)
  OBVIOUS
<1>4. s = <<h>> \o t /\ IsSeq(t)
  BY <1>1, <1>2, <1>3
<1>5. /\ \A op : Count(t, op) \in Nat
      /\ \A op : Count(s, op) = Count(t, op) + (IF h.op = op THEN 1 ELSE 0)
      /\ Granted(s) = Granted(t) \cup (IF h.op = "endCallback" THEN {h.context} ELSE {})
  BY <1>4, Tallies
<1>6. \A op : Count(s, op) \in Nat
  BY <1>5
<1> QED BY <1>1, <1>2, <1>3, <1>5, <1>6

\* Temporary buffers are as many as redirections, except while the last redirection
\* has ended and its buffer is still there; scopes outlive callbacks the same way.
Balanced(s) ==
    /\ Temporaries(s) = Count(s, "restoreOutput") + (IF HeadIn(s, {"evaluated", "dropBuffer", "endHelper"}) THEN 1 ELSE 0)
    /\ Count(s, "leaveScope") = Count(s, "endCallback") + (IF HeadIn(s, {"leaveScope"}) THEN 1 ELSE 0)

\* A call that fits keeps the redirections and the temporaries in step.
LEMMA BalancedPush ==
    ASSUME NEW s, IsSeq(s), s # <<>>, Fits(Head(s), Tail(s)), Balanced(Tail(s))
    PROVE  Balanced(s)
<1> DEFINE t == Tail(s)
<1>1. /\ \A op : Count(t, op) \in Nat
      /\ \A op : Count(s, op) = Count(t, op) + (IF Head(s).op = op THEN 1 ELSE 0)
  BY TalliesBelow
<1> HIDE DEF t
<1>2. Fits(Head(s), t) /\ Balanced(t)
  BY DEF t
<1>3. Count(s, "leaveScope") = Count(s, "endCallback") + (IF HeadIn(s, {"leaveScope"}) THEN 1 ELSE 0)
  <2>1. CASE Head(s).op = "leaveScope"
    BY <1>1, <1>2, <2>1 DEF Fits, Balanced, HeadIn
  <2>2. CASE Head(s).op = "endCallback"
    BY <1>1, <1>2, <2>2 DEF Fits, Balanced, HeadIn
  <2>3. CASE Head(s).op \notin {"leaveScope", "endCallback"}
    BY <1>1, <1>2, <2>3 DEF Fits, Balanced, HeadIn
  <2> QED BY <2>1, <2>2, <2>3
<1>4. Temporaries(s) = Count(s, "restoreOutput") + (IF HeadIn(s, {"evaluated", "dropBuffer", "endHelper"}) THEN 1 ELSE 0)
  <2>1. /\ Count(t, "dropBuffer") \in Nat /\ Count(t, "endHelper") \in Nat /\ Count(t, "restoreOutput") \in Nat
        /\ Count(s, "dropBuffer") = Count(t, "dropBuffer") + (IF Head(s).op = "dropBuffer" THEN 1 ELSE 0)
        /\ Count(s, "endHelper") = Count(t, "endHelper") + (IF Head(s).op = "endHelper" THEN 1 ELSE 0)
        /\ Count(s, "restoreOutput") = Count(t, "restoreOutput") + (IF Head(s).op = "restoreOutput" THEN 1 ELSE 0)
    BY <1>1
  <2>2. HeadIn(t, {"evaluated", "dropBuffer", "endHelper"}) <=> HeadIn(t, {"evaluated", "endHelper"}) \/ HeadIn(t, {"dropBuffer"})
    BY DEF HeadIn
  <2>3. CASE Head(s).op = "restoreOutput"
    BY <2>1, <1>2, <2>2, <2>3 DEF Fits, Balanced, HeadIn, Temporaries
  <2>4. CASE Head(s).op = "evaluated"
    <3>1. HeadIn(t, {"evaluated", "dropBuffer", "endHelper"}) /\ HeadIn(s, {"evaluated", "dropBuffer", "endHelper"})
      BY <1>2, <2>2, <2>4 DEF Fits, HeadIn
    <3> QED BY <1>2, <2>4, <2>1, <3>1 DEF Balanced, Temporaries
  <2>5. CASE Head(s).op \in {"dropBuffer", "endHelper"}
    <3>1. ~HeadIn(t, {"evaluated", "dropBuffer", "endHelper"})
      BY <1>2, <2>2, <2>5 DEF Fits
    <3>2. HeadIn(s, {"evaluated", "dropBuffer", "endHelper"})
      BY <2>5 DEF HeadIn
    <3> QED BY <1>2, <2>5, <2>1, <3>1, <3>2 DEF Balanced, Temporaries
  <2>6. CASE Head(s).op \notin {"restoreOutput", "evaluated", "dropBuffer", "endHelper"}
    BY <2>1, <1>2, <2>2, <2>6, SMTT(30) DEF Fits, Balanced, HeadIn, Temporaries
  <2> QED BY <2>3, <2>4, <2>5, <2>6
<1> QED BY <1>3, <1>4 DEF Balanced

\* In a well-nested stack they are in step, and so are engines and callbacks.
LEMMA WellNestedIsBalanced ==
    ASSUME NEW s, WellNested(s) PROVE Balanced(s)
<1> DEFINE S == {n \in Nat : \A r : WellNested(r) /\ Len(r) = n => Balanced(r)}
<1>1. 0 \in S
  <2> SUFFICES ASSUME NEW r, WellNested(r), Len(r) = 0 PROVE Balanced(r)
    OBVIOUS
  <2>1. r = <<>>
    BY WellNestedPop DEF IsSeq
  <2> QED BY <2>1, TalliesEmpty DEF Balanced, Temporaries, HeadIn
<1>2. ASSUME NEW n \in S PROVE n + 1 \in S
  <2> SUFFICES ASSUME NEW r, WellNested(r), Len(r) = n + 1 PROVE Balanced(r)
    OBVIOUS
  <2>1. n \in Nat /\ IsSeq(r)
    BY WellNestedPop
  <2>2. r # <<>> /\ Len(Tail(r)) = n
    BY <2>1 DEF IsSeq
  <2>3. WellNested(Tail(r)) /\ Fits(Head(r), Tail(r))
    BY <2>2, WellNestedPop
  <2>4. Balanced(Tail(r))
    BY <2>2, <2>3
  <2> QED BY <2>1, <2>2, <2>3, <2>4, BalancedPush
<1> HIDE DEF S
<1>3. S = Nat
  <2>1. S \in SUBSET Nat
    BY DEF S
  <2> QED BY <1>1, <1>2, <2>1, SetInduction
<1>4. Len(s) \in Nat
  BY WellNestedPop DEF IsSeq
<1> QED BY <1>3, <1>4 DEF S

\* A call that leaves no guard behind, made while n renderNode calls are on the stack.
Plain(x, n) ==
    /\ Typed(x)
    /\ x.op \in PlainOps
    /\ x.op = "node" => x.depth = n
    /\ x.op \in Inner => n > 0 /\ x.depth = n - 1
AllPlain(u, n) == IsSeq(u) /\ \A i \in DOMAIN u : Plain(u[i], n)
\* A stack whose head is neither another guard's second half nor running user code.
Open(s) == s # <<>> /\ ~HeadIn(s, Special \cup UserOps)
\* Stacks that account for the same state.
SameTallies(s, t) == (\A op \in GuardOps : Count(s, op) = Count(t, op)) /\ Granted(s) = Granted(t)

\* A plain call is no guard, no half of one, and no user code.
LEMMA PlainOpsAreNot == \A op \in PlainOps : op \notin GuardOps \cup Special \cup UserOps
BY DEF PlainOps, Inner, GuardOps, Special, UserOps

\* A plain call changes no tally.
LEMMA PlainPush ==
    ASSUME NEW x, NEW t, IsSeq(t), WellNested(t), Open(t), Plain(x, Frames(t))
    PROVE  WellNested(<<x>> \o t) /\ SameTallies(<<x>> \o t, t) /\ Open(<<x>> \o t)
<1>1. x.op \notin GuardOps \cup Special \cup UserOps
  BY PlainOpsAreNot DEF Plain
<1>2. Fits(x, t)
  <2>1. ~HeadIn(t, {"evaluated", "endHelper"}) /\ ~HeadIn(t, {"dropBuffer"}) /\ ~HeadIn(t, {"leaveScope"}) /\ ~HeadIn(t, UserOps)
    BY DEF Open, HeadIn, Special
  <2>2. t # <<>> /\ x.op \notin {"endRoot", "restoreOutput", "evaluated", "endCallback", "restoreDepth"}
    BY <1>1 DEF Open, GuardOps, Special
  <2> QED BY <1>1, <2>1, <2>2 DEF Fits, Plain
<1>3. SameTallies(<<x>> \o t, t)
  <2>1. \A op \in GuardOps : op # x.op
    BY <1>1
  <2>2. x.op # "endCallback"
    BY <1>1 DEF GuardOps
  <2>3. \A op : Count(t, op) \in Nat
    BY Tallies
  <2>4. \A op : Count(<<x>> \o t, op) = Count(t, op) + (IF x.op = op THEN 1 ELSE 0)
    BY Tallies
  <2>5. Granted(<<x>> \o t) = Granted(t) \cup (IF x.op = "endCallback" THEN {x.context} ELSE {})
    BY Tallies
  <2>6. \A op \in GuardOps : Count(<<x>> \o t, op) = Count(t, op)
    BY <2>1, <2>3, <2>4
  <2>7. Granted(<<x>> \o t) = Granted(t)
    BY <2>2, <2>5
  <2> QED BY <2>6, <2>7 DEF SameTallies
<1>4. Open(<<x>> \o t)
  <2>1. <<x>> \o t # <<>> /\ Head(<<x>> \o t) = x
    BY Push
  <2> QED BY <1>1, <2>1 DEF Open, HeadIn
<1> QED BY <1>2, <1>3, <1>4, WellNestedPush

\* The same for a whole sequence of calls.
LEMMA AllPlainPush ==
    ASSUME NEW t, IsSeq(t), WellNested(t), Open(t), NEW u, AllPlain(u, Frames(t))
    PROVE  WellNested(u \o t) /\ SameTallies(u \o t, t) /\ Open(u \o t)
<1> DEFINE Pushes(v) == WellNested(v \o t) /\ SameTallies(v \o t, t) /\ Open(v \o t)
           S == {n \in Nat : \A v : AllPlain(v, Frames(t)) /\ Len(v) = n => Pushes(v)}
<1>1. 0 \in S
  <2> SUFFICES ASSUME NEW v, AllPlain(v, Frames(t)), Len(v) = 0 PROVE Pushes(v)
    OBVIOUS
  <2>1. v = <<>>
    BY DEF AllPlain, IsSeq
  <2>2. v \o t = t
    BY <2>1, NoCalls
  <2> QED BY <2>2 DEF SameTallies
<1>2. ASSUME NEW n \in S PROVE n + 1 \in S
  <2> SUFFICES ASSUME NEW v, AllPlain(v, Frames(t)), Len(v) = n + 1 PROVE Pushes(v)
    OBVIOUS
  <2>1. n \in Nat /\ \A r : AllPlain(r, Frames(t)) /\ Len(r) = n => Pushes(r)
    OBVIOUS
  <2> HIDE DEF S, Pushes
  <2>2. n \in Nat /\ IsSeq(v) /\ v # <<>>
    <3>1. n \in Nat /\ IsSeq(v)
      BY <2>1 DEF AllPlain
    <3>2. Len(<<>>) # n + 1
      BY <3>1
    <3> QED BY <3>1, <3>2
  <2>3. PICK x : x = Head(v)
    OBVIOUS
  <2>4. PICK w : w = Tail(v)
    OBVIOUS
  <2>5. v = <<x>> \o w /\ IsSeq(w) /\ x = v[1] /\ 1 \in DOMAIN v
    BY <2>2, <2>3, <2>4, Pop
  <2>6. /\ Len(w) \in Nat /\ Len(v) = Len(w) + 1 /\ DOMAIN w = 1..Len(w) /\ DOMAIN v = 1..(Len(w) + 1)
        /\ \A i \in 1..Len(w) : v[i + 1] = w[i]
    BY <2>5, Push
  <2>7. Plain(x, Frames(t))
    BY <2>5 DEF AllPlain
  <2>8. AllPlain(w, Frames(t))
    <3> SUFFICES ASSUME NEW i \in DOMAIN w PROVE Plain(w[i], Frames(t))
      BY <2>5 DEF AllPlain
    <3>1. i + 1 \in DOMAIN v /\ v[i + 1] = w[i]
      BY <2>6
    <3> QED BY <3>1 DEF AllPlain
  <2>9. Pushes(w)
    <3>1. Len(w) = n
      <4>1. PICK m \in Nat : m = Len(w)
        BY <2>6
      <4>2. n \in Nat /\ m + 1 = n + 1
        BY <2>2, <2>6, <4>1
      <4>3. m = n
        BY <4>2
      <4> QED BY <4>1, <4>3
    <3> QED BY <2>1, <2>8, <3>1
  <2>10. IsSeq(<<x>>) /\ IsSeq(w \o t) /\ v \o t = <<x>> \o (w \o t)
    <3>1. IsSeq(<<x>>)
      BY Singleton
    <3>2. IsSeq(w \o t)
      BY <2>5, Concat
    <3>3. (<<x>> \o w) \o t = <<x>> \o (w \o t)
      BY <2>5, <3>1, Associative
    <3> QED BY <2>5, <3>1, <3>2, <3>3
  <2>11. Frames(w \o t) = Frames(t)
    BY <2>9 DEF Pushes, SameTallies, Frames, GuardOps
  <2>12. PICK r : r = w \o t
    OBVIOUS
  <2>13. WellNested(<<x>> \o r) /\ SameTallies(<<x>> \o r, r) /\ Open(<<x>> \o r)
    BY <2>7, <2>9, <2>10, <2>11, <2>12, PlainPush DEF Pushes
  <2>14. SameTallies(<<x>> \o r, t)
    BY <2>9, <2>12, <2>13 DEF Pushes, SameTallies
  <2> QED BY <2>10, <2>12, <2>13, <2>14 DEF Pushes
<1>3. S = Nat
  <2>1. S \in SUBSET Nat
    OBVIOUS
  <2> HIDE DEF S
  <2> QED BY <1>1, <1>2, <2>1, SetInduction
<1>4. Len(u) \in Nat
  BY DEF AllPlain, IsSeq
<1> QED BY <1>3, <1>4

\* The calls below a call that is not a guard's second half.
LEMMA BelowIsOpen ==
    ASSUME NEW s, WellNested(s), s # <<>>, Head(s).op \notin {"endRoot", "restoreOutput", "evaluated", "endCallback", "endHelper"}
    PROVE  Open(Tail(s)) /\ IsSeq(Tail(s)) /\ WellNested(Tail(s))
<1>1. Fits(Head(s), Tail(s)) /\ WellNested(Tail(s))
  BY WellNestedPop
<1>2. IsSeq(Tail(s))
  BY <1>1, WellNestedPop
<1>3. PICK t : t = Tail(s)
  OBVIOUS
<1>4. t # <<>> /\ ~HeadIn(t, {"evaluated", "endHelper"}) /\ ~HeadIn(t, {"dropBuffer"}) /\ ~HeadIn(t, {"leaveScope"}) /\ ~HeadIn(t, UserOps)
  BY <1>1, <1>3 DEF Fits
<1>5. Open(t)
  BY <1>4 DEF Open, HeadIn, Special
<1> QED BY <1>1, <1>2, <1>3, <1>5

\* A call that is no guard leaves the tallies as they are when it goes.
LEMMA DropTallies ==
    ASSUME NEW s, WellNested(s), s # <<>>, Head(s).op \notin GuardOps
    PROVE  WellNested(Tail(s)) /\ IsSeq(Tail(s)) /\ SameTallies(Tail(s), s) /\ Tail(s) # <<>>
<1>1. Fits(Head(s), Tail(s)) /\ WellNested(Tail(s)) /\ IsSeq(s)
  BY WellNestedPop
<1>2. IsSeq(Tail(s))
  BY <1>1, WellNestedPop
<1>3. Tail(s) # <<>>
  BY <1>1 DEF Fits, GuardOps
<1>4. Head(s).op # "endCallback" /\ \A op \in GuardOps : op # Head(s).op
  BY DEF GuardOps
<1>5. /\ \A op : Count(Tail(s), op) \in Nat
      /\ \A op : Count(s, op) = Count(Tail(s), op) + (IF Head(s).op = op THEN 1 ELSE 0)
      /\ Granted(s) = Granted(Tail(s)) \cup (IF Head(s).op = "endCallback" THEN {Head(s).context} ELSE {})
  BY <1>1, TalliesBelow
<1>6. SameTallies(Tail(s), s)
  BY <1>4, <1>5 DEF SameTallies
<1> QED BY <1>1, <1>2, <1>3, <1>6

\* A call replaced by plain ones.
LEMMA ReplaceTallies ==
    ASSUME NEW s, WellNested(s), s # <<>>, Head(s).op \notin GuardOps \cup {"evaluated"},
           NEW u, AllPlain(u, Frames(Tail(s)))
    PROVE  WellNested(u \o Tail(s)) /\ SameTallies(u \o Tail(s), s) /\ u \o Tail(s) # <<>>
<1>1. WellNested(Tail(s)) /\ IsSeq(Tail(s)) /\ SameTallies(Tail(s), s)
  BY DropTallies
<1>2. Open(Tail(s))
  BY BelowIsOpen DEF GuardOps
<1>3. WellNested(u \o Tail(s)) /\ SameTallies(u \o Tail(s), Tail(s)) /\ Open(u \o Tail(s))
  BY <1>1, <1>2, AllPlainPush
<1> QED BY <1>1, <1>3 DEF SameTallies, Open

-----------------------------------------------------------------------------
(* The state that the pending guards account for *)

IndentationFits == IsSeq(indentation) /\ Len(indentation) = Count(control, "popIndentation")
StackFits ==
    /\ IsSeq(stack)
    /\ rendering => Len(stack) = 1 + Count(control, "popContext")
    /\ ~rendering => stack = <<>>
BuffersFit ==
    /\ IsSeq(buffers) /\ output \in Nat
    /\ rendering => Len(buffers) = 1 + Temporaries(control) /\ output = 1 + Count(control, "restoreOutput")
    /\ ~rendering => Len(buffers) = output /\ output \in {0, 1}
DepthFits ==
    /\ activeDepth = DepthBelow(Frames(control))
    /\ Frames(control) > 0 => ~TooDeep(Frames(control) - 1)
ContextsFit ==
    /\ contexts \in Seq(BOOLEAN)
    /\ {c \in DOMAIN contexts : contexts[c]} = Granted(control)
    /\ callbackDepth = Count(control, "endCallback")
    /\ scopes = Count(control, "leaveScope")
ControlFits == WellNested(control) /\ (rendering <=> control # <<>>) /\ (throwing => control # <<>>)
Frame(x) == DOMAIN x = {"components", "atLineStart"} /\ SeqOfSeqs(x.components)
ValuesFit ==
    /\ \A i \in DOMAIN stack : stack[i] \in VN
    /\ \A i \in DOMAIN indentation : Frame(indentation[i])
    /\ \A i \in DOMAIN buffers : IsSeq(buffers[i])
    /\ IsSeq(rendered) /\ IsSeq(returned.text)
    /\ returned.kind # "literal" => returned.text \in Texts
    /\ rendering => config.node \in Roots
StackInv ==
    /\ ControlFits /\ ValuesFit
    /\ config \in Settings
    /\ IndentationFits /\ StackFits /\ BuffersFit /\ DepthFits /\ ContextsFit

\* A fresh renderer satisfies the invariant.
LEMMA StackInvInit == Init => StackInv
<1> SUFFICES ASSUME Init PROVE StackInv
  OBVIOUS
<1>1. control = <<>> /\ WellNested(control) /\ (rendering <=> control # <<>>) /\ ~throwing
  BY WellNestedEmpty DEF Init
<1>2. IsSeq(<<>>) /\ Len(<<>>) = 0 /\ (\A op : Count(<<>>, op) = 0) /\ Granted(<<>>) = {}
  BY TalliesEmpty DEF IsSeq
<1>3. config \in Settings
  BY DEF Init, Settings, Modes
<1>4. IndentationFits /\ StackFits /\ BuffersFit
  BY <1>1, <1>2 DEF Init, IndentationFits, StackFits, BuffersFit
<1>5. DepthFits
  BY <1>1, <1>2 DEF Init, DepthFits, Frames, DepthBelow
<1>6. ValuesFit
  <2>1. DOMAIN <<>> = {} /\ IsSeq(<<>>)
    BY DEF IsSeq
  <2> QED BY <1>1, <2>1 DEF Init, ValuesFit
<1>7. ContextsFit
  <2>1. <<>> \in Seq(BOOLEAN) /\ {c \in DOMAIN <<>> : <<>>[c]} = {}
    OBVIOUS
  <2> QED BY <1>1, <1>2, <2>1 DEF Init, ContextsFit
<1> QED BY <1>1, <1>3, <1>4, <1>5, <1>7, <1>6 DEF StackInv, ControlFits

accounted == <<config, rendering, stack, output, activeDepth, contexts, callbackDepth, scopes>>
SameLength(s, t) == IsSeq(s) /\ Len(s) = Len(t)

\* A step that changes neither the tallies nor what they count.
LEMMA Kept ==
    ASSUME StackInv, WellNested(control'), control # <<>> <=> control' # <<>>, throwing' => control' # <<>>,
           SameTallies(control', control), UNCHANGED accounted,
           SameLength(indentation', indentation), SameLength(buffers', buffers), ValuesFit'
    PROVE  StackInv'
<1>1. /\ \A op \in GuardOps : Count(control', op) = Count(control, op)
      /\ Granted(control') = Granted(control)
  BY DEF SameTallies
<1>2. /\ Count(control', "popIndentation") = Count(control, "popIndentation")
      /\ Count(control', "popContext") = Count(control, "popContext")
      /\ Count(control', "restoreOutput") = Count(control, "restoreOutput")
      /\ Frames(control') = Frames(control)
      /\ Temporaries(control') = Temporaries(control)
      /\ Count(control', "endCallback") = Count(control, "endCallback")
      /\ Count(control', "leaveScope") = Count(control, "leaveScope")
  BY <1>1 DEF GuardOps, Frames, Temporaries
<1>3. IndentationFits'
  BY <1>2 DEF StackInv, IndentationFits, SameLength
<1>4. StackFits'
  BY <1>2 DEF StackInv, StackFits, accounted
<1>5. BuffersFit'
  BY <1>2 DEF StackInv, BuffersFit, SameLength, accounted
<1>6. DepthFits'
  BY <1>2 DEF StackInv, DepthFits, TooDeep, limits, accounted
<1>7. ContextsFit'
  BY <1>1, <1>2 DEF StackInv, ContextsFit, accounted
<1> QED BY <1>3, <1>4, <1>5, <1>6, <1>7 DEF StackInv, ControlFits, accounted

\* A stack accounts for what it accounts for.
LEMMA SameTalliesReflexive == \A s : SameTallies(s, s)
BY DEF SameTallies

\* An exception, or a call that does nothing here.
LEMMA KeptInPlace ==
    ASSUME StackInv, UNCHANGED control, control # <<>> \/ ~throwing', UNCHANGED accounted,
           SameLength(indentation', indentation), SameLength(buffers', buffers), ValuesFit'
    PROVE  StackInv'
BY Kept, SameTalliesReflexive DEF StackInv, ControlFits

\* A pending call that is no guard ends.
LEMMA KeptByDrop ==
    ASSUME StackInv, control # <<>>, Head(control).op \notin GuardOps, control' = Tail(control), UNCHANGED accounted,
           SameLength(indentation', indentation), SameLength(buffers', buffers), ValuesFit'
    PROVE  StackInv'
<1>1. WellNested(Tail(control)) /\ SameTallies(Tail(control), control) /\ Tail(control) # <<>>
  BY DropTallies DEF StackInv, ControlFits
<1> QED BY <1>1, Kept

\* A pending call is replaced by the calls it makes.
LEMMA KeptByReplace ==
    ASSUME StackInv, control # <<>>, Head(control).op \notin GuardOps \cup {"evaluated"},
           NEW u, AllPlain(u, Frames(Tail(control))), control' = u \o Tail(control), UNCHANGED accounted,
           SameLength(indentation', indentation), SameLength(buffers', buffers), ValuesFit'
    PROVE  StackInv'
<1>1. /\ WellNested(u \o Tail(control)) /\ SameTallies(u \o Tail(control), control)
      /\ u \o Tail(control) # <<>>
  BY ReplaceTallies DEF StackInv, ControlFits
<1> QED BY <1>1, Kept

\* A sequence is as long as itself.
LEMMA SameLengthReflexive ==
    ASSUME StackInv
    PROVE  /\ SameLength(indentation, indentation) /\ SameLength(buffers, buffers)
           /\ UNCHANGED indentation => SameLength(indentation', indentation)
           /\ UNCHANGED buffers => SameLength(buffers', buffers)
BY DEF StackInv, SameLength, IndentationFits, BuffersFit

\* What the invariant says of the call that runs.
LEMMA RunningCall ==
    ASSUME StackInv, control # <<>>
    PROVE  /\ IsSeq(control) /\ WellNested(control) /\ Fits(Head(control), Tail(control)) /\ IsSeq(Tail(control))
           /\ \A op : Count(control, op) \in Nat /\ Count(Tail(control), op) \in Nat
           /\ \A op : Count(control, op) = Count(Tail(control), op) + (IF Head(control).op = op THEN 1 ELSE 0)
           /\ Granted(control) = Granted(Tail(control)) \cup (IF Head(control).op = "endCallback" THEN {Head(control).context} ELSE {})
           /\ rendering
<1>1. WellNested(control) /\ rendering
  BY DEF StackInv, ControlFits
<1>2. IsSeq(control) /\ Fits(Head(control), Tail(control))
  BY <1>1, WellNestedPop
<1> QED BY <1>1, <1>2, TalliesBelow

-----------------------------------------------------------------------------
(* Calls that leave no guard *)

\* Tuples of plain calls.
LEMMA AllPlainTuples ==
    ASSUME NEW n
    PROVE  /\ AllPlain(<<>>, n)
           /\ \A a : Plain(a, n) => AllPlain(<<a>>, n)
           /\ \A a, b : Plain(a, n) /\ Plain(b, n) => AllPlain(<<a, b>>, n)
           /\ \A a, b, c : Plain(a, n) /\ Plain(b, n) /\ Plain(c, n) => AllPlain(<<a, b, c>>, n)
<1>1. AllPlain(<<>>, n)
  BY DEF AllPlain, IsSeq
<1>2. ASSUME NEW a, Plain(a, n) PROVE AllPlain(<<a>>, n)
  <2>1. <<a>> \in Seq({a}) /\ DOMAIN <<a>> = {1} /\ <<a>>[1] = a
    OBVIOUS
  <2> QED BY <1>2, <2>1 DEF AllPlain, IsSeq
<1>3. ASSUME NEW a, NEW b, Plain(a, n), Plain(b, n) PROVE AllPlain(<<a, b>>, n)
  <2>1. <<a, b>> \in Seq({a, b}) /\ DOMAIN <<a, b>> = {1, 2} /\ <<a, b>>[1] = a /\ <<a, b>>[2] = b
    OBVIOUS
  <2> QED BY <1>3, <2>1 DEF AllPlain, IsSeq
<1>4. ASSUME NEW a, NEW b, NEW c, Plain(a, n), Plain(b, n), Plain(c, n) PROVE AllPlain(<<a, b, c>>, n)
  <2>1. /\ <<a, b, c>> \in Seq({a, b, c}) /\ DOMAIN <<a, b, c>> = {1, 2, 3}
        /\ <<a, b, c>>[1] = a /\ <<a, b, c>>[2] = b /\ <<a, b, c>>[3] = c
    OBVIOUS
  <2> QED BY <1>4, <2>1 DEF AllPlain, IsSeq
<1> QED BY <1>1, <1>2, <1>3, <1>4

\* Plain calls before plain calls.
LEMMA AllPlainConcat ==
    ASSUME NEW n, NEW u, AllPlain(u, n), NEW w, AllPlain(w, n)
    PROVE  AllPlain(u \o w, n)
<1>1. PICK S : u \in Seq(S)
  BY DEF AllPlain, IsSeq
<1>2. PICK T : w \in Seq(T)
  BY DEF AllPlain, IsSeq
<1>3. u \in Seq(S \cup T) /\ w \in Seq(S \cup T)
  BY <1>1, <1>2, SeqMonotonic
<1>4. PICK j \in Nat : j = Len(u) /\ DOMAIN u = 1..j
  BY <1>1
<1>5. PICK k \in Nat : k = Len(w) /\ DOMAIN w = 1..k
  BY <1>2
<1>6. PICK r : r = u \o w /\ r \in Seq(S \cup T)
  <2>1. u \o w \in Seq(S \cup T)
    <3> DEFINE U == S \cup T
    <3>1. u \in Seq(U) /\ w \in Seq(U)
      BY <1>3
    <3> HIDE DEF U
    <3>2. u \o w \in Seq(U)
      BY <3>1
    <3> QED BY <3>2 DEF U
  <2> QED BY <2>1
<1>7. DOMAIN r = 1..(j + k)
  BY <1>3, <1>4, <1>5, <1>6
<1>8. \A i \in 1..(j + k) : r[i] = IF i <= j THEN u[i] ELSE w[i - j]
  BY <1>3, <1>4, <1>5, <1>6, ConcatProperties
<1>9. ASSUME NEW i \in 1..(j + k) PROVE Plain(r[i], n)
  <2>1. CASE i <= j
    <3>1. i \in DOMAIN u
      BY <1>4, <2>1
    <3> QED BY <1>8, <2>1, <3>1 DEF AllPlain
  <2>2. CASE ~(i <= j)
    <3>1. i - j \in DOMAIN w
      BY <1>5, <2>2
    <3> QED BY <1>8, <2>2, <3>1 DEF AllPlain
  <2> QED BY <2>1, <2>2
<1> QED BY <1>6, <1>7, <1>9 DEF AllPlain, IsSeq

\* A call for each element of a sequence.
LEMMA AllPlainEach ==
    ASSUME NEW n, NEW s, IsSeq(s), NEW u, DOMAIN u = DOMAIN s, u = [i \in DOMAIN s |-> u[i]],
           \A i \in DOMAIN s : Plain(u[i], n)
    PROVE  AllPlain(u, n)
<1>1. PICK k \in Nat : DOMAIN s = 1..k
  BY DEF IsSeq
<1> DEFINE U == {u[i] : i \in 1..k}
<1>2. u = [i \in 1..k |-> u[i]] /\ \A i \in 1..k : u[i] \in U
  BY <1>1
<1> HIDE DEF U
<1>3. u \in Seq(U)
  <2>1. [i \in 1..k |-> u[i]] \in Seq(U)
    BY <1>2
  <2> QED BY <1>2, <2>1
<1> QED BY <1>1, <1>3 DEF AllPlain, IsSeq

quiet == <<config, rendering, cursors, sinks, callbackDepth, contexts, scopes, returned, rendered>>

\* A step that leaves the strings and the values alone keeps them well formed.
LEMMA ValuesKept ==
    ASSUME StackInv, UNCHANGED <<config, rendering, stack, indentation, buffers, rendered, returned>>
    PROVE  ValuesFit'
BY DEF StackInv, ValuesFit

\* Steps that touch nothing but the pending calls and the counters.
LEMMA PlainStep ==
    ASSUME StackInv, control # <<>>, Head(control).op \in PlainOps \cup UserOps,
           NEW u, AllPlain(u, Frames(Tail(control))), Head(control).op \in UserOps => u = <<>>,
           control' = u \o Tail(control), UNCHANGED quiet
    PROVE  StackInv'
<1>1. ValuesFit' /\ UNCHANGED accounted /\ SameLength(indentation', indentation) /\ SameLength(buffers', buffers)
  BY ValuesKept, SameLengthReflexive DEF quiet, accounted, cursors, sinks
<1>2. CASE Head(control).op \in PlainOps
  <2>1. Head(control).op \notin GuardOps \cup {"evaluated"}
    BY <1>2, PlainOpsAreNot DEF Special
  <2> QED BY <1>1, <2>1, KeptByReplace
<1>3. CASE Head(control).op \in UserOps
  <2>1. Head(control).op \notin GuardOps
    BY <1>3 DEF UserOps, GuardOps
  <2>2. control' = Tail(control)
    <3>1. IsSeq(Tail(control))
      BY RunningCall
    <3> QED BY <1>3, <3>1, NoCalls
  <2> QED BY <1>1, <2>1, <2>2, KeptByDrop
<1> QED BY <1>2, <1>3

\* An exception changes nothing but throwing.
LEMMA RaiseStep ==
    ASSUME StackInv, control # <<>>, UNCHANGED control, UNCHANGED quiet
    PROVE  StackInv'
<1>1. ValuesFit' /\ UNCHANGED accounted /\ SameLength(indentation', indentation) /\ SameLength(buffers', buffers)
  BY ValuesKept, SameLengthReflexive DEF quiet, accounted, cursors, sinks
<1> QED BY <1>1, KeptInPlace

\* What the invariant says of a plain call that runs.
LEMMA RunningPlain ==
    ASSUME StackInv, NEW op \in PlainOps, Running(op)
    PROVE  /\ control # <<>> /\ Head(control).op = op /\ Typed(Head(control))
           /\ Frames(Tail(control)) \in Nat
           /\ op = "node" => Head(control).depth = Frames(Tail(control))
           /\ op \in Inner => /\ Frames(Tail(control)) # 0 /\ Head(control).depth \in Nat
                              /\ Head(control).depth + 1 = Frames(Tail(control))
<1>1. control # <<>> /\ Head(control).op = op /\ Fits(Head(control), Tail(control))
  BY RunningCall DEF Running
<1>2. Frames(Tail(control)) \in Nat
  BY <1>1, RunningCall DEF Frames
<1>3. PICK n \in Nat : n = Frames(Tail(control))
  BY <1>2
<1>4. PICK d : d = Head(control).depth
  OBVIOUS
<1>5. op = "node" => d = n
  BY <1>1, <1>3, <1>4 DEF Fits
<1>6. op \in Inner => n > 0 /\ d = n - 1
  BY <1>1, <1>3, <1>4 DEF Fits
<1>7. op \in Inner => n # 0 /\ d \in Nat /\ d + 1 = n
  BY <1>6
<1> QED BY <1>1, <1>2, <1>3, <1>4, <1>5, <1>7 DEF Fits

\* A node's strings are sequences of sequences.
LEMMA StringsAreSeqs ==
    ASSUME NEW s, Strings(s)
    PROVE  SeqOfSeqs(s) /\ (s # <<>> => IsSeq(s[1]))
<1>1. IsSeq(s) /\ \A i \in DOMAIN s : IsSeq(s[i])
  BY SequenceIsSeq DEF Strings
<1>2. s # <<>> => 1 \in DOMAIN s
  BY <1>1, Pop
<1> QED BY <1>1, <1>2 DEF SeqOfSeqs

\* A call without indentation carries none.
LEMMA EmptyIndent == SeqOfSeqs(<<>>)
BY DEF SeqOfSeqs, IsSeq

\* The calls that pending work is made of.
LEMMA PlainCalls ==
    ASSUME NEW n \in Nat
    PROVE  /\ \A c \in Nodes \cup {Null} : \A indent, meta : SeqOfSeqs(indent) => Plain(NodeCall(c, n, indent, meta), n)
           /\ \A text : IsSeq(text) => Plain(Write("template", text), n) /\ Plain(Write("source", text), n)
                                       /\ Plain(Write("append", text), n) /\ Plain(Write("escape", text), n)
           /\ \A k \in Nat : Plain(Charge(k), n)
           /\ Plain(Op("beginTag"), n)
<1> USE DEF Plain, Typed, PlainOps, Inner
<1>1. ASSUME NEW c \in Nodes \cup {Null}, NEW indent, NEW meta, SeqOfSeqs(indent) PROVE Plain(NodeCall(c, n, indent, meta), n)
  BY <1>1 DEF NodeCall
<1>2. ASSUME NEW text, IsSeq(text)
      PROVE  Plain(Write("template", text), n) /\ Plain(Write("source", text), n)
             /\ Plain(Write("append", text), n) /\ Plain(Write("escape", text), n)
  BY <1>2 DEF Write
<1>3. ASSUME NEW k \in Nat PROVE Plain(Charge(k), n)
  BY <1>3 DEF Charge
<1>4. Plain(Op("beginTag"), n)
  BY DEF Op
<1> HIDE DEF Plain
<1> QED BY <1>1, <1>2, <1>3, <1>4

\* The calls that a node's case of the switch makes carry its depth.
LEMMA InnerCalls ==
    ASSUME NEW d \in Nat, NEW n \in Nodes
    PROVE  /\ Plain(ChildrenOf(n, d), d + 1)
           /\ \A op \in {"lambda", "invoke", "interpolate", "result"} : Plain(At(op, n, d), d + 1)
           /\ \A value \in VN : Plain(ContextCall(n, d, value), d + 1)
           /\ \A indent : SeqOfSeqs(indent) => Plain([op |-> "partial", node |-> n, depth |-> d, indent |-> indent], d + 1)
<1> USE DEF Plain, Typed, PlainOps, Inner
<1>1. d + 1 > 0 /\ (d + 1) - 1 = d
  OBVIOUS
<1>2. Plain(ChildrenOf(n, d), d + 1)
  BY <1>1 DEF ChildrenOf
<1>3. ASSUME NEW op \in {"lambda", "invoke", "interpolate", "result"} PROVE Plain(At(op, n, d), d + 1)
  BY <1>1, <1>3 DEF At
<1>4. ASSUME NEW value \in VN PROVE Plain(ContextCall(n, d, value), d + 1)
  BY <1>1 DEF ContextCall
<1>5. ASSUME NEW indent, SeqOfSeqs(indent)
      PROVE  Plain([op |-> "partial", node |-> n, depth |-> d, indent |-> indent], d + 1)
  BY <1>1, <1>5
<1> HIDE DEF Plain
<1> QED BY <1>2, <1>3, <1>4, <1>5

\* Everything a node's case of the switch calls is plain, one level further down.
LEMMA BodyPlain ==
    ASSUME ValuesFit, IsSeq(stack), stack # <<>>, NEW n \in Nodes, ~MissingData(n), ~MissingChild(n),
           NEW d \in Nat, NEW indent, SeqOfSeqs(indent)
    PROVE  AllPlain(Body(n, d, indent), d + 1)
<1> DEFINE node == NodeTable[n]
           value == Lookup(n)
<1>1. d + 1 \in Nat
  OBVIOUS
<1>2. AllPlain(<<>>, d + 1) /\ (\A a : Plain(a, d + 1) => AllPlain(<<a>>, d + 1)) /\ AllPlain(BeginTag, d + 1)
  BY <1>1, AllPlainTuples, PlainCalls DEF BeginTag
<1>3. \A u : AllPlain(u, d + 1) => AllPlain(BeginTag \o u, d + 1)
  BY <1>2, AllPlainConcat
<1>4. /\ node.type = "Container" => node.children[1] \in Nodes \cup {Null}
      /\ node.data # <<>> => IsSeq(node.data[1])
  <2>1. node.data # <<>> => IsSeq(node.data[1])
    BY NodesAssumption, StringsAreSeqs
  <2>2. node.children \in Seq(Nodes \cup {Null})
    BY NodesAssumption
  <2>3. node.type = "Container" => node.children # <<>>
    BY DEF MissingChild
  <2>4. node.children # <<>> => node.children[1] \in Nodes \cup {Null}
    BY <2>2
  <2> QED BY <2>1, <2>3, <2>4
<1>5. CASE node.type = "Root"
  BY <1>2, <1>5, InnerCalls DEF Body
<1>6. CASE node.type = "Output"
  <2>1. IsSeq(node.data[1])
    BY <1>4, <1>6 DEF MissingData
  <2>2. PICK text : text = node.data[1]
    OBVIOUS
  <2>3. Plain(Write("source", text), d + 1) /\ Plain(Write("template", text), d + 1)
    BY <1>1, <2>1, <2>2, PlainCalls
  <2>4. Plain(Write(IF node.lambdaOnly THEN "source" ELSE "template", node.data[1]), d + 1)
    BY <2>2, <2>3
  <2> QED BY <1>2, <1>6, <2>4 DEF Body
<1>7. CASE node.type = "Container"
  <2>1. Plain(NodeCall(node.children[1], d + 1, <<>>, FALSE), d + 1)
    BY <1>1, <1>4, <1>7, EmptyIndent, PlainCalls
  <2> QED BY <1>2, <1>7, <2>1 DEF Body
<1>8. CASE node.type = "Partial"
  <2>1. AllPlain(<<[op |-> "partial", node |-> n, depth |-> d, indent |-> indent]>>, d + 1)
    BY <1>2, InnerCalls
  <2>2. Body(n, d, indent) = BeginTag \o <<[op |-> "partial", node |-> n, depth |-> d, indent |-> indent]>>
    BY <1>8 DEF Body
  <2> QED BY <1>3, <2>1, <2>2
<1>9. CASE node.type \in {"Variable", "Negate", "Section"}
  <2>1. value \in VN
    <3>1. node.data # <<>> /\ node.type \notin {"None", "Root", "Container", "Output"}
      BY <1>9 DEF MissingData
    <3> QED BY <3>1, LookupValue DEF ValuesFit
  <2>2. PICK v : v = value
    OBVIOUS
  <2>3. ~IsEmpty(v) => v \in Values
    BY <2>1, <2>2 DEF IsEmpty, VN
  <2>4. /\ AllPlain(IF IsEmpty(v) THEN <<>> ELSE ValueCalls(n, d, v), d + 1)
        /\ AllPlain(IF IsEmpty(v) THEN <<ChildrenOf(n, d)>> ELSE <<>>, d + 1)
        /\ AllPlain(IF IsEmpty(v) THEN <<>> ELSE SectionCalls(n, d, v), d + 1)
    <3>1. AllPlain(<<ChildrenOf(n, d)>>, d + 1)
      BY <1>2, InnerCalls
    <3>2. CASE IsEmpty(v)
      BY <1>2, <3>1, <3>2
    <3>3. CASE ~IsEmpty(v)
      <4>1. v \in Values
        BY <2>3, <3>3
      <4>2. AllPlain(ValueCalls(n, d, v), d + 1)
        <5>1. CASE DataTable[v].type \in {"string", "number", "true"}
          <6>1. PICK text : text = DataTable[v].text /\ IsSeq(text)
            BY <4>1, DataAssumption, SequenceIsSeq
          <6>2. Plain(Write("escape", text), d + 1) /\ Plain(Write("append", text), d + 1)
            BY <1>1, <6>1, PlainCalls
          <6>3. Plain(Emit(n, text), d + 1)
            BY <6>2 DEF Emit
          <6>4. ValueCalls(n, d, v) = <<Emit(n, text)>>
            BY <5>1, <6>1 DEF ValueCalls
          <6> QED BY <1>2, <6>3, <6>4
        <5>2. CASE DataTable[v].type = "lambda"
          <6>1. ValueCalls(n, d, v) = <<At("interpolate", n, d)>>
            BY <5>2 DEF ValueCalls
          <6> QED BY <1>2, <6>1, InnerCalls
        <5>3. CASE DataTable[v].type \notin {"string", "number", "true", "lambda"}
          <6>1. ValueCalls(n, d, v) = <<>>
            BY <5>3 DEF ValueCalls
          <6> QED BY <1>2, <6>1
        <5> QED BY <5>1, <5>2, <5>3
      <4>3. AllPlain(SectionCalls(n, d, v), d + 1)
        <5>1. CASE DataTable[v].type = "list"
          <6>1. DataTable[v].items \in Seq(Values \cup {Null})
            BY <4>1, DataAssumption
          <6>2. PICK items : items = DataTable[v].items /\ IsSeq(items) /\ \A i \in DOMAIN items : items[i] \in VN
            BY <6>1 DEF IsSeq, VN
          <6>3. PICK u : u = [i \in DOMAIN items |-> ContextCall(n, d, items[i])]
            OBVIOUS
          <6>4. \A i \in DOMAIN items : Plain(u[i], d + 1)
            BY <6>2, <6>3, InnerCalls
          <6>5. u = [i \in DOMAIN items |-> u[i]] /\ DOMAIN u = DOMAIN items
            BY <6>3
          <6>6. SectionCalls(n, d, v) = u
            BY <5>1, <6>2, <6>3 DEF SectionCalls
          <6> QED BY <6>2, <6>4, <6>5, <6>6, AllPlainEach
        <5>2. CASE DataTable[v].type = "lambda"
          <6>1. SectionCalls(n, d, v) = <<At("lambda", n, d)>>
            BY <5>2 DEF SectionCalls
          <6> QED BY <1>2, <6>1, InnerCalls
        <5>3. CASE DataTable[v].type \notin {"list", "lambda"}
          <6>1. SectionCalls(n, d, v) = <<ContextCall(n, d, v)>>
            BY <5>3 DEF SectionCalls
          <6>2. v \in VN
            BY <4>1 DEF VN
          <6> QED BY <1>2, <6>1, <6>2, InnerCalls
        <5> QED BY <5>1, <5>2, <5>3
      <4> QED BY <1>2, <3>3, <4>2, <4>3
    <3> QED BY <3>2, <3>3
  <2>5. CASE node.type = "Variable"
    <3>1. Body(n, d, indent) = BeginTag \o IF IsEmpty(v) THEN <<>> ELSE ValueCalls(n, d, v)
      BY <2>2, <2>5 DEF Body
    <3> QED BY <1>3, <2>4, <3>1
  <2>6. CASE node.type = "Negate"
    <3>1. Body(n, d, indent) = BeginTag \o IF IsEmpty(v) THEN <<ChildrenOf(n, d)>> ELSE <<>>
      BY <2>2, <2>6 DEF Body
    <3> QED BY <1>3, <2>4, <3>1
  <2>7. CASE node.type = "Section"
    <3>1. Body(n, d, indent) = BeginTag \o IF IsEmpty(v) THEN <<>> ELSE SectionCalls(n, d, v)
      BY <2>2, <2>7 DEF Body
    <3> QED BY <1>3, <2>4, <3>1
  <2> QED BY <1>9, <2>5, <2>6, <2>7
<1>10. CASE node.type \notin {"Root", "Output", "Container", "Partial", "Variable", "Negate", "Section"}
  <2>1. Body(n, d, indent) = <<>> \/ Body(n, d, indent) = BeginTag
    BY <1>10 DEF Body
  <2> QED BY <1>2, <2>1
<1> HIDE DEF node
<1> QED BY <1>5, <1>6, <1>7, <1>8, <1>9, <1>10

-----------------------------------------------------------------------------
(* Calls that leave a guard behind *)

SoloGuards == {"restoreDepth", "popContext", "popIndentation"}

\* The running call gives way to calls above a guard of its own.
LEMMA GuardPushed ==
    ASSUME StackInv, control # <<>>, Head(control).op \in PlainOps, NEW g, g.op \in SoloGuards,
           g.op = "restoreDepth" =>
               g.depth = Frames(Tail(control)) /\ g.parent = DepthBelow(Frames(Tail(control))),
           NEW u, AllPlain(u, Frames(Tail(control)) + (IF g.op = "restoreDepth" THEN 1 ELSE 0)),
           control' = u \o (<<g>> \o Tail(control))
    PROVE  /\ WellNested(control') /\ control' # <<>> /\ Granted(control') = Granted(control)
           /\ \A op \in GuardOps : /\ Count(control, op) \in Nat
                                   /\ Count(control', op) = Count(control, op) + (IF op = g.op THEN 1 ELSE 0)
<1>1. PICK t : t = Tail(control)
  OBVIOUS
<1>2. Head(control).op \notin GuardOps \cup Special \cup UserOps
  BY PlainOpsAreNot
<1>3. WellNested(t) /\ IsSeq(t) /\ SameTallies(t, control)
  BY <1>1, <1>2, DropTallies DEF StackInv, ControlFits
<1>4. Open(t)
  <2>1. Head(control).op \notin {"endRoot", "restoreOutput", "evaluated", "endCallback", "endHelper"}
    BY <1>2 DEF GuardOps, Special
  <2> QED BY <1>1, <2>1, BelowIsOpen DEF StackInv, ControlFits
<1>5. Fits(g, t)
  <2>1. t # <<>> /\ ~HeadIn(t, {"evaluated", "endHelper"}) /\ ~HeadIn(t, {"dropBuffer"}) /\ ~HeadIn(t, {"leaveScope"}) /\ ~HeadIn(t, UserOps)
    BY <1>4 DEF Open, HeadIn, Special
  <2>2. g.op \notin Inner \cup UserOps \cup {"node", "rebuild", "template", "source", "append", "escape", "charge",
                                             "endRoot", "restoreOutput", "evaluated", "endCallback"}
    BY DEF SoloGuards, Inner, UserOps
  <2>3. Typed(g)
    BY <2>2 DEF Typed, Inner
  <2>4. g.op = "restoreDepth" => g.depth = Frames(t) /\ g.parent = DepthBelow(Frames(t))
    BY <1>1
  <2> QED BY <2>1, <2>2, <2>3, <2>4 DEF Fits
<1>6. PICK r : r = <<g>> \o t
  OBVIOUS
<1>7. WellNested(r) /\ IsSeq(r) /\ r # <<>> /\ Head(r) = g
  BY <1>3, <1>5, <1>6, WellNestedPush, Push
<1>8. /\ \A op : Count(t, op) \in Nat
      /\ \A op : Count(r, op) = Count(t, op) + (IF g.op = op THEN 1 ELSE 0)
      /\ Granted(r) = Granted(t)
  <2>1. g.op # "endCallback" /\ IsSeq(t)
    BY <1>3 DEF SoloGuards
  <2>2. \A op : Count(t, op) \in Nat
    BY <2>1, Tallies
  <2>3. \A op : Count(r, op) = Count(t, op) + (IF g.op = op THEN 1 ELSE 0)
    BY <1>6, <2>1, Tallies
  <2>4. Granted(r) = Granted(t)
    <3>1. Granted(r) = Granted(t) \cup (IF g.op = "endCallback" THEN {g.context} ELSE {})
      BY <1>6, <2>1, Tallies
    <3> QED BY <2>1, <3>1
  <2> QED BY <2>2, <2>3, <2>4
<1>9. Open(r)
  BY <1>7 DEF Open, HeadIn, Special, UserOps, SoloGuards
<1>10. Frames(r) = Frames(t) + (IF g.op = "restoreDepth" THEN 1 ELSE 0)
  BY <1>8 DEF Frames
<1>11. WellNested(u \o r) /\ SameTallies(u \o r, r) /\ Open(u \o r)
  BY <1>1, <1>7, <1>9, <1>10, AllPlainPush
<1>12. control' = u \o r
  BY <1>1, <1>6
<1>13. \A op \in GuardOps : Count(control', op) = Count(r, op) /\ Count(t, op) = Count(control, op)
  BY <1>3, <1>11, <1>12 DEF SameTallies
<1>14. Granted(control') = Granted(control)
  BY <1>3, <1>8, <1>11, <1>12 DEF SameTallies
<1> QED BY <1>8, <1>11, <1>12, <1>13, <1>14 DEF Open

\* The counts the invariant speaks of.
LEMMA CountsAfterPush ==
    ASSUME NEW p \in SoloGuards,
           \A op \in GuardOps : /\ Count(control, op) \in Nat
                                /\ Count(control', op) = Count(control, op) + (IF op = p THEN 1 ELSE 0)
    PROVE  /\ Frames(control) \in Nat /\ Frames(control') = Frames(control) + (IF p = "restoreDepth" THEN 1 ELSE 0)
           /\ Count(control, "popContext") \in Nat
           /\ Count(control', "popContext") = Count(control, "popContext") + (IF p = "popContext" THEN 1 ELSE 0)
           /\ Count(control, "popIndentation") \in Nat
           /\ Count(control', "popIndentation") = Count(control, "popIndentation") + (IF p = "popIndentation" THEN 1 ELSE 0)
           /\ Count(control', "restoreOutput") = Count(control, "restoreOutput")
           /\ Temporaries(control') = Temporaries(control)
           /\ Count(control', "endCallback") = Count(control, "endCallback")
           /\ Count(control', "leaveScope") = Count(control, "leaveScope")
<1>1. \A op \in GuardOps : op # p => Count(control', op) = Count(control, op)
  OBVIOUS
<1>2. \A op \in {"restoreOutput", "dropBuffer", "endHelper", "endCallback", "leaveScope"} : op # p /\ op \in GuardOps
  BY DEF SoloGuards, GuardOps
<1>3. {"restoreDepth", "popContext", "popIndentation"} \subseteq GuardOps
  BY DEF GuardOps
<1>4. /\ Count(control', "restoreOutput") = Count(control, "restoreOutput")
      /\ Count(control', "dropBuffer") = Count(control, "dropBuffer")
      /\ Count(control', "endHelper") = Count(control, "endHelper")
      /\ Count(control', "endCallback") = Count(control, "endCallback")
      /\ Count(control', "leaveScope") = Count(control, "leaveScope")
  BY <1>1, <1>2
<1> QED BY <1>3, <1>4 DEF Frames, Temporaries

\* renderNode, up to its switch.
LEMMA StackInvEnterNode ==
    ASSUME StackInv, EnterNode PROVE StackInv'
<1> DEFINE call == Head(control)
<1>1. /\ control # <<>> /\ call.op = "node" /\ Typed(call) /\ Frames(Tail(control)) \in Nat
      /\ call.depth = Frames(Tail(control)) /\ "node" \in PlainOps
  BY RunningPlain DEF EnterNode, PlainOps
<1>2. UNCHANGED <<config, rendering, stack, indentation, sinks, callbackDepth, contexts, scopes, returned, rendered>>
  BY DEF EnterNode, settings, callbacks
<1>3. CASE UNCHANGED control /\ UNCHANGED activeDepth
  BY <1>1, <1>2, <1>3, RaiseStep DEF quiet, cursors
<1>4. CASE /\ call.node # Null /\ ~TooDeep(call.depth)
           /\ stack # <<>> /\ ~MissingData(call.node) /\ ~MissingChild(call.node)
           /\ activeDepth' = call.depth
           /\ Continue(Append(Body(call.node, call.depth, call.indent),
                       [op |-> "restoreDepth", depth |-> call.depth, parent |-> activeDepth]))
  <2>1. PICK d \in Nat : d = call.depth /\ d = Frames(Tail(control))
    BY <1>1
  <2>2. PICK u : u = Body(call.node, call.depth, call.indent)
    OBVIOUS
  <2>3. PICK g : g = [op |-> "restoreDepth", depth |-> d, parent |-> activeDepth]
    OBVIOUS
  <2>4. AllPlain(u, d + 1)
    <3>1. call.node \in Nodes /\ SeqOfSeqs(call.indent)
      BY <1>1, <1>4 DEF Typed
    <3>2. ValuesFit /\ IsSeq(stack)
      BY DEF StackInv, StackFits
    <3> QED BY <1>4, <2>1, <2>2, <3>1, <3>2, BodyPlain
  <2>5. activeDepth = DepthBelow(d)
    <3>1. SameTallies(Tail(control), control)
      <4>1. call.op \notin GuardOps
        BY <1>1 DEF GuardOps
      <4> QED BY <1>1, <4>1, DropTallies DEF StackInv, ControlFits
    <3>2. Frames(control) = d
      BY <2>1, <3>1 DEF SameTallies, Frames, GuardOps
    <3> QED BY <3>2 DEF StackInv, DepthFits
  <2>6. control' = u \o (<<g>> \o Tail(control)) /\ throwing' = FALSE
    <3>1. control' = Append(u, g) \o Tail(control) /\ throwing' = FALSE
      BY <1>4, <2>1, <2>2, <2>3 DEF Continue
    <3>2. IsSeq(u) /\ IsSeq(<<g>>) /\ IsSeq(Tail(control))
      BY <1>1, <2>4, RunningCall, Singleton DEF AllPlain
    <3>3. Append(u, g) = u \o <<g>>
      BY <3>2, AppendIsConcat DEF IsSeq
    <3>4. (u \o <<g>>) \o Tail(control) = u \o (<<g>> \o Tail(control))
      <4>1. PICK t : t = Tail(control)
        OBVIOUS
      <4>2. PICK w : w = <<g>>
        OBVIOUS
      <4>3. IsSeq(u) /\ IsSeq(w) /\ IsSeq(t)
        BY <3>2, <4>1, <4>2
      <4>4. (u \o w) \o t = u \o (w \o t)
        BY <4>3, Associative
      <4> QED BY <4>1, <4>2, <4>4
    <3> QED BY <3>1, <3>3, <3>4
  <2>7. g.op = "restoreDepth" /\ g.depth = d /\ g.parent = activeDepth
    BY <2>3
  <2>8. /\ WellNested(control') /\ control' # <<>> /\ Granted(control') = Granted(control)
        /\ \A op \in GuardOps : /\ Count(control, op) \in Nat
                                /\ Count(control', op) = Count(control, op) + (IF op = g.op THEN 1 ELSE 0)
    <3>1. g.op \in SoloGuards /\ call.op \in PlainOps
      BY <1>1, <2>7 DEF SoloGuards
    <3>2. AllPlain(u, Frames(Tail(control)) + (IF g.op = "restoreDepth" THEN 1 ELSE 0))
      BY <2>1, <2>4, <2>7
    <3>3. g.depth = Frames(Tail(control)) /\ g.parent = DepthBelow(Frames(Tail(control)))
      BY <2>1, <2>5, <2>7
    <3> QED BY <1>1, <2>6, <3>1, <3>2, <3>3, GuardPushed
  <2>9. /\ Frames(control) \in Nat /\ Frames(control') = Frames(control) + 1
        /\ Count(control', "popContext") = Count(control, "popContext")
        /\ Count(control', "popIndentation") = Count(control, "popIndentation")
        /\ Count(control', "restoreOutput") = Count(control, "restoreOutput")
        /\ Temporaries(control') = Temporaries(control)
        /\ Count(control', "endCallback") = Count(control, "endCallback")
        /\ Count(control', "leaveScope") = Count(control, "leaveScope")
    <3>1. "restoreDepth" \in SoloGuards
      BY DEF SoloGuards
    <3>2. \A op \in GuardOps : /\ Count(control, op) \in Nat
                                /\ Count(control', op) = Count(control, op) + (IF op = "restoreDepth" THEN 1 ELSE 0)
      BY <2>7, <2>8
    <3>3. Count(control, "popContext") \in Nat /\ Count(control, "popIndentation") \in Nat
      BY <3>2 DEF GuardOps
    <3> QED BY <3>1, <3>2, <3>3, CountsAfterPush
  <2>10. DepthFits'
    <3>1. Frames(control) = d
      <4>1. SameTallies(Tail(control), control)
        <5>1. call.op \notin GuardOps
          BY <1>1 DEF GuardOps
        <5> QED BY <1>1, <5>1, DropTallies DEF StackInv, ControlFits
      <4> QED BY <2>1, <4>1 DEF SameTallies, Frames, GuardOps
    <3>2. Frames(control') = d + 1 /\ activeDepth' = d /\ ~TooDeep(d) /\ limits' = limits
      BY <1>2, <1>4, <2>1, <2>9, <3>1 DEF limits
    <3>3. DepthBelow(d + 1) = d /\ (d + 1) - 1 = d
      BY DEF DepthBelow
    <3> QED BY <3>2, <3>3 DEF DepthFits, TooDeep
  <2>11. rendering /\ rendering'
    BY <1>1, <1>2 DEF StackInv, ControlFits
  <2>12. ControlFits'
    BY <2>6, <2>8, <2>11 DEF ControlFits
  <2>13. ValuesFit'
    BY <1>2, ValuesKept DEF sinks
  <2>14. IndentationFits' /\ StackFits' /\ BuffersFit' /\ ContextsFit' /\ config' \in Settings
    <3>1. IndentationFits'
      BY <1>2, <2>9 DEF StackInv, IndentationFits
    <3>2. StackFits'
      BY <1>2, <2>9 DEF StackInv, StackFits
    <3>3. BuffersFit'
      BY <1>2, <2>9 DEF StackInv, BuffersFit, sinks
    <3>4. ContextsFit'
      BY <1>2, <2>8, <2>9 DEF StackInv, ContextsFit
    <3> QED BY <1>2, <3>1, <3>2, <3>3, <3>4 DEF StackInv
  <2> QED BY <2>10, <2>12, <2>13, <2>14 DEF StackInv
<1>5. QED
  BY <1>3, <1>4 DEF EnterNode, Raise

\* A turn of the loop over a node's children.
LEMMA StackInvRenderChildren ==
    ASSUME StackInv, RenderChildren PROVE StackInv'
<1> DEFINE call == Head(control)
           children == NodeTable[call.node].children
           k == call.at
           Child(i, indent, meta) == NodeCall(children[i], call.depth + 1, indent, meta)
<1>1. /\ control # <<>> /\ call.op = "children" /\ Typed(call)
      /\ call.depth \in Nat /\ call.depth + 1 = Frames(Tail(control)) /\ Frames(Tail(control)) \in Nat /\ "children" \in PlainOps
  BY RunningPlain DEF RenderChildren, PlainOps, Inner
<1>2. UNCHANGED quiet
  BY DEF RenderChildren, settings, callbacks, quiet
<1>3. PICK n \in Nat : n = Frames(Tail(control)) /\ n = call.depth + 1
  BY <1>1
<1>4. CASE UNCHANGED control
  BY <1>1, <1>2, <1>4, RaiseStep
<1>5. ASSUME NEW u, AllPlain(u, n), Continue(u) PROVE StackInv'
  BY <1>1, <1>2, <1>3, <1>5, PlainStep DEF Continue, UserOps
<1>6. PICK kids : kids = children /\ kids \in Seq(Nodes \cup {Null})
  BY <1>1, NodesAssumption DEF Typed, Inner
<1>7. PICK j \in Nat \ {0} : j = k
  BY <1>1 DEF Typed
<1>8. \A i : Plain([call EXCEPT !.at = j + i], n) \/ i \notin Nat
  <2> SUFFICES ASSUME NEW i \in Nat PROVE Plain([call EXCEPT !.at = j + i], n)
    OBVIOUS
  <2>1. PICK e : e = [call EXCEPT !.at = j + i]
    OBVIOUS
  <2>2. DOMAIN call = {"op", "node", "depth", "at"} /\ call.node \in Nodes
    BY <1>1 DEF Typed, Inner
  <2>3. /\ e.op = "children" /\ e.node = call.node /\ e.depth = call.depth /\ e.at = j + i
        /\ DOMAIN e = {"op", "node", "depth", "at"}
    BY <1>1, <2>1, <2>2
  <2>4. Typed(e)
    BY <2>2, <2>3 DEF Typed, Inner
  <2>5. n > 0 /\ e.depth = n - 1
    BY <1>1, <1>3, <2>3
  <2> QED BY <2>1, <2>3, <2>4, <2>5 DEF Plain, PlainOps, Inner
<1>9. ASSUME NEW i \in 1..Len(kids), NEW indent, SeqOfSeqs(indent), NEW meta
      PROVE  Plain(Child(i, indent, meta), n)
  <2>1. kids[i] \in Nodes \cup {Null}
    BY <1>6
  <2> QED BY <1>3, <1>6, <1>9, <2>1, PlainCalls
<1>10. CASE k > Len(children) /\ Continue(<<>>)
  BY <1>5, <1>10, AllPlainTuples
<1>11. CASE /\ k <= Len(children) /\ ~BadMetadata(children, k) /\ IsMetadata(children[k])
            /\ Continue(<<Child(k, <<>>, TRUE), Child(k + 1, NodeTable[children[k]].data, FALSE),
                           [call EXCEPT !.at = k + 2]>>)
  <2>1. j \in 1..Len(kids) /\ j + 1 \in 1..Len(kids)
    <3>1. k < Len(children)
      BY <1>11 DEF BadMetadata
    <3> QED BY <1>6, <1>7, <3>1
  <2>2. SeqOfSeqs(NodeTable[kids[j]].data)
    <3>1. kids[j] # Null
      BY <1>6, <1>7, <1>11 DEF IsMetadata
    <3>2. kids[j] \in Nodes
      BY <1>6, <2>1, <3>1
    <3> QED BY <3>2, NodesAssumption, StringsAreSeqs
  <2>3. PICK a : a = Child(k, <<>>, TRUE) /\ Plain(a, n)
    BY <1>7, <1>9, <2>1, EmptyIndent
  <2>4. PICK b : b = Child(k + 1, NodeTable[children[k]].data, FALSE) /\ Plain(b, n)
    <3>1. Plain(Child(j + 1, NodeTable[kids[j]].data, FALSE), n)
      BY <1>9, <2>1, <2>2
    <3> QED BY <1>6, <1>7, <3>1
  <2>5. PICK c : c = [call EXCEPT !.at = k + 2] /\ Plain(c, n)
    <3>1. Plain([call EXCEPT !.at = j + 2], n)
      BY <1>8, SMTT(30)
    <3> QED BY <1>7, <3>1
  <2>6. AllPlain(<<a, b, c>>, n)
    BY <2>3, <2>4, <2>5, AllPlainTuples
  <2> HIDE DEF Child
  <2>7. Continue(<<a, b, c>>)
    BY <1>11, <2>3, <2>4, <2>5
  <2> QED BY <1>5, <2>6, <2>7
<1>12. CASE /\ k <= Len(children) /\ ~IsMetadata(children[k])
            /\ Continue(<<Child(k, <<>>, FALSE), [call EXCEPT !.at = k + 1]>>)
  <2>1. j \in 1..Len(kids)
    BY <1>6, <1>7, <1>12
  <2>2. PICK a : a = Child(k, <<>>, FALSE) /\ Plain(a, n)
    BY <1>7, <1>9, <2>1, EmptyIndent
  <2>3. PICK c : c = [call EXCEPT !.at = k + 1] /\ Plain(c, n)
    <3>1. Plain([call EXCEPT !.at = j + 1], n)
      BY <1>8
    <3> QED BY <1>7, <3>1
  <2>4. AllPlain(<<a, c>>, n)
    BY <2>2, <2>3, AllPlainTuples
  <2> HIDE DEF Child
  <2>5. Continue(<<a, c>>)
    BY <1>12, <2>2, <2>3
  <2> QED BY <1>5, <2>4, <2>5
<1> HIDE DEF Child
<1>13. \/ UNCHANGED control
       \/ k > Len(children) /\ Continue(<<>>)
       \/ /\ k <= Len(children) /\ ~BadMetadata(children, k) /\ IsMetadata(children[k])
          /\ Continue(<<Child(k, <<>>, TRUE), Child(k + 1, NodeTable[children[k]].data, FALSE),
                           [call EXCEPT !.at = k + 2]>>)
       \/ /\ k <= Len(children) /\ ~IsMetadata(children[k])
          /\ Continue(<<Child(k, <<>>, FALSE), [call EXCEPT !.at = k + 1]>>)
  BY DEF RenderChildren, Raise, Child
<1> QED BY <1>4, <1>10, <1>11, <1>12, <1>13

\* What Append does.
LEMMA Appended ==
    ASSUME NEW s, IsSeq(s), NEW x
    PROVE  /\ IsSeq(Append(s, x)) /\ Len(s) \in Nat /\ Len(Append(s, x)) = Len(s) + 1
           /\ DOMAIN s = 1..Len(s) /\ DOMAIN Append(s, x) = 1..(Len(s) + 1)
           /\ \A i \in 1..Len(s) : Append(s, x)[i] = s[i]
           /\ Append(s, x)[Len(s) + 1] = x /\ Last(Append(s, x)) = x
           /\ \A i \in DOMAIN Append(s, x) : Append(s, x)[i] = x \/ (i \in DOMAIN s /\ Append(s, x)[i] = s[i])
<1>1. PICK S : s \in Seq(S)
  BY DEF IsSeq
<1>2. PICK n \in Nat : n = Len(s) /\ DOMAIN s = 1..n
  BY <1>1
<1> DEFINE U == S \cup {x}
<1>3. s \in Seq(U) /\ x \in U
  BY <1>1, SeqMonotonic
<1> HIDE DEF U
<1>4. PICK r : r = Append(s, x) /\ r \in Seq(U)
  <2>1. Append(s, x) \in Seq(U)
    BY <1>3
  <2> QED BY <2>1
<1>5. Len(r) = n + 1 /\ DOMAIN r = 1..(n + 1) /\ r[n + 1] = x /\ \A i \in 1..n : r[i] = s[i]
  BY <1>2, <1>3, <1>4
<1>6. Last(r) = x
  BY <1>5 DEF Last
<1>7. \A i \in 1..(n + 1) : i = n + 1 \/ i \in 1..n
  OBVIOUS
<1> QED BY <1>2, <1>4, <1>5, <1>6, <1>7 DEF IsSeq

\* What removing the last element does.
LEMMA Fronts ==
    ASSUME NEW s, IsSeq(s), s # <<>>
    PROVE  /\ IsSeq(Front(s)) /\ Len(s) \in Nat \ {0} /\ Len(Front(s)) = Len(s) - 1
           /\ DOMAIN s = 1..Len(s) /\ DOMAIN Front(s) = 1..(Len(s) - 1)
           /\ \A i \in DOMAIN Front(s) : i \in DOMAIN s /\ Front(s)[i] = s[i]
<1>1. PICK S : s \in Seq(S)
  BY DEF IsSeq
<1>2. PICK n \in Nat \ {0} : n = Len(s) /\ DOMAIN s = 1..n
  BY <1>1
<1>3. Front(s) = [i \in 1..(n - 1) |-> s[i]]
  BY <1>1, <1>2 DEF Front
<1>4. PICK m \in Nat : m = n - 1
  BY <1>2
<1>5. PICK r : r = [i \in 1..m |-> s[i]]
  OBVIOUS
<1>6. \A i \in 1..m : s[i] \in S /\ i \in 1..n
  BY <1>1, <1>2, <1>4
<1>7. r \in Seq(S) /\ Len(r) = m /\ DOMAIN r = 1..m /\ \A i \in 1..m : r[i] = s[i]
  BY <1>5, <1>6
<1> QED BY <1>2, <1>3, <1>4, <1>5, <1>6, <1>7 DEF IsSeq

\* Joined indentation components.
LEMMA SeqOfSeqsConcat ==
    ASSUME NEW s, SeqOfSeqs(s), NEW t, SeqOfSeqs(t) PROVE SeqOfSeqs(s \o t)
<1>1. PICK S : s \in Seq(S)
  BY DEF SeqOfSeqs, IsSeq
<1>2. PICK T : t \in Seq(T)
  BY DEF SeqOfSeqs, IsSeq
<1>3. IsSeq(s \o t) /\ DOMAIN s = 1..Len(s) /\ DOMAIN t = 1..Len(t) /\ Len(s) \in Nat /\ Len(t) \in Nat
      /\ DOMAIN (s \o t) = 1..(Len(s) + Len(t))
  BY Concat DEF SeqOfSeqs
<1> DEFINE U == S \cup T
<1>4. s \in Seq(U) /\ t \in Seq(U)
  BY <1>1, <1>2, SeqMonotonic
<1> HIDE DEF U
<1>5. PICK j \in Nat, k \in Nat : j = Len(s) /\ k = Len(t)
  BY <1>3
<1>6. \A i \in 1..(j + k) : (s \o t)[i] = IF i <= j THEN s[i] ELSE t[i - j]
  BY <1>4, <1>5, ConcatProperties
<1>7. ASSUME NEW i \in 1..(j + k) PROVE IsSeq((s \o t)[i])
  <2>1. CASE i <= j
    BY <1>3, <1>5, <1>6, <2>1 DEF SeqOfSeqs
  <2>2. CASE ~(i <= j)
    <3>1. i - j \in DOMAIN t
      BY <1>3, <1>5, <2>2
    <3> QED BY <1>6, <2>2, <3>1 DEF SeqOfSeqs
  <2> QED BY <2>1, <2>2
<1> QED BY <1>3, <1>5, <1>7 DEF SeqOfSeqs

\* A plain call gives way to one plain call above a guard.
LEMMA PushedBelow ==
    ASSUME StackInv, control # <<>>, NEW a, NEW g, Continue(<<a, g>>)
    PROVE  control' = <<a>> \o (<<g>> \o Tail(control)) /\ throwing' = FALSE
<1>1. PICK t : t = Tail(control) /\ IsSeq(t)
  BY RunningCall
<1>2. <<a, g>> \o t = <<a>> \o (<<g>> \o t)
  BY <1>1, TwoCalls
<1>3. control' = <<a, g>> \o Tail(control) /\ throwing' = FALSE
  BY DEF Continue
<1> QED BY <1>1, <1>2, <1>3

\* renderWithContext pushes the value and the guard that pops it.
LEMMA StackInvPushContext ==
    ASSUME StackInv, PushContext PROVE StackInv'
<1> DEFINE call == Head(control)
<1>1. /\ control # <<>> /\ call.op = "context" /\ Typed(call) /\ call.op \in PlainOps
      /\ call.depth \in Nat /\ call.depth + 1 = Frames(Tail(control))
  BY RunningPlain DEF PushContext, PlainOps, Inner
<1>2. UNCHANGED <<config, rendering, indentation, activeDepth, sinks, callbackDepth, contexts, scopes, returned, rendered>>
  BY DEF PushContext, settings, callbacks
<1>3. PICK a : a = ChildrenOf(call.node, call.depth) /\ AllPlain(<<a>>, Frames(Tail(control)))
  <2>1. Plain(ChildrenOf(call.node, call.depth), call.depth + 1)
    BY <1>1, InnerCalls DEF Typed, Inner
  <2> QED BY <1>1, <2>1, AllPlainTuples
<1>4. PICK g : g = Op("popContext")
  OBVIOUS
<1>5. g.op = "popContext" /\ g.op \in SoloGuards
  BY <1>4 DEF Op, SoloGuards
<1>6. control' = <<a>> \o (<<g>> \o Tail(control)) /\ throwing' = FALSE
  <2>1. Continue(<<a, g>>)
    BY <1>3, <1>4 DEF PushContext
  <2> QED BY <1>1, <2>1, PushedBelow
<1>7. /\ WellNested(control') /\ control' # <<>> /\ Granted(control') = Granted(control)
      /\ \A op \in GuardOps : /\ Count(control, op) \in Nat
                              /\ Count(control', op) = Count(control, op) + (IF op = g.op THEN 1 ELSE 0)
  <2>1. Frames(Tail(control)) \in Nat
    BY <1>1, RunningCall DEF Frames
  <2>2. AllPlain(<<a>>, Frames(Tail(control)) + (IF g.op = "restoreDepth" THEN 1 ELSE 0))
    BY <1>3, <1>5, <2>1
  <2>3. PICK u : u = <<a>>
    OBVIOUS
  <2> QED BY <1>1, <1>5, <1>6, <2>2, <2>3, GuardPushed
<1>8. /\ Frames(control') = Frames(control) /\ Count(control, "popContext") \in Nat
      /\ Count(control', "popContext") = Count(control, "popContext") + 1
      /\ Count(control', "popIndentation") = Count(control, "popIndentation")
      /\ Count(control', "restoreOutput") = Count(control, "restoreOutput")
      /\ Temporaries(control') = Temporaries(control)
      /\ Count(control', "endCallback") = Count(control, "endCallback")
      /\ Count(control', "leaveScope") = Count(control, "leaveScope")
  <2>1. \A op \in GuardOps : /\ Count(control, op) \in Nat
                             /\ Count(control', op) = Count(control, op) + (IF op = "popContext" THEN 1 ELSE 0)
    BY <1>5, <1>7
  <2> QED BY <1>5, <2>1, CountsAfterPush
<1>9. rendering /\ rendering'
  BY <1>1, <1>2 DEF StackInv, ControlFits
<1>10. IsSeq(stack) /\ Len(stack) = 1 + Count(control, "popContext") /\ stack' = Append(stack, call.data) /\ call.data \in VN
  BY <1>1, <1>9 DEF StackInv, StackFits, PushContext, Typed
<1>11. PICK x : x = call.data
  OBVIOUS
<1>12. PICK r : r = Append(stack, x) /\ stack' = r
  BY <1>10, <1>11
<1>13. IsSeq(r) /\ Len(r) = Len(stack) + 1 /\ Len(stack) \in Nat /\ \A i \in DOMAIN r : r[i] = x \/ (i \in DOMAIN stack /\ r[i] = stack[i])
  BY <1>10, <1>12, Appended
<1>14. StackFits'
  BY <1>8, <1>9, <1>10, <1>12, <1>13 DEF StackFits
<1>15. ValuesFit'
  <2>1. \A i \in DOMAIN stack' : stack'[i] \in VN
    BY <1>10, <1>11, <1>12, <1>13 DEF StackInv, ValuesFit
  <2> QED BY <1>2, <2>1 DEF StackInv, ValuesFit, sinks
<1>16. ControlFits'
  BY <1>6, <1>7, <1>9 DEF ControlFits
<1>17. IndentationFits' /\ BuffersFit' /\ DepthFits' /\ ContextsFit' /\ config' \in Settings
  <2>1. IndentationFits'
    BY <1>2, <1>8 DEF StackInv, IndentationFits
  <2>2. BuffersFit'
    BY <1>2, <1>8 DEF StackInv, BuffersFit, sinks
  <2>3. DepthFits'
    BY <1>2, <1>8 DEF StackInv, DepthFits, TooDeep, limits
  <2>4. ContextsFit'
    BY <1>2, <1>7, <1>8 DEF StackInv, ContextsFit
  <2> QED BY <1>2, <2>1, <2>2, <2>3, <2>4 DEF StackInv
<1> QED BY <1>14, <1>15, <1>16, <1>17 DEF StackInv

\* An indentation frame is pushed with its guard.
LEMMA IndentedStep ==
    ASSUME StackInv, control # <<>>, Head(control).op \in PlainOps,
           NEW a, Plain(a, Frames(Tail(control))), Continue(<<a, Op("popIndentation")>>),
           NEW components, SeqOfSeqs(components), indentation' = Append(indentation, NewFrame(components)),
           UNCHANGED <<config, rendering, stack, activeDepth, sinks, callbackDepth, contexts, scopes, returned, rendered>>
    PROVE  StackInv'
<1>1. AllPlain(<<a>>, Frames(Tail(control)))
  BY AllPlainTuples
<1>2. PICK g : g = Op("popIndentation")
  OBVIOUS
<1>3. g.op = "popIndentation" /\ g.op \in SoloGuards
  BY <1>2 DEF Op, SoloGuards
<1>4. control' = <<a>> \o (<<g>> \o Tail(control)) /\ throwing' = FALSE
  BY <1>2, PushedBelow
<1>5. /\ WellNested(control') /\ control' # <<>> /\ Granted(control') = Granted(control)
      /\ \A op \in GuardOps : /\ Count(control, op) \in Nat
                              /\ Count(control', op) = Count(control, op) + (IF op = g.op THEN 1 ELSE 0)
  <2>1. Frames(Tail(control)) \in Nat
    BY RunningCall DEF Frames
  <2>2. AllPlain(<<a>>, Frames(Tail(control)) + (IF g.op = "restoreDepth" THEN 1 ELSE 0))
    BY <1>1, <1>3, <2>1
  <2>3. PICK u : u = <<a>>
    OBVIOUS
  <2> QED BY <1>3, <1>4, <2>2, <2>3, GuardPushed
<1>6. /\ Frames(control') = Frames(control) /\ Count(control, "popIndentation") \in Nat
      /\ Count(control', "popIndentation") = Count(control, "popIndentation") + 1
      /\ Count(control', "popContext") = Count(control, "popContext")
      /\ Count(control', "restoreOutput") = Count(control, "restoreOutput")
      /\ Temporaries(control') = Temporaries(control)
      /\ Count(control', "endCallback") = Count(control, "endCallback")
      /\ Count(control', "leaveScope") = Count(control, "leaveScope")
  <2>1. \A op \in GuardOps : /\ Count(control, op) \in Nat
                             /\ Count(control', op) = Count(control, op) + (IF op = "popIndentation" THEN 1 ELSE 0)
    BY <1>3, <1>5
  <2> QED BY <1>3, <2>1, CountsAfterPush
<1>7. rendering /\ rendering'
  BY DEF StackInv, ControlFits
<1>8. PICK x : x = NewFrame(components)
  OBVIOUS
<1>9. Frame(x)
  BY <1>8 DEF Frame, NewFrame
<1>10. PICK r : r = Append(indentation, x) /\ indentation' = r
  BY <1>8
<1>11. /\ IsSeq(r) /\ Len(r) = Len(indentation) + 1 /\ Len(indentation) \in Nat
       /\ \A i \in DOMAIN r : r[i] = x \/ (i \in DOMAIN indentation /\ r[i] = indentation[i])
  BY <1>10, Appended DEF StackInv, IndentationFits
<1>12. IndentationFits'
  BY <1>6, <1>10, <1>11 DEF IndentationFits, StackInv
<1>13. ValuesFit'
  <2>1. \A i \in DOMAIN indentation' : Frame(indentation'[i])
    BY <1>9, <1>10, <1>11 DEF StackInv, ValuesFit
  <2> QED BY <2>1 DEF StackInv, ValuesFit, sinks
<1>14. ControlFits'
  BY <1>4, <1>5, <1>7 DEF ControlFits
<1>15. StackFits' /\ BuffersFit' /\ DepthFits' /\ ContextsFit' /\ config' \in Settings
  <2>1. StackFits'
    BY <1>6 DEF StackInv, StackFits
  <2>2. BuffersFit'
    BY <1>6 DEF StackInv, BuffersFit, sinks
  <2>3. DepthFits'
    BY <1>6 DEF StackInv, DepthFits, TooDeep, limits
  <2>4. ContextsFit'
    BY <1>5, <1>6 DEF StackInv, ContextsFit
  <2> QED BY <2>1, <2>2, <2>3, <2>4 DEF StackInv
<1> QED BY <1>12, <1>13, <1>14, <1>15 DEF StackInv

\* A partial is a node or missing, whichever source answers.
LEMMA ResolvedNode ==
    ASSUME StackInv, rendering, NEW name PROVE Resolve(name) \in Nodes \cup {Null}
<1>1. /\ config.node \in Roots /\ config.partials \in Externals \cup {NoPartials}
      /\ config.resolver \in Resolvers \cup {NoPartials}
  BY DEF StackInv, ValuesFit, Settings
<1>2. DOMAIN NoPartials = {}
  BY DEF NoPartials
<1>3. ASSUME NEW source \in Externals \cup Resolvers \cup {NoPartials}, Supplies(source, name) PROVE source[name] \in Nodes
  BY <1>2, <1>3, PartialsAssumption DEF Supplies
<1>4. Supplies(RootPartials[config.node], name) => RootPartials[config.node][name] \in Nodes
  BY <1>1, PartialsAssumption DEF Supplies
<1> QED BY <1>1, <1>3, <1>4 DEF Resolve

\* A partial pushes an indentation frame and the guard that pops it.
LEMMA StackInvRenderPartial ==
    ASSUME StackInv, RenderPartial PROVE StackInv'
<1> DEFINE call == Head(control)
           target == Resolve(NodeTable[call.node].data[1])
           inherited == IF indentation = <<>> THEN <<>> ELSE Last(indentation).components
           components == IF call.indent = <<>> THEN <<>>
                         ELSE inherited \o IF call.indent[1] = <<>> THEN <<>> ELSE call.indent
<1>1. /\ control # <<>> /\ call.op = "partial" /\ Typed(call) /\ call.op \in PlainOps
      /\ call.depth \in Nat /\ call.depth + 1 = Frames(Tail(control)) /\ Frames(Tail(control)) \in Nat
  BY RunningPlain DEF RenderPartial, PlainOps, Inner
<1>2. UNCHANGED <<config, rendering, stack, activeDepth, sinks, callbackDepth, contexts, scopes, returned, rendered>>
  BY DEF RenderPartial, settings, callbacks
<1>3. rendering
  BY <1>1, RunningCall
<1>4. CASE Continue(<<>>) /\ UNCHANGED indentation
  <2>1. control' = <<>> \o Tail(control) /\ UNCHANGED quiet /\ AllPlain(<<>>, Frames(Tail(control)))
    BY <1>2, <1>4, AllPlainTuples DEF Continue, quiet, cursors
  <2> QED BY <1>1, <2>1, PlainStep
<1>5. CASE /\ target # Null
           /\ indentation' = Append(indentation, NewFrame(components))
           /\ Continue(<<NodeCall(target, call.depth + 1, <<>>, FALSE), Op("popIndentation")>>)
  <2>1. target \in Nodes \cup {Null}
    BY <1>3, ResolvedNode
  <2>2. PICK a : a = NodeCall(target, call.depth + 1, <<>>, FALSE) /\ Plain(a, Frames(Tail(control)))
    BY <1>1, <2>1, EmptyIndent, PlainCalls
  <2>3. SeqOfSeqs(components)
    <3>1. SeqOfSeqs(inherited)
      <4>1. CASE indentation = <<>>
        BY <4>1, EmptyIndent
      <4>2. CASE indentation # <<>>
        <5>1. Len(indentation) \in DOMAIN indentation
          BY <4>2 DEF StackInv, IndentationFits, IsSeq
        <5>2. Frame(Last(indentation))
          BY <5>1 DEF StackInv, ValuesFit, Last
        <5> QED BY <4>2, <5>2 DEF Frame
      <4> QED BY <4>1, <4>2
    <3>2. PICK i : i = inherited /\ SeqOfSeqs(i)
      BY <3>1
    <3>3. PICK j : j = call.indent /\ SeqOfSeqs(j)
      BY <1>1 DEF Typed
    <3>4. SeqOfSeqs(i \o <<>>) /\ SeqOfSeqs(i \o j)
      BY <3>2, <3>3, EmptyIndent, SeqOfSeqsConcat
    <3>5. components = (IF j = <<>> THEN <<>> ELSE i \o IF j[1] = <<>> THEN <<>> ELSE j)
      BY <3>2, <3>3
    <3> HIDE DEF components
    <3> QED BY <3>4, <3>5, EmptyIndent
  <2> HIDE DEF components
  <2>4. Continue(<<a, Op("popIndentation")>>)
    BY <1>5, <2>2
  <2> QED BY <1>1, <1>2, <1>5, <2>2, <2>3, <2>4, IndentedStep
<1> HIDE DEF components, target
<1>6. \/ Continue(<<>>) /\ UNCHANGED indentation
      \/ /\ target # Null
         /\ indentation' = Append(indentation, NewFrame(components))
         /\ Continue(<<NodeCall(target, call.depth + 1, <<>>, FALSE), Op("popIndentation")>>)
  BY DEF RenderPartial, components, target
<1> QED BY <1>4, <1>5, <1>6

-----------------------------------------------------------------------------
(* Output *)

\* Positions have a least one.
LEMMA FirstPosition ==
    ASSUME NEW s \in SUBSET Nat, s # {}
    PROVE  \E x \in s : \A y \in s : x <= y
<1> DEFINE R == {ss \in Nat \X Nat : ss[1] < ss[2]}
<1>1. IsWellFoundedOn(R, Nat)
  BY NatLessThanWellFounded DEF OpToRel
<1>2. PICK x \in s : \A y \in s : ~ (<<y, x>> \in R)
  <2> HIDE DEF R
  <2> QED BY <1>1, WFMin, Zenon
<1>3. \A y \in s : ~ (y < x)
  BY <1>2
<1> QED BY <1>3

\* The line-start flag of the innermost frame changes and nothing else about it.
LEMMA LineStartKept ==
    ASSUME StackInv, NEW b, SetLineStart(b)
    PROVE  SameLength(indentation', indentation) /\ \A i \in DOMAIN indentation' : Frame(indentation'[i])
<1>1. CASE indentation = <<>>
  <2>1. indentation' = indentation
    BY <1>1 DEF SetLineStart
  <2> QED BY <2>1, SameLengthReflexive DEF StackInv, ValuesFit
<1>2. CASE indentation # <<>>
  <2>1. PICK frames : frames = indentation
    OBVIOUS
  <2>2. PICK k \in Nat \ {0} : k = Len(frames) /\ DOMAIN frames = 1..k
    BY <1>2, <2>1 DEF StackInv, IndentationFits, IsSeq
  <2>3. \A i \in 1..k : Frame(frames[i])
    BY <2>1, <2>2 DEF StackInv, ValuesFit
  <2>4. PICK r : r = [frames EXCEPT ![k].atLineStart = b] /\ indentation' = r
    BY <1>2, <2>1, <2>2 DEF SetLineStart
  <2>5. DOMAIN r = 1..k /\ r[k] = [frames[k] EXCEPT !.atLineStart = b] /\ \A i \in 1..k : i # k => r[i] = frames[i]
    BY <2>2, <2>4
  <2>6. Frame(r[k])
    <3>1. Frame(frames[k])
      BY <2>2, <2>3
    <3>2. PICK x : x = frames[k]
      OBVIOUS
    <3>3. DOMAIN [x EXCEPT !.atLineStart = b] = DOMAIN x
      OBVIOUS
    <3>4. [x EXCEPT !.atLineStart = b].components = x.components
      BY <3>1, <3>2 DEF Frame
    <3> QED BY <2>5, <3>1, <3>2, <3>3, <3>4 DEF Frame
  <2>7. \A i \in 1..k : Frame(r[i])
    BY <2>3, <2>5, <2>6
  <2>8. IsSeq(r) /\ Len(r) = k
    <3> DEFINE U == {r[i] : i \in 1..k}
    <3>1. r = [i \in 1..k |-> r[i]] /\ \A i \in 1..k : r[i] \in U
      BY <2>4, <2>5
    <3> HIDE DEF U
    <3>2. [i \in 1..k |-> r[i]] \in Seq(U)
      BY <3>1
    <3>3. r \in Seq(U) /\ Len(r) = k
      BY <2>5, <3>1, <3>2
    <3> QED BY <3>3 DEF IsSeq
  <2> QED BY <2>1, <2>2, <2>4, <2>5, <2>7, <2>8 DEF SameLength
<1> QED BY <1>1, <1>2

\* A plain call gives way to plain calls while the line-start flag may change.
LEMMA LineStep ==
    ASSUME StackInv, control # <<>>, Head(control).op \in PlainOps,
           NEW u, AllPlain(u, Frames(Tail(control))), Continue(u),
           UNCHANGED indentation \/ \E b : SetLineStart(b),
           UNCHANGED <<settings, stack, activeDepth, sinks, callbacks>>
    PROVE  StackInv'
<1>1. SameLength(indentation', indentation) /\ \A i \in DOMAIN indentation' : Frame(indentation'[i])
  BY LineStartKept, SameLengthReflexive DEF StackInv, ValuesFit
<1>2. ValuesFit'
  BY <1>1 DEF StackInv, ValuesFit, sinks, settings, callbacks
<1>3. UNCHANGED accounted /\ SameLength(buffers', buffers) /\ control' = u \o Tail(control)
  BY SameLengthReflexive DEF accounted, settings, callbacks, sinks, Continue
<1>4. Head(control).op \notin GuardOps \cup {"evaluated"}
  BY PlainOpsAreNot DEF Special
<1> QED BY <1>1, <1>2, <1>3, <1>4, KeptByReplace

\* Writing the indentation at a line's start.
LEMMA StartLineStep ==
    ASSUME StackInv, control # <<>>, Head(control).op \in PlainOps,
           NEW rest, AllPlain(rest, Frames(Tail(control))), StartLine(rest),
           UNCHANGED <<settings, stack, activeDepth, sinks, callbacks>>
    PROVE  StackInv'
<1>1. CASE ~AtLineStart
  BY <1>1, LineStep DEF StartLine
<1>2. CASE AtLineStart
  <2>1. PICK frame : frame = Last(indentation) /\ Frame(frame)
    <3>1. indentation # <<>>
      BY <1>2 DEF AtLineStart
    <3>2. Len(indentation) \in DOMAIN indentation
      BY <3>1 DEF StackInv, IndentationFits, IsSeq
    <3> QED BY <3>2 DEF StackInv, ValuesFit, Last
  <2>2. PICK c : c = frame.components /\ IsSeq(c) /\ \A i \in DOMAIN c : IsSeq(c[i])
    BY <2>1 DEF Frame, SeqOfSeqs
  <2>3. PICK u : u = [i \in DOMAIN c |-> Write("append", c[i])]
    OBVIOUS
  <2>4. AllPlain(u, Frames(Tail(control)))
    <3>1. Frames(Tail(control)) \in Nat
      BY RunningCall DEF Frames
    <3>2. \A i \in DOMAIN c : Plain(u[i], Frames(Tail(control)))
      BY <2>2, <2>3, <3>1, PlainCalls
    <3>3. u = [i \in DOMAIN c |-> u[i]] /\ DOMAIN u = DOMAIN c
      BY <2>3
    <3> QED BY <2>2, <3>2, <3>3, AllPlainEach
  <2>5. PICK w : w = u \o rest /\ AllPlain(w, Frames(Tail(control)))
    BY <2>4, AllPlainConcat
  <2>6. SetLineStart(FALSE) /\ Continue(u \o rest)
    BY <1>2, <2>1, <2>2, <2>3 DEF StartLine
  <2>7. Continue(w)
    BY <2>5, <2>6
  <2> QED BY <2>5, <2>6, <2>7, LineStep
<1> QED BY <1>1, <1>2

\* _beginTemplateTag.
LEMMA StackInvBeginTemplateTag ==
    ASSUME StackInv, BeginTemplateTag PROVE StackInv'
<1>1. control # <<>> /\ Head(control).op = "beginTag" /\ "beginTag" \in PlainOps
  BY DEF BeginTemplateTag, Running, PlainOps
<1> QED BY <1>1, StartLineStep, AllPlainTuples DEF BeginTemplateTag

\* _consumeTemplateSource.
LEMMA StackInvConsumeTemplateSource ==
    ASSUME StackInv, ConsumeTemplateSource PROVE StackInv'
<1>1. control # <<>> /\ Head(control).op = "source" /\ "source" \in PlainOps
  BY DEF ConsumeTemplateSource, Running, PlainOps
<1>2. \E b : SetLineStart(b)
  BY DEF ConsumeTemplateSource
<1> QED BY <1>1, <1>2, LineStep, AllPlainTuples DEF ConsumeTemplateSource

\* A turn of _appendTemplateOutput's loop.
LEMMA StackInvAppendTemplateOutput ==
    ASSUME StackInv, AppendTemplateOutput PROVE StackInv'
<1> DEFINE newlines == {i \in DOMAIN Head(control).text : Head(control).text[i] = "nl"}
           first == CHOOSE i \in newlines : \A j \in newlines : i <= j
<1>1. /\ control # <<>> /\ Head(control).op = "template" /\ "template" \in PlainOps
      /\ Typed(Head(control)) /\ Frames(Tail(control)) \in Nat
  BY RunningPlain DEF AppendTemplateOutput, PlainOps, Running
<1>2. PICK n \in Nat : n = Frames(Tail(control))
  BY <1>1
<1>3. UNCHANGED <<settings, stack, activeDepth, sinks, callbacks>>
  BY DEF AppendTemplateOutput
<1>4. PICK text : text = Head(control).text /\ IsSeq(text)
  BY <1>1 DEF Typed
<1>5. CASE Continue(<<>>) /\ UNCHANGED indentation
  BY <1>1, <1>3, <1>5, LineStep, AllPlainTuples
<1>6. CASE StartLine(<<Head(control)>>)
  <2>1. Plain(Head(control), n)
    BY <1>1 DEF Plain, Inner
  <2>2. AllPlain(<<Head(control)>>, n)
    BY <2>1, AllPlainTuples
  <2>3. PICK rest : rest = <<Head(control)>>
    OBVIOUS
  <2> QED BY <1>1, <1>2, <1>3, <1>6, <2>2, <2>3, StartLineStep
<1>7. CASE Continue(<<Write("append", text)>>) /\ UNCHANGED indentation
  <2>1. AllPlain(<<Write("append", text)>>, n)
    BY <1>4, PlainCalls, AllPlainTuples
  <2> QED BY <1>1, <1>2, <1>3, <1>7, <2>1, LineStep
<1>8. CASE /\ newlines # {} /\ SetLineStart(TRUE)
           /\ Continue(<<Write("append", SubSeq(text, 1, first)), Write("template", SubSeq(text, first + 1, Len(text)))>>)
  <2>1. PICK k \in Nat : k = Len(text) /\ DOMAIN text = 1..k
    BY <1>4 DEF IsSeq
  <2>2. first \in 1..k
    <3>1. newlines \in SUBSET Nat /\ newlines \subseteq 1..k
      BY <1>4, <2>1
    <3> HIDE DEF newlines
    <3>2. \E x \in newlines : \A y \in newlines : x <= y
      BY <1>8, <3>1, FirstPosition
    <3> QED BY <3>1, <3>2
  <2>3. PICK f \in 1..k : f = first
    BY <2>2
  <2>4. PICK S : text \in Seq(S)
    BY <1>4 DEF IsSeq
  <2>5. SubSeq(text, 1, f) \in Seq(S) /\ SubSeq(text, f + 1, k) \in Seq(S)
    <3>1. \A i \in 1..f : i \in 1..Len(text)
      BY <2>1
    <3>2. \A i \in (f + 1)..k : i \in 1..Len(text)
      BY <2>1
    <3> QED BY <2>1, <2>4, <3>1, <3>2, SubSeqProperties
  <2>6. PICK a : a = Write("append", SubSeq(text, 1, first)) /\ Plain(a, n)
    <3>1. PICK x : x = SubSeq(text, 1, f) /\ IsSeq(x)
      BY <2>5 DEF IsSeq
    <3>2. Plain(Write("append", x), n)
      BY <3>1, PlainCalls
    <3> QED BY <2>3, <3>1, <3>2
  <2>7. PICK b : b = Write("template", SubSeq(text, first + 1, Len(text))) /\ Plain(b, n)
    <3>1. PICK x : x = SubSeq(text, f + 1, k) /\ IsSeq(x)
      BY <2>5 DEF IsSeq
    <3>2. Plain(Write("template", x), n)
      BY <3>1, PlainCalls
    <3>3. x = SubSeq(text, first + 1, Len(text))
      BY <2>1, <2>3, <3>1
    <3> QED BY <3>2, <3>3
  <2>8. AllPlain(<<a, b>>, n)
    BY <2>6, <2>7, AllPlainTuples
  <2>9. Continue(<<a, b>>)
    BY <1>8, <2>6, <2>7
  <2>10. \E x : SetLineStart(x)
    BY <1>8
  <2>11. PICK u : u = <<a, b>>
    OBVIOUS
  <2> QED BY <1>1, <1>2, <1>3, <2>8, <2>9, <2>10, <2>11, LineStep
<1>9. \/ Continue(<<>>) /\ UNCHANGED indentation
      \/ StartLine(<<Head(control)>>)
      \/ Continue(<<Write("append", text)>>) /\ UNCHANGED indentation
      \/ /\ newlines # {} /\ SetLineStart(TRUE)
         /\ Continue(<<Write("append", SubSeq(text, 1, first)), Write("template", SubSeq(text, first + 1, Len(text)))>>)
  BY <1>4 DEF AppendTemplateOutput
<1> HIDE DEF newlines, first
<1> QED BY <1>5, <1>6, <1>7, <1>8, <1>9

\* A write changes what the buffers hold, never how many there are.
LEMMA AppendStep ==
    ASSUME StackInv, control # <<>>, Head(control).op \in PlainOps \cup {"evaluated"},
           NEW bytes, IsSeq(bytes), NEW charged, AppendBytes(bytes, charged),
           UNCHANGED <<settings, cursors, output, callbacks>>
    PROVE  StackInv'
<1>1. CASE Raise /\ UNCHANGED buffers
  <2>1. UNCHANGED quiet /\ UNCHANGED control
    BY <1>1 DEF quiet, sinks, settings, callbacks, Raise
  <2> QED BY <2>1, RaiseStep
<1>2. CASE buffers' = [buffers EXCEPT ![output] = @ \o bytes] /\ Continue(<<>>)
  <2>1. control' = Tail(control)
    <3>1. IsSeq(Tail(control))
      BY RunningCall
    <3>2. PICK t : t = Tail(control)
      OBVIOUS
    <3> QED BY <1>2, <3>1, <3>2, NoCalls DEF Continue
  <2>2. PICK bs : bs = buffers
    OBVIOUS
  <2>3. PICK k \in Nat : k = Len(bs) /\ DOMAIN bs = 1..k /\ \A i \in 1..k : IsSeq(bs[i])
    BY <2>2 DEF StackInv, BuffersFit, ValuesFit, IsSeq
  <2>4. PICK r : r = [bs EXCEPT ![output] = @ \o bytes] /\ buffers' = r
    BY <1>2, <2>2
  <2>5. DOMAIN r = 1..k /\ r = [i \in 1..k |-> r[i]] /\ \A i \in 1..k : r[i] = IF i = output THEN bs[i] \o bytes ELSE bs[i]
    BY <2>3, <2>4
  <2>6. \A i \in 1..k : IsSeq(r[i])
    <3> SUFFICES ASSUME NEW i \in 1..k PROVE IsSeq(r[i])
      OBVIOUS
    <3>1. IsSeq(bs[i])
      BY <2>3
    <3>2. IsSeq(bs[i] \o bytes)
      <4>1. PICK x : x = bs[i] /\ IsSeq(x)
        BY <3>1
      <4> QED BY <4>1, Concat
    <3> QED BY <2>5, <3>1, <3>2
  <2>7. SameLength(buffers', buffers)
    <3> DEFINE U == {r[i] : i \in 1..k}
    <3>1. \A i \in 1..k : r[i] \in U
      OBVIOUS
    <3> HIDE DEF U
    <3>2. [i \in 1..k |-> r[i]] \in Seq(U)
      BY <3>1
    <3>3. r \in Seq(U) /\ Len(r) = k
      BY <2>5, <3>2
    <3> QED BY <2>2, <2>3, <2>4, <3>3 DEF SameLength, IsSeq
  <2>8. ValuesFit'
    <3>1. \A i \in DOMAIN buffers' : IsSeq(buffers'[i])
      BY <2>4, <2>5, <2>6
    <3> QED BY <3>1 DEF StackInv, ValuesFit, settings, cursors, callbacks
  <2>9. Head(control).op \notin GuardOps
    BY PlainOpsAreNot DEF GuardOps
  <2>10. UNCHANGED accounted /\ SameLength(indentation', indentation)
    BY SameLengthReflexive DEF accounted, settings, cursors, callbacks
  <2> QED BY <2>1, <2>7, <2>8, <2>9, <2>10, KeptByDrop
<1> QED BY <1>1, <1>2 DEF AppendBytes

\* The three writes that are charged.
LEMMA StackInvAppends ==
    ASSUME StackInv, AppendText \/ AppendEscaped \/ AppendEvaluated PROVE StackInv'
<1>1. CASE AppendText
  <2>1. /\ control # <<>> /\ Head(control).op = "append" /\ "append" \in PlainOps /\ Typed(Head(control))
    BY <1>1, RunningPlain DEF AppendText, PlainOps
  <2>2. IsSeq(Head(control).text)
    BY <2>1 DEF Typed
  <2> QED BY <1>1, <2>1, <2>2, AppendStep DEF AppendText
<1>2. CASE AppendEscaped
  <2>1. /\ control # <<>> /\ Head(control).op = "escape" /\ "escape" \in PlainOps /\ Typed(Head(control))
    BY <1>2, RunningPlain DEF AppendEscaped, PlainOps
  <2>2. PICK text : text = Head(control).text /\ IsSeq(text)
    BY <2>1 DEF Typed
  <2>3. IsSeq(Escaped(text))
    BY <2>2, EscapedLonger
  <2>4. PICK bytes : bytes = Escaped(text)
    OBVIOUS
  <2> QED BY <1>2, <2>1, <2>2, <2>3, <2>4, AppendStep DEF AppendEscaped
<1>3. CASE AppendEvaluated
  <2>1. control # <<>> /\ Head(control).op = "evaluated"
    BY <1>3 DEF AppendEvaluated, Running
  <2>2. IsSeq(buffers) /\ buffers # <<>>
    <3>1. rendering /\ Temporaries(control) \in Nat
      BY <2>1, RunningCall DEF Temporaries
    <3>2. Len(buffers) = 1 + Temporaries(control)
      BY <3>1 DEF StackInv, BuffersFit
    <3> QED BY <3>1, <3>2 DEF StackInv, BuffersFit
  <2>3. PICK text : text = Last(buffers) /\ IsSeq(text)
    <3>1. Len(buffers) \in DOMAIN buffers
      BY <2>2 DEF IsSeq
    <3> QED BY <3>1 DEF StackInv, ValuesFit, Last
  <2>4. IsSeq(Escaped(text))
    BY <2>3, EscapedLonger
  <2>5. PICK bytes : bytes = Escaped(text)
    OBVIOUS
  <2> QED BY <1>3, <2>1, <2>3, <2>4, <2>5, AppendStep DEF AppendEvaluated
<1> QED BY <1>1, <1>2, <1>3

-----------------------------------------------------------------------------
(* Lambdas *)

\* A call that rebuilds a subtree is plain.
LEMMA PlainRebuild ==
    ASSUME NEW call, DOMAIN call = {"op", "node", "depth", "at", "delims", "top"}, call.op = "rebuild",
           call.node \in Nodes, call.at \in Nat \ {0}, call.delims \in Nat \X Nat, NEW n
    PROVE  Plain(call, n)
BY DEF Plain, Typed, PlainOps, Inner

\* The source of a lambda section is charged, or its subtree rebuilt.
LEMMA StackInvSectionText ==
    ASSUME StackInv, SectionText PROVE StackInv'
<1> DEFINE call == Head(control)
           node == NodeTable[call.node]
<1>1. /\ control # <<>> /\ call.op = "lambda" /\ "lambda" \in PlainOps /\ Typed(call)
      /\ call.depth \in Nat /\ call.depth + 1 = Frames(Tail(control)) /\ Frames(Tail(control)) \in Nat
  BY RunningPlain DEF SectionText, PlainOps, Inner
<1>2. UNCHANGED quiet
  BY DEF SectionText, settings, callbacks, quiet
<1>3. PICK n \in Nat : n = Frames(Tail(control)) /\ n = call.depth + 1
  BY <1>1
<1>4. CASE UNCHANGED control
  BY <1>1, <1>2, <1>4, RaiseStep
<1>5. ASSUME NEW u, AllPlain(u, n), Continue(u) PROVE StackInv'
  BY <1>1, <1>2, <1>3, <1>5, PlainStep DEF Continue, UserOps
<1>6. call.node \in Nodes
  BY <1>1 DEF Typed, Inner
<1>7. PICK invoke : invoke = At("invoke", call.node, call.depth) /\ Plain(invoke, n)
  BY <1>1, <1>3, <1>6, InnerCalls
<1>8. CASE node.source # <<>> /\ Continue(<<Charge(Len(node.source[1])), invoke>>)
  <2>1. IsSeq(node.source[1])
    BY <1>6, <1>8, NodesAssumption, StringsAreSeqs
  <2>2. PICK k \in Nat : k = Len(node.source[1])
    BY <2>1 DEF IsSeq
  <2>3. PICK a : a = Charge(Len(node.source[1])) /\ Plain(a, n)
    BY <2>2, PlainCalls
  <2>4. AllPlain(<<a, invoke>>, n)
    BY <1>7, <2>3, AllPlainTuples
  <2>5. Continue(<<a, invoke>>)
    BY <1>8, <2>3
  <2> QED BY <1>5, <2>4, <2>5
<1>9. CASE /\ node.delims # <<>>
           /\ Continue(<<[op |-> "rebuild", node |-> call.node, depth |-> call.depth, at |-> 1,
                          delims |-> node.delims, top |-> TRUE], invoke>>)
  <2>1. node.delims \in Nat \X Nat
    BY <1>6, <1>9, NodesAssumption
  <2>2. PICK a : a = [op |-> "rebuild", node |-> call.node, depth |-> call.depth, at |-> 1,
                      delims |-> node.delims, top |-> TRUE]
    OBVIOUS
  <2>3. Plain(a, n)
    <3>1. /\ DOMAIN a = {"op", "node", "depth", "at", "delims", "top"} /\ a.op = "rebuild"
          /\ a.node \in Nodes /\ a.at \in Nat \ {0} /\ a.delims \in Nat \X Nat
      BY <1>6, <2>1, <2>2
    <3> QED BY <3>1, PlainRebuild
  <2>4. AllPlain(<<a, invoke>>, n)
    BY <1>7, <2>3, AllPlainTuples
  <2>5. Continue(<<a, invoke>>)
    BY <1>9, <2>2
  <2> QED BY <1>5, <2>4, <2>5
<1>10. \/ UNCHANGED control
       \/ node.source # <<>> /\ Continue(<<Charge(Len(node.source[1])), invoke>>)
       \/ /\ node.delims # <<>>
          /\ Continue(<<[op |-> "rebuild", node |-> call.node, depth |-> call.depth, at |-> 1,
                         delims |-> node.delims, top |-> TRUE], invoke>>)
  BY <1>7 DEF SectionText, Raise
<1> QED BY <1>4, <1>8, <1>9, <1>10

\* What a rebuilt tag charges.
LEMMA PlainPieces ==
    ASSUME NEW c \in Nodes, ~MissingData(c), NEW delims \in Nat \X Nat, NEW n \in Nat
    PROVE  AllPlain(Pieces(c, delims), n)
<1> DEFINE node == NodeTable[c]
<1>1. delims[1] \in Nat /\ delims[2] \in Nat
  OBVIOUS
<1>2. node.data # <<>> => IsSeq(node.data[1])
  BY NodesAssumption, StringsAreSeqs
<1>3. AllPlain(<<>>, n) /\ \A k \in Nat : AllPlain(<<Charge(k)>>, n)
  BY AllPlainTuples, PlainCalls
<1>4. \A j, k \in Nat : AllPlain(<<Charge(j), Charge(k)>>, n)
  BY AllPlainTuples, PlainCalls
<1>5. CASE node.type = "Output"
  <2>1. IsSeq(node.data[1])
    BY <1>2, <1>5 DEF MissingData
  <2>2. PICK k \in Nat : k = Len(node.data[1])
    BY <2>1 DEF IsSeq
  <2>3. Pieces(c, delims) = <<Charge(k)>>
    BY <1>5, <2>2 DEF Pieces
  <2> QED BY <1>3, <2>3
<1>6. CASE node.type \in {"Comment", "Partial", "Negate", "Section", "Stop", "Variable"}
  <2>1. IsSeq(node.data[1])
    BY <1>2, <1>6 DEF MissingData
  <2>2. PICK k \in Nat : k = Len(node.data[1])
    BY <2>1 DEF IsSeq
  <2>3. PICK sigil : sigil = SigilBytes(node) /\ AllPlain(sigil, n)
    <3>1. 1 \in Nat
      OBVIOUS
    <3> QED BY <1>3, <3>1 DEF SigilBytes
  <2>4. PICK first : first = <<Charge(delims[1])>> /\ AllPlain(first, n)
    BY <1>1, <1>3
  <2>5. PICK last : last = <<Charge(k), Charge(delims[2])>> /\ AllPlain(last, n)
    BY <1>1, <1>4
  <2>6. Pieces(c, delims) = first \o sigil \o last
    BY <1>6, <2>2, <2>3, <2>4, <2>5 DEF Pieces
  <2>7. AllPlain(first \o sigil, n)
    BY <2>3, <2>4, AllPlainConcat
  <2>8. PICK w : w = first \o sigil /\ AllPlain(w, n)
    BY <2>7
  <2>9. AllPlain(w \o last, n)
    BY <2>5, <2>8, AllPlainConcat
  <2> QED BY <2>6, <2>8, <2>9
<1>7. CASE node.type \notin {"Output", "Comment", "Partial", "Negate", "Section", "Stop", "Variable"}
  <2>1. Pieces(c, delims) = <<>>
    BY <1>7 DEF Pieces
  <2> QED BY <1>3, <2>1
<1> QED BY <1>5, <1>6, <1>7

\* One child of a rebuilt subtree.
LEMMA StackInvRebuildChild ==
    ASSUME StackInv, RebuildChild PROVE StackInv'
<1> DEFINE call == Head(control)
           children == NodeTable[call.node].children
           k == call.at
           child == children[k]
           skipped == call.top /\ NodeTable[child].type = "Stop"
           pieces == IF skipped THEN <<>>
                     ELSE Pieces(child, call.delims) \o
                          IF RebuildsChildren(child)
                          THEN <<[call EXCEPT !.node = child, !.depth = @ + 1, !.at = 1, !.top = FALSE]>>
                          ELSE <<>>
<1>1. /\ control # <<>> /\ call.op = "rebuild" /\ "rebuild" \in PlainOps /\ Typed(call)
      /\ Frames(Tail(control)) \in Nat
  BY RunningPlain DEF RebuildChild, PlainOps
<1>2. UNCHANGED quiet
  BY DEF RebuildChild, settings, callbacks, quiet
<1>3. PICK n \in Nat : n = Frames(Tail(control))
  BY <1>1
<1>4. CASE UNCHANGED control
  BY <1>1, <1>2, <1>4, RaiseStep
<1>5. ASSUME NEW u, AllPlain(u, n), Continue(u) PROVE StackInv'
  BY <1>1, <1>2, <1>3, <1>5, PlainStep DEF Continue, UserOps
<1>6. CASE Continue(<<>>)
  BY <1>5, <1>6, AllPlainTuples
<1>7. PICK c : /\ c = call /\ DOMAIN c = {"op", "node", "depth", "at", "delims", "top"} /\ c.op = "rebuild"
               /\ c.node \in Nodes /\ c.at \in Nat \ {0} /\ c.delims \in Nat \X Nat
  BY <1>1 DEF Typed
<1>8. CASE /\ k <= Len(children) /\ child # Null /\ (skipped \/ ~MissingData(child))
           /\ Continue(pieces \o <<[call EXCEPT !.at = k + 1]>>)
  <2>1. PICK x \in Nodes : x = child
    <3>1. PICK kids : kids = children /\ kids \in Seq(Nodes \cup {Null})
      BY <1>7, NodesAssumption
    <3>2. PICK j \in Nat \ {0} : j = k /\ j <= Len(kids)
      BY <1>7, <1>8, <3>1
    <3>3. kids[j] \in Nodes \cup {Null}
      BY <3>1, <3>2
    <3> QED BY <1>8, <3>1, <3>2, <3>3
  <2>2. PICK e : e = [c EXCEPT !.at = c.at + 1] /\ Plain(e, n)
    <3>1. PICK e : e = [c EXCEPT !.at = c.at + 1]
      OBVIOUS
    <3>2. /\ DOMAIN e = {"op", "node", "depth", "at", "delims", "top"} /\ e.op = "rebuild"
          /\ e.node \in Nodes /\ e.at \in Nat \ {0} /\ e.delims \in Nat \X Nat
      BY <1>7, <3>1
    <3> QED BY <3>1, <3>2, PlainRebuild
  <2>3. PICK h : h = [c EXCEPT !.node = x, !.depth = @ + 1, !.at = 1, !.top = FALSE] /\ Plain(h, n)
    <3>1. PICK h : h = [c EXCEPT !.node = x, !.depth = @ + 1, !.at = 1, !.top = FALSE]
      OBVIOUS
    <3>2. /\ DOMAIN h = {"op", "node", "depth", "at", "delims", "top"} /\ h.op = "rebuild"
          /\ h.node \in Nodes /\ h.at \in Nat \ {0} /\ h.delims \in Nat \X Nat
      BY <1>7, <3>1
    <3> QED BY <3>1, <3>2, PlainRebuild
  <2>4. AllPlain(<<>>, n) /\ AllPlain(<<e>>, n) /\ AllPlain(<<h>>, n)
    BY <2>2, <2>3, AllPlainTuples
  <2>5. PICK below : below = (IF RebuildsChildren(x) THEN <<h>> ELSE <<>>) /\ AllPlain(below, n)
    BY <2>4
  <2>6. PICK p : p = (IF skipped THEN <<>> ELSE Pieces(x, c.delims) \o below) /\ AllPlain(p, n)
    <3>1. CASE skipped
      BY <2>4, <3>1
    <3>2. CASE ~skipped
      <4>1. ~MissingData(x)
        BY <1>8, <2>1, <3>2
      <4>2. PICK q : q = Pieces(x, c.delims) /\ AllPlain(q, n)
        BY <1>7, <4>1, PlainPieces
      <4>3. AllPlain(q \o below, n)
        BY <2>5, <4>2, AllPlainConcat
      <4> QED BY <3>2, <4>2, <4>3
    <3> QED BY <3>1, <3>2
  <2>7. pieces = p /\ [call EXCEPT !.at = k + 1] = e
    <3>1. [call EXCEPT !.node = child, !.depth = @ + 1, !.at = 1, !.top = FALSE] = h
      BY <1>7, <2>1, <2>3
    <3>2. [call EXCEPT !.at = k + 1] = e
      BY <1>7, <2>2
    <3>3. Pieces(child, call.delims) = Pieces(x, c.delims) /\ RebuildsChildren(child) = RebuildsChildren(x)
      BY <1>7, <2>1
    <3>4. pieces = (IF skipped THEN <<>> ELSE Pieces(x, c.delims) \o below)
      BY <2>5, <3>1, <3>3
    <3> QED BY <2>6, <3>2, <3>4
  <2>8. PICK w : w = <<e>> /\ AllPlain(w, n)
    BY <2>4
  <2>9. PICK u : u = p \o w /\ AllPlain(u, n)
    BY <2>6, <2>8, AllPlainConcat
  <2> HIDE DEF pieces
  <2>10. Continue(u)
    BY <1>8, <2>7, <2>8, <2>9
  <2> QED BY <1>5, <2>9, <2>10
<1>9. \/ UNCHANGED control
      \/ Continue(<<>>)
      \/ /\ k <= Len(children) /\ child # Null /\ (skipped \/ ~MissingData(child))
         /\ Continue(pieces \o <<[call EXCEPT !.at = k + 1]>>)
  BY DEF RebuildChild, Raise
<1> HIDE DEF pieces, skipped
<1> QED BY <1>4, <1>6, <1>8, <1>9

\* A charge to the lambda budget.
LEMMA StackInvConsumeLambdaTemplate ==
    ASSUME StackInv, ConsumeLambdaTemplate PROVE StackInv'
<1>1. control # <<>> /\ Head(control).op = "charge" /\ "charge" \in PlainOps
  BY DEF ConsumeLambdaTemplate, Running, PlainOps
<1>2. UNCHANGED quiet
  BY DEF ConsumeLambdaTemplate, settings, callbacks, quiet
<1>3. CASE UNCHANGED control
  BY <1>1, <1>2, <1>3, RaiseStep
<1>4. CASE Continue(<<>>)
  BY <1>1, <1>2, <1>4, PlainStep, AllPlainTuples DEF Continue
<1> QED BY <1>3, <1>4 DEF ConsumeLambdaTemplate, Raise

\* The calls below the running plain call.
LEMMA BelowPlain ==
    ASSUME StackInv, control # <<>>, Head(control).op \in PlainOps
    PROVE  /\ WellNested(Tail(control)) /\ IsSeq(Tail(control)) /\ Open(Tail(control))
           /\ SameTallies(Tail(control), control)
<1>1. Head(control).op \notin GuardOps \cup Special \cup UserOps
  BY PlainOpsAreNot
<1>2. Head(control).op \notin {"endRoot", "restoreOutput", "evaluated", "endCallback", "endHelper"}
  BY <1>1 DEF GuardOps, Special
<1> QED BY <1>1, <1>2, DropTallies, BelowIsOpen DEF StackInv, ControlFits

\* An interpolated lambda leaves no guard.
LEMMA StackInvInvokeInterpolationLambda ==
    ASSUME StackInv, InvokeInterpolationLambda PROVE StackInv'
<1> DEFINE call == Head(control)
<1>1. /\ control # <<>> /\ call.op = "interpolate" /\ call.op \in PlainOps /\ Typed(call) /\ Frames(Tail(control)) # 0
      /\ call.depth \in Nat /\ call.depth + 1 = Frames(Tail(control)) /\ Frames(Tail(control)) \in Nat
  BY RunningPlain DEF InvokeInterpolationLambda, PlainOps, Inner
<1>2. UNCHANGED quiet
  BY DEF InvokeInterpolationLambda, settings, callbacks, quiet
<1>3. PICK t : t = Tail(control) /\ WellNested(t) /\ IsSeq(t) /\ Open(t) /\ SameTallies(t, control)
  BY <1>1, BelowPlain
<1>4. PICK a : a = At("result", call.node, call.depth) /\ Plain(a, Frames(t))
  BY <1>1, <1>3, InnerCalls DEF Typed, Inner
<1>5. PICK b : b = Op("interpolation")
  OBVIOUS
<1>6. PICK r : r = <<a>> \o t /\ WellNested(r) /\ SameTallies(r, t) /\ Open(r) /\ IsSeq(r)
  <2>1. WellNested(<<a>> \o t) /\ SameTallies(<<a>> \o t, t) /\ Open(<<a>> \o t)
    BY <1>3, <1>4, PlainPush
  <2>2. IsSeq(<<a>> \o t)
    BY <1>3, Push
  <2> QED BY <2>1, <2>2
<1>7. control' = <<b>> \o r /\ throwing' = FALSE
  <2>1. control' = <<b, a>> \o t /\ throwing' = FALSE
    BY <1>3, <1>4, <1>5 DEF InvokeInterpolationLambda, Continue
  <2>2. <<b, a>> \o t = <<b>> \o (<<a>> \o t)
    BY <1>3, TwoCalls
  <2> QED BY <1>6, <2>1, <2>2
<1>8. Fits(b, r)
  <2>1. b.op = "interpolation"
    BY <1>5 DEF Op
  <2>2. ~HeadIn(r, {"evaluated", "endHelper"}) /\ ~HeadIn(r, {"dropBuffer"}) /\ ~HeadIn(r, {"leaveScope"}) /\ ~HeadIn(r, UserOps) /\ r # <<>>
    BY <1>6 DEF Open, HeadIn, Special
  <2>3. Frames(r) > 0
    <3>1. Frames(r) = Frames(t)
      BY <1>6 DEF SameTallies, Frames, GuardOps
    <3> QED BY <1>1, <1>3, <3>1
  <2> QED BY <2>1, <2>2, <2>3 DEF Fits, Typed, Inner
<1>9. WellNested(control') /\ control' # <<>>
  BY <1>6, <1>7, <1>8, WellNestedPush, Push
<1>10. SameTallies(control', control)
  <2>1. /\ \A op : Count(r, op) \in Nat
        /\ \A op : Count(<<b>> \o r, op) = Count(r, op) + (IF b.op = op THEN 1 ELSE 0)
        /\ Granted(<<b>> \o r) = Granted(r) \cup (IF b.op = "endCallback" THEN {b.context} ELSE {})
    BY <1>6, Tallies
  <2>2. b.op = "interpolation" /\ b.op \notin GuardOps
    BY <1>5 DEF Op, GuardOps
  <2>3. \A op \in GuardOps : Count(<<b>> \o r, op) = Count(r, op)
    BY <2>1, <2>2
  <2>4. Granted(<<b>> \o r) = Granted(r)
    BY <2>1, <2>2
  <2> QED BY <1>3, <1>6, <1>7, <2>3, <2>4 DEF SameTallies
<1>11. ValuesFit' /\ UNCHANGED accounted /\ SameLength(indentation', indentation) /\ SameLength(buffers', buffers)
  BY <1>2, ValuesKept, SameLengthReflexive DEF quiet, accounted, cursors, sinks
<1> QED BY <1>1, <1>9, <1>10, <1>11, Kept

-----------------------------------------------------------------------------
(* Guards of lambda calls *)

\* A guard that may stand on any stack that waits for no second half.
LEMMA FitsAnywhere ==
    ASSUME NEW call, call.op \in {"popIndentation", "dropBuffer", "leaveScope", "callback"}, NEW rest, rest # <<>>,
           Head(rest).op \notin Special \cup UserOps, call.op = "callback" => Frames(rest) > 0
    PROVE  Fits(call, rest)
<1>1. ~HeadIn(rest, {"evaluated", "endHelper"}) /\ ~HeadIn(rest, {"dropBuffer"}) /\ ~HeadIn(rest, {"leaveScope"}) /\ ~HeadIn(rest, UserOps)
  BY DEF HeadIn, Special
<1>2. call.op \notin Inner \cup {"node", "rebuild", "template", "source", "append", "escape", "charge", "interpolation",
                                 "restoreDepth", "endRoot", "restoreOutput", "evaluated", "endCallback"}
  BY DEF Inner
<1>3. Typed(call)
  BY <1>2 DEF Typed, Inner
<1>4. call.op \in UserOps => Frames(rest) > 0
  BY <1>2 DEF UserOps
<1> QED BY <1>1, <1>2, <1>3, <1>4 DEF Fits

\* A well-nested stack, and its tallies, with one more call on it.
Pushed(r, x, t) ==
    /\ r = <<x>> \o t /\ WellNested(r) /\ IsSeq(r) /\ r # <<>> /\ Head(r) = x
    /\ \A op : Count(t, op) \in Nat
    /\ \A op : Count(r, op) = Count(t, op) + (IF x.op = op THEN 1 ELSE 0)
    /\ Granted(r) = Granted(t) \cup (IF x.op = "endCallback" THEN {x.context} ELSE {})

\* A call that fits goes on top.
LEMMA OneMore ==
    ASSUME NEW x, NEW t, WellNested(t), Fits(x, t)
    PROVE  \E r : Pushed(r, x, t)
<1>1. IsSeq(t)
  BY WellNestedPop
<1>2. PICK r : r = <<x>> \o t
  OBVIOUS
<1>3. WellNested(r)
  BY <1>2, WellNestedPush
<1>4. IsSeq(r) /\ r # <<>> /\ Head(r) = x
  BY <1>1, <1>2, Push
<1>5. /\ \A op : Count(t, op) \in Nat
      /\ \A op : Count(r, op) = Count(t, op) + (IF x.op = op THEN 1 ELSE 0)
      /\ Granted(r) = Granted(t) \cup (IF x.op = "endCallback" THEN {x.context} ELSE {})
  BY <1>1, <1>2, Tallies
<1>6. Pushed(r, x, t)
  BY <1>2, <1>3, <1>4, <1>5 DEF Pushed
<1> QED BY <1>6

\* A section lambda grants a context and leaves the guards that revoke it.
LEMMA StackInvInvokeSectionLambda ==
    ASSUME StackInv, InvokeSectionLambda PROVE StackInv'
<1> DEFINE call == Head(control)
<1>1. /\ control # <<>> /\ call.op = "invoke" /\ call.op \in PlainOps /\ Typed(call) /\ Frames(Tail(control)) # 0
      /\ call.depth \in Nat /\ call.depth + 1 = Frames(Tail(control)) /\ Frames(Tail(control)) \in Nat
  BY RunningPlain DEF InvokeSectionLambda, PlainOps, Inner
<1>2. UNCHANGED <<config, rendering, cursors, sinks, returned, rendered>>
  BY DEF InvokeSectionLambda, settings
<1>3. PICK t : t = Tail(control) /\ WellNested(t) /\ IsSeq(t) /\ Open(t) /\ SameTallies(t, control)
  BY <1>1, BelowPlain
<1>4. PICK id \in Nat \ {0} : id = Len(contexts) + 1
  BY DEF StackInv, ContextsFit
<1>5. PICK d : d = At("result", call.node, call.depth)
  OBVIOUS
<1>6. Plain(d, Frames(t))
  BY <1>1, <1>3, <1>5, InnerCalls DEF Typed, Inner
<1>7. PICK c : c = Op("leaveScope")
  OBVIOUS
<1>8. c.op = "leaveScope"
  BY <1>7 DEF Op
<1>9. PICK b : b = [op |-> "endCallback", context |-> id]
  OBVIOUS
<1>10. b.op = "endCallback" /\ b.context = id
  BY <1>9
<1>11. PICK a : a = [op |-> "callback", context |-> id]
  OBVIOUS
<1>12. a.op = "callback"
  BY <1>11
<1>13. PICK r1 : r1 = <<d>> \o t
  OBVIOUS
<1>14. WellNested(r1) /\ SameTallies(r1, t) /\ Open(r1) /\ IsSeq(r1)
  <2>1. WellNested(<<d>> \o t) /\ SameTallies(<<d>> \o t, t) /\ Open(<<d>> \o t)
    BY <1>3, <1>6, PlainPush
  <2>2. IsSeq(<<d>> \o t)
    BY <1>3, Push
  <2> QED BY <1>13, <2>1, <2>2
<1>15. Fits(c, r1)
  <2>1. r1 # <<>> /\ Head(r1).op \notin Special \cup UserOps
    BY <1>14 DEF Open, HeadIn
  <2> QED BY <1>8, <2>1, FitsAnywhere
<1>16. PICK r2 : Pushed(r2, c, r1)
  BY <1>14, <1>15, OneMore
<1>17. Granted(r2) = Granted(control)
  BY <1>3, <1>8, <1>14, <1>16 DEF SameTallies, Pushed
<1>18. Fits(b, r2)
  <2>1. \A x \in Granted(r2) : x < id
    <3>1. Granted(control) \subseteq DOMAIN contexts /\ Len(contexts) \in Nat /\ DOMAIN contexts = 1..Len(contexts)
      BY DEF StackInv, ContextsFit
    <3> QED BY <1>4, <1>17, <3>1
  <2>2. HeadIn(r2, {"leaveScope"}) /\ ~HeadIn(r2, {"evaluated", "endHelper"}) /\ ~HeadIn(r2, {"dropBuffer"}) /\ ~HeadIn(r2, UserOps)
    BY <1>8, <1>16 DEF HeadIn, UserOps, Pushed
  <2>3. Typed(b)
    BY <1>10 DEF Typed, Inner
  <2> QED BY <1>10, <1>16, <2>1, <2>2, <2>3 DEF Fits, Inner, UserOps, Pushed
<1>19. WellNested(r2)
  BY <1>16 DEF Pushed
<1>20. PICK r3 : Pushed(r3, b, r2)
  BY <1>19, <1>18, OneMore
<1>21. Count(r1, "restoreDepth") = Count(t, "restoreDepth") /\ Frames(r1) \in Nat
  BY <1>14, <1>16 DEF SameTallies, GuardOps, Frames, Pushed
<1>22. Frames(r3) = Frames(t)
  <2>1. PICK n \in Nat : n = Count(r1, "restoreDepth")
    BY <1>16 DEF Pushed
  <2>2. Count(r2, "restoreDepth") = n
    BY <1>8, <1>16, <2>1 DEF Pushed
  <2>3. Count(r3, "restoreDepth") = n
    BY <1>10, <1>20, <2>2 DEF Pushed
  <2> QED BY <1>21, <2>1, <2>3 DEF Frames
<1>23. Fits(a, r3)
  <2>1. r3 # <<>> /\ Head(r3).op \notin Special \cup UserOps
    BY <1>10, <1>20 DEF Special, UserOps, Pushed
  <2>2. Frames(r3) > 0
    BY <1>1, <1>3, <1>22
  <2> QED BY <1>12, <2>1, <2>2, FitsAnywhere
<1>24. WellNested(r3)
  BY <1>20 DEF Pushed
<1>25. PICK r4 : Pushed(r4, a, r3)
  BY <1>24, <1>23, OneMore
<1>26. control' = r4 /\ throwing' = FALSE
  <2>1. control' = <<a, b, c, d>> \o t /\ throwing' = FALSE
    BY <1>3, <1>4, <1>5, <1>7, <1>9, <1>11 DEF InvokeSectionLambda, Continue
  <2>2. <<a, b, c, d>> \o t = <<a>> \o (<<b>> \o (<<c>> \o (<<d>> \o t)))
    BY <1>3, FourCalls
  <2> QED BY <1>13, <1>16, <1>20, <1>25, <2>1, <2>2 DEF Pushed
<1>27. \A op \in GuardOps : Count(r4, op) = Count(control, op) + (IF op \in {"endCallback", "leaveScope"} THEN 1 ELSE 0)
  <2> SUFFICES ASSUME NEW op \in GuardOps
               PROVE  Count(r4, op) = Count(control, op) + (IF op \in {"endCallback", "leaveScope"} THEN 1 ELSE 0)
    OBVIOUS
  <2>1. PICK n \in Nat : n = Count(r1, op) /\ n = Count(control, op)
    BY <1>3, <1>14, <1>16 DEF SameTallies, Pushed
  <2>2. Count(r2, op) = n + (IF op = "leaveScope" THEN 1 ELSE 0)
    BY <1>8, <1>16, <2>1 DEF Pushed
  <2>3. Count(r3, op) = n + (IF op = "leaveScope" THEN 1 ELSE 0) + (IF op = "endCallback" THEN 1 ELSE 0)
    BY <1>10, <1>20, <2>2 DEF Pushed
  <2>4. Count(r4, op) = Count(r3, op)
    <3>1. op # "callback"
      BY DEF GuardOps
    <3>2. Count(r4, op) = Count(r3, op) + (IF a.op = op THEN 1 ELSE 0) /\ Count(r3, op) \in Nat
      BY <1>25 DEF Pushed
    <3> QED BY <1>12, <3>1, <3>2
  <2> QED BY <2>1, <2>3, <2>4
<1>28. Granted(control') = Granted(control) \cup {id}
  BY <1>10, <1>12, <1>17, <1>20, <1>25, <1>26 DEF Pushed
<1>29. /\ Frames(control') = Frames(control)
       /\ Count(control', "popContext") = Count(control, "popContext")
       /\ Count(control', "popIndentation") = Count(control, "popIndentation")
       /\ Count(control', "restoreOutput") = Count(control, "restoreOutput")
       /\ Temporaries(control') = Temporaries(control)
       /\ Count(control', "endCallback") = Count(control, "endCallback") + 1
       /\ Count(control', "leaveScope") = Count(control, "leaveScope") + 1
  <2>1. \A op \in GuardOps : Count(control, op) \in Nat
    BY <1>1, RunningCall
  <2>2. \A op \in GuardOps : op \notin {"endCallback", "leaveScope"} => Count(control', op) = Count(control, op)
    BY <1>26, <1>27, <2>1
  <2>3. \A op \in {"restoreDepth", "popContext", "popIndentation", "restoreOutput", "dropBuffer", "endHelper"} :
           op \in GuardOps /\ op \notin {"endCallback", "leaveScope"}
    BY DEF GuardOps
  <2>4. "endCallback" \in GuardOps /\ "leaveScope" \in GuardOps
    BY DEF GuardOps
  <2>5. /\ Count(control', "endCallback") = Count(control, "endCallback") + 1
        /\ Count(control', "leaveScope") = Count(control, "leaveScope") + 1
    BY <1>26, <1>27, <2>4
  <2>6. /\ Count(control', "restoreDepth") = Count(control, "restoreDepth")
        /\ Count(control', "popContext") = Count(control, "popContext")
        /\ Count(control', "popIndentation") = Count(control, "popIndentation")
        /\ Count(control', "restoreOutput") = Count(control, "restoreOutput")
        /\ Count(control', "dropBuffer") = Count(control, "dropBuffer")
        /\ Count(control', "endHelper") = Count(control, "endHelper")
    BY <2>2, <2>3
  <2> QED BY <2>5, <2>6 DEF Frames, Temporaries
<1>30. rendering /\ rendering'
  BY <1>1, <1>2 DEF StackInv, ControlFits
<1>31. ContextsFit'
  <2>1. contexts' = Append(contexts, TRUE) /\ scopes' = scopes + 1 /\ callbackDepth' = callbackDepth + 1
    BY DEF InvokeSectionLambda
  <2>2. PICK cs : cs = contexts /\ cs \in Seq(BOOLEAN) /\ {x \in DOMAIN cs : cs[x]} = Granted(control)
    BY DEF StackInv, ContextsFit
  <2>3. PICK n \in Nat : n = Len(cs) /\ DOMAIN cs = 1..n /\ id = n + 1
    BY <1>4, <2>2
  <2>4. PICK e : e = Append(cs, TRUE) /\ e \in Seq(BOOLEAN)
    <3>1. Append(cs, TRUE) \in Seq(BOOLEAN)
      BY <2>2
    <3> QED BY <3>1
  <2>5. DOMAIN e = 1..(n + 1) /\ e[n + 1] = TRUE /\ \A x \in 1..n : e[x] = cs[x]
    BY <2>2, <2>3, <2>4
  <2>6. \A x \in 1..(n + 1) : x = n + 1 \/ x \in 1..n
    OBVIOUS
  <2>7. {x \in DOMAIN e : e[x]} = Granted(control) \cup {id}
    <3>1. ASSUME NEW x, x \in DOMAIN e, e[x] PROVE x \in Granted(control) \cup {id}
      <4>1. x = n + 1 \/ x \in 1..n
        BY <2>5, <2>6, <3>1
      <4> QED BY <2>2, <2>3, <2>5, <3>1, <4>1
    <3>2. ASSUME NEW x \in Granted(control) PROVE x \in DOMAIN e /\ e[x]
      <4>1. x \in 1..n /\ cs[x]
        BY <2>2, <2>3
      <4>2. x \in 1..(n + 1)
        BY <4>1
      <4> QED BY <2>5, <4>1, <4>2
    <3>3. id \in DOMAIN e /\ e[id]
      BY <2>3, <2>5
    <3> QED BY <3>1, <3>2, <3>3
  <2>8. contexts' = e
    BY <2>1, <2>2, <2>4
  <2>9. callbackDepth' = Count(control', "endCallback") /\ scopes' = Count(control', "leaveScope")
    BY <1>29, <2>1 DEF StackInv, ContextsFit
  <2> QED BY <1>28, <2>4, <2>7, <2>8, <2>9 DEF ContextsFit
<1>32. ControlFits'
  BY <1>25, <1>26, <1>30 DEF ControlFits, Pushed
<1>33. IndentationFits' /\ StackFits' /\ BuffersFit' /\ DepthFits' /\ ValuesFit' /\ config' \in Settings
  <2>1. IndentationFits'
    BY <1>2, <1>29 DEF StackInv, IndentationFits, cursors
  <2>2. StackFits'
    BY <1>2, <1>29 DEF StackInv, StackFits, cursors
  <2>3. BuffersFit'
    BY <1>2, <1>29 DEF StackInv, BuffersFit, sinks
  <2>4. DepthFits'
    BY <1>2, <1>29 DEF StackInv, DepthFits, TooDeep, limits, cursors
  <2>5. ValuesFit'
    BY <1>2, ValuesKept DEF cursors, sinks
  <2> QED BY <1>2, <2>1, <2>2, <2>3, <2>4, <2>5 DEF StackInv
<1> QED BY <1>31, <1>32, <1>33 DEF StackInv

\* A temporary buffer and an indentation frame are pushed with their guards.
LEMMA RedirectedStep ==
    ASSUME StackInv, control # <<>>, Head(control).op \notin {"evaluated", "dropBuffer", "endHelper"},
           NEW text, IsSeq(text), NEW guard \in {"dropBuffer", "endHelper"},
           WellNested(control'), control' # <<>>, Granted(control') = Granted(control),
           \A op \in GuardOps : Count(control', op) = Count(control, op) +
                                   (IF op \in {"popIndentation", "restoreOutput", guard} THEN 1 ELSE 0),
           indentation' = Append(indentation, NewFrame(<<>>)), buffers' = Append(buffers, text),
           output' = Len(buffers) + 1,
           UNCHANGED <<config, rendering, stack, activeDepth, callbackDepth, contexts, scopes, returned, rendered>>
    PROVE  StackInv'
<1>1. \A op \in GuardOps : Count(control, op) \in Nat
  BY RunningCall
<1>2. /\ Frames(control') = Frames(control)
      /\ Count(control', "popContext") = Count(control, "popContext")
      /\ Count(control', "endCallback") = Count(control, "endCallback")
      /\ Count(control', "leaveScope") = Count(control, "leaveScope")
  <2>1. \A op \in {"restoreDepth", "popContext", "endCallback", "leaveScope"} :
           op \in GuardOps /\ op \notin {"popIndentation", "restoreOutput", guard}
    BY DEF GuardOps
  <2>2. \A op \in {"restoreDepth", "popContext", "endCallback", "leaveScope"} : Count(control', op) = Count(control, op)
    BY <1>1, <2>1
  <2> QED BY <2>2 DEF Frames
<1>3. /\ Count(control', "popIndentation") = Count(control, "popIndentation") + 1
      /\ Count(control', "restoreOutput") = Count(control, "restoreOutput") + 1
      /\ Temporaries(control') = Temporaries(control) + 1
  <2>1. {"popIndentation", "restoreOutput", "dropBuffer", "endHelper"} \subseteq GuardOps
    BY DEF GuardOps
  <2>2. /\ Count(control', "popIndentation") = Count(control, "popIndentation") + 1
        /\ Count(control', "restoreOutput") = Count(control, "restoreOutput") + 1
    BY <2>1
  <2>3. PICK m \in Nat, n \in Nat : m = Count(control, "dropBuffer") /\ n = Count(control, "endHelper")
    BY <1>1, <2>1
  <2>4. CASE guard = "dropBuffer"
    <3>1. Count(control', "dropBuffer") = m + 1 /\ Count(control', "endHelper") = n
      BY <2>1, <2>3, <2>4
    <3> QED BY <2>2, <2>3, <3>1 DEF Temporaries
  <2>5. CASE guard = "endHelper"
    <3>1. Count(control', "dropBuffer") = m /\ Count(control', "endHelper") = n + 1
      BY <2>1, <2>3, <2>5
    <3> QED BY <2>2, <2>3, <3>1 DEF Temporaries
  <2> QED BY <2>4, <2>5
<1>4. Temporaries(control) = Count(control, "restoreOutput") /\ Count(control, "restoreOutput") \in Nat
  <2>1. Balanced(control)
    BY RunningCall, WellNestedIsBalanced
  <2> QED BY <1>1, <2>1 DEF Balanced, HeadIn, GuardOps
<1>5. rendering /\ rendering'
  BY DEF StackInv, ControlFits
<1>6. IsSeq(buffers) /\ Len(buffers) = 1 + Temporaries(control) /\ IsSeq(indentation)
      /\ Len(indentation) = Count(control, "popIndentation")
  BY <1>5 DEF StackInv, BuffersFit, IndentationFits
<1>7. PICK b : b = Append(buffers, text) /\ buffers' = b
  OBVIOUS
<1>8. IsSeq(b) /\ Len(buffers) \in Nat /\ Len(b) = Len(buffers) + 1
      /\ \A i \in DOMAIN b : b[i] = text \/ (i \in DOMAIN buffers /\ b[i] = buffers[i])
  BY <1>6, <1>7, Appended
<1>9. BuffersFit'
  <2>1. output' = Len(buffers) + 1
    OBVIOUS
  <2> QED BY <1>3, <1>4, <1>5, <1>6, <1>7, <1>8, <2>1 DEF BuffersFit
<1>10. PICK x : x = NewFrame(<<>>)
  OBVIOUS
<1>11. Frame(x)
  BY <1>10, EmptyIndent DEF Frame, NewFrame
<1>12. PICK f : f = Append(indentation, x) /\ indentation' = f
  BY <1>10
<1>13. IsSeq(f) /\ Len(indentation) \in Nat /\ Len(f) = Len(indentation) + 1
       /\ \A i \in DOMAIN f : f[i] = x \/ (i \in DOMAIN indentation /\ f[i] = indentation[i])
  BY <1>6, <1>12, Appended
<1>14. IndentationFits'
  BY <1>3, <1>6, <1>12, <1>13 DEF IndentationFits
<1>15. ValuesFit'
  <2>1. \A i \in DOMAIN indentation' : Frame(indentation'[i])
    BY <1>11, <1>12, <1>13 DEF StackInv, ValuesFit
  <2>2. \A i \in DOMAIN buffers' : IsSeq(buffers'[i])
    BY <1>7, <1>8 DEF StackInv, ValuesFit
  <2> QED BY <2>1, <2>2 DEF StackInv, ValuesFit
<1>16. ControlFits'
  BY <1>5 DEF ControlFits
<1>17. StackFits' /\ DepthFits' /\ ContextsFit' /\ config' \in Settings
  <2>1. StackFits'
    BY <1>2 DEF StackInv, StackFits
  <2>2. DepthFits'
    BY <1>2 DEF StackInv, DepthFits, TooDeep, limits
  <2>3. ContextsFit'
    BY <1>2 DEF StackInv, ContextsFit
  <2> QED BY <2>1, <2>2, <2>3 DEF StackInv
<1> QED BY <1>9, <1>14, <1>15, <1>16, <1>17 DEF StackInv

\* One more call above a stack, as the guards it adds.
LEMMA PushedTallies ==
    ASSUME NEW r, NEW x, NEW t, Pushed(r, x, t)
    PROVE  /\ WellNested(r) /\ IsSeq(r) /\ r # <<>> /\ Head(r) = x
           /\ x.op # "endCallback" => Granted(r) = Granted(t)
           /\ \A op : Count(t, op) \in Nat /\ Count(r, op) \in Nat
                      /\ (op # x.op => Count(r, op) = Count(t, op)) /\ (op = x.op => Count(r, op) = Count(t, op) + 1)
<1>1. /\ WellNested(r) /\ IsSeq(r) /\ r # <<>> /\ Head(r) = x
      /\ x.op # "endCallback" => Granted(r) = Granted(t)
  BY DEF Pushed
<1>2. ASSUME NEW op PROVE Count(t, op) \in Nat /\ Count(r, op) \in Nat
                      /\ (op # x.op => Count(r, op) = Count(t, op)) /\ (op = x.op => Count(r, op) = Count(t, op) + 1)
  BY DEF Pushed
<1> QED BY <1>1, <1>2

\* Only a depth guard counts as a renderNode call.
LEMMA PushedFrames ==
    ASSUME NEW r, NEW x, NEW t, Pushed(r, x, t), x.op # "restoreDepth"
    PROVE  Frames(r) = Frames(t) /\ Frames(t) \in Nat
BY PushedTallies DEF Frames

\* One more call counts once, as its own kind.
LEMMA PushedOne ==
    ASSUME NEW r, NEW x, NEW t, NEW kind, Pushed(r, x, t), x.op = kind, NEW op
    PROVE  /\ Count(t, op) \in Nat
           /\ (op # kind => Count(r, op) = Count(t, op)) /\ (op = kind => Count(r, op) = Count(t, op) + 1)
BY PushedTallies

\* Three more calls of different kinds.
LEMMA PushedThree ==
    ASSUME NEW t, NEW r1, NEW d, Pushed(r1, d, t), d.op = "endHelper", NEW r2, NEW c, Pushed(r2, c, r1), c.op = "restoreOutput",
           NEW r3, NEW b, Pushed(r3, b, r2), b.op = "popIndentation", NEW op
    PROVE  Count(r3, op) = Count(t, op) + (IF op \in {"popIndentation", "restoreOutput", "endHelper"} THEN 1 ELSE 0)
<1>1. Count(t, op) \in Nat /\ (op # "endHelper" => Count(r1, op) = Count(t, op)) /\ (op = "endHelper" => Count(r1, op) = Count(t, op) + 1)
  BY PushedOne
<1>2. (op # "restoreOutput" => Count(r2, op) = Count(r1, op)) /\ (op = "restoreOutput" => Count(r2, op) = Count(r1, op) + 1)
  BY PushedOne
<1>3. (op # "popIndentation" => Count(r3, op) = Count(r2, op)) /\ (op = "popIndentation" => Count(r3, op) = Count(r2, op) + 1)
  BY PushedOne
<1> QED BY <1>1, <1>2, <1>3

\* renderForLambda's guards stand on the callback that called it.
LEMMA HelperPushed ==
    ASSUME StackInv, control # <<>>, Head(control).op \in UserOps,
           NEW a, Plain(a, Frames(control)), NEW to, to = 1 + Count(control, "restoreOutput"),
           control' = <<a, Op("popIndentation"), [op |-> "restoreOutput", to |-> to], Op("endHelper")>> \o control
    PROVE  /\ WellNested(control') /\ control' # <<>> /\ Granted(control') = Granted(control)
           /\ \A op \in GuardOps : Count(control', op) = Count(control, op) +
                  (IF op \in {"popIndentation", "restoreOutput", "endHelper"} THEN 1 ELSE 0)
<1>1. WellNested(control) /\ IsSeq(control)
  BY RunningCall
<1>2. PICK d : d = Op("endHelper")
  OBVIOUS
<1>3. d.op = "endHelper"
  BY <1>2 DEF Op
<1>4. PICK c : c = [op |-> "restoreOutput", to |-> to]
  OBVIOUS
<1>5. c.op = "restoreOutput" /\ c.to = 1 + Count(control, "restoreOutput")
  BY <1>4
<1>6. PICK b : b = Op("popIndentation")
  OBVIOUS
<1>7. b.op = "popIndentation"
  BY <1>6 DEF Op
<1>8. Fits(d, control)
  <2>1. HeadIn(control, UserOps) /\ ~HeadIn(control, {"evaluated", "endHelper"}) /\ ~HeadIn(control, {"dropBuffer"})
        /\ ~HeadIn(control, {"leaveScope"})
    BY DEF HeadIn, UserOps
  <2>2. Typed(d)
    BY <1>3 DEF Typed, Inner
  <2> QED BY <1>3, <2>1, <2>2 DEF Fits, Inner, UserOps
<1>9. PICK r1 : Pushed(r1, d, control)
  BY <1>1, <1>8, OneMore
<1>10. /\ WellNested(r1) /\ r1 # <<>> /\ Head(r1).op = "endHelper" /\ Granted(r1) = Granted(control)
       /\ Count(r1, "restoreOutput") = Count(control, "restoreOutput")
  BY <1>3, <1>9, PushedTallies
<1>11. Fits(c, r1)
  <2>1. /\ HeadIn(r1, {"evaluated", "endHelper"}) /\ ~HeadIn(r1, {"dropBuffer"}) /\ ~HeadIn(r1, {"leaveScope"})
        /\ ~HeadIn(r1, UserOps)
    BY <1>10 DEF HeadIn, UserOps
  <2>2. Typed(c)
    BY <1>5 DEF Typed, Inner
  <2> QED BY <1>5, <1>10, <2>1, <2>2 DEF Fits, Inner, UserOps
<1>12. PICK r2 : Pushed(r2, c, r1)
  BY <1>10, <1>11, OneMore
<1>13. WellNested(r2) /\ r2 # <<>> /\ Head(r2).op = "restoreOutput" /\ Granted(r2) = Granted(r1)
  BY <1>5, <1>12, PushedTallies
<1>14. Fits(b, r2)
  <2>1. Head(r2).op \notin Special \cup UserOps
    BY <1>13 DEF Special, UserOps
  <2>2. b.op \in {"popIndentation", "dropBuffer", "leaveScope", "callback"} /\ b.op # "callback"
    BY <1>7
  <2> QED BY <1>13, <2>1, <2>2, FitsAnywhere
<1>15. PICK r3 : Pushed(r3, b, r2)
  BY <1>13, <1>14, OneMore
<1>16. WellNested(r3) /\ IsSeq(r3) /\ r3 # <<>> /\ Head(r3).op = "popIndentation" /\ Granted(r3) = Granted(r2)
  BY <1>7, <1>15, PushedTallies
<1>17. Frames(r3) = Frames(control)
  BY <1>3, <1>5, <1>7, <1>9, <1>12, <1>15, PushedFrames
<1>18. PICK r4 : r4 = <<a>> \o r3
  OBVIOUS
<1>19. WellNested(r4) /\ SameTallies(r4, r3) /\ r4 # <<>>
  <2>1. Open(r3)
    BY <1>16 DEF Open, HeadIn, Special, UserOps
  <2> QED BY <1>16, <1>17, <1>18, <2>1, PlainPush DEF Open
<1>20. control' = r4
  <2>1. control' = <<a, b, c, d>> \o control
    BY <1>2, <1>4, <1>6
  <2>2. <<a, b, c, d>> \o control = <<a>> \o (<<b>> \o (<<c>> \o (<<d>> \o control)))
    BY <1>1, FourCalls
  <2>3. r1 = <<d>> \o control /\ r2 = <<c>> \o r1 /\ r3 = <<b>> \o r2
    BY <1>9, <1>12, <1>15 DEF Pushed
  <2> QED BY <1>18, <2>1, <2>2, <2>3
<1>21. Granted(control') = Granted(control)
  BY <1>10, <1>13, <1>16, <1>19, <1>20 DEF SameTallies
<1>22. ASSUME NEW op \in GuardOps
       PROVE  Count(control', op) = Count(control, op) +
                  (IF op \in {"popIndentation", "restoreOutput", "endHelper"} THEN 1 ELSE 0)
  <2>1. Count(r4, op) = Count(r3, op)
    BY <1>19 DEF SameTallies
  <2>2. Count(r3, op) = Count(control, op) + (IF op \in {"popIndentation", "restoreOutput", "endHelper"} THEN 1 ELSE 0)
    BY <1>3, <1>5, <1>7, <1>9, <1>12, <1>15, PushedThree
  <2> QED BY <1>20, <2>1, <2>2
<1> QED BY <1>19, <1>20, <1>21, <1>22

\* An escaped lambda result is evaluated into a buffer of its own.
LEMMA EvaluationPushed ==
    ASSUME StackInv, control # <<>>, Head(control).op \in PlainOps,
           NEW a, Plain(a, Frames(Tail(control))), NEW to, to = 1 + Count(control, "restoreOutput"),
           Continue(<<a, [op |-> "restoreOutput", to |-> to], Op("evaluated"), Op("dropBuffer"), Op("popIndentation")>>)
    PROVE  /\ WellNested(control') /\ control' # <<>> /\ Granted(control') = Granted(control)
           /\ \A op \in GuardOps : Count(control', op) = Count(control, op) +
                  (IF op \in {"popIndentation", "restoreOutput", "dropBuffer"} THEN 1 ELSE 0)
<1>1. PICK t : t = Tail(control) /\ WellNested(t) /\ IsSeq(t) /\ Open(t) /\ SameTallies(t, control)
  BY BelowPlain
<1>2. PICK e : e = Op("popIndentation")
  OBVIOUS
<1>3. e.op = "popIndentation"
  BY <1>2 DEF Op
<1>4. PICK d : d = Op("dropBuffer")
  OBVIOUS
<1>5. d.op = "dropBuffer"
  BY <1>4 DEF Op
<1>6. PICK c : c = Op("evaluated")
  OBVIOUS
<1>7. c.op = "evaluated"
  BY <1>6 DEF Op
<1>8. PICK b : b = [op |-> "restoreOutput", to |-> to]
  OBVIOUS
<1>9. b.op = "restoreOutput" /\ b.to = 1 + Count(control, "restoreOutput")
  BY <1>8
<1>10. Fits(e, t)
  <2>1. t # <<>> /\ Head(t).op \notin Special \cup UserOps
    BY <1>1 DEF Open, HeadIn
  <2> QED BY <1>3, <2>1, FitsAnywhere
<1>11. PICK r1 : Pushed(r1, e, t)
  BY <1>1, <1>10, OneMore
<1>12. WellNested(r1) /\ r1 # <<>> /\ Head(r1).op = "popIndentation" /\ Granted(r1) = Granted(t)
  BY <1>3, <1>11, PushedTallies
<1>13. Fits(d, r1)
  <2>1. Head(r1).op \notin Special \cup UserOps
    BY <1>12 DEF Special, UserOps
  <2>2. d.op \in {"popIndentation", "dropBuffer", "leaveScope", "callback"} /\ d.op # "callback"
    BY <1>5
  <2> QED BY <1>12, <2>1, <2>2, FitsAnywhere
<1>14. PICK r2 : Pushed(r2, d, r1)
  BY <1>12, <1>13, OneMore
<1>15. WellNested(r2) /\ r2 # <<>> /\ Head(r2).op = "dropBuffer" /\ Granted(r2) = Granted(r1)
  BY <1>5, <1>14, PushedTallies
<1>16. Fits(c, r2)
  <2>1. ~HeadIn(r2, {"evaluated", "endHelper"}) /\ HeadIn(r2, {"dropBuffer"}) /\ ~HeadIn(r2, {"leaveScope"}) /\ ~HeadIn(r2, UserOps)
    BY <1>15 DEF HeadIn, UserOps
  <2>2. Typed(c)
    BY <1>7 DEF Typed, Inner
  <2> QED BY <1>7, <1>15, <2>1, <2>2 DEF Fits, Inner, UserOps
<1>17. PICK r3 : Pushed(r3, c, r2)
  BY <1>15, <1>16, OneMore
<1>18. WellNested(r3) /\ r3 # <<>> /\ Head(r3).op = "evaluated" /\ Granted(r3) = Granted(r2)
  BY <1>7, <1>17, PushedTallies
<1>19. Count(r3, "restoreOutput") = Count(control, "restoreOutput")
  <2>1. Count(t, "restoreOutput") = Count(control, "restoreOutput")
    BY <1>1 DEF SameTallies, GuardOps
  <2> QED BY <1>3, <1>5, <1>7, <1>11, <1>14, <1>17, <2>1, PushedTallies
<1>20. Fits(b, r3)
  <2>1. HeadIn(r3, {"evaluated", "endHelper"}) /\ ~HeadIn(r3, {"dropBuffer"}) /\ ~HeadIn(r3, {"leaveScope"}) /\ ~HeadIn(r3, UserOps)
    BY <1>18 DEF HeadIn, UserOps
  <2>2. Typed(b)
    BY <1>9 DEF Typed, Inner
  <2> QED BY <1>9, <1>18, <1>19, <2>1, <2>2 DEF Fits, Inner, UserOps
<1>21. PICK r4 : Pushed(r4, b, r3)
  BY <1>18, <1>20, OneMore
<1>22. WellNested(r4) /\ IsSeq(r4) /\ r4 # <<>> /\ Head(r4).op = "restoreOutput" /\ Granted(r4) = Granted(r3)
  BY <1>9, <1>21, PushedTallies
<1>23. Frames(r4) = Frames(t)
  BY <1>3, <1>5, <1>7, <1>9, <1>11, <1>14, <1>17, <1>21, PushedFrames
<1>24. PICK r5 : r5 = <<a>> \o r4
  OBVIOUS
<1>25. WellNested(r5) /\ SameTallies(r5, r4) /\ r5 # <<>>
  <2>1. Open(r4)
    BY <1>22 DEF Open, HeadIn, Special, UserOps
  <2>2. Plain(a, Frames(r4))
    BY <1>1, <1>23
  <2> QED BY <1>22, <1>24, <2>1, <2>2, PlainPush DEF Open
<1>26. control' = r5
  <2>1. control' = <<a, b, c, d, e>> \o t
    BY <1>1, <1>2, <1>4, <1>6, <1>8 DEF Continue
  <2>2. <<a, b, c, d, e>> \o t = <<a>> \o (<<b>> \o (<<c>> \o (<<d>> \o (<<e>> \o t))))
    BY <1>1, FiveCalls
  <2>3. r1 = <<e>> \o t /\ r2 = <<d>> \o r1 /\ r3 = <<c>> \o r2 /\ r4 = <<b>> \o r3
    BY <1>11, <1>14, <1>17, <1>21 DEF Pushed
  <2> QED BY <1>24, <2>1, <2>2, <2>3
<1>27. Granted(control') = Granted(control)
  BY <1>1, <1>12, <1>15, <1>18, <1>22, <1>25, <1>26 DEF SameTallies
<1>28. ASSUME NEW op \in GuardOps
       PROVE  Count(control', op) = Count(control, op) +
                  (IF op \in {"popIndentation", "restoreOutput", "dropBuffer"} THEN 1 ELSE 0)
  <2>1. Count(r5, op) = Count(r4, op) /\ Count(t, op) = Count(control, op)
    BY <1>1, <1>25 DEF SameTallies
  <2>2. PICK n \in Nat : n = Count(t, op)
    BY <1>11, PushedTallies
  <2>3. Count(r1, op) = n + (IF op = "popIndentation" THEN 1 ELSE 0)
    BY <1>3, <1>11, <2>2, PushedTallies
  <2>4. Count(r2, op) = n + (IF op \in {"popIndentation", "dropBuffer"} THEN 1 ELSE 0)
    BY <1>5, <1>14, <2>3, PushedTallies
  <2>5. Count(r3, op) = n + (IF op \in {"popIndentation", "dropBuffer"} THEN 1 ELSE 0)
    <3>1. op # "evaluated"
      BY DEF GuardOps
    <3> QED BY <1>7, <1>17, <2>4, <3>1, PushedTallies
  <2>6. Count(r4, op) = n + (IF op \in {"popIndentation", "restoreOutput", "dropBuffer"} THEN 1 ELSE 0)
    BY <1>9, <1>21, <2>5, PushedTallies
  <2> QED BY <1>26, <2>1, <2>2, <2>6
<1> QED BY <1>25, <1>26, <1>27, <1>28

-----------------------------------------------------------------------------
(* User code *)

\* What a lambda returned is written, parsed and rendered, or refused.
LEMMA StackInvConsumeResult ==
    ASSUME StackInv, ConsumeResult PROVE StackInv'
<1> DEFINE call == Head(control)
           text == returned.text
           inSection == NodeTable[call.node].type = "Section"
           evaluates == ~inSection /\ NodeTable[call.node].escape
<1>1. /\ control # <<>> /\ call.op = "result" /\ Typed(call) /\ call.op \in PlainOps
      /\ call.depth \in Nat /\ call.depth + 1 = Frames(Tail(control)) /\ Frames(Tail(control)) \in Nat
  BY RunningPlain DEF ConsumeResult, PlainOps, Inner
<1>2. UNCHANGED <<config, rendering, stack, activeDepth, callbackDepth, contexts, scopes, returned, rendered>>
  BY DEF ConsumeResult, settings, callbacks
<1>3. IsSeq(text) /\ (~IsLiteral => text \in Texts)
  BY DEF StackInv, ValuesFit, IsLiteral
<1> DEFINE literal == Continue(<<IF inSection THEN Write("append", text) ELSE Emit(call.node, text)>>)
           root == NodeCall(TemplateTable[text].root, call.depth + 1, <<>>, FALSE)
           direct == Continue(<<root, Op("popIndentation")>>) /\ UNCHANGED sinks
           apart == /\ buffers' = Append(buffers, <<>>) /\ output' = Len(buffers) + 1
                    /\ Continue(<<root, [op |-> "restoreOutput", to |-> output], Op("evaluated"),
                                  Op("dropBuffer"), Op("popIndentation")>>)
<1>4. CASE literal /\ UNCHANGED <<indentation, sinks>>
  <2>1. PICK x : x = IF inSection THEN Write("append", text) ELSE Emit(call.node, text)
    OBVIOUS
  <2>2. Plain(x, Frames(Tail(control)))
    BY <1>1, <1>3, <2>1, PlainCalls DEF Emit
  <2>3. AllPlain(<<x>>, Frames(Tail(control)))
    BY <2>2, AllPlainTuples
  <2>4. control' = <<x>> \o Tail(control)
    BY <1>4, <2>1 DEF Continue
  <2>5. UNCHANGED quiet
    BY <1>2, <1>4 DEF quiet, cursors
  <2>6. PICK u : u = <<x>>
    OBVIOUS
  <2>7. call.op \notin UserOps
    BY <1>1 DEF UserOps
  <2> QED BY <1>1, <2>3, <2>4, <2>5, <2>6, <2>7, PlainStep
<1>5. CASE Raise /\ UNCHANGED <<indentation, sinks>>
  <2>1. UNCHANGED quiet /\ UNCHANGED control
    BY <1>2, <1>5 DEF quiet, cursors, Raise
  <2> QED BY <1>1, <2>1, RaiseStep
<1>6. CASE ~IsLiteral /\ indentation' = Append(indentation, NewFrame(<<>>)) /\ CanParse(text) /\ (direct \/ apart)
  <2>1. PICK a : a = root
    OBVIOUS
  <2>2. Plain(a, Frames(Tail(control)))
    <3>1. TemplateTable[text].root \in Nodes \cup {Null}
      BY <1>3, <1>6, TemplatesAssumption
    <3> QED BY <1>1, <2>1, <3>1, PlainCalls, EmptyIndent
  <2>3. CASE direct
    <3>1. Continue(<<a, Op("popIndentation")>>) /\ UNCHANGED sinks
      BY <2>1, <2>3
    <3>2. PICK e : e = <<>>
      OBVIOUS
    <3> QED BY <1>1, <1>2, <1>6, <2>2, <3>1, <3>2, EmptyIndent, IndentedStep
  <2>4. CASE apart
    <3>1. output = 1 + Count(control, "restoreOutput")
      BY <1>1, RunningCall DEF StackInv, BuffersFit
    <3>2. PICK to : to = output
      OBVIOUS
    <3>3. Continue(<<a, [op |-> "restoreOutput", to |-> to], Op("evaluated"), Op("dropBuffer"), Op("popIndentation")>>)
      BY <2>1, <2>4, <3>2
    <3>4. /\ WellNested(control') /\ control' # <<>> /\ Granted(control') = Granted(control)
          /\ \A op \in GuardOps : Count(control', op) = Count(control, op) +
                  (IF op \in {"popIndentation", "restoreOutput", "dropBuffer"} THEN 1 ELSE 0)
      BY <1>1, <2>2, <3>1, <3>2, <3>3, EvaluationPushed
    <3>5. call.op \notin {"evaluated", "dropBuffer", "endHelper"}
      BY <1>1
    <3>6. PICK e, guard : e = <<>> /\ guard = "dropBuffer"
      OBVIOUS
    <3>7. IsSeq(e)
      <4>1. e \in Seq({})
        BY <3>6
      <4> QED BY <4>1 DEF IsSeq
    <3>8. guard \in {"dropBuffer", "endHelper"}
      BY <3>6
    <3>9. indentation' = Append(indentation, NewFrame(<<>>)) /\ buffers' = Append(buffers, e) /\ output' = Len(buffers) + 1
      BY <1>6, <2>4, <3>6
    <3>10. \A op \in GuardOps : Count(control', op) = Count(control, op) +
                  (IF op \in {"popIndentation", "restoreOutput", guard} THEN 1 ELSE 0)
      BY <3>4, <3>6
    <3> HIDE DEF apart
    <3> QED BY <1>1, <1>2, <3>4, <3>5, <3>7, <3>9, <3>10, <3>8, RedirectedStep
  <2> QED BY <1>6, <2>3, <2>4
<1>7. \/ literal /\ UNCHANGED <<indentation, sinks>>
      \/ Raise /\ UNCHANGED <<indentation, sinks>>
      \/ ~IsLiteral /\ indentation' = Append(indentation, NewFrame(<<>>)) /\ CanParse(text) /\ (direct \/ apart)
  BY DEF ConsumeResult
<1> QED BY <1>4, <1>5, <1>6, <1>7

\* What the invariant says while user code runs.
LEMMA RunningCallback ==
    ASSUME StackInv, InCallback
    PROVE  /\ control # <<>> /\ Head(control).op \in UserOps /\ Head(control).op \notin GuardOps \cup Special \cup PlainOps
           /\ rendering /\ Frames(control) \in Nat /\ activeDepth + 1 = Frames(control)
<1>1. control # <<>> /\ Head(control).op \in UserOps /\ Fits(Head(control), Tail(control)) /\ rendering
  BY RunningCall DEF InCallback
<1>2. Head(control).op \notin GuardOps \cup Special \cup PlainOps
  BY <1>1 DEF UserOps, GuardOps, Special, PlainOps, Inner
<1>3. PICK n \in Nat : n = Frames(Tail(control)) /\ n = Frames(control)
  <2>1. /\ Count(control, "restoreDepth") \in Nat
        /\ Count(control, "restoreDepth") = Count(Tail(control), "restoreDepth") + (IF Head(control).op = "restoreDepth" THEN 1 ELSE 0)
        /\ Count(Tail(control), "restoreDepth") \in Nat
    BY <1>1, RunningCall
  <2>2. Head(control).op # "restoreDepth"
    BY <1>2 DEF GuardOps
  <2> QED BY <2>1, <2>2 DEF Frames
<1>4. n > 0
  BY <1>1, <1>3 DEF Fits
<1>5. activeDepth = n - 1
  BY <1>3, <1>4 DEF StackInv, DepthFits, DepthBelow
<1> QED BY <1>1, <1>2, <1>3, <1>4, <1>5

\* User code returns.
LEMMA StackInvReturnFromCallback ==
    ASSUME StackInv, ReturnFromCallback PROVE StackInv'
<1>1. control # <<>> /\ Head(control).op \notin GuardOps
  BY RunningCallback DEF ReturnFromCallback
<1>2. control' = Tail(control)
  <2>1. PICK t : t = Tail(control) /\ IsSeq(t)
    BY <1>1, RunningCall
  <2> QED BY <2>1, NoCalls DEF ReturnFromCallback, Continue
<1>3. UNCHANGED <<config, rendering, cursors, sinks, callbackDepth, contexts, scopes, rendered>>
  BY DEF ReturnFromCallback, settings
<1>4. UNCHANGED accounted /\ SameLength(indentation', indentation) /\ SameLength(buffers', buffers)
  BY <1>3, SameLengthReflexive DEF accounted, cursors, sinks
<1>5. IsSeq(returned'.text) /\ (returned'.kind # "literal" => returned'.text \in Texts)
  <2>1. CASE \E kind \in {"inherit", "literal", "template"}, text \in Texts : returned' = [kind |-> kind, text |-> text]
    <3>1. PICK kind \in {"inherit", "literal", "template"}, text \in Texts : returned' = [kind |-> kind, text |-> text]
      BY <2>1
    <3>2. IsSeq(text)
      BY TemplatesAssumption, SequenceIsSeq
    <3> QED BY <3>1, <3>2
  <2>2. CASE returned' = [kind |-> "literal", text |-> rendered]
    BY <2>2 DEF StackInv, ValuesFit
  <2> QED BY <2>1, <2>2 DEF ReturnFromCallback
<1>6. ValuesFit'
  BY <1>3, <1>5 DEF StackInv, ValuesFit, cursors, sinks
<1> QED BY <1>1, <1>2, <1>4, <1>6, KeptByDrop

\* User code throws, catches, or calls what refuses it.
LEMMA StackInvThrowAndCatch ==
    ASSUME StackInv, CallbackThrows \/ CallbackCatches \/ RejectWhileRendering PROVE StackInv'
<1>1. control # <<>> /\ UNCHANGED control /\ UNCHANGED quiet
  BY DEF CallbackThrows, CallbackCatches, RejectWhileRendering, InCallback, Raise, quiet, settings, callbacks
<1> QED BY <1>1, RaiseStep

\* renderForLambda redirects output, or throws.
LEMMA StackInvRenderForLambda ==
    ASSUME StackInv, InCallback, NEW n \in Nodes \cup {Null}, NEW s, IsSeq(s), RenderForLambda(n, s),
           UNCHANGED <<config, rendering, stack, activeDepth, callbackDepth, contexts, scopes, returned, rendered>>
    PROVE  StackInv'
<1>1. /\ control # <<>> /\ Head(control).op \in UserOps /\ Head(control).op \notin GuardOps \cup Special
      /\ rendering /\ Frames(control) \in Nat /\ activeDepth + 1 = Frames(control)
  BY RunningCallback
<1>2. CASE EnterHelper(n, s)
  <2>1. PICK a : a = NodeCall(n, activeDepth + 1, <<>>, FALSE)
    OBVIOUS
  <2>2. Plain(a, Frames(control))
    BY <1>1, <2>1, PlainCalls, EmptyIndent
  <2>3. PICK to : to = output
    OBVIOUS
  <2>4. to = 1 + Count(control, "restoreOutput")
    BY <1>1, <2>3 DEF StackInv, BuffersFit
  <2>5. control' = <<a, Op("popIndentation"), [op |-> "restoreOutput", to |-> to], Op("endHelper")>> \o control
    BY <1>2, <2>1, <2>3 DEF EnterHelper
  <2>6. /\ WellNested(control') /\ control' # <<>> /\ Granted(control') = Granted(control)
        /\ \A op \in GuardOps : Count(control', op) = Count(control, op) +
               (IF op \in {"popIndentation", "restoreOutput", "endHelper"} THEN 1 ELSE 0)
    BY <1>1, <2>2, <2>4, <2>5, HelperPushed
  <2>7. Head(control).op \notin {"evaluated", "dropBuffer", "endHelper"}
    BY <1>1 DEF Special
  <2>8. indentation' = Append(indentation, NewFrame(<<>>)) /\ buffers' = Append(buffers, s) /\ output' = Len(buffers) + 1
    BY <1>2 DEF EnterHelper
  <2> QED BY <1>1, <2>6, <2>7, <2>8, RedirectedStep
<1>3. CASE Raise /\ UNCHANGED <<sinks, indentation>>
  <2>1. UNCHANGED quiet /\ UNCHANGED control
    BY <1>3 DEF quiet, cursors, Raise
  <2> QED BY <1>1, <2>1, RaiseStep
<1> QED BY <1>2, <1>3 DEF RenderForLambda

\* Each way to reach renderForLambda.
LEMMA StackInvHelpers ==
    ASSUME StackInv,
           \/ \E n \in HelperNodes, s \in {<<>>, rendered} :
                 LegacyRender(n, s) \/ \E c \in DOMAIN contexts : ContextRender(c, n, s)
           \/ \E c \in DOMAIN contexts, text \in Texts : ContextRenderTemplate(c, text)
    PROVE  StackInv'
<1> DEFINE kept == UNCHANGED <<config, rendering, stack, activeDepth, callbackDepth, contexts, scopes, returned, rendered>>
<1>1. ASSUME InCallback, kept, Raise, UNCHANGED <<sinks, indentation>> PROVE StackInv'
  <2>1. control # <<>> /\ UNCHANGED quiet /\ UNCHANGED control
    BY <1>1 DEF quiet, cursors, Raise, InCallback
  <2> QED BY <2>1, RaiseStep
<1>2. CASE \E n \in HelperNodes, s \in {<<>>, rendered} :
               LegacyRender(n, s) \/ \E c \in DOMAIN contexts : ContextRender(c, n, s)
  <2>1. PICK n \in HelperNodes, s \in {<<>>, rendered} :
               LegacyRender(n, s) \/ \E c \in DOMAIN contexts : ContextRender(c, n, s)
    BY <1>2
  <2>2. n \in Nodes \cup {Null} /\ IsSeq(s)
    <3>1. n \in Nodes
      BY ApplicationAssumption
    <3>2. IsSeq(rendered)
      BY DEF StackInv, ValuesFit
    <3>3. CASE s = rendered
      BY <3>1, <3>2, <3>3
    <3>4. CASE s = <<>>
      <4>1. s \in Seq({})
        BY <3>4
      <4> QED BY <3>1, <4>1 DEF IsSeq
    <3> QED BY <3>3, <3>4
  <2>3. CASE LegacyRender(n, s)
    <3>1. InCallback /\ RenderForLambda(n, s) /\ kept
      BY <2>3 DEF LegacyRender, settings
    <3> QED BY <2>2, <3>1, StackInvRenderForLambda
  <2>4. CASE \E c \in DOMAIN contexts : ContextRender(c, n, s)
    <3>1. InCallback /\ kept /\ (RenderForLambda(n, s) \/ (Raise /\ UNCHANGED <<sinks, indentation>>))
      BY <2>4 DEF ContextRender, settings
    <3> QED BY <1>1, <2>2, <3>1, StackInvRenderForLambda
  <2> QED BY <2>1, <2>3, <2>4
<1>3. CASE \E c \in DOMAIN contexts, text \in Texts : ContextRenderTemplate(c, text)
  <2>1. PICK c \in DOMAIN contexts, text \in Texts : ContextRenderTemplate(c, text)
    BY <1>3
  <2>2. TemplateTable[text].root \in Nodes \cup {Null}
    BY TemplatesAssumption
  <2>3. InCallback /\ kept /\ (RenderForLambda(TemplateTable[text].root, <<>>) \/ (Raise /\ UNCHANGED <<sinks, indentation>>))
    BY <2>1 DEF ContextRenderTemplate, settings
  <2>4. PICK root, e : root = TemplateTable[text].root /\ e = <<>>
    OBVIOUS
  <2>5. root \in Nodes \cup {Null} /\ IsSeq(e) /\ (RenderForLambda(root, e) \/ (Raise /\ UNCHANGED <<sinks, indentation>>))
    <3>1. e \in Seq({})
      BY <2>4
    <3>2. IsSeq(e)
      BY <3>1 DEF IsSeq
    <3> QED BY <2>2, <2>3, <2>4, <3>2
  <2> QED BY <1>1, <2>3, <2>5, StackInvRenderForLambda
<1> QED BY <1>2, <1>3

\* Calls that an exception abandons.
LEMMA StackInvDiscard ==
    ASSUME StackInv, Discard PROVE StackInv'
<1>1. UNCHANGED accounted /\ SameLength(indentation', indentation) /\ SameLength(buffers', buffers) /\ ValuesFit'
  BY SameLengthReflexive, ValuesKept DEF Discard, accounted, settings, cursors, sinks, callbacks
<1>2. control # <<>> /\ Head(control).op \notin GuardOps /\ control' = Tail(control)
  BY DEF Discard
<1> QED BY <1>1, <1>2, KeptByDrop

-----------------------------------------------------------------------------
(* Guards *)

\* A guard runs: one tally fewer.
LEMMA GuardEnds ==
    ASSUME StackInv, NEW op \in GuardOps \ {"endRoot"}, Guarding(op), Unwound, UNCHANGED rendering
    PROVE  /\ control # <<>> /\ Head(control).op = op /\ control' = Tail(control)
           /\ Fits(Head(control), control') /\ ControlFits' /\ rendering /\ rendering'
           /\ \A o : Count(control, o) \in Nat /\ Count(control', o) \in Nat
           /\ \A o : o # op => Count(control', o) = Count(control, o)
           /\ Count(control, op) = Count(control', op) + 1
           /\ op # "endCallback" => Granted(control') = Granted(control)
           /\ op = "endCallback" => Granted(control) = Granted(control') \cup {Head(control).context}
<1>1. control # <<>> /\ Head(control).op = op /\ control' = Tail(control) /\ throwing' = throwing
  BY DEF Guarding, Unwound
<1>2. /\ WellNested(control) /\ Fits(Head(control), Tail(control)) /\ rendering
      /\ \A o : Count(control, o) \in Nat /\ Count(Tail(control), o) \in Nat
      /\ \A o : Count(control, o) = Count(Tail(control), o) + (IF Head(control).op = o THEN 1 ELSE 0)
      /\ Granted(control) = Granted(Tail(control)) \cup (IF Head(control).op = "endCallback" THEN {Head(control).context} ELSE {})
  BY <1>1, RunningCall
<1>3. PICK t : t = Tail(control)
  OBVIOUS
<1>4. ASSUME NEW o PROVE /\ Count(control, o) \in Nat /\ Count(t, o) \in Nat
                         /\ (o # op => Count(t, o) = Count(control, o)) /\ (o = op => Count(control, o) = Count(t, o) + 1)
  BY <1>1, <1>2, <1>3
<1>5. t # <<>> /\ WellNested(t)
  <2>1. WellNested(t)
    BY <1>1, <1>2, <1>3, WellNestedPop
  <2>2. t # <<>>
    BY <1>1, <1>2, <1>3 DEF Fits
  <2> QED BY <2>1, <2>2
<1>6. ControlFits'
  BY <1>1, <1>2, <1>3, <1>5 DEF ControlFits
<1> QED BY <1>1, <1>2, <1>3, <1>4, <1>6

\* The depth guard restores the depth of the call that encloses it.
LEMMA StackInvRestoreDepth ==
    ASSUME StackInv, RestoreDepth PROVE StackInv'
<1>1. UNCHANGED <<config, rendering, stack, indentation, sinks, callbackDepth, contexts, scopes, returned, rendered>>
  BY DEF RestoreDepth, settings, callbacks
<1>2. /\ Head(control).op = "restoreDepth" /\ Fits(Head(control), control') /\ ControlFits'
      /\ \A o : Count(control, o) \in Nat /\ Count(control', o) \in Nat
      /\ \A o : o # "restoreDepth" => Count(control', o) = Count(control, o)
      /\ Count(control, "restoreDepth") = Count(control', "restoreDepth") + 1
      /\ Granted(control') = Granted(control)
  BY <1>1, GuardEnds DEF RestoreDepth, GuardOps
<1>3. PICK n \in Nat : n = Frames(control') /\ Frames(control) = n + 1
  BY <1>2 DEF Frames
<1>4. activeDepth' = DepthBelow(n)
  BY <1>2, <1>3 DEF RestoreDepth, Fits
<1>5. n > 0 => ~TooDeep(n - 1)
  <2>1. limits.depth \in Nat /\ NestingCeiling \in Nat
    BY LimitsAssumption, CeilingAssumption DEF StackInv, Settings, limits
  <2>2. ~TooDeep(n)
    <3>1. ~TooDeep(n + 1 - 1)
      BY <1>3 DEF StackInv, DepthFits
    <3> QED BY <3>1
  <2> QED BY <2>1, <2>2 DEF TooDeep
<1>6. DepthFits'
  BY <1>1, <1>3, <1>4, <1>5 DEF DepthFits, TooDeep, limits
<1>7. ValuesFit'
  BY <1>1, ValuesKept DEF sinks
<1>8. IndentationFits' /\ StackFits' /\ BuffersFit' /\ ContextsFit' /\ config' \in Settings
  <2>1. IndentationFits'
    BY <1>1, <1>2 DEF StackInv, IndentationFits
  <2>2. StackFits'
    BY <1>1, <1>2 DEF StackInv, StackFits
  <2>3. BuffersFit'
    BY <1>1, <1>2 DEF StackInv, BuffersFit, sinks, Temporaries
  <2>4. ContextsFit'
    BY <1>1, <1>2 DEF StackInv, ContextsFit
  <2> QED BY <1>1, <2>1, <2>2, <2>3, <2>4 DEF StackInv
<1> QED BY <1>2, <1>6, <1>7, <1>8 DEF StackInv

\* The context guard pops what renderWithContext pushed.
LEMMA StackInvPopContext ==
    ASSUME StackInv, PopContext PROVE StackInv'
<1>1. UNCHANGED <<config, rendering, indentation, activeDepth, sinks, callbackDepth, contexts, scopes, returned, rendered>>
  BY DEF PopContext, settings, callbacks
<1>2. /\ ControlFits' /\ rendering /\ rendering'
      /\ \A o : Count(control, o) \in Nat /\ Count(control', o) \in Nat
      /\ \A o : o # "popContext" => Count(control', o) = Count(control, o)
      /\ Count(control, "popContext") = Count(control', "popContext") + 1
      /\ Granted(control') = Granted(control)
  BY <1>1, GuardEnds DEF PopContext, GuardOps
<1>3. PICK k \in Nat : k = Count(control', "popContext")
  BY <1>2
<1>4. IsSeq(stack) /\ Len(stack) = k + 2
  BY <1>2, <1>3 DEF StackInv, StackFits
<1>5. stack # <<>>
  BY <1>4
<1>6. PICK f : f = Front(stack) /\ stack' = f
  BY DEF PopContext
<1>7. IsSeq(f) /\ Len(f) = Len(stack) - 1 /\ \A i \in DOMAIN f : i \in DOMAIN stack /\ f[i] = stack[i]
  BY <1>4, <1>5, <1>6, Fronts
<1>8. StackFits'
  BY <1>2, <1>3, <1>4, <1>6, <1>7 DEF StackFits
<1>9. ValuesFit'
  BY <1>1, <1>6, <1>7 DEF StackInv, ValuesFit, sinks
<1>10. IndentationFits' /\ DepthFits' /\ BuffersFit' /\ ContextsFit' /\ config' \in Settings
  <2>1. IndentationFits'
    BY <1>1, <1>2 DEF StackInv, IndentationFits
  <2>2. DepthFits'
    BY <1>1, <1>2 DEF StackInv, DepthFits, Frames, TooDeep, limits
  <2>3. BuffersFit'
    BY <1>1, <1>2 DEF StackInv, BuffersFit, sinks, Temporaries
  <2>4. ContextsFit'
    BY <1>1, <1>2 DEF StackInv, ContextsFit
  <2> QED BY <1>1, <2>1, <2>2, <2>3, <2>4 DEF StackInv
<1> QED BY <1>2, <1>8, <1>9, <1>10 DEF StackInv

\* The indentation guard pops the frame its caller pushed.
LEMMA StackInvPopIndentation ==
    ASSUME StackInv, PopIndentation PROVE StackInv'
<1>1. UNCHANGED <<config, rendering, stack, activeDepth, sinks, callbackDepth, contexts, scopes, returned, rendered>>
  BY DEF PopIndentation, settings, callbacks
<1>2. /\ ControlFits' /\ rendering /\ rendering'
      /\ \A o : Count(control, o) \in Nat /\ Count(control', o) \in Nat
      /\ \A o : o # "popIndentation" => Count(control', o) = Count(control, o)
      /\ Count(control, "popIndentation") = Count(control', "popIndentation") + 1
      /\ Granted(control') = Granted(control)
  BY <1>1, GuardEnds DEF PopIndentation, GuardOps
<1>3. PICK k \in Nat : k = Count(control', "popIndentation")
  BY <1>2
<1>4. IsSeq(indentation) /\ Len(indentation) = k + 1
  BY <1>2, <1>3 DEF StackInv, IndentationFits
<1>5. indentation # <<>>
  BY <1>4
<1>6. PICK f : f = Front(indentation) /\ indentation' = f
  BY DEF PopIndentation
<1>7. IsSeq(f) /\ Len(f) = Len(indentation) - 1 /\ \A i \in DOMAIN f : i \in DOMAIN indentation /\ f[i] = indentation[i]
  BY <1>4, <1>5, <1>6, Fronts
<1>8. IndentationFits'
  BY <1>2, <1>3, <1>4, <1>6, <1>7 DEF IndentationFits
<1>9. ValuesFit'
  BY <1>1, <1>6, <1>7 DEF StackInv, ValuesFit, sinks
<1>10. StackFits' /\ DepthFits' /\ BuffersFit' /\ ContextsFit' /\ config' \in Settings
  <2>1. StackFits'
    BY <1>1, <1>2 DEF StackInv, StackFits
  <2>2. DepthFits'
    BY <1>1, <1>2 DEF StackInv, DepthFits, Frames, TooDeep, limits
  <2>3. BuffersFit'
    BY <1>1, <1>2 DEF StackInv, BuffersFit, sinks, Temporaries
  <2>4. ContextsFit'
    BY <1>1, <1>2 DEF StackInv, ContextsFit
  <2> QED BY <1>1, <2>1, <2>2, <2>3, <2>4 DEF StackInv
<1> QED BY <1>2, <1>8, <1>9, <1>10 DEF StackInv

\* The redirection guard restores the buffer that output pointed to.
LEMMA StackInvRestoreOutput ==
    ASSUME StackInv, RestoreOutput PROVE StackInv'
<1>1. UNCHANGED <<config, rendering, cursors, buffers, callbackDepth, contexts, scopes, returned, rendered>>
  BY DEF RestoreOutput, settings, callbacks
<1>2. /\ Head(control).op = "restoreOutput" /\ Fits(Head(control), control') /\ ControlFits' /\ rendering /\ rendering'
      /\ \A o : Count(control, o) \in Nat /\ Count(control', o) \in Nat
      /\ \A o : o # "restoreOutput" => Count(control', o) = Count(control, o)
      /\ Count(control, "restoreOutput") = Count(control', "restoreOutput") + 1
      /\ Granted(control') = Granted(control)
  BY <1>1, GuardEnds DEF RestoreOutput, GuardOps
<1>3. output' = 1 + Count(control', "restoreOutput")
  BY <1>2 DEF Fits, RestoreOutput
<1>4. BuffersFit'
  BY <1>1, <1>2, <1>3, SMTT(30) DEF StackInv, BuffersFit, Temporaries
<1>5. ValuesFit'
  BY <1>1, ValuesKept DEF cursors
<1>6. IndentationFits' /\ StackFits' /\ DepthFits' /\ ContextsFit' /\ config' \in Settings
  <2>1. IndentationFits'
    BY <1>1, <1>2 DEF StackInv, IndentationFits, cursors
  <2>2. StackFits'
    BY <1>1, <1>2 DEF StackInv, StackFits, cursors
  <2>3. DepthFits'
    BY <1>1, <1>2 DEF StackInv, DepthFits, Frames, TooDeep, limits, cursors
  <2>4. ContextsFit'
    BY <1>1, <1>2 DEF StackInv, ContextsFit
  <2> QED BY <1>1, <2>1, <2>2, <2>3, <2>4 DEF StackInv
<1> QED BY <1>2, <1>4, <1>5, <1>6 DEF StackInv

\* A temporary goes with its guard.
LEMMA BufferDropped ==
    ASSUME StackInv, NEW op \in {"dropBuffer", "endHelper"}, Guarding(op), Unwound, buffers' = Front(buffers),
           UNCHANGED <<config, rendering, cursors, output, callbackDepth, contexts, scopes, returned>>,
           rendered' \in {rendered, Last(buffers)}
    PROVE  StackInv'
<1>1. op \in GuardOps \ {"endRoot"} /\ op \notin {"endCallback", "popContext", "popIndentation", "restoreOutput", "restoreDepth", "leaveScope"}
  BY DEF GuardOps
<1>2. /\ ControlFits' /\ rendering /\ rendering'
      /\ \A o : Count(control, o) \in Nat /\ Count(control', o) \in Nat
      /\ \A o : o # op => Count(control', o) = Count(control, o)
      /\ Count(control, op) = Count(control', op) + 1
      /\ Granted(control') = Granted(control)
  BY <1>1, GuardEnds
<1>3. PICK k \in Nat : k = Temporaries(control') /\ Temporaries(control) = k + 1
  <2>1. PICK m \in Nat, n \in Nat : m = Count(control', "dropBuffer") /\ n = Count(control', "endHelper")
    BY <1>2
  <2>2. CASE op = "dropBuffer"
    BY <1>2, <2>1, <2>2 DEF Temporaries
  <2>3. CASE op = "endHelper"
    BY <1>2, <2>1, <2>3 DEF Temporaries
  <2> QED BY <2>2, <2>3
<1>4. IsSeq(buffers) /\ Len(buffers) = k + 2 /\ output \in Nat /\ output = 1 + Count(control, "restoreOutput")
  BY <1>2, <1>3 DEF StackInv, BuffersFit
<1>5. buffers # <<>>
  BY <1>4
<1>6. PICK f : f = Front(buffers) /\ buffers' = f
  OBVIOUS
<1>7. IsSeq(f) /\ Len(f) = Len(buffers) - 1 /\ \A i \in DOMAIN f : i \in DOMAIN buffers /\ f[i] = buffers[i]
  BY <1>4, <1>5, <1>6, Fronts
<1>8. BuffersFit'
  BY <1>1, <1>2, <1>3, <1>4, <1>6, <1>7, SMTT(30) DEF BuffersFit
<1>9. ValuesFit'
  <2>1. IsSeq(Last(buffers))
    <3>1. Last(buffers) = buffers[Len(buffers)]
      BY DEF Last
    <3>2. Len(buffers) \in DOMAIN buffers
      BY <1>4 DEF IsSeq
    <3> QED BY <3>1, <3>2 DEF StackInv, ValuesFit
  <2>2. IsSeq(rendered')
    <3>1. IsSeq(rendered)
      BY DEF StackInv, ValuesFit
    <3> QED BY <2>1, <3>1
  <2> QED BY <1>6, <1>7, <2>2 DEF StackInv, ValuesFit, cursors
<1>10. IndentationFits' /\ StackFits' /\ DepthFits' /\ ContextsFit' /\ config' \in Settings
  <2>1. IndentationFits'
    BY <1>1, <1>2 DEF StackInv, IndentationFits, cursors
  <2>2. StackFits'
    BY <1>1, <1>2 DEF StackInv, StackFits, cursors
  <2>3. DepthFits'
    BY <1>1, <1>2 DEF StackInv, DepthFits, Frames, TooDeep, limits, cursors
  <2>4. ContextsFit'
    BY <1>1, <1>2 DEF StackInv, ContextsFit
  <2> QED BY <2>1, <2>2, <2>3, <2>4 DEF StackInv
<1> QED BY <1>2, <1>8, <1>9, <1>10 DEF StackInv

\* The evaluation's string goes with its scope.
LEMMA StackInvDropBuffer ==
    ASSUME StackInv, DropBuffer \/ EndHelper PROVE StackInv'
<1>1. CASE DropBuffer
  BY <1>1, BufferDropped DEF DropBuffer, settings, callbacks
<1>2. CASE EndHelper
  BY <1>2, BufferDropped DEF EndHelper, settings
<1> QED BY <1>1, <1>2

\* The callback guard revokes the context it belongs to.
LEMMA StackInvEndCallback ==
    ASSUME StackInv, EndCallback PROVE StackInv'
<1> DEFINE id == Head(control).context
<1>1. UNCHANGED <<config, rendering, cursors, sinks, scopes, returned, rendered>>
  BY DEF EndCallback, settings
<1>2. /\ Head(control).op = "endCallback" /\ Fits(Head(control), control') /\ ControlFits' /\ rendering /\ rendering'
      /\ \A o : Count(control, o) \in Nat /\ Count(control', o) \in Nat
      /\ \A o : o # "endCallback" => Count(control', o) = Count(control, o)
      /\ Count(control, "endCallback") = Count(control', "endCallback") + 1
      /\ Granted(control) = Granted(control') \cup {id}
  BY <1>1, GuardEnds DEF EndCallback, GuardOps
<1>3. id \in Nat /\ \A c \in Granted(control') : c < id
  BY <1>2 DEF Fits
<1>4. PICK i \in Nat : i = id
  BY <1>3
<1>5. i \notin Granted(control')
  BY <1>3, <1>4
<1>6. PICK cs : cs = contexts /\ cs \in Seq(BOOLEAN) /\ {x \in DOMAIN cs : cs[x]} = Granted(control)
  BY DEF StackInv, ContextsFit
<1>7. PICK e : e = [cs EXCEPT ![i] = FALSE] /\ contexts' = e
  BY <1>4, <1>6 DEF EndCallback
<1>8. e \in Seq(BOOLEAN) /\ DOMAIN e = DOMAIN cs /\ \A x \in DOMAIN cs : e[x] = IF x = i THEN FALSE ELSE cs[x]
  <2>1. PICK n \in Nat : cs \in [1..n -> BOOLEAN]
    BY <1>6
  <2>2. e \in [1..n -> BOOLEAN]
    BY <1>7, <2>1
  <2> QED BY <1>7, <2>1, <2>2
<1>9. {x \in DOMAIN e : e[x]} = Granted(control')
  <2>1. ASSUME NEW x \in DOMAIN e, e[x] PROVE x \in Granted(control')
    BY <1>2, <1>4, <1>6, <1>8, <2>1
  <2>2. ASSUME NEW x \in Granted(control') PROVE x \in DOMAIN e /\ e[x]
    BY <1>2, <1>5, <1>6, <1>8, <2>2
  <2> QED BY <2>1, <2>2
<1>10. ContextsFit'
  <2>1. callbackDepth = Count(control, "endCallback") /\ callbackDepth' = callbackDepth - 1
    BY DEF StackInv, ContextsFit, EndCallback
  <2>2. callbackDepth' = Count(control', "endCallback")
    BY <1>2, <2>1
  <2>3. scopes' = Count(control', "leaveScope")
    BY <1>1, <1>2 DEF StackInv, ContextsFit
  <2> QED BY <1>7, <1>8, <1>9, <2>2, <2>3 DEF ContextsFit
<1>11. ValuesFit'
  BY <1>1, ValuesKept DEF cursors, sinks
<1>12. IndentationFits' /\ StackFits' /\ DepthFits' /\ BuffersFit' /\ config' \in Settings
  <2>1. IndentationFits'
    BY <1>1, <1>2 DEF StackInv, IndentationFits, cursors
  <2>2. StackFits'
    BY <1>1, <1>2 DEF StackInv, StackFits, cursors
  <2>3. DepthFits'
    BY <1>1, <1>2 DEF StackInv, DepthFits, Frames, TooDeep, limits, cursors
  <2>4. BuffersFit'
    BY <1>1, <1>2 DEF StackInv, BuffersFit, sinks, Temporaries
  <2> QED BY <1>1, <2>1, <2>2, <2>3, <2>4 DEF StackInv
<1> QED BY <1>2, <1>10, <1>11, <1>12 DEF StackInv

\* The engine leaves the registry.
LEMMA StackInvLeaveScope ==
    ASSUME StackInv, LeaveScope PROVE StackInv'
<1>1. UNCHANGED <<config, rendering, cursors, sinks, callbackDepth, contexts, returned, rendered>>
  BY DEF LeaveScope, settings
<1>2. /\ ControlFits' /\ rendering /\ rendering'
      /\ \A o : Count(control, o) \in Nat /\ Count(control', o) \in Nat
      /\ \A o : o # "leaveScope" => Count(control', o) = Count(control, o)
      /\ Count(control, "leaveScope") = Count(control', "leaveScope") + 1
      /\ Granted(control') = Granted(control)
  BY <1>1, GuardEnds DEF LeaveScope, GuardOps
<1>3. ContextsFit'
  <2>1. scopes = Count(control, "leaveScope") /\ scopes' = scopes - 1
    BY DEF StackInv, ContextsFit, LeaveScope
  <2>2. scopes' = Count(control', "leaveScope")
    BY <1>2, <2>1
  <2> QED BY <1>1, <1>2, <2>2 DEF StackInv, ContextsFit
<1>4. ValuesFit'
  BY <1>1, ValuesKept DEF cursors, sinks
<1>5. IndentationFits' /\ StackFits' /\ DepthFits' /\ BuffersFit' /\ config' \in Settings
  <2>1. IndentationFits'
    BY <1>1, <1>2 DEF StackInv, IndentationFits, cursors
  <2>2. StackFits'
    BY <1>1, <1>2 DEF StackInv, StackFits, cursors
  <2>3. DepthFits'
    BY <1>1, <1>2 DEF StackInv, DepthFits, Frames, TooDeep, limits, cursors
  <2>4. BuffersFit'
    BY <1>1, <1>2 DEF StackInv, BuffersFit, sinks, Temporaries
  <2> QED BY <1>1, <2>1, <2>2, <2>3, <2>4 DEF StackInv
<1> QED BY <1>2, <1>3, <1>4, <1>5 DEF StackInv

\* renderRoot's guard is the outermost: nothing is left to account for.
LEMMA StackInvEndRoot ==
    ASSUME StackInv, EndRoot PROVE StackInv'
<1>1. control # <<>> /\ Head(control).op = "endRoot" /\ control' = Tail(control) /\ throwing' = FALSE /\ rendering' = FALSE
      /\ stack' = <<>> /\ indentation' = <<>> /\ activeDepth' = 0 /\ callbackDepth' = 0
      /\ UNCHANGED <<config, sinks, contexts, scopes, returned, rendered>>
  BY DEF EndRoot, Guarding
<1>2. /\ Tail(control) = <<>> /\ rendering
      /\ \A o : o # "endRoot" => Count(control, o) = Count(Tail(control), o)
      /\ Granted(control) = Granted(Tail(control))
  <2>1. /\ Fits(Head(control), Tail(control)) /\ rendering
        /\ \A o : Count(control, o) \in Nat /\ Count(Tail(control), o) \in Nat
        /\ \A o : Count(control, o) = Count(Tail(control), o) + (IF Head(control).op = o THEN 1 ELSE 0)
        /\ Granted(control) = Granted(Tail(control)) \cup (IF Head(control).op = "endCallback" THEN {Head(control).context} ELSE {})
    BY <1>1, RunningCall
  <2>2. Tail(control) = <<>>
    BY <1>1, <2>1 DEF Fits
  <2>3. ASSUME NEW o, o # "endRoot" PROVE Count(control, o) = Count(Tail(control), o)
    <3>1. PICK m \in Nat : m = Count(Tail(control), o)
      BY <2>1
    <3>2. Count(control, o) = m + (IF Head(control).op = o THEN 1 ELSE 0)
      BY <2>1, <3>1
    <3> QED BY <1>1, <2>3, <3>1, <3>2
  <2> QED BY <1>1, <2>1, <2>2, <2>3
<1>3. control' = <<>> /\ Granted(control') = {} /\ Granted(control) = {}
      /\ (\A o : Count(control', o) = 0) /\ (\A o : o # "endRoot" => Count(control, o) = 0)
  <2>1. PICK t : t = Tail(control) /\ t = <<>> /\ control' = t
    BY <1>1, <1>2
  <2>2. (\A o : Count(t, o) = 0) /\ Granted(t) = {}
    BY <2>1, TalliesEmpty
  <2>3. \A o : o # "endRoot" => Count(control, o) = 0
    BY <1>2, <2>1, <2>2
  <2>4. Granted(control) = {}
    BY <1>2, <2>1, <2>2
  <2> QED BY <2>1, <2>2, <2>3, <2>4
<1>4. ControlFits'
  BY <1>1, <1>3, WellNestedEmpty DEF ControlFits
<1>5. PICK e : e = <<>> /\ IsSeq(e) /\ Len(e) = 0 /\ DOMAIN e = {}
  <2>1. PICK e : e = <<>>
    OBVIOUS
  <2>2. e \in Seq({}) /\ Len(e) = 0 /\ DOMAIN e = {}
    BY <2>1
  <2> QED BY <2>1, <2>2 DEF IsSeq
<1>6. IndentationFits' /\ StackFits'
  BY <1>1, <1>3, <1>5 DEF IndentationFits, StackFits
<1>7. BuffersFit'
  <2>1. Temporaries(control) = 0
    BY <1>3 DEF Temporaries
  <2> QED BY <1>1, <1>2, <1>3, <2>1 DEF StackInv, BuffersFit, sinks
<1>8. DepthFits'
  BY <1>1, <1>3 DEF DepthFits, Frames, DepthBelow
<1>9. ContextsFit'
  BY <1>1, <1>3 DEF StackInv, ContextsFit
<1>10. ValuesFit'
  BY <1>1, <1>5 DEF StackInv, ValuesFit, sinks
<1> QED BY <1>1, <1>4, <1>6, <1>7, <1>8, <1>9, <1>10 DEF StackInv

-----------------------------------------------------------------------------
(* The application, and every step *)

\* What the invariant says of a renderer at rest.
LEMMA AtRest ==
    ASSUME StackInv, ~rendering
    PROVE  /\ control = <<>> /\ ~throwing /\ Granted(control) = {} /\ (\A op : Count(control, op) = 0)
           /\ stack = <<>> /\ indentation = <<>> /\ Len(buffers) = output /\ output \in {0, 1}
<1>1. control = <<>> /\ ~throwing
  BY DEF StackInv, ControlFits
<1>2. Granted(control) = {} /\ (\A op : Count(control, op) = 0)
  BY <1>1, TalliesEmpty
<1>3. IsSeq(indentation) /\ Len(indentation) = 0
  BY <1>2 DEF StackInv, IndentationFits
<1>4. indentation = <<>>
  BY <1>3 DEF IsSeq
<1>5. stack = <<>> /\ Len(buffers) = output /\ output \in {0, 1}
  BY DEF StackInv, StackFits, BuffersFit
<1> QED BY <1>1, <1>2, <1>4, <1>5

\* The empty tuple is a sequence.
LEMMA EmptyTuple == \E e : e = <<>> /\ IsSeq(e) /\ Len(e) = 0 /\ DOMAIN e = {}
<1>1. PICK e : e = <<>>
  OBVIOUS
<1>2. e \in Seq({}) /\ Len(e) = 0 /\ DOMAIN e = {}
  BY <1>1
<1> QED BY <1>1, <1>2 DEF IsSeq

\* A step of the application that leaves the renderer at rest.
LEMMA RestStep ==
    ASSUME StackInv, ~rendering, ~rendering', UNCHANGED <<contexts, scopes, returned, rendered, control, throwing>>,
           config' \in Settings,
           UNCHANGED cursors \/ (stack' = <<>> /\ indentation' = <<>> /\ activeDepth' = 0),
           callbackDepth' \in {0, callbackDepth},
           \/ UNCHANGED sinks
           \/ buffers' = <<>> /\ output' = 0
           \/ \E s : IsSeq(s) /\ buffers' = <<s>> /\ output' = 1
    PROVE  StackInv'
<1>1. /\ control = <<>> /\ ~throwing /\ Granted(control) = {} /\ (\A op : Count(control, op) = 0)
      /\ stack = <<>> /\ indentation = <<>>
  BY AtRest
<1>2. PICK e : e = <<>> /\ IsSeq(e) /\ Len(e) = 0 /\ DOMAIN e = {}
  BY EmptyTuple
<1>3. callbackDepth = 0 /\ activeDepth = 0
  BY <1>1 DEF StackInv, ContextsFit, DepthFits, Frames, DepthBelow
<1>4. /\ control' = <<>> /\ ~throwing' /\ Granted(control') = {} /\ (\A op : Count(control', op) = 0)
      /\ stack' = e /\ indentation' = e /\ activeDepth' = 0 /\ callbackDepth' = 0
  BY <1>1, <1>2, <1>3 DEF cursors
<1>5. IsSeq(buffers') /\ (\A i \in DOMAIN buffers' : IsSeq(buffers'[i])) /\ Len(buffers') = output' /\ output' \in {0, 1}
  <2>1. CASE UNCHANGED sinks
    BY <2>1, AtRest DEF StackInv, BuffersFit, ValuesFit, sinks
  <2>2. CASE buffers' = <<>> /\ output' = 0
    BY <1>2, <2>2
  <2>3. CASE \E s : IsSeq(s) /\ buffers' = <<s>> /\ output' = 1
    <3>1. PICK s : IsSeq(s) /\ buffers' = <<s>> /\ output' = 1
      BY <2>3
    <3>2. <<s>> \in Seq({s}) /\ Len(<<s>>) = 1 /\ DOMAIN <<s>> = {1} /\ <<s>>[1] = s
      OBVIOUS
    <3>3. IsSeq(<<s>>)
      BY <3>2 DEF IsSeq
    <3> QED BY <3>1, <3>2, <3>3
  <2> QED BY <2>1, <2>2, <2>3
<1>6. ControlFits'
  BY <1>4, WellNestedEmpty DEF ControlFits
<1>7. IndentationFits' /\ StackFits' /\ BuffersFit'
  BY <1>2, <1>4, <1>5 DEF IndentationFits, StackFits, BuffersFit
<1>8. DepthFits'
  BY <1>4 DEF DepthFits, Frames, DepthBelow
<1>9. ContextsFit'
  BY <1>1, <1>4 DEF StackInv, ContextsFit
<1>10. ValuesFit'
  BY <1>2, <1>4, <1>5 DEF StackInv, ValuesFit
<1> QED BY <1>6, <1>7, <1>8, <1>9, <1>10 DEF StackInv

\* render() puts the guard of renderRoot and the root's renderNode call on an empty stack.
LEMMA StackInvStartRender ==
    ASSUME StackInv, StartRender PROVE StackInv'
<1>1. /\ ~rendering /\ config.node # Null /\ config.data # Null /\ output # 0 /\ rendering' = TRUE
      /\ UNCHANGED <<config, sinks, contexts, scopes, returned, rendered, throwing>>
      /\ stack' = <<config.data>> /\ indentation' = <<>> /\ activeDepth' = 0 /\ callbackDepth' = 0
  BY DEF StartRender, Ready, Unlocked
<1>2. /\ control = <<>> /\ ~throwing /\ Granted(control) = {} /\ (\A op : Count(control, op) = 0)
      /\ Len(buffers) = output /\ output \in {0, 1}
  BY <1>1, AtRest
<1>3. PICK e : e = <<>> /\ IsSeq(e) /\ Len(e) = 0 /\ DOMAIN e = {}
  BY EmptyTuple
<1>4. config.node \in Roots /\ config.node \in Nodes /\ config.data \in Values
  <2>1. config.node \in Roots /\ config.data \in Inputs
    BY <1>1 DEF StackInv, Settings
  <2> QED BY <2>1, ApplicationAssumption
<1>5. PICK g : g = Op("endRoot")
  OBVIOUS
<1>6. g.op = "endRoot"
  BY <1>5 DEF Op
<1>7. Fits(g, control)
  <2>1. ~HeadIn(control, {"evaluated", "endHelper"}) /\ ~HeadIn(control, {"dropBuffer"}) /\ ~HeadIn(control, {"leaveScope"})
        /\ ~HeadIn(control, UserOps)
    BY <1>2 DEF HeadIn
  <2>2. Typed(g)
    BY <1>6 DEF Typed, Inner
  <2> QED BY <1>2, <1>6, <2>1, <2>2 DEF Fits, Inner, UserOps
<1>8. WellNested(control)
  BY DEF StackInv, ControlFits
<1>9. PICK r : Pushed(r, g, control)
  BY <1>7, <1>8, OneMore
<1>10. WellNested(r) /\ IsSeq(r) /\ r # <<>> /\ Head(r).op = "endRoot" /\ Granted(r) = {}
       /\ \A op \in GuardOps : op # "endRoot" => Count(r, op) = 0
  BY <1>2, <1>6, <1>9, PushedTallies
<1>11. Frames(r) = 0
  BY <1>10 DEF Frames, GuardOps
<1>12. PICK a : a = NodeCall(config.node, 0, <<>>, FALSE)
  OBVIOUS
<1>13. PICK s : s = <<a>> \o r /\ control' = s
  <2>1. control' = <<a, g>> \o control
    BY <1>5, <1>12 DEF StartRender
  <2>2. <<a, g>> \o control = <<a>> \o (<<g>> \o control)
    BY <1>8, WellNestedPop, TwoCalls
  <2>3. r = <<g>> \o control
    BY <1>9 DEF Pushed
  <2> QED BY <2>1, <2>2, <2>3
<1>14. WellNested(s) /\ SameTallies(s, r) /\ s # <<>>
  <2>1. Plain(a, 0)
    BY <1>4, <1>12, PlainCalls, EmptyIndent
  <2>2. Open(r)
    BY <1>10 DEF Open, HeadIn, Special, UserOps
  <2> QED BY <1>10, <1>11, <1>13, <2>1, <2>2, PlainPush DEF Open
<1>15. /\ Granted(control') = {}
       /\ Frames(control') = 0 /\ Temporaries(control') = 0 /\ Count(control', "popContext") = 0
       /\ Count(control', "popIndentation") = 0 /\ Count(control', "restoreOutput") = 0
       /\ Count(control', "endCallback") = 0 /\ Count(control', "leaveScope") = 0
  <2>1. \A op \in GuardOps : op # "endRoot" => Count(control', op) = 0
    BY <1>10, <1>13, <1>14 DEF SameTallies
  <2>2. \A op \in {"restoreDepth", "popContext", "popIndentation", "restoreOutput", "dropBuffer", "endHelper",
                   "endCallback", "leaveScope"} : op \in GuardOps /\ op # "endRoot"
    BY DEF GuardOps
  <2>3. \A op \in {"restoreDepth", "popContext", "popIndentation", "restoreOutput", "dropBuffer", "endHelper",
                   "endCallback", "leaveScope"} : Count(control', op) = 0
    BY <2>1, <2>2
  <2>4. Granted(control') = {}
    BY <1>10, <1>13, <1>14 DEF SameTallies
  <2> QED BY <2>3, <2>4 DEF Frames, Temporaries
<1>16. ControlFits'
  BY <1>1, <1>2, <1>13, <1>14 DEF ControlFits
<1>17. PICK d, f : d = config.data /\ f = <<d>> /\ stack' = f
  BY <1>1
<1>18. f \in Seq({d}) /\ Len(f) = 1 /\ DOMAIN f = {1} /\ f[1] = d
  BY <1>17
<1>19. IsSeq(f)
  BY <1>18 DEF IsSeq
<1>20. StackFits'
  BY <1>1, <1>15, <1>17, <1>18, <1>19 DEF StackFits
<1>21. IndentationFits'
  BY <1>1, <1>3, <1>15 DEF IndentationFits
<1>22. BuffersFit'
  BY <1>1, <1>2, <1>15 DEF StackInv, BuffersFit, sinks
<1>23. DepthFits'
  BY <1>1, <1>15 DEF DepthFits, DepthBelow
<1>24. ContextsFit'
  <2>1. {c \in DOMAIN contexts : contexts[c]} = {} /\ scopes = 0 /\ contexts \in Seq(BOOLEAN)
    BY <1>2 DEF StackInv, ContextsFit
  <2> QED BY <1>1, <1>15, <2>1 DEF ContextsFit
<1>25. ValuesFit'
  <2>1. \A i \in DOMAIN stack' : stack'[i] \in VN
    BY <1>4, <1>17, <1>18 DEF VN
  <2>2. \A i \in DOMAIN indentation' : Frame(indentation'[i])
    BY <1>1, <1>3
  <2> QED BY <1>1, <1>4, <2>1, <2>2 DEF StackInv, ValuesFit, sinks
<1> QED BY <1>1, <1>16, <1>20, <1>21, <1>22, <1>23, <1>24, <1>25 DEF StackInv

\* What an application does between renders.
LEMMA StackInvApplication ==
    ASSUME StackInv, Application PROVE StackInv'
<1>1. ASSUME NEW s \in Outputs PROVE IsSeq(s) /\ Len(<<s>>) = 1
  <2>1. IsSeq(s)
    BY ApplicationAssumption, SequenceIsSeq
  <2> QED BY <2>1
<1>2. CASE \E n \in Roots, d \in Inputs, p \in Externals, s \in Outputs, l \in LimitChoices : InitRenderer(n, d, p, <<s>>, l)
  <2>1. PICK n \in Roots, d \in Inputs, p \in Externals, s \in Outputs, l \in LimitChoices : InitRenderer(n, d, p, <<s>>, l)
    BY <1>2
  <2>2. config' \in Settings
    BY <2>1 DEF InitRenderer, StackInv, Settings
  <2>3. buffers' = <<s>> /\ output' = 1
    BY <1>1, <2>1 DEF InitRenderer
  <2> QED BY <1>1, <2>1, <2>2, <2>3, RestStep DEF InitRenderer, Unlocked, machine
<1>3. CASE Clear
  <2>1. config' \in Settings
    BY <1>3 DEF Clear, StackInv, Settings
  <2> QED BY <1>3, <2>1, RestStep DEF Clear, Unlocked, machine
<1>4. CASE StartRender
  BY <1>4, StackInvStartRender
<1>5. CASE RejectRender
  <2>1. ~rendering
    BY <1>5 DEF RejectRender, StackInv, ControlFits
  <2>2. config' \in Settings
    BY <1>5 DEF RejectRender, StackInv
  <2> QED BY <1>5, <2>1, <2>2, RestStep DEF RejectRender, callbacks, machine
<1>6. ASSUME NEW field \in {"node", "data", "partials", "resolver", "mode"}, NEW value, Configure(field, value), config' \in Settings PROVE StackInv'
  BY <1>6, RestStep DEF Configure, Unlocked, callbacks, machine
<1>7. CASE \E n \in Roots : Configure("node", n)
  <2>1. PICK n \in Roots : Configure("node", n)
    BY <1>7
  <2>2. config' \in Settings
    BY <2>1 DEF Configure, StackInv, Settings
  <2> QED BY <1>6, <2>1, <2>2
<1>8. CASE \E d \in Inputs : Configure("data", d)
  <2>1. PICK d \in Inputs : Configure("data", d)
    BY <1>8
  <2>2. config' \in Settings
    BY <2>1 DEF Configure, StackInv, Settings
  <2> QED BY <1>6, <2>1, <2>2
<1>9. CASE \E m \in Modes : Configure("mode", m)
  <2>1. PICK m \in Modes : Configure("mode", m)
    BY <1>9
  <2>2. config' \in Settings
    BY <2>1 DEF Configure, StackInv, Settings
  <2> QED BY <1>6, <2>1, <2>2
<1>11. CASE \E p \in Externals : Configure("partials", p)
  <2>1. PICK p \in Externals : Configure("partials", p)
    BY <1>11
  <2>2. config' \in Settings
    BY <2>1 DEF Configure, StackInv, Settings
  <2> QED BY <1>6, <2>1, <2>2
<1>12. CASE \E r \in Resolvers : Configure("resolver", r)
  <2>1. PICK r \in Resolvers : Configure("resolver", r)
    BY <1>12
  <2>2. config' \in Settings
    BY <2>1 DEF Configure, StackInv, Settings
  <2> QED BY <1>6, <2>1, <2>2
<1>10. CASE \E s \in Outputs : SetOutput(<<s>>)
  <2>1. PICK s \in Outputs : SetOutput(<<s>>)
    BY <1>10
  <2>2. buffers' = <<s>> /\ output' = 1
    BY <1>1, <2>1 DEF SetOutput
  <2>3. config' \in Settings
    BY <2>1 DEF SetOutput, settings, StackInv
  <2> QED BY <1>1, <2>1, <2>2, <2>3, RestStep DEF SetOutput, Unlocked, settings, callbacks, machine
<1> QED BY <1>2, <1>3, <1>4, <1>5, <1>7, <1>8, <1>9, <1>10, <1>11, <1>12 DEF Application

\* Every step keeps the invariant.
LEMMA StackInvNext ==
    ASSUME StackInv, [Next]_vars PROVE StackInv'
<1>1. CASE Traverse
  BY <1>1, StackInvEnterNode, StackInvRenderChildren, StackInvPushContext, StackInvRenderPartial DEF Traverse
<1>2. CASE WriteOutput
  BY <1>2, StackInvBeginTemplateTag, StackInvAppendTemplateOutput, StackInvConsumeTemplateSource, StackInvAppends DEF WriteOutput
<1>3. CASE CallLambda
  BY <1>3, StackInvSectionText, StackInvRebuildChild, StackInvConsumeLambdaTemplate, StackInvInvokeSectionLambda,
     StackInvInvokeInterpolationLambda, StackInvConsumeResult DEF CallLambda
<1>4. CASE Guard
  BY <1>4, StackInvRestoreDepth, StackInvPopContext, StackInvPopIndentation, StackInvRestoreOutput, StackInvDropBuffer,
     StackInvEndCallback, StackInvLeaveScope, StackInvEndRoot DEF Guard
<1>5. CASE Discard
  BY <1>5, StackInvDiscard
<1>6. CASE Callback
  BY <1>6, StackInvReturnFromCallback, StackInvThrowAndCatch, StackInvHelpers DEF Callback
<1>7. CASE Application
  BY <1>7, StackInvApplication
<1>8. CASE UNCHANGED vars
  <2>1. control # <<>> \/ ~throwing'
    BY <1>8 DEF StackInv, ControlFits, vars, machine
  <2>2. UNCHANGED accounted /\ UNCHANGED control /\ SameLength(indentation', indentation) /\ SameLength(buffers', buffers) /\ ValuesFit'
    BY <1>8, SameLengthReflexive, ValuesKept DEF vars, accounted, settings, cursors, sinks, callbacks, machine
  <2> QED BY <2>1, <2>2, KeptInPlace
<1> QED BY <1>1, <1>2, <1>3, <1>4, <1>5, <1>6, <1>7, <1>8 DEF Next, Render

\* The pending guards account for the state in every state.
LEMMA StackInvAlways == Spec => []StackInv
<1>1. Init => StackInv
  BY StackInvInit
<1>2. StackInv /\ [Next]_vars => StackInv'
  BY StackInvNext
<1> QED BY <1>1, <1>2, PTL DEF Spec

-----------------------------------------------------------------------------
(* What the invariant yields *)

\* A LambdaRenderContext is usable exactly while the frame of its own callback
\* exists, whatever callbacks nest, throw or store: Renderer::_invokeSectionLambda's
\* guard revokes that context and no other, on every path out of it.
THEOREM CapabilitiesAlwaysMatchFrames == Spec => []CapabilitiesMatchFrames
<1>1. StackInv => CapabilitiesMatchFrames
  <2> SUFFICES ASSUME StackInv PROVE CapabilitiesMatchFrames
    OBVIOUS
  <2>1. /\ {c \in DOMAIN contexts : contexts[c]} = Granted(control)
        /\ callbackDepth = Count(control, "endCallback") /\ scopes = Count(control, "leaveScope")
    BY DEF StackInv, ContextsFit
  <2>2. WellNested(control) /\ IsSeq(control)
    BY WellNestedPop DEF StackInv, ControlFits
  <2>3. Count(control, "endCallback") \in Nat
    <3>1. CASE control = <<>>
      BY <3>1, TalliesEmpty
    <3>2. CASE control # <<>>
      BY <3>2, RunningCall
    <3> QED BY <3>1, <3>2
  <2>4. callbackDepth <= scopes
    BY <2>1, <2>2, <2>3, WellNestedIsBalanced DEF Balanced
  <2> QED BY <2>1, <2>4 DEF CapabilitiesMatchFrames, Granted
<1> QED BY <1>1, StackInvAlways, PTL

\* Every lookup context, indentation frame, redirection and temporary buffer has
\* exactly one pending guard, so neither a return nor an exception leaks one and
\* a renderer at rest holds none, however the render before it ended.
THEOREM GuardsAlwaysAccountForState == Spec => []GuardsAccountForState
<1>1. StackInv => GuardsAccountForState
  <2> SUFFICES ASSUME StackInv PROVE GuardsAccountForState
    OBVIOUS
  <2>1. ~rendering => control = <<>> /\ stack = <<>> /\ Len(buffers) = output
    BY AtRest
  <2>2. Len(indentation) = Count(control, "popIndentation")
    BY DEF StackInv, IndentationFits
  <2>3. rendering => Len(stack) = 1 + Count(control, "popContext")
    BY DEF StackInv, StackFits
  <2>4. rendering => Len(buffers) = 1 + Temporaries(control) /\ output = 1 + Count(control, "restoreOutput")
    BY DEF StackInv, BuffersFit
  <2> QED BY <2>1, <2>2, <2>3, <2>4 DEF GuardsAccountForState
<1> QED BY <1>1, StackInvAlways, PTL

\* The calls below any pending call are well nested too, and the call fits them.
LEMMA WellNestedBelow ==
    ASSUME NEW s, WellNested(s), NEW i \in DOMAIN s
    PROVE  Fits(s[i], SubSeq(s, i + 1, Len(s)))
<1>1. PICK S : s \in Seq(S)
  BY WellNestedPop DEF IsSeq
<1>2. PICK n \in Nat : n = Len(s) /\ DOMAIN s = 1..n
  BY <1>1
<1> DEFINE Q == {k \in Nat : k + 1 \in 1..n => WellNested(SubSeq(s, k + 1, n))}
<1>3. 0 \in Q
  <2>1. SubSeq(s, 1, n) = s /\ 0 + 1 = 1
    BY <1>1, <1>2, SubSeqFull
  <2>2. WellNested(SubSeq(s, 0 + 1, n))
    BY <2>1
  <2> QED BY <2>2
<1>4. ASSUME NEW k \in Nat, k + 1 \in 1..n, WellNested(SubSeq(s, k + 1, n))
      PROVE  /\ Fits(s[k + 1], SubSeq(s, k + 2, n))
             /\ WellNested(SubSeq(s, k + 2, n))
  <2>1. PICK m \in 1..n : m = k + 1
    BY <1>4
  <2>2. n \in m..n
    OBVIOUS
  <2>3. Head(SubSeq(s, m, n)) = s[m] /\ Tail(SubSeq(s, m, n)) = SubSeq(s, m + 1, n)
    BY <1>1, <1>2, <2>1, <2>2, HeadTailOfSubSeq
  <2>4. m + 1 = k + 2
    BY <2>1
  <2>5. PICK r : r = SubSeq(s, m, n)
    OBVIOUS
  <2>6. r # <<>>
    <3>1. \A j \in m..n : s[j] \in S
      BY <1>1, <1>2, <2>1
    <3>2. Len(r) = n - m + 1
      BY <2>1, <2>5, <3>1, SubSeqProperties
    <3>3. Len(r) # 0
      BY <2>1, <3>2
    <3> QED BY <3>3
  <2>7. WellNested(r)
    BY <1>4, <2>1, <2>5
  <2> QED BY <2>1, <2>3, <2>4, <2>5, <2>6, <2>7, WellNestedPop
<1>5. ASSUME NEW k \in Q PROVE k + 1 \in Q
  <2>1. k \in Nat /\ k + 1 \in Nat /\ k + 1 + 1 = k + 2
    OBVIOUS
  <2>2. ASSUME k + 2 \in 1..n PROVE WellNested(SubSeq(s, k + 2, n))
    <3>1. k + 1 \in 1..n
      BY <2>1, <2>2
    <3> QED BY <1>4, <2>1, <3>1
  <2> QED BY <2>1, <2>2
<1>6. Q \in SUBSET Nat
  OBVIOUS
<1> HIDE DEF Q
<1>7. Q = Nat
  BY <1>3, <1>5, <1>6, SetInduction
<1>8. PICK k \in Nat : k + 1 = i /\ k + 2 = i + 1
  <2>1. i - 1 \in Nat /\ (i - 1) + 1 = i /\ (i - 1) + 2 = i + 1
    BY <1>2
  <2> QED BY <2>1
<1>9. k \in Q /\ k + 1 \in 1..n
  BY <1>2, <1>7, <1>8
<1>10. WellNested(SubSeq(s, k + 1, n))
  BY <1>9 DEF Q
<1>11. Fits(s[k + 1], SubSeq(s, k + 2, n))
  BY <1>4, <1>9, <1>10
<1> QED BY <1>2, <1>8, <1>11

\* _activeDepth is the number of renderNode calls on the C++ stack less one, below
\* callbacks and after exceptions they caught too: renderForLambda, which starts
\* from it, cannot be used to recurse past the limit or the ceiling.
THEOREM DepthAlwaysCountsFrames == Spec => []DepthCountsFrames
<1>1. StackInv => DepthCountsFrames
  <2> SUFFICES ASSUME StackInv PROVE DepthCountsFrames
    OBVIOUS
  <2>1. ASSUME NEW i \in DOMAIN control, control[i].op = "restoreDepth"
        PROVE  control[i].depth = Count(CallersOf(i), "restoreDepth")
    <3>1. Fits(control[i], CallersOf(i))
      BY WellNestedBelow DEF StackInv, ControlFits, CallersOf
    <3> QED BY <2>1, <3>1 DEF Fits, Frames
  <2>2. /\ activeDepth = DepthBelow(Frames(control))
        /\ Frames(control) > 0 => ~TooDeep(Frames(control) - 1)
    BY DEF StackInv, DepthFits
  <2> QED BY <2>1, <2>2 DEF DepthCountsFrames, DepthBelow, Frames
<1> QED BY <1>1, StackInvAlways, PTL

-----------------------------------------------------------------------------
(* What a render does to its inputs and its counters *)

Counters == [output : Nat, visits : Nat, lambda : Nat]
Grows == spent'.output >= spent.output /\ spent'.visits >= spent.visits /\ spent'.lambda >= spent.lambda
Isolated == UNCHANGED <<config, renders>> /\ spent' \in Counters /\ Grows

\* A step that charges nothing refunds nothing.
LEMMA SpentAlone ==
    ASSUME spent \in Counters, UNCHANGED <<config, renders, spent>> PROVE Isolated
BY DEF Isolated, Counters, Grows

\* A charge is never negative.
LEMMA Charged ==
    ASSUME spent \in Counters, UNCHANGED <<config, renders>>, NEW n \in Nat, NEW m \in Nat,
           \/ spent' = [spent EXCEPT !.output = @ + n]
           \/ spent' = [spent EXCEPT !.visits = @ + n]
           \/ spent' = [spent EXCEPT !.lambda = @ + n]
           \/ spent' = [spent EXCEPT !.lambda = @ + n, !.visits = @ + m]
    PROVE  Isolated
<1>1. PICK s \in Counters : s = spent
  OBVIOUS
<1>2. PICK t : t = spent'
  OBVIOUS
<1>3. s.output \in Nat /\ s.visits \in Nat /\ s.lambda \in Nat
  BY DEF Counters
<1>4. t \in Counters /\ t.output >= s.output /\ t.visits >= s.visits /\ t.lambda >= s.lambda
  <2>1. CASE t = [s EXCEPT !.output = @ + n]
    BY <1>3, <2>1 DEF Counters
  <2>2. CASE t = [s EXCEPT !.visits = @ + n]
    BY <1>3, <2>2 DEF Counters
  <2>3. CASE t = [s EXCEPT !.lambda = @ + n]
    BY <1>3, <2>3 DEF Counters
  <2>4. CASE t = [s EXCEPT !.lambda = @ + n, !.visits = @ + m]
    <3>1. PICK u : u = [s EXCEPT !.lambda = @ + n]
      OBVIOUS
    <3>2. u \in Counters /\ u.output = s.output /\ u.visits = s.visits /\ u.lambda = s.lambda + n
      BY <1>3, <3>1 DEF Counters
    <3>3. t = [u EXCEPT !.visits = @ + m]
      <4>1. t = [u EXCEPT !.visits = s.visits + m]
        BY <2>4, <3>1
      <4> QED BY <3>2, <4>1
    <3>4. u.visits \in Nat
      BY <3>2 DEF Counters
    <3>5. t \in Counters /\ t.output = u.output /\ t.visits = u.visits + m /\ t.lambda = u.lambda
      BY <3>2, <3>3, <3>4 DEF Counters
    <3> QED BY <1>3, <3>2, <3>5
  <2> QED BY <1>2, <1>1, <2>1, <2>2, <2>3, <2>4
<1> QED BY <1>2, <1>1, <1>4 DEF Isolated, Grows

\* The traversal charges visits.
LEMMA IsolatedTraverse ==
    ASSUME spent \in Counters, Traverse PROVE Isolated
<1>1. UNCHANGED <<config, renders>>
  BY DEF Traverse, EnterNode, RenderChildren, PushContext, RenderPartial, settings
<1>2. UNCHANGED spent \/ spent' = [spent EXCEPT !.visits = @ + 1]
  BY DEF Traverse, EnterNode, RenderChildren, PushContext, RenderPartial
<1> QED BY <1>1, <1>2, SpentAlone, Charged

\* A write charges what it writes.
LEMMA IsolatedAppend ==
    ASSUME spent \in Counters, NEW bytes, NEW charged \in Nat, AppendBytes(bytes, charged), UNCHANGED <<config, renders>>
    PROVE  Isolated
<1>1. UNCHANGED spent \/ spent' = [spent EXCEPT !.output = @ + charged]
  BY DEF AppendBytes
<1> QED BY <1>1, SpentAlone, Charged

\* Every write does.
LEMMA IsolatedWriteOutput ==
    ASSUME StackInv, spent \in Counters, WriteOutput PROVE Isolated
<1>1. UNCHANGED <<config, renders>>
  BY DEF WriteOutput, BeginTemplateTag, AppendTemplateOutput, ConsumeTemplateSource, AppendText, AppendEscaped,
         AppendEvaluated, settings
<1>2. CASE BeginTemplateTag \/ AppendTemplateOutput \/ ConsumeTemplateSource
  BY <1>1, <1>2, SpentAlone DEF BeginTemplateTag, AppendTemplateOutput, ConsumeTemplateSource
<1>3. CASE AppendText
  <2>1. PICK text : text = Head(control).text /\ AppendBytes(text, Len(text))
    BY <1>3 DEF AppendText
  <2>2. IsSeq(text)
    BY <1>3, <2>1, RunningPlain DEF AppendText, Typed, PlainOps
  <2>3. Len(text) \in Nat
    BY <2>2 DEF IsSeq
  <2> QED BY <1>1, <2>1, <2>3, IsolatedAppend
<1>4. CASE AppendEscaped
  <2>1. PICK text : text = Head(control).text /\ AppendBytes(Escaped(text), Len(Escaped(text)))
    BY <1>4 DEF AppendEscaped
  <2>2. IsSeq(text)
    BY <1>4, <2>1, RunningPlain DEF AppendEscaped, Typed, PlainOps
  <2>3. Len(Escaped(text)) \in Nat
    BY <2>2, EscapedLonger
  <2> QED BY <1>1, <2>1, <2>3, IsolatedAppend
<1>5. CASE AppendEvaluated
  <2>1. PICK text : text = Last(buffers) /\ AppendBytes(Escaped(text), Len(Escaped(text)) - Len(text))
    BY <1>5 DEF AppendEvaluated
  <2>2. IsSeq(text)
    <3>1. control # <<>> /\ rendering
      BY <1>5, RunningCall DEF AppendEvaluated, Running
    <3>2. Len(buffers) \in DOMAIN buffers
      <4>1. Count(control, "dropBuffer") \in Nat /\ Count(control, "endHelper") \in Nat
        BY <3>1, RunningCall
      <4>2. Len(buffers) = 1 + Temporaries(control) /\ Temporaries(control) \in Nat /\ IsSeq(buffers)
        BY <3>1, <4>1 DEF StackInv, BuffersFit, Temporaries
      <4> QED BY <4>2 DEF IsSeq
    <3>3. Last(buffers) = buffers[Len(buffers)]
      BY DEF Last
    <3> QED BY <2>1, <3>2, <3>3 DEF StackInv, ValuesFit
  <2>3. Len(Escaped(text)) - Len(text) \in Nat
    <3>1. Len(Escaped(text)) \in Nat /\ Len(text) \in Nat /\ Len(Escaped(text)) >= Len(text)
      BY <2>2, EscapedLonger
    <3>2. PICK j \in Nat, k \in Nat : j = Len(Escaped(text)) /\ k = Len(text) /\ j >= k
      BY <3>1
    <3>3. j - k \in Nat
      BY <3>2
    <3> QED BY <3>2, <3>3
  <2> QED BY <1>1, <2>1, <2>3, IsolatedAppend
<1> QED BY <1>2, <1>3, <1>4, <1>5 DEF WriteOutput

\* What a text costs to parse.
LEMMA ParseSize ==
    ASSUME NEW text \in Texts
    PROVE  Len(text) \in Nat /\ TemplateTable[text].nodes + 1 \in Nat /\ TemplateTable[text].nodes \in Nat
<1>1. IsSeq(text) /\ TemplateTable[text].nodes \in Nat
  BY TemplatesAssumption, SequenceIsSeq
<1>2. Len(text) \in Nat
  BY <1>1 DEF IsSeq
<1> QED BY <1>1, <1>2

\* A text that is parsed is charged its bytes and its nodes.
LEMMA ParsedIsCharged ==
    ASSUME spent \in Counters, NEW text \in Texts, spent' = ParsedCharge(text), UNCHANGED <<config, renders>>
    PROVE  Isolated
<1>1. PICK n \in Nat, m \in Nat : n = Len(text) /\ m = TemplateTable[text].nodes
  BY ParseSize
<1>2. PICK k \in Nat : k = m + 1
  OBVIOUS
<1>3. spent.visits + m + 1 = spent.visits + k
  BY <1>2 DEF Counters
<1>4. spent' = [spent EXCEPT !.lambda = @ + n, !.visits = @ + k]
  BY <1>1, <1>3 DEF ParsedCharge
<1> QED BY <1>4, Charged

\* The lambda calls charge the budgets they use.
LEMMA IsolatedCallLambda ==
    ASSUME StackInv, spent \in Counters, CallLambda PROVE Isolated
<1>1. UNCHANGED <<config, renders>>
  BY DEF CallLambda, SectionText, RebuildChild, ConsumeLambdaTemplate, InvokeSectionLambda, InvokeInterpolationLambda,
         ConsumeResult, settings
<1>2. CASE SectionText \/ InvokeSectionLambda \/ InvokeInterpolationLambda
  BY <1>1, <1>2, SpentAlone DEF SectionText, InvokeSectionLambda, InvokeInterpolationLambda
<1>3. CASE RebuildChild
  <2>1. UNCHANGED spent \/ spent' = [spent EXCEPT !.visits = @ + 1]
    BY <1>3 DEF RebuildChild
  <2> QED BY <1>1, <2>1, SpentAlone, Charged
<1>4. CASE ConsumeLambdaTemplate
  <2>1. PICK n : n = Head(control).bytes
    OBVIOUS
  <2>2. n \in Nat
    BY <1>4, <2>1, RunningPlain DEF ConsumeLambdaTemplate, Typed, PlainOps
  <2>3. UNCHANGED spent \/ spent' = [spent EXCEPT !.lambda = @ + n]
    BY <1>4, <2>1 DEF ConsumeLambdaTemplate
  <2> QED BY <1>1, <2>2, <2>3, SpentAlone, Charged
<1>5. CASE ConsumeResult
  <2>1. PICK text : text = returned.text /\ IsSeq(text) /\ (~IsLiteral => text \in Texts)
    BY DEF StackInv, ValuesFit, IsLiteral
  <2>2. Len(text) \in Nat
    BY <2>1 DEF IsSeq
  <2>3. CASE UNCHANGED spent \/ spent' = [spent EXCEPT !.lambda = @ + Len(text)]
    BY <1>1, <2>2, <2>3, SpentAlone, Charged
  <2>4. CASE text \in Texts /\ spent' = ParsedCharge(text)
    BY <1>1, <2>4, ParsedIsCharged
  <2> QED BY <1>5, <2>1, <2>3, <2>4 DEF ConsumeResult
<1> QED BY <1>2, <1>3, <1>4, <1>5 DEF CallLambda

\* User code reaches no counter but through the engine.
LEMMA IsolatedCallback ==
    ASSUME spent \in Counters, Callback PROVE Isolated
<1>1. UNCHANGED <<config, renders>>
  BY DEF Callback, ReturnFromCallback, CallbackThrows, CallbackCatches, RejectWhileRendering, LegacyRender,
         ContextRender, ContextRenderTemplate, settings
<1>2. CASE ReturnFromCallback \/ CallbackThrows \/ CallbackCatches \/ RejectWhileRendering
  BY <1>1, <1>2, SpentAlone DEF ReturnFromCallback, CallbackThrows, CallbackCatches, RejectWhileRendering
<1>3. CASE \E n \in HelperNodes, s \in {<<>>, rendered} :
               LegacyRender(n, s) \/ \E c \in DOMAIN contexts : ContextRender(c, n, s)
  BY <1>1, <1>3, SpentAlone DEF LegacyRender, ContextRender
<1>4. CASE \E c \in DOMAIN contexts, text \in Texts : ContextRenderTemplate(c, text)
  <2>1. PICK c \in DOMAIN contexts, text \in Texts : ContextRenderTemplate(c, text)
    BY <1>4
  <2>2. Len(text) \in Nat
    BY ParseSize
  <2>3. \/ UNCHANGED spent
        \/ spent' = [spent EXCEPT !.lambda = @ + Len(text)]
        \/ spent' = ParsedCharge(text)
    BY <2>1 DEF ContextRenderTemplate
  <2> QED BY <1>1, <2>2, <2>3, SpentAlone, Charged, ParsedIsCharged
<1> QED BY <1>2, <1>3, <1>4 DEF Callback

\* No step of a render changes its inputs or refunds what it spent.
LEMMA IsolatedRender ==
    ASSUME StackInv, spent \in Counters, Render PROVE Isolated
<1>1. CASE Guard \/ Discard
  <2>1. UNCHANGED <<config, renders, spent>>
    BY <1>1 DEF Guard, RestoreDepth, PopContext, PopIndentation, RestoreOutput, DropBuffer, EndHelper, EndCallback,
                LeaveScope, EndRoot, Discard, settings
  <2> QED BY <2>1, SpentAlone
<1> QED BY <1>1, IsolatedTraverse, IsolatedWriteOutput, IsolatedCallLambda, IsolatedCallback DEF Render

\* The application touches a renderer only between renders.
LEMMA ApplicationAtRest ==
    ASSUME StackInv, spent \in Counters, Application
    PROVE  ~rendering /\ spent' \in Counters
<1>1. ~rendering
  BY DEF Application, InitRenderer, Clear, StartRender, RejectRender, Configure, SetOutput, Unlocked, Ready,
         StackInv, ControlFits
<1>2. NoSpending \in Counters
  BY DEF NoSpending, Counters
<1>3. CASE StartRender
  <2>1. output # 0 /\ spent' = [NoSpending EXCEPT !.output = Len(buffers[output])]
    BY <1>3 DEF StartRender, Ready
  <2>2. Len(buffers) = output /\ output \in {0, 1} /\ IsSeq(buffers)
    BY <1>1, AtRest DEF StackInv, BuffersFit
  <2>3. output \in DOMAIN buffers
    BY <2>1, <2>2 DEF IsSeq
  <2>4. IsSeq(buffers[output])
    BY <2>3 DEF StackInv, ValuesFit
  <2>5. Len(buffers[output]) \in Nat
    BY <2>4 DEF IsSeq
  <2> QED BY <1>1, <1>2, <2>1, <2>5 DEF Counters
<1>4. CASE ~StartRender
  <2>1. UNCHANGED spent \/ spent' = NoSpending
    BY <1>4 DEF Application, InitRenderer, Clear, RejectRender, Configure, SetOutput
  <2> QED BY <1>1, <1>2, <2>1
<1> QED BY <1>3, <1>4

\* No step inside a render changes the node, the data, the limits or the mode it
\* runs with, nor refunds a budget.
THEOREM RendersAreIsolated == Spec => RenderIsolated
<1> DEFINE Inv == StackInv /\ spent \in Counters
<1>1. Init => Inv
  <2>1. Init => spent \in Counters
    BY DEF Init, NoSpending, Counters
  <2> QED BY <2>1, StackInvInit
<1>2. Inv /\ [Next]_vars => Inv' /\ (rendering => Isolated)
  <2> SUFFICES ASSUME Inv, [Next]_vars PROVE Inv' /\ (rendering => Isolated)
    OBVIOUS
  <2>1. StackInv'
    BY StackInvNext
  <2>2. CASE Render
    BY <2>1, <2>2, IsolatedRender DEF Isolated
  <2>3. CASE Application
    BY <2>1, <2>3, ApplicationAtRest
  <2>4. CASE UNCHANGED vars
    BY <2>1, <2>4, SpentAlone DEF vars, settings, Isolated
  <2> QED BY <2>2, <2>3, <2>4 DEF Next
<1> HIDE DEF Inv
<1>3. (rendering => Isolated) =>
      [rendering /\ rendering' =>
          /\ config' = config /\ renders' = renders
          /\ spent'.output >= spent.output /\ spent'.visits >= spent.visits
          /\ spent'.lambda >= spent.lambda]_vars
  BY DEF Isolated, Grows
<1> QED BY <1>1, <1>2, <1>3, PTL DEF Spec, RenderIsolated

-----------------------------------------------------------------------------
(* The buffers that evaluations fill *)

\* The buffer that the temporary whose guard is call i of the stack s occupies.
BufferOf(s, i) == 2 + Temporaries(SubSeq(s, i + 1, Len(s)))
Drops(s) == {BufferOf(s, i) : i \in {j \in DOMAIN s : s[j].op = "dropBuffer"}}
\* Calls among which no evaluation's guard is.
DropFree(u) == IsSeq(u) /\ \A i \in DOMAIN u : u[i].op # "dropBuffer"

\* The buffer of a guard does not depend on the calls above it.
LEMMA BufferBelow ==
    ASSUME NEW u, IsSeq(u), NEW t, IsSeq(t), NEW k \in DOMAIN t
    PROVE  Len(u) + k \in DOMAIN (u \o t) /\ (u \o t)[Len(u) + k] = t[k] /\ BufferOf(u \o t, Len(u) + k) = BufferOf(t, k)
<1>1. PICK S : u \in Seq(S)
  BY DEF IsSeq
<1>2. PICK T : t \in Seq(T)
  BY DEF IsSeq
<1> DEFINE U == S \cup T
<1>3. u \in Seq(U) /\ t \in Seq(U)
  BY <1>1, <1>2, SeqMonotonic
<1> HIDE DEF U
<1>4. PICK m \in Nat : m = Len(u)
  BY <1>3
<1>5. PICK n \in Nat : n = Len(t) /\ k \in 1..n
  BY <1>3
<1>6. PICK s : s = u \o t
  OBVIOUS
<1>7. Len(s) = m + n /\ s[m + k] = t[k] /\ s \in Seq(U) /\ m + k \in DOMAIN s
  <2>1. m + k \in 1..(m + n) /\ ~(m + k <= m) /\ (m + k) - m = k
    BY <1>5
  <2>2. s \in Seq(U) /\ Len(s) = m + n
    BY <1>3, <1>4, <1>5, <1>6, ConcatProperties
  <2>3. s[m + k] = t[k]
    BY <1>3, <1>4, <1>5, <1>6, <2>1, ConcatProperties
  <2>4. DOMAIN s = 1..(m + n)
    BY <2>2
  <2> QED BY <2>1, <2>2, <2>3, <2>4
<1>8. SubSeq(s, m + k + 1, m + n) = SubSeq(t, k + 1, n)
  <2>1. CASE k = n
    <3>1. m + n < m + k + 1 /\ n < k + 1 /\ m + n \in Int /\ m + k + 1 \in Int /\ n \in Int /\ k + 1 \in Int
      BY <2>1
    <3>2. SubSeq(s, m + k + 1, m + n) = <<>> /\ SubSeq(t, k + 1, n) = <<>>
      BY <3>1, SubSeqEmpty
    <3> QED BY <3>2
  <2>2. CASE k # n
    <3>1. PICK a \in m+1..m+n : a = m + k + 1
      BY <1>5, <2>2
    <3>2. PICK b \in m+1..m+n : b = m + n
      BY <1>5
    <3>3. a \in Len(u)+1 .. Len(u)+Len(t) /\ b \in Len(u)+1 .. Len(u)+Len(t)
      BY <1>4, <1>5
    <3>4. SubSeq(u \o t, a, b) = SubSeq(t, a - Len(u), b - Len(u))
      BY <1>3, <3>3, SubSeqOfConcat2
    <3>5. a - m = k + 1 /\ b - m = n
      BY <1>5, <3>1, <3>2
    <3> QED BY <1>4, <1>6, <3>1, <3>2, <3>4, <3>5
  <2> QED BY <2>1, <2>2
<1>9. BufferOf(s, m + k) = BufferOf(t, k)
  BY <1>5, <1>7, <1>8 DEF BufferOf
<1> QED BY <1>4, <1>6, <1>7, <1>9

\* Calls that are no evaluation's guard change nothing for the evaluations below them.
LEMMA DropsBelow ==
    ASSUME NEW u, DropFree(u), NEW t, IsSeq(t)
    PROVE  Drops(u \o t) = Drops(t)
<1>1. PICK s : s = u \o t
  OBVIOUS
<1>2. PICK m \in Nat : m = Len(u) /\ DOMAIN u = 1..m
  BY DEF DropFree, IsSeq
<1>3. PICK n \in Nat : n = Len(t) /\ DOMAIN t = 1..n
  BY DEF IsSeq
<1>4. DOMAIN s = 1..(m + n)
  BY <1>1, <1>2, <1>3, Concat DEF DropFree
<1>5. \A k \in DOMAIN t : m + k \in DOMAIN s /\ s[m + k] = t[k] /\ BufferOf(s, m + k) = BufferOf(t, k)
  BY <1>1, <1>2, BufferBelow DEF DropFree
<1>6. \A i \in 1..m : s[i] = u[i]
  <2>1. PICK S : u \in Seq(S)
    BY DEF DropFree, IsSeq
  <2>2. PICK T : t \in Seq(T)
    BY DEF IsSeq
  <2> DEFINE U == S \cup T
  <2>3. u \in Seq(U) /\ t \in Seq(U)
    BY <2>1, <2>2, SeqMonotonic
  <2> HIDE DEF U
  <2>4. \A i \in 1..(m + n) : s[i] = IF i <= m THEN u[i] ELSE t[i - m]
    BY <1>1, <1>2, <1>3, <2>3, ConcatProperties
  <2>5. \A i \in 1..m : i \in 1..(m + n) /\ i <= m
    OBVIOUS
  <2> QED BY <2>4, <2>5
<1>7. ASSUME NEW i \in DOMAIN s, s[i].op = "dropBuffer" PROVE BufferOf(s, i) \in Drops(t)
  <2>1. i \notin 1..m
    BY <1>2, <1>6, <1>7 DEF DropFree
  <2>2. i - m \in 1..n /\ m + (i - m) = i
    BY <1>4, <2>1
  <2>3. PICK k \in DOMAIN t : k = i - m /\ m + k = i
    BY <1>3, <2>2
  <2>4. t[k].op = "dropBuffer" /\ BufferOf(s, i) = BufferOf(t, k)
    BY <1>5, <1>7, <2>3
  <2> QED BY <2>4 DEF Drops
<1>8. ASSUME NEW k \in DOMAIN t, t[k].op = "dropBuffer" PROVE BufferOf(t, k) \in Drops(s)
  <2>1. m + k \in DOMAIN s /\ s[m + k].op = "dropBuffer" /\ BufferOf(s, m + k) = BufferOf(t, k)
    BY <1>5, <1>8
  <2> QED BY <2>1 DEF Drops
<1>9. Drops(s) \subseteq Drops(t)
  BY <1>7 DEF Drops
<1>10. Drops(t) \subseteq Drops(s)
  BY <1>8 DEF Drops
<1> QED BY <1>1, <1>9, <1>10

\* One more call on a stack.
LEMMA DropsPush ==
    ASSUME NEW x, NEW t, IsSeq(t)
    PROVE  Drops(<<x>> \o t) = Drops(t) \cup (IF x.op = "dropBuffer" THEN {2 + Temporaries(t)} ELSE {})
<1>1. PICK s : s = <<x>> \o t
  OBVIOUS
<1>2. IsSeq(<<x>>) /\ Len(<<x>>) = 1 /\ <<x>>[1] = x /\ DOMAIN <<x>> = {1}
  BY Singleton
<1>3. CASE x.op # "dropBuffer"
  <2>1. DropFree(<<x>>)
    BY <1>2, <1>3 DEF DropFree
  <2>2. Drops(s) = Drops(t)
    BY <1>1, <2>1, DropsBelow
  <2> QED BY <1>1, <1>3, <2>2
<1>4. CASE x.op = "dropBuffer"
  <2>1. PICK n \in Nat : n = Len(t) /\ DOMAIN t = 1..n /\ DOMAIN s = 1..(n + 1) /\ s[1] = x /\ Len(s) = n + 1
    BY <1>1, Push
  <2>2. \A k \in DOMAIN t : 1 + k \in DOMAIN s /\ s[1 + k] = t[k] /\ BufferOf(s, 1 + k) = BufferOf(t, k)
    <3>1. PICK u : u = <<x>>
      OBVIOUS
    <3>2. IsSeq(u) /\ Len(u) = 1 /\ s = u \o t
      BY <1>1, <1>2, <3>1
    <3>3. \A k \in DOMAIN t : Len(u) + k \in DOMAIN (u \o t) /\ (u \o t)[Len(u) + k] = t[k]
                               /\ BufferOf(u \o t, Len(u) + k) = BufferOf(t, k)
      BY <3>2, BufferBelow
    <3> QED BY <3>2, <3>3
  <2>3. BufferOf(s, 1) = 2 + Temporaries(t)
    <3>1. SubSeq(s, 1 + 1, Len(s)) = Tail(s)
      <4>1. PICK S : s \in Seq(S)
        BY <1>1, Push DEF IsSeq
      <4>2. Head(SubSeq(s, 1, n + 1)) = s[1] /\ Tail(SubSeq(s, 1, n + 1)) = SubSeq(s, 1 + 1, n + 1)
        <5>1. 1 \in 1..(n + 1) /\ n + 1 \in 1..(n + 1)
          OBVIOUS
        <5> QED BY <2>1, <4>1, <5>1, HeadTailOfSubSeq
      <4>3. SubSeq(s, 1, n + 1) = s
        BY <2>1, <4>1, SubSeqFull
      <4> QED BY <2>1, <4>2, <4>3
    <3>2. Tail(s) = t
      BY <1>1, Push
    <3> QED BY <3>1, <3>2 DEF BufferOf
  <2>4. ASSUME NEW i \in DOMAIN s, s[i].op = "dropBuffer" PROVE BufferOf(s, i) \in Drops(t) \cup {2 + Temporaries(t)}
    <3>1. CASE i = 1
      BY <2>3, <3>1
    <3>2. CASE i # 1
      <4>1. PICK k \in DOMAIN t : 1 + k = i
        <5>1. i - 1 \in 1..n /\ 1 + (i - 1) = i
          BY <2>1, <3>2
        <5> QED BY <2>1, <5>1
      <4>2. t[k].op = "dropBuffer" /\ BufferOf(s, i) = BufferOf(t, k)
        BY <2>2, <2>4, <4>1
      <4> QED BY <4>2 DEF Drops
    <3> QED BY <3>1, <3>2
  <2>5. ASSUME NEW k \in DOMAIN t, t[k].op = "dropBuffer" PROVE BufferOf(t, k) \in Drops(s)
    <3>1. 1 + k \in DOMAIN s /\ s[1 + k].op = "dropBuffer" /\ BufferOf(s, 1 + k) = BufferOf(t, k)
      BY <2>2, <2>5
    <3> QED BY <3>1 DEF Drops
  <2>6. 2 + Temporaries(t) \in Drops(s)
    <3>1. 1 \in DOMAIN s /\ s[1].op = "dropBuffer"
      BY <1>4, <2>1
    <3> QED BY <2>3, <3>1 DEF Drops
  <2>7. Drops(s) \subseteq Drops(t) \cup {2 + Temporaries(t)}
    BY <2>4 DEF Drops
  <2>8. Drops(t) \subseteq Drops(s)
    BY <2>5 DEF Drops
  <2> QED BY <1>1, <1>4, <2>6, <2>7, <2>8
<1> QED BY <1>3, <1>4

\* No evaluation is pending at rest.
LEMMA DropsEmpty == Drops(<<>>) = {}
BY DEF Drops

\* Every evaluation has its buffer among the temporaries.
LEMMA DropsBounded ==
    ASSUME NEW s, IsSeq(s)
    PROVE  Drops(s) \subseteq 2..(1 + Temporaries(s)) /\ Temporaries(s) \in Nat
<1> DEFINE Bounded(r) == Drops(r) \subseteq 2..(1 + Temporaries(r)) /\ Temporaries(r) \in Nat
           S == {n \in Nat : \A r : IsSeq(r) /\ Len(r) = n => Bounded(r)}
<1>1. 0 \in S
  <2> SUFFICES ASSUME NEW r, IsSeq(r), Len(r) = 0 PROVE Bounded(r)
    OBVIOUS
  <2>1. r = <<>>
    BY DEF IsSeq
  <2> QED BY <2>1, DropsEmpty, TalliesEmpty DEF Temporaries
<1>2. ASSUME NEW n \in S PROVE n + 1 \in S
  <2> SUFFICES ASSUME NEW r, IsSeq(r), Len(r) = n + 1 PROVE Bounded(r)
    OBVIOUS
  <2>1. n \in Nat /\ \A q : IsSeq(q) /\ Len(q) = n => Bounded(q)
    OBVIOUS
  <2> HIDE DEF S, Bounded
  <2>2. r # <<>> /\ Len(Tail(r)) = n
    BY <2>1 DEF IsSeq
  <2>3. /\ IsSeq(Tail(r)) /\ r = <<Head(r)>> \o Tail(r)
        /\ \A op : Count(r, op) \in Nat /\ Count(Tail(r), op) \in Nat
        /\ \A op : Count(r, op) = Count(Tail(r), op) + (IF Head(r).op = op THEN 1 ELSE 0)
    BY <2>2, TalliesBelow
  <2>4. PICK h : h = Head(r)
    OBVIOUS
  <2>5. PICK t : t = Tail(r)
    OBVIOUS
  <2>6. Bounded(t)
    BY <2>1, <2>2, <2>3, <2>5
  <2>7. PICK k \in Nat : k = Temporaries(t) /\ Drops(t) \subseteq 2..(1 + k)
    BY <2>6 DEF Bounded
  <2>8. Drops(r) = Drops(t) \cup (IF h.op = "dropBuffer" THEN {2 + k} ELSE {})
    BY <2>3, <2>4, <2>5, <2>7, DropsPush
  <2>9. Temporaries(r) = k + (IF h.op \in {"dropBuffer", "endHelper"} THEN 1 ELSE 0)
    <3>1. /\ Count(t, "dropBuffer") \in Nat /\ Count(t, "endHelper") \in Nat
          /\ Count(r, "dropBuffer") = Count(t, "dropBuffer") + (IF h.op = "dropBuffer" THEN 1 ELSE 0)
          /\ Count(r, "endHelper") = Count(t, "endHelper") + (IF h.op = "endHelper" THEN 1 ELSE 0)
      BY <2>3, <2>4, <2>5
    <3> QED BY <2>7, <3>1 DEF Temporaries
  <2>10. CASE h.op = "dropBuffer"
    <3>1. Drops(r) = Drops(t) \cup {2 + k} /\ Temporaries(r) = k + 1
      BY <2>8, <2>9, <2>10
    <3>2. Drops(r) \subseteq 2..(1 + (k + 1)) /\ k + 1 \in Nat
      BY <2>7, <3>1
    <3> QED BY <3>1, <3>2 DEF Bounded
  <2>11. CASE h.op # "dropBuffer"
    <3>1. PICK j \in {k, k + 1} : j = Temporaries(r)
      BY <2>9
    <3>2. Drops(r) \subseteq 2..(1 + j) /\ j \in Nat
      BY <2>7, <2>8, <2>11
    <3> QED BY <3>1, <3>2 DEF Bounded
  <2> QED BY <2>10, <2>11
<1> HIDE DEF S
<1>3. S = Nat
  <2>1. S \in SUBSET Nat
    BY DEF S
  <2> QED BY <1>1, <1>2, <2>1, SetInduction
<1>4. Len(s) \in Nat
  BY DEF IsSeq
<1> QED BY <1>3, <1>4 DEF S

\* Tuples of calls without an evaluation's guard.
LEMMA DropFreeTuples ==
    /\ DropFree(<<>>)
    /\ \A a : a.op # "dropBuffer" => DropFree(<<a>>)
    /\ \A a, b : a.op # "dropBuffer" /\ b.op # "dropBuffer" => DropFree(<<a, b>>)
    /\ \A a, b, c : a.op # "dropBuffer" /\ b.op # "dropBuffer" /\ c.op # "dropBuffer" => DropFree(<<a, b, c>>)
    /\ \A a, b, c, d :
          a.op # "dropBuffer" /\ b.op # "dropBuffer" /\ c.op # "dropBuffer" /\ d.op # "dropBuffer" => DropFree(<<a, b, c, d>>)
<1>1. DropFree(<<>>)
  <2>1. <<>> \in Seq({}) /\ DOMAIN <<>> = {}
    OBVIOUS
  <2> QED BY <2>1 DEF DropFree, IsSeq
<1>2. ASSUME NEW a, a.op # "dropBuffer" PROVE DropFree(<<a>>)
  <2>1. <<a>> \in Seq({a}) /\ DOMAIN <<a>> = {1} /\ <<a>>[1] = a
    OBVIOUS
  <2> QED BY <1>2, <2>1 DEF DropFree, IsSeq
<1>3. ASSUME NEW a, NEW b, a.op # "dropBuffer", b.op # "dropBuffer" PROVE DropFree(<<a, b>>)
  <2>1. <<a, b>> \in Seq({a, b}) /\ DOMAIN <<a, b>> = {1, 2} /\ <<a, b>>[1] = a /\ <<a, b>>[2] = b
    OBVIOUS
  <2> QED BY <1>3, <2>1 DEF DropFree, IsSeq
<1>4. ASSUME NEW a, NEW b, NEW c, a.op # "dropBuffer", b.op # "dropBuffer", c.op # "dropBuffer" PROVE DropFree(<<a, b, c>>)
  <2>1. /\ <<a, b, c>> \in Seq({a, b, c}) /\ DOMAIN <<a, b, c>> = {1, 2, 3}
        /\ <<a, b, c>>[1] = a /\ <<a, b, c>>[2] = b /\ <<a, b, c>>[3] = c
    OBVIOUS
  <2> QED BY <1>4, <2>1 DEF DropFree, IsSeq
<1>5. ASSUME NEW a, NEW b, NEW c, NEW d, a.op # "dropBuffer", b.op # "dropBuffer", c.op # "dropBuffer", d.op # "dropBuffer"
      PROVE  DropFree(<<a, b, c, d>>)
  <2>1. /\ <<a, b, c, d>> \in Seq({a, b, c, d}) /\ DOMAIN <<a, b, c, d>> = {1, 2, 3, 4}
        /\ <<a, b, c, d>>[1] = a /\ <<a, b, c, d>>[2] = b /\ <<a, b, c, d>>[3] = c /\ <<a, b, c, d>>[4] = d
    OBVIOUS
  <2> QED BY <1>5, <2>1 DEF DropFree, IsSeq
<1> QED BY <1>1, <1>2, <1>3, <1>4, <1>5

\* Plain calls have none.
LEMMA DropFreePlain == ASSUME NEW n, NEW u, AllPlain(u, n) PROVE DropFree(u)
BY PlainOpsAreNot DEF AllPlain, Plain, DropFree, Special

\* Nor do they in sequence.
LEMMA DropFreeConcat ==
    ASSUME NEW u, DropFree(u), NEW w, DropFree(w)
    PROVE  DropFree(u \o w)
<1>1. PICK S : u \in Seq(S)
  BY DEF DropFree, IsSeq
<1>2. PICK T : w \in Seq(T)
  BY DEF DropFree, IsSeq
<1> DEFINE U == S \cup T
<1>3. u \in Seq(U) /\ w \in Seq(U)
  BY <1>1, <1>2, SeqMonotonic
<1> HIDE DEF U
<1>4. PICK j \in Nat : j = Len(u) /\ DOMAIN u = 1..j
  BY <1>3
<1>5. PICK k \in Nat : k = Len(w) /\ DOMAIN w = 1..k
  BY <1>3
<1>6. PICK r : r = u \o w
  OBVIOUS
<1>7. r \in Seq(U) /\ DOMAIN r = 1..(j + k)
  BY <1>3, <1>4, <1>5, <1>6
<1>8. \A i \in 1..(j + k) : r[i] = IF i <= j THEN u[i] ELSE w[i - j]
  BY <1>3, <1>4, <1>5, <1>6, ConcatProperties
<1>9. ASSUME NEW i \in 1..(j + k) PROVE r[i].op # "dropBuffer"
  <2>1. CASE i <= j
    <3>1. i \in DOMAIN u
      BY <1>4, <2>1
    <3> QED BY <1>8, <2>1, <3>1 DEF DropFree
  <2>2. CASE ~(i <= j)
    <3>1. i - j \in DOMAIN w
      BY <1>5, <2>2
    <3> QED BY <1>8, <2>2, <3>1 DEF DropFree
  <2> QED BY <2>1, <2>2
<1> QED BY <1>6, <1>7, <1>9 DEF DropFree, IsSeq

\* What a step of the engine does to the pending calls unless it evaluates a lambda's text.
Replaces ==
    \/ UNCHANGED control /\ throwing' = TRUE
    \/ throwing' = FALSE /\ \E u : DropFree(u) /\ control' = u \o Tail(control)

\* A call that ends in others.
LEMMA ReplacesContinue == ASSUME NEW u, DropFree(u), Continue(u) PROVE Replaces
BY DEF Replaces, Continue

\* A call that throws.
LEMMA ReplacesRaise == ASSUME Raise PROVE Replaces
BY DEF Replaces, Raise

\* renderNode starts no evaluation itself.
LEMMA ReplacesEnterNode ==
    ASSUME StackInv, EnterNode PROVE Replaces
<1> DEFINE call == Head(control)
<1>1. /\ control # <<>> /\ call.op = "node" /\ Typed(call) /\ Frames(Tail(control)) \in Nat
      /\ call.depth = Frames(Tail(control))
  BY RunningPlain DEF EnterNode, PlainOps
<1>2. CASE Raise
  BY <1>2, ReplacesRaise
<1>3. CASE /\ call.node # Null /\ stack # <<>> /\ ~MissingData(call.node) /\ ~MissingChild(call.node)
           /\ Continue(Append(Body(call.node, call.depth, call.indent),
                       [op |-> "restoreDepth", depth |-> call.depth, parent |-> activeDepth]))
  <2>1. PICK d \in Nat : d = call.depth
    BY <1>1
  <2>2. PICK u : u = Body(call.node, call.depth, call.indent)
    OBVIOUS
  <2>3. PICK g : g = [op |-> "restoreDepth", depth |-> call.depth, parent |-> activeDepth]
    OBVIOUS
  <2>4. AllPlain(u, d + 1)
    <3>1. call.node \in Nodes /\ SeqOfSeqs(call.indent)
      BY <1>1, <1>3 DEF Typed
    <3>2. ValuesFit /\ IsSeq(stack)
      BY DEF StackInv, StackFits
    <3> QED BY <1>3, <2>1, <2>2, <3>1, <3>2, BodyPlain
  <2>5. DropFree(u)
    BY <2>4, DropFreePlain
  <2>6. DropFree(<<g>>)
    <3>1. g.op # "dropBuffer"
      BY <2>3
    <3> QED BY <3>1, DropFreeTuples
  <2>7. DropFree(u \o <<g>>)
    BY <2>5, <2>6, DropFreeConcat
  <2>8. Append(u, g) = u \o <<g>>
    <3>1. PICK S : u \in Seq(S)
      BY <2>5 DEF DropFree, IsSeq
    <3>2. u \in Seq(S \cup {g}) /\ g \in S \cup {g}
      BY <3>1, SeqMonotonic
    <3> QED BY <3>2, AppendIsConcat
  <2> QED BY <1>3, <2>2, <2>3, <2>7, <2>8, ReplacesContinue
<1> QED BY <1>2, <1>3 DEF EnterNode

\* Nor does the rest of the traversal.
LEMMA ReplacesTraverse ==
    ASSUME StackInv, Traverse PROVE Replaces
<1>1. CASE RenderChildren
  <2> DEFINE call == Head(control)
             children == NodeTable[call.node].children
             k == call.at
             Child(i, indent, meta) == NodeCall(children[i], call.depth + 1, indent, meta)
  <2>1. /\ DOMAIN call = {"op", "node", "depth", "at"} /\ call.op = "children"
    BY <1>1, RunningPlain DEF RenderChildren, PlainOps, Inner, Typed
  <2>2. \A j : [call EXCEPT !.at = j].op # "dropBuffer"
    BY <2>1
  <2>3. \A i, indent, meta : Child(i, indent, meta).op # "dropBuffer"
    BY DEF NodeCall
  <2> HIDE DEF Child
  <2>4. PICK a : a = Child(k, <<>>, TRUE) /\ a.op # "dropBuffer"
    BY <2>3
  <2>5. PICK b : b = Child(k + 1, NodeTable[children[k]].data, FALSE) /\ b.op # "dropBuffer"
    BY <2>3
  <2>6. PICK c : c = [call EXCEPT !.at = k + 2] /\ c.op # "dropBuffer"
    BY <2>2
  <2>7. PICK d : d = Child(k, <<>>, FALSE) /\ d.op # "dropBuffer"
    BY <2>3
  <2>8. PICK e : e = [call EXCEPT !.at = k + 1] /\ e.op # "dropBuffer"
    BY <2>2
  <2>9. DropFree(<<a, b, c>>) /\ DropFree(<<d, e>>) /\ DropFree(<<>>)
    BY <2>4, <2>5, <2>6, <2>7, <2>8, DropFreeTuples
  <2>10. Raise \/ Continue(<<>>) \/ Continue(<<a, b, c>>) \/ Continue(<<d, e>>)
    <3>1. \/ Raise \/ Continue(<<>>)
          \/ Continue(<<Child(k, <<>>, TRUE), Child(k + 1, NodeTable[children[k]].data, FALSE), [call EXCEPT !.at = k + 2]>>)
          \/ Continue(<<Child(k, <<>>, FALSE), [call EXCEPT !.at = k + 1]>>)
      BY <1>1 DEF RenderChildren, Child
    <3> QED BY <2>4, <2>5, <2>6, <2>7, <2>8, <3>1
  <2> QED BY <2>9, <2>10, ReplacesContinue, ReplacesRaise
<1>2. CASE PushContext
  <2>1. PICK a : a = ChildrenOf(Head(control).node, Head(control).depth)
    OBVIOUS
  <2>2. PICK b : b = Op("popContext")
    OBVIOUS
  <2>3. a.op # "dropBuffer" /\ b.op # "dropBuffer"
    BY <2>1, <2>2 DEF ChildrenOf, Op
  <2>4. Continue(<<a, b>>) /\ DropFree(<<a, b>>)
    BY <1>2, <2>1, <2>2, <2>3, DropFreeTuples DEF PushContext
  <2> QED BY <2>4, ReplacesContinue
<1>3. CASE RenderPartial
  <2>1. PICK a : a = NodeCall(Resolve(NodeTable[Head(control).node].data[1]), Head(control).depth + 1, <<>>, FALSE)
    OBVIOUS
  <2>2. PICK b : b = Op("popIndentation")
    OBVIOUS
  <2>3. a.op # "dropBuffer" /\ b.op # "dropBuffer"
    BY <2>1, <2>2 DEF NodeCall, Op
  <2>4. DropFree(<<a, b>>) /\ DropFree(<<>>)
    BY <2>3, DropFreeTuples
  <2>5. Continue(<<>>) \/ Continue(<<a, b>>)
    BY <1>3, <2>1, <2>2 DEF RenderPartial
  <2> QED BY <2>4, <2>5, ReplacesContinue
<1> QED BY <1>1, <1>2, <1>3, ReplacesEnterNode DEF Traverse

\* _beginTemplateTag writes the indentation of the line before anything else.
LEMMA ReplacesStartLine ==
    ASSUME StackInv, NEW rest, DropFree(rest), StartLine(rest) PROVE Replaces
<1>1. CASE ~AtLineStart
  BY <1>1, ReplacesContinue DEF StartLine
<1>2. CASE AtLineStart
  <2>1. PICK s : s = Last(indentation).components
    OBVIOUS
  <2>2. IsSeq(s)
    <3>1. indentation # <<>> /\ IsSeq(indentation)
      BY <1>2 DEF AtLineStart, StackInv, IndentationFits
    <3>2. Len(indentation) \in DOMAIN indentation
      BY <3>1 DEF IsSeq
    <3>3. Frame(Last(indentation))
      BY <3>2 DEF StackInv, ValuesFit, Last
    <3> QED BY <2>1, <3>3 DEF Frame, SeqOfSeqs
  <2>3. PICK u : u = [i \in DOMAIN s |-> Write("append", s[i])]
    OBVIOUS
  <2>4. DropFree(u)
    <3>1. PICK n \in Nat : DOMAIN s = 1..n
      BY <2>2 DEF IsSeq
    <3> DEFINE U == {u[i] : i \in 1..n}
    <3>2. u = [i \in 1..n |-> u[i]] /\ \A i \in 1..n : u[i] \in U
      BY <2>3, <3>1
    <3> HIDE DEF U
    <3>3. u \in Seq(U)
      <4>1. [i \in 1..n |-> u[i]] \in Seq(U)
        BY <3>2
      <4> QED BY <3>2, <4>1
    <3>4. \A i \in DOMAIN u : u[i].op # "dropBuffer"
      BY <2>3 DEF Write
    <3> QED BY <3>3, <3>4 DEF DropFree, IsSeq
  <2>5. Continue(u \o rest)
    BY <1>2, <2>1, <2>3 DEF StartLine
  <2> QED BY <2>4, <2>5, DropFreeConcat, ReplacesContinue
<1> QED BY <1>1, <1>2

\* Nor do the writes of template text.
LEMMA ReplacesWriteOutput ==
    ASSUME StackInv, BeginTemplateTag \/ AppendTemplateOutput \/ ConsumeTemplateSource PROVE Replaces
<1>1. DropFree(<<>>)
  BY DropFreeTuples
<1>2. CASE BeginTemplateTag
  BY <1>1, <1>2, ReplacesStartLine DEF BeginTemplateTag
<1>3. CASE ConsumeTemplateSource
  BY <1>1, <1>3, ReplacesContinue DEF ConsumeTemplateSource
<1>4. CASE AppendTemplateOutput
  <2>1. PICK text : text = Head(control).text
    OBVIOUS
  <2>2. Head(control).op # "dropBuffer"
    BY <1>4 DEF AppendTemplateOutput, Running
  <2>3. DropFree(<<Head(control)>>)
    BY <2>2, DropFreeTuples
  <2>4. \A t : Write("append", t).op # "dropBuffer" /\ Write("template", t).op # "dropBuffer"
    BY DEF Write
  <2>5. (\A t : DropFree(<<Write("append", t)>>)) /\ (\A t, s : DropFree(<<Write("append", t), Write("template", s)>>))
    BY <2>4, DropFreeTuples
  <2>6. \/ Continue(<<>>) \/ StartLine(<<Head(control)>>) \/ Continue(<<Write("append", text)>>)
        \/ \E t, s : Continue(<<Write("append", t), Write("template", s)>>)
    BY <1>4, <2>1 DEF AppendTemplateOutput
  <2> QED BY <1>1, <2>3, <2>5, <2>6, ReplacesContinue, ReplacesStartLine
<1> QED BY <1>2, <1>3, <1>4

\* Nor what a rebuilt tag charges.
LEMMA DropFreePieces ==
    ASSUME NEW n, NEW delims
    PROVE  DropFree(Pieces(n, delims))
<1> DEFINE node == NodeTable[n]
<1>1. \A k : Charge(k).op # "dropBuffer"
  BY DEF Charge
<1>2. DropFree(<<>>) /\ (\A k : DropFree(<<Charge(k)>>)) /\ \A j, k : DropFree(<<Charge(j), Charge(k)>>)
  BY <1>1, DropFreeTuples
<1>3. CASE node.type \in {"Comment", "Partial", "Negate", "Section", "Stop", "Variable"}
  <2>1. PICK sigil : sigil = SigilBytes(node) /\ DropFree(sigil)
    BY <1>2 DEF SigilBytes
  <2>2. PICK first : first = <<Charge(delims[1])>> /\ DropFree(first)
    BY <1>2
  <2>3. PICK last : last = <<Charge(Len(node.data[1])), Charge(delims[2])>> /\ DropFree(last)
    BY <1>2
  <2>4. Pieces(n, delims) = first \o sigil \o last
    BY <1>3, <2>1, <2>2, <2>3 DEF Pieces
  <2>5. PICK w : w = first \o sigil /\ DropFree(w)
    BY <2>1, <2>2, DropFreeConcat
  <2>6. DropFree(w \o last)
    BY <2>3, <2>5, DropFreeConcat
  <2> QED BY <2>4, <2>5, <2>6
<1>4. CASE node.type \notin {"Comment", "Partial", "Negate", "Section", "Stop", "Variable"}
  <2>1. Pieces(n, delims) = <<>> \/ Pieces(n, delims) = <<Charge(Len(node.data[1]))>>
    BY <1>4 DEF Pieces
  <2> QED BY <1>2, <2>1
<1> QED BY <1>3, <1>4

\* Nor does rebuilding.
LEMMA ReplacesRebuildChild ==
    ASSUME StackInv, RebuildChild PROVE Replaces
<1> DEFINE call == Head(control)
           children == NodeTable[call.node].children
           k == call.at
           child == children[k]
           skipped == call.top /\ NodeTable[child].type = "Stop"
           pieces == IF skipped THEN <<>>
                     ELSE Pieces(child, call.delims) \o
                          IF RebuildsChildren(child)
                          THEN <<[call EXCEPT !.node = child, !.depth = @ + 1, !.at = 1, !.top = FALSE]>>
                          ELSE <<>>
<1>1. DOMAIN call = {"op", "node", "depth", "at", "delims", "top"} /\ call.op = "rebuild"
  BY RunningPlain DEF RebuildChild, PlainOps, Inner, Typed
<1>2. PICK a : a = [call EXCEPT !.node = child, !.depth = @ + 1, !.at = 1, !.top = FALSE]
  OBVIOUS
<1>3. PICK b : b = [call EXCEPT !.at = k + 1]
  OBVIOUS
<1>4. a.op # "dropBuffer" /\ b.op # "dropBuffer"
  BY <1>1, <1>2, <1>3
<1>5. DropFree(<<>>) /\ DropFree(<<a>>) /\ DropFree(<<b>>)
  BY <1>4, DropFreeTuples
<1>6. DropFree(pieces)
  <2>1. PICK p : p = Pieces(child, call.delims) /\ DropFree(p)
    BY DropFreePieces
  <2>2. PICK q : q = (IF RebuildsChildren(child) THEN <<a>> ELSE <<>>) /\ DropFree(q)
    BY <1>5
  <2>3. DropFree(p \o q)
    BY <2>1, <2>2, DropFreeConcat
  <2>4. pieces = IF skipped THEN <<>> ELSE p \o q
    BY <1>2, <2>1, <2>2
  <2> HIDE DEF pieces
  <2> QED BY <1>5, <2>3, <2>4
<1>7. Continue(<<>>) \/ Raise \/ Continue(pieces \o <<b>>)
  BY <1>3 DEF RebuildChild
<1> HIDE DEF pieces
<1>8. DropFree(pieces \o <<b>>)
  BY <1>5, <1>6, DropFreeConcat
<1> QED BY <1>5, <1>7, <1>8, ReplacesContinue, ReplacesRaise

\* Nor do the calls that lead to a lambda.
LEMMA ReplacesCallLambda ==
    ASSUME StackInv, SectionText \/ RebuildChild \/ ConsumeLambdaTemplate \/ InvokeSectionLambda \/ InvokeInterpolationLambda
    PROVE  Replaces
<1>1. CASE SectionText
  <2> DEFINE call == Head(control)
             node == NodeTable[call.node]
  <2>1. PICK a : a = At("invoke", call.node, call.depth)
    OBVIOUS
  <2>2. PICK b : b = Charge(Len(node.source[1]))
    OBVIOUS
  <2>3. PICK c : c = [op |-> "rebuild", node |-> call.node, depth |-> call.depth, at |-> 1, delims |-> node.delims, top |-> TRUE]
    OBVIOUS
  <2>4. a.op # "dropBuffer" /\ b.op # "dropBuffer" /\ c.op # "dropBuffer"
    BY <2>1, <2>2, <2>3 DEF At, Charge
  <2>5. DropFree(<<b, a>>) /\ DropFree(<<c, a>>)
    BY <2>4, DropFreeTuples
  <2>6. Raise \/ Continue(<<b, a>>) \/ Continue(<<c, a>>)
    BY <1>1, <2>1, <2>2, <2>3 DEF SectionText
  <2> QED BY <2>5, <2>6, ReplacesContinue, ReplacesRaise
<1>2. CASE ConsumeLambdaTemplate
  <2>1. DropFree(<<>>)
    BY DropFreeTuples
  <2>2. Raise \/ Continue(<<>>)
    BY <1>2 DEF ConsumeLambdaTemplate
  <2> QED BY <2>1, <2>2, ReplacesContinue, ReplacesRaise
<1>3. CASE InvokeSectionLambda
  <2>1. PICK a : a = [op |-> "callback", context |-> Len(contexts) + 1]
    OBVIOUS
  <2>2. PICK b : b = [op |-> "endCallback", context |-> Len(contexts) + 1]
    OBVIOUS
  <2>3. PICK c : c = Op("leaveScope")
    OBVIOUS
  <2>4. PICK d : d = At("result", Head(control).node, Head(control).depth)
    OBVIOUS
  <2>5. a.op # "dropBuffer" /\ b.op # "dropBuffer" /\ c.op # "dropBuffer" /\ d.op # "dropBuffer"
    BY <2>1, <2>2, <2>3, <2>4 DEF Op, At
  <2>6. DropFree(<<a, b, c, d>>)
    BY <2>5, DropFreeTuples
  <2>7. Continue(<<a, b, c, d>>)
    BY <1>3, <2>1, <2>2, <2>3, <2>4 DEF InvokeSectionLambda
  <2> QED BY <2>6, <2>7, ReplacesContinue
<1>4. CASE InvokeInterpolationLambda
  <2>1. PICK a : a = Op("interpolation")
    OBVIOUS
  <2>2. PICK b : b = At("result", Head(control).node, Head(control).depth)
    OBVIOUS
  <2>3. a.op # "dropBuffer" /\ b.op # "dropBuffer"
    BY <2>1, <2>2 DEF Op, At
  <2>4. DropFree(<<a, b>>) /\ Continue(<<a, b>>)
    BY <1>4, <2>1, <2>2, <2>3, DropFreeTuples DEF InvokeInterpolationLambda
  <2> QED BY <2>4, ReplacesContinue
<1> QED BY <1>1, <1>2, <1>3, <1>4, ReplacesRebuildChild

\* The result of a lambda, unless its text is evaluated into a buffer of its own.
LEMMA ReplacesConsumeResult ==
    ASSUME ConsumeResult, buffers' # Append(buffers, <<>>) PROVE Replaces
<1> DEFINE call == Head(control)
           text == returned.text
           inSection == NodeTable[call.node].type = "Section"
<1>1. PICK a : a = IF inSection THEN Write("append", text) ELSE Emit(call.node, text)
  OBVIOUS
<1>2. PICK b : b = NodeCall(TemplateTable[text].root, call.depth + 1, <<>>, FALSE)
  OBVIOUS
<1>3. PICK c : c = Op("popIndentation")
  OBVIOUS
<1>4. a.op # "dropBuffer" /\ b.op # "dropBuffer" /\ c.op # "dropBuffer"
  BY <1>1, <1>2, <1>3 DEF Write, Emit, NodeCall, Op
<1>5. DropFree(<<a>>) /\ DropFree(<<b, c>>)
  BY <1>4, DropFreeTuples
<1>6. Raise \/ Continue(<<a>>) \/ Continue(<<b, c>>)
  BY <1>1, <1>2, <1>3 DEF ConsumeResult
<1> QED BY <1>5, <1>6, ReplacesContinue, ReplacesRaise

-----------------------------------------------------------------------------
(* What the aggregate of written bytes pays for *)

\* The buffers whose bytes are still to reach the caller: all but one that has just been evaluated.
LiveBuffers == Len(buffers) - (IF HeadIn(control, {"dropBuffer"}) THEN 1 ELSE 0)
\* f[j] adds up the bytes in the first j buffers.  What a callback had in its own
\* string before it rendered into it was not charged, and a helper's buffer may count for less.
Totals(f) ==
    /\ f \in [0..Len(buffers) -> Nat] /\ f[0] = 0
    /\ \A j \in 1..Len(buffers) : f[j] >= f[j - 1]
    /\ \A j \in {1} \cup Drops(control) : f[j] = f[j - 1] + Len(buffers[j])
Paid(f) ==
    /\ f[LiveBuffers] <= spent.output
    /\ calls = 0 /\ ~throwing => f[LiveBuffers] = spent.output
LedgerInv ==
    /\ spent \in Counters /\ calls \in Nat
    /\ throwing /\ HeadIn(control, UserOps) => calls # 0
    /\ rendering /\ calls = 0 => 2..Len(buffers) \subseteq Drops(control)
    /\ rendering => \E f : Totals(f) /\ Paid(f)

\* Output goes to the innermost buffer, except while that buffer's redirection has ended.
LEMMA Innermost ==
    ASSUME NEW s, WellNested(s), NEW n \in Nat, NEW o, n = 1 + Temporaries(s), o = 1 + Count(s, "restoreOutput")
    PROVE  /\ n \in Nat \ {0} /\ o \in Nat \ {0}
           /\ n = o + (IF HeadIn(s, {"evaluated", "dropBuffer", "endHelper"}) THEN 1 ELSE 0)
           /\ Drops(s) \subseteq 2..n
<1>1. IsSeq(s) /\ Balanced(s)
  BY WellNestedPop, WellNestedIsBalanced
<1>2. Temporaries(s) \in Nat /\ Drops(s) \subseteq 2..(1 + Temporaries(s))
  BY <1>1, DropsBounded
<1>3. Count(s, "restoreOutput") \in Nat
  <2>1. CASE s = <<>>
    BY <2>1, TalliesEmpty
  <2>2. CASE s # <<>>
    BY <1>1, <2>2, TalliesBelow
  <2> QED BY <2>1, <2>2
<1>4. Temporaries(s) = Count(s, "restoreOutput") + (IF HeadIn(s, {"evaluated", "dropBuffer", "endHelper"}) THEN 1 ELSE 0)
  BY <1>1 DEF Balanced
<1> QED BY <1>2, <1>3, <1>4

\* The same, of the pending calls as they are.
LEMMA InnermostNow ==
    ASSUME StackInv, rendering
    PROVE  /\ Len(buffers) \in Nat \ {0} /\ output \in Nat \ {0}
           /\ Len(buffers) = output + (IF HeadIn(control, {"evaluated", "dropBuffer", "endHelper"}) THEN 1 ELSE 0)
           /\ Drops(control) \subseteq 2..Len(buffers)
           /\ DOMAIN buffers = 1..Len(buffers)
<1>1. Len(buffers) = 1 + Temporaries(control) /\ output = 1 + Count(control, "restoreOutput") /\ IsSeq(buffers)
  BY DEF StackInv, BuffersFit
<1>2. Len(buffers) \in Nat /\ DOMAIN buffers = 1..Len(buffers)
  BY <1>1 DEF IsSeq
<1>3. WellNested(control)
  BY DEF StackInv, ControlFits
<1> QED BY <1>1, <1>2, <1>3, Innermost

\* The pending calls after a step that the invariant allows.
LEMMA InnermostNext ==
    ASSUME StackInv', rendering'
    PROVE  /\ Len(buffers') \in Nat \ {0} /\ output' \in Nat \ {0}
           /\ Len(buffers') = output' + (IF HeadIn(control', {"evaluated", "dropBuffer", "endHelper"}) THEN 1 ELSE 0)
           /\ Drops(control') \subseteq 2..Len(buffers')
<1>1. Len(buffers') = 1 + Temporaries(control') /\ output' = 1 + Count(control', "restoreOutput") /\ IsSeq(buffers')
  BY DEF StackInv, BuffersFit
<1>2. Len(buffers') \in Nat
  BY <1>1 DEF IsSeq
<1>3. WellNested(control')
  BY DEF StackInv, ControlFits
<1> QED BY <1>1, <1>2, <1>3, Innermost

\* Once output is the last buffer again, no redirection is left half undone.
LEMMA NoneDetached ==
    ASSUME StackInv', rendering', Len(buffers') = output'
    PROVE  ~HeadIn(control', {"evaluated", "dropBuffer", "endHelper"}) /\ ~HeadIn(control', {"dropBuffer"})
<1>1. PICK o \in Nat : o = output'
  BY InnermostNext
<1>2. o = o + (IF HeadIn(control', {"evaluated", "dropBuffer", "endHelper"}) THEN 1 ELSE 0)
  BY <1>1, InnermostNext
<1>3. o # o + 1
  OBVIOUS
<1>4. ~HeadIn(control', {"evaluated", "dropBuffer", "endHelper"})
  BY <1>2, <1>3
<1> QED BY <1>4 DEF HeadIn

\* A step that moves no bytes and leaves the evaluations as they are.
LEMMA LedgerQuiet ==
    ASSUME StackInv, LedgerInv, rendering, UNCHANGED <<rendering, buffers>>,
           spent' \in Counters, spent'.output = spent.output, Drops(control') = Drops(control),
           calls' \in Nat, calls' = 0 => calls = 0,
           \/ ~HeadIn(control', {"dropBuffer"}) /\ ~HeadIn(control, {"dropBuffer"})
           \/ throwing' /\ ~HeadIn(control, {"dropBuffer"}),
           calls' = 0 /\ ~throwing' => ~throwing,
           throwing' /\ HeadIn(control', UserOps) => calls' # 0
    PROVE  LedgerInv'
<1>1. PICK f : Totals(f) /\ Paid(f)
  BY DEF LedgerInv
<1>2. PICK n \in Nat \ {0} : n = Len(buffers)
  BY InnermostNow
<1>3. PICK m \in {n, n - 1} : m = LiveBuffers' /\ (m = n \/ throwing')
  BY <1>2 DEF LiveBuffers
<1>4. LiveBuffers = n
  BY <1>2 DEF LiveBuffers
<1>5. Totals(f)'
  BY <1>1 DEF Totals
<1>6. f[m] \in Nat /\ f[n] \in Nat /\ f[m] <= f[n]
  <2>1. m \in 0..n /\ n \in 0..n /\ n \in 1..n
    OBVIOUS
  <2>2. f \in [0..n -> Nat] /\ f[n] >= f[n - 1]
    BY <1>1, <1>2, <2>1 DEF Totals
  <2>3. f[m] \in Nat /\ f[n] \in Nat
    BY <2>1, <2>2
  <2> QED BY <2>2, <2>3
<1>7. spent.output \in Nat
  BY DEF LedgerInv, Counters
<1>8. Paid(f)'
  <2>1. f[n] <= spent.output
    BY <1>1, <1>4 DEF Paid
  <2>2. f[m] <= spent'.output
    BY <1>6, <1>7, <2>1
  <2>3. ASSUME calls' = 0, ~throwing' PROVE f[m] = spent'.output
    BY <1>1, <1>3, <1>4, <2>3 DEF Paid
  <2> QED BY <1>3, <2>2, <2>3 DEF Paid
<1>9. rendering' /\ calls' = 0 => 2..Len(buffers') \subseteq Drops(control')
  BY DEF LedgerInv
<1> QED BY <1>5, <1>8, <1>9 DEF LedgerInv

-----------------------------------------------------------------------------
(* Steps that move no byte *)

\* The pending calls below the one that runs.
LEMMA DropsTail ==
    ASSUME StackInv, control # <<>>, Head(control).op # "dropBuffer"
    PROVE  Drops(Tail(control)) = Drops(control)
<1>1. IsSeq(Tail(control)) /\ control = <<Head(control)>> \o Tail(control)
  BY RunningCall, TalliesBelow
<1>2. PICK h : h = Head(control)
  OBVIOUS
<1>3. PICK t : t = Tail(control)
  OBVIOUS
<1>4. Drops(<<h>> \o t) = Drops(t)
  BY <1>1, <1>2, <1>3, DropsPush
<1> QED BY <1>1, <1>2, <1>3, <1>4

\* A call of the engine that writes nothing.
LEMMA LedgerReplaces ==
    ASSUME StackInv, StackInv', LedgerInv, NEW op \in PlainOps, Running(op), Replaces,
           UNCHANGED <<rendering, sinks, calls>>, spent' \in Counters, spent'.output = spent.output
    PROVE  LedgerInv'
<1>1. control # <<>> /\ ~throwing /\ Head(control).op = op /\ rendering
  BY RunningCall DEF Running
<1>2. op \notin {"evaluated", "dropBuffer", "endHelper"} \cup UserOps
  BY PlainOpsAreNot DEF Special
<1>3. Len(buffers) = output /\ UNCHANGED buffers
  <2>1. ~HeadIn(control, {"evaluated", "dropBuffer", "endHelper"})
    BY <1>1, <1>2 DEF HeadIn
  <2> QED BY <1>1, <2>1, InnermostNow DEF sinks
<1>4. ~HeadIn(control', {"dropBuffer"}) /\ ~HeadIn(control, {"dropBuffer"})
  <2>1. ~HeadIn(control', {"dropBuffer"})
    BY <1>1, <1>3, NoneDetached DEF sinks
  <2> QED BY <1>1, <1>2, <2>1 DEF HeadIn
<1>5. Drops(control') = Drops(control)
  <2>1. CASE UNCHANGED control
    BY <2>1
  <2>2. CASE \E u : DropFree(u) /\ control' = u \o Tail(control)
    <3>1. PICK u : DropFree(u) /\ control' = u \o Tail(control)
      BY <2>2
    <3>2. IsSeq(Tail(control))
      BY <1>1, RunningCall
    <3>3. PICK t : t = Tail(control)
      OBVIOUS
    <3>4. Drops(u \o t) = Drops(t)
      BY <3>1, <3>2, <3>3, DropsBelow
    <3>5. Drops(t) = Drops(control)
      BY <1>1, <1>2, <3>3, DropsTail
    <3> QED BY <3>1, <3>3, <3>4, <3>5
  <2> QED BY <2>1, <2>2 DEF Replaces
<1>6. throwing' /\ HeadIn(control', UserOps) => calls' # 0
  BY <1>1, <1>2 DEF Replaces, HeadIn
<1>7. calls' \in Nat
  BY DEF LedgerInv
<1> QED BY <1>1, <1>3, <1>4, <1>5, <1>6, <1>7, LedgerQuiet

\* A guard of anything but a buffer, or a call that an exception abandons.
LEMMA LedgerUnwinds ==
    ASSUME StackInv, StackInv', LedgerInv, control # <<>>, Head(control).op \notin {"dropBuffer", "endHelper"},
           Head(control).op = "evaluated" => throwing,
           control' = Tail(control), UNCHANGED <<rendering, buffers, spent, calls, throwing>>
    PROVE  LedgerInv'
<1>1. rendering /\ Fits(Head(control), Tail(control))
  BY RunningCall
<1>2. Drops(control') = Drops(control)
  BY DropsTail
<1>3. HeadIn(control', {"dropBuffer"}) => throwing'
  BY <1>1 DEF Fits
<1>4. ~HeadIn(control, {"dropBuffer"})
  BY DEF HeadIn
<1>5. ~HeadIn(control', UserOps)
  BY <1>1 DEF Fits
<1> QED BY <1>1, <1>2, <1>3, <1>4, <1>5, LedgerQuiet DEF LedgerInv

\* User code that calls nothing the engine carries out.
LEMMA LedgerUserCode ==
    ASSUME StackInv, StackInv', LedgerInv, control # <<>>, Head(control).op \in UserOps,
           UNCHANGED <<rendering, sinks>>, spent' \in Counters, spent'.output = spent.output,
           \/ control' = Tail(control) /\ ~throwing /\ ~throwing' /\ calls' = calls
           \/ control' = control /\ calls' = calls + 1 /\ throwing'
           \/ control' = control /\ calls' = calls /\ throwing /\ ~throwing'
    PROVE  LedgerInv'
<1>1. rendering
  BY RunningCall
<1>2. Head(control).op \notin {"evaluated", "dropBuffer", "endHelper"}
  BY DEF UserOps
<1>3. Len(buffers) = output /\ UNCHANGED buffers
  <2>1. ~HeadIn(control, {"evaluated", "dropBuffer", "endHelper"})
    BY <1>2 DEF HeadIn
  <2> QED BY <1>1, <2>1, InnermostNow DEF sinks
<1>4. ~HeadIn(control', {"dropBuffer"}) /\ ~HeadIn(control, {"dropBuffer"})
  <2>1. ~HeadIn(control', {"dropBuffer"})
    BY <1>1, <1>3, NoneDetached DEF sinks
  <2> QED BY <1>1, <1>2, <2>1 DEF HeadIn
<1>5. Drops(control') = Drops(control)
  BY <1>2, DropsTail
<1>6. calls \in Nat /\ calls' \in Nat /\ (calls' = 0 => calls = 0)
  BY DEF LedgerInv
<1>7. throwing' /\ HeadIn(control', UserOps) => calls' # 0
  BY <1>6
<1>8. calls' = 0 /\ ~throwing' => ~throwing
  <2>1. throwing => calls # 0
    BY DEF LedgerInv, HeadIn
  <2> QED BY <1>6, <2>1
<1> QED BY <1>1, <1>3, <1>4, <1>5, <1>6, <1>7, <1>8, LedgerQuiet

\* A charge to another budget.
LEMMA SameOutput ==
    ASSUME NEW s \in Counters, NEW n, NEW m
    PROVE  /\ [s EXCEPT !.visits = @ + n].output = s.output
           /\ [s EXCEPT !.lambda = @ + n].output = s.output
           /\ [s EXCEPT !.lambda = @ + n, !.visits = @ + m].output = s.output
BY DEF Counters

\* The traversal writes nothing.
LEMMA LedgerTraverse ==
    ASSUME StackInv, StackInv', LedgerInv, Traverse PROVE LedgerInv'
<1>1. PICK op \in PlainOps : Running(op)
  <2>1. {"node", "children", "context", "partial"} \subseteq PlainOps
    BY DEF PlainOps, Inner
  <2>2. Running("node") \/ Running("children") \/ Running("context") \/ Running("partial")
    BY DEF Traverse, EnterNode, RenderChildren, PushContext, RenderPartial
  <2> QED BY <2>1, <2>2
<1>2. Replaces
  BY ReplacesTraverse
<1>3. UNCHANGED <<rendering, sinks, calls>>
  BY DEF Traverse, EnterNode, RenderChildren, PushContext, RenderPartial, settings, callbacks, sinks
<1>4. spent \in Counters
  BY DEF LedgerInv
<1>5. spent' \in Counters
  BY <1>4, IsolatedTraverse DEF Isolated
<1>6. spent'.output = spent.output
  <2>1. UNCHANGED spent \/ spent' = [spent EXCEPT !.visits = @ + 1]
    BY DEF Traverse, EnterNode, RenderChildren, PushContext, RenderPartial
  <2>2. [spent EXCEPT !.visits = @ + 1].output = spent.output
    BY <1>4, SameOutput
  <2> QED BY <2>1, <2>2
<1> QED BY <1>1, <1>2, <1>3, <1>5, <1>6, LedgerReplaces

-----------------------------------------------------------------------------
(* Steps that move bytes *)

\* Of n buffers with totals f, the m-th grows by b bytes, and no evaluation begins or ends.
BufferGrows(f, n, m, b) ==
    /\ Totals(f) /\ n \in Nat \ {0} /\ n = Len(buffers) /\ Len(buffers') = n /\ m \in 1..n /\ b \in Nat
    /\ \A j \in 1..n : Len(buffers[j]) \in Nat
    /\ Drops(control) \subseteq 2..n /\ Drops(control') = Drops(control)
    /\ \A j \in 1..n : Len(buffers'[j]) = IF j = m THEN Len(buffers[j]) + b ELSE Len(buffers[j])
\* Bytes are appended to one buffer: the totals from there on grow by them.
LEMMA AppendedTotals ==
    ASSUME NEW f, NEW n, NEW m, NEW b, BufferGrows(f, n, m, b)
    PROVE  \E g : Totals(g)' /\ g[m] = f[m] + b
<1>a. /\ Totals(f) /\ n \in Nat \ {0} /\ n = Len(buffers) /\ Len(buffers') = n /\ m \in 1..n /\ b \in Nat
      /\ \A j \in 1..n : Len(buffers[j]) \in Nat
      /\ Drops(control) \subseteq 2..n /\ Drops(control') = Drops(control)
  BY DEF BufferGrows
<1>b. \A j \in 1..n : Len(buffers'[j]) = IF j = m THEN Len(buffers[j]) + b ELSE Len(buffers[j])
  BY DEF BufferGrows
<1>1. f \in [0..n -> Nat] /\ f[0] = 0 /\ \A j \in 1..n : f[j] >= f[j - 1]
  BY <1>a DEF Totals
<1>2. PICK g : g = [j \in 0..n |-> IF j >= m THEN f[j] + b ELSE f[j]]
  OBVIOUS
<1>3. g \in [0..n -> Nat] /\ g[0] = 0 /\ g[m] = f[m] + b
  BY <1>a, <1>1, <1>2
<1>4. ASSUME NEW j \in 1..n PROVE g[j] >= g[j - 1] /\ (f[j] = f[j - 1] + Len(buffers[j]) => g[j] = g[j - 1] + Len(buffers'[j]))
  <2>1. PICK i \in 0..n : i = j - 1 /\ i < j
    BY <1>a
  <2>2. PICK x \in Nat, y \in Nat : x = f[j] /\ y = f[i] /\ x >= y
    <3>1. j \in 0..n
      BY <1>a
    <3>2. f[j] \in Nat /\ f[i] \in Nat
      BY <1>1, <3>1
    <3>3. f[j] >= f[i]
      BY <1>1, <2>1
    <3> QED BY <3>2, <3>3
  <2>3. PICK k \in Nat : k = Len(buffers[j])
    BY <1>a
  <2>4. j \in 0..n /\ j \in Nat /\ m \in Nat
    BY <1>a
  <2>5. PICK p : p = g[j] /\ p = (IF j >= m THEN x + b ELSE x)
    BY <1>2, <2>2, <2>4
  <2>6. PICK q : q = g[i] /\ q = (IF i >= m THEN y + b ELSE y)
    BY <1>2, <2>2
  <2>7. PICK l : l = Len(buffers'[j]) /\ l = (IF j = m THEN k + b ELSE k)
    BY <1>b, <2>3
  <2>8. p >= q /\ (x = y + k => p = q + l)
    <3>1. CASE j < m
      <4>1. p = x /\ q = y /\ l = k
        BY <2>1, <2>5, <2>6, <2>7, <2>4, <3>1
      <4> QED BY <2>2, <4>1
    <3>2. CASE j = m
      <4>1. p = x + b /\ q = y /\ l = k + b
        BY <2>1, <2>5, <2>6, <2>7, <2>4, <3>2
      <4>2. PICK c \in Nat : c = b
        BY <1>a
      <4>3. x + c >= y
        BY <2>2
      <4>4. ASSUME x = y + k PROVE x + c = y + (k + c)
        BY <4>4
      <4> QED BY <4>1, <4>2, <4>3, <4>4
    <3>3. CASE j > m
      <4>1. p = x + b /\ q = y + b /\ l = k
        BY <2>1, <2>5, <2>6, <2>7, <2>4, <3>3
      <4>2. PICK c \in Nat : c = b
        BY <1>a
      <4>3. x + c >= y + c
        BY <2>2
      <4>4. ASSUME x = y + k PROVE x + c = (y + c) + k
        BY <4>4
      <4> QED BY <4>1, <4>2, <4>3, <4>4
    <3> QED BY <2>4, <3>1, <3>2, <3>3
  <2> QED BY <2>1, <2>2, <2>3, <2>5, <2>6, <2>7, <2>8
<1>5. \A j \in {1} \cup Drops(control') : j \in 1..n /\ f[j] = f[j - 1] + Len(buffers[j])
  BY <1>a DEF Totals
<1>6. \A j \in {1} \cup Drops(control') : g[j] = g[j - 1] + Len(buffers'[j])
  BY <1>4, <1>5
<1>7. Totals(g)'
  BY <1>a, <1>3, <1>4, <1>6 DEF Totals
<1> QED BY <1>3, <1>7

\* A buffer is added: nothing in it has been charged yet.
LEMMA PushedTotals ==
    ASSUME NEW f, Totals(f), NEW n \in Nat \ {0}, n = Len(buffers), Len(buffers') = n + 1,
           \A j \in 1..n : buffers'[j] = buffers[j], Drops(control) \subseteq 2..n,
           Drops(control') \subseteq Drops(control) \cup {n + 1}, n + 1 \in Drops(control') => Len(buffers'[n + 1]) = 0
    PROVE  \E g : Totals(g)' /\ g[n + 1] = f[n]
<1>1. f \in [0..n -> Nat] /\ f[0] = 0 /\ \A j \in 1..n : f[j] >= f[j - 1]
  BY DEF Totals
<1>2. PICK g : g = [j \in 0..(n + 1) |-> IF j = n + 1 THEN f[n] ELSE f[j]]
  OBVIOUS
<1>3. g \in [0..(n + 1) -> Nat] /\ g[0] = 0 /\ g[n + 1] = f[n]
  <2>1. \A j \in 0..(n + 1) : j = n + 1 \/ j \in 0..n
    OBVIOUS
  <2>2. \A j \in 0..(n + 1) : g[j] \in Nat
    BY <1>1, <1>2, <2>1
  <2> QED BY <1>1, <1>2, <2>2
<1>4. \A j \in 1..n : g[j] = f[j] /\ g[j - 1] = f[j - 1]
  BY <1>2
<1>5. g[n + 1] = g[n] /\ g[n] \in Nat /\ (n + 1) - 1 = n
  BY <1>1, <1>2
<1>6. \A j \in 1..(n + 1) : j = n + 1 \/ j \in 1..n
  OBVIOUS
<1>7. \A j \in 1..(n + 1) : g[j] >= g[j - 1]
  BY <1>1, <1>4, <1>5, <1>6
<1>8. ASSUME NEW j \in {1} \cup Drops(control') PROVE g[j] = g[j - 1] + Len(buffers'[j])
  <2>1. CASE j = n + 1 /\ j \in Drops(control')
    BY <1>5, <2>1
  <2>2. CASE j \in {1} \cup Drops(control)
    <3>1. j \in 1..n /\ f[j] = f[j - 1] + Len(buffers[j])
      BY <2>2 DEF Totals
    <3> QED BY <1>4, <3>1
  <2> QED BY <2>1, <2>2
<1>9. Totals(g)'
  BY <1>3, <1>7, <1>8 DEF Totals
<1> QED BY <1>3, <1>9

\* The last buffer goes.
LEMMA PoppedTotals ==
    ASSUME NEW f, Totals(f), NEW n \in Nat, n > 1, n = Len(buffers), Len(buffers') = n - 1,
           \A j \in 1..(n - 1) : buffers'[j] = buffers[j], Drops(control') \subseteq Drops(control), Drops(control') \subseteq 2..(n - 1)
    PROVE  \E g : Totals(g)' /\ \A j \in 0..(n - 1) : g[j] = f[j]
<1>1. f \in [0..n -> Nat] /\ f[0] = 0 /\ \A j \in 1..n : f[j] >= f[j - 1]
  BY DEF Totals
<1>2. PICK g : g = [j \in 0..(n - 1) |-> f[j]]
  OBVIOUS
<1>3. g \in [0..(n - 1) -> Nat] /\ g[0] = 0 /\ \A j \in 0..(n - 1) : g[j] = f[j]
  BY <1>1, <1>2
<1>4. \A j \in 1..(n - 1) : j \in 1..n /\ j - 1 \in 0..(n - 1) /\ j \in 0..(n - 1)
  OBVIOUS
<1>5. \A j \in 1..(n - 1) : g[j] >= g[j - 1]
  BY <1>1, <1>3, <1>4
<1>6. ASSUME NEW j \in {1} \cup Drops(control') PROVE g[j] = g[j - 1] + Len(buffers'[j])
  <2>1. j \in 1..(n - 1)
    OBVIOUS
  <2>2. f[j] = f[j - 1] + Len(buffers[j])
    BY DEF Totals
  <2> QED BY <1>3, <1>4, <2>1, <2>2
<1>7. Totals(g)'
  BY <1>3, <1>5, <1>6 DEF Totals
<1> QED BY <1>3, <1>7

\* A string is appended to a buffer.
LEMMA GrownBuffer ==
    ASSUME IsSeq(buffers), NEW m \in DOMAIN buffers, \A j \in DOMAIN buffers : IsSeq(buffers[j]),
           NEW bytes, IsSeq(bytes), buffers' = [buffers EXCEPT ![m] = @ \o bytes]
    PROVE  /\ Len(buffers') = Len(buffers)
           /\ \A j \in DOMAIN buffers :
                 Len(buffers'[j]) = IF j = m THEN Len(buffers[j]) + Len(bytes) ELSE Len(buffers[j])
<1>1. PICK S : buffers \in Seq(S)
  BY DEF IsSeq
<1>2. PICK n \in Nat : n = Len(buffers) /\ DOMAIN buffers = 1..n
  BY <1>1
<1>3. PICK w : w = buffers[m] \o bytes
  OBVIOUS
<1>4. buffers' = [j \in 1..n |-> IF j = m THEN w ELSE buffers[j]]
  <2>1. buffers = [j \in 1..n |-> buffers[j]]
    BY <1>2, <1>1
  <2> QED BY <1>3, <2>1
<1>5. Len(buffers') = n
  <2> DEFINE U == S \cup {w}
  <2>1. \A j \in 1..n : (IF j = m THEN w ELSE buffers[j]) \in U
    BY <1>2, <1>1
  <2> HIDE DEF U
  <2>2. [j \in 1..n |-> IF j = m THEN w ELSE buffers[j]] \in Seq(U)
    BY <2>1
  <2>3. buffers' \in Seq(U) /\ DOMAIN buffers' = 1..n
    BY <1>4, <2>2
  <2> QED BY <2>3
<1>6. Len(w) = Len(buffers[m]) + Len(bytes)
  BY <1>3, Concat
<1> QED BY <1>2, <1>4, <1>5, <1>6

\* The buffers that a render has, and what is in them.
LEMMA LiveStrings ==
    ASSUME StackInv, rendering
    PROVE  /\ IsSeq(buffers) /\ DOMAIN buffers = 1..Len(buffers)
           /\ \A j \in 1..Len(buffers) : IsSeq(buffers[j]) /\ Len(buffers[j]) \in Nat
<1>1. IsSeq(buffers) /\ DOMAIN buffers = 1..Len(buffers) /\ \A j \in DOMAIN buffers : IsSeq(buffers[j])
  BY InnermostNow DEF StackInv, BuffersFit, ValuesFit
<1>2. \A s : IsSeq(s) => Len(s) \in Nat
  BY DEF IsSeq
<1> QED BY <1>1, <1>2

\* A write that completes ends its call.
LEMMA WriteEnds ==
    ASSUME StackInv, control # <<>>, Head(control).op # "dropBuffer", Continue(<<>>)
    PROVE  control' = Tail(control) /\ ~throwing' /\ Drops(control') = Drops(control)
<1>1. control' = Tail(control)
  BY RunningCall, NoCalls DEF Continue
<1> QED BY <1>1, DropsTail DEF Continue

\* A charge to the output budget.
LEMMA OutputCharged ==
    ASSUME NEW s \in Counters, NEW n \in Nat
    PROVE  LET t == [s EXCEPT !.output = @ + n] IN t \in Counters /\ t.output = s.output + n /\ s.output \in Nat
BY DEF Counters

\* A write to the innermost buffer is charged byte by byte.
LEMMA LedgerWrites ==
    ASSUME StackInv, StackInv', LedgerInv, control # <<>>, ~throwing, Head(control).op \in {"append", "escape"},
           NEW bytes, IsSeq(bytes), buffers' = [buffers EXCEPT ![output] = @ \o bytes],
           spent' = [spent EXCEPT !.output = @ + Len(bytes)], Continue(<<>>), UNCHANGED <<rendering, output, calls>>
    PROVE  LedgerInv'
<1>1. rendering /\ rendering'
  BY RunningCall
<1>2. ~HeadIn(control, {"evaluated", "dropBuffer", "endHelper"}) /\ ~HeadIn(control, {"dropBuffer"})
  BY DEF HeadIn
<1>3. PICK n \in Nat \ {0} : n = Len(buffers) /\ n = output
  BY <1>1, <1>2, InnermostNow
<1>4. PICK b \in Nat : b = Len(bytes)
  BY DEF IsSeq
<1>5. IsSeq(buffers) /\ DOMAIN buffers = 1..n /\ \A j \in 1..n : IsSeq(buffers[j]) /\ Len(buffers[j]) \in Nat
  BY <1>1, <1>3, LiveStrings
<1>6. n \in 1..n /\ Drops(control) \subseteq 2..n
  BY <1>1, <1>3, InnermostNow
<1>7. Len(buffers') = n /\ \A j \in 1..n : Len(buffers'[j]) = IF j = n THEN Len(buffers[j]) + b ELSE Len(buffers[j])
  BY <1>3, <1>4, <1>5, <1>6, GrownBuffer
<1>8. ~throwing' /\ Drops(control') = Drops(control)
  BY WriteEnds
<1>9. LiveBuffers = n /\ LiveBuffers' = n
  <2>1. ~HeadIn(control', {"dropBuffer"})
    BY <1>1, <1>3, <1>7, NoneDetached
  <2> QED BY <1>2, <1>3, <1>7, <2>1 DEF LiveBuffers
<1>10. PICK f : Totals(f) /\ Paid(f)
  BY <1>1 DEF LedgerInv
<1>11. PICK g : Totals(g)' /\ g[n] = f[n] + b
  <2>1. BufferGrows(f, n, n, b)
    BY <1>3, <1>4, <1>5, <1>6, <1>7, <1>8, <1>10 DEF BufferGrows
  <2> QED BY <2>1, AppendedTotals
<1>12. PICK o \in Nat : o = spent.output /\ spent'.output = o + b /\ spent' \in Counters
  BY <1>4 DEF LedgerInv, Counters
<1>13. PICK t \in Nat : t = f[n]
  BY <1>3, <1>10 DEF Totals
<1>14. t <= o /\ (calls = 0 => t = o)
  BY <1>9, <1>10, <1>12, <1>13 DEF Paid
<1>15. Paid(g)'
  BY <1>9, <1>11, <1>12, <1>13, <1>14 DEF Paid
<1> QED BY <1>1, <1>3, <1>7, <1>8, <1>11, <1>12, <1>15 DEF LedgerInv

\* The evaluated text is escaped into the buffer below its own, which is about to go.
LEMMA LedgerEvaluated ==
    ASSUME StackInv, StackInv', LedgerInv, control # <<>>, ~throwing, Head(control).op = "evaluated",
           NEW bytes, NEW grown \in Nat, IsSeq(bytes), Len(bytes) = Len(buffers[Len(buffers)]) + grown,
           buffers' = [buffers EXCEPT ![output] = @ \o bytes],
           spent' = [spent EXCEPT !.output = @ + grown], Continue(<<>>), UNCHANGED <<rendering, output, calls>>
    PROVE  LedgerInv'
<1>1. rendering /\ rendering' /\ HeadIn(Tail(control), {"dropBuffer"})
  BY RunningCall DEF Fits
<1>2. HeadIn(control, {"evaluated", "dropBuffer", "endHelper"}) /\ ~HeadIn(control, {"dropBuffer"})
  BY DEF HeadIn
<1>3. PICK n \in Nat \ {0}, m \in Nat \ {0} : n = Len(buffers) /\ m = output /\ n = m + 1
  BY <1>1, <1>2, InnermostNow
<1>4. PICK b \in Nat : b = Len(bytes)
  BY DEF IsSeq
<1>5. IsSeq(buffers) /\ DOMAIN buffers = 1..n /\ \A j \in 1..n : IsSeq(buffers[j]) /\ Len(buffers[j]) \in Nat
  BY <1>1, <1>3, LiveStrings
<1>6. m \in 1..n /\ n \in 1..n /\ n - 1 = m /\ Drops(control) \subseteq 2..n
  BY <1>1, <1>3, InnermostNow
<1>7. Len(buffers') = n /\ \A j \in 1..n : Len(buffers'[j]) = IF j = m THEN Len(buffers[j]) + b ELSE Len(buffers[j])
  BY <1>3, <1>4, <1>5, <1>6, GrownBuffer
<1>8. control' = Tail(control) /\ ~throwing' /\ Drops(control') = Drops(control)
  BY WriteEnds
<1>9. LiveBuffers = n /\ LiveBuffers' = m
  BY <1>1, <1>2, <1>3, <1>6, <1>7, <1>8 DEF LiveBuffers
<1>10. n \in Drops(control)
  <2>1. PICK t : t = Tail(control) /\ IsSeq(t) /\ t # <<>> /\ Head(t).op = "dropBuffer"
    BY <1>1, RunningCall DEF HeadIn
  <2>2. IsSeq(Tail(t)) /\ t = <<Head(t)>> \o Tail(t)
    BY <2>1, TalliesBelow
  <2>3. PICK h, r : h = Head(t) /\ r = Tail(t) /\ IsSeq(r) /\ t = <<h>> \o r
    BY <2>2
  <2>4. Drops(t) = Drops(r) \cup {2 + Temporaries(r)}
    BY <2>1, <2>3, DropsPush
  <2>5. 2 + Temporaries(r) = n
    <3>1. /\ \A op : Count(t, op) = Count(r, op) + (IF h.op = op THEN 1 ELSE 0)
          /\ \A op : Count(r, op) \in Nat
      BY <2>1, <2>3, TalliesBelow
    <3>2. Temporaries(t) = Temporaries(r) + 1 /\ Temporaries(r) \in Nat
      <4>1. PICK x \in Nat, y \in Nat : x = Count(r, "dropBuffer") /\ y = Count(r, "endHelper")
        BY <3>1
      <4>2. h.op = "dropBuffer"
        BY <2>1, <2>3
      <4>3. Count(t, "dropBuffer") = x + 1 /\ Count(t, "endHelper") = y + 0
        BY <3>1, <4>1, <4>2
      <4>4. Temporaries(t) = (x + 1) + (y + 0) /\ Temporaries(r) = x + y
        BY <4>1, <4>3 DEF Temporaries
      <4> QED BY <4>4
    <3>3. Len(buffers') = 1 + Temporaries(t)
      BY <1>1, <1>8, <2>1 DEF StackInv, BuffersFit
    <3>4. PICK k \in Nat : k = Temporaries(r)
      BY <3>2
    <3> QED BY <1>7, <3>2, <3>3, <3>4
  <2> QED BY <1>8, <2>1, <2>4, <2>5
<1>11. PICK f : Totals(f) /\ Paid(f)
  BY <1>1 DEF LedgerInv
<1>12. PICK g : Totals(g)' /\ g[m] = f[m] + b
  <2>1. /\ Totals(f) /\ n = Len(buffers) /\ Len(buffers') = n /\ \A j \in 1..n : Len(buffers[j]) \in Nat
        /\ Drops(control) \subseteq 2..n /\ Drops(control') = Drops(control) /\ m \in 1..n /\ n \in Nat \ {0} /\ b \in Nat
        /\ \A j \in 1..n : Len(buffers'[j]) = IF j = m THEN Len(buffers[j]) + b ELSE Len(buffers[j])
    BY <1>3, <1>4, <1>5, <1>6, <1>7, <1>8, <1>11
  <2>2. BufferGrows(f, n, m, b)
    BY <2>1 DEF BufferGrows
  <2> QED BY <2>2, AppendedTotals
<1>13. PICK o \in Nat : o = spent.output /\ spent'.output = o + grown /\ spent' \in Counters
  <2>1. PICK k \in Nat : k = grown
    OBVIOUS
  <2>2. spent \in Counters /\ spent' = [spent EXCEPT !.output = @ + k]
    BY <2>1 DEF LedgerInv
  <2>3. spent' \in Counters /\ spent'.output = spent.output + k /\ spent.output \in Nat
    BY <2>2, OutputCharged
  <2> QED BY <2>1, <2>3
<1>14. PICK t \in Nat, u \in Nat, e \in Nat : t = f[m] /\ u = f[n] /\ e = Len(buffers[n]) /\ u = t + e /\ b = e + grown
  <2>1. f[m] \in Nat /\ f[n] \in Nat
    BY <1>3, <1>6, <1>11 DEF Totals
  <2>2. f[n] = f[m] + Len(buffers[n])
    BY <1>6, <1>10, <1>11 DEF Totals
  <2> QED BY <1>3, <1>4, <1>5, <1>6, <2>1, <2>2
<1>15. u <= o /\ (calls = 0 => u = o)
  BY <1>9, <1>11, <1>13, <1>14 DEF Paid
<1>16. g[m] = u + grown
  <2>1. PICK k \in Nat : k = grown
    OBVIOUS
  <2>2. t + (e + k) = (t + e) + k
    OBVIOUS
  <2> QED BY <1>12, <1>14, <2>1, <2>2
<1>17. Paid(g)'
  BY <1>9, <1>13, <1>15, <1>16 DEF Paid
<1> QED BY <1>1, <1>3, <1>7, <1>8, <1>12, <1>13, <1>17 DEF LedgerInv

\* A write that the limit refuses.
LEMMA LedgerRefused ==
    ASSUME StackInv, StackInv', LedgerInv, control # <<>>, ~throwing, Head(control).op \in {"append", "escape", "evaluated"},
           Raise, UNCHANGED <<rendering, buffers, spent, calls>>
    PROVE  LedgerInv'
<1>1. rendering /\ UNCHANGED control /\ throwing'
  BY RunningCall DEF Raise
<1>2. ~HeadIn(control, {"dropBuffer"}) /\ ~HeadIn(control, UserOps)
  BY DEF HeadIn, UserOps
<1>3. Drops(control') = Drops(control) /\ ~HeadIn(control', {"dropBuffer"}) /\ ~HeadIn(control', UserOps)
  BY <1>1, <1>2
<1> QED BY <1>1, <1>2, <1>3, LedgerQuiet DEF LedgerInv

\* The three writes that are charged.
LEMMA LedgerAppends ==
    ASSUME StackInv, StackInv', LedgerInv, AppendText \/ AppendEscaped \/ AppendEvaluated
    PROVE  LedgerInv'
<1>1. control # <<>> /\ ~throwing /\ Head(control).op \in {"append", "escape", "evaluated"} /\ UNCHANGED <<rendering, output, calls>>
  BY DEF AppendText, AppendEscaped, AppendEvaluated, Running, settings, callbacks
<1>2. CASE Raise /\ UNCHANGED <<buffers, spent>>
  BY <1>1, <1>2, LedgerRefused
<1>3. CASE AppendText /\ ~(Raise /\ UNCHANGED <<buffers, spent>>)
  <2>1. PICK bytes : bytes = Head(control).text
    OBVIOUS
  <2>2. IsSeq(bytes)
    BY <1>3, <2>1, RunningPlain DEF AppendText, PlainOps, Typed
  <2>3. /\ buffers' = [buffers EXCEPT ![output] = @ \o bytes] /\ Continue(<<>>)
        /\ spent' = [spent EXCEPT !.output = @ + Len(bytes)] /\ Head(control).op = "append"
    BY <1>3, <2>1 DEF AppendText, AppendBytes, Running
  <2> QED BY <1>1, <2>2, <2>3, LedgerWrites
<1>4. CASE AppendEscaped /\ ~(Raise /\ UNCHANGED <<buffers, spent>>)
  <2>1. PICK bytes : bytes = Escaped(Head(control).text)
    OBVIOUS
  <2>2. IsSeq(Head(control).text)
    BY <1>4, RunningPlain DEF AppendEscaped, PlainOps, Typed
  <2>3. IsSeq(bytes)
    BY <2>1, <2>2, EscapedLonger
  <2>4. /\ buffers' = [buffers EXCEPT ![output] = @ \o bytes] /\ Continue(<<>>)
        /\ spent' = [spent EXCEPT !.output = @ + Len(bytes)] /\ Head(control).op = "escape"
    BY <1>4, <2>1 DEF AppendEscaped, AppendBytes, Running
  <2> QED BY <1>1, <2>3, <2>4, LedgerWrites
<1>5. CASE AppendEvaluated /\ ~(Raise /\ UNCHANGED <<buffers, spent>>)
  <2>1. PICK text : text = buffers[Len(buffers)]
    OBVIOUS
  <2>2. Last(buffers) = text
    BY <2>1 DEF Last
  <2>3. PICK bytes : bytes = Escaped(text)
    OBVIOUS
  <2>4. rendering
    BY <1>1, RunningCall
  <2>5. IsSeq(text)
    <3>1. Len(buffers) \in 1..Len(buffers)
      BY <2>4, InnermostNow
    <3> QED BY <2>1, <2>4, <3>1, LiveStrings
  <2>6. IsSeq(bytes) /\ Len(bytes) \in Nat /\ Len(text) \in Nat /\ Len(bytes) >= Len(text)
    BY <2>3, <2>5, EscapedLonger
  <2>7. PICK grown \in Nat : grown = Len(bytes) - Len(text) /\ Len(bytes) = Len(text) + grown
    BY <2>6
  <2>8. /\ buffers' = [buffers EXCEPT ![output] = @ \o bytes] /\ Continue(<<>>)
        /\ spent' = [spent EXCEPT !.output = @ + grown] /\ Head(control).op = "evaluated"
    BY <1>5, <2>2, <2>3, <2>7 DEF AppendEvaluated, AppendBytes, Running
  <2> QED BY <1>1, <2>1, <2>6, <2>7, <2>8, LedgerEvaluated
<1> QED BY <1>2, <1>3, <1>4, <1>5

\* All writes.
LEMMA LedgerWriteOutput ==
    ASSUME StackInv, StackInv', LedgerInv, WriteOutput PROVE LedgerInv'
<1>1. CASE BeginTemplateTag \/ AppendTemplateOutput \/ ConsumeTemplateSource
  <2>1. PICK op \in PlainOps : Running(op)
    BY <1>1 DEF BeginTemplateTag, AppendTemplateOutput, ConsumeTemplateSource, PlainOps
  <2>2. Replaces
    BY <1>1, ReplacesWriteOutput
  <2>3. UNCHANGED <<rendering, sinks, calls, spent>>
    BY <1>1 DEF BeginTemplateTag, AppendTemplateOutput, ConsumeTemplateSource, settings, callbacks, sinks
  <2>4. spent' \in Counters /\ spent'.output = spent.output
    BY <2>3 DEF LedgerInv
  <2> QED BY <2>1, <2>2, <2>3, <2>4, LedgerReplaces
<1> QED BY <1>1, LedgerAppends DEF WriteOutput

\* Only a pending drop adds a buffer to those that will be dropped.
LEMMA DropsPushOther ==
    ASSUME NEW x, NEW t, IsSeq(t), x.op # "dropBuffer"
    PROVE  Drops(<<x>> \o t) = Drops(t)
<1>1. Drops(<<x>> \o t) = Drops(t) \cup (IF x.op = "dropBuffer" THEN {2 + Temporaries(t)} ELSE {})
  BY DropsPush
<1> QED BY <1>1

\* An evaluation starts: its buffer is the one after the temporaries there are.
LEMMA EvaluationDrops ==
    ASSUME NEW a, NEW b, NEW c, NEW d, NEW e, NEW t, IsSeq(t), d.op = "dropBuffer", e.op = "popIndentation",
           a.op # "dropBuffer", b.op # "dropBuffer", c.op # "dropBuffer"
    PROVE  Drops(<<a, b, c, d, e>> \o t) = Drops(t) \cup {2 + Temporaries(t)}
<1>1. PICK r1 : r1 = <<e>> \o t /\ IsSeq(r1)
  BY Push
<1>2. PICK r2 : r2 = <<d>> \o r1 /\ IsSeq(r2)
  BY <1>1, Push
<1>3. PICK r3 : r3 = <<c>> \o r2 /\ IsSeq(r3)
  BY <1>2, Push
<1>4. PICK r4 : r4 = <<b>> \o r3 /\ IsSeq(r4)
  BY <1>3, Push
<1>5. <<a, b, c, d, e>> \o t = <<a>> \o r4
  BY <1>1, <1>2, <1>3, <1>4, FiveCalls
<1>6. Drops(r1) = Drops(t) /\ Temporaries(r1) = Temporaries(t)
  <2>1. Drops(r1) = Drops(t)
    BY <1>1, DropsPushOther
  <2>2. \A op : Count(t, op) \in Nat /\ Count(r1, op) = Count(t, op) + (IF e.op = op THEN 1 ELSE 0)
    BY <1>1, Tallies
  <2>3. Count(r1, "dropBuffer") = Count(t, "dropBuffer") + 0 /\ Count(r1, "endHelper") = Count(t, "endHelper") + 0
    BY <2>2
  <2>4. PICK x \in Nat, y \in Nat : x = Count(t, "dropBuffer") /\ y = Count(t, "endHelper")
    BY <2>2
  <2>5. Count(r1, "dropBuffer") = x /\ Count(r1, "endHelper") = y
    BY <2>3, <2>4
  <2> QED BY <2>1, <2>4, <2>5 DEF Temporaries
<1>7. Drops(r2) = Drops(t) \cup {2 + Temporaries(t)}
  BY <1>1, <1>2, <1>6, DropsPush
<1>8. Drops(r3) = Drops(r2)
  BY <1>2, <1>3, DropsPushOther
<1>9. Drops(r4) = Drops(r3)
  BY <1>3, <1>4, DropsPushOther
<1>10. Drops(<<a>> \o r4) = Drops(r4)
  BY <1>4, DropsPushOther
<1> QED BY <1>5, <1>7, <1>8, <1>9, <1>10

\* Output moves to a new buffer, an evaluation's or a helper's.
LEMMA LedgerRedirects ==
    ASSUME StackInv, StackInv', LedgerInv, rendering, ~throwing, ~throwing', UNCHANGED rendering,
           ~HeadIn(control, {"evaluated", "dropBuffer", "endHelper"}),
           NEW x, buffers' = Append(buffers, x), output' = Len(buffers) + 1,
           spent' \in Counters, spent'.output = spent.output,
           \/ calls' = calls /\ x = <<>> /\ Drops(control') = Drops(control) \cup {Len(buffers) + 1}
           \/ calls' = calls + 1 /\ Drops(control') = Drops(control)
    PROVE  LedgerInv'
<1>1. PICK n \in Nat \ {0} : n = Len(buffers) /\ Drops(control) \subseteq 2..n
  BY InnermostNow
<1>2. /\ Len(buffers') = n + 1 /\ (\A j \in 1..n : buffers'[j] = buffers[j]) /\ buffers'[n + 1] = x
  BY <1>1, Appended, LiveStrings
<1>3. PICK f : Totals(f) /\ Paid(f)
  BY DEF LedgerInv
<1>4. n + 1 \in Drops(control') => Len(buffers'[n + 1]) = 0
  <2>1. n + 1 \notin Drops(control)
    BY <1>1
  <2>2. x = <<>> => Len(x) = 0
    OBVIOUS
  <2> QED BY <1>2, <2>1, <2>2
<1>5. PICK g : Totals(g)' /\ g[n + 1] = f[n]
  BY <1>1, <1>2, <1>3, <1>4, PushedTotals
<1>6. LiveBuffers = n /\ LiveBuffers' = n + 1
  <2>1. ~HeadIn(control, {"dropBuffer"})
    BY DEF HeadIn
  <2>2. ~HeadIn(control', {"dropBuffer"})
    BY <1>1, <1>2, NoneDetached
  <2> QED BY <1>1, <1>2, <2>1, <2>2 DEF LiveBuffers
<1>7. calls \in Nat /\ calls' \in Nat /\ (calls' = 0 => calls = 0 /\ Drops(control') = Drops(control) \cup {n + 1})
  <2>1. calls \in Nat
    BY DEF LedgerInv
  <2>2. CASE calls' = calls /\ Drops(control') = Drops(control) \cup {Len(buffers) + 1}
    BY <1>1, <2>1, <2>2
  <2>3. CASE calls' = calls + 1
    BY <2>1, <2>3
  <2> QED BY <2>2, <2>3
<1>8. Paid(g)'
  BY <1>3, <1>5, <1>6, <1>7 DEF Paid
<1>9. calls' = 0 => 2..Len(buffers') \subseteq Drops(control')
  <2>1. calls = 0 => 2..n \subseteq Drops(control)
    BY <1>1 DEF LedgerInv
  <2>2. \A i \in 2..(n + 1) : i \in 2..n \/ i = n + 1
    OBVIOUS
  <2> QED BY <1>2, <1>7, <2>1, <2>2
<1> QED BY <1>5, <1>7, <1>8, <1>9 DEF LedgerInv

\* A lambda's text is written, or rendered in place, or evaluated into a buffer.
LEMMA LedgerConsumeResult ==
    ASSUME StackInv, StackInv', LedgerInv, ConsumeResult PROVE LedgerInv'
<1> DEFINE call == Head(control)
           text == returned.text
<1>1. control # <<>> /\ ~throwing /\ call.op = "result" /\ "result" \in PlainOps /\ Running("result") /\ UNCHANGED <<rendering, calls>>
  BY DEF ConsumeResult, Running, PlainOps, Inner, settings, callbacks
<1>2. rendering
  BY <1>1, RunningCall
<1>3. spent' \in Counters /\ spent'.output = spent.output
  <2>1. spent \in Counters
    BY DEF LedgerInv
  <2>2. spent' \in Counters
    BY <2>1, IsolatedCallLambda DEF Isolated, CallLambda
  <2>3. UNCHANGED spent \/ spent' = [spent EXCEPT !.lambda = @ + Len(text)] \/ spent' = ParsedCharge(text)
    BY DEF ConsumeResult
  <2>4. PICK x, y : UNCHANGED spent \/ spent' = [spent EXCEPT !.lambda = x] \/ spent' = [spent EXCEPT !.lambda = x, !.visits = y]
    <3>1. PICK x, y : x = spent.lambda + Len(text) /\ y = spent.visits + TemplateTable[text].nodes + 1
      OBVIOUS
    <3> QED BY <2>3, <3>1 DEF ParsedCharge
  <2> QED BY <2>1, <2>2, <2>4 DEF Counters
<1>4. CASE buffers' # Append(buffers, <<>>)
  <2>1. UNCHANGED sinks
    BY <1>4 DEF ConsumeResult
  <2>2. Replaces
    BY <1>4, ReplacesConsumeResult
  <2> QED BY <1>1, <1>3, <2>1, <2>2, LedgerReplaces
<1>5. CASE buffers' = Append(buffers, <<>>)
  <2>1. buffers' # buffers
    <3>1. IsSeq(buffers)
      BY <1>2, LiveStrings
    <3>2. PICK n \in Nat : n = Len(buffers) /\ Len(Append(buffers, <<>>)) = n + 1
      BY <3>1, Appended
    <3> QED BY <1>5, <3>2
  <2>2. PICK a : a = NodeCall(TemplateTable[text].root, call.depth + 1, <<>>, FALSE)
    OBVIOUS
  <2>3. PICK b : b = [op |-> "restoreOutput", to |-> output]
    OBVIOUS
  <2>4. output' = Len(buffers) + 1 /\ Continue(<<a, b, Op("evaluated"), Op("dropBuffer"), Op("popIndentation")>>)
    BY <2>1, <2>2, <2>3 DEF ConsumeResult, sinks
  <2>5. PICK c, d, e : c = Op("evaluated") /\ d = Op("dropBuffer") /\ e = Op("popIndentation")
    OBVIOUS
  <2>6. PICK t : t = Tail(control)
    OBVIOUS
  <2>7. Drops(<<a, b, c, d, e>> \o t) = Drops(t) \cup {2 + Temporaries(t)}
    <3>1. a.op = "node" /\ b.op = "restoreOutput" /\ c.op = "evaluated" /\ d.op = "dropBuffer" /\ e.op = "popIndentation"
      BY <2>2, <2>3, <2>5 DEF NodeCall, Op
    <3>2. IsSeq(t)
      BY <1>1, <2>6, RunningCall
    <3> QED BY <3>1, <3>2, EvaluationDrops
  <2>8. control' = <<a, b, c, d, e>> \o t /\ ~throwing'
    BY <2>4, <2>5, <2>6 DEF Continue
  <2>9. Drops(t) = Drops(control)
    BY <1>1, <2>6, DropsTail
  <2>10. 2 + Temporaries(t) = Len(buffers) + 1
    <3>1. Len(buffers) = 1 + Temporaries(control)
      BY <1>2 DEF StackInv, BuffersFit
    <3>2. \A op : Count(t, op) \in Nat /\ Count(control, op) = Count(t, op) + (IF call.op = op THEN 1 ELSE 0)
      BY <1>1, <2>6, RunningCall
    <3>3. PICK x \in Nat, y \in Nat : x = Count(t, "dropBuffer") /\ y = Count(t, "endHelper")
      BY <3>2
    <3>4. Count(control, "dropBuffer") = x + 0 /\ Count(control, "endHelper") = y + 0
      BY <1>1, <3>2, <3>3
    <3>5. Temporaries(t) = x + y /\ Temporaries(control) = (x + 0) + (y + 0)
      BY <3>3, <3>4 DEF Temporaries
    <3> QED BY <3>1, <3>5
  <2>11. Drops(control') = Drops(control) \cup {Len(buffers) + 1}
    BY <2>7, <2>8, <2>9, <2>10
  <2>12. ~HeadIn(control, {"evaluated", "dropBuffer", "endHelper"})
    BY <1>1 DEF HeadIn
  <2>13. PICK x : x = <<>>
    OBVIOUS
  <2> QED BY <1>1, <1>2, <1>3, <1>5, <2>4, <2>8, <2>11, <2>12, <2>13, LedgerRedirects
<1> QED BY <1>4, <1>5

\* All calls that lead to a lambda.
LEMMA LedgerCallLambda ==
    ASSUME StackInv, StackInv', LedgerInv, CallLambda PROVE LedgerInv'
<1>1. CASE SectionText \/ RebuildChild \/ ConsumeLambdaTemplate \/ InvokeSectionLambda \/ InvokeInterpolationLambda
  <2>1. PICK op \in PlainOps : Running(op)
    <3>1. {"lambda", "rebuild", "charge", "invoke", "interpolate"} \subseteq PlainOps
      BY DEF PlainOps, Inner
    <3>2. Running("lambda") \/ Running("rebuild") \/ Running("charge") \/ Running("invoke") \/ Running("interpolate")
      BY <1>1 DEF SectionText, RebuildChild, ConsumeLambdaTemplate, InvokeSectionLambda, InvokeInterpolationLambda
    <3> QED BY <3>1, <3>2
  <2>2. Replaces
    BY <1>1, ReplacesCallLambda
  <2>3. UNCHANGED <<rendering, sinks, calls>>
    BY <1>1 DEF SectionText, RebuildChild, ConsumeLambdaTemplate, InvokeSectionLambda, InvokeInterpolationLambda,
                settings, callbacks, sinks
  <2>4. spent \in Counters
    BY DEF LedgerInv
  <2>5. spent' \in Counters
    BY <2>4, IsolatedCallLambda DEF Isolated
  <2>6. spent'.output = spent.output
    <3>1. UNCHANGED spent \/ spent' = [spent EXCEPT !.visits = @ + 1] \/ spent' = [spent EXCEPT !.lambda = @ + Head(control).bytes]
      BY <1>1 DEF SectionText, RebuildChild, ConsumeLambdaTemplate, InvokeSectionLambda, InvokeInterpolationLambda
    <3>2. PICK x, y : x = spent.lambda + Head(control).bytes /\ y = spent.visits + 1
      OBVIOUS
    <3>3. UNCHANGED spent \/ spent' = [spent EXCEPT !.visits = y] \/ spent' = [spent EXCEPT !.lambda = x]
      BY <3>1, <3>2
    <3> QED BY <2>4, <3>3 DEF Counters
  <2> QED BY <2>1, <2>2, <2>3, <2>5, <2>6, LedgerReplaces
<1> QED BY <1>1, LedgerConsumeResult DEF CallLambda

-----------------------------------------------------------------------------
(* User code, guards, and every step *)

\* A callback renders into a buffer of its own.
LEMMA LedgerHelper ==
    ASSUME StackInv, StackInv', LedgerInv, InCallback, NEW n, NEW s, EnterHelper(n, s),
           UNCHANGED rendering, calls' = calls + 1, spent' \in Counters, spent'.output = spent.output
    PROVE  LedgerInv'
<1>1. control # <<>> /\ ~throwing /\ Head(control).op \in UserOps
  BY DEF InCallback
<1>2. rendering /\ IsSeq(control)
  BY <1>1, RunningCall
<1>3. ~HeadIn(control, {"evaluated", "dropBuffer", "endHelper"})
  BY <1>1 DEF HeadIn, UserOps
<1>4. PICK a, b, c, d : a = NodeCall(n, activeDepth + 1, <<>>, FALSE) /\ b = Op("popIndentation") /\
                        c = [op |-> "restoreOutput", to |-> output] /\ d = Op("endHelper")
  OBVIOUS
<1>5. PICK u : u = <<a, b, c, d>> /\ DropFree(u)
  <2>1. a.op # "dropBuffer" /\ b.op # "dropBuffer" /\ c.op # "dropBuffer" /\ d.op # "dropBuffer"
    BY <1>4 DEF NodeCall, Op
  <2> QED BY <2>1, DropFreeTuples
<1>6. control' = u \o control /\ ~throwing' /\ buffers' = Append(buffers, s) /\ output' = Len(buffers) + 1
  BY <1>4, <1>5 DEF EnterHelper
<1>7. PICK t : t = control
  OBVIOUS
<1>8. Drops(u \o t) = Drops(t)
  BY <1>2, <1>5, <1>7, DropsBelow
<1> QED BY <1>1, <1>2, <1>3, <1>6, <1>7, <1>8, LedgerRedirects

\* All that user code does.
LEMMA LedgerCallback ==
    ASSUME StackInv, StackInv', LedgerInv, Callback PROVE LedgerInv'
<1>1. spent \in Counters
  BY DEF LedgerInv
<1>2. spent' \in Counters
  BY <1>1, IsolatedCallback DEF Isolated
<1>3. UNCHANGED rendering
  BY DEF Callback, ReturnFromCallback, CallbackThrows, CallbackCatches, RejectWhileRendering, LegacyRender,
         ContextRender, ContextRenderTemplate, settings
<1>4. CASE ReturnFromCallback
  <2>1. control # <<>> /\ ~throwing /\ Head(control).op \in UserOps /\ Continue(<<>>) /\ UNCHANGED <<sinks, spent, calls>>
    BY <1>4 DEF ReturnFromCallback, InCallback
  <2>2. control' = Tail(control) /\ ~throwing'
    BY <2>1, RunningCall, NoCalls DEF Continue
  <2> QED BY <1>1, <1>3, <2>1, <2>2, LedgerUserCode
<1>5. CASE CallbackCatches
  <2>1. /\ control # <<>> /\ throwing /\ ~throwing' /\ Head(control).op \in UserOps
        /\ control' = control /\ calls' = calls /\ UNCHANGED <<sinks, spent>>
    BY <1>5 DEF CallbackCatches, callbacks
  <2> QED BY <1>1, <1>3, <2>1, LedgerUserCode
<1>6. CASE ~ReturnFromCallback /\ ~CallbackCatches
  <2>1. /\ control # <<>> /\ ~throwing /\ Head(control).op \in UserOps /\ InCallback /\ calls' = calls + 1
    BY <1>6 DEF Callback, CallbackThrows, RejectWhileRendering, LegacyRender, ContextRender, ContextRenderTemplate,
                InCallback, UserCall
  <2>2. (Raise /\ UNCHANGED sinks) \/ \E n, s : EnterHelper(n, s)
    BY <1>6 DEF Callback, CallbackThrows, RejectWhileRendering, LegacyRender, ContextRender, ContextRenderTemplate,
                RenderForLambda
  <2>3. spent'.output = spent.output
    <3>1. PICK n, m : UNCHANGED spent \/ spent' = [spent EXCEPT !.lambda = n] \/ spent' = [spent EXCEPT !.lambda = n, !.visits = m]
      <4>1. CASE \E c \in DOMAIN contexts, text \in Texts : ContextRenderTemplate(c, text)
        <5>1. PICK c \in DOMAIN contexts, text \in Texts : ContextRenderTemplate(c, text)
          BY <4>1
        <5>2. PICK n, m : n = spent.lambda + Len(text) /\ m = spent.visits + TemplateTable[text].nodes + 1
          OBVIOUS
        <5>3. UNCHANGED spent \/ spent' = [spent EXCEPT !.lambda = @ + Len(text)] \/ spent' = ParsedCharge(text)
          BY <5>1 DEF ContextRenderTemplate
        <5> QED BY <5>2, <5>3 DEF ParsedCharge
      <4>2. CASE UNCHANGED spent
        BY <4>2
      <4> QED BY <1>6, <4>1, <4>2 DEF Callback, CallbackThrows, RejectWhileRendering, LegacyRender, ContextRender
    <3> QED BY <1>1, <3>1 DEF Counters
  <2>4. CASE Raise /\ UNCHANGED sinks
    <3>1. control' = control /\ throwing'
      BY <2>4 DEF Raise
    <3> QED BY <1>2, <1>3, <2>1, <2>3, <2>4, <3>1, LedgerUserCode
  <2>5. CASE \E n, s : EnterHelper(n, s)
    <3>1. PICK n, s : EnterHelper(n, s)
      BY <2>5
    <3> QED BY <1>2, <1>3, <2>1, <2>3, <3>1, LedgerHelper
  <2> QED BY <2>2, <2>4, <2>5
<1> QED BY <1>4, <1>5, <1>6

\* A temporary goes: an evaluation's text has been escaped into the buffer below
\* it, and a helper's is its caller's now.
LEMMA LedgerPops ==
    ASSUME StackInv, StackInv', LedgerInv, control # <<>>, Head(control).op \in {"dropBuffer", "endHelper"},
           control' = Tail(control), buffers' = Front(buffers), UNCHANGED <<rendering, output, spent, calls, throwing>>
    PROVE  LedgerInv'
<1>1. rendering /\ rendering' /\ Fits(Head(control), Tail(control)) /\ IsSeq(Tail(control)) /\ IsSeq(control)
  BY RunningCall
<1>2. HeadIn(control, {"evaluated", "dropBuffer", "endHelper"})
  BY DEF HeadIn
<1>3. PICK n \in Nat \ {0}, m \in Nat \ {0} : n = Len(buffers) /\ m = output /\ n = m + 1 /\ n - 1 = m /\ n > 1
  BY <1>1, <1>2, InnermostNow
<1>4. /\ Len(buffers') = m /\ \A j \in 1..m : buffers'[j] = buffers[j]
  <2>1. buffers # <<>> /\ IsSeq(buffers)
    BY <1>1, <1>3, LiveStrings
  <2>2. DOMAIN Front(buffers) = 1..m /\ Len(Front(buffers)) = m
    BY <1>3, <2>1, Fronts
  <2> QED BY <2>1, <2>2, Fronts
<1>5. Drops(control') \subseteq 2..m /\ ~HeadIn(control', {"dropBuffer"})
  BY <1>1, <1>3, <1>4, InnermostNext, NoneDetached
<1>6. Drops(control) = Drops(control') \cup (IF Head(control).op = "dropBuffer" THEN {n} ELSE {})
  <2>1. PICK h, t : h = Head(control) /\ t = Tail(control) /\ IsSeq(t) /\ control = <<h>> \o t
    BY <1>1, TalliesBelow
  <2>2. Drops(<<h>> \o t) = Drops(t) \cup (IF h.op = "dropBuffer" THEN {2 + Temporaries(t)} ELSE {})
    BY <2>1, DropsPush
  <2>3. Len(buffers') = 1 + Temporaries(t)
    BY <1>1, <2>1 DEF StackInv, BuffersFit
  <2>4. PICK k \in Nat : k = Temporaries(t)
    BY <2>1, DropsBounded
  <2>5. 2 + Temporaries(t) = n
    BY <1>3, <1>4, <2>3, <2>4
  <2> QED BY <2>1, <2>2, <2>5
<1>7. PICK f : Totals(f) /\ Paid(f)
  BY <1>1 DEF LedgerInv
<1>8. f \in [0..n -> Nat] /\ f[n] >= f[m] /\ f[m] \in Nat /\ f[n] \in Nat
  <2>1. m \in 0..n /\ n \in 0..n /\ n \in 1..n
    BY <1>3
  <2>2. f \in [0..n -> Nat] /\ f[n] >= f[n - 1]
    BY <1>3, <1>7, <2>1 DEF Totals
  <2> QED BY <1>3, <2>1, <2>2
<1>9. PICK g : Totals(g)' /\ g[m] = f[m]
  <2>1. /\ Totals(f) /\ n > 1 /\ n = Len(buffers) /\ Len(buffers') = n - 1
        /\ \A j \in 1..(n - 1) : buffers'[j] = buffers[j]
        /\ Drops(control') \subseteq Drops(control) /\ Drops(control') \subseteq 2..(n - 1)
    BY <1>3, <1>4, <1>5, <1>6, <1>7
  <2>2. PICK g : Totals(g)' /\ \A j \in 0..(n - 1) : g[j] = f[j]
    BY <2>1, PoppedTotals
  <2>3. m \in 0..(n - 1)
    BY <1>3
  <2> QED BY <2>2, <2>3
<1>10. Head(control).op = "endHelper" => calls # 0
  <2>1. n \in 2..n
    BY <1>3
  <2>2. n \notin Drops(control')
    BY <1>3, <1>5
  <2> QED BY <1>1, <1>3, <1>6, <2>1, <2>2 DEF LedgerInv
<1>11. LiveBuffers' = m /\ LiveBuffers = IF Head(control).op = "dropBuffer" THEN m ELSE n
  BY <1>3, <1>4, <1>5 DEF LiveBuffers, HeadIn
<1>12. spent.output \in Nat
  BY DEF LedgerInv, Counters
<1>13. Paid(g)'
  <2>1. CASE Head(control).op = "dropBuffer"
    BY <1>7, <1>9, <1>11, <2>1 DEF Paid
  <2>2. CASE Head(control).op = "endHelper"
    <3>1. f[n] <= spent.output
      BY <1>7, <1>11, <2>2 DEF Paid
    <3>2. f[m] <= spent.output
      BY <1>8, <1>12, <3>1
    <3> QED BY <1>9, <1>10, <1>11, <2>2, <3>2 DEF Paid
  <2> QED BY <2>1, <2>2
<1>14. calls' = 0 => 2..Len(buffers') \subseteq Drops(control')
  <2>1. calls = 0 => 2..n \subseteq Drops(control)
    BY <1>1, <1>3 DEF LedgerInv
  <2>2. \A i \in 2..m : i \in 2..n /\ i # n
    BY <1>3
  <2> QED BY <1>4, <1>6, <2>1, <2>2
<1>15. throwing' /\ HeadIn(control', UserOps) => calls' # 0
  BY <1>1, <1>10 DEF Fits
<1> QED BY <1>9, <1>13, <1>14, <1>15 DEF LedgerInv

\* All guards, and the calls that an exception abandons.
LEMMA LedgerGuard ==
    ASSUME StackInv, StackInv', LedgerInv, Guard \/ Discard PROVE LedgerInv'
<1>1. CASE RestoreDepth \/ PopContext \/ PopIndentation \/ RestoreOutput \/ EndCallback \/ LeaveScope \/ Discard
  <2>1. /\ control # <<>> /\ control' = Tail(control) /\ UNCHANGED <<rendering, buffers, spent, calls, throwing>>
    BY <1>1 DEF RestoreDepth, PopContext, PopIndentation, RestoreOutput, EndCallback, LeaveScope, Discard,
                Guarding, Unwound, settings, sinks, callbacks
  <2>2. Head(control).op \notin {"dropBuffer", "endHelper"} /\ (Head(control).op = "evaluated" => throwing)
    BY <1>1 DEF RestoreDepth, PopContext, PopIndentation, RestoreOutput, EndCallback, LeaveScope, Discard, Guarding, GuardOps
  <2> QED BY <2>1, <2>2, LedgerUnwinds
<1>2. CASE DropBuffer \/ EndHelper
  <2>1. /\ control # <<>> /\ Head(control).op \in {"dropBuffer", "endHelper"} /\ control' = Tail(control)
        /\ buffers' = Front(buffers) /\ UNCHANGED <<rendering, output, spent, calls, throwing>>
    BY <1>2 DEF DropBuffer, EndHelper, Guarding, Unwound, settings, callbacks
  <2> QED BY <2>1, LedgerPops
<1>3. CASE EndRoot
  <2>1. ~rendering' /\ ~throwing' /\ UNCHANGED <<spent, calls>>
    BY <1>3 DEF EndRoot
  <2> QED BY <2>1 DEF LedgerInv
<1> QED BY <1>1, <1>2, <1>3 DEF Guard

\* render() charges what the caller's buffer holds already.
LEMMA LedgerStart ==
    ASSUME StackInv, StackInv', LedgerInv, StartRender PROVE LedgerInv'
<1>1. spent \in Counters
  BY DEF LedgerInv
<1>2. ~rendering /\ spent' \in Counters
  BY <1>1, ApplicationAtRest DEF Application
<1>3. control = <<>> /\ ~throwing /\ Len(buffers) = 1 /\ output = 1 /\ IsSeq(buffers)
  BY <1>2, AtRest DEF StartRender, Ready, StackInv, BuffersFit
<1>4. PICK a, b : a = NodeCall(config.node, 0, <<>>, FALSE) /\ b = Op("endRoot")
  OBVIOUS
<1>5. Drops(control') = {}
  <2>1. a.op # "dropBuffer" /\ b.op # "dropBuffer"
    BY <1>4 DEF NodeCall, Op
  <2>2. PICK u : u = <<a, b>> /\ DropFree(u)
    BY <2>1, DropFreeTuples
  <2>3. PICK t : t = <<>> /\ IsSeq(t)
    BY EmptyTuple
  <2>4. Drops(u \o t) = Drops(t)
    BY <2>2, <2>3, DropsBelow
  <2>5. control' = u \o t
    BY <1>3, <1>4, <2>2, <2>3 DEF StartRender
  <2> QED BY <2>3, <2>4, <2>5, DropsEmpty
<1>6. PICK l \in Nat : l = Len(buffers[1])
  <2>1. 1 \in DOMAIN buffers
    BY <1>3 DEF IsSeq
  <2> QED BY <2>1 DEF StackInv, ValuesFit, IsSeq
<1>7. rendering' /\ calls' = 0 /\ UNCHANGED <<buffers, output, throwing>> /\ spent'.output = l
  BY <1>3, <1>6 DEF StartRender, NoSpending, sinks
<1>8. LiveBuffers' = 1
  BY <1>3, <1>7, NoneDetached DEF LiveBuffers
<1>9. PICK f : f = [j \in 0..1 |-> IF j = 0 THEN 0 ELSE l]
  OBVIOUS
<1>10. f \in [0..1 -> Nat] /\ f[0] = 0 /\ f[1] = l /\ f[1] = f[0] + l /\ f[1] >= f[0] /\ 1 - 1 = 0
  BY <1>9
<1>11. \A j \in 1..1 : j = 1
  OBVIOUS
<1>12. Totals(f)'
  BY <1>3, <1>5, <1>6, <1>7, <1>10, <1>11 DEF Totals
<1>13. Paid(f)'
  BY <1>7, <1>8, <1>10 DEF Paid
<1>14. 2..1 = {}
  OBVIOUS
<1> QED BY <1>2, <1>3, <1>7, <1>12, <1>13, <1>14 DEF LedgerInv

\* What an application does between renders.
LEMMA LedgerApplication ==
    ASSUME StackInv, StackInv', LedgerInv, Application PROVE LedgerInv'
<1>1. spent \in Counters /\ calls \in Nat
  BY DEF LedgerInv
<1>2. ~rendering /\ spent' \in Counters
  BY <1>1, ApplicationAtRest
<1>3. CASE ~StartRender
  <2>1. ~rendering' /\ UNCHANGED <<calls, throwing>>
    <3>1. CASE \E n, d, p, s, l : InitRenderer(n, d, p, s, l)
      BY <3>1 DEF InitRenderer, machine
    <3>2. CASE Clear \/ RejectRender
      BY <1>2, <3>2 DEF Clear, RejectRender, machine, callbacks
    <3>3. CASE \E field, value : Configure(field, value)
      BY <1>2, <3>3 DEF Configure, machine, callbacks
    <3>4. CASE \E s : SetOutput(s)
      BY <1>2, <3>4 DEF SetOutput, settings, machine, callbacks
    <3> QED BY <1>3, <3>1, <3>2, <3>3, <3>4 DEF Application
  <2>2. ~throwing
    BY <1>2, AtRest
  <2> QED BY <1>1, <1>2, <2>1, <2>2 DEF LedgerInv
<1> QED BY <1>3, LedgerStart

\* Every step keeps the account.
LEMMA LedgerInvNext ==
    ASSUME StackInv, StackInv', LedgerInv, [Next]_vars PROVE LedgerInv'
<1>1. CASE UNCHANGED vars
  <2>1. UNCHANGED <<rendering, spent, calls, throwing, control, buffers>>
    BY <1>1 DEF vars, settings, sinks, callbacks, machine
  <2> QED BY <2>1 DEF LedgerInv, Totals, Paid, LiveBuffers
<1> QED BY <1>1, LedgerTraverse, LedgerWriteOutput, LedgerCallLambda, LedgerGuard, LedgerCallback, LedgerApplication
        DEF Next, Render

\* When only renderRoot's guard is left, there is one buffer: the caller's.
LEMMA LedgerCharges ==
    ASSUME StackInv, LedgerInv PROVE ChargedOnce
<1> SUFFICES ASSUME Guarding("endRoot")
             PROVE  Len(buffers[1]) <= spent.output /\ (~throwing /\ calls = 0 => Len(buffers[1]) = spent.output)
  BY DEF ChargedOnce
<1>1. control # <<>> /\ Head(control).op = "endRoot"
  BY DEF Guarding
<1>2. rendering /\ Tail(control) = <<>> /\ \A op : Count(control, op) = Count(Tail(control), op) + (IF Head(control).op = op THEN 1 ELSE 0)
  BY <1>1, RunningCall DEF Fits
<1>3. Temporaries(control) = 0
  <2>1. Count(Tail(control), "dropBuffer") = 0 /\ Count(Tail(control), "endHelper") = 0
    BY <1>2, TalliesEmpty
  <2>2. Count(control, "dropBuffer") = 0 /\ Count(control, "endHelper") = 0
    BY <1>1, <1>2, <2>1
  <2> QED BY <2>2 DEF Temporaries
<1>4. Len(buffers) = 1
  BY <1>2, <1>3 DEF StackInv, BuffersFit
<1>5. LiveBuffers = 1
  BY <1>1, <1>4 DEF LiveBuffers, HeadIn
<1>6. PICK f : Totals(f) /\ Paid(f)
  BY <1>2 DEF LedgerInv
<1>7. f[1] = Len(buffers[1])
  <2>1. f[1] = f[0] + Len(buffers[1]) /\ f[0] = 0
    <3>1. f[1] = f[1 - 1] + Len(buffers[1]) /\ f[0] = 0
      BY <1>6 DEF Totals
    <3>2. 1 - 1 = 0
      OBVIOUS
    <3> QED BY <3>1, <3>2
  <2>2. Len(buffers[1]) \in Nat
    <3>1. 1 \in 1..Len(buffers)
      BY <1>4
    <3> QED BY <1>2, <3>1, LiveStrings
  <2> QED BY <2>1, <2>2
<1> QED BY <1>5, <1>6, <1>7 DEF Paid

\* When render() is about to return, what its caller's string holds was charged to
\* maxOutputBytes in full; and to the byte unless a callback called something: no
\* evaluated interpolation is charged twice or escapes its charge.
THEOREM OutputAlwaysChargedOnce == Spec => []ChargedOnce
<1>1. Init => LedgerInv
  BY DEF Init, LedgerInv, NoSpending, Counters
<1>2. StackInv /\ StackInv' /\ LedgerInv /\ [Next]_vars => LedgerInv'
  BY LedgerInvNext
<1>3. StackInv /\ LedgerInv => ChargedOnce
  BY LedgerCharges
<1> QED BY <1>1, <1>2, <1>3, StackInvAlways, PTL DEF Spec

-----------------------------------------------------------------------------
(* Budgets *)

\* What the budget argument rests on: the limits are numbers, the visit counter is
\* one, and a result that will be parsed is a text whose parse the table knows.
ChargeInv ==
    /\ config \in Settings
    /\ DOMAIN spent = {"output", "visits", "lambda"}
    /\ spent.visits \in Nat
    /\ returned.kind # "literal" => returned.text \in Texts
    /\ ChargesWithinLimits

\* The counters change only while rendering and only under the check of the limit
\* they count against.
LEMMA ChargeInvInit == Init => ChargeInv
BY DEF Init, ChargeInv, Settings, Modes, NoSpending, ChargesWithinLimits

\* A step that leaves limits, counters and the returned result alone.
LEMMA ChargeInvUnchanged ==
    ASSUME ChargeInv, UNCHANGED <<config, spent, rendering, returned>>
    PROVE  ChargeInv'
BY DEF ChargeInv, ChargesWithinLimits, limits

\* Traversal and the charges it makes.
LEMMA ChargeInvTraverse ==
    ASSUME ChargeInv, Traverse PROVE ChargeInv'
<1> USE DEF settings, callbacks
<1>1. CASE EnterNode
  <2>1. UNCHANGED <<config, rendering, returned>>
    BY <1>1 DEF EnterNode
  <2>2. CASE UNCHANGED spent
    BY <2>1, <2>2, ChargeInvUnchanged
  <2>3. CASE CanVisit /\ spent' = [spent EXCEPT !.visits = @ + 1]
    <3>1. limits \in [output : Nat, depth : Nat, visits : Nat, lambda : Nat]
      BY LimitsAssumption DEF ChargeInv, Settings, limits
    <3> QED BY <2>1, <2>3, <3>1 DEF ChargeInv, ChargesWithinLimits, limits, CanVisit
  <2> QED BY <1>1, <2>2, <2>3 DEF EnterNode
<1>2. CASE RenderChildren
  BY <1>2, ChargeInvUnchanged DEF RenderChildren
<1>3. CASE PushContext
  BY <1>3, ChargeInvUnchanged DEF PushContext
<1>4. CASE RenderPartial
  BY <1>4, ChargeInvUnchanged DEF RenderPartial
<1> QED BY <1>1, <1>2, <1>3, <1>4 DEF Traverse

\* Output: each write checks the aggregate before it adds to it.
LEMMA ChargeInvAppend ==
    ASSUME ChargeInv, NEW bytes, NEW charged, AppendBytes(bytes, charged),
           UNCHANGED <<config, rendering, returned>>
    PROVE  ChargeInv'
<1>1. CASE UNCHANGED spent
  BY <1>1, ChargeInvUnchanged
<1>2. CASE CanAppend(bytes, charged) /\ spent' = [spent EXCEPT !.output = @ + charged]
  BY <1>2 DEF ChargeInv, ChargesWithinLimits, limits, CanAppend
<1> QED BY <1>1, <1>2 DEF AppendBytes

\* A write is refused before it exceeds its limit.
LEMMA ChargeInvWriteOutput ==
    ASSUME ChargeInv, WriteOutput PROVE ChargeInv'
<1> USE DEF settings, callbacks
<1>1. CASE BeginTemplateTag
  BY <1>1, ChargeInvUnchanged DEF BeginTemplateTag
<1>2. CASE AppendTemplateOutput
  BY <1>2, ChargeInvUnchanged DEF AppendTemplateOutput
<1>3. CASE ConsumeTemplateSource
  BY <1>3, ChargeInvUnchanged DEF ConsumeTemplateSource
<1>4. CASE AppendText
  BY <1>4, ChargeInvAppend DEF AppendText
<1>5. CASE AppendEscaped
  BY <1>5, ChargeInvAppend DEF AppendEscaped
<1>6. CASE AppendEvaluated
  BY <1>6, ChargeInvAppend DEF AppendEvaluated
<1> QED BY <1>1, <1>2, <1>3, <1>4, <1>5, <1>6 DEF WriteOutput

\* Lambda text: charged before it is parsed, and its nodes as they are parsed.
LEMMA ChargeInvLambdaBytes ==
    ASSUME ChargeInv, NEW n, CanCharge(n), spent' = [spent EXCEPT !.lambda = @ + n],
           UNCHANGED <<config, rendering, returned>>
    PROVE  ChargeInv'
BY DEF ChargeInv, ChargesWithinLimits, limits, CanCharge

\* So is a parse.
LEMMA ChargeInvParse ==
    ASSUME ChargeInv, NEW text \in Texts, CanCharge(Len(text)), CanParse(text),
           spent' = ParsedCharge(text), UNCHANGED <<config, rendering, returned>>
    PROVE  ChargeInv'
<1>1. TemplateTable[text].nodes \in Nat
  BY TemplatesAssumption
<1> QED BY <1>1 DEF ChargeInv, ChargesWithinLimits, limits, CanCharge, CanParse, ParsedCharge

\* So are the calls that lead to a lambda.
LEMMA ChargeInvCallLambda ==
    ASSUME ChargeInv, CallLambda PROVE ChargeInv'
<1> USE DEF settings, callbacks
<1>1. CASE SectionText
  BY <1>1, ChargeInvUnchanged DEF SectionText
<1>2. CASE RebuildChild
  <2>1. UNCHANGED <<config, rendering, returned>>
    BY <1>2 DEF RebuildChild
  <2>2. CASE UNCHANGED spent
    BY <2>1, <2>2, ChargeInvUnchanged
  <2>3. CASE CanVisit /\ spent' = [spent EXCEPT !.visits = @ + 1]
    <3>1. limits \in [output : Nat, depth : Nat, visits : Nat, lambda : Nat]
      BY LimitsAssumption DEF ChargeInv, Settings, limits
    <3> QED BY <2>1, <2>3, <3>1 DEF ChargeInv, ChargesWithinLimits, limits, CanVisit
  <2> QED BY <1>2, <2>2, <2>3 DEF RebuildChild
<1>3. CASE ConsumeLambdaTemplate
  <2>1. UNCHANGED <<config, rendering, returned>>
    BY <1>3 DEF ConsumeLambdaTemplate
  <2>2. CASE UNCHANGED spent
    BY <2>1, <2>2, ChargeInvUnchanged
  <2>3. CASE \E n : CanCharge(n) /\ spent' = [spent EXCEPT !.lambda = @ + n]
    BY <2>1, <2>3, ChargeInvLambdaBytes
  <2> QED BY <1>3, <2>2, <2>3 DEF ConsumeLambdaTemplate
<1>4. CASE InvokeSectionLambda
  BY <1>4, ChargeInvUnchanged DEF InvokeSectionLambda
<1>5. CASE ConsumeResult
  <2>1. UNCHANGED <<config, rendering, returned>>
    BY <1>5 DEF ConsumeResult
  <2>2. CASE UNCHANGED spent
    BY <2>1, <2>2, ChargeInvUnchanged
  <2>3. CASE /\ CanCharge(Len(returned.text))
             /\ spent' = [spent EXCEPT !.lambda = @ + Len(returned.text)]
    BY <2>1, <2>3, ChargeInvLambdaBytes
  <2>4. CASE /\ ~IsLiteral /\ CanCharge(Len(returned.text)) /\ CanParse(returned.text)
             /\ spent' = ParsedCharge(returned.text)
    <3>1. returned.text \in Texts
      BY <2>4 DEF ChargeInv, IsLiteral
    <3> QED BY <2>1, <2>4, <3>1, ChargeInvParse
  <2> QED BY <1>5, <2>2, <2>3, <2>4 DEF ConsumeResult, sinks
<1>6. CASE InvokeInterpolationLambda
  BY <1>6, ChargeInvUnchanged DEF InvokeInterpolationLambda
<1> QED BY <1>1, <1>2, <1>3, <1>4, <1>5, <1>6 DEF CallLambda

\* Guards restore, and never refund.
LEMMA ChargeInvGuard ==
    ASSUME ChargeInv, Guard PROVE ChargeInv'
<1> USE DEF settings, callbacks
<1>1. CASE EndRoot
  BY <1>1 DEF EndRoot, ChargeInv, ChargesWithinLimits
<1>2. CASE ~EndRoot
  BY <1>2, ChargeInvUnchanged
  DEF Guard, RestoreDepth, PopContext, PopIndentation, RestoreOutput, DropBuffer, EndHelper,
      EndCallback, LeaveScope
<1> QED BY <1>1, <1>2

\* What user code does inside a callback.
LEMMA ChargeInvCallback ==
    ASSUME ChargeInv, Callback PROVE ChargeInv'
<1> USE DEF settings, callbacks
<1>1. CASE ReturnFromCallback
  <2>1. UNCHANGED <<config, spent, rendering>>
    BY <1>1 DEF ReturnFromCallback
  <2>2. returned'.kind # "literal" => returned'.text \in Texts
    BY <1>1 DEF ReturnFromCallback
  <2> QED BY <2>1, <2>2 DEF ChargeInv, ChargesWithinLimits, limits
<1>2. CASE CallbackThrows \/ CallbackCatches \/ RejectWhileRendering
  BY <1>2, ChargeInvUnchanged DEF CallbackThrows, CallbackCatches, RejectWhileRendering
<1>3. ASSUME NEW n, NEW s, LegacyRender(n, s) PROVE ChargeInv'
  BY <1>3, ChargeInvUnchanged DEF LegacyRender
<1>4. ASSUME NEW c, NEW n, NEW s, ContextRender(c, n, s) PROVE ChargeInv'
  BY <1>4, ChargeInvUnchanged DEF ContextRender
<1>5. ASSUME NEW c, NEW text \in Texts, ContextRenderTemplate(c, text) PROVE ChargeInv'
  <2>1. UNCHANGED <<config, rendering, returned>>
    BY <1>5 DEF ContextRenderTemplate
  <2>2. CASE UNCHANGED spent
    BY <2>1, <2>2, ChargeInvUnchanged
  <2>3. CASE CanCharge(Len(text)) /\ spent' = [spent EXCEPT !.lambda = @ + Len(text)]
    BY <2>1, <2>3, ChargeInvLambdaBytes
  <2>4. CASE CanCharge(Len(text)) /\ CanParse(text) /\ spent' = ParsedCharge(text)
    BY <2>1, <2>4, ChargeInvParse
  <2> QED BY <1>5, <2>2, <2>3, <2>4 DEF ContextRenderTemplate
<1> QED BY <1>1, <1>2, <1>3, <1>4, <1>5 DEF Callback

\* The application changes limits only while no render is in progress, and a
\* render starts with the caller's text charged and nothing else.
LEMMA ChargeInvApplication ==
    ASSUME ChargeInv, Application PROVE ChargeInv'
<1> USE DEF settings, callbacks, Unlocked, NoSpending
<1>1. ASSUME NEW n \in Roots, NEW d \in Inputs, NEW p \in Externals, NEW s, NEW l \in LimitChoices, InitRenderer(n, d, p, s, l)
      PROVE  ChargeInv'
  BY <1>1 DEF InitRenderer, ChargeInv, ChargesWithinLimits, Settings
<1>2. CASE Clear
  BY <1>2 DEF Clear, ChargeInv, ChargesWithinLimits, Settings
<1>3. CASE StartRender
  <2>1. limits \in [output : Nat, depth : Nat, visits : Nat, lambda : Nat]
    BY LimitsAssumption DEF ChargeInv, Settings, limits
  <2>2. /\ UNCHANGED <<config, returned>>
        /\ spent' = [NoSpending EXCEPT !.output = Len(buffers[output])]
        /\ Len(buffers[output]) <= limits.output
    BY <1>3 DEF StartRender, Ready
  <2> QED BY <2>1, <2>2 DEF ChargeInv, ChargesWithinLimits, limits
<1>4. CASE RejectRender
  BY <1>4, ChargeInvUnchanged DEF RejectRender
<1>5. ASSUME NEW n \in Roots, Configure("node", n) PROVE ChargeInv'
  BY <1>5 DEF Configure, ChargeInv, ChargesWithinLimits, Settings
<1>6. ASSUME NEW d \in Inputs, Configure("data", d) PROVE ChargeInv'
  BY <1>6 DEF Configure, ChargeInv, ChargesWithinLimits, Settings
<1>7. ASSUME NEW m \in Modes, Configure("mode", m) PROVE ChargeInv'
  BY <1>7 DEF Configure, ChargeInv, ChargesWithinLimits, Settings
<1>8. ASSUME NEW s, SetOutput(s) PROVE ChargeInv'
  BY <1>8, ChargeInvUnchanged DEF SetOutput
<1>9. ASSUME NEW p \in Externals, Configure("partials", p) PROVE ChargeInv'
  BY <1>9 DEF Configure, ChargeInv, ChargesWithinLimits, Settings
<1>10. ASSUME NEW r \in Resolvers, Configure("resolver", r) PROVE ChargeInv'
  BY <1>10 DEF Configure, ChargeInv, ChargesWithinLimits, Settings
<1> QED BY <1>1, <1>2, <1>3, <1>4, <1>5, <1>6, <1>7, <1>8, <1>9, <1>10 DEF Application

\* Every step of the engine, of user code and of the application keeps the invariant.
LEMMA ChargeInvNext == ChargeInv /\ [Next]_vars => ChargeInv'
<1> SUFFICES ASSUME ChargeInv, [Next]_vars PROVE ChargeInv'
  OBVIOUS
<1>1. CASE Discard
  BY <1>1, ChargeInvUnchanged DEF Discard, settings, callbacks
<1>2. CASE UNCHANGED vars
  BY <1>2, ChargeInvUnchanged DEF vars, settings, callbacks
<1> QED
  BY <1>1, <1>2, ChargeInvTraverse, ChargeInvWriteOutput, ChargeInvCallLambda, ChargeInvGuard,
     ChargeInvCallback, ChargeInvApplication
  DEF Next, Render

\* The limits are hard: for every template, datum, partial, lambda behaviour and
\* policy, no aggregate counter of a render exceeds its maximum.
THEOREM ChargesStayWithinLimits == Spec => []ChargesWithinLimits
<1>1. ChargeInv => ChargesWithinLimits
  BY DEF ChargeInv
<1> QED BY <1>1, ChargeInvInit, ChargeInvNext, PTL DEF Spec

=============================================================================
