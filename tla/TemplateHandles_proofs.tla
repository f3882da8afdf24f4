------------------------- MODULE TemplateHandles_proofs -------------------------
(***************************************************************************)
(* Proofs about TemplateHandles, for any number of handles, partials and   *)
(* addresses and any templates: every render owns what it reads, and the   *)
(* handles implement TemplateValues.                                       *)
(*                                                                         *)
(* What a call in progress reads is owned by a call at or below it, and    *)
(* everything that a handle or a call owns exists (Fits).  The steps of    *)
(* the application release states only after they have given up their last *)
(* owner, so a release cannot be seen (ReleaseIsInvisible); the lemmas of  *)
(* the other ways to change handles, heap and stack say what is seen.      *)
(***************************************************************************)
EXTENDS TemplateHandles, SequenceTheorems, TLAPS

Frames ==
    [kind : {"tree", "callback"}, owner : States \cup {Null}, state : States \cup {Null},
     tree : Names \cup {Root}, pos : Nat, source : {"map", "none", "archive"}, depth : Nat]

FrameFits(hp, st, i) ==
    /\ st[i].owner \in States => st[i].owner \in DOMAIN hp
    /\ st[i].kind = "tree" =>
          /\ st[i].state \in DOMAIN hp /\ st[i].tree \in DOMAIN hp[st[i].state]
          /\ \E j \in 1..i : st[j].owner = st[i].state
    /\ st[i].kind = "callback" => st[i].owner = Null /\ st[i].state = Null
Fits(hs, hp, st) ==
    /\ hs \in [Slots -> States \cup {Null, Absent}]
    /\ DOMAIN hp \subseteq States /\ hp \in [DOMAIN hp -> Contents]
    /\ st \in Seq(Frames)
    /\ \A h \in Slots : hs[h] \in States => hs[h] \in DOMAIN hp
    /\ \A i \in DOMAIN st : FrameFits(hp, st, i)

\* What TemplateValues sees of handles, heap and stack.
At(hp, s) == IF s \in DOMAIN hp THEN hp[s] ELSE s
View(hp, f) ==
    [kind |-> f.kind, contents |-> At(hp, f.state), tree |-> f.tree, pos |-> f.pos, source |-> f.source]
HeldIn(hs, hp) == [h \in Slots |-> At(hp, hs[h])]
ReadsIn(hp, st) == [i \in DOMAIN st |-> View(hp, st[i])]
AdvancedIn(st) == [st EXCEPT ![Len(st)].pos = @ + 1]

HandlesInv ==
    /\ Fits(handles, heap, stack)
    /\ archive \in Contents \cup {Null}

-----------------------------------------------------------------------------
(* What is seen of each way to change handles, heap and stack *)

Kept(hs, hp, st) == [s \in DOMAIN hp \cap Owned(hs, st) |-> hp[s]]

\* Releasing what nobody owns keeps everything a handle or a call can reach.
LEMMA ReleaseIsInvisible ==
    ASSUME NEW hs, NEW hp, NEW st, Fits(hs, hp, st)
    PROVE  /\ Fits(hs, Kept(hs, hp, st), st)
           /\ HeldIn(hs, Kept(hs, hp, st)) = HeldIn(hs, hp)
           /\ ReadsIn(Kept(hs, hp, st), st) = ReadsIn(hp, st)
<1> DEFINE K == Kept(hs, hp, st)
<1>1. /\ DOMAIN K = DOMAIN hp \cap Owned(hs, st)
      /\ \A s \in DOMAIN K : K[s] = hp[s]
  BY DEF Kept
<1>2. \A h \in Slots : hs[h] \in Owned(hs, st)
  BY DEF Owned
<1>3. \A i \in DOMAIN st : st[i].owner \in Owned(hs, st)
  BY DEF Owned
<1>4. ASSUME NEW i \in DOMAIN st
      PROVE  /\ FrameFits(K, st, i)
             /\ st[i].state \in DOMAIN hp => st[i].state \in DOMAIN K
  <2>1. FrameFits(hp, st, i) /\ st[i] \in Frames /\ 1..i \subseteq DOMAIN st
    BY <1>4, ElementOfSeq, LenProperties DEF Fits
  <2>2. CASE st[i].kind = "tree"
    <3>1. PICK j \in 1..i : st[j].owner = st[i].state
      BY <2>1, <2>2 DEF FrameFits
    <3>2. st[i].state \in DOMAIN K
      BY <1>1, <1>3, <2>1, <2>2, <3>1 DEF FrameFits
    <3> QED BY <1>1, <1>3, <2>1, <2>2, <3>1, <3>2 DEF FrameFits
  <2>3. CASE st[i].kind = "callback"
    <3>1. st[i].state \notin States
      BY <2>1, <2>3, SlotsAssumption DEF FrameFits
    <3> QED BY <1>1, <1>3, <2>1, <2>3, <3>1 DEF FrameFits, Fits
  <2> QED BY <2>1, <2>2, <2>3 DEF Frames
<1>5. Fits(hs, K, st)
  <2>1. DOMAIN K \subseteq States /\ K \in [DOMAIN K -> Contents]
    BY <1>1 DEF Fits, Kept
  <2> QED BY <1>1, <1>2, <1>4, <2>1 DEF Fits
<1>6. \A h \in Slots : At(K, hs[h]) = At(hp, hs[h])
  BY <1>1, <1>2 DEF At
<1>7. \A i \in DOMAIN st : At(K, st[i].state) = At(hp, st[i].state)
  BY <1>1, <1>4 DEF At
<1>8. HeldIn(hs, K) = HeldIn(hs, hp)
  BY <1>6 DEF HeldIn
<1>9. ReadsIn(K, st) = ReadsIn(hp, st)
  BY <1>7 DEF ReadsIn, View
<1> QED BY <1>5, <1>8, <1>9

\* A new state is at an address that nothing else names.
Extended(hp, s, contents) == [t \in DOMAIN hp \cup {s} |-> IF t = s THEN contents ELSE hp[t]]
LEMMA NewStateIsOneHandles ==
    ASSUME NEW hs, NEW hp, NEW st, Fits(hs, hp, st),
           NEW s \in States, s \notin DOMAIN hp, NEW contents \in Contents, NEW h \in Slots
    PROVE  /\ Fits([hs EXCEPT ![h] = s], Extended(hp, s, contents), st)
           /\ HeldIn([hs EXCEPT ![h] = s], Extended(hp, s, contents)) = [HeldIn(hs, hp) EXCEPT ![h] = contents]
           /\ ReadsIn(Extended(hp, s, contents), st) = ReadsIn(hp, st)
<1> DEFINE H == Extended(hp, s, contents)
           G == [hs EXCEPT ![h] = s]
<1>1. /\ DOMAIN H = DOMAIN hp \cup {s} /\ H[s] = contents
      /\ \A t \in DOMAIN hp : H[t] = hp[t]
  BY DEF Extended
<1>2. G \in [Slots -> States \cup {Null, Absent}] /\ G[h] = s /\ \A g \in Slots : g # h => G[g] = hs[g]
  BY DEF Fits
<1>3. DOMAIN H \subseteq States /\ H \in [DOMAIN H -> Contents]
  BY <1>1 DEF Fits, Extended
<1>4. ASSUME NEW i \in DOMAIN st PROVE FrameFits(H, st, i) /\ st[i].state # s
  <2>1. FrameFits(hp, st, i) /\ st[i] \in Frames
    BY <1>4, ElementOfSeq DEF Fits
  <2>2. st[i].kind = "callback" => st[i].state \notin States
    BY <2>1, SlotsAssumption DEF FrameFits
  <2>3. st[i].kind \in {"tree", "callback"}
    BY <2>1 DEF Frames
  <2> QED BY <1>1, <2>1, <2>2, <2>3 DEF FrameFits
<1>5. Fits(G, H, st)
  BY <1>1, <1>2, <1>3, <1>4 DEF Fits
<1>6. \A g \in Slots : g # h => At(H, G[g]) = At(hp, hs[g])
  <2> SUFFICES ASSUME NEW g \in Slots, g # h PROVE At(H, hs[g]) = At(hp, hs[g])
    BY <1>2
  <2>1. hs[g] # s
    BY DEF Fits
  <2> QED BY <1>1, <2>1 DEF At
<1>7. At(H, G[h]) = contents
  BY <1>1, <1>2 DEF At
<1>8. HeldIn(G, H) = [HeldIn(hs, hp) EXCEPT ![h] = contents]
  BY <1>6, <1>7 DEF HeldIn
<1>9. ReadsIn(H, st) = ReadsIn(hp, st)
  BY <1>1, <1>4 DEF ReadsIn, View, At
<1> QED BY <1>5, <1>8, <1>9

\* The last call returns.
LEMMA PoppedIsSeen ==
    ASSUME NEW hs, NEW hp, NEW st, Fits(hs, hp, st), st # <<>>
    PROVE  /\ Fits(hs, hp, SubSeq(st, 1, Len(st) - 1))
           /\ ReadsIn(hp, st) # <<>>
           /\ ReadsIn(hp, SubSeq(st, 1, Len(st) - 1)) = SubSeq(ReadsIn(hp, st), 1, Len(ReadsIn(hp, st)) - 1)
<1> DEFINE p == SubSeq(st, 1, Len(st) - 1)
<1>1. st \in Seq(Frames) /\ Len(st) \in Nat \ {0} /\ DOMAIN st = 1..Len(st)
  BY LenProperties, EmptySeq DEF Fits
<1>2. /\ p \in Seq(Frames) /\ DOMAIN p = 1..(Len(st) - 1)
      /\ \A i \in 1..(Len(st) - 1) : p[i] = st[i]
  <2>1. 1 \in Int /\ Len(st) - 1 \in Int /\ Len(st) - 1 <= Len(st)
    BY <1>1
  <2> QED BY <1>1, <2>1, SubSeqProperties
<1>3. ASSUME NEW i \in DOMAIN p PROVE FrameFits(hp, p, i)
  <2>1. FrameFits(hp, st, i) /\ i \in 1..(Len(st) - 1)
    BY <1>1, <1>2, <1>3 DEF Fits
  <2>2. \A j \in 1..i : p[j] = st[j]
    BY <1>1, <1>2, <2>1
  <2> QED BY <1>2, <2>1, <2>2 DEF FrameFits
<1>4. Fits(hs, hp, p)
  BY <1>2, <1>3 DEF Fits
<1> DEFINE R == ReadsIn(hp, st)
<1>5. R = [i \in 1..Len(st) |-> View(hp, st[i])]
  BY <1>1 DEF ReadsIn
<1>6. Len(R) = Len(st) /\ R # <<>>
  BY <1>1, <1>5
<1>7. ReadsIn(hp, p) = SubSeq(R, 1, Len(R) - 1)
  BY <1>1, <1>2, <1>5, <1>6 DEF ReadsIn
<1> QED BY <1>4, <1>6, <1>7

\* The last call goes on.
LEMMA AdvancedIsSeen ==
    ASSUME NEW hs, NEW hp, NEW st, Fits(hs, hp, st), st # <<>>
    PROVE  Fits(hs, hp, AdvancedIn(st)) /\ ReadsIn(hp, AdvancedIn(st)) = AdvancedIn(ReadsIn(hp, st))
<1> DEFINE n == Len(st)
           a == [st EXCEPT ![n].pos = @ + 1]
           top == [st[n] EXCEPT !.pos = @ + 1]
           R == ReadsIn(hp, st)
<1>1. st \in Seq(Frames) /\ n \in Nat \ {0} /\ DOMAIN st = 1..n /\ n \in DOMAIN st
  BY LenProperties, EmptySeq DEF Fits
<1>2. st[n] \in Frames /\ top \in Frames
  <2>1. st[n] \in Frames
    BY <1>1, ElementOfSeq
  <2> QED BY <2>1 DEF Frames
<1>3. a = [st EXCEPT ![n] = top]
  OBVIOUS
<1>4. a \in Seq(Frames) /\ DOMAIN a = 1..n /\ a[n] = top /\ \A i \in 1..n : i # n => a[i] = st[i]
  BY <1>1, <1>2, <1>3, ExceptSeq
<1>5. \A i \in 1..n : /\ a[i].kind = st[i].kind /\ a[i].owner = st[i].owner
                      /\ a[i].state = st[i].state /\ a[i].tree = st[i].tree
  BY <1>2, <1>4 DEF Frames
<1>6. ASSUME NEW i \in DOMAIN a PROVE FrameFits(hp, a, i)
  <2>1. FrameFits(hp, st, i) /\ i \in 1..n
    BY <1>1, <1>4, <1>6 DEF Fits
  <2>2. \A j \in 1..i : a[j].owner = st[j].owner
    BY <1>1, <1>5, <2>1
  <2> QED BY <1>5, <2>1, <2>2 DEF FrameFits
<1>7. Fits(hs, hp, a)
  BY <1>4, <1>6 DEF Fits
<1>8. R = [i \in 1..n |-> View(hp, st[i])] /\ Len(R) = n
  BY <1>1 DEF ReadsIn
<1>9. View(hp, top) = [View(hp, st[n]) EXCEPT !.pos = @ + 1]
  BY <1>2 DEF View, Frames
<1>10. ReadsIn(hp, a) = [i \in 1..n |-> IF i = n THEN View(hp, top) ELSE View(hp, st[i])]
  BY <1>4 DEF ReadsIn
<1>11. ReadsIn(hp, a) = [R EXCEPT ![n].pos = @ + 1]
  BY <1>1, <1>8, <1>9, <1>10
<1> QED BY <1>7, <1>8, <1>11 DEF AdvancedIn

\* A new call begins.
LEMMA PushedIsSeen ==
    ASSUME NEW hs, NEW hp, NEW st, Fits(hs, hp, st), NEW f \in Frames,
           FrameFits(hp, Append(st, f), Len(st) + 1)
    PROVE  /\ Fits(hs, hp, Append(st, f))
           /\ ReadsIn(hp, Append(st, f)) = Append(ReadsIn(hp, st), View(hp, f))
<1> DEFINE n == Len(st)
           a == Append(st, f)
<1>1. st \in Seq(Frames) /\ n \in Nat /\ DOMAIN st = 1..n
  BY LenProperties DEF Fits
<1>2. a \in Seq(Frames) /\ DOMAIN a = 1..(n + 1) /\ a[n + 1] = f /\ \A i \in 1..n : a[i] = st[i]
  BY <1>1, AppendProperties, LenProperties
<1>3. ASSUME NEW i \in 1..n PROVE FrameFits(hp, a, i)
  <2>1. FrameFits(hp, st, i)
    BY <1>1 DEF Fits
  <2>2. \A j \in 1..i : a[j] = st[j]
    BY <1>1, <1>2
  <2> QED BY <1>2, <2>1, <2>2 DEF FrameFits
<1>4. \A i \in DOMAIN a : FrameFits(hp, a, i)
  BY <1>1, <1>2, <1>3
<1>5. Fits(hs, hp, a)
  BY <1>2, <1>4 DEF Fits
<1>6. ReadsIn(hp, st) = [i \in 1..n |-> View(hp, st[i])] /\ Len(ReadsIn(hp, st)) = n
  BY <1>1 DEF ReadsIn
<1>7. ReadsIn(hp, a) = [i \in 1..(n + 1) |-> IF i = n + 1 THEN View(hp, f) ELSE View(hp, st[i])]
  BY <1>1, <1>2 DEF ReadsIn
<1>8. ReadsIn(hp, a) = Append(ReadsIn(hp, st), View(hp, f))
  BY <1>1, <1>6, <1>7
<1> QED BY <1>5, <1>8

\* What TemplateValues knows of the last call.
LEMMA TopIsSeen ==
    ASSUME NEW hs, NEW hp, NEW st, Fits(hs, hp, st), st # <<>>
    PROVE  /\ st[Len(st)] \in Frames /\ FrameFits(hp, st, Len(st))
           /\ ReadsIn(hp, st) # <<>>
           /\ ReadsIn(hp, st)[Len(ReadsIn(hp, st))] = View(hp, st[Len(st)])
<1>1. st \in Seq(Frames) /\ Len(st) \in Nat \ {0} /\ DOMAIN st = 1..Len(st) /\ Len(st) \in DOMAIN st
  BY LenProperties, EmptySeq DEF Fits
<1>2. ReadsIn(hp, st) = [i \in 1..Len(st) |-> View(hp, st[i])] /\ Len(ReadsIn(hp, st)) = Len(st)
  BY <1>1 DEF ReadsIn
<1> QED BY <1>1, <1>2, ElementOfSeq DEF Fits

-----------------------------------------------------------------------------
(* Steps of the application *)

LEMMA Seen == Held = HeldIn(handles, heap) /\ Reads = ReadsIn(heap, stack)
BY DEF Held, Reads, HeldIn, ReadsIn, ReadsOf, View, ContentsAt, At

LEMMA HeldTyped ==
    ASSUME HandlesInv
    PROVE  /\ Held \in [Slots -> Contents \cup {Null, Absent}]
           /\ \A h \in Slots : handles[h] \in States => Held[h] = heap[handles[h]] /\ Held[h] \in Contents
           /\ \A h \in Slots : handles[h] \notin States => Held[h] = handles[h]
BY DEF HandlesInv, Fits, Held, ContentsAt

LEMMA ApplicationIsSeen ==
    ASSUME HandlesInv, ApplicationRuns
    PROVE  Values!ApplicationRuns
<1>1. CASE stack = <<>>
  <2>1. Reads = <<>>
    BY <1>1 DEF Reads
  <2> QED BY <2>1 DEF Values!ApplicationRuns
<1>2. CASE stack # <<>>
  <2>1. Reads[Len(Reads)] = View(heap, stack[Len(stack)])
    BY <1>2, TopIsSeen, Seen DEF HandlesInv
  <2> QED BY <1>2, <2>1 DEF Values!ApplicationRuns, ApplicationRuns, InApplication, View
<1> QED BY <1>1, <1>2

LEMMA MakeStateIsAssignment ==
    ASSUME HandlesInv, NEW h \in Slots, NEW contents \in Contents, MakeState(h, contents),
           stack' = stack, archive' = archive
    PROVE  HandlesInv' /\ Held' = [Held EXCEPT ![h] = contents] /\ Reads' = Reads
<1>1. PICK s \in States \ DOMAIN heap :
          /\ handles' = [handles EXCEPT ![h] = s]
          /\ heap' = Kept(handles', Extended(heap, s, contents), stack')
  BY DEF MakeState, Release, Kept, Extended
<1>2. /\ Fits(handles', Extended(heap, s, contents), stack')
      /\ HeldIn(handles', Extended(heap, s, contents)) = [HeldIn(handles, heap) EXCEPT ![h] = contents]
      /\ ReadsIn(Extended(heap, s, contents), stack') = ReadsIn(heap, stack)
  <2>1. Fits(handles, heap, stack) /\ s \in States /\ s \notin DOMAIN heap
    BY DEF HandlesInv
  <2>2. /\ Fits([handles EXCEPT ![h] = s], Extended(heap, s, contents), stack)
        /\ HeldIn([handles EXCEPT ![h] = s], Extended(heap, s, contents)) = [HeldIn(handles, heap) EXCEPT ![h] = contents]
        /\ ReadsIn(Extended(heap, s, contents), stack) = ReadsIn(heap, stack)
    BY <2>1, NewStateIsOneHandles
  <2> QED BY <1>1, <2>2
<1>3. /\ Fits(handles', heap', stack')
      /\ HeldIn(handles', heap') = HeldIn(handles', Extended(heap, s, contents))
      /\ ReadsIn(heap', stack') = ReadsIn(Extended(heap, s, contents), stack')
  BY <1>1, <1>2, ReleaseIsInvisible
<1>4. Held' = HeldIn(handles', heap') /\ Reads' = ReadsIn(heap', stack')
  BY Seen DEF Held, Reads, HeldIn, ReadsIn, ReadsOf, View, ContentsAt, At
<1> QED BY <1>2, <1>3, <1>4, Seen DEF HandlesInv

LEMMA ReassignmentIsAssignment ==
    ASSUME HandlesInv, handles' \in [Slots -> States \cup {Null, Absent}],
           \A h \in Slots : handles'[h] \in States => handles'[h] \in DOMAIN heap,
           Release(heap), stack' = stack, archive' = archive
    PROVE  HandlesInv' /\ Held' = HeldIn(handles', heap) /\ Reads' = Reads
<1>1. heap' = Kept(handles', heap, stack')
  BY DEF Release, Kept
<1>2. Fits(handles', heap, stack')
  BY DEF HandlesInv, Fits
<1>3. /\ Fits(handles', heap', stack')
      /\ HeldIn(handles', heap') = HeldIn(handles', heap)
      /\ ReadsIn(heap', stack') = ReadsIn(heap, stack)
  BY <1>1, <1>2, ReleaseIsInvisible
<1>4. Held' = HeldIn(handles', heap') /\ Reads' = ReadsIn(heap', stack')
  BY DEF Held, Reads, HeldIn, ReadsIn, ReadsOf, View, ContentsAt, At
<1> QED BY <1>3, <1>4, Seen DEF HandlesInv

\* What the two invariants of a step conclude: the invariant, and a step that TemplateValues allows.
Simulated == HandlesInv' /\ [Values!Next]_<<Held, Reads>>

LEMMA NothingIsSeen ==
    ASSUME HandlesInv, UNCHANGED <<handles, heap, stack>>, archive' \in Contents \cup {Null}
    PROVE  Simulated
BY DEF HandlesInv, Simulated, Held, Reads, ReadsOf, ContentsAt

LEMMA AssignmentSimulated ==
    ASSUME HandlesInv, HandlesInv', ApplicationRuns, NEW h \in Slots, NEW v \in Contents \cup {Null, Absent},
           Held' = [Held EXCEPT ![h] = v], Reads' = Reads
    PROVE  Simulated
<1>1. Values!Assign(h, v)
  BY ApplicationIsSeen DEF Values!Assign
<1> QED BY <1>1 DEF Simulated, Values!Next

LEMMA SingleTree ==
    ASSUME NEW tree \in Trees
    PROVE  [n \in {Root} |-> tree] \in Contents
<1>1. {Root} \in {{Root} \cup n : n \in SUBSET Names}
  <2>1. {Root} = {Root} \cup {} /\ {} \in SUBSET Names
    OBVIOUS
  <2> QED BY <2>1
<1>2. [n \in {Root} |-> tree] \in [{Root} -> Trees]
  OBVIOUS
<1> QED BY <1>1, <1>2 DEF Contents

LEMMA CompileSimulated ==
    ASSUME HandlesInv, NEW h \in Slots, NEW tree \in Trees, Compile(h, tree)
    PROVE  Simulated
<1>1. HandlesInv' /\ Held' = [Held EXCEPT ![h] = [n \in {Root} |-> tree]] /\ Reads' = Reads
  BY SingleTree, MakeStateIsAssignment DEF Compile
<1> QED BY <1>1, SingleTree, AssignmentSimulated DEF Compile, Call

LEMMA LoadSimulated ==
    ASSUME HandlesInv, NEW h \in Archived, Load(h)
    PROVE  Simulated
<1>1. h \in Slots /\ archive \in Contents
  BY DEF Slots, Load, HandlesInv
<1>2. HandlesInv' /\ Held' = [Held EXCEPT ![h] = archive] /\ Reads' = Reads
  BY <1>1, MakeStateIsAssignment DEF Load
<1> QED BY <1>1, <1>2, AssignmentSimulated DEF Load, Call

LEMMA CopyAssignSimulated ==
    ASSUME HandlesInv, NEW h \in Slots, NEW g \in Slots, CopyAssign(h, g)
    PROVE  Simulated
<1>1. handles' = [handles EXCEPT ![h] = handles[g]] /\ handles \in [Slots -> States \cup {Null, Absent}]
  BY DEF CopyAssign, HandlesInv, Fits
<1>2. HandlesInv' /\ Held' = HeldIn(handles', heap) /\ Reads' = Reads
  BY <1>1, ReassignmentIsAssignment DEF CopyAssign, HandlesInv, Fits
<1>3. Held' = [Held EXCEPT ![h] = Held[g]]
  BY <1>1, <1>2, Seen DEF HeldIn
<1> QED BY <1>2, <1>3, HeldTyped, AssignmentSimulated DEF CopyAssign, Call

LEMMA MoveAssignSimulated ==
    ASSUME HandlesInv, NEW h \in Slots, NEW g \in Slots, MoveAssign(h, g)
    PROVE  Simulated
<1>1. handles' = [handles EXCEPT ![g] = Null, ![h] = handles[g]] /\ handles \in [Slots -> States \cup {Null, Absent}]
  BY DEF MoveAssign, HandlesInv, Fits
<1>2. HandlesInv' /\ Held' = HeldIn(handles', heap) /\ Reads' = Reads
  BY <1>1, SlotsAssumption, ReassignmentIsAssignment DEF MoveAssign, HandlesInv, Fits
<1>3. At(heap, Null) = Null
  BY SlotsAssumption DEF HandlesInv, Fits, At
<1>4. Held' = [Held EXCEPT ![g] = Null, ![h] = Held[g]]
  BY <1>1, <1>2, <1>3, Seen DEF HeldIn
<1>5. Values!Move(h, g)
  BY <1>2, <1>4, ApplicationIsSeen DEF Values!Move, MoveAssign, Call
<1> QED BY <1>2, <1>5 DEF Simulated, Values!Next

LEMMA EmptyingSimulated ==
    ASSUME HandlesInv, ApplicationRuns, NEW h \in Slots, NEW v \in {Null, Absent},
           handles' = [handles EXCEPT ![h] = v], Release(heap), stack' = stack, archive' = archive
    PROVE  Simulated
<1>1. handles \in [Slots -> States \cup {Null, Absent}] /\ v \notin States
  BY SlotsAssumption DEF HandlesInv, Fits
<1>2. HandlesInv' /\ Held' = HeldIn(handles', heap) /\ Reads' = Reads
  BY <1>1, ReassignmentIsAssignment DEF HandlesInv, Fits
<1>3. At(heap, v) = v
  BY <1>1 DEF HandlesInv, Fits, At
<1>4. Held' = [Held EXCEPT ![h] = v]
  BY <1>1, <1>2, <1>3, Seen DEF HeldIn
<1> QED BY <1>2, <1>4, AssignmentSimulated

LEMMA SerializeSimulated ==
    ASSUME HandlesInv, NEW h \in Compiled, Serialize(h)
    PROVE  Simulated
<1> DEFINE names == {m \in Names : handles[m] \in States}
<1>1. \A s \in DOMAIN heap : Root \in DOMAIN heap[s] /\ heap[s][Root] \in Trees
  BY DEF HandlesInv, Fits, Contents
<1>2. handles[h] \in DOMAIN heap /\ \A m \in names : handles[m] \in DOMAIN heap
  BY DEF HandlesInv, Fits, Slots, Serialize, Serializable
<1>3. archive' = [n \in {Root} \cup names |-> IF n = Root THEN heap[handles[h]][Root] ELSE heap[handles[n]][Root]]
  BY DEF Serialize
<1>4. archive' \in [{Root} \cup names -> Trees] /\ names \in SUBSET Names
  BY <1>1, <1>2, <1>3
<1>5. archive' \in Contents
  BY <1>4 DEF Contents
<1> QED BY <1>5, NothingIsSeen DEF Serialize

-----------------------------------------------------------------------------
(* Steps of renders *)

\* A call that owns what it reads begins, or another returns: nothing else is seen to change.
LEMMA StackStep ==
    ASSUME HandlesInv, handles' = handles, archive' = archive, Fits(handles, heap, stack'),
           heap' = heap \/ Release(heap)
    PROVE  HandlesInv' /\ Held' = Held /\ Reads' = ReadsIn(heap, stack')
<1>1. Held' = HeldIn(handles', heap') /\ Reads' = ReadsIn(heap', stack')
  BY DEF Held, Reads, HeldIn, ReadsIn, ReadsOf, View, ContentsAt, At
<1>2. CASE heap' = heap
  BY <1>1, <1>2, Seen DEF HandlesInv
<1>3. CASE Release(heap)
  <2>1. heap' = Kept(handles, heap, stack')
    BY <1>3 DEF Release, Kept
  <2>2. /\ Fits(handles, heap', stack')
        /\ HeldIn(handles, heap') = HeldIn(handles, heap)
        /\ ReadsIn(heap', stack') = ReadsIn(heap, stack')
    BY <2>1, ReleaseIsInvisible
  <2> QED BY <1>1, <2>2, Seen DEF HandlesInv
<1> QED BY <1>2, <1>3

LEMMA PopSimulated ==
    ASSUME HandlesInv, stack # <<>>, stack' = SubSeq(stack, 1, Len(stack) - 1),
           handles' = handles, archive' = archive, Release(heap)
    PROVE  Simulated
<1>1. /\ Fits(handles, heap, stack')
      /\ Reads # <<>> /\ ReadsIn(heap, stack') = SubSeq(Reads, 1, Len(Reads) - 1)
  BY PoppedIsSeen, Seen DEF HandlesInv
<1>2. HandlesInv' /\ Held' = Held /\ Reads' = SubSeq(Reads, 1, Len(Reads) - 1)
  BY <1>1, StackStep
<1>3. Values!Leave
  BY <1>1, <1>2 DEF Values!Leave
<1> QED BY <1>2, <1>3 DEF Simulated, Values!Next

LEMMA BeginRenderSimulated ==
    ASSUME HandlesInv, NEW h \in Compiled \cup Archived, NEW source \in {"map", "none", "archive"},
           BeginRender(h, source)
    PROVE  Simulated
<1> DEFINE f == Reader(handles[h], handles[h], Root, source, 1)
           n == Len(stack)
<1>1. Fits(handles, heap, stack) /\ h \in Slots
  BY DEF HandlesInv, Slots
<1>2. handles[h] \in States /\ handles[h] \in DOMAIN heap /\ Root \in DOMAIN heap[handles[h]]
  BY <1>1 DEF Fits, Contents, BeginRender
<1>3. f \in Frames
  BY <1>2 DEF Frames, Reader
<1>4. n \in Nat /\ Append(stack, f)[n + 1] = f
  BY <1>1, <1>3, LenProperties, AppendProperties DEF Fits
<1>5. FrameFits(heap, Append(stack, f), n + 1)
  BY <1>2, <1>4 DEF FrameFits, Reader
<1>6. Fits(handles, heap, stack') /\ ReadsIn(heap, stack') = Append(Reads, View(heap, f))
  BY <1>1, <1>3, <1>5, PushedIsSeen, Seen DEF BeginRender
<1>7. HandlesInv' /\ Held' = Held /\ Reads' = Append(Reads, View(heap, f))
  BY <1>6, StackStep DEF BeginRender
<1>8. Held[h] = heap[handles[h]] /\ Held[h] \in Contents
  BY <1>1, <1>2, HeldTyped
<1>9. View(heap, f) = Values!Tree(Held[h], Root, source)
  BY <1>2, <1>8 DEF View, Reader, At, Values!Tree
<1>10. Values!Begin(h, source)
  BY <1>7, <1>8, <1>9, ApplicationIsSeen DEF Values!Begin, BeginRender, Call
<1> QED BY <1>1, <1>7, <1>10 DEF Simulated, Values!Next

\* An item of the tree that the innermost render has reached.
LEMMA ItemIsSeen ==
    ASSUME HandlesInv, NEW kind, AtItem(kind)
    PROVE  /\ stack # <<>> /\ Top \in Frames /\ Top.kind = "tree" /\ FrameFits(heap, stack, Len(stack))
           /\ TreeAt(Top) = heap[Top.state][Top.tree] /\ TreeAt(Top) \in Trees
           /\ Values!AtItem(kind) /\ Values!Top = View(heap, Top) /\ Values!Item = TreeAt(Top)[Top.pos]
<1>1. /\ stack # <<>> /\ Top.kind = "tree" /\ Fits(handles, heap, stack)
      /\ Top.pos \in DOMAIN TreeAt(Top) /\ TreeAt(Top)[Top.pos].kind = kind
  BY DEF HandlesInv, AtItem, Engine
<1>2. /\ Top \in Frames /\ FrameFits(heap, stack, Len(stack))
      /\ Reads # <<>> /\ Reads[Len(Reads)] = View(heap, Top)
  BY <1>1, TopIsSeen, Seen DEF Top
<1>3. Top.state \in DOMAIN heap /\ Top.tree \in DOMAIN heap[Top.state]
  BY <1>1, <1>2 DEF FrameFits, Top
<1>4. TreeAt(Top) = heap[Top.state][Top.tree]
  BY <1>3 DEF TreeAt
<1>5. heap[Top.state][Top.tree] \in Trees
  BY <1>1, <1>3 DEF Fits, Contents
<1>6. Values!Top = View(heap, Top)
  BY <1>2 DEF Values!Top
<1>7. Values!Top.contents = heap[Top.state] /\ Values!Top.tree = Top.tree /\ Values!Top.pos = Top.pos /\ Values!Top.kind = "tree"
  BY <1>1, <1>3, <1>6 DEF View, At
<1>8. Values!AtItem(kind) /\ Values!Item = TreeAt(Top)[Top.pos]
  BY <1>1, <1>2, <1>4, <1>7 DEF Values!AtItem, Values!Reading, Values!Item, Values!Top
<1> QED BY <1>1, <1>2, <1>4, <1>5, <1>6, <1>8

LEMMA PartialsAreNamed ==
    ASSUME HandlesInv, AtItem("partial")
    PROVE  Name \in Names /\ Name = Values!Item.name
<1>1. TreeAt(Top) \in Seq([kind : {"text", "lambda"}, name : {Null}] \cup [kind : {"partial"}, name : Names])
  BY ItemIsSeen, TreesAssumption
<1>2. Top.pos \in DOMAIN TreeAt(Top) /\ TreeAt(Top)[Top.pos].kind = "partial"
  BY DEF AtItem
<1>3. TreeAt(Top)[Top.pos] \in [kind : {"text", "lambda"}, name : {Null}] \cup [kind : {"partial"}, name : Names]
  BY <1>1, <1>2, ElementOfSeq
<1> QED BY <1>2, <1>3, ItemIsSeen DEF Name

LEMMA Advancing ==
    ASSUME HandlesInv, stack # <<>>
    PROVE  /\ Fits(handles, heap, Advanced) /\ ReadsIn(heap, Advanced) = Values!Advanced
           /\ Len(Advanced) = Len(stack) /\ Len(stack) \in Nat \ {0}
           /\ \A i \in 1..Len(stack) : Advanced[i].owner = stack[i].owner
<1>1. Fits(handles, heap, stack)
  BY DEF HandlesInv
<1>2. stack \in Seq(Frames) /\ Len(stack) \in Nat \ {0} /\ DOMAIN stack = 1..Len(stack) /\ Len(stack) \in DOMAIN stack
  BY <1>1, LenProperties, EmptySeq DEF Fits
<1>3. stack[Len(stack)] \in Frames
  BY <1>2, ElementOfSeq
<1>4. DOMAIN Advanced = 1..Len(stack) /\ Len(Advanced) = Len(stack)
  BY <1>2 DEF Advanced
<1>5. \A i \in 1..Len(stack) : Advanced[i].owner = stack[i].owner
  BY <1>2, <1>3 DEF Advanced, Frames
<1>6. Fits(handles, heap, Advanced) /\ ReadsIn(heap, Advanced) = Values!Advanced
  <2>1. Fits(handles, heap, AdvancedIn(stack)) /\ ReadsIn(heap, AdvancedIn(stack)) = AdvancedIn(ReadsIn(heap, stack))
    BY <1>1, AdvancedIsSeen
  <2>2. Advanced = AdvancedIn(stack) /\ Values!Advanced = AdvancedIn(Reads)
    BY DEF Advanced, Values!Advanced, AdvancedIn
  <2>3. ReadsIn(heap, stack) = Reads
    BY Seen
  <2> QED BY <2>1, <2>2, <2>3
<1> QED BY <1>2, <1>4, <1>5, <1>6

\* A step of the walk that calls nothing.
LEMMA SkipSimulated ==
    ASSUME HandlesInv, AtItem("text") \/ AtItem("partial"),
           stack' = Advanced, UNCHANGED <<handles, heap, archive>>
    PROVE  Simulated
<1>1. stack # <<>> /\ (Values!AtItem("text") \/ Values!AtItem("partial"))
  BY ItemIsSeen
<1>2. HandlesInv' /\ Held' = Held /\ Reads' = Values!Advanced
  BY <1>1, Advancing, StackStep
<1>3. Values!Skip
  BY <1>1, <1>2 DEF Values!Skip
<1> QED BY <1>2, <1>3 DEF Simulated, Values!Next

\* A call is made from the tree that is being read.
LEMMA CallStep ==
    ASSUME HandlesInv, stack # <<>>, NEW f \in Frames,
           FrameFits(heap, Append(Advanced, f), Len(Advanced) + 1),
           stack' = Append(Advanced, f), UNCHANGED <<handles, heap, archive>>
    PROVE  HandlesInv' /\ Held' = Held /\ Reads' = Append(Values!Advanced, View(heap, f))
<1>1. Fits(handles, heap, stack') /\ ReadsIn(heap, stack') = Append(Values!Advanced, View(heap, f))
  BY Advancing, PushedIsSeen
<1> QED BY <1>1, StackStep

LEMMA InvokeLambdaSimulated ==
    ASSUME HandlesInv, InvokeLambda
    PROVE  Simulated
<1>1. stack # <<>> /\ Values!AtItem("lambda")
  BY ItemIsSeen DEF InvokeLambda
<1>2. Callback \in Frames /\ Callback.owner = Null /\ Callback.state = Null /\ Callback.kind = "callback"
  BY DEF Callback, Reader, Frames
<1>3. Advanced \in Seq(Frames) /\ Len(Advanced) \in Nat
  BY <1>1, Advancing DEF Fits
<1>4. Append(Advanced, Callback)[Len(Advanced) + 1] = Callback
  BY <1>2, <1>3, AppendProperties
<1>5. FrameFits(heap, Append(Advanced, Callback), Len(Advanced) + 1)
  BY <1>2, <1>4, SlotsAssumption DEF FrameFits
<1>6. HandlesInv' /\ Held' = Held /\ Reads' = Append(Values!Advanced, View(heap, Callback))
  BY <1>1, <1>2, <1>5, CallStep DEF InvokeLambda
<1>7. At(heap, Null) = Null
  BY SlotsAssumption DEF HandlesInv, Fits, At
<1>8. View(heap, Callback) = Values!Callback
  BY <1>7 DEF View, Callback, Reader, Values!Callback
<1>9. Values!CallLambda
  BY <1>1, <1>6, <1>8 DEF Values!CallLambda
<1> QED BY <1>6, <1>9 DEF Simulated, Values!Next

LEMMA EnterPartialSimulated ==
    ASSUME HandlesInv, EnterPartial
    PROVE  Simulated
<1> DEFINE n == Len(Advanced)
           entered == [kind |-> "tree", contents |-> At(heap, PartialReader.state), tree |-> PartialReader.tree,
                       pos |-> 1, source |-> PartialReader.source]
<1>1. /\ stack # <<>> /\ Top \in Frames /\ Top.kind = "tree" /\ FrameFits(heap, stack, Len(stack))
      /\ Values!AtItem("partial") /\ Values!Top = View(heap, Top)
      /\ Name \in Names /\ Name = Values!Item.name
  BY ItemIsSeen, PartialsAreNamed DEF EnterPartial
<1>2. Fits(handles, heap, stack) /\ Advanced \in Seq(Frames) /\ n \in Nat \ {0} /\ n = Len(stack)
  BY <1>1, Advancing DEF HandlesInv, Fits
<1>3. ASSUME NEW f \in Frames, f = PartialReader PROVE Append(Advanced, f)[n + 1] = f /\ \A i \in 1..n : Append(Advanced, f)[i] = Advanced[i]
  BY <1>2, <1>3, AppendProperties, LenProperties
<1>4. CASE InMap
  <2> DEFINE f == Reader(handles[Name], handles[Name], Root, "map", Top.depth + 1)
  <2>1. PartialReader = f /\ Top.source = "map" /\ handles[Name] \in States /\ Name \in Slots
    BY <1>1, <1>4 DEF PartialReader, InMap, Slots
  <2>2. handles[Name] \in DOMAIN heap /\ Root \in DOMAIN heap[handles[Name]]
    BY <1>2, <2>1 DEF Fits, Contents
  <2>3. f \in Frames
    BY <1>1, <2>1 DEF Frames, Reader
  <2>4. FrameFits(heap, Append(Advanced, f), n + 1)
    BY <1>2, <1>3, <2>1, <2>2, <2>3 DEF FrameFits, Reader
  <2>5. HandlesInv' /\ Held' = Held /\ Reads' = Append(Values!Advanced, View(heap, f))
    BY <1>1, <2>1, <2>3, <2>4, CallStep DEF EnterPartial
  <2>6. Held[Name] = heap[handles[Name]] /\ Held[Name] \in Contents
    BY <2>1, HeldTyped
  <2>7. View(heap, f) = Values!Tree(Held[Name], Root, "map")
    BY <2>2, <2>6 DEF View, Reader, At, Values!Tree
  <2>8. Values!Top.source = "map"
    BY <1>1, <2>1 DEF View
  <2>9. Values!EnterHeld
    BY <1>1, <2>1, <2>5, <2>6, <2>7, <2>8 DEF Values!EnterHeld
  <2> QED BY <2>5, <2>9 DEF Simulated, Values!Next
<1>5. CASE ~InMap
  <2> DEFINE f == Reader(Null, Top.state, Name, "archive", Top.depth + 1)
  <2>1. PartialReader = f /\ Top.source = "archive" /\ Name \in DOMAIN heap[Top.state]
    BY <1>5 DEF PartialReader, InArchive, EnterPartial
  <2>2. /\ Top.state \in DOMAIN heap /\ Top.state \in States
        /\ \E j \in 1..Len(stack) : stack[j].owner = Top.state
    BY <1>1, <1>2 DEF FrameFits, Top, Fits
  <2>3. f \in Frames
    BY <1>1, <2>2 DEF Frames, Reader
  <2>4. PICK j \in 1..n : Advanced[j].owner = Top.state
    BY <1>1, <1>2, <2>2, Advancing
  <2>5. Append(Advanced, f)[j].owner = Top.state /\ j \in 1..(n + 1) /\ Append(Advanced, f)[n + 1] = f
    BY <1>2, <1>3, <2>1, <2>3, <2>4
  <2>6. FrameFits(heap, Append(Advanced, f), n + 1)
    BY <2>1, <2>2, <2>5, SlotsAssumption DEF FrameFits, Reader
  <2>7. HandlesInv' /\ Held' = Held /\ Reads' = Append(Values!Advanced, View(heap, f))
    BY <1>1, <2>1, <2>3, <2>6, CallStep DEF EnterPartial
  <2>8. Values!Top.contents = heap[Top.state] /\ Values!Top.source = "archive"
    BY <1>1, <2>1, <2>2 DEF View, At
  <2>9. View(heap, f) = Values!Tree(heap[Top.state], Name, "archive")
    BY <2>2 DEF View, Reader, At, Values!Tree
  <2>10. Values!EnterOwn
    BY <1>1, <2>1, <2>7, <2>8, <2>9 DEF Values!EnterOwn
  <2> QED BY <2>7, <2>10 DEF Simulated, Values!Next
<1> QED BY <1>4, <1>5

-----------------------------------------------------------------------------
(* The theorems *)

LEMMA HandleStepSimulated ==
    ASSUME HandlesInv, HandleStep
    PROVE  Simulated
<1>1. ASSUME NEW h \in Slots, NEW tree \in Trees, Compile(h, tree) PROVE Simulated
  BY <1>1, CompileSimulated
<1>2. ASSUME NEW h \in Slots, NEW g \in Slots, CopyAssign(h, g) PROVE Simulated
  BY <1>2, CopyAssignSimulated
<1>3. ASSUME NEW h \in Slots, NEW g \in Slots, MoveAssign(h, g) PROVE Simulated
  BY <1>3, MoveAssignSimulated
<1>4. ASSUME NEW h \in Slots, Clear(h) PROVE Simulated
  BY <1>4, EmptyingSimulated DEF Clear, Call
<1>5. ASSUME NEW n \in Names, ErasePartial(n) PROVE Simulated
  BY <1>5, EmptyingSimulated DEF ErasePartial, Call, Slots
<1>6. ASSUME NEW h \in Archived, Load(h) PROVE Simulated
  BY <1>6, LoadSimulated
<1> QED BY <1>1, <1>2, <1>3, <1>4, <1>5, <1>6 DEF HandleStep

LEMMA OtherCallSimulated ==
    ASSUME HandlesInv, OtherCall
    PROVE  Simulated
<1>1. archive \in Contents \cup {Null}
  BY DEF HandlesInv
<1>2. ASSUME RejectSource \/ RefuseLoad \/ Overwrite PROVE Simulated
  BY <1>1, <1>2, NothingIsSeen DEF RejectSource, RefuseLoad, Overwrite, Throw
<1>3. ASSUME NEW h \in Compiled, Serialize(h) PROVE Simulated
  BY <1>3, SerializeSimulated
<1>4. ASSUME NEW h \in Compiled, RefuseSerialize(h) PROVE Simulated
  BY <1>1, <1>4, NothingIsSeen DEF RefuseSerialize, Throw
<1>5. ASSUME NEW h \in Compiled \cup Archived, NEW source \in {"map", "none", "archive"}, BeginRender(h, source)
      PROVE  Simulated
  BY <1>5, BeginRenderSimulated
<1>6. ASSUME NEW h \in Compiled \cup Archived, RefuseRender(h) PROVE Simulated
  BY <1>1, <1>6, NothingIsSeen DEF RefuseRender, Throw
<1> QED BY <1>2, <1>3, <1>4, <1>5, <1>6 DEF OtherCall

LEMMA RenderStepSimulated ==
    ASSUME HandlesInv, RenderStep
    PROVE  Simulated
<1>1. archive \in Contents \cup {Null}
  BY DEF HandlesInv
<1>2. CASE AppendText \/ SkipPartial
  BY <1>2, SkipSimulated DEF AppendText, SkipPartial
<1>3. CASE InvokeLambda
  BY <1>3, InvokeLambdaSimulated
<1>4. CASE EnterPartial
  BY <1>4, EnterPartialSimulated
<1>5. CASE PartialTooDeep \/ RefusePartial \/ CallbackThrows \/ Catch
  BY <1>1, <1>5, NothingIsSeen DEF PartialTooDeep, RefusePartial, CallbackThrows, Catch, Throw
<1>6. CASE EndOfTree \/ Unwind
  BY <1>6, PopSimulated DEF EndOfTree, Unwind, Pop, Engine
<1>7. CASE CallbackReturns
  BY <1>7, PopSimulated DEF CallbackReturns
<1> QED BY <1>2, <1>3, <1>4, <1>5, <1>6, <1>7 DEF RenderStep

LEMMA HandlesInvInit ==
    ASSUME Init
    PROVE  HandlesInv /\ Values!Init
<1>1. /\ handles = [h \in Slots |-> IF h \in Names THEN Absent ELSE Null]
      /\ DOMAIN heap = {} /\ heap = [s \in {} |-> Null] /\ stack = <<>> /\ archive = Null
  BY DEF Init
<1>2. stack \in Seq(Frames) /\ DOMAIN stack = {}
  BY <1>1
<1>3. Fits(handles, heap, stack)
  BY <1>1, <1>2, SlotsAssumption DEF Fits
<1>4. Held = [h \in Slots |-> IF h \in Names THEN Absent ELSE Null] /\ Reads = <<>>
  BY <1>1, <1>2 DEF Held, Reads, ContentsAt
<1> QED BY <1>1, <1>3, <1>4 DEF HandlesInv, Values!Init

LEMMA NextSimulated ==
    ASSUME HandlesInv, [Next]_vars
    PROVE  Simulated
<1>1. CASE UNCHANGED vars
  BY <1>1, NothingIsSeen DEF vars, HandlesInv
<1> QED BY <1>1, HandleStepSimulated, OtherCallSimulated, RenderStepSimulated DEF Next

LEMMA HandlesInvHolds == Spec => []HandlesInv
<1>1. Init => HandlesInv
  BY HandlesInvInit
<1>2. HandlesInv /\ [Next]_vars => HandlesInv'
  BY NextSimulated DEF Simulated
<1> QED BY <1>1, <1>2, PTL DEF Spec

\* Whatever an application does in callbacks, no render reads a state that it does not own.
THEOREM RendersOwnWhatTheyRead == Spec => []ReadersOwn
<1>1. HandlesInv => ReadersOwn
  BY DEF HandlesInv, Fits, FrameFits, ReadersOwn
<1> QED BY <1>1, HandlesInvHolds, PTL

\* Template handles implement TemplateValues: sharing cannot be observed.
THEOREM HandlesBehaveAsValues == Spec => HandlesAreValues
<1>1. Init => Values!Init
  BY HandlesInvInit
<1>2. HandlesInv /\ [Next]_vars => [Values!Next]_Values!vars
  BY NextSimulated DEF Simulated, Values!vars
<1> QED BY <1>1, <1>2, HandlesInvHolds, PTL DEF Spec, HandlesAreValues, Values!Spec

=============================================================================
