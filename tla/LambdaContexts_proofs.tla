-------------------------- MODULE LambdaContexts_proofs --------------------------
(***************************************************************************)
(* Theorems about contexts, the registry of active engines and the threads *)
(* that use them, for any number of threads, renderers, callbacks and      *)
(* calls.  First the invariant of the threads' stacks that all of them     *)
(* rest on: who owns a context, who holds its lock, and what keeps it from *)
(* being revoked.                                                          *)
(***************************************************************************)
EXTENDS LambdaContexts, SequenceTheorems, FiniteSetTheorems, WellFoundedInduction, TLAPS

-----------------------------------------------------------------------------
(* Stacks *)

IsSeq(s) == \E S : s \in Seq(S)

LEMMA Push ==
    ASSUME NEW s, IsSeq(s), NEW e
    PROVE  /\ IsSeq(Append(s, e)) /\ Len(s) \in Nat /\ Len(Append(s, e)) = Len(s) + 1
           /\ DOMAIN s = 1..Len(s) /\ DOMAIN Append(s, e) = 1..(Len(s) + 1)
           /\ \A i \in 1..Len(s) : Append(s, e)[i] = s[i]
           /\ Append(s, e)[Len(s) + 1] = e
<1>1. PICK S : s \in Seq(S)
  BY DEF IsSeq
<1>2. s \in Seq(S \cup {e}) /\ e \in S \cup {e}
  BY <1>1, SeqMonotonic
<1>3. Append(s, e) \in Seq(S \cup {e})
  BY <1>2
<1> HIDE <1>1
<1> QED BY <1>2, <1>3 DEF IsSeq

LEMMA Pop ==
    ASSUME NEW s, IsSeq(s), s # <<>>
    PROVE  LET p == SubSeq(s, 1, Len(s) - 1) IN
           /\ IsSeq(p) /\ Len(s) \in Nat \ {0} /\ Len(p) = Len(s) - 1
           /\ DOMAIN s = 1..Len(s) /\ DOMAIN p = 1..(Len(s) - 1)
           /\ \A i \in 1..(Len(s) - 1) : p[i] = s[i]
<1>1. PICK S : s \in Seq(S)
  BY DEF IsSeq
<1>2. Len(s) \in Nat \ {0} /\ DOMAIN s = 1..Len(s)
  BY <1>1
<1>3. \A i \in 1..(Len(s) - 1) : s[i] \in S
  BY <1>1, <1>2, ElementOfSeq
<1>4. /\ SubSeq(s, 1, Len(s) - 1) \in Seq(S) /\ Len(SubSeq(s, 1, Len(s) - 1)) = Len(s) - 1
      /\ \A i \in 1..(Len(s) - 1) : SubSeq(s, 1, Len(s) - 1)[i] = s[i]
  BY <1>2, <1>3, SubSeqProperties
<1>5. DOMAIN SubSeq(s, 1, Len(s) - 1) = 1..(Len(s) - 1)
  BY <1>4
<1> QED BY <1>2, <1>4, <1>5 DEF IsSeq

LEMMA Put ==
    ASSUME NEW s, IsSeq(s), s # <<>>, NEW e
    PROVE  LET p == [s EXCEPT ![Len(s)] = e] IN
           /\ IsSeq(p) /\ Len(s) \in Nat \ {0} /\ Len(p) = Len(s)
           /\ DOMAIN s = 1..Len(s) /\ DOMAIN p = 1..Len(s)
           /\ \A i \in 1..Len(s) : p[i] = IF i = Len(s) THEN e ELSE s[i]
<1>1. PICK S : s \in Seq(S)
  BY DEF IsSeq
<1>2. s \in Seq(S \cup {e}) /\ e \in S \cup {e}
  BY <1>1, SeqMonotonic
<1>3. Len(s) \in Nat \ {0} /\ DOMAIN s = 1..Len(s)
  BY <1>1
<1>4. /\ [s EXCEPT ![Len(s)] = e] \in Seq(S \cup {e}) /\ Len([s EXCEPT ![Len(s)] = e]) = Len(s)
      /\ \A i \in 1..Len(s) : [s EXCEPT ![Len(s)] = e][i] = IF i = Len(s) THEN e ELSE s[i]
  BY <1>2, <1>3, ExceptSeq
<1>5. DOMAIN [s EXCEPT ![Len(s)] = e] = 1..Len(s)
  BY <1>3
<1> QED BY <1>3, <1>4, <1>5 DEF IsSeq

-----------------------------------------------------------------------------
(* Frames *)

IsFrame(f) == f = [op |-> f.op, renderer |-> f.renderer, context |-> f.context, engine |-> f.engine, handles |-> f.handles]
FrameFits(f) ==
    /\ IsFrame(f) /\ f.renderer \in Renderers /\ f.context \in 0..Len(contexts) /\ f.handles \subseteq 1..Len(contexts)
    /\ f.op \in Callbacks \cup Locking \cup {"locked", "template", "templated"} => f.context # 0
StacksFit ==
    /\ frames = [t \in Threads |-> frames[t]]
    /\ contexts \in Seq(Renderers \cup {Null})
    /\ \A t \in Threads : IsSeq(frames[t]) /\ \A i \in DOMAIN frames[t] : FrameFits(frames[t][i])
\* A context belongs to one callback, and the frames below it know only older contexts.
CallbacksOwn ==
    \A t, u \in Threads : \A i \in DOMAIN frames[t], j \in DOMAIN frames[u] :
        /\ frames[t][i].op \in Callbacks /\ frames[u][j].op \in Callbacks /\ frames[t][i].context = frames[u][j].context
              => t = u /\ i = j
CallbacksNest ==
    \A t \in Threads : \A i, j \in DOMAIN frames[t] :
        i < j /\ frames[t][j].op \in Callbacks => frames[t][i].context < frames[t][j].context
\* recursive_mutex: one thread at a time holds a context's lock.
LocksExclusive == \A t, u \in Threads : \A c \in Nat \ {0} : Holds(t, c) /\ Holds(u, c) => t = u
\* A render through a context keeps it from being revoked.
HelpersGranted ==
    \A t \in Threads : \A i \in DOMAIN frames[t] :
        frames[t][i].op = "helper" /\ frames[t][i].context # 0 => contexts[frames[t][i].context] # Null
FramesInv == StacksFit /\ CallbacksOwn /\ CallbacksNest /\ LocksExclusive /\ HelpersGranted

LEMMA FramesInvInit == Init => FramesInv
<1> SUFFICES ASSUME Init PROVE FramesInv
  OBVIOUS
<1>1. contexts \in Seq(Renderers \cup {Null}) /\ \A t \in Threads : frames[t] = <<>> /\ <<>> \in Seq({})
  BY DEF Init
<1> QED BY <1>1 DEF Init, FramesInv, StacksFit, CallbacksOwn, CallbacksNest, LocksExclusive, HelpersGranted, Holds, IsSeq

-----------------------------------------------------------------------------
(* What one thread's step does to its stack: all but the newest frame stay where they
   were, in the same role or a lesser one. *)

Inherits(t, f, g) ==
    /\ f.context = g.context
    /\ f.op \in Callbacks => g.op \in Callbacks
    /\ f.op \in Locked => g.op \in Locked \/ Available(t, f.context)
NewFrame(t, f) ==
    /\ f.op \in Locked /\ f.context # 0 => Available(t, f.context)
    /\ f.op \in Callbacks => \A u \in Threads : \A j \in DOMAIN frames[u] : frames[u][j].context < f.context
Successor(t, s) ==
    /\ IsSeq(s) /\ DOMAIN s = 1..Len(s) /\ Len(s) <= Len(frames[t]) + 1
    /\ \A i \in DOMAIN s : \/ i \in DOMAIN frames[t] /\ Inherits(t, s[i], frames[t][i])
                           \/ i = Len(frames[t]) + 1 /\ NewFrame(t, s[i])

LEMMA StackShape ==
    ASSUME StacksFit, NEW t \in Threads
    PROVE  Len(frames[t]) \in Nat /\ DOMAIN frames[t] = 1..Len(frames[t])
<1>1. PICK S : frames[t] \in Seq(S)
  BY DEF StacksFit, IsSeq
<1> QED BY <1>1

LEMMA OwnershipKept ==
    ASSUME StacksFit, CallbacksOwn, CallbacksNest, LocksExclusive,
           NEW t \in Threads, NEW s, Successor(t, s), frames' = [frames EXCEPT ![t] = s]
    PROVE  CallbacksOwn' /\ CallbacksNest' /\ LocksExclusive'
<1>1. frames'[t] = s /\ \A u \in Threads \ {t} : frames'[u] = frames[u]
  BY DEF StacksFit
<1>2. \A u \in Threads : Len(frames[u]) \in Nat /\ DOMAIN frames[u] = 1..Len(frames[u])
  BY StackShape
<1>3. /\ Len(s) \in Nat /\ DOMAIN s = 1..Len(s) /\ Len(s) <= Len(frames[t]) + 1
      /\ \A i \in DOMAIN s : \/ i \in DOMAIN frames[t] /\ Inherits(t, s[i], frames[t][i])
                             \/ i = Len(frames[t]) + 1 /\ NewFrame(t, s[i])
  BY DEF Successor, IsSeq
<1>4. \A u \in Threads : \A j \in DOMAIN frames[u] : frames[u][j].context \in Nat
  BY DEF StacksFit, FrameFits
<1>5. CallbacksOwn'
  <2> SUFFICES ASSUME NEW u \in Threads, NEW v \in Threads, NEW i \in DOMAIN frames'[u], NEW j \in DOMAIN frames'[v],
                      frames'[u][i].op \in Callbacks, frames'[v][j].op \in Callbacks,
                      frames'[u][i].context = frames'[v][j].context
               PROVE  u = v /\ i = j
    BY DEF CallbacksOwn
  <2> DEFINE old(w, k) == k \in DOMAIN frames[w] /\ frames[w][k].op \in Callbacks
                          /\ frames[w][k].context = frames'[w][k].context
             new(w, k) == w = t /\ k = Len(frames[t]) + 1
                          /\ \A x \in Threads : \A y \in DOMAIN frames[x] : frames[x][y].context < frames'[w][k].context
  <2>1. old(u, i) \/ new(u, i)
    BY <1>1, <1>3 DEF Inherits, NewFrame
  <2>2. old(v, j) \/ new(v, j)
    BY <1>1, <1>3 DEF Inherits, NewFrame
  <2>3. CASE old(u, i) /\ old(v, j)
    BY <2>3 DEF CallbacksOwn
  <2>4. CASE new(u, i) /\ new(v, j)
    BY <2>4
  <2>5. CASE old(u, i) /\ new(v, j)
    BY <1>4, <2>5
  <2>6. CASE new(u, i) /\ old(v, j)
    BY <1>4, <2>6
  <2> QED BY <2>1, <2>2, <2>3, <2>4, <2>5, <2>6
<1>6. CallbacksNest'
  <2> SUFFICES ASSUME NEW u \in Threads, NEW i \in DOMAIN frames'[u], NEW j \in DOMAIN frames'[u],
                      i < j, frames'[u][j].op \in Callbacks
               PROVE  frames'[u][i].context < frames'[u][j].context
    BY DEF CallbacksNest
  <2>1. CASE u # t
    BY <1>1, <2>1 DEF CallbacksNest
  <2>2. CASE u = t
    <3>1. i \in DOMAIN frames[t] /\ frames'[t][i].context = frames[t][i].context
      BY <1>1, <1>2, <1>3, <2>2 DEF Inherits
    <3>2. CASE j \in DOMAIN frames[t] /\ Inherits(t, s[j], frames[t][j])
      BY <1>1, <2>2, <3>1, <3>2 DEF Inherits, CallbacksNest
    <3>3. CASE NewFrame(t, s[j])
      BY <1>1, <2>2, <3>1, <3>3 DEF NewFrame
    <3> QED BY <1>1, <1>3, <2>2, <3>2, <3>3
  <2> QED BY <2>1, <2>2
<1>7. LocksExclusive'
  <2>1. ASSUME NEW u \in Threads, NEW c \in Nat \ {0}, Holds(u, c)'
        PROVE  Holds(u, c) \/ (u = t /\ Available(t, c))
    <3>1. PICK i \in DOMAIN frames'[u] : frames'[u][i].op \in Locked /\ frames'[u][i].context = c
      BY <2>1 DEF Holds
    <3>2. CASE u # t
      BY <1>1, <3>1, <3>2 DEF Holds
    <3>3. CASE u = t
      BY <1>1, <1>3, <3>1, <3>3 DEF Holds, Inherits, NewFrame
    <3> QED BY <3>2, <3>3
  <2> QED BY <2>1 DEF LocksExclusive, Available
<1> QED BY <1>5, <1>6, <1>7

Granted(f) == f.op = "helper" /\ f.context # 0 => contexts[f.context] # Null

LEMMA InvKept ==
    ASSUME FramesInv, NEW t \in Threads, NEW s, Successor(t, s), frames' = [frames EXCEPT ![t] = s],
           contexts' \in Seq(Renderers \cup {Null}), Len(contexts) <= Len(contexts'),
           \A c \in 1..Len(contexts) : contexts[c] # Null => contexts'[c] # Null,
           \A i \in DOMAIN s : FrameFits(s[i])' /\ Granted(s[i])'
    PROVE  FramesInv'
<1>1. StacksFit /\ CallbacksOwn /\ CallbacksNest /\ LocksExclusive /\ HelpersGranted
  BY DEF FramesInv
<1>2. CallbacksOwn' /\ CallbacksNest' /\ LocksExclusive'
  BY <1>1, OwnershipKept
<1>3. frames'[t] = s /\ (\A u \in Threads \ {t} : frames'[u] = frames[u]) /\ frames' = [u \in Threads |-> frames'[u]]
  BY <1>1 DEF StacksFit
<1>4. Len(contexts) \in Nat /\ Len(contexts') \in Nat
  BY <1>1 DEF StacksFit
<1>5. ASSUME NEW f, FrameFits(f), Granted(f)
      PROVE  FrameFits(f)' /\ Granted(f)'
  BY <1>4, <1>5 DEF FrameFits, IsFrame, Granted
<1>6. \A u \in Threads : IsSeq(frames'[u]) /\ \A i \in DOMAIN frames'[u] : FrameFits(frames[u][i])' /\ Granted(frames[u][i])'
  <2> TAKE u \in Threads
  <2>1. CASE u = t
    BY <1>3, <2>1 DEF Successor
  <2>2. CASE u # t
    <3>1. IsSeq(frames[u]) /\ \A i \in DOMAIN frames[u] : FrameFits(frames[u][i]) /\ Granted(frames[u][i])
      BY <1>1 DEF StacksFit, HelpersGranted, Granted
    <3> QED BY <1>3, <1>5, <2>2, <3>1
  <2> QED BY <2>1, <2>2
<1>7. StacksFit'
  BY <1>3, <1>6 DEF StacksFit
<1>8. HelpersGranted'
  BY <1>6 DEF HelpersGranted, Granted
<1> QED BY <1>2, <1>7, <1>8 DEF FramesInv

\* The step begins no callback.
CallbacksStay ==
    \A u \in Threads : \A i \in DOMAIN frames'[u] : frames'[u][i].op \in Callbacks =>
        i \in DOMAIN frames[u] /\ frames[u][i].op \in Callbacks /\ frames[u][i].context = frames'[u][i].context

LEMMA CallbacksKept ==
    ASSUME FramesInv, NEW t \in Threads, NEW s, Successor(t, s), frames' = [frames EXCEPT ![t] = s],
           \A i \in DOMAIN s : i \notin DOMAIN frames[t] => s[i].op \notin Callbacks
    PROVE  CallbacksStay
<1>1. frames'[t] = s /\ \A u \in Threads \ {t} : frames'[u] = frames[u]
  BY DEF FramesInv, StacksFit
<1>2. \A i \in DOMAIN s : s[i].op \in Callbacks => i \in DOMAIN frames[t] /\ Inherits(t, s[i], frames[t][i])
  BY StackShape DEF Successor, FramesInv
<1> QED BY <1>1, <1>2 DEF CallbacksStay, Inherits

LEMMA NotIdle ==
    ASSUME StacksFit, NEW t \in Threads
    PROVE  /\ \A i \in DOMAIN frames[t] : ~Idle(t)
           /\ ~Idle(t) <=> Len(frames[t]) > 0
<1>1. <<>> \in Seq({}) /\ Len(<<>>) = 0
  OBVIOUS
<1>2. DOMAIN <<>> = {}
  BY <1>1
<1>3. frames[t] # <<>> => Len(frames[t]) \in Nat \ {0}
  BY Pop DEF StacksFit
<1> QED BY <1>1, <1>2, <1>3 DEF Idle

LEMMA TopFits ==
    ASSUME FramesInv, NEW t \in Threads, ~Idle(t)
    PROVE  /\ Len(frames[t]) \in Nat \ {0} /\ DOMAIN frames[t] = 1..Len(frames[t]) /\ Len(frames[t]) \in DOMAIN frames[t]
           /\ IsSeq(frames[t]) /\ frames[t] # <<>> /\ FrameFits(Top(t)) /\ Granted(Top(t))
           /\ \A i \in DOMAIN frames[t] : FrameFits(frames[t][i]) /\ Granted(frames[t][i])
<1>1. IsSeq(frames[t]) /\ \A i \in DOMAIN frames[t] : FrameFits(frames[t][i]) /\ Granted(frames[t][i])
  BY DEF FramesInv, StacksFit, HelpersGranted, Granted
<1>2. frames[t] # <<>>
  BY DEF Idle
<1>3. Len(frames[t]) \in Nat \ {0} /\ DOMAIN frames[t] = 1..Len(frames[t])
  BY <1>1, <1>2, Pop
<1> QED BY <1>1, <1>2, <1>3 DEF Top

LEMMA PopKeeps ==
    ASSUME FramesInv, NEW t \in Threads, ~Idle(t), frames' = Popped(t), contexts' = contexts
    PROVE  FramesInv' /\ CallbacksStay
<1>s. PICK s : s = SubSeq(frames[t], 1, Len(frames[t]) - 1)
  OBVIOUS
<1>1. /\ IsSeq(s) /\ Len(s) = Len(frames[t]) - 1 /\ DOMAIN s = 1..(Len(frames[t]) - 1)
      /\ \A i \in DOMAIN s : s[i] = frames[t][i] /\ i \in DOMAIN frames[t]
  BY <1>s, TopFits, Pop
<1>2. Len(frames[t]) \in Nat /\ \A i \in DOMAIN frames[t] : FrameFits(frames[t][i]) /\ Granted(frames[t][i])
  BY TopFits
<1>3. frames' = [frames EXCEPT ![t] = s]
  BY <1>s DEF Popped
<1>4. Successor(t, s)
  BY <1>1, <1>2 DEF Successor, Inherits
<1>5. \A i \in DOMAIN s : FrameFits(s[i])' /\ Granted(s[i])'
  BY <1>1, <1>2 DEF FrameFits, Granted
<1>6. contexts' \in Seq(Renderers \cup {Null}) /\ Len(contexts) <= Len(contexts')
  BY DEF FramesInv, StacksFit
<1>7. CallbacksStay
  BY <1>1, <1>3, <1>4, CallbacksKept
<1> QED BY <1>3, <1>4, <1>5, <1>6, <1>7, InvKept

LEMMA PutKeeps ==
    ASSUME FramesInv, NEW t \in Threads, ~Idle(t), NEW f, frames' = [frames EXCEPT ![t] = [frames[t] EXCEPT ![Len(frames[t])] = f]],
           contexts' = contexts, Inherits(t, f, Top(t)), FrameFits(f), Granted(f)
    PROVE  FramesInv' /\ CallbacksStay
<1>s. PICK s : s = [frames[t] EXCEPT ![Len(frames[t])] = f]
  OBVIOUS
<1>1. /\ IsSeq(s) /\ Len(s) = Len(frames[t]) /\ DOMAIN s = 1..Len(frames[t])
      /\ \A i \in DOMAIN s : s[i] = IF i = Len(frames[t]) THEN f ELSE frames[t][i]
  BY <1>s, TopFits, Put
<1>2. /\ Len(frames[t]) \in Nat /\ DOMAIN frames[t] = 1..Len(frames[t])
      /\ \A i \in DOMAIN frames[t] : FrameFits(frames[t][i]) /\ Granted(frames[t][i])
  BY TopFits
<1>4. Successor(t, s)
  BY <1>1, <1>2 DEF Successor, Inherits, Top
<1>5. \A i \in DOMAIN s : FrameFits(s[i])' /\ Granted(s[i])'
  BY <1>1, <1>2 DEF FrameFits, Granted
<1>6. contexts' \in Seq(Renderers \cup {Null}) /\ Len(contexts) <= Len(contexts')
  BY DEF FramesInv, StacksFit
<1>7. CallbacksStay
  BY <1>s, <1>1, <1>2, <1>4, CallbacksKept
<1> QED BY <1>s, <1>4, <1>5, <1>6, <1>7, InvKept

LEMMA PushKeeps ==
    ASSUME FramesInv, NEW t \in Threads, NEW f, frames' = Pushed(t, f),
           contexts' \in Seq(Renderers \cup {Null}), Len(contexts) <= Len(contexts'),
           \A c \in 1..Len(contexts) : contexts[c] # Null => contexts'[c] # Null,
           NewFrame(t, f), FrameFits(f)', Granted(f)'
    PROVE  FramesInv' /\ (f.op \notin Callbacks => CallbacksStay)
<1>s. PICK s : s = Append(frames[t], f)
  OBVIOUS
<1>0. IsSeq(frames[t]) /\ \A i \in DOMAIN frames[t] : FrameFits(frames[t][i]) /\ Granted(frames[t][i])
  BY DEF FramesInv, StacksFit, HelpersGranted, Granted
<1>1. /\ IsSeq(s) /\ Len(s) = Len(frames[t]) + 1 /\ DOMAIN s = 1..(Len(frames[t]) + 1) /\ Len(frames[t]) \in Nat
      /\ DOMAIN frames[t] = 1..Len(frames[t]) /\ s[Len(frames[t]) + 1] = f
      /\ \A i \in DOMAIN frames[t] : s[i] = frames[t][i]
  BY <1>s, <1>0, Push
<1>2. frames' = [frames EXCEPT ![t] = s]
  BY <1>s DEF Pushed
<1>3. \A i \in DOMAIN s : i \in DOMAIN frames[t] \/ i = Len(frames[t]) + 1
  BY <1>1
<1>4. Successor(t, s)
  BY <1>1, <1>3 DEF Successor, Inherits
<1>5. Len(contexts) \in Nat /\ Len(contexts') \in Nat
  BY DEF FramesInv, StacksFit
<1>6. \A i \in DOMAIN s : FrameFits(s[i])' /\ Granted(s[i])'
  <2> TAKE i \in DOMAIN s
  <2>1. CASE i \in DOMAIN frames[t]
    BY <1>0, <1>1, <1>5, <2>1 DEF FrameFits, IsFrame, Granted
  <2>2. CASE i = Len(frames[t]) + 1
    BY <1>1, <2>2
  <2> QED BY <1>3, <2>1, <2>2
<1>7. ASSUME f.op \notin Callbacks PROVE CallbacksStay
  BY <1>1, <1>2, <1>3, <1>4, <1>7, CallbacksKept
<1> QED BY <1>2, <1>4, <1>6, <1>7, InvKept

-----------------------------------------------------------------------------
(* Every action keeps the invariant *)

LEMMA PushOldContext ==
    ASSUME FramesInv, NEW t \in Threads, NEW f, frames' = Pushed(t, f), contexts' = contexts,
           FrameFits(f), Granted(f), f.op \notin Callbacks, f.op \in Locked /\ f.context # 0 => Available(t, f.context)
    PROVE  FramesInv' /\ CallbacksStay
<1>1. contexts \in Seq(Renderers \cup {Null}) /\ Len(contexts) \in Nat
  BY DEF FramesInv, StacksFit
<1>2. FrameFits(f)' /\ Granted(f)' /\ NewFrame(t, f)
  BY DEF FrameFits, Granted, NewFrame
<1> QED BY <1>1, <1>2, PushKeeps

LEMMA PutTop ==
    ASSUME FramesInv, NEW t \in Threads, ~Idle(t), NEW op, contexts' = contexts,
           op \notin Locked, Top(t).op \in Callbacks \/ op \notin Callbacks,
           frames' = Became(t, op), op \in Callbacks => Top(t).context # 0, op \notin Locking
    PROVE  FramesInv' /\ CallbacksStay
<1>1. PICK f : f = [Top(t) EXCEPT !.op = op]
  OBVIOUS
<1>2. FrameFits(Top(t)) /\ Granted(Top(t))
  BY TopFits
<1>3. FrameFits(f) /\ f.op = op /\ f.context = Top(t).context
  BY <1>1, <1>2 DEF FrameFits, IsFrame, Locked
<1>4. Granted(f) /\ Inherits(t, f, Top(t))
  BY <1>3 DEF Granted, Inherits, Locked
<1>5. frames' = [frames EXCEPT ![t] = [frames[t] EXCEPT ![Len(frames[t])] = f]]
  BY <1>1 DEF Became, Top
<1> QED BY <1>3, <1>4, <1>5, PutKeeps

LEMMA InvokeKeeps ==
    ASSUME FramesInv, NEW t \in Threads, InvokeSectionLambda(t)
    PROVE  FramesInv'
<1> DEFINE id == Len(contexts) + 1
<1>1. ~Idle(t) /\ contexts' = Append(contexts, Top(t).renderer)
      /\ frames' = Pushed(t, UserFrame("callback", Top(t).renderer, id, HandlesOf(t, id)))
  BY DEF InvokeSectionLambda, Running
<1>2. contexts \in Seq(Renderers \cup {Null}) /\ Top(t).renderer \in Renderers
  BY <1>1, TopFits DEF FramesInv, StacksFit, FrameFits
<1>3. /\ contexts' \in Seq(Renderers \cup {Null}) /\ Len(contexts) \in Nat /\ Len(contexts') = Len(contexts) + 1
      /\ \A c \in 1..Len(contexts) : contexts'[c] = contexts[c]
  BY <1>1, <1>2
<1>4. PICK f : f = UserFrame("callback", Top(t).renderer, id, HandlesOf(t, id))
  OBVIOUS
<1>5. f.op = "callback" /\ f.context = id /\ f.renderer \in Renderers /\ IsFrame(f) /\ f.handles = HandlesOf(t, id)
  BY <1>2, <1>4 DEF UserFrame, Frame, IsFrame
<1>h. HandlesOf(t, id) \subseteq 1..(Len(contexts) + 1)
  <2>1. \A i \in DOMAIN frames[t] : frames[t][i].handles \subseteq 1..Len(contexts)
    BY DEF FramesInv, StacksFit, FrameFits
  <2> QED BY <1>3, <2>1 DEF HandlesOf
<1>6. FrameFits(f)' /\ Granted(f)'
  BY <1>3, <1>5, <1>h DEF FrameFits, IsFrame, Granted
<1>7. \A u \in Threads : \A j \in DOMAIN frames[u] : frames[u][j].context < id
  BY <1>3 DEF FramesInv, StacksFit, FrameFits
<1>8. NewFrame(t, f)
  BY <1>5, <1>7 DEF NewFrame, Locked
<1> QED BY <1>1, <1>3, <1>4, <1>6, <1>8, PushKeeps

\* No frame renders through the context of a callback that can invalidate it: not on
\* another thread, which would hold its lock, and not below the callback, where only
\* older contexts are known.
LEMMA NobodyUses ==
    ASSUME FramesInv, NEW t \in Threads, ~Idle(t), Top(t).op \in Callbacks, Available(t, Top(t).context),
           NEW u \in Threads, NEW i \in DOMAIN frames[u], frames[u][i].op = "helper"
    PROVE  frames[u][i].context # Top(t).context
<1>1. /\ Len(frames[t]) \in Nat \ {0} /\ DOMAIN frames[t] = 1..Len(frames[t])
      /\ Len(frames[t]) \in DOMAIN frames[t] /\ Top(t) = frames[t][Len(frames[t])]
  BY TopFits DEF Top
<1>2. CASE u = t
  <2>1. i < Len(frames[t])
    BY <1>1, <1>2 DEF Callbacks
  <2>2. frames[t][i].context \in Nat /\ Top(t).context \in Nat
    BY <1>1, <1>2 DEF FramesInv, StacksFit, FrameFits
  <2>3. frames[t][i].context < Top(t).context
    BY <1>1, <1>2, <2>1 DEF FramesInv, CallbacksNest
  <2> QED BY <1>2, <2>2, <2>3
<1>3. CASE u # t
  BY <1>3 DEF Available, Holds, Locked
<1> QED BY <1>2, <1>3

LEMMA InvalidateKeeps ==
    ASSUME FramesInv, NEW t \in Threads, Invalidate(t)
    PROVE  FramesInv' /\ CallbacksStay
<1> DEFINE c == Top(t).context
<1>1. /\ ~Idle(t) /\ Top(t).op = "returning" /\ Available(t, c) /\ contexts' = [contexts EXCEPT ![c] = Null]
      /\ frames' = Became(t, "invalidated")
  BY DEF Invalidate, Running
<1>2. /\ Len(frames[t]) \in Nat \ {0} /\ DOMAIN frames[t] = 1..Len(frames[t]) /\ FrameFits(Top(t)) /\ Len(frames[t]) \in DOMAIN frames[t]
      /\ IsSeq(frames[t]) /\ frames[t] # <<>>
  BY <1>1, TopFits
<1>3. contexts \in Seq(Renderers \cup {Null}) /\ Len(contexts) \in Nat
  BY DEF FramesInv, StacksFit
<1>4. c \in 1..Len(contexts)
  BY <1>1, <1>2, <1>3 DEF FrameFits, Callbacks
<1>5. contexts' \in Seq(Renderers \cup {Null}) /\ Len(contexts') = Len(contexts) /\ \A d \in 1..Len(contexts) : d # c => contexts'[d] = contexts[d]
  BY <1>1, <1>3, <1>4
<1>6. PICK f : f = [Top(t) EXCEPT !.op = "invalidated"]
  OBVIOUS
<1>7. PICK s : s = [frames[t] EXCEPT ![Len(frames[t])] = f]
  OBVIOUS
<1>8. /\ IsSeq(s) /\ Len(s) = Len(frames[t]) /\ DOMAIN s = 1..Len(frames[t])
      /\ \A i \in DOMAIN s : s[i] = IF i = Len(frames[t]) THEN f ELSE frames[t][i]
  BY <1>2, <1>7, Put
<1>9. f.op = "invalidated" /\ f.context = c /\ f.renderer \in Renderers /\ IsFrame(f)
  BY <1>2, <1>6 DEF FrameFits, IsFrame
<1>20. f.handles \subseteq 1..Len(contexts)
  BY <1>2, <1>6 DEF FrameFits, IsFrame
<1>10. Successor(t, s)
  BY <1>1, <1>2, <1>8, <1>9 DEF Successor, Inherits, Top, Callbacks, Locked
<1>11. frames' = [frames EXCEPT ![t] = s]
  BY <1>1, <1>6, <1>7 DEF Became, Top
<1>12. frames = [u \in Threads |-> frames[u]] /\ \A u \in Threads : IsSeq(frames[u]) /\ \A i \in DOMAIN frames[u] : FrameFits(frames[u][i])
  BY DEF FramesInv, StacksFit
<1>13. frames'[t] = s /\ \A u \in Threads \ {t} : frames'[u] = frames[u]
  BY <1>11, <1>12
<1>14. \A u \in Threads : IsSeq(frames'[u]) /\ \A i \in DOMAIN frames'[u] : FrameFits(frames[u][i])'
  <2> TAKE u \in Threads
  <2>1. CASE u = t
    <3>1. FrameFits(f)' /\ \A i \in DOMAIN frames[t] : FrameFits(frames[t][i])
      BY <1>3, <1>4, <1>5, <1>9, <1>20, <1>12 DEF FrameFits
    <3>2. ASSUME NEW i \in DOMAIN s PROVE s[i] = f \/ (s[i] = frames[t][i] /\ FrameFits(s[i]))
      BY <1>2, <1>8, <3>1
    <3>3. ASSUME NEW i \in DOMAIN s PROVE FrameFits(s[i])'
      BY <1>5, <3>1, <3>2 DEF FrameFits
    <3> QED BY <1>8, <1>13, <2>1, <3>3
  <2>2. CASE u # t
    BY <1>5, <1>12, <1>13, <2>2 DEF FrameFits, IsFrame
  <2> QED BY <2>1, <2>2
<1>15. StacksFit'
  BY <1>5, <1>11, <1>12, <1>14 DEF StacksFit
<1>16. \A u \in Threads : \A i \in DOMAIN frames'[u] :
          frames'[u][i].op = "helper" => i \in DOMAIN frames[u] /\ frames[u][i] = frames'[u][i]
  BY <1>2, <1>8, <1>9, <1>13
<1>17. \A u \in Threads : \A i \in DOMAIN frames'[u] : frames'[u][i].op = "helper" => frames'[u][i].context # c
  BY <1>1, <1>16, NobodyUses DEF Callbacks
<1>18. HelpersGranted'
  BY <1>5, <1>12, <1>16, <1>17 DEF HelpersGranted, FramesInv, FrameFits
<1>19. CallbacksStay
  BY <1>2, <1>8, <1>10, <1>11, CallbacksKept
<1> QED BY <1>10, <1>11, <1>15, <1>18, <1>19, OwnershipKept DEF FramesInv

LEMMA PushesKeep ==
    ASSUME FramesInv, NEW t \in Threads,
           \/ \E r \in Renderers : StartRender(t, r)
           \/ \E c \in DOMAIN contexts, op \in Locking : CallRender(t, c, op)
           \/ LegacyRender(t)
           \/ \E hs \in SUBSET DOMAIN contexts, w \in Threads, mode \in HandoffModes : HandOver(t, w, hs, mode)
    PROVE  FramesInv' /\ CallbacksStay
<1>1. contexts \in Seq(Renderers \cup {Null}) /\ DOMAIN contexts = 1..Len(contexts) /\ Len(contexts) \in Nat
  BY DEF FramesInv, StacksFit
<1>2. ~Idle(t) => Top(t).renderer \in Renderers
  BY TopFits DEF FrameFits
<1>3. ASSUME NEW r \in Renderers, StartRender(t, r) PROVE FramesInv' /\ CallbacksStay
  <2>1. PICK f : f = Frame("render", r, 0)
    OBVIOUS
  <2>2. FrameFits(f) /\ f.op = "render" /\ f.context = 0
    BY <1>1, <2>1 DEF FrameFits, IsFrame, Frame, HelperFrame, Callbacks, Locking
  <2>3. frames' = Pushed(t, f) /\ contexts' = contexts
    BY <1>3, <2>1 DEF StartRender
  <2> QED BY <2>2, <2>3, PushOldContext DEF Granted, Callbacks, Locked
<1>4. ASSUME NEW c \in DOMAIN contexts, NEW op \in Locking, CallRender(t, c, op) PROVE FramesInv' /\ CallbacksStay
  <2>1. PICK f : f = Frame(op, Top(t).renderer, c)
    OBVIOUS
  <2>2. ~Idle(t) /\ frames' = Pushed(t, f) /\ contexts' = contexts
    BY <1>4, <2>1 DEF CallRender, UserCode, Running
  <2>3. FrameFits(f) /\ f.op = op /\ f.context = c
    BY <1>1, <1>2, <2>1, <2>2 DEF FrameFits, IsFrame, Frame
  <2> QED BY <2>2, <2>3, PushOldContext DEF Granted, Callbacks, Locking, Locked
<1>5. ASSUME LegacyRender(t) PROVE FramesInv' /\ CallbacksStay
  <2>1. PICK f : f = HelperFrame(Top(t).renderer, 0)
    OBVIOUS
  <2>2. ~Idle(t) /\ frames' = Pushed(t, f) /\ contexts' = contexts
    BY <1>5, <2>1 DEF LegacyRender, UserCode, Running
  <2>4. IsFrame(f) /\ f.op = "helper" /\ f.context = 0 /\ f.renderer = Top(t).renderer /\ f.handles = {}
    BY <2>1 DEF IsFrame, Frame, HelperFrame
  <2>3. FrameFits(f) /\ f.op = "helper" /\ f.context = 0
    BY <1>1, <1>2, <2>2, <2>4 DEF FrameFits, Callbacks, Locking
  <2> QED BY <2>2, <2>3, PushOldContext DEF Granted, Callbacks, Locked
<1>6. ASSUME NEW hs \in SUBSET DOMAIN contexts, NEW w \in Threads, NEW mode \in HandoffModes, HandOver(t, w, hs, mode)
      PROVE FramesInv' /\ CallbacksStay
  <2>1. PICK f : f = UserFrame("worker", Top(t).renderer, Top(t).context, hs)
    OBVIOUS
  <2>2. ~Idle(t) /\ frames' = Pushed(w, f) /\ contexts' = contexts
    BY <1>6, <2>1 DEF HandOver, Running
  <2>3. FrameFits(f) /\ f.op = "worker"
    BY <1>1, <1>2, <2>1, <2>2, TopFits DEF FrameFits, IsFrame, UserFrame, Frame, Callbacks, Locking
  <2> QED BY <2>2, <2>3, PushOldContext DEF Granted, Callbacks, Locked
<1> QED BY <1>3, <1>4, <1>5, <1>6

LEMMA LockContextKeeps ==
    ASSUME FramesInv, NEW t \in Threads, LockContext(t)
    PROVE  FramesInv' /\ CallbacksStay
<1>1. ~Idle(t) /\ Top(t).op \in Locking /\ Available(t, Top(t).context) /\ contexts' = contexts
  BY DEF LockContext, Running
<1>2. PICK op \in {"locked", "template"} : frames' = Became(t, op)
  BY DEF LockContext
<1>3. PICK f : f = [Top(t) EXCEPT !.op = op]
  OBVIOUS
<1>4. PICK s : s = [frames[t] EXCEPT ![Len(frames[t])] = f]
  OBVIOUS
<1>5. /\ Len(frames[t]) \in Nat \ {0} /\ DOMAIN frames[t] = 1..Len(frames[t]) /\ FrameFits(Top(t)) /\ IsSeq(frames[t]) /\ frames[t] # <<>>
      /\ \A i \in DOMAIN frames[t] : FrameFits(frames[t][i]) /\ Granted(frames[t][i])
  BY <1>1, TopFits
<1>6. FrameFits(f) /\ f.op = op /\ f.context = Top(t).context
  BY <1>1, <1>3, <1>5 DEF FrameFits, IsFrame, Callbacks, Locking
<1>8. frames' = [frames EXCEPT ![t] = s]
  BY <1>2, <1>3, <1>4 DEF Became, Top
<1>9. Inherits(t, f, Top(t)) /\ Granted(f)
  BY <1>1, <1>6 DEF Inherits, Granted, Callbacks
<1> QED BY <1>1, <1>3, <1>4, <1>6, <1>8, <1>9, PutKeeps

LEMMA RenderTemplateKeeps ==
    ASSUME FramesInv, NEW t \in Threads, RenderTemplate(t)
    PROVE  FramesInv' /\ CallbacksStay
<1> DEFINE c == Top(t).context
<1>1. ~Idle(t) /\ Top(t).op = "template" /\ contexts' = contexts
  BY DEF RenderTemplate, Running
<1>2. CASE frames' = Popped(t)
  BY <1>1, <1>2, PopKeeps
<1>3. CASE frames' = [frames EXCEPT ![t] = Append(Became(t, "templated")[t], Frame("lock", Top(t).renderer, c))]
  <2>1. /\ Len(frames[t]) \in Nat \ {0} /\ DOMAIN frames[t] = 1..Len(frames[t]) /\ FrameFits(Top(t))
        /\ IsSeq(frames[t]) /\ frames[t] # <<>> /\ \A i \in DOMAIN frames[t] : FrameFits(frames[t][i]) /\ Granted(frames[t][i])
    BY <1>1, TopFits
  <2>2. c \in 0..Len(contexts) /\ c # 0 /\ contexts \in Seq(Renderers \cup {Null}) /\ Len(contexts) \in Nat
    BY <1>1, <2>1 DEF FrameFits, FramesInv, StacksFit
  <2>3. PICK f : f = [Top(t) EXCEPT !.op = "templated"]
    OBVIOUS
  <2>4. PICK g : g = Frame("lock", Top(t).renderer, c)
    OBVIOUS
  <2>5. PICK p : p = [frames[t] EXCEPT ![Len(frames[t])] = f]
    OBVIOUS
  <2>6. PICK s : s = Append(p, g)
    OBVIOUS
  <2>7. FrameFits(f) /\ f.op = "templated" /\ f.context = c
    BY <2>1, <2>2, <2>3 DEF FrameFits, IsFrame
  <2>8. FrameFits(g) /\ g.op = "lock" /\ g.context = c
    BY <2>1, <2>2, <2>4 DEF FrameFits, IsFrame, Frame, HelperFrame, Callbacks, Locking
  <2>9. /\ IsSeq(p) /\ Len(p) = Len(frames[t]) /\ DOMAIN p = 1..Len(frames[t])
        /\ \A i \in DOMAIN p : p[i] = IF i = Len(frames[t]) THEN f ELSE frames[t][i]
    BY <2>1, <2>5, Put
  <2>10. /\ IsSeq(s) /\ Len(s) = Len(frames[t]) + 1 /\ DOMAIN s = 1..(Len(frames[t]) + 1)
         /\ s[Len(frames[t]) + 1] = g /\ \A i \in DOMAIN p : s[i] = p[i]
    BY <2>6, <2>9, Push
  <2>11. \A i \in DOMAIN s : \/ i = Len(frames[t]) + 1 /\ s[i] = g
                             \/ i = Len(frames[t]) /\ s[i] = f
                             \/ i \in DOMAIN frames[t] /\ s[i] = frames[t][i]
    BY <2>1, <2>9, <2>10
  <2>12. Became(t, "templated")[t] = p
    BY <2>3, <2>5 DEF Became, Top, FramesInv, StacksFit
  <2>13. frames' = [frames EXCEPT ![t] = s]
    BY <1>3, <2>4, <2>6, <2>12
  <2>14. NewFrame(t, g)
    BY <1>3, <2>8 DEF NewFrame, Callbacks, Locked
  <2>15. Inherits(t, f, Top(t))
    BY <1>1, <2>7 DEF Inherits, Callbacks, Locked
  <2>16. Successor(t, s)
    BY <2>1, <2>10, <2>11, <2>14, <2>15 DEF Successor, Inherits, Top
  <2>17. \A i \in DOMAIN s : FrameFits(s[i])' /\ Granted(s[i])'
    BY <1>1, <2>1, <2>7, <2>8, <2>11 DEF FrameFits, Granted
  <2>18. /\ contexts' \in Seq(Renderers \cup {Null}) /\ Len(contexts) <= Len(contexts')
         /\ \A d \in 1..Len(contexts) : contexts[d] # Null => contexts'[d] # Null
    BY <1>1, <2>2
  <2>19. CallbacksStay
    <3>1. \A i \in DOMAIN s : i \notin DOMAIN frames[t] => s[i] = g
      BY <2>1, <2>11
    <3>2. g.op \notin Callbacks
      BY <2>8 DEF Callbacks
    <3> QED BY <2>13, <2>16, <3>1, <3>2, CallbacksKept
  <2> QED BY <2>13, <2>16, <2>17, <2>18, <2>19, InvKept
<1> QED BY <1>2, <1>3 DEF RenderTemplate

LEMMA RenderThroughContextKeeps ==
    ASSUME FramesInv, NEW t \in Threads, RenderThroughContext(t)
    PROVE  FramesInv' /\ CallbacksStay
<1> DEFINE c == Top(t).context
           r == contexts[c]
<1>1. ~Idle(t) /\ Top(t).op = "locked" /\ contexts' = contexts
  BY DEF RenderThroughContext, Running
<1>2. CASE frames' = Popped(t)
  BY <1>1, <1>2, PopKeeps
<1>3. CASE HelperAllowed(r) /\ frames' = [frames EXCEPT ![t][Len(frames[t])] = HelperFrame(r, c)]
  <2>1. FrameFits(Top(t)) /\ contexts \in Seq(Renderers \cup {Null}) /\ Len(contexts) \in Nat
    BY <1>1, TopFits DEF FramesInv, StacksFit
  <2>2. c \in 1..Len(contexts)
    BY <1>1, <2>1 DEF FrameFits
  <2>3. r \in Renderers /\ r # Null
    BY <1>3, <2>1, <2>2 DEF HelperAllowed
  <2>4. PICK f : f = HelperFrame(r, c)
    OBVIOUS
  <2>5. FrameFits(f) /\ f.op = "helper" /\ f.context = c
    BY <2>1, <2>2, <2>3, <2>4 DEF FrameFits, IsFrame, Frame, HelperFrame, Callbacks, Locking
  <2>6. Inherits(t, f, Top(t)) /\ Granted(f)
    BY <1>1, <2>3, <2>5 DEF Inherits, Granted, Callbacks, Locked
  <2>7. frames' = [frames EXCEPT ![t] = [frames[t] EXCEPT ![Len(frames[t])] = f]]
    BY <1>3, <2>4
  <2> QED BY <1>1, <2>5, <2>6, <2>7, PutKeeps
<1> QED BY <1>2, <1>3 DEF RenderThroughContext

LEMMA FramesInvNext == FramesInv /\ [Next]_vars => FramesInv'
<1> SUFFICES ASSUME FramesInv, [Next]_vars PROVE FramesInv'
  OBVIOUS
<1>1. CASE UNCHANGED vars
  BY <1>1 DEF vars, FramesInv, StacksFit, FrameFits, CallbacksOwn, CallbacksNest, LocksExclusive, Holds, HelpersGranted
<1>2. ASSUME NEW t \in Threads, Step(t) PROVE FramesInv'
  <2>1. CASE FinishRender(t) \/ FinishHelper(t) \/ FinishWorker(t)
    BY <2>1, PopKeeps DEF FinishRender, FinishHelper, FinishWorker, Running
  <2>2. CASE LeaveScope(t)
    BY <2>2, PopKeeps DEF LeaveScope, Running
  <2>3. CASE ReturnFromCallback(t)
    <3>1. ~Idle(t) /\ Top(t).op \in Callbacks /\ frames' = Became(t, "returning") /\ contexts' = contexts
      BY <2>3 DEF ReturnFromCallback, Running, Callbacks
    <3>2. Top(t).context # 0
      BY <3>1, TopFits DEF FrameFits
    <3> QED BY <3>1, <3>2, PutTop DEF Locked, Locking
  <2>4. CASE LeaveCallback(t)
    <3>1. ~Idle(t) /\ Top(t).op \in Callbacks /\ frames' = Became(t, "unlinking") /\ contexts' = contexts
      BY <2>4 DEF LeaveCallback, Running, Callbacks
    <3>2. Top(t).context # 0
      BY <3>1, TopFits DEF FrameFits
    <3> QED BY <3>1, <3>2, PutTop DEF Locked, Locking
  <2> QED BY <1>2, <2>1, <2>2, <2>3, <2>4, InvokeKeeps, InvalidateKeeps, PushesKeep, LockContextKeeps, RenderTemplateKeeps, RenderThroughContextKeeps DEF Step
<1> QED BY <1>1, <1>2, PushesKeep DEF Next

-----------------------------------------------------------------------------
(* Contexts keep their promise *)

PhaseOf == [c \in Ids |-> Phase(c)]
UsersOf == [c \in Ids |-> Users(c)]
Uses(f, c) == f.op = "helper" /\ f.context = c

LEMMA PromiseGrants ==
    ASSUME NEW c \in Ids, Phase(c) = "unborn", Phase(c)' = "granted",
           \A d \in Ids \ {c} : Phase(d)' = Phase(d), \A d \in Ids : Users(d)' = Users(d)
    PROVE  Promise!Next
<1>1. PhaseOf' = [PhaseOf EXCEPT ![c] = "granted"] /\ UsersOf' = UsersOf
  BY DEF PhaseOf, UsersOf
<1> QED BY <1>1 DEF Promise!Next, Promise!Grant, PhaseOf, UsersOf

LEMMA PromiseEnters ==
    ASSUME NEW c \in Ids, NEW t \in Threads, Phase(c) = "granted", Users(c) = {}, Users(c)' = {t},
           \A d \in Ids \ {c} : Users(d)' = Users(d), \A d \in Ids : Phase(d)' = Phase(d)
    PROVE  Promise!Next
<1>1. UsersOf' = [UsersOf EXCEPT ![c] = {t}] /\ PhaseOf' = PhaseOf
  BY DEF PhaseOf, UsersOf
<1> QED BY <1>1 DEF Promise!Next, Promise!Enter, PhaseOf, UsersOf

LEMMA PromiseLeaves ==
    ASSUME NEW c \in Ids, Phase(c) = "granted", Users(c) # {}, Users(c)' = {},
           \A d \in Ids \ {c} : Users(d)' = Users(d), \A d \in Ids : Phase(d)' = Phase(d)
    PROVE  Promise!Next
<1>1. UsersOf' = [UsersOf EXCEPT ![c] = {}] /\ PhaseOf' = PhaseOf
  BY DEF PhaseOf, UsersOf
<1> QED BY <1>1 DEF Promise!Next, Promise!Leave, PhaseOf, UsersOf

LEMMA PromiseRevokes ==
    ASSUME NEW c \in Ids, Phase(c) = "granted", Phase(c)' = "revoked", Users(c) = {},
           \A d \in Ids \ {c} : Phase(d)' = Phase(d), \A d \in Ids : Users(d)' = Users(d)
    PROVE  Promise!Next
<1>1. PhaseOf' = [PhaseOf EXCEPT ![c] = "revoked"] /\ UsersOf' = UsersOf
  BY DEF PhaseOf, UsersOf
<1> QED BY <1>1 DEF Promise!Next, Promise!Revoke, PhaseOf, UsersOf

LEMMA UsersKept ==
    ASSUME FramesInv, NEW t \in Threads, NEW s, frames' = [frames EXCEPT ![t] = s], NEW c,
           (\E i \in DOMAIN s : Uses(s[i], c)) <=> (\E i \in DOMAIN frames[t] : Uses(frames[t][i], c))
    PROVE  Users(c)' = Users(c)
<1>1. frames'[t] = s /\ \A u \in Threads \ {t} : frames'[u] = frames[u]
  BY DEF FramesInv, StacksFit
<1>2. \A u \in Threads : (\E i \in DOMAIN frames'[u] : Uses(frames'[u][i], c)) <=> (\E i \in DOMAIN frames[u] : Uses(frames[u][i], c))
  BY <1>1
<1> QED BY <1>2 DEF Users, Uses

LEMMA PushUsers ==
    ASSUME FramesInv, NEW t \in Threads, NEW f, frames' = Pushed(t, f), NEW c, ~Uses(f, c)
    PROVE  Users(c)' = Users(c)
<1>1. PICK s : s = Append(frames[t], f)
  OBVIOUS
<1>2. IsSeq(frames[t])
  BY DEF FramesInv, StacksFit
<1>3. /\ DOMAIN s = 1..(Len(frames[t]) + 1) /\ s[Len(frames[t]) + 1] = f /\ Len(frames[t]) \in Nat
      /\ DOMAIN frames[t] = 1..Len(frames[t]) /\ \A i \in DOMAIN frames[t] : s[i] = frames[t][i]
  BY <1>1, <1>2, Push
<1>4. \A i \in DOMAIN s : i \in DOMAIN frames[t] \/ s[i] = f
  BY <1>3
<1>5. DOMAIN frames[t] \subseteq DOMAIN s
  BY <1>3
<1>6. (\E i \in DOMAIN s : Uses(s[i], c)) <=> (\E i \in DOMAIN frames[t] : Uses(frames[t][i], c))
  BY <1>3, <1>4, <1>5
<1> QED BY <1>1, <1>6, UsersKept DEF Pushed

LEMMA PopUsers ==
    ASSUME FramesInv, NEW t \in Threads, ~Idle(t), frames' = Popped(t), NEW c, ~Uses(Top(t), c)
    PROVE  Users(c)' = Users(c)
<1>1. PICK s : s = SubSeq(frames[t], 1, Len(frames[t]) - 1)
  OBVIOUS
<1>2. Len(frames[t]) \in Nat \ {0} /\ DOMAIN frames[t] = 1..Len(frames[t]) /\ IsSeq(frames[t]) /\ frames[t] # <<>>
  BY TopFits
<1>3. DOMAIN s = 1..(Len(frames[t]) - 1) /\ \A i \in DOMAIN s : s[i] = frames[t][i]
  BY <1>1, <1>2, Pop
<1>4. \A i \in DOMAIN frames[t] : i \in DOMAIN s \/ frames[t][i] = Top(t)
  BY <1>2, <1>3 DEF Top
<1>5. DOMAIN s \subseteq DOMAIN frames[t]
  BY <1>2, <1>3
<1>6. (\E i \in DOMAIN s : Uses(s[i], c)) <=> (\E i \in DOMAIN frames[t] : Uses(frames[t][i], c))
  BY <1>3, <1>4, <1>5
<1> QED BY <1>1, <1>6, UsersKept DEF Popped

LEMMA PutUsers ==
    ASSUME FramesInv, NEW t \in Threads, ~Idle(t), NEW f, frames' = [frames EXCEPT ![t] = [frames[t] EXCEPT ![Len(frames[t])] = f]],
           NEW c, ~Uses(Top(t), c), ~Uses(f, c)
    PROVE  Users(c)' = Users(c)
<1>1. PICK s : s = [frames[t] EXCEPT ![Len(frames[t])] = f]
  OBVIOUS
<1>2. Len(frames[t]) \in Nat \ {0} /\ DOMAIN frames[t] = 1..Len(frames[t]) /\ IsSeq(frames[t]) /\ frames[t] # <<>>
  BY TopFits
<1>3. DOMAIN s = DOMAIN frames[t] /\ \A i \in DOMAIN s : s[i] = IF i = Len(frames[t]) THEN f ELSE frames[t][i]
  BY <1>1, <1>2, Put
<1>4. (\E i \in DOMAIN s : Uses(s[i], c)) <=> (\E i \in DOMAIN frames[t] : Uses(frames[t][i], c))
  BY <1>2, <1>3 DEF Top
<1> QED BY <1>1, <1>4, UsersKept

\* Whoever renders through a context owns its lock.
LEMMA OnlyOwnerUses ==
    ASSUME FramesInv, NEW t \in Threads, ~Idle(t), Top(t).op \in Locked, Top(t).context # 0
    PROVE  Users(Top(t).context) \subseteq {t}
<1>1. Len(frames[t]) \in DOMAIN frames[t] /\ Top(t).context \in Nat \ {0}
  BY TopFits DEF FramesInv, StacksFit, FrameFits
<1>2. Holds(t, Top(t).context)
  BY <1>1 DEF Holds, Top
<1>3. \A u \in Users(Top(t).context) : u \in Threads /\ Holds(u, Top(t).context)
  BY DEF Users, Holds, Locked
<1> QED BY <1>1, <1>2, <1>3 DEF FramesInv, LocksExclusive

Stutters == \A c \in Ids : Phase(c)' = Phase(c) /\ Users(c)' = Users(c)
Promised == Promise!Next \/ Stutters

LEMMA PhaseKept == contexts' = contexts => \A c \in Ids : Phase(c)' = Phase(c)
  BY DEF Phase

LEMMA InvokePromised ==
    ASSUME FramesInv, NEW t \in Threads, InvokeSectionLambda(t)
    PROVE  Promised
<1>id. PICK id : id = Len(contexts) + 1
  OBVIOUS
<1>1. ~Idle(t) /\ Len(contexts) < MaxContexts /\ contexts' = Append(contexts, Top(t).renderer)
      /\ frames' = Pushed(t, UserFrame("callback", Top(t).renderer, id, HandlesOf(t, id)))
  BY <1>id DEF InvokeSectionLambda, Running
<1>2. contexts \in Seq(Renderers \cup {Null}) /\ Top(t).renderer \in Renderers /\ Len(contexts) \in Nat
  BY <1>1, TopFits DEF FramesInv, StacksFit, FrameFits
<1>3. DOMAIN contexts = 1..Len(contexts) /\ DOMAIN contexts' = 1..(Len(contexts) + 1) /\ contexts'[id] = Top(t).renderer
      /\ \A d \in DOMAIN contexts : contexts'[d] = contexts[d]
  BY <1>id, <1>1, <1>2
<1>4. id \in Ids
  BY <1>id, <1>1, <1>2, BoundsAssumption DEF Ids
<1>5. Phase(id) = "unborn" /\ Phase(id)' = "granted"
  BY <1>id, <1>2, <1>3, NullAssumption DEF Phase
<1>6. \A d \in Ids \ {id} : Phase(d)' = Phase(d)
  BY <1>id, <1>2, <1>3 DEF Phase, Ids
<1>7. PICK f : f = UserFrame("callback", Top(t).renderer, id, HandlesOf(t, id))
  OBVIOUS
<1>8. \A d \in Ids : Users(d)' = Users(d)
  BY <1>1, <1>7, PushUsers DEF Uses, UserFrame, Frame
<1> QED BY <1>4, <1>5, <1>6, <1>8, PromiseGrants DEF Promised

LEMMA EnterPromised ==
    ASSUME FramesInv, NEW t \in Threads, RenderThroughContext(t)
    PROVE  Promised
<1>c. PICK c : c = Top(t).context
  OBVIOUS
<1> DEFINE r == contexts[c]
<1>1. ~Idle(t) /\ Top(t).op = "locked" /\ contexts' = contexts
  BY DEF RenderThroughContext, Running
<1>2. \A d \in Ids : Phase(d)' = Phase(d)
  BY <1>1, PhaseKept
<1>3. CASE frames' = Popped(t)
  <2>1. \A d \in Ids : Users(d)' = Users(d)
    BY <1>1, <1>3, PopUsers DEF Uses
  <2> QED BY <1>2, <2>1 DEF Promised, Stutters
<1>4. CASE HelperAllowed(r) /\ frames' = [frames EXCEPT ![t][Len(frames[t])] = HelperFrame(r, c)]
  <2>1. FrameFits(Top(t)) /\ contexts \in Seq(Renderers \cup {Null}) /\ Len(contexts) \in Nat
    BY <1>1, TopFits DEF FramesInv, StacksFit
  <2>2. c \in DOMAIN contexts /\ c # 0
    BY <1>c, <1>1, <2>1 DEF FrameFits
  <2>3. PICK f : f = HelperFrame(r, c)
    OBVIOUS
  <2>4. f.op = "helper" /\ f.context = c
    BY <2>3 DEF HelperFrame, Frame
  <2>5. frames' = [frames EXCEPT ![t] = [frames[t] EXCEPT ![Len(frames[t])] = f]]
    BY <1>4, <2>3
  <2>6. \A d \in Ids : d # c => Users(d)' = Users(d)
    BY <1>1, <2>4, <2>5, PutUsers DEF Uses
  <2>7. CASE c \notin Ids
    BY <1>2, <2>6, <2>7 DEF Promised, Stutters
  <2>8. CASE c \in Ids
    <3>1. Phase(c) = "granted"
      BY <1>4, <2>2 DEF HelperAllowed, Phase
    <3>2. Users(c) \subseteq {t}
      BY <1>c, <1>1, <2>2, OnlyOwnerUses DEF Locked
    <3>3. Users(c)' = {t}
      <4>1. PICK s : s = [frames[t] EXCEPT ![Len(frames[t])] = f]
        OBVIOUS
      <4>2. Len(frames[t]) \in DOMAIN s /\ s[Len(frames[t])] = f
        BY <1>1, <4>1, TopFits, Put
      <4>3. frames'[t] = s /\ \A u \in Threads \ {t} : frames'[u] = frames[u]
        BY <2>5, <4>1 DEF FramesInv, StacksFit
      <4> QED BY <2>4, <3>2, <4>2, <4>3 DEF Users
    <3>4. CASE Users(c) = {}
      BY <1>2, <2>6, <2>8, <3>1, <3>3, <3>4, PromiseEnters DEF Promised
    <3>5. CASE Users(c) = {t}
      BY <1>2, <2>6, <3>3, <3>5 DEF Promised, Stutters
    <3> QED BY <3>2, <3>4, <3>5
  <2> QED BY <2>7, <2>8
<1> QED BY <1>c, <1>3, <1>4 DEF RenderThroughContext

LEMMA LeavePromised ==
    ASSUME FramesInv, NEW t \in Threads, FinishHelper(t)
    PROVE  Promised
<1>c. PICK c : c = Top(t).context
  OBVIOUS
<1>1. ~Idle(t) /\ Top(t).op \in {"helper", "templated"} /\ contexts' = contexts /\ frames' = Popped(t)
  BY DEF FinishHelper, Running
<1>2. \A d \in Ids : Phase(d)' = Phase(d)
  BY <1>1, PhaseKept
<1>3. \A d \in Ids : ~Uses(Top(t), d) => Users(d)' = Users(d)
  BY <1>1, PopUsers
<1>4. CASE ~(Top(t).op = "helper" /\ c \in Ids)
  BY <1>c, <1>2, <1>3, <1>4 DEF Promised, Stutters, Uses
<1>5. CASE Top(t).op = "helper" /\ c \in Ids
  <2>1. c # 0 /\ contexts[c] # Null /\ contexts \in Seq(Renderers \cup {Null}) /\ c \in DOMAIN contexts
        /\ Len(frames[t]) \in DOMAIN frames[t]
    BY <1>c, <1>1, <1>5, TopFits DEF Granted, FrameFits, Ids, FramesInv, StacksFit
  <2>2. Phase(c) = "granted"
    BY <2>1 DEF Phase
  <2>3. Users(c) = {t}
    BY <1>c, <1>1, <1>5, <2>1, OnlyOwnerUses DEF Locked, Users, Top
  <2>4. Users(c)' \subseteq {t}
    <3>1. \A u \in Threads \ {t} : frames'[u] = frames[u]
      BY <1>1 DEF Popped, FramesInv, StacksFit
    <3> QED BY <2>3, <3>1 DEF Users
  <2>5. \A d \in Ids \ {c} : Users(d)' = Users(d)
    BY <1>c, <1>3 DEF Uses
  <2>6. CASE Users(c)' = {}
    BY <1>2, <1>5, <2>2, <2>3, <2>5, <2>6, PromiseLeaves DEF Promised
  <2>7. CASE Users(c)' = {t}
    BY <1>2, <2>3, <2>5, <2>7 DEF Promised, Stutters
  <2> QED BY <2>4, <2>6, <2>7
<1> QED BY <1>4, <1>5

LEMMA RevokePromised ==
    ASSUME FramesInv, NEW t \in Threads, Invalidate(t)
    PROVE  Promised
<1>c. PICK c : c = Top(t).context
  OBVIOUS
<1>1. /\ ~Idle(t) /\ Top(t).op = "returning" /\ Available(t, c) /\ contexts' = [contexts EXCEPT ![c] = Null]
      /\ frames' = Became(t, "invalidated")
  BY <1>c DEF Invalidate, Running
<1>2. FrameFits(Top(t)) /\ contexts \in Seq(Renderers \cup {Null}) /\ Len(contexts) \in Nat
  BY <1>1, TopFits DEF FramesInv, StacksFit
<1>3. c \in DOMAIN contexts /\ DOMAIN contexts' = DOMAIN contexts /\ contexts'[c] = Null
      /\ \A d \in DOMAIN contexts : d # c => contexts'[d] = contexts[d]
  BY <1>c, <1>1, <1>2 DEF FrameFits, Callbacks
<1>4. \A d \in Ids \ {c} : Phase(d)' = Phase(d)
  BY <1>3 DEF Phase
<1>5. PICK f : f = [Top(t) EXCEPT !.op = "invalidated"]
  OBVIOUS
<1>6. f.op = "invalidated"
  BY <1>2, <1>5 DEF FrameFits, IsFrame
<1>7. frames' = [frames EXCEPT ![t] = [frames[t] EXCEPT ![Len(frames[t])] = f]]
  BY <1>1, <1>5 DEF Became, Top
<1>8. \A d \in Ids : Users(d)' = Users(d)
  BY <1>1, <1>6, <1>7, PutUsers DEF Uses
<1>9. Users(c) = {}
  BY <1>c, <1>1, NobodyUses DEF Callbacks, Users
<1>10. CASE c \in Ids /\ contexts[c] # Null
  <2>1. Phase(c) = "granted" /\ Phase(c)' = "revoked"
    BY <1>3, <1>10 DEF Phase
  <2> QED BY <1>4, <1>8, <1>9, <1>10, <2>1, PromiseRevokes DEF Promised
<1>11. CASE c \in Ids /\ contexts[c] = Null
  <2>1. Phase(c)' = Phase(c)
    BY <1>3, <1>11 DEF Phase
  <2> QED BY <1>4, <1>8, <2>1 DEF Promised, Stutters
<1>12. CASE c \notin Ids
  BY <1>4, <1>8, <1>12 DEF Promised, Stutters
<1> QED BY <1>10, <1>11, <1>12

LEMMA RenderTemplatePromised ==
    ASSUME FramesInv, NEW t \in Threads, RenderTemplate(t)
    PROVE  Promised
<1>1. ~Idle(t) /\ Top(t).op = "template" /\ contexts' = contexts
  BY DEF RenderTemplate, Running
<1>2. \A d \in Ids : Phase(d)' = Phase(d)
  BY <1>1, PhaseKept
<1>3. CASE frames' = Popped(t)
  BY <1>1, <1>2, <1>3, PopUsers DEF Uses, Promised, Stutters
<1>4. CASE frames' = [frames EXCEPT ![t] = Append(Became(t, "templated")[t], Frame("lock", Top(t).renderer, Top(t).context))]
  <2>1. /\ Len(frames[t]) \in Nat \ {0} /\ DOMAIN frames[t] = 1..Len(frames[t]) /\ FrameFits(Top(t))
        /\ IsSeq(frames[t]) /\ frames[t] # <<>>
    BY <1>1, TopFits
  <2>2. PICK f : f = [Top(t) EXCEPT !.op = "templated"]
    OBVIOUS
  <2>3. PICK g : g = Frame("lock", Top(t).renderer, Top(t).context)
    OBVIOUS
  <2>4. PICK p : p = [frames[t] EXCEPT ![Len(frames[t])] = f]
    OBVIOUS
  <2>5. PICK s : s = Append(p, g)
    OBVIOUS
  <2>6. f.op = "templated" /\ g.op = "lock"
    BY <2>1, <2>2, <2>3 DEF FrameFits, IsFrame, Frame
  <2>7. /\ IsSeq(p) /\ Len(p) = Len(frames[t]) /\ DOMAIN p = 1..Len(frames[t])
        /\ \A i \in DOMAIN p : p[i] = IF i = Len(frames[t]) THEN f ELSE frames[t][i]
    BY <2>1, <2>4, Put
  <2>8. /\ DOMAIN s = 1..(Len(frames[t]) + 1)
        /\ s[Len(frames[t]) + 1] = g /\ \A i \in DOMAIN p : s[i] = p[i]
    BY <2>5, <2>7, Push
  <2>9. frames' = [frames EXCEPT ![t] = s]
    BY <1>4, <2>2, <2>3, <2>4, <2>5 DEF Became, Top, FramesInv, StacksFit
  <2>10. \A i \in DOMAIN s : s[i] = g \/ s[i] = f \/ (i \in DOMAIN frames[t] /\ s[i] = frames[t][i])
    BY <2>1, <2>7, <2>8
  <2>11. \A i \in DOMAIN frames[t] : i \in DOMAIN s /\ (s[i] = frames[t][i] \/ frames[t][i] = Top(t))
    BY <2>1, <2>7, <2>8 DEF Top
  <2>12. \A d : (\E i \in DOMAIN s : Uses(s[i], d)) <=> (\E i \in DOMAIN frames[t] : Uses(frames[t][i], d))
    BY <1>1, <2>6, <2>10, <2>11 DEF Uses
  <2>13. \A d \in Ids : Users(d)' = Users(d)
    BY <2>9, <2>12, UsersKept
  <2> QED BY <1>2, <2>13 DEF Promised, Stutters
<1> QED BY <1>3, <1>4 DEF RenderTemplate

LEMMA PushesPromised ==
    ASSUME FramesInv, NEW t \in Threads, NEW f, frames' = Pushed(t, f), contexts' = contexts, f.op # "helper" \/ f.context = 0
    PROVE  Promised
<1>1. \A d \in Ids : ~Uses(f, d)
  BY DEF Uses, Ids
<1> QED BY <1>1, PhaseKept, PushUsers DEF Promised, Stutters

LEMMA PopsPromised ==
    ASSUME FramesInv, NEW t \in Threads, ~Idle(t), frames' = Popped(t), contexts' = contexts, Top(t).op # "helper"
    PROVE  Promised
  BY PhaseKept, PopUsers DEF Promised, Stutters, Uses

LEMMA PutsPromised ==
    ASSUME FramesInv, NEW t \in Threads, ~Idle(t), NEW op, op # "helper", frames' = Became(t, op), contexts' = contexts, Top(t).op # "helper"
    PROVE  Promised
<1>1. PICK f : f = [Top(t) EXCEPT !.op = op]
  OBVIOUS
<1>2. f.op = op
  BY <1>1, TopFits DEF FrameFits, IsFrame
<1>3. frames' = [frames EXCEPT ![t] = [frames[t] EXCEPT ![Len(frames[t])] = f]]
  BY <1>1 DEF Became, Top
<1> QED BY <1>2, <1>3, PhaseKept, PutUsers DEF Promised, Stutters, Uses

LEMMA StepPromised == FramesInv /\ [Next]_vars => Promised
<1> SUFFICES ASSUME FramesInv, [Next]_vars PROVE Promised
  OBVIOUS
<1>1. CASE UNCHANGED vars
  BY <1>1 DEF vars, Promised, Stutters, Phase, Users
<1>2. ASSUME NEW t \in Threads, Step(t) PROVE Promised
  <2>1. CASE FinishRender(t) \/ FinishWorker(t) \/ LeaveScope(t)
    <3>1. ~Idle(t) /\ frames' = Popped(t) /\ contexts' = contexts /\ Top(t).op # "helper"
      BY <2>1 DEF FinishRender, FinishWorker, LeaveScope, Running
    <3> QED BY <3>1, PopsPromised
  <2>2. CASE ReturnFromCallback(t)
    <3>1. ~Idle(t) /\ frames' = Became(t, "returning") /\ contexts' = contexts /\ Top(t).op # "helper"
      BY <2>2 DEF ReturnFromCallback, Running
    <3> QED BY <3>1, PutsPromised
  <2>3. CASE LeaveCallback(t)
    <3>1. ~Idle(t) /\ frames' = Became(t, "unlinking") /\ contexts' = contexts /\ Top(t).op # "helper"
      BY <2>3 DEF LeaveCallback, Running
    <3> QED BY <3>1, PutsPromised
  <2>4. CASE LegacyRender(t)
    <3>1. PICK f : f = HelperFrame(Top(t).renderer, 0)
      OBVIOUS
    <3>2. frames' = Pushed(t, f) /\ contexts' = contexts /\ f.context = 0
      BY <2>4, <3>1 DEF LegacyRender, HelperFrame, Frame
    <3> QED BY <3>2, PushesPromised
  <2>5. ASSUME NEW c \in DOMAIN contexts, NEW op \in Locking, CallRender(t, c, op) PROVE Promised
    <3>1. PICK f : f = Frame(op, Top(t).renderer, c)
      OBVIOUS
    <3>2. frames' = Pushed(t, f) /\ contexts' = contexts /\ f.op # "helper"
      BY <2>5, <3>1 DEF CallRender, Frame, Locking
    <3> QED BY <3>2, PushesPromised
  <2>6. ASSUME NEW hs \in SUBSET DOMAIN contexts, NEW w \in Threads, NEW mode \in HandoffModes, HandOver(t, w, hs, mode) PROVE Promised
    <3>1. PICK f : f = UserFrame("worker", Top(t).renderer, Top(t).context, hs)
      OBVIOUS
    <3>2. frames' = Pushed(w, f) /\ contexts' = contexts /\ f.op # "helper"
      BY <2>6, <3>1 DEF HandOver, UserFrame, Frame
    <3> QED BY <3>2, PushesPromised
  <2>7. CASE LockContext(t)
    <3>1. ~Idle(t) /\ contexts' = contexts /\ Top(t).op # "helper"
      BY <2>7 DEF LockContext, Running, Locking
    <3>2. PICK op \in {"locked", "template"} : frames' = Became(t, op)
      BY <2>7 DEF LockContext
    <3> QED BY <3>1, <3>2, PutsPromised
  <2> QED BY <1>2, <2>1, <2>2, <2>3, <2>4, <2>5, <2>6, <2>7, InvokePromised, EnterPromised, LeavePromised, RevokePromised,
             RenderTemplatePromised DEF Step
<1>3. ASSUME NEW t \in Threads, NEW r \in Renderers, StartRender(t, r) PROVE Promised
  <2>1. PICK f : f = Frame("render", r, 0)
    OBVIOUS
  <2>2. frames' = Pushed(t, f) /\ contexts' = contexts /\ f.op # "helper"
    BY <1>3, <2>1 DEF StartRender, Frame
  <2> QED BY <2>2, PushesPromised
<1> QED BY <1>1, <1>2, <1>3 DEF Next

\* A LambdaRenderContext keeps its promise (README: "every copy becomes inactive when
\* that exact callback frame returns or throws"): it is granted once, when its callback
\* begins; one thread at a time renders through it; it is revoked when nobody does, and
\* nobody does afterwards.  For any threads, renderers, nesting and ways to hand over.
THEOREM ContextsKeepTheirPromise == Spec => PromiseKept
<1>1. Init => FramesInv
  BY FramesInvInit
<1>2. FramesInv /\ [Next]_vars => FramesInv'
  BY FramesInvNext
<1>3. Init => Promise!Init
  BY DEF Init, Promise!Init, Phase, Users, Ids
<1>4. FramesInv /\ [Next]_vars => [Promise!Next]_<<[c \in Ids |-> Phase(c)], [c \in Ids |-> Users(c)]>>
  BY StepPromised DEF Promised, Stutters
<1> QED BY <1>1, <1>2, <1>3, <1>4, PTL DEF Spec, PromiseKept, Promise!Spec

-----------------------------------------------------------------------------
(* The registry of active engines stays intact *)

ScopesFit ==
    /\ DOMAIN scopes \subseteq 1..Len(contexts) /\ Len(contexts) <= MaxContexts
    /\ \A n \in DOMAIN scopes :
          scopes[n] = [renderer |-> scopes[n].renderer, engine |-> scopes[n].engine, previous |-> scopes[n].previous]
CallbacksLinked ==
    \A t \in Threads : \A i \in DOMAIN frames[t] : frames[t][i].op \in Callbacks => frames[t][i].context \in DOMAIN scopes
RegistryInv == FramesInv /\ ScopesFit /\ CallbacksLinked /\ RegistryIntact

LEMMA RegistryKept ==
    ASSUME RegistryInv, FramesInv', CallbacksStay, UNCHANGED registry, Len(contexts') = Len(contexts)
    PROVE  RegistryInv'
<1>1. scopes' = scopes /\ current' = current
  BY DEF registry
<1>2. ScopesFit' /\ RegistryIntact'
  BY <1>1 DEF RegistryInv, ScopesFit, RegistryIntact, NewestBelow
<1>3. CallbacksLinked'
  BY <1>1 DEF RegistryInv, CallbacksLinked, CallbacksStay
<1> QED BY <1>2, <1>3 DEF RegistryInv

LEMMA EnterScopeKeeps ==
    ASSUME RegistryInv, NEW t \in Threads, InvokeSectionLambda(t)
    PROVE  RegistryInv'
<1>id. PICK id : id = Len(contexts) + 1
  OBVIOUS
<1>1. /\ ~Idle(t) /\ Len(contexts) < MaxContexts /\ contexts' = Append(contexts, Top(t).renderer)
      /\ frames' = Pushed(t, UserFrame("callback", Top(t).renderer, id, HandlesOf(t, id))) /\ EnterScope(id, Top(t).renderer)
  BY <1>id DEF InvokeSectionLambda, Running
<1>2. FramesInv /\ ScopesFit /\ CallbacksLinked /\ RegistryIntact /\ FramesInv'
  BY InvokeKeeps DEF RegistryInv
<1>3. contexts \in Seq(Renderers \cup {Null}) /\ Len(contexts) \in Nat /\ Len(contexts') = Len(contexts) + 1
  BY <1>1, <1>2, TopFits DEF FramesInv, StacksFit, FrameFits
<1>4. /\ DOMAIN scopes' = DOMAIN scopes \cup {id} /\ current' = id
      /\ scopes'[id] = [renderer |-> Top(t).renderer, engine |-> engine[Top(t).renderer], previous |-> current]
      /\ \A n \in DOMAIN scopes : n # id => scopes'[n] = scopes[n]
  BY <1>1 DEF EnterScope
<1>5. \A n \in DOMAIN scopes : n \in Nat /\ n < id
  BY <1>id, <1>2, <1>3 DEF ScopesFit
<1>6. ScopesFit'
  BY <1>id, <1>1, <1>2, <1>3, <1>4, <1>5, BoundsAssumption DEF ScopesFit
<1>7. NewestBelow(MaxContexts + 1, id)'
  BY <1>id, <1>1, <1>3, <1>4, <1>5, BoundsAssumption DEF NewestBelow
<1>8. NewestBelow(id, current)
  BY <1>id, <1>1, <1>2, <1>3, <1>5, BoundsAssumption DEF RegistryIntact, NewestBelow
<1>9. ASSUME NEW n \in DOMAIN scopes'
      PROVE  NewestBelow(n, scopes[n].previous)'
  <2>1. PICK p : p = scopes'[n].previous
    OBVIOUS
  <2>2. NewestBelow(n, p)
    BY <1>2, <1>4, <1>5, <1>8, <2>1 DEF RegistryIntact
  <2>3. n \in Nat /\ n <= id /\ id \in Nat
    BY <1>id, <1>3, <1>4, <1>5
  <2> QED BY <1>4, <1>5, <2>1, <2>2, <2>3 DEF NewestBelow
<1>10. RegistryIntact'
  BY <1>4, <1>7, <1>9 DEF RegistryIntact
<1>11. CallbacksLinked'
  <2>1. PICK f : f = UserFrame("callback", Top(t).renderer, id, HandlesOf(t, id))
    OBVIOUS
  <2>2. PICK s : s = Append(frames[t], f)
    OBVIOUS
  <2>3. f.context = id
    BY <2>1 DEF UserFrame, Frame
  <2>4. IsSeq(frames[t]) /\ frames = [u \in Threads |-> frames[u]]
    BY <1>2 DEF FramesInv, StacksFit
  <2>5. frames'[t] = s /\ \A u \in Threads \ {t} : frames'[u] = frames[u]
    BY <1>1, <2>1, <2>2, <2>4 DEF Pushed
  <2>6. \A i \in DOMAIN s : s[i] = f \/ (i \in DOMAIN frames[t] /\ s[i] = frames[t][i])
    BY <2>2, <2>4, Push
  <2> QED BY <1>2, <1>4, <2>3, <2>5, <2>6 DEF CallbacksLinked
<1> QED BY <1>2, <1>6, <1>10, <1>11 DEF RegistryInv

\* Taking one scope out of an intact list leaves an intact list.
LEMMA Relinked ==
    ASSUME NEW id \in DOMAIN scopes, NEW n \in Nat, NEW p, NEW q, DOMAIN scopes \subseteq Nat \ {0}, id # n,
           DOMAIN scopes' = DOMAIN scopes \ {id}, NewestBelow(id, q), NewestBelow(n, p)
    PROVE  NewestBelow(n, IF p = id THEN q ELSE p)'
<1>1. CASE p = id
  BY <1>1 DEF NewestBelow
<1>2. CASE p # id
  BY <1>2 DEF NewestBelow
<1> QED BY <1>1, <1>2

LEMMA LeaveScopeKeeps ==
    ASSUME RegistryInv, NEW t \in Threads, LeaveScope(t)
    PROVE  RegistryInv'
<1>id. PICK id : id = Top(t).context
  OBVIOUS
<1>1. ~Idle(t) /\ Top(t).op \in Callbacks /\ Unlink(id) /\ frames' = Popped(t) /\ contexts' = contexts
  BY <1>id DEF LeaveScope, Running, Callbacks
<1>2. FramesInv /\ ScopesFit /\ CallbacksLinked /\ RegistryIntact /\ FramesInv' /\ CallbacksStay
  BY <1>1, PopKeeps DEF RegistryInv
<1>3. /\ Len(frames[t]) \in Nat \ {0} /\ DOMAIN frames[t] = 1..Len(frames[t]) /\ Len(frames[t]) \in DOMAIN frames[t]
      /\ IsSeq(frames[t]) /\ frames[t] # <<>> /\ Top(t) = frames[t][Len(frames[t])]
  BY <1>1, <1>2, TopFits DEF Top
<1>4. id \in DOMAIN scopes
  BY <1>id, <1>1, <1>2, <1>3 DEF CallbacksLinked
<1>5. DOMAIN scopes \subseteq Nat \ {0} /\ MaxContexts + 1 \in Nat /\ id # MaxContexts + 1
  BY <1>2, <1>4, BoundsAssumption DEF ScopesFit, FramesInv, StacksFit
<1>q. PICK q : q = scopes[id].previous
  OBVIOUS
<1>6. /\ current' = IF current = id THEN q ELSE current
      /\ DOMAIN scopes' = DOMAIN scopes \ {id}
      /\ \A n \in DOMAIN scopes \ {id} :
            scopes'[n] = [scopes[n] EXCEPT !.previous = IF scopes[n].previous = id THEN q ELSE scopes[n].previous]
  BY <1>1, <1>q DEF Unlink
<1>7. \A n \in DOMAIN scopes \ {id} :
         /\ scopes'[n].previous = IF scopes[n].previous = id THEN q ELSE scopes[n].previous
         /\ scopes'[n] = [renderer |-> scopes'[n].renderer, engine |-> scopes'[n].engine, previous |-> scopes'[n].previous]
  BY <1>2, <1>6 DEF ScopesFit
<1>8. ScopesFit'
  BY <1>1, <1>2, <1>6, <1>7 DEF ScopesFit
<1>9. NewestBelow(id, q)
  BY <1>2, <1>4, <1>q DEF RegistryIntact
<1>10. PICK c : c = current
  OBVIOUS
<1>11. NewestBelow(MaxContexts + 1, IF c = id THEN q ELSE c)'
  <2>1. NewestBelow(MaxContexts + 1, c)
    BY <1>2, <1>10 DEF RegistryIntact
  <2> QED BY <1>4, <1>5, <1>6, <1>9, <2>1, Relinked
<1>12. ASSUME NEW n \in DOMAIN scopes'
       PROVE  NewestBelow(n, scopes[n].previous)'
  <2>1. PICK p : p = scopes[n].previous
    OBVIOUS
  <2>2. n \in DOMAIN scopes /\ n # id /\ n \in Nat
    BY <1>5, <1>6
  <2>3. NewestBelow(n, p)
    BY <1>2, <2>1, <2>2 DEF RegistryIntact
  <2>4. NewestBelow(n, IF p = id THEN q ELSE p)'
    BY <1>4, <1>5, <1>6, <1>9, <2>2, <2>3, Relinked
  <2> QED BY <1>7, <2>1, <2>2, <2>4 DEF NewestBelow
<1>13. RegistryIntact'
  BY <1>6, <1>10, <1>11, <1>12 DEF RegistryIntact, NewestBelow
\* The context of the scope belonged to the callback that has gone, and to no other.
<1>14. ASSUME NEW u \in Threads, NEW i \in DOMAIN frames'[u], frames'[u][i].op \in Callbacks
       PROVE  frames'[u][i].context \in DOMAIN scopes'
  <2>1. i \in DOMAIN frames[u] /\ frames[u][i].op \in Callbacks /\ frames[u][i].context = frames'[u][i].context
    BY <1>2, <1>14 DEF CallbacksStay
  <2>2. ~(u = t /\ i = Len(frames[t]))
    <3>1. PICK s : s = SubSeq(frames[t], 1, Len(frames[t]) - 1)
      OBVIOUS
    <3>2. DOMAIN s = 1..(Len(frames[t]) - 1)
      BY <1>3, <3>1, Pop
    <3>3. frames'[t] = s
      BY <1>1, <1>2, <3>1 DEF Popped, FramesInv, StacksFit
    <3> QED BY <1>3, <3>2, <3>3
  <2>3. frames[u][i].context # id
    BY <1>id, <1>1, <1>2, <1>3, <2>1, <2>2 DEF FramesInv, CallbacksOwn
  <2> QED BY <1>2, <1>6, <2>1, <2>3 DEF CallbacksLinked
<1> QED BY <1>2, <1>8, <1>13, <1>14 DEF RegistryInv, CallbacksLinked

LEMMA RegistryInvNext == RegistryInv /\ [Next]_vars => RegistryInv'
<1> SUFFICES ASSUME RegistryInv, [Next]_vars PROVE RegistryInv'
  OBVIOUS
<1> FramesInv /\ FramesInv'
  BY FramesInvNext DEF RegistryInv
<1>1. CASE UNCHANGED vars
  BY <1>1, RegistryKept DEF vars, registry, CallbacksStay
<1>2. ASSUME NEW t \in Threads, Step(t) PROVE RegistryInv'
  <2>1. CASE FinishRender(t) \/ FinishHelper(t) \/ FinishWorker(t)
    <3>1. ~Idle(t) /\ frames' = Popped(t) /\ contexts' = contexts /\ UNCHANGED registry
      BY <2>1 DEF FinishRender, FinishHelper, FinishWorker, Running
    <3> QED BY <3>1, PopKeeps, RegistryKept
  <2>2. CASE ReturnFromCallback(t) \/ LeaveCallback(t)
    <3>1. PICK op \in {"returning", "unlinking"} : frames' = Became(t, op)
      BY <2>2 DEF ReturnFromCallback, LeaveCallback
    <3>2. ~Idle(t) /\ Top(t).op \in Callbacks /\ contexts' = contexts /\ UNCHANGED registry
      BY <2>2 DEF ReturnFromCallback, LeaveCallback, Running, Callbacks
    <3>3. Top(t).context # 0 /\ op \notin Locked /\ op \notin Locking
      BY <3>1, <3>2, TopFits DEF FrameFits, Locked, Locking
    <3> QED BY <3>1, <3>2, <3>3, PutTop, RegistryKept
  <2>3. CASE Invalidate(t)
    <3>1. UNCHANGED registry /\ contexts' = [contexts EXCEPT ![Top(t).context] = Null]
      BY <2>3 DEF Invalidate
    <3>2. Len(contexts') = Len(contexts)
      BY <3>1 DEF FramesInv, StacksFit
    <3> QED BY <2>3, <3>1, <3>2, InvalidateKeeps, RegistryKept
  <2>4. CASE RenderTemplate(t)
    BY <2>4, RenderTemplateKeeps, RegistryKept DEF RenderTemplate
  <2>5. CASE RenderThroughContext(t)
    BY <2>5, RenderThroughContextKeeps, RegistryKept DEF RenderThroughContext
  <2>6. CASE LegacyRender(t)
    BY <2>6, PushesKeep, RegistryKept DEF LegacyRender
  <2>7. ASSUME NEW c \in DOMAIN contexts, NEW op \in Locking, CallRender(t, c, op) PROVE RegistryInv'
    <3>1. UNCHANGED registry /\ contexts' = contexts
      BY <2>7 DEF CallRender
    <3> QED BY <2>7, <3>1, PushesKeep, RegistryKept
  <2>9. CASE LockContext(t)
    BY <2>9, LockContextKeeps, RegistryKept DEF LockContext
  <2>8. ASSUME NEW hs \in SUBSET DOMAIN contexts, NEW w \in Threads, NEW mode \in HandoffModes, HandOver(t, w, hs, mode) PROVE RegistryInv'
    <3>1. UNCHANGED registry /\ contexts' = contexts
      BY <2>8 DEF HandOver
    <3> QED BY <2>8, <3>1, PushesKeep, RegistryKept
  <2> QED BY <1>2, <2>1, <2>2, <2>3, <2>4, <2>5, <2>6, <2>7, <2>8, <2>9, EnterScopeKeeps, LeaveScopeKeeps DEF Step
<1>3. ASSUME NEW t \in Threads, NEW r \in Renderers, StartRender(t, r) PROVE RegistryInv'
  <2>1. UNCHANGED registry /\ contexts' = contexts
    BY <1>3 DEF StartRender
  <2> QED BY <1>3, <2>1, PushesKeep, RegistryKept
<1> QED BY <1>1, <1>2, <1>3 DEF Next

LEMMA RegistryInvInit == Init => RegistryInv
<1> SUFFICES ASSUME Init PROVE RegistryInv
  OBVIOUS
<1>1. FramesInv /\ scopes = <<>> /\ current = 0 /\ contexts = <<>> /\ DOMAIN scopes = {}
  BY FramesInvInit DEF Init
<1>2. ScopesFit
  BY <1>1, BoundsAssumption DEF ScopesFit
<1>3. RegistryIntact
  BY <1>1 DEF RegistryIntact, NewestBelow
<1>4. CallbacksLinked
  BY DEF Init, CallbacksLinked
<1> QED BY <1>1, <1>2, <1>3, <1>4 DEF RegistryInv

\* ActiveEngineScope's list is intact after any interleaving of scopes that several
\* threads construct and destroy (renderer.cpp: the destructor unlinks from the middle):
\* it runs through every live scope, from the newest to the oldest, and no other.
THEOREM RegistryStaysIntact == Spec => []RegistryIntact
<1>1. Init => RegistryInv
  BY RegistryInvInit
<1>2. RegistryInv /\ [Next]_vars => RegistryInv'
  BY RegistryInvNext
<1>3. RegistryInv => RegistryIntact
  BY DEF RegistryInv
<1> QED BY <1>1, <1>2, <1>3, PTL DEF Spec

-----------------------------------------------------------------------------
(* Steps, frame by frame *)

\* Thread t keeps its oldest m frames, all or all but the newest; the others do not move.
Turns(t, m) ==
    /\ \A u \in Threads \ {t} : frames'[u] = frames[u]
    /\ m \in Nat /\ Len(frames[t]) \in Nat /\ m <= Len(frames[t]) /\ Len(frames[t]) <= m + 1
    /\ DOMAIN frames[t] = 1..Len(frames[t])
    /\ Len(frames'[t]) \in Nat /\ m <= Len(frames'[t]) /\ DOMAIN frames'[t] = 1..Len(frames'[t])
    /\ \A i \in 1..m : frames'[t][i] = frames[t][i]

LEMMA PopTurns ==
    ASSUME FramesInv, NEW t \in Threads, ~Idle(t), frames' = Popped(t)
    PROVE  Turns(t, Len(frames[t]) - 1) /\ Len(frames'[t]) = Len(frames[t]) - 1
<1>s. PICK s : s = SubSeq(frames[t], 1, Len(frames[t]) - 1)
  OBVIOUS
<1>1. /\ Len(s) = Len(frames[t]) - 1 /\ DOMAIN s = 1..(Len(frames[t]) - 1) /\ Len(frames[t]) \in Nat \ {0}
      /\ DOMAIN frames[t] = 1..Len(frames[t]) /\ \A i \in 1..(Len(frames[t]) - 1) : s[i] = frames[t][i]
  BY <1>s, TopFits, Pop
<1>2. frames'[t] = s /\ \A u \in Threads \ {t} : frames'[u] = frames[u]
  BY <1>s DEF Popped, FramesInv, StacksFit
<1> QED BY <1>1, <1>2 DEF Turns

LEMMA PushTurns ==
    ASSUME FramesInv, NEW t \in Threads, NEW f, frames' = Pushed(t, f)
    PROVE  /\ Turns(t, Len(frames[t])) /\ Len(frames'[t]) = Len(frames[t]) + 1
           /\ frames'[t][Len(frames[t]) + 1] = f
<1>s. PICK s : s = Append(frames[t], f)
  OBVIOUS
<1>0. IsSeq(frames[t])
  BY DEF FramesInv, StacksFit
<1>1. /\ Len(s) = Len(frames[t]) + 1 /\ DOMAIN s = 1..(Len(frames[t]) + 1) /\ Len(frames[t]) \in Nat
      /\ DOMAIN frames[t] = 1..Len(frames[t]) /\ s[Len(frames[t]) + 1] = f
      /\ \A i \in 1..Len(frames[t]) : s[i] = frames[t][i]
  BY <1>s, <1>0, Push
<1>2. frames'[t] = s /\ \A u \in Threads \ {t} : frames'[u] = frames[u]
  BY <1>s DEF Pushed, FramesInv, StacksFit
<1> QED BY <1>1, <1>2 DEF Turns

LEMMA PutTurns ==
    ASSUME FramesInv, NEW t \in Threads, ~Idle(t), NEW f, frames' = [frames EXCEPT ![t] = [frames[t] EXCEPT ![Len(frames[t])] = f]]
    PROVE  /\ Turns(t, Len(frames[t]) - 1) /\ Len(frames'[t]) = Len(frames[t])
           /\ frames'[t][Len(frames[t])] = f
<1>s. PICK s : s = [frames[t] EXCEPT ![Len(frames[t])] = f]
  OBVIOUS
<1>1. /\ Len(s) = Len(frames[t]) /\ DOMAIN s = 1..Len(frames[t]) /\ Len(frames[t]) \in Nat \ {0}
      /\ DOMAIN frames[t] = 1..Len(frames[t]) /\ \A i \in 1..Len(frames[t]) : s[i] = IF i = Len(frames[t]) THEN f ELSE frames[t][i]
  BY <1>s, TopFits, Put
<1>2. frames'[t] = s /\ \A u \in Threads \ {t} : frames'[u] = frames[u]
  BY <1>s DEF FramesInv, StacksFit
<1> QED BY <1>1, <1>2 DEF Turns

LEMMA LockTurns ==
    ASSUME FramesInv, NEW t \in Threads, LockContext(t)
    PROVE  /\ Turns(t, Len(frames[t]) - 1) /\ Len(frames'[t]) = Len(frames[t]) /\ Len(frames[t]) \in Nat \ {0}
           /\ frames'[t][Len(frames[t])].op \in {"locked", "template"}
           /\ Top(t).op = "lock" => frames'[t][Len(frames[t])].op = "locked"
           /\ frames'[t][Len(frames[t])].context = Top(t).context /\ frames'[t][Len(frames[t])].renderer = Top(t).renderer
           /\ frames'[t][Len(frames[t])].handles = Top(t).handles
           /\ Top(t).op \in Locking /\ ~Idle(t) /\ Available(t, Top(t).context)
<1>1. ~Idle(t) /\ Top(t).op \in Locking /\ Available(t, Top(t).context)
  BY DEF LockContext, Running
<1>2. PICK op \in {"locked", "template"} : frames' = Became(t, op) /\ (Top(t).op = "lock" => op = "locked")
  BY DEF LockContext
<1>3. PICK f : f = [Top(t) EXCEPT !.op = op]
  OBVIOUS
<1>4. frames' = [frames EXCEPT ![t] = [frames[t] EXCEPT ![Len(frames[t])] = f]]
  BY <1>2, <1>3 DEF Became, Top
<1>5. f.op = op /\ f.context = Top(t).context /\ f.renderer = Top(t).renderer /\ f.handles = Top(t).handles
  BY <1>1, <1>3, TopFits DEF FrameFits, IsFrame
<1>6. /\ Turns(t, Len(frames[t]) - 1) /\ Len(frames'[t]) = Len(frames[t])
      /\ frames'[t][Len(frames[t])] = f
  BY <1>1, <1>4, PutTurns
<1>7. Len(frames[t]) \in Nat \ {0}
  BY <1>1, TopFits
<1> QED BY <1>1, <1>2, <1>5, <1>6, <1>7

LEMMA TemplateTurns ==
    ASSUME FramesInv, NEW t \in Threads, RenderTemplate(t)
    PROVE  \/ frames' = Popped(t)
           \/ /\ Turns(t, Len(frames[t]) - 1) /\ Len(frames'[t]) = Len(frames[t]) + 1 /\ Len(frames[t]) \in Nat \ {0}
              /\ frames'[t][Len(frames[t])].op = "templated" /\ frames'[t][Len(frames[t]) + 1].op = "lock"
              /\ frames'[t][Len(frames[t])].context = Top(t).context /\ frames'[t][Len(frames[t]) + 1].context = Top(t).context
              /\ frames'[t][Len(frames[t])].renderer = Top(t).renderer /\ frames'[t][Len(frames[t]) + 1].renderer = Top(t).renderer
              /\ frames'[t][Len(frames[t])].handles = Top(t).handles /\ frames'[t][Len(frames[t]) + 1].handles = {}
              /\ contexts[Top(t).context] # Null
<1>1. ~Idle(t)
  BY DEF RenderTemplate, Running
<1>4. CASE /\ frames' = [frames EXCEPT ![t] = Append(Became(t, "templated")[t], Frame("lock", Top(t).renderer, Top(t).context))]
           /\ contexts[Top(t).context] # Null
  <2>1. /\ Len(frames[t]) \in Nat \ {0} /\ DOMAIN frames[t] = 1..Len(frames[t]) /\ FrameFits(Top(t))
        /\ IsSeq(frames[t]) /\ frames[t] # <<>>
    BY <1>1, TopFits
  <2>2. PICK f : f = [Top(t) EXCEPT !.op = "templated"]
    OBVIOUS
  <2>3. PICK g : g = Frame("lock", Top(t).renderer, Top(t).context)
    OBVIOUS
  <2>4. PICK p : p = [frames[t] EXCEPT ![Len(frames[t])] = f]
    OBVIOUS
  <2>5. PICK s : s = Append(p, g)
    OBVIOUS
  <2>6. /\ f.op = "templated" /\ g.op = "lock" /\ f.context = Top(t).context /\ g.context = Top(t).context
        /\ f.renderer = Top(t).renderer /\ g.renderer = Top(t).renderer /\ f.handles = Top(t).handles /\ g.handles = {}
    BY <2>1, <2>2, <2>3 DEF FrameFits, IsFrame, Frame
  <2>7. /\ IsSeq(p) /\ Len(p) = Len(frames[t]) /\ DOMAIN p = 1..Len(frames[t])
        /\ \A i \in 1..Len(frames[t]) : p[i] = IF i = Len(frames[t]) THEN f ELSE frames[t][i]
    BY <2>1, <2>4, Put
  <2>8. /\ DOMAIN s = 1..(Len(frames[t]) + 1) /\ Len(s) = Len(frames[t]) + 1
        /\ s[Len(frames[t]) + 1] = g /\ \A i \in 1..Len(frames[t]) : s[i] = p[i]
    BY <2>5, <2>7, Push
  <2>9. frames'[t] = s /\ \A u \in Threads \ {t} : frames'[u] = frames[u]
    BY <1>4, <2>2, <2>3, <2>4, <2>5 DEF Became, Top, FramesInv, StacksFit
  <2>10. Turns(t, Len(frames[t]) - 1) /\ Len(frames'[t]) = Len(frames[t]) + 1
    BY <2>1, <2>7, <2>8, <2>9 DEF Turns
  <2>11. frames'[t][Len(frames[t])] = f /\ frames'[t][Len(frames[t]) + 1] = g
    <3>1. Len(frames[t]) \in 1..Len(frames[t])
      BY <2>1
    <3> QED BY <2>7, <2>8, <2>9, <3>1
  <2> QED BY <1>4, <2>1, <2>6, <2>10, <2>11
<1> QED BY <1>4 DEF RenderTemplate

\* A frame of one of these roles appears (GainsNone: none does) or disappears.
Same(u, i) == i \in DOMAIN frames[u] /\ i \in DOMAIN frames'[u] /\ frames'[u][i] = frames[u][i]
GainsNone(ops) == \A u \in Threads : \A i \in DOMAIN frames'[u] : frames'[u][i].op \in ops => Same(u, i)
LosesNone(ops) == \A u \in Threads : \A i \in DOMAIN frames[u] : frames[u][i].op \in ops => Same(u, i)

LEMMA Loses ==
    ASSUME NEW t \in Threads, NEW m, Turns(t, m), NEW ops, m = Len(frames[t]) \/ Top(t).op \notin ops
    PROVE  LosesNone(ops)
<1> SUFFICES ASSUME NEW u \in Threads, NEW i \in DOMAIN frames[u], frames[u][i].op \in ops
             PROVE  Same(u, i)
  BY DEF LosesNone
<1>1. CASE u # t
  BY <1>1 DEF Turns, Same
<1>2. CASE u = t
  <2>1. i \in 1..m
    BY <1>2 DEF Turns, Top
  <2> QED BY <1>2, <2>1 DEF Turns, Same
<1> QED BY <1>1, <1>2

LEMMA Gains ==
    ASSUME NEW t \in Threads, NEW m, Turns(t, m), NEW ops, \A i \in DOMAIN frames'[t] : i > m => frames'[t][i].op \notin ops
    PROVE  GainsNone(ops)
<1> SUFFICES ASSUME NEW u \in Threads, NEW i \in DOMAIN frames'[u], frames'[u][i].op \in ops
             PROVE  Same(u, i)
  BY DEF GainsNone
<1>1. CASE u # t
  BY <1>1 DEF Turns, Same
<1>2. CASE u = t
  <2>1. i \in 1..m
    BY <1>2 DEF Turns
  <2> QED BY <1>2, <2>1 DEF Turns, Same
<1> QED BY <1>1, <1>2

-----------------------------------------------------------------------------
(* Who renders, and for whom *)

Open == {"callback", "returning"}
Counted == {"callback", "returning", "invalidated"}
RenderersFit ==
    /\ rendering \in [Renderers -> BOOLEAN]
    /\ callbackDepth = [r \in Renderers |-> callbackDepth[r]] /\ engine = [r \in Renderers |-> engine[r]]
\* One render() per renderer at a time.
RendersOwn ==
    \A t \in Threads : \A i \in DOMAIN frames[t] : frames[t][i].op = "render" =>
        /\ rendering[frames[t][i].renderer]
        /\ \A u \in Threads : \A j \in DOMAIN frames[u] :
              frames[u][j].op = "render" /\ frames[u][j].renderer = frames[t][i].renderer => t = u /\ i = j
\* A callback runs on top of the engine that called it.
CallbacksSit ==
    \A t \in Threads : \A i \in DOMAIN frames[t] : frames[t][i].op \in Callbacks =>
        i > 1 /\ frames[t][i - 1].op \in {"render", "helper"} /\ frames[t][i - 1].renderer = frames[t][i].renderer
CallbacksRender ==
    \A t \in Threads : \A i \in DOMAIN frames[t] : frames[t][i].op \in Callbacks =>
        /\ rendering[frames[t][i].renderer]
        /\ frames[t][i].op \notin Open => contexts[frames[t][i].context] = Null
\* A nested render is in the current engine of its renderer, the one its context, if any, names.
HelpersOwn ==
    \A t \in Threads : \A i \in DOMAIN frames[t] : frames[t][i].op = "helper" =>
        /\ frames[t][i].context # 0 => contexts[frames[t][i].context] = frames[t][i].renderer
        /\ rendering[frames[t][i].renderer] /\ frames[t][i].engine = engine[frames[t][i].renderer]
Calls(ops, c, r) ==
    \E t \in Threads : \E i \in DOMAIN frames[t] :
        frames[t][i].op \in ops /\ frames[t][i].context = c /\ frames[t][i].renderer = r
\* Only a callback that has not returned yet has an active context.
ContextsCalled == \A c \in DOMAIN contexts : contexts[c] # Null => Calls(Open, c, contexts[c])
\* The registry holds the scopes of callbacks, with their engines.
ScopesCalled ==
    \A s \in DOMAIN scopes : Calls(Callbacks, s, scopes[s].renderer) /\ scopes[s].engine = engine[scopes[s].renderer]
ScopesMatch ==
    \A t \in Threads : \A i \in DOMAIN frames[t] :
        frames[t][i].op \in Callbacks => scopes[frames[t][i].context].renderer = frames[t][i].renderer
CountedOf(r) == {c \in Ids : Calls(Counted, c, r)}
DepthCounts == \A r \in Renderers : callbackDepth[r] = Cardinality(CountedOf(r))
EngineInv ==
    /\ RenderersFit /\ RendersOwn /\ CallbacksSit /\ CallbacksRender /\ HelpersOwn
    /\ ContextsCalled /\ ScopesCalled /\ ScopesMatch /\ DepthCounts

-----------------------------------------------------------------------------
(* What keeps each part *)

LEMMA CallsKept ==
    ASSUME NEW ops, NEW c, NEW r
    PROVE  /\ LosesNone(ops) /\ Calls(ops, c, r) => Calls(ops, c, r)'
           /\ GainsNone(ops) /\ Calls(ops, c, r)' => Calls(ops, c, r)
<1>1. ASSUME LosesNone(ops), Calls(ops, c, r) PROVE Calls(ops, c, r)'
  <2>1. PICK t \in Threads : \E i \in DOMAIN frames[t] :
           frames[t][i].op \in ops /\ frames[t][i].context = c /\ frames[t][i].renderer = r
    BY <1>1 DEF Calls
  <2> PICK i \in DOMAIN frames[t] : frames[t][i].op \in ops /\ frames[t][i].context = c /\ frames[t][i].renderer = r
    BY <2>1
  <2>2. i \in DOMAIN frames'[t] /\ frames'[t][i] = frames[t][i]
    BY <1>1, <2>1 DEF LosesNone, Same
  <2> QED BY <2>1, <2>2 DEF Calls
<1>2. ASSUME GainsNone(ops), Calls(ops, c, r)' PROVE Calls(ops, c, r)
  <2>1. PICK t \in Threads : \E i \in DOMAIN frames'[t] :
           frames'[t][i].op \in ops /\ frames'[t][i].context = c /\ frames'[t][i].renderer = r
    BY <1>2 DEF Calls
  <2> PICK i \in DOMAIN frames'[t] : frames'[t][i].op \in ops /\ frames'[t][i].context = c /\ frames'[t][i].renderer = r
    BY <2>1
  <2>2. i \in DOMAIN frames[t] /\ frames'[t][i] = frames[t][i]
    BY <1>2, <2>1 DEF GainsNone, Same
  <2> QED BY <2>1, <2>2 DEF Calls
<1> QED BY <1>1, <1>2

LEMMA RendersKept ==
    ASSUME RendersOwn, GainsNone({"render"}), rendering' = rendering
    PROVE  RendersOwn'
<1> SUFFICES ASSUME NEW t \in Threads, NEW i \in DOMAIN frames'[t], frames'[t][i].op = "render"
             PROVE  /\ rendering'[frames'[t][i].renderer]
                    /\ \A u \in Threads : \A j \in DOMAIN frames'[u] :
                          frames'[u][j].op = "render" /\ frames'[u][j].renderer = frames'[t][i].renderer => t = u /\ i = j
  BY DEF RendersOwn
<1>1. i \in DOMAIN frames[t] /\ frames'[t][i] = frames[t][i]
  BY DEF GainsNone, Same
<1>2. ASSUME NEW u \in Threads, NEW j \in DOMAIN frames'[u], frames'[u][j].op = "render"
      PROVE  j \in DOMAIN frames[u] /\ frames'[u][j] = frames[u][j]
  BY <1>2 DEF GainsNone, Same
<1> QED BY <1>1, <1>2 DEF RendersOwn

LEMMA SitKept ==
    ASSUME CallbacksSit, NEW t \in Threads, NEW m, Turns(t, m),
           \A i \in DOMAIN frames'[t] : i > m /\ frames'[t][i].op \in Callbacks =>
               i > 1 /\ frames'[t][i - 1].op \in {"render", "helper"} /\ frames'[t][i - 1].renderer = frames'[t][i].renderer
    PROVE  CallbacksSit'
<1> SUFFICES ASSUME NEW u \in Threads, NEW i \in DOMAIN frames'[u], frames'[u][i].op \in Callbacks
             PROVE  i > 1 /\ frames'[u][i - 1].op \in {"render", "helper"} /\ frames'[u][i - 1].renderer = frames'[u][i].renderer
  BY DEF CallbacksSit
<1>1. CASE u # t
  BY <1>1 DEF Turns, CallbacksSit
<1>2. CASE u = t /\ i > m
  BY <1>2
<1>3. CASE u = t /\ ~(i > m)
  <2>1. i \in 1..m /\ m \in Nat
    BY <1>3 DEF Turns
  <2>2. i \in DOMAIN frames[t] /\ frames'[t][i] = frames[t][i]
    BY <2>1 DEF Turns
  <2>3. i > 1 /\ frames[t][i - 1].op \in {"render", "helper"} /\ frames[t][i - 1].renderer = frames[t][i].renderer
    BY <1>3, <2>2 DEF CallbacksSit
  <2>4. i - 1 \in 1..m
    BY <2>1, <2>3
  <2>5. frames'[t][i - 1] = frames[t][i - 1]
    BY <2>4 DEF Turns
  <2> QED BY <1>3, <2>2, <2>3, <2>5
<1> QED BY <1>1, <1>2, <1>3

LEMMA CallbacksRenderKept ==
    ASSUME CallbacksRender, GainsNone(Callbacks), rendering' = rendering, contexts' = contexts
    PROVE  CallbacksRender'
<1> SUFFICES ASSUME NEW t \in Threads, NEW i \in DOMAIN frames'[t], frames'[t][i].op \in Callbacks
             PROVE  /\ rendering'[frames'[t][i].renderer]
                    /\ frames'[t][i].op \notin Open => contexts'[frames'[t][i].context] = Null
  BY DEF CallbacksRender
<1>1. i \in DOMAIN frames[t] /\ frames'[t][i] = frames[t][i]
  BY DEF GainsNone, Same
<1> QED BY <1>1 DEF CallbacksRender

LEMMA HelpersKept ==
    ASSUME HelpersOwn, GainsNone({"helper"}), contexts' = contexts, engine' = engine, rendering' = rendering
    PROVE  HelpersOwn'
<1> SUFFICES ASSUME NEW t \in Threads, NEW i \in DOMAIN frames'[t], frames'[t][i].op = "helper"
             PROVE  /\ frames'[t][i].context # 0 => contexts'[frames'[t][i].context] = frames'[t][i].renderer
                    /\ rendering'[frames'[t][i].renderer] /\ frames'[t][i].engine = engine'[frames'[t][i].renderer]
  BY DEF HelpersOwn
<1>1. i \in DOMAIN frames[t] /\ frames'[t][i] = frames[t][i]
  BY DEF GainsNone, Same
<1> QED BY <1>1 DEF HelpersOwn

LEMMA CalledKept ==
    ASSUME ContextsCalled, ScopesCalled, LosesNone(Callbacks), contexts' = contexts, scopes' = scopes, engine' = engine
    PROVE  ContextsCalled' /\ ScopesCalled'
<1>1. LosesNone(Open)
  BY DEF LosesNone, Open, Callbacks
<1>2. ASSUME NEW c \in DOMAIN contexts', contexts'[c] # Null PROVE Calls(Open, c, contexts[c])'
  <2>1. PICK r : r = contexts[c]
    OBVIOUS
  <2>2. Calls(Open, c, r)
    BY <1>2, <2>1 DEF ContextsCalled
  <2>3. Calls(Open, c, r)'
    BY <1>1, <2>2, CallsKept
  <2> QED BY <2>1, <2>3 DEF Calls
<1>3. ASSUME NEW s \in DOMAIN scopes'
      PROVE  Calls(Callbacks, s, scopes[s].renderer)' /\ scopes'[s].engine = engine'[scopes'[s].renderer]
  <2>1. PICK r : r = scopes[s].renderer
    OBVIOUS
  <2>2. Calls(Callbacks, s, r) /\ scopes[s].engine = engine[r]
    BY <2>1 DEF ScopesCalled
  <2>3. Calls(Callbacks, s, r)'
    BY <2>2, CallsKept
  <2> QED BY <2>1, <2>2, <2>3 DEF Calls
<1> QED BY <1>2, <1>3 DEF ContextsCalled, ScopesCalled

LEMMA MatchKept ==
    ASSUME ScopesMatch, GainsNone(Callbacks), scopes' = scopes
    PROVE  ScopesMatch'
<1> SUFFICES ASSUME NEW t \in Threads, NEW i \in DOMAIN frames'[t], frames'[t][i].op \in Callbacks
             PROVE  scopes'[frames'[t][i].context].renderer = frames'[t][i].renderer
  BY DEF ScopesMatch
<1>1. i \in DOMAIN frames[t] /\ frames'[t][i] = frames[t][i]
  BY DEF GainsNone, Same
<1> QED BY <1>1 DEF ScopesMatch

LEMMA CountKept ==
    ASSUME GainsNone(Counted), LosesNone(Counted)
    PROVE  \A r : CountedOf(r)' = CountedOf(r)
<1> TAKE r
<1>1. \A c \in Ids : Calls(Counted, c, r)' <=> Calls(Counted, c, r)
  BY CallsKept
<1> QED BY <1>1 DEF CountedOf

LEMMA DepthKept ==
    ASSUME DepthCounts, \A r \in Renderers : CountedOf(r)' = CountedOf(r), callbackDepth' = callbackDepth
    PROVE  DepthCounts'
  BY DEF DepthCounts

\* Steps of user code, and of renders through a context that end.
LEMMA QuietKeeps ==
    ASSUME EngineInv, NEW t \in Threads, NEW m, Turns(t, m), m = Len(frames[t]) \/ Top(t).op \notin Callbacks,
           \A i \in DOMAIN frames'[t] : i > m => frames'[t][i].op \notin Callbacks \cup {"render", "helper"},
           UNCHANGED <<renderers, contexts, registry>>
    PROVE  EngineInv'
<1>0. /\ rendering' = rendering /\ callbackDepth' = callbackDepth /\ engine' = engine
      /\ contexts' = contexts /\ scopes' = scopes
  BY DEF renderers, registry
<1>1. LosesNone(Callbacks) /\ GainsNone(Callbacks)
  BY Loses, Gains
<1>2. GainsNone({"render"}) /\ GainsNone({"helper"})
  BY Gains
<1>3. LosesNone(Counted) /\ GainsNone(Counted)
  BY <1>1 DEF LosesNone, GainsNone, Callbacks, Counted
<1>4. CallbacksSit'
  BY SitKept DEF EngineInv
<1>5. RendersOwn' /\ CallbacksRender' /\ HelpersOwn'
  BY <1>0, <1>1, <1>2, RendersKept, CallbacksRenderKept, HelpersKept DEF EngineInv
<1>6. ContextsCalled' /\ ScopesCalled' /\ ScopesMatch'
  BY <1>0, <1>1, CalledKept, MatchKept DEF EngineInv
<1>7. DepthCounts'
  BY <1>0, <1>3, CountKept, DepthKept DEF EngineInv
<1>8. RenderersFit'
  BY <1>0 DEF EngineInv, RenderersFit
<1> QED BY <1>4, <1>5, <1>6, <1>7, <1>8 DEF EngineInv

-----------------------------------------------------------------------------
(* Searching the registry *)

LEMMA Least ==
    ASSUME NEW S \in SUBSET Nat, S # {}
    PROVE  \E x \in S : \A y \in S : x <= y
<1> DEFINE R == {ss \in Nat \X Nat : ss[1] < ss[2]}
<1>1. IsWellFoundedOn(R, Nat)
  BY NatLessThanWellFounded DEF OpToRel
<1>2. PICK x \in S : \A y \in S : ~ (<<y, x>> \in R)
  <2> HIDE DEF R
  <2> QED BY <1>1, WFMin, Zenon
<1>3. \A y \in S : ~ (y < x)
  BY <1>2
<1> QED BY <1>3

\* ActiveEngineScope::find returns a live scope of the renderer, and finds one if there is one.
LEMMA FindsScope ==
    ASSUME RegistryInv, NEW r
    PROVE  /\ FindScope(r) # 0 => FindScope(r) \in DOMAIN scopes /\ scopes[FindScope(r)].renderer = r
           /\ \A s \in DOMAIN scopes : scopes[s].renderer = r => FindScope(r) # 0
<1> DEFINE D == {0} \cup DOMAIN scopes
           Walks(g) == g = [s \in D |-> IF s = 0 \/ scopes[s].renderer = r THEN s ELSE g[scopes[s].previous]]
<1>1. DOMAIN scopes \subseteq Nat \ {0} /\ MaxContexts \in Nat /\ \A s \in DOMAIN scopes : s < MaxContexts + 1
  BY BoundsAssumption DEF RegistryInv, ScopesFit, FramesInv, StacksFit
<1>2. /\ current \in D /\ \A o \in DOMAIN scopes : o <= current
      /\ \A s \in DOMAIN scopes : /\ scopes[s].previous \in D /\ scopes[s].previous < s
                                  /\ \A o \in DOMAIN scopes : o < s => o <= scopes[s].previous
  BY <1>1 DEF RegistryInv, RegistryIntact, NewestBelow
<1>3. \E g : Walks(g)
  <2> DEFINE M(s) == {o \in D : o <= s /\ (o = 0 \/ scopes[o].renderer = r)}
             Newest(s) == CHOOSE x \in M(s) : \A y \in M(s) : y <= x
             h == [s \in D |-> Newest(s)]
  <2>1. ASSUME NEW s \in D, s = 0 \/ scopes[s].renderer = r PROVE Newest(s) = s
    <3>1. s \in M(s) /\ \A y \in M(s) : y <= s /\ y \in Nat
      BY <1>1, <2>1
    <3>2. Newest(s) \in M(s) /\ \A y \in M(s) : y <= Newest(s)
      <4> HIDE DEF M
      <4> QED BY <3>1
    <3>3. s <= Newest(s) /\ Newest(s) <= s /\ Newest(s) \in Nat /\ s \in Nat
      <4> HIDE DEF M, Newest
      <4> QED BY <3>1, <3>2
    <3> HIDE DEF Newest
    <3> QED BY <3>3
  <2>2. ASSUME NEW s \in D, ~(s = 0 \/ scopes[s].renderer = r) PROVE Newest(s) = h[scopes[s].previous]
    <3>1. PICK p : p = scopes[s].previous
      OBVIOUS
    <3>2. p \in D /\ p < s /\ (\A o \in DOMAIN scopes : o < s => o <= p) /\ s \in Nat /\ p \in Nat
      BY <1>1, <1>2, <2>2, <3>1
    <3>3. M(s) = M(p)
      <4>1. ASSUME NEW o \in D PROVE o \in M(s) <=> o \in M(p)
        <5>1. o \in Nat
          BY <1>1
        <5>2. CASE o = 0
          BY <3>2, <5>2
        <5>3. CASE o # 0
          BY <2>2, <3>2, <5>1, <5>3
        <5> QED BY <5>2, <5>3
      <4> QED BY <4>1
    <3>4. Newest(s) = Newest(p)
      <4> HIDE DEF M
      <4> QED BY <3>3
    <3>5. h[p] = Newest(p)
      <4> HIDE DEF Newest
      <4> QED BY <3>2
    <3> HIDE DEF Newest, h
    <3> QED BY <3>1, <3>4, <3>5
  <2>3. \A s \in D : Newest(s) = IF s = 0 \/ scopes[s].renderer = r THEN s ELSE h[scopes[s].previous]
    <3> HIDE DEF Newest, h
    <3> QED BY <2>1, <2>2
  <2>4. Walks(h)
    <3> DEFINE hh == [s \in D |-> IF s = 0 \/ scopes[s].renderer = r THEN s ELSE h[scopes[s].previous]]
    <3>1. h = hh
      <4> PICK h2 : h2 = h
        OBVIOUS
      <4> HIDE DEF Newest
      <4> QED BY <2>3
    <3> HIDE DEF h
    <3> QED BY <3>1
  <2> HIDE DEF h, Walks
  <2> QED BY <2>4
<1>4. ASSUME NEW g, Walks(g), NEW s \in D
      PROVE  /\ g[s] # 0 => g[s] \in DOMAIN scopes /\ scopes[g[s]].renderer = r
             /\ \A o \in DOMAIN scopes : o <= s /\ scopes[o].renderer = r => g[s] # 0
  <2> DEFINE Q(x) == /\ g[x] # 0 => g[x] \in DOMAIN scopes /\ scopes[g[x]].renderer = r
                     /\ \A o \in DOMAIN scopes : o <= x /\ scopes[o].renderer = r => g[x] # 0
             Bad == {x \in D : ~Q(x)}
  <2> SUFFICES ASSUME Bad # {} PROVE FALSE
    OBVIOUS
  <2>1. PICK x \in Bad : \A y \in Bad : x <= y
    <3>1. Bad \in SUBSET Nat
      BY <1>1
    <3> HIDE DEF Bad
    <3> QED BY <3>1, Least
  <2>2. x \in D /\ ~Q(x) /\ x \in Nat
    BY <1>1
  <2>3. g[x] = IF x = 0 \/ scopes[x].renderer = r THEN x ELSE g[scopes[x].previous]
    BY <1>4, <2>2
  <2>4. CASE x = 0 \/ scopes[x].renderer = r
    BY <1>1, <2>2, <2>3, <2>4
  <2>5. CASE ~(x = 0 \/ scopes[x].renderer = r)
    <3>1. PICK p : p = scopes[x].previous
      OBVIOUS
    <3>2. p \in D /\ p < x /\ (\A o \in DOMAIN scopes : o < x => o <= p) /\ p \in Nat
      BY <1>1, <1>2, <2>2, <2>5, <3>1
    <3>3. Q(p)
      <4>1. p \notin Bad
        <5> HIDE DEF Bad
        <5> QED BY <2>1, <2>2, <3>2
      <4> HIDE DEF Q
      <4> QED BY <3>2, <4>1
    <3>4. g[x] = g[p]
      BY <2>3, <2>5, <3>1
    <3>5. \A o \in DOMAIN scopes : o <= x /\ scopes[o].renderer = r => o <= p
      BY <1>1, <2>2, <2>5, <3>2
    <3> QED BY <2>2, <3>3, <3>4, <3>5
  <2> QED BY <2>4, <2>5
<1>5. FindScope(r) = (CHOOSE g : Walks(g))[current]
  BY DEF FindScope
<1> HIDE DEF Walks
<1>6. PICK w : w = (CHOOSE g : Walks(g))
  OBVIOUS
<1>7. Walks(w)
  BY <1>3, <1>6
<1>8. FindScope(r) = w[current]
  BY <1>5, <1>6
<1>9. /\ w[current] # 0 => w[current] \in DOMAIN scopes /\ scopes[w[current]].renderer = r
      /\ \A o \in DOMAIN scopes : o <= current /\ scopes[o].renderer = r => w[current] # 0
  BY <1>2, <1>4, <1>7
<1> HIDE DEF D
<1> QED BY <1>2, <1>8, <1>9

\* All nested renders are through contexts.
HelpersHaveContexts ==
    \A t \in Threads : \A i \in DOMAIN frames[t] : frames[t][i].op = "helper" => frames[t][i].context # 0
\* No callback of a renderer, and no nested render.
Deserted(r) ==
    \A t \in Threads : \A i \in DOMAIN frames[t] : frames[t][i].op \in Callbacks \cup {"helper"} => frames[t][i].renderer # r

\* The oldest callback of a renderer was called by the render() itself.
LEMMA RenderBelow ==
    ASSUME RegistryInv, EngineInv, HelpersHaveContexts, NEW r, NEW c, Calls(Callbacks, c, r)
    PROVE  \E t \in Threads : \E i \in DOMAIN frames[t] :
              frames[t][i].op = "render" /\ frames[t][i].renderer = r /\ i + 1 \in DOMAIN frames[t]
<1> DEFINE S == {d \in Nat : Calls(Callbacks, d, r)}
<1>0. ASSUME NEW d, NEW ops, Calls(ops, d, r) PROVE d \in Nat
  BY <1>0 DEF Calls, RegistryInv, FramesInv, StacksFit, FrameFits
<1>1. PICK d \in S : \A e \in S : d <= e
  <2>1. c \in S
    BY <1>0
  <2>2. S \in SUBSET Nat
    OBVIOUS
  <2> HIDE DEF S
  <2> QED BY <2>1, <2>2, Least
<1>2. PICK t \in Threads : \E i \in DOMAIN frames[t] :
         frames[t][i].op \in Callbacks /\ frames[t][i].context = d /\ frames[t][i].renderer = r
  BY DEF Calls
<1>3. PICK i \in DOMAIN frames[t] : frames[t][i].op \in Callbacks /\ frames[t][i].context = d /\ frames[t][i].renderer = r
  BY <1>2
<1>4. Len(frames[t]) \in Nat /\ DOMAIN frames[t] = 1..Len(frames[t])
  BY StackShape DEF RegistryInv, FramesInv
<1>5. i > 1 /\ frames[t][i - 1].op \in {"render", "helper"} /\ frames[t][i - 1].renderer = r
  BY <1>3 DEF EngineInv, CallbacksSit
<1>6. i - 1 \in DOMAIN frames[t] /\ (i - 1) + 1 = i /\ i - 1 < i
  BY <1>4, <1>5
<1>7. ASSUME frames[t][i - 1].op = "helper" PROVE FALSE
  <2>1. PICK e : e = frames[t][i - 1].context
    OBVIOUS
  <2>2. e \in 0..Len(contexts) /\ e # 0 /\ contexts[e] = r /\ contexts \in Seq(Renderers \cup {Null}) /\ r \in Renderers /\ e < d
    <3>1. frames[t][i - 1].context < frames[t][i].context
      BY <1>3, <1>6 DEF RegistryInv, FramesInv, CallbacksNest
    <3>2. FrameFits(frames[t][i - 1]) /\ FrameFits(frames[t][i]) /\ contexts \in Seq(Renderers \cup {Null})
      BY <1>6 DEF RegistryInv, FramesInv, StacksFit
    <3> QED BY <1>3, <1>5, <1>6, <1>7, <2>1, <3>1, <3>2 DEF FrameFits, EngineInv, HelpersOwn, HelpersHaveContexts
  <2>3. e \in DOMAIN contexts /\ contexts[e] # Null
    BY <2>2, NullAssumption
  <2>4. Calls(Open, e, r)
    BY <2>2, <2>3 DEF EngineInv, ContextsCalled
  <2>5. Calls(Callbacks, e, r)
    BY <2>4 DEF Calls, Open, Callbacks
  <2>6. e \in S
    BY <2>5, <1>0
  <2> QED BY <1>1, <2>2, <2>6
<1> QED BY <1>5, <1>6, <1>7

-----------------------------------------------------------------------------
(* Every action keeps it *)

LEMMA NobodyOf ==
    ASSUME RegistryInv, EngineInv, NEW r \in Renderers, Deserted(r)
    PROVE  CountedOf(r) = {} /\ \A s \in DOMAIN scopes : scopes[s].renderer # r
<1>1. \A c : ~Calls(Callbacks, c, r)
  BY DEF Deserted, Calls
<1>2. \A c : ~Calls(Counted, c, r)
  BY <1>1 DEF Calls, Counted, Callbacks
<1>3. \A s \in DOMAIN scopes : scopes[s].renderer # r
  BY <1>1 DEF EngineInv, ScopesCalled
<1> QED BY <1>2, <1>3 DEF CountedOf

LEMMA StartRenderKeeps ==
    ASSUME RegistryInv, EngineInv, NEW t \in Threads, NEW r \in Renderers, StartRender(t, r)
    PROVE  EngineInv'
<1>1. /\ ~rendering[r] /\ rendering' = [rendering EXCEPT ![r] = TRUE] /\ callbackDepth' = [callbackDepth EXCEPT ![r] = 0]
      /\ engine' = [engine EXCEPT ![r] = @ + 1] /\ contexts' = contexts /\ scopes' = scopes
      /\ frames' = Pushed(t, Frame("render", r, 0))
  BY DEF StartRender, registry
<1>n. PICK n : n = Len(frames[t])
  OBVIOUS
<1>f. PICK f : f = Frame("render", r, 0)
  OBVIOUS
<1>2. f.op = "render" /\ f.renderer = r
  BY <1>f DEF Frame
<1>3. Turns(t, n) /\ Len(frames'[t]) = n + 1 /\ frames'[t][n + 1] = f
  BY <1>1, <1>n, <1>f, PushTurns DEF RegistryInv
<1>4. \A i \in DOMAIN frames'[t] : i > n => i = n + 1
  BY <1>3 DEF Turns
<1>5. LosesNone(Callbacks) /\ LosesNone({"render"})
  BY <1>n, <1>3, Loses
<1>6. GainsNone(Callbacks) /\ GainsNone({"helper"})
  BY <1>2, <1>3, <1>4, Gains DEF Callbacks
<1>7. GainsNone(Counted) /\ LosesNone(Counted)
  BY <1>5, <1>6 DEF GainsNone, LosesNone, Counted, Callbacks
<1>8. Deserted(r)
  BY <1>1 DEF EngineInv, CallbacksRender, HelpersOwn, Deserted
<1>9. /\ CountedOf(r) = {}
      /\ \A u \in Threads : \A i \in DOMAIN frames[u] : frames[u][i].op \in Callbacks \cup {"helper"} => frames[u][i].renderer # r
      /\ \A s \in DOMAIN scopes : scopes[s].renderer # r
  BY <1>8, NobodyOf DEF Deserted
<1>10. RenderersFit'
  BY <1>1 DEF EngineInv, RenderersFit
<1>11. rendering'[r] /\ callbackDepth'[r] = 0
       /\ \A q \in Renderers \ {r} : rendering'[q] = rendering[q] /\ callbackDepth'[q] = callbackDepth[q] /\ engine'[q] = engine[q]
  BY <1>1 DEF EngineInv, RenderersFit
<1>r. \A u \in Threads : \A i \in DOMAIN frames[u] : frames[u][i].renderer \in Renderers
  BY DEF RegistryInv, FramesInv, StacksFit, FrameFits
<1>12. RendersOwn'
  <2>1. ASSUME NEW u \in Threads, NEW i \in DOMAIN frames'[u], frames'[u][i].op = "render"
        PROVE  \/ u = t /\ i = n + 1 /\ frames'[u][i].renderer = r
               \/ /\ i \in DOMAIN frames[u] /\ frames'[u][i] = frames[u][i] /\ rendering[frames[u][i].renderer]
                  /\ frames[u][i].renderer # r
    <3>1. CASE u = t /\ i = n + 1
      BY <1>2, <1>3, <3>1
    <3>2. CASE ~(u = t /\ i = n + 1)
      <4>1. i \in DOMAIN frames[u] /\ frames'[u][i] = frames[u][i]
        BY <1>3, <1>4, <3>2, <1>n DEF Turns
      <4> QED BY <1>1, <2>1, <4>1 DEF EngineInv, RendersOwn
    <3> QED BY <3>1, <3>2
  <2>2. ASSUME NEW u \in Threads, NEW i \in DOMAIN frames'[u], frames'[u][i].op = "render"
        PROVE  rendering'[frames'[u][i].renderer]
    BY <1>11, <1>r, <2>1, <2>2
  <2>3. ASSUME NEW u \in Threads, NEW i \in DOMAIN frames'[u], frames'[u][i].op = "render",
               NEW v \in Threads, NEW j \in DOMAIN frames'[v], frames'[v][j].op = "render",
               frames'[v][j].renderer = frames'[u][i].renderer
        PROVE  u = v /\ i = j
    <3>1. CASE frames'[u][i].renderer = r
      BY <2>1, <2>3, <3>1
    <3>2. CASE frames'[u][i].renderer # r
      <4>1. i \in DOMAIN frames[u] /\ frames'[u][i] = frames[u][i] /\ j \in DOMAIN frames[v] /\ frames'[v][j] = frames[v][j]
        BY <2>1, <2>3, <3>2
      <4> QED BY <2>3, <4>1 DEF EngineInv, RendersOwn
    <3> QED BY <3>1, <3>2
  <2> QED BY <2>2, <2>3 DEF RendersOwn
<1>13. CallbacksSit'
  BY <1>2, <1>3, <1>4, SitKept DEF EngineInv, Callbacks
<1>14. CallbacksRender'
  <2> SUFFICES ASSUME NEW u \in Threads, NEW i \in DOMAIN frames'[u], frames'[u][i].op \in Callbacks
               PROVE  /\ rendering'[frames'[u][i].renderer]
                      /\ frames'[u][i].op \notin Open => contexts'[frames'[u][i].context] = Null
    BY DEF CallbacksRender
  <2>1. i \in DOMAIN frames[u] /\ frames'[u][i] = frames[u][i]
    BY <1>6 DEF GainsNone, Same
  <2> QED BY <1>1, <1>11, <1>r, <2>1 DEF EngineInv, CallbacksRender
<1>15. HelpersOwn'
  <2> SUFFICES ASSUME NEW u \in Threads, NEW i \in DOMAIN frames'[u], frames'[u][i].op = "helper"
               PROVE  /\ frames'[u][i].context # 0 => contexts'[frames'[u][i].context] = frames'[u][i].renderer
                      /\ rendering'[frames'[u][i].renderer] /\ frames'[u][i].engine = engine'[frames'[u][i].renderer]
    BY DEF HelpersOwn
  <2>1. i \in DOMAIN frames[u] /\ frames'[u][i] = frames[u][i]
    BY <1>6 DEF GainsNone, Same
  <2>2. frames[u][i].renderer \in Renderers \ {r}
    BY <1>9, <1>r, <2>1
  <2> QED BY <1>1, <1>11, <2>1, <2>2 DEF EngineInv, HelpersOwn
<1>16. ContextsCalled'
  <2>1. LosesNone(Open)
    BY <1>5 DEF LosesNone, Open, Callbacks
  <2> SUFFICES ASSUME NEW c \in DOMAIN contexts, contexts[c] # Null PROVE Calls(Open, c, contexts[c])'
    BY <1>1 DEF ContextsCalled
  <2>2. PICK q : q = contexts[c]
    OBVIOUS
  <2>3. Calls(Open, c, q)
    BY <2>2 DEF EngineInv, ContextsCalled
  <2>4. Calls(Open, c, q)'
    BY <2>1, <2>3, CallsKept
  <2> QED BY <1>1, <2>2, <2>4 DEF Calls
<1>17. ScopesCalled'
  <2> SUFFICES ASSUME NEW s \in DOMAIN scopes
               PROVE  Calls(Callbacks, s, scopes[s].renderer)' /\ scopes'[s].engine = engine'[scopes'[s].renderer]
    BY <1>1 DEF ScopesCalled
  <2>1. PICK q : q = scopes[s].renderer
    OBVIOUS
  <2>2. Calls(Callbacks, s, q) /\ scopes[s].engine = engine[q] /\ q # r
    BY <1>9, <2>1 DEF EngineInv, ScopesCalled
  <2>3. q \in Renderers
    BY <1>r, <2>2 DEF Calls
  <2>4. Calls(Callbacks, s, q)'
    BY <1>5, <2>2, CallsKept
  <2> QED BY <1>1, <1>11, <2>1, <2>2, <2>3, <2>4 DEF Calls
<1>18. ScopesMatch'
  BY <1>1, <1>6, MatchKept DEF EngineInv
<1>19. DepthCounts'
  <2>1. \A q : CountedOf(q)' = CountedOf(q)
    BY <1>7, CountKept
  <2>2. Cardinality({}) = 0
    BY FS_EmptySet
  <2>3. \A q \in Renderers : callbackDepth'[q] = Cardinality(CountedOf(q))
    BY <1>9, <1>11, <2>2 DEF EngineInv, DepthCounts
  <2> QED BY <2>1, <2>3 DEF DepthCounts
<1> QED BY <1>10, <1>12, <1>13, <1>14, <1>15, <1>16, <1>17, <1>18, <1>19 DEF EngineInv

LEMMA FinishRenderKeeps ==
    ASSUME RegistryInv, EngineInv, NEW t \in Threads, FinishRender(t), Deserted(Top(t).renderer)
    PROVE  EngineInv'
<1>r. PICK r : r = Top(t).renderer
  OBVIOUS
<1>n. PICK n : n = Len(frames[t])
  OBVIOUS
<1>1. /\ ~Idle(t) /\ Top(t).op = "render" /\ rendering' = [rendering EXCEPT ![r] = FALSE]
      /\ callbackDepth' = [callbackDepth EXCEPT ![r] = 0]
      /\ engine' = engine /\ contexts' = contexts /\ scopes' = scopes /\ frames' = Popped(t)
  BY <1>r DEF FinishRender, Running, registry
<1>2. r \in Renderers /\ n \in Nat \ {0} /\ n \in DOMAIN frames[t] /\ Top(t) = frames[t][n] /\ DOMAIN frames[t] = 1..n
  BY <1>1, <1>r, <1>n, TopFits DEF RegistryInv, FrameFits, Top
<1>3. Turns(t, n - 1) /\ Len(frames'[t]) = n - 1
  BY <1>1, <1>n, PopTurns DEF RegistryInv
<1>4. \A i \in DOMAIN frames'[t] : ~(i > n - 1)
  BY <1>3 DEF Turns
<1>5. LosesNone(Callbacks)
  BY <1>1, <1>3, Loses DEF Callbacks
<1>6. GainsNone(Callbacks) /\ GainsNone({"helper"}) /\ GainsNone({"render"})
  BY <1>3, <1>4, Gains
<1>7. GainsNone(Counted) /\ LosesNone(Counted)
  BY <1>5, <1>6 DEF GainsNone, LosesNone, Counted, Callbacks
<1>8. Deserted(r)
  BY <1>r
<1>9. /\ CountedOf(r) = {}
      /\ \A u \in Threads : \A i \in DOMAIN frames[u] : frames[u][i].op \in Callbacks \cup {"helper"} => frames[u][i].renderer # r
      /\ \A s \in DOMAIN scopes : scopes[s].renderer # r
  BY <1>2, <1>8, NobodyOf DEF Deserted
<1>10. RenderersFit'
  BY <1>1 DEF EngineInv, RenderersFit
<1>11. callbackDepth'[r] = 0
       /\ \A q \in Renderers \ {r} : rendering'[q] = rendering[q] /\ callbackDepth'[q] = callbackDepth[q]
  BY <1>1, <1>2 DEF EngineInv, RenderersFit
<1>f. \A u \in Threads : \A i \in DOMAIN frames[u] : frames[u][i].renderer \in Renderers
  BY DEF RegistryInv, FramesInv, StacksFit, FrameFits
<1>12. RendersOwn'
  <2>1. ASSUME NEW u \in Threads, NEW i \in DOMAIN frames'[u], frames'[u][i].op = "render"
        PROVE  i \in DOMAIN frames[u] /\ frames'[u][i] = frames[u][i] /\ frames[u][i].renderer # r
    <3>1. i \in DOMAIN frames[u] /\ frames'[u][i] = frames[u][i]
      BY <1>6, <2>1 DEF GainsNone, Same
    <3>2. ~(u = t /\ i = n)
      BY <1>2, <1>3 DEF Turns
    <3> QED BY <1>1, <1>2, <1>r, <2>1, <3>1, <3>2 DEF EngineInv, RendersOwn
  <2>2. ASSUME NEW u \in Threads, NEW i \in DOMAIN frames'[u], frames'[u][i].op = "render"
        PROVE  rendering'[frames'[u][i].renderer]
    BY <1>11, <1>f, <2>1, <2>2 DEF EngineInv, RendersOwn
  <2>3. ASSUME NEW u \in Threads, NEW i \in DOMAIN frames'[u], frames'[u][i].op = "render",
               NEW v \in Threads, NEW j \in DOMAIN frames'[v], frames'[v][j].op = "render",
               frames'[v][j].renderer = frames'[u][i].renderer
        PROVE  u = v /\ i = j
    <3>1. i \in DOMAIN frames[u] /\ frames'[u][i] = frames[u][i] /\ j \in DOMAIN frames[v] /\ frames'[v][j] = frames[v][j]
      BY <2>1, <2>3
    <3> QED BY <2>3, <3>1 DEF EngineInv, RendersOwn
  <2> QED BY <2>2, <2>3 DEF RendersOwn
<1>13. CallbacksSit'
  BY <1>3, <1>4, SitKept DEF EngineInv
<1>14. CallbacksRender'
  <2> SUFFICES ASSUME NEW u \in Threads, NEW i \in DOMAIN frames'[u], frames'[u][i].op \in Callbacks
               PROVE  /\ rendering'[frames'[u][i].renderer]
                      /\ frames'[u][i].op \notin Open => contexts'[frames'[u][i].context] = Null
    BY DEF CallbacksRender
  <2>1. i \in DOMAIN frames[u] /\ frames'[u][i] = frames[u][i]
    BY <1>6 DEF GainsNone, Same
  <2>2. frames[u][i].renderer \in Renderers \ {r}
    BY <1>9, <1>f, <2>1
  <2> QED BY <1>1, <1>11, <2>1, <2>2 DEF EngineInv, CallbacksRender
<1>15. HelpersOwn'
  <2> SUFFICES ASSUME NEW u \in Threads, NEW i \in DOMAIN frames'[u], frames'[u][i].op = "helper"
               PROVE  /\ frames'[u][i].context # 0 => contexts'[frames'[u][i].context] = frames'[u][i].renderer
                      /\ rendering'[frames'[u][i].renderer] /\ frames'[u][i].engine = engine'[frames'[u][i].renderer]
    BY DEF HelpersOwn
  <2>1. i \in DOMAIN frames[u] /\ frames'[u][i] = frames[u][i]
    BY <1>6 DEF GainsNone, Same
  <2>2. frames[u][i].renderer \in Renderers \ {r}
    BY <1>9, <1>f, <2>1
  <2> QED BY <1>1, <1>11, <2>1, <2>2 DEF EngineInv, HelpersOwn
<1>16. ContextsCalled' /\ ScopesCalled'
  BY <1>1, <1>5, CalledKept DEF EngineInv
<1>17. ScopesMatch'
  BY <1>1, <1>6, MatchKept DEF EngineInv
<1>18. DepthCounts'
  <2>1. \A q : CountedOf(q)' = CountedOf(q)
    BY <1>7, CountKept
  <2>2. Cardinality({}) = 0
    BY FS_EmptySet
  <2>3. \A q \in Renderers : callbackDepth'[q] = Cardinality(CountedOf(q))
    BY <1>9, <1>11, <2>2 DEF EngineInv, DepthCounts
  <2> QED BY <2>1, <2>3 DEF DepthCounts
<1> QED BY <1>10, <1>12, <1>13, <1>14, <1>15, <1>16, <1>17, <1>18 DEF EngineInv

\* While renders are only nested through contexts, render() is the oldest frame of its renderer.
LEMMA FinishingIsDeserted ==
    ASSUME RegistryInv, EngineInv, HelpersHaveContexts, NEW t \in Threads, FinishRender(t)
    PROVE  Deserted(Top(t).renderer)
<1>r. PICK r : r = Top(t).renderer
  OBVIOUS
<1>n. PICK n : n = Len(frames[t])
  OBVIOUS
<1>1. ~Idle(t) /\ Top(t).op = "render"
  BY DEF FinishRender, Running
<1>2. r \in Renderers /\ n \in Nat \ {0} /\ n \in DOMAIN frames[t] /\ Top(t) = frames[t][n] /\ DOMAIN frames[t] = 1..n
  BY <1>1, <1>r, <1>n, TopFits DEF RegistryInv, FrameFits, Top
<1>3. \A c : ~Calls(Callbacks, c, r)
  <2> SUFFICES ASSUME NEW c, Calls(Callbacks, c, r) PROVE FALSE
    OBVIOUS
  <2>1. PICK u \in Threads : \E i \in DOMAIN frames[u] :
           frames[u][i].op = "render" /\ frames[u][i].renderer = r /\ i + 1 \in DOMAIN frames[u]
    BY RenderBelow
  <2>2. PICK i \in DOMAIN frames[u] : frames[u][i].op = "render" /\ frames[u][i].renderer = r /\ i + 1 \in DOMAIN frames[u]
    BY <2>1
  <2>3. u = t /\ i = n
    BY <1>1, <1>2, <1>r, <2>2 DEF EngineInv, RendersOwn
  <2> QED BY <1>2, <2>2, <2>3
<1> SUFFICES ASSUME NEW u \in Threads, NEW i \in DOMAIN frames[u], frames[u][i].op \in Callbacks \cup {"helper"}, frames[u][i].renderer = r
             PROVE  FALSE
  BY <1>r DEF Deserted
<1>4. CASE frames[u][i].op \in Callbacks
  BY <1>3, <1>4 DEF Calls
<1>5. CASE frames[u][i].op = "helper"
  <2>1. PICK e : e = frames[u][i].context
    OBVIOUS
  <2>2. FrameFits(frames[u][i]) /\ contexts \in Seq(Renderers \cup {Null})
    BY DEF RegistryInv, FramesInv, StacksFit
  <2>3. contexts[e] = r /\ e \in DOMAIN contexts /\ contexts[e] # Null
    BY <1>2, <1>5, <2>1, <2>2, NullAssumption DEF EngineInv, HelpersOwn, HelpersHaveContexts, FrameFits
  <2>4. Calls(Open, e, r)
    BY <2>3 DEF EngineInv, ContextsCalled
  <2>5. Calls(Callbacks, e, r)
    BY <2>4 DEF Calls, Open, Callbacks
  <2> QED BY <1>3, <2>5
<1> QED BY <1>4, <1>5

LEMMA InvokeKeepsEngine ==
    ASSUME RegistryInv, RegistryInv', EngineInv, NEW t \in Threads, InvokeSectionLambda(t)
    PROVE  EngineInv'
<1>r. PICK r : r = Top(t).renderer
  OBVIOUS
<1>n. PICK n : n = Len(frames[t])
  OBVIOUS
<1>id. PICK id : id = Len(contexts) + 1
  OBVIOUS
<1>f. PICK f : f = UserFrame("callback", r, id, HandlesOf(t, id))
  OBVIOUS
<1>1. /\ ~Idle(t) /\ Top(t).op \in {"render", "helper"} /\ Len(contexts) < MaxContexts
      /\ rendering' = rendering /\ engine' = engine /\ callbackDepth' = [callbackDepth EXCEPT ![r] = @ + 1]
      /\ contexts' = Append(contexts, r) /\ EnterScope(id, r) /\ frames' = Pushed(t, f)
  BY <1>r, <1>id, <1>f DEF InvokeSectionLambda, Running
<1>2. r \in Renderers /\ n \in Nat \ {0} /\ n \in DOMAIN frames[t] /\ Top(t) = frames[t][n] /\ DOMAIN frames[t] = 1..n
  BY <1>1, <1>r, <1>n, TopFits DEF RegistryInv, FrameFits, Top
<1>3. f.op = "callback" /\ f.renderer = r /\ f.context = id
  BY <1>f DEF UserFrame, Frame
<1>4. Turns(t, n) /\ Len(frames'[t]) = n + 1 /\ frames'[t][n + 1] = f
  BY <1>1, <1>n, PushTurns DEF RegistryInv
<1>5. n + 1 \in DOMAIN frames'[t] /\ \A i \in DOMAIN frames'[t] : i > n => i = n + 1
  BY <1>4 DEF Turns
<1>6. LosesNone(Callbacks) /\ LosesNone(Counted) /\ LosesNone(Open)
  BY <1>n, <1>4, Loses
<1>7. GainsNone({"helper"}) /\ GainsNone({"render"})
  BY <1>3, <1>4, <1>5, Gains
<1>c. /\ contexts \in Seq(Renderers \cup {Null}) /\ Len(contexts) \in Nat /\ DOMAIN contexts = 1..Len(contexts)
      /\ DOMAIN contexts' = 1..id /\ contexts'[id] = r /\ \A c \in DOMAIN contexts : contexts'[c] = contexts[c]
  <2>1. contexts \in Seq(Renderers \cup {Null})
    BY DEF RegistryInv, FramesInv, StacksFit
  <2> QED BY <1>1, <1>2, <1>id, <2>1
<1>s. /\ DOMAIN scopes' = DOMAIN scopes \cup {id} /\ id \notin DOMAIN scopes
      /\ scopes'[id] = [renderer |-> r, engine |-> engine[r], previous |-> current]
      /\ \A s \in DOMAIN scopes : scopes'[s] = scopes[s]
  BY <1>1, <1>id, <1>c DEF EnterScope, RegistryInv, ScopesFit
<1>o. ASSUME NEW u \in Threads, NEW i \in DOMAIN frames'[u], frames'[u][i].op \in Callbacks
      PROVE  \/ u = t /\ i = n + 1 /\ frames'[u][i] = f
             \/ i \in DOMAIN frames[u] /\ frames'[u][i] = frames[u][i] /\ frames[u][i].context \in 1..Len(contexts)
  <2>1. CASE u = t /\ i = n + 1
    BY <1>4, <2>1
  <2>2. CASE ~(u = t /\ i = n + 1)
    <3>1. i \in DOMAIN frames[u] /\ frames'[u][i] = frames[u][i]
      BY <1>4, <1>5, <2>2, <1>n DEF Turns
    <3>2. FrameFits(frames[u][i])
      BY <3>1 DEF RegistryInv, FramesInv, StacksFit
    <3> QED BY <1>o, <1>c, <3>1, <3>2 DEF FrameFits
  <2> QED BY <2>1, <2>2
<1>8. Calls(Open, id, r)' /\ Calls(Counted, id, r)' /\ Calls(Callbacks, id, r)'
  BY <1>3, <1>4, <1>5 DEF Calls, Open, Counted, Callbacks
<1>9. rendering[r]
  BY <1>1, <1>2, <1>r DEF EngineInv, RendersOwn, HelpersOwn
<1>10. RenderersFit'
  BY <1>1 DEF EngineInv, RenderersFit
<1>11. RendersOwn'
  BY <1>1, <1>7, RendersKept DEF EngineInv
<1>12. CallbacksSit'
  <2>1. frames'[t][n] = Top(t) /\ (n + 1) - 1 = n
    BY <1>2, <1>4 DEF Turns
  <2> QED BY <1>r, <1>1, <1>2, <1>3, <1>4, <1>5, <2>1, SitKept DEF EngineInv
<1>13. CallbacksRender'
  <2> SUFFICES ASSUME NEW u \in Threads, NEW i \in DOMAIN frames'[u], frames'[u][i].op \in Callbacks
               PROVE  /\ rendering'[frames'[u][i].renderer]
                      /\ frames'[u][i].op \notin Open => contexts'[frames'[u][i].context] = Null
    BY DEF CallbacksRender
  <2> QED BY <1>o, <1>c, <1>1, <1>3, <1>9 DEF EngineInv, CallbacksRender, Open
<1>14. HelpersOwn'
  <2> SUFFICES ASSUME NEW u \in Threads, NEW i \in DOMAIN frames'[u], frames'[u][i].op = "helper"
               PROVE  /\ frames'[u][i].context # 0 => contexts'[frames'[u][i].context] = frames'[u][i].renderer
                      /\ rendering'[frames'[u][i].renderer] /\ frames'[u][i].engine = engine'[frames'[u][i].renderer]
    BY DEF HelpersOwn
  <2>1. i \in DOMAIN frames[u] /\ frames'[u][i] = frames[u][i]
    BY <1>7 DEF GainsNone, Same
  <2>2. FrameFits(frames[u][i])
    BY <2>1 DEF RegistryInv, FramesInv, StacksFit
  <2>3. /\ frames[u][i].context # 0 => contexts[frames[u][i].context] = frames[u][i].renderer
        /\ rendering[frames[u][i].renderer] /\ frames[u][i].engine = engine[frames[u][i].renderer]
    BY <2>1 DEF EngineInv, HelpersOwn
  <2>4. frames[u][i].context # 0 => frames[u][i].context \in DOMAIN contexts
    BY <1>c, <2>2, <2>3 DEF FrameFits
  <2> QED BY <1>1, <1>c, <2>1, <2>3, <2>4
<1>15. ContextsCalled'
  <2> SUFFICES ASSUME NEW c \in DOMAIN contexts', contexts'[c] # Null PROVE Calls(Open, c, contexts[c])'
    BY DEF ContextsCalled
  <2>1. CASE c = id
    BY <1>8, <1>c, <2>1 DEF Calls
  <2>2. CASE c # id
    <3>1. c \in DOMAIN contexts /\ contexts'[c] = contexts[c]
      BY <1>c, <1>id, <2>2
    <3>2. PICK q : q = contexts[c]
      OBVIOUS
    <3>3. Calls(Open, c, q)
      BY <3>1, <3>2 DEF EngineInv, ContextsCalled
    <3>4. Calls(Open, c, q)'
      BY <1>6, <3>3, CallsKept
    <3> QED BY <3>1, <3>2, <3>4 DEF Calls
  <2> QED BY <2>1, <2>2
<1>16. ScopesCalled'
  <2> SUFFICES ASSUME NEW s \in DOMAIN scopes'
               PROVE  Calls(Callbacks, s, scopes[s].renderer)' /\ scopes'[s].engine = engine'[scopes'[s].renderer]
    BY DEF ScopesCalled
  <2>1. CASE s = id
    <3>1. scopes'[s].renderer = r /\ scopes'[s].engine = engine[r]
      BY <1>s, <2>1
    <3> QED BY <1>1, <1>8, <2>1, <3>1 DEF Calls
  <2>2. CASE s # id
    <3>1. s \in DOMAIN scopes /\ scopes'[s] = scopes[s]
      BY <1>s, <2>2
    <3>2. PICK q : q = scopes[s].renderer
      OBVIOUS
    <3>3. Calls(Callbacks, s, q) /\ scopes[s].engine = engine[q]
      BY <3>1, <3>2 DEF EngineInv, ScopesCalled
    <3>4. Calls(Callbacks, s, q)'
      BY <1>6, <3>3, CallsKept
    <3> QED BY <1>1, <3>1, <3>2, <3>3, <3>4 DEF Calls
  <2> QED BY <2>1, <2>2
<1>17. ScopesMatch'
  <2> SUFFICES ASSUME NEW u \in Threads, NEW i \in DOMAIN frames'[u], frames'[u][i].op \in Callbacks
               PROVE  scopes'[frames'[u][i].context].renderer = frames'[u][i].renderer
    BY DEF ScopesMatch
  <2>1. CASE u = t /\ i = n + 1 /\ frames'[u][i] = f
    BY <1>s, <1>3, <2>1
  <2>2. CASE i \in DOMAIN frames[u] /\ frames'[u][i] = frames[u][i]
    BY <1>s, <2>2 DEF EngineInv, ScopesMatch, RegistryInv, CallbacksLinked
  <2> QED BY <1>o, <2>1, <2>2
<1>18. DepthCounts'
  <2>1. id \in Ids
    BY <1>id, <1>c, <1>1, BoundsAssumption DEF Ids
  <2>2. ASSUME NEW c \in Ids, NEW q PROVE Calls(Counted, c, q)' <=> Calls(Counted, c, q) \/ (c = id /\ q = r)
    <3>1. ASSUME Calls(Counted, c, q)' PROVE Calls(Counted, c, q) \/ (c = id /\ q = r)
      <4>1. PICK u \in Threads : \E i \in DOMAIN frames'[u] :
               frames'[u][i].op \in Counted /\ frames'[u][i].context = c /\ frames'[u][i].renderer = q
        BY <3>1 DEF Calls
      <4>2. PICK i \in DOMAIN frames'[u] : frames'[u][i].op \in Counted /\ frames'[u][i].context = c /\ frames'[u][i].renderer = q
        BY <4>1
      <4>3. frames'[u][i].op \in Callbacks
        BY <4>2 DEF Counted, Callbacks
      <4> QED BY <1>o, <1>3, <4>2, <4>3 DEF Calls
    <3>2. Calls(Counted, c, q) => Calls(Counted, c, q)'
      BY <1>6, CallsKept
    <3> QED BY <1>8, <3>1, <3>2
  <2>3. ~Calls(Counted, id, r)
    BY <1>id, <1>c DEF Calls, RegistryInv, FramesInv, StacksFit, FrameFits
  <2>4. CountedOf(r)' = CountedOf(r) \cup {id} /\ id \notin CountedOf(r)
    BY <2>1, <2>2, <2>3 DEF CountedOf
  <2>5. \A q \in Renderers \ {r} : CountedOf(q)' = CountedOf(q)
    BY <2>2 DEF CountedOf
  <2>6. IsFiniteSet(CountedOf(r))
    <3>1. IsFiniteSet(Ids)
      BY FS_Interval, BoundsAssumption DEF Ids
    <3> QED BY <3>1, FS_Subset DEF CountedOf
  <2>7. PICK s : s = CountedOf(r)
    OBVIOUS
  <2>8. Cardinality(s \cup {id}) = Cardinality(s) + 1
    BY <2>4, <2>6, <2>7, FS_AddElement
  <2>9. callbackDepth'[r] = callbackDepth[r] + 1 /\ \A q \in Renderers \ {r} : callbackDepth'[q] = callbackDepth[q]
    BY <1>1, <1>2 DEF EngineInv, RenderersFit
  <2>10. callbackDepth'[r] = Cardinality(CountedOf(r)')
    BY <1>2, <2>4, <2>7, <2>8, <2>9 DEF EngineInv, DepthCounts
  <2> QED BY <2>5, <2>9, <2>10 DEF EngineInv, DepthCounts
<1> QED BY <1>10, <1>11, <1>12, <1>13, <1>14, <1>15, <1>16, <1>17, <1>18 DEF EngineInv

\* The newest frame, a callback's, takes its next stage.
Recast(t, op) ==
    /\ ~Idle(t) /\ Top(t).op \in Callbacks /\ op \in Callbacks
    /\ \A u \in Threads : DOMAIN frames'[u] = DOMAIN frames[u]
    /\ \A u \in Threads : \A i \in DOMAIN frames[u] : ~(u = t /\ i = Len(frames[t])) => frames'[u][i] = frames[u][i]
    /\ frames'[t][Len(frames[t])].op = op /\ frames'[t][Len(frames[t])].context = Top(t).context
    /\ frames'[t][Len(frames[t])].renderer = Top(t).renderer /\ frames'[t][Len(frames[t])].handles = Top(t).handles

LEMMA BecameRecasts ==
    ASSUME RegistryInv, NEW t \in Threads, ~Idle(t), Top(t).op \in Callbacks, NEW op \in Callbacks, frames' = Became(t, op)
    PROVE  Recast(t, op) /\ Turns(t, Len(frames[t]) - 1) /\ Len(frames'[t]) = Len(frames[t])
<1>1. PICK f : f = [Top(t) EXCEPT !.op = op]
  OBVIOUS
<1>2. /\ f.op = op /\ f.context = Top(t).context /\ f.renderer = Top(t).renderer /\ f.handles = Top(t).handles
      /\ Len(frames[t]) \in Nat \ {0}
  BY <1>1, TopFits DEF RegistryInv, FrameFits, IsFrame
<1>3. frames' = [frames EXCEPT ![t] = [frames[t] EXCEPT ![Len(frames[t])] = f]]
  BY <1>1 DEF Became, Top
<1>4. Turns(t, Len(frames[t]) - 1) /\ Len(frames'[t]) = Len(frames[t]) /\ frames'[t][Len(frames[t])] = f
  BY <1>3, PutTurns DEF RegistryInv
<1>5. \A u \in Threads : DOMAIN frames'[u] = DOMAIN frames[u]
  BY <1>4 DEF Turns
<1>6. \A u \in Threads : \A i \in DOMAIN frames[u] : ~(u = t /\ i = Len(frames[t])) => frames'[u][i] = frames[u][i]
  BY <1>4 DEF Turns
<1> QED BY <1>2, <1>4, <1>5, <1>6 DEF Recast

\* What every such stage leaves alone.
LEMMA RecastKeeps ==
    ASSUME RegistryInv, EngineInv, NEW t \in Threads, NEW op, Recast(t, op), Turns(t, Len(frames[t]) - 1),
           Len(frames'[t]) = Len(frames[t]), rendering' = rendering, engine' = engine, scopes' = scopes,
           NEW c, c = Top(t).context
    PROVE  /\ RendersOwn' /\ CallbacksSit' /\ ScopesCalled' /\ ScopesMatch'
           /\ \A d, r, ops : d # c => (Calls(ops, d, r) <=> Calls(ops, d, r)')
           /\ \A r : \A ops \in SUBSET Callbacks : /\ Calls(ops, c, r)' <=> op \in ops /\ r = Top(t).renderer
                                                   /\ Calls(ops, c, r) <=> Top(t).op \in ops /\ r = Top(t).renderer
<1>n. PICK n : n = Len(frames[t])
  OBVIOUS
<1>c. c = Top(t).context
  OBVIOUS
<1>1. n \in Nat \ {0} /\ n \in DOMAIN frames[t] /\ Top(t) = frames[t][n] /\ DOMAIN frames[t] = 1..n
  BY <1>n, TopFits DEF RegistryInv, Top, Recast
<1>2. /\ Top(t).op \in Callbacks /\ op \in Callbacks /\ \A u \in Threads : DOMAIN frames'[u] = DOMAIN frames[u]
      /\ \A u \in Threads : \A i \in DOMAIN frames[u] : ~(u = t /\ i = n) => frames'[u][i] = frames[u][i]
      /\ frames'[t][n].op = op /\ frames'[t][n].context = c /\ frames'[t][n].renderer = Top(t).renderer
  BY <1>n, <1>c DEF Recast
<1>3. GainsNone({"render"})
  BY <1>2 DEF GainsNone, Same, Callbacks
<1>4. RendersOwn'
  BY <1>3, RendersKept DEF EngineInv
<1>5. CallbacksSit'
  <2> SUFFICES ASSUME NEW u \in Threads, NEW i \in DOMAIN frames'[u], frames'[u][i].op \in Callbacks
               PROVE  i > 1 /\ frames'[u][i - 1].op \in {"render", "helper"} /\ frames'[u][i - 1].renderer = frames'[u][i].renderer
    BY DEF CallbacksSit
  <2>1. i \in DOMAIN frames[u] /\ frames[u][i].op \in Callbacks /\ frames[u][i].renderer = frames'[u][i].renderer
    BY <1>1, <1>2
  <2>2. i > 1 /\ frames[u][i - 1].op \in {"render", "helper"} /\ frames[u][i - 1].renderer = frames[u][i].renderer
    BY <2>1 DEF EngineInv, CallbacksSit
  <2>3. i - 1 \in DOMAIN frames[u]
    BY <2>1, <2>2, StackShape DEF RegistryInv, FramesInv
  <2>4. ~(u = t /\ i - 1 = n)
    BY <1>1, <1>2, <2>2 DEF Callbacks
  <2> QED BY <1>2, <2>1, <2>2, <2>3, <2>4
<1>6. ASSUME NEW u \in Threads, NEW i \in DOMAIN frames[u], ~(u = t /\ i = n), frames[u][i].op \in Callbacks \/ frames'[u][i].op \in Callbacks
      PROVE  frames[u][i].context # c /\ frames'[u][i].context # c
  BY <1>1, <1>2, <1>6, <1>c DEF RegistryInv, FramesInv, CallbacksOwn
<1>7. ASSUME NEW d, NEW r, d # c, NEW ops PROVE Calls(ops, d, r) <=> Calls(ops, d, r)'
  <2>1. ASSUME NEW u \in Threads, NEW i \in DOMAIN frames[u]
        PROVE  (frames[u][i].op \in ops /\ frames[u][i].context = d /\ frames[u][i].renderer = r)
               <=> (frames'[u][i].op \in ops /\ frames'[u][i].context = d /\ frames'[u][i].renderer = r)
    BY <1>c, <1>1, <1>2, <1>7
  <2> QED BY <1>2, <2>1 DEF Calls
<1>8. ASSUME NEW ops \in SUBSET Callbacks, NEW r
      PROVE  /\ Calls(ops, c, r)' <=> op \in ops /\ r = Top(t).renderer
             /\ Calls(ops, c, r) <=> Top(t).op \in ops /\ r = Top(t).renderer
  <2>1. Calls(ops, c, r)' <=> op \in ops /\ r = Top(t).renderer
    BY <1>1, <1>2, <1>6 DEF Calls
  <2>2. Calls(ops, c, r) <=> Top(t).op \in ops /\ r = Top(t).renderer
    BY <1>c, <1>1, <1>2, <1>6 DEF Calls
  <2> QED BY <2>1, <2>2
<1>9. ScopesCalled'
  <2> SUFFICES ASSUME NEW s \in DOMAIN scopes
               PROVE  Calls(Callbacks, s, scopes[s].renderer)' /\ scopes'[s].engine = engine'[scopes'[s].renderer]
    BY DEF ScopesCalled
  <2>1. PICK q : q = scopes[s].renderer
    OBVIOUS
  <2>2. Calls(Callbacks, s, q) /\ scopes[s].engine = engine[q]
    BY <2>1 DEF EngineInv, ScopesCalled
  <2>3. Calls(Callbacks, s, q)'
    BY <1>2, <1>7, <1>8, <2>2
  <2> QED BY <2>1, <2>2, <2>3 DEF Calls
<1>10. ScopesMatch'
  <2> SUFFICES ASSUME NEW u \in Threads, NEW i \in DOMAIN frames'[u], frames'[u][i].op \in Callbacks
               PROVE  scopes'[frames'[u][i].context].renderer = frames'[u][i].renderer
    BY DEF ScopesMatch
  <2>1. /\ i \in DOMAIN frames[u] /\ frames[u][i].op \in Callbacks /\ frames[u][i].renderer = frames'[u][i].renderer
        /\ frames[u][i].context = frames'[u][i].context
    BY <1>1, <1>2, <1>c
  <2> QED BY <2>1 DEF EngineInv, ScopesMatch
<1> QED BY <1>4, <1>5, <1>7, <1>8, <1>9, <1>10

LEMMA StageKeeps ==
    ASSUME RegistryInv, RegistryInv', EngineInv, NEW t \in Threads, NEW op, Recast(t, op), Turns(t, Len(frames[t]) - 1),
           Len(frames'[t]) = Len(frames[t]), rendering' = rendering, engine' = engine, scopes' = scopes,
           NEW c, c = Top(t).context, DOMAIN contexts' = DOMAIN contexts, \A d \in DOMAIN contexts : d # c => contexts'[d] = contexts[d],
           contexts'[c] \in {contexts[c], Null}, op \notin Open => contexts'[c] = Null
    PROVE  CallbacksRender' /\ HelpersOwn' /\ ContextsCalled'
<1>n. PICK n : n = Len(frames[t])
  OBVIOUS
<1>1. n \in Nat \ {0} /\ n \in DOMAIN frames[t] /\ Top(t) = frames[t][n] /\ DOMAIN frames[t] = 1..n
  BY <1>n, TopFits DEF RegistryInv, Top, Recast
<1>2. /\ Top(t).op \in Callbacks /\ op \in Callbacks /\ \A u \in Threads : DOMAIN frames'[u] = DOMAIN frames[u]
      /\ \A u \in Threads : \A i \in DOMAIN frames[u] : ~(u = t /\ i = n) => frames'[u][i] = frames[u][i]
      /\ frames'[t][n].op = op /\ frames'[t][n].context = c /\ frames'[t][n].renderer = Top(t).renderer
  BY <1>n DEF Recast
<1>3. /\ contexts \in Seq(Renderers \cup {Null}) /\ DOMAIN contexts = 1..Len(contexts)
      /\ \A u \in Threads : \A i \in DOMAIN frames[u] : FrameFits(frames[u][i])
  BY DEF RegistryInv, FramesInv, StacksFit
<1>7. \A x : \A ops \in SUBSET Callbacks : /\ Calls(ops, c, x)' <=> op \in ops /\ x = Top(t).renderer
                                           /\ Calls(ops, c, x) <=> Top(t).op \in ops /\ x = Top(t).renderer
  BY RecastKeeps
<1>4. CallbacksRender'
  <2> SUFFICES ASSUME NEW u \in Threads, NEW i \in DOMAIN frames'[u], frames'[u][i].op \in Callbacks
               PROVE  /\ rendering'[frames'[u][i].renderer]
                      /\ frames'[u][i].op \notin Open => contexts'[frames'[u][i].context] = Null
    BY DEF CallbacksRender
  <2>1. CASE u = t /\ i = n
    BY <1>1, <1>2, <2>1 DEF EngineInv, CallbacksRender
  <2>2. CASE ~(u = t /\ i = n)
    <3>1. i \in DOMAIN frames[u] /\ frames'[u][i] = frames[u][i]
      BY <1>2, <2>2
    <3>2. frames[u][i].context \in DOMAIN contexts
      BY <1>3, <3>1 DEF FrameFits
    <3> QED BY <3>1, <3>2 DEF EngineInv, CallbacksRender
  <2> QED BY <2>1, <2>2
<1>5. HelpersOwn'
  <2> SUFFICES ASSUME NEW u \in Threads, NEW i \in DOMAIN frames'[u], frames'[u][i].op = "helper"
               PROVE  /\ frames'[u][i].context # 0 => contexts'[frames'[u][i].context] = frames'[u][i].renderer
                      /\ rendering'[frames'[u][i].renderer] /\ frames'[u][i].engine = engine'[frames'[u][i].renderer]
    BY DEF HelpersOwn
  <2>1. i \in DOMAIN frames[u] /\ frames'[u][i] = frames[u][i]
    BY <1>2 DEF Callbacks
  <2>2. /\ frames[u][i].context # 0 => contexts[frames[u][i].context] = frames[u][i].renderer
        /\ rendering[frames[u][i].renderer] /\ frames[u][i].engine = engine[frames[u][i].renderer]
    BY <2>1 DEF EngineInv, HelpersOwn
  <2>3. frames[u][i].context # 0 => frames[u][i].context \in DOMAIN contexts
    BY <1>3, <2>1, <2>2 DEF FrameFits
  <2>4. frames[u][i].context # 0 => contexts'[frames'[u][i].context] # Null
    BY <2>1 DEF RegistryInv, FramesInv, HelpersGranted
  <2> QED BY <2>1, <2>2, <2>3, <2>4
<1>6. ContextsCalled'
  <2> SUFFICES ASSUME NEW d \in DOMAIN contexts, contexts'[d] # Null PROVE Calls(Open, d, contexts[d])'
    BY DEF ContextsCalled
  <2>1. PICK q : q = contexts[d]
    OBVIOUS
  <2>2. contexts[d] = contexts'[d]
    OBVIOUS
  <2>3. Calls(Open, d, q)
    BY <2>1, <2>2 DEF EngineInv, ContextsCalled
  <2>4. Calls(Open, d, q)'
    <3>1. CASE d # c
      BY <2>3, <3>1, RecastKeeps
    <3>2. CASE d = c
      <4>1. op \in Open
        BY <3>2
      <4>2. \A x : \A ops \in SUBSET Callbacks : /\ Calls(ops, c, x)' <=> op \in ops /\ x = Top(t).renderer
                                                 /\ Calls(ops, c, x) <=> Top(t).op \in ops /\ x = Top(t).renderer
        BY <1>7
      <4>3. Open \in SUBSET Callbacks
        BY DEF Open, Callbacks
      <4>4. Calls(Open, c, q)' <=> op \in Open /\ q = Top(t).renderer
        BY <4>2, <4>3
      <4>5. Calls(Open, c, q) => q = Top(t).renderer
        BY <4>2, <4>3
      <4>6. Calls(Open, c, q)'
        BY <2>3, <3>2, <4>1, <4>4, <4>5
      <4> QED BY <3>2, <4>6
    <3> QED BY <3>1, <3>2
  <2> QED BY <2>1, <2>2, <2>4 DEF Calls
<1> QED BY <1>4, <1>5, <1>6

LEMMA StagesKeep ==
    ASSUME RegistryInv, RegistryInv', EngineInv, NEW t \in Threads,
           ReturnFromCallback(t) \/ Invalidate(t) \/ LeaveCallback(t)
    PROVE  EngineInv'
<1>r. PICK r : r = Top(t).renderer
  OBVIOUS
<1>c. PICK c : c = Top(t).context
  OBVIOUS
<1>1. PICK op \in {"returning", "invalidated", "unlinking"} :
         /\ frames' = Became(t, op) /\ ~Idle(t)
         /\ \/ Top(t).op = "callback" /\ op = "returning" /\ contexts' = contexts /\ callbackDepth' = callbackDepth
            \/ Top(t).op = "returning" /\ op = "invalidated" /\ contexts' = [contexts EXCEPT ![c] = Null] /\ callbackDepth' = callbackDepth
            \/ /\ Top(t).op = "invalidated" /\ op = "unlinking" /\ contexts' = contexts
               /\ callbackDepth' = [callbackDepth EXCEPT ![r] = @ - 1]
  BY <1>r, <1>c DEF ReturnFromCallback, Invalidate, LeaveCallback, Running, renderers
<1>2. rendering' = rendering /\ engine' = engine /\ scopes' = scopes
  BY DEF ReturnFromCallback, Invalidate, LeaveCallback, renderers, registry
<1>3. op \in Callbacks /\ Top(t).op \in Callbacks
  BY <1>1 DEF Callbacks
<1>4. Recast(t, op) /\ Turns(t, Len(frames[t]) - 1) /\ Len(frames'[t]) = Len(frames[t])
  BY <1>1, <1>3, BecameRecasts
<1>5. Len(frames[t]) \in DOMAIN frames[t] /\ Top(t) = frames[t][Len(frames[t])] /\ r \in Renderers /\ FrameFits(Top(t))
  BY <1>1, <1>r, TopFits DEF RegistryInv, FrameFits, Top
<1>6. c \in DOMAIN contexts /\ contexts \in Seq(Renderers \cup {Null}) /\ c \in Ids
  BY <1>1, <1>c, <1>3, <1>5, BoundsAssumption DEF FrameFits, RegistryInv, FramesInv, StacksFit, ScopesFit, Ids
<1>7. /\ DOMAIN contexts' = DOMAIN contexts /\ \A d \in DOMAIN contexts : d # c => contexts'[d] = contexts[d]
      /\ contexts'[c] \in {contexts[c], Null} /\ (op \notin Open => contexts'[c] = Null)
  <2>1. op = "unlinking" => contexts[c] = Null
    BY <1>1, <1>c, <1>3, <1>5 DEF EngineInv, CallbacksRender, Open
  <2> QED BY <1>1, <1>6, <2>1 DEF Open
<1>8. CallbacksRender' /\ HelpersOwn' /\ ContextsCalled'
  BY <1>2, <1>4, <1>7, <1>c, StageKeeps
<1>9. RendersOwn' /\ CallbacksSit' /\ ScopesCalled' /\ ScopesMatch'
  BY <1>2, <1>4, <1>c, RecastKeeps
<1>10. RenderersFit'
  BY <1>1, <1>2 DEF EngineInv, RenderersFit
<1>11. /\ \A d, q : d # c => (Calls(Counted, d, q) <=> Calls(Counted, d, q)')
       /\ \A q : Calls(Counted, c, q)' <=> op \in Counted /\ q = r
       /\ \A q : Calls(Counted, c, q) <=> q = r
  <2>1. Counted \in SUBSET Callbacks
    BY DEF Counted, Callbacks
  <2>2. Top(t).op \in Counted
    BY <1>1 DEF Counted
  <2>3. /\ \A d, q, ops : d # c => (Calls(ops, d, q) <=> Calls(ops, d, q)')
        /\ \A q : \A ops \in SUBSET Callbacks : /\ Calls(ops, c, q)' <=> op \in ops /\ q = Top(t).renderer
                                                /\ Calls(ops, c, q) <=> Top(t).op \in ops /\ q = Top(t).renderer
    BY <1>2, <1>4, <1>c, RecastKeeps
  <2>4. \A q : /\ Calls(Counted, c, q)' <=> op \in Counted /\ q = Top(t).renderer
               /\ Calls(Counted, c, q) <=> Top(t).op \in Counted /\ q = Top(t).renderer
    BY <2>1, <2>3
  <2>5. \A d, q : d # c => (Calls(Counted, d, q) <=> Calls(Counted, d, q)')
    BY <2>3
  <2> QED BY <1>r, <2>2, <2>4, <2>5
<1>12. DepthCounts'
  <2>1. CASE op # "unlinking"
    <3>1. op \in Counted /\ callbackDepth' = callbackDepth
      BY <1>1, <2>1 DEF Counted
    <3>2. \A q : CountedOf(q)' = CountedOf(q)
      BY <1>11, <3>1 DEF CountedOf
    <3> QED BY <3>1, <3>2, DepthKept DEF EngineInv
  <2>2. CASE op = "unlinking"
    <3>1. op \notin Counted /\ callbackDepth' = [callbackDepth EXCEPT ![r] = @ - 1]
      BY <1>1, <2>2 DEF Counted
    <3>2. CountedOf(r)' = CountedOf(r) \ {c} /\ c \in CountedOf(r)
      BY <1>6, <1>11, <3>1 DEF CountedOf
    <3>3. \A q \in Renderers \ {r} : CountedOf(q)' = CountedOf(q)
      BY <1>11, <3>1 DEF CountedOf
    <3>4. IsFiniteSet(CountedOf(r))
      <4>1. IsFiniteSet(Ids)
        BY FS_Interval, BoundsAssumption DEF Ids
      <4> QED BY <4>1, FS_Subset DEF CountedOf
    <3>5. PICK s : s = CountedOf(r)
      OBVIOUS
    <3>6. Cardinality(s \ {c}) = Cardinality(s) - 1
      BY <3>2, <3>4, <3>5, FS_RemoveElement
    <3>7. callbackDepth'[r] = callbackDepth[r] - 1 /\ \A q \in Renderers \ {r} : callbackDepth'[q] = callbackDepth[q]
      BY <1>5, <3>1 DEF EngineInv, RenderersFit
    <3>8. callbackDepth'[r] = Cardinality(CountedOf(r)')
      BY <1>5, <3>2, <3>5, <3>6, <3>7 DEF EngineInv, DepthCounts
    <3> QED BY <3>3, <3>7, <3>8 DEF EngineInv, DepthCounts
  <2> QED BY <2>1, <2>2
<1> QED BY <1>8, <1>9, <1>10, <1>12 DEF EngineInv

LEMMA LeaveScopeKeepsEngine ==
    ASSUME RegistryInv, RegistryInv', EngineInv, NEW t \in Threads, LeaveScope(t)
    PROVE  EngineInv'
<1>n. PICK n : n = Len(frames[t])
  OBVIOUS
<1>c. PICK c : c = Top(t).context
  OBVIOUS
<1>1. /\ ~Idle(t) /\ Top(t).op = "unlinking" /\ Unlink(c) /\ frames' = Popped(t)
      /\ rendering' = rendering /\ callbackDepth' = callbackDepth /\ engine' = engine /\ contexts' = contexts
  BY <1>c DEF LeaveScope, Running, renderers
<1>2. n \in Nat \ {0} /\ n \in DOMAIN frames[t] /\ Top(t) = frames[t][n] /\ DOMAIN frames[t] = 1..n
  BY <1>1, <1>n, TopFits DEF RegistryInv, Top
<1>3. Turns(t, n - 1) /\ Len(frames'[t]) = n - 1
  BY <1>1, <1>n, PopTurns DEF RegistryInv
<1>4. \A i \in DOMAIN frames'[t] : ~(i > n - 1)
  BY <1>3 DEF Turns
<1>5. LosesNone(Counted) /\ LosesNone(Open)
  BY <1>1, <1>3, Loses DEF Counted, Open
<1>6. GainsNone(Callbacks) /\ GainsNone({"helper"}) /\ GainsNone({"render"}) /\ GainsNone(Counted)
  BY <1>3, <1>4, Gains
<1>7. /\ DOMAIN scopes' = DOMAIN scopes \ {c}
      /\ \A s \in DOMAIN scopes' : scopes'[s].renderer = scopes[s].renderer /\ scopes'[s].engine = scopes[s].engine
  <2>1. \A s \in DOMAIN scopes :
           scopes[s] = [renderer |-> scopes[s].renderer, engine |-> scopes[s].engine, previous |-> scopes[s].previous]
    BY DEF RegistryInv, ScopesFit
  <2>2. PICK q : q = scopes[c].previous
    OBVIOUS
  <2>3. /\ DOMAIN scopes' = DOMAIN scopes \ {c}
        /\ \A s \in DOMAIN scopes \ {c} :
              scopes'[s] = [scopes[s] EXCEPT !.previous = IF scopes[s].previous = c THEN q ELSE scopes[s].previous]
    BY <1>1, <2>2 DEF Unlink
  <2> QED BY <2>1, <2>3
<1>8. ContextsCalled'
  <2> SUFFICES ASSUME NEW d \in DOMAIN contexts, contexts[d] # Null PROVE Calls(Open, d, contexts[d])'
    BY <1>1 DEF ContextsCalled
  <2>1. PICK q : q = contexts[d]
    OBVIOUS
  <2>2. Calls(Open, d, q)
    BY <2>1 DEF EngineInv, ContextsCalled
  <2>3. Calls(Open, d, q)'
    BY <1>5, <2>2, CallsKept
  <2> QED BY <1>1, <2>1, <2>3 DEF Calls
<1>9. ScopesCalled'
  <2> SUFFICES ASSUME NEW s \in DOMAIN scopes'
               PROVE  Calls(Callbacks, s, scopes[s].renderer)' /\ scopes'[s].engine = engine'[scopes'[s].renderer]
    BY DEF ScopesCalled
  <2>1. PICK q : q = scopes[s].renderer
    OBVIOUS
  <2>2. Calls(Callbacks, s, q) /\ scopes[s].engine = engine[q] /\ s # c
    BY <1>7, <2>1 DEF EngineInv, ScopesCalled
  <2>3. PICK u \in Threads : \E i \in DOMAIN frames[u] :
           frames[u][i].op \in Callbacks /\ frames[u][i].context = s /\ frames[u][i].renderer = q
    BY <2>2 DEF Calls
  <2>4. PICK i \in DOMAIN frames[u] : frames[u][i].op \in Callbacks /\ frames[u][i].context = s /\ frames[u][i].renderer = q
    BY <2>3
  <2>5. i \in DOMAIN frames'[u] /\ frames'[u][i] = frames[u][i]
    <3>1. ~(u = t /\ i = n)
      BY <1>2, <1>c, <2>2, <2>4
    <3> QED BY <1>2, <1>3, <3>1 DEF Turns
  <2>6. Calls(Callbacks, s, q)'
    BY <2>4, <2>5 DEF Calls
  <2> QED BY <1>1, <1>7, <2>1, <2>2, <2>6 DEF Calls
<1>10. ScopesMatch'
  <2> SUFFICES ASSUME NEW u \in Threads, NEW i \in DOMAIN frames'[u], frames'[u][i].op \in Callbacks
               PROVE  scopes'[frames'[u][i].context].renderer = frames'[u][i].renderer
    BY DEF ScopesMatch
  <2>1. i \in DOMAIN frames[u] /\ frames'[u][i] = frames[u][i]
    BY <1>6 DEF GainsNone, Same
  <2>2. frames'[u][i].context \in DOMAIN scopes'
    BY DEF RegistryInv, CallbacksLinked
  <2> QED BY <1>7, <2>1, <2>2 DEF EngineInv, ScopesMatch
<1>11. RendersOwn' /\ HelpersOwn' /\ CallbacksRender'
  BY <1>1, <1>6, RendersKept, HelpersKept, CallbacksRenderKept DEF EngineInv
<1>12. CallbacksSit'
  BY <1>3, <1>4, SitKept DEF EngineInv
<1>13. DepthCounts'
  BY <1>1, <1>5, <1>6, CountKept, DepthKept DEF EngineInv
<1>14. RenderersFit'
  BY <1>1 DEF EngineInv, RenderersFit
<1> QED BY <1>8, <1>9, <1>10, <1>11, <1>12, <1>13, <1>14 DEF EngineInv

\* renderForLambda runs in the engine that the registry names for the renderer: the current one.
LEMMA HelperKeeps ==
    ASSUME RegistryInv, EngineInv, NEW t \in Threads, NEW m, Turns(t, m), m = Len(frames[t]) \/ Top(t).op \notin Callbacks,
           NEW r, NEW c, Len(frames'[t]) = m + 1, frames'[t][m + 1] = HelperFrame(r, c),
           HelperAllowed(r), c # 0 => contexts[c] = r, UNCHANGED <<renderers, contexts, registry>>
    PROVE  EngineInv'
<1>f. PICK f : f = HelperFrame(r, c)
  OBVIOUS
<1>1. f.op = "helper" /\ f.context = c /\ f.renderer = r /\ f.engine = scopes[FindScope(r)].engine
  BY <1>f DEF HelperFrame, Frame
<1>2. f.engine = engine[r] /\ rendering[r]
  <2>1. PICK s : s = FindScope(r)
    OBVIOUS
  <2>2. s \in DOMAIN scopes /\ scopes[s].renderer = r
    BY <2>1, FindsScope DEF HelperAllowed
  <2> QED BY <1>1, <2>1, <2>2 DEF EngineInv, ScopesCalled, HelperAllowed
<1>3. frames'[t][m + 1] = f /\ \A i \in DOMAIN frames'[t] : i > m => i = m + 1
  BY <1>f DEF Turns
<1>4. /\ rendering' = rendering /\ callbackDepth' = callbackDepth /\ engine' = engine
      /\ contexts' = contexts /\ scopes' = scopes
  BY DEF renderers, registry
<1>5. GainsNone(Callbacks) /\ GainsNone({"render"}) /\ LosesNone(Callbacks)
  BY <1>1, <1>3, Gains, Loses DEF Callbacks
<1>6. GainsNone(Counted) /\ LosesNone(Counted)
  BY <1>5 DEF GainsNone, LosesNone, Counted, Callbacks
<1>7. HelpersOwn'
  <2> SUFFICES ASSUME NEW u \in Threads, NEW i \in DOMAIN frames'[u], frames'[u][i].op = "helper"
               PROVE  /\ frames'[u][i].context # 0 => contexts'[frames'[u][i].context] = frames'[u][i].renderer
                      /\ rendering'[frames'[u][i].renderer] /\ frames'[u][i].engine = engine'[frames'[u][i].renderer]
    BY DEF HelpersOwn
  <2>1. CASE u = t /\ i = m + 1
    BY <1>1, <1>2, <1>3, <1>4, <2>1
  <2>2. CASE ~(u = t /\ i = m + 1)
    <3>1. i \in DOMAIN frames[u] /\ frames'[u][i] = frames[u][i]
      BY <1>3, <2>2 DEF Turns
    <3> QED BY <1>4, <3>1 DEF EngineInv, HelpersOwn
  <2> QED BY <2>1, <2>2
<1>8. CallbacksSit'
  BY <1>1, <1>3, SitKept DEF EngineInv, Callbacks
<1>9. RendersOwn' /\ CallbacksRender' /\ ContextsCalled' /\ ScopesCalled' /\ ScopesMatch'
  BY <1>4, <1>5, RendersKept, CallbacksRenderKept, CalledKept, MatchKept DEF EngineInv
<1>10. DepthCounts'
  BY <1>4, <1>6, CountKept, DepthKept DEF EngineInv
<1>11. RenderersFit'
  BY <1>4 DEF EngineInv, RenderersFit
<1> QED BY <1>7, <1>8, <1>9, <1>10, <1>11 DEF EngineInv

LEMMA EnterKeepsEngine ==
    ASSUME RegistryInv, EngineInv, NEW t \in Threads, RenderThroughContext(t)
    PROVE  EngineInv'
<1>n. PICK n : n = Len(frames[t])
  OBVIOUS
<1>c. PICK c : c = Top(t).context
  OBVIOUS
<1>r. PICK r : r = contexts[c]
  OBVIOUS
<1>f. PICK f : f = HelperFrame(r, c)
  OBVIOUS
<1>1. ~Idle(t) /\ Top(t).op = "locked" /\ UNCHANGED <<renderers, contexts, registry>>
  BY DEF RenderThroughContext, Running
<1>2. n \in Nat \ {0} /\ Top(t).op \notin Callbacks
  BY <1>1, <1>n, TopFits DEF RegistryInv, Callbacks
<1>3. CASE frames' = Popped(t)
  <2>1. Turns(t, n - 1) /\ Len(frames'[t]) = n - 1
    BY <1>1, <1>3, <1>n, PopTurns DEF RegistryInv
  <2>2. \A i \in DOMAIN frames'[t] : ~(i > n - 1)
    BY <2>1 DEF Turns
  <2> QED BY <1>1, <1>2, <2>1, <2>2, QuietKeeps
<1>4. CASE HelperAllowed(r) /\ frames' = [frames EXCEPT ![t] = [frames[t] EXCEPT ![n] = f]]
  <2>1. Turns(t, n - 1) /\ Len(frames'[t]) = n /\ frames'[t][n] = f
    BY <1>1, <1>4, <1>n, PutTurns DEF RegistryInv
  <2>2. (n - 1) + 1 = n
    BY <1>2
  <2>3. Len(frames'[t]) = (n - 1) + 1 /\ frames'[t][(n - 1) + 1] = HelperFrame(r, c)
    BY <1>f, <2>1, <2>2
  <2> QED BY <1>1, <1>2, <1>4, <1>r, <2>1, <2>3, HelperKeeps
<1> QED BY <1>3, <1>4, <1>n, <1>c, <1>r, <1>f DEF RenderThroughContext

LEMMA LegacyKeepsEngine ==
    ASSUME RegistryInv, EngineInv, NEW t \in Threads, LegacyRender(t)
    PROVE  EngineInv'
<1>n. PICK n : n = Len(frames[t])
  OBVIOUS
<1>r. PICK r : r = Top(t).renderer
  OBVIOUS
<1>f. PICK f : f = HelperFrame(r, 0)
  OBVIOUS
<1>1. HelperAllowed(r) /\ frames' = Pushed(t, f) /\ UNCHANGED <<renderers, contexts, registry>>
  BY <1>r, <1>f DEF LegacyRender
<1>2. Turns(t, n) /\ Len(frames'[t]) = n + 1 /\ frames'[t][n + 1] = HelperFrame(r, 0)
  BY <1>1, <1>n, <1>f, PushTurns DEF RegistryInv
<1> QED BY <1>1, <1>2, <1>n, HelperKeeps

LEMMA QuietStepsKeep ==
    ASSUME RegistryInv, EngineInv, NEW t \in Threads,
           \/ FinishHelper(t) \/ FinishWorker(t) \/ RenderTemplate(t) \/ LockContext(t)
           \/ \E c \in DOMAIN contexts, op \in Locking : CallRender(t, c, op)
           \/ \E hs \in SUBSET DOMAIN contexts, w \in Threads, mode \in HandoffModes : HandOver(t, w, hs, mode)
    PROVE  EngineInv'
<1>1. FramesInv
  BY DEF RegistryInv
<1>2. ASSUME NEW u \in Threads, ~Idle(u), frames' = Popped(u), Top(u).op \notin Callbacks, UNCHANGED <<renderers, contexts, registry>>
      PROVE  EngineInv'
  <2>1. Turns(u, Len(frames[u]) - 1) /\ Len(frames'[u]) = Len(frames[u]) - 1
    BY <1>1, <1>2, PopTurns
  <2>2. \A i \in DOMAIN frames'[u] : ~(i > Len(frames[u]) - 1)
    BY <2>1 DEF Turns
  <2> QED BY <1>2, <2>1, <2>2, QuietKeeps
<1>3. ASSUME NEW u \in Threads, NEW f, frames' = Pushed(u, f), f.op \notin Callbacks \cup {"render", "helper"},
             UNCHANGED <<renderers, contexts, registry>>
      PROVE  EngineInv'
  <2>1. Turns(u, Len(frames[u])) /\ Len(frames'[u]) = Len(frames[u]) + 1 /\ frames'[u][Len(frames[u]) + 1] = f
    BY <1>1, <1>3, PushTurns
  <2>2. \A i \in DOMAIN frames'[u] : i > Len(frames[u]) => i = Len(frames[u]) + 1
    BY <2>1 DEF Turns
  <2> QED BY <1>3, <2>1, <2>2, QuietKeeps
<1>4. CASE FinishHelper(t) \/ FinishWorker(t)
  <2>1. ~Idle(t) /\ frames' = Popped(t) /\ Top(t).op \notin Callbacks /\ UNCHANGED <<renderers, contexts, registry>>
    BY <1>4 DEF FinishHelper, FinishWorker, Running, Callbacks
  <2> QED BY <1>2, <2>1
<1>5. CASE RenderTemplate(t)
  <2>1. ~Idle(t) /\ Top(t).op \notin Callbacks /\ UNCHANGED <<renderers, contexts, registry>>
    BY <1>5 DEF RenderTemplate, Running, Callbacks
  <2>2. CASE frames' = Popped(t)
    BY <1>2, <2>1, <2>2
  <2>3. CASE /\ Turns(t, Len(frames[t]) - 1) /\ Len(frames'[t]) = Len(frames[t]) + 1 /\ Len(frames[t]) \in Nat \ {0}
             /\ frames'[t][Len(frames[t])].op = "templated" /\ frames'[t][Len(frames[t]) + 1].op = "lock"
    <3>1. \A i \in DOMAIN frames'[t] : i > Len(frames[t]) - 1 => i = Len(frames[t]) \/ i = Len(frames[t]) + 1
      BY <2>3 DEF Turns
    <3> QED BY <2>1, <2>3, <3>1, QuietKeeps DEF Callbacks
  <2> QED BY <1>1, <1>5, <2>2, <2>3, TemplateTurns
<1>6. ASSUME NEW c \in DOMAIN contexts, NEW op \in Locking, CallRender(t, c, op) PROVE EngineInv'
  <2>1. PICK f : f = Frame(op, Top(t).renderer, c)
    OBVIOUS
  <2>2. frames' = Pushed(t, f) /\ f.op = op /\ UNCHANGED <<renderers, contexts, registry>>
    BY <1>6, <2>1 DEF CallRender, Frame
  <2>3. f.op \notin Callbacks \cup {"render", "helper"}
    BY <2>2 DEF Callbacks, Locking
  <2> QED BY <1>3, <2>2, <2>3
<1>7. ASSUME NEW hs \in SUBSET DOMAIN contexts, NEW w \in Threads, NEW mode \in HandoffModes, HandOver(t, w, hs, mode) PROVE EngineInv'
  <2>1. PICK f : f = UserFrame("worker", Top(t).renderer, Top(t).context, hs)
    OBVIOUS
  <2>2. frames' = Pushed(w, f) /\ f.op = "worker" /\ UNCHANGED <<renderers, contexts, registry>>
    BY <1>7, <2>1 DEF HandOver, UserFrame, Frame
  <2>3. f.op \notin Callbacks \cup {"render", "helper"}
    BY <2>2 DEF Callbacks
  <2> QED BY <1>3, <2>2, <2>3
<1>8. CASE LockContext(t)
  <2>1. Top(t).op \notin Callbacks /\ UNCHANGED <<renderers, contexts, registry>>
    BY <1>8 DEF LockContext, Running, Locking, Callbacks
  <2>2. /\ Turns(t, Len(frames[t]) - 1) /\ Len(frames'[t]) = Len(frames[t]) /\ Len(frames[t]) \in Nat \ {0}
        /\ frames'[t][Len(frames[t])].op \in {"locked", "template"}
    BY <1>1, <1>8, LockTurns
  <2>3. \A i \in DOMAIN frames'[t] : i > Len(frames[t]) - 1 => i = Len(frames[t])
    BY <2>2 DEF Turns
  <2> QED BY <2>1, <2>2, <2>3, QuietKeeps DEF Callbacks
<1> QED BY <1>4, <1>5, <1>6, <1>7, <1>8

\* What the end of a render() relies on: nothing works for its renderer any more.
EndsDeserted == \A t \in Threads : FinishRender(t) => Deserted(Top(t).renderer)

LEMMA EngineInvNext == RegistryInv /\ EngineInv /\ EndsDeserted /\ [Next]_vars => EngineInv'
<1> SUFFICES ASSUME RegistryInv, EngineInv, EndsDeserted, [Next]_vars PROVE EngineInv'
  OBVIOUS
<1> RegistryInv'
  BY RegistryInvNext
<1>1. CASE UNCHANGED vars
  <2>1. /\ rendering' = rendering /\ callbackDepth' = callbackDepth /\ engine' = engine
        /\ contexts' = contexts /\ scopes' = scopes /\ frames' = frames
    BY <1>1 DEF vars
  <2>2. \A ops : GainsNone(ops) /\ LosesNone(ops)
    BY <2>1 DEF GainsNone, LosesNone, Same
  <2>3. CallbacksSit'
    BY <2>1 DEF EngineInv, CallbacksSit
  <2>4. RendersOwn' /\ CallbacksRender' /\ HelpersOwn' /\ ContextsCalled' /\ ScopesCalled' /\ ScopesMatch'
    BY <2>1, <2>2, RendersKept, CallbacksRenderKept, HelpersKept, CalledKept, MatchKept DEF EngineInv
  <2>5. DepthCounts'
    BY <2>1, <2>2, CountKept, DepthKept DEF EngineInv
  <2>6. RenderersFit'
    BY <2>1 DEF EngineInv, RenderersFit
  <2> QED BY <2>3, <2>4, <2>5, <2>6 DEF EngineInv
<1>2. ASSUME NEW t \in Threads, Step(t) PROVE EngineInv'
  <2>1. CASE FinishRender(t)
    BY <2>1, FinishRenderKeeps DEF EndsDeserted
  <2> QED BY <1>2, <2>1, InvokeKeepsEngine, StagesKeep, LeaveScopeKeepsEngine, EnterKeepsEngine, LegacyKeepsEngine, QuietStepsKeep DEF Step
<1>3. ASSUME NEW t \in Threads, NEW r \in Renderers, StartRender(t, r) PROVE EngineInv'
  BY <1>3, StartRenderKeeps
<1> QED BY <1>1, <1>2, <1>3 DEF Next

LEMMA EngineInvInit == Init => EngineInv
<1> SUFFICES ASSUME Init PROVE EngineInv
  OBVIOUS
<1>1. \A t \in Threads : DOMAIN frames[t] = {}
  <2>1. <<>> \in Seq({}) /\ Len(<<>>) = 0
    OBVIOUS
  <2>2. DOMAIN <<>> = {}
    BY <2>1
  <2>3. \A t \in Threads : frames[t] = <<>>
    BY DEF Init
  <2> QED BY <2>2, <2>3
<1>2. DOMAIN contexts = {} /\ DOMAIN scopes = {}
  BY DEF Init
<1>3. RenderersFit /\ \A r \in Renderers : callbackDepth[r] = 0
  BY DEF Init, RenderersFit
<1>4. \A r : CountedOf(r) = {}
  BY <1>1 DEF CountedOf, Calls
<1>5. DepthCounts
  BY <1>3, <1>4, FS_EmptySet DEF DepthCounts
<1> QED BY <1>1, <1>2, <1>3, <1>5 DEF EngineInv, RendersOwn, CallbacksSit, CallbacksRender, HelpersOwn, ContextsCalled,
                                    ScopesCalled, ScopesMatch

\* A context that is still active belongs to a callback that counts and has a scope.
LEMMA ActiveAllowed ==
    ASSUME RegistryInv, EngineInv, NEW c \in DOMAIN contexts, contexts[c] # Null
    PROVE  HelperAllowed(contexts[c])
<1>r. PICK r : r = contexts[c]
  OBVIOUS
<1>1. Calls(Open, c, r)
  BY <1>r DEF EngineInv, ContextsCalled
<1>2. PICK t \in Threads : \E i \in DOMAIN frames[t] :
         frames[t][i].op \in Open /\ frames[t][i].context = c /\ frames[t][i].renderer = r
  BY <1>1 DEF Calls
<1>3. PICK i \in DOMAIN frames[t] : frames[t][i].op \in Open /\ frames[t][i].context = c /\ frames[t][i].renderer = r
  BY <1>2
<1>4. frames[t][i].op \in Callbacks /\ frames[t][i].op \in Counted
  BY <1>3 DEF Open, Callbacks, Counted
<1>5. rendering[r]
  BY <1>3, <1>4 DEF EngineInv, CallbacksRender
<1>6. c \in DOMAIN scopes /\ scopes[c].renderer = r
  BY <1>3, <1>4 DEF EngineInv, ScopesMatch, RegistryInv, CallbacksLinked
<1>7. FindScope(r) # 0
  BY <1>6, FindsScope
<1>8. callbackDepth[r] > 0
  <2>1. r \in Renderers /\ c \in Ids
    BY <1>3, <1>6, BoundsAssumption DEF RegistryInv, FramesInv, StacksFit, FrameFits, ScopesFit, Ids
  <2>2. c \in CountedOf(r)
    BY <1>3, <1>4, <2>1 DEF CountedOf, Calls
  <2>3. IsFiniteSet(CountedOf(r))
    <3>1. IsFiniteSet(Ids)
      BY FS_Interval, BoundsAssumption DEF Ids
    <3> QED BY <3>1, FS_Subset DEF CountedOf
  <2>4. PICK s : s = CountedOf(r)
    OBVIOUS
  <2>5. Cardinality(s) \in Nat /\ Cardinality(s) # 0
    BY <2>2, <2>3, <2>4, FS_CardinalityType, FS_EmptySet
  <2> QED BY <2>1, <2>4, <2>5 DEF EngineInv, DepthCounts
<1> QED BY <1>r, <1>5, <1>7, <1>8 DEF HelperAllowed

LEMMA ContextsOnly == ~UsesRaw /\ RegistryInv /\ HelpersHaveContexts /\ [Next]_vars => HelpersHaveContexts'
<1> SUFFICES ASSUME ~UsesRaw, RegistryInv, HelpersHaveContexts, [Next]_vars PROVE HelpersHaveContexts'
  OBVIOUS
<1>1. ASSUME NEW t \in Threads, NEW m, Turns(t, m),
             \A i \in DOMAIN frames'[t] : i > m => (frames'[t][i].op = "helper" => frames'[t][i].context # 0)
      PROVE  HelpersHaveContexts'
  <2> SUFFICES ASSUME NEW u \in Threads, NEW i \in DOMAIN frames'[u], frames'[u][i].op = "helper" PROVE frames'[u][i].context # 0
    BY DEF HelpersHaveContexts
  <2>1. CASE u # t
    BY <1>1, <2>1 DEF Turns, HelpersHaveContexts
  <2>2. CASE u = t /\ ~(i > m)
    <3>1. i \in 1..m
      BY <1>1, <2>2 DEF Turns
    <3>2. i \in DOMAIN frames[t] /\ frames'[t][i] = frames[t][i]
      BY <1>1, <3>1 DEF Turns
    <3> QED BY <2>2, <3>2 DEF HelpersHaveContexts
  <2> QED BY <1>1, <2>1, <2>2
<1>2. ASSUME NEW t \in Threads, ~Idle(t), frames' = Popped(t) PROVE HelpersHaveContexts'
  <2>1. Turns(t, Len(frames[t]) - 1) /\ Len(frames'[t]) = Len(frames[t]) - 1
    BY <1>2, PopTurns DEF RegistryInv
  <2>2. \A i \in DOMAIN frames'[t] : ~(i > Len(frames[t]) - 1)
    BY <2>1 DEF Turns
  <2> QED BY <1>1, <2>1, <2>2
<1>3. ASSUME NEW t \in Threads, NEW f, frames' = Pushed(t, f), f.op # "helper" PROVE HelpersHaveContexts'
  <2>1. Turns(t, Len(frames[t])) /\ Len(frames'[t]) = Len(frames[t]) + 1 /\ frames'[t][Len(frames[t]) + 1] = f
    BY <1>3, PushTurns DEF RegistryInv
  <2>2. \A i \in DOMAIN frames'[t] : i > Len(frames[t]) => i = Len(frames[t]) + 1
    BY <2>1 DEF Turns
  <2> QED BY <1>1, <1>3, <2>1, <2>2
<1>4. CASE UNCHANGED vars
  BY <1>4 DEF vars, HelpersHaveContexts
<1>5. ASSUME NEW t \in Threads, Step(t) PROVE HelpersHaveContexts'
  <2>n. PICK n : n = Len(frames[t])
    OBVIOUS
  <2>1. CASE FinishRender(t) \/ LeaveScope(t) \/ FinishHelper(t) \/ FinishWorker(t)
    BY <1>2, <2>1 DEF FinishRender, LeaveScope, FinishHelper, FinishWorker, Running
  <2>2. CASE InvokeSectionLambda(t)
    <3>1. PICK f : f = UserFrame("callback", Top(t).renderer, Len(contexts) + 1, HandlesOf(t, Len(contexts) + 1))
      OBVIOUS
    <3> QED BY <1>3, <2>2, <3>1 DEF InvokeSectionLambda, UserFrame, Frame
  <2>3. CASE ReturnFromCallback(t) \/ Invalidate(t) \/ LeaveCallback(t)
    <3>1. PICK op \in {"returning", "invalidated", "unlinking"} : frames' = Became(t, op) /\ ~Idle(t) /\ Top(t).op \in Callbacks
      BY <2>3 DEF ReturnFromCallback, Invalidate, LeaveCallback, Running, Callbacks
    <3>2. op \in Callbacks /\ op # "helper"
      BY DEF Callbacks
    <3>3. Turns(t, n - 1) /\ Len(frames'[t]) = n /\ frames'[t][n].op = op
      BY <2>n, <3>1, <3>2, BecameRecasts DEF Recast
    <3>4. \A i \in DOMAIN frames'[t] : i > n - 1 => i = n
      BY <2>n, <3>3 DEF Turns
    <3> QED BY <1>1, <3>2, <3>3, <3>4
  <2>4. CASE RenderTemplate(t)
    <3>1. ~Idle(t)
      BY <2>4 DEF RenderTemplate, Running
    <3>2. CASE /\ Turns(t, n - 1) /\ Len(frames'[t]) = n + 1 /\ n \in Nat \ {0}
               /\ frames'[t][n].op = "templated" /\ frames'[t][n + 1].op = "lock"
      <4>1. \A i \in DOMAIN frames'[t] : i > n - 1 => i = n \/ i = n + 1
        BY <3>2 DEF Turns
      <4> QED BY <1>1, <3>2, <4>1
    <3> QED BY <1>2, <2>4, <2>n, <3>1, <3>2, TemplateTurns DEF RegistryInv
  <2>5. CASE RenderThroughContext(t)
    <3>c. PICK c : c = Top(t).context
      OBVIOUS
    <3>1. ~Idle(t) /\ Top(t).op = "locked"
      BY <2>5 DEF RenderThroughContext, Running
    <3>2. CASE frames' = Popped(t)
      BY <1>2, <3>1, <3>2
    <3>3. CASE frames' = [frames EXCEPT ![t] = [frames[t] EXCEPT ![n] = HelperFrame(contexts[c], c)]]
      <4>1. PICK f : f = HelperFrame(contexts[c], c)
        OBVIOUS
      <4>2. f.context = c /\ c # 0
        BY <3>1, <3>c, <4>1, TopFits DEF HelperFrame, Frame, RegistryInv, FrameFits
      <4>3. Turns(t, n - 1) /\ Len(frames'[t]) = n /\ frames'[t][n] = f
        BY <2>n, <3>1, <3>3, <4>1, PutTurns DEF RegistryInv
      <4>4. \A i \in DOMAIN frames'[t] : i > n - 1 => i = n
        BY <2>n, <4>3 DEF Turns
      <4> QED BY <1>1, <4>2, <4>3, <4>4
    <3> QED BY <2>5, <2>n, <3>c, <3>2, <3>3 DEF RenderThroughContext
  <2>6. ASSUME NEW c \in DOMAIN contexts, NEW op \in Locking, CallRender(t, c, op) PROVE HelpersHaveContexts'
    <3>1. PICK f : f = Frame(op, Top(t).renderer, c)
      OBVIOUS
    <3> QED BY <1>3, <2>6, <3>1 DEF CallRender, Frame, Locking
  <2>7. ASSUME NEW hs \in SUBSET DOMAIN contexts, NEW w \in Threads, NEW mode \in HandoffModes, HandOver(t, w, hs, mode) PROVE HelpersHaveContexts'
    <3>1. PICK f : f = UserFrame("worker", Top(t).renderer, Top(t).context, hs)
      OBVIOUS
    <3> QED BY <1>3, <2>7, <3>1 DEF HandOver, UserFrame, Frame
  <2>8. ~LegacyRender(t)
    BY DEF LegacyRender
  <2>9. CASE LockContext(t)
    <3>1. Turns(t, n - 1) /\ Len(frames'[t]) = n /\ n \in Nat \ {0} /\ frames'[t][n].op \in {"locked", "template"}
      BY <2>9, <2>n, LockTurns DEF RegistryInv
    <3>2. \A i \in DOMAIN frames'[t] : i > n - 1 => i = n
      BY <3>1 DEF Turns
    <3> QED BY <1>1, <3>1, <3>2
  <2> QED BY <1>5, <2>1, <2>2, <2>3, <2>4, <2>5, <2>6, <2>7, <2>8, <2>9 DEF Step
<1>6. ASSUME NEW t \in Threads, NEW r \in Renderers, StartRender(t, r) PROVE HelpersHaveContexts'
  <2>1. PICK f : f = Frame("render", r, 0)
    OBVIOUS
  <2> QED BY <1>3, <1>6, <2>1 DEF StartRender, Frame
<1> QED BY <1>4, <1>5, <1>6 DEF Next

-----------------------------------------------------------------------------
(* Waiting for a worker *)

WaitsInCallback ==
    /\ waitingFor = [t \in Threads |-> waitingFor[t]]
    /\ \A t \in Threads : waitingFor[t] # Null => ~Idle(t) /\ Top(t).op = "callback"

LEMMA WaitsNext == FramesInv /\ WaitsInCallback /\ [Next]_vars => WaitsInCallback'
<1> SUFFICES ASSUME FramesInv, WaitsInCallback, [Next]_vars PROVE WaitsInCallback'
  OBVIOUS
<1>0. frames = [t \in Threads |-> frames[t]]
  BY DEF FramesInv, StacksFit
\* Only a thread that waits for nobody, or an idle one, moves.
<1>1. ASSUME NEW t \in Threads, waitingFor[t] = Null, waitingFor' = [u \in Threads |-> waitingFor'[u]],
             \A u \in Threads \ {t} : frames'[u] = frames[u],
             \A u \in Threads : waitingFor'[u] # Null => waitingFor'[u] = waitingFor[u]
      PROVE  WaitsInCallback'
  BY <1>1 DEF WaitsInCallback, Idle, Top
<1>2. CASE UNCHANGED vars
  BY <1>2 DEF vars, WaitsInCallback, Idle, Top
<1>3. ASSUME NEW t \in Threads, Step(t) PROVE WaitsInCallback'
  <2>1. CASE FinishRender(t) \/ LeaveScope(t) \/ FinishHelper(t)
    <3>1. waitingFor[t] = Null /\ waitingFor' = waitingFor /\ frames' = Popped(t)
      BY <2>1 DEF FinishRender, LeaveScope, FinishHelper, Running
    <3> QED BY <1>0, <1>1, <3>1 DEF Popped, WaitsInCallback
  <2>2. CASE ReturnFromCallback(t) \/ Invalidate(t) \/ LeaveCallback(t) \/ LockContext(t)
    <3>1. waitingFor[t] = Null /\ waitingFor' = waitingFor /\ \E op : frames' = Became(t, op)
      BY <2>2 DEF ReturnFromCallback, Invalidate, LeaveCallback, LockContext, Running
    <3> QED BY <1>0, <1>1, <3>1 DEF Became, WaitsInCallback
  <2>3. CASE InvokeSectionLambda(t) \/ LegacyRender(t) \/ \E c \in DOMAIN contexts, op \in Locking : CallRender(t, c, op)
    <3>1. waitingFor[t] = Null /\ waitingFor' = waitingFor /\ \E f : frames' = Pushed(t, f)
      BY <2>3 DEF InvokeSectionLambda, LegacyRender, CallRender, UserCode, Running
    <3> QED BY <1>0, <1>1, <3>1 DEF Pushed, WaitsInCallback
  <2>4. CASE RenderTemplate(t) \/ RenderThroughContext(t)
    <3>1. waitingFor[t] = Null /\ waitingFor' = waitingFor /\ \E s : frames' = [frames EXCEPT ![t] = s]
      BY <2>4 DEF RenderTemplate, RenderThroughContext, Running, Popped
    <3> QED BY <1>0, <1>1, <3>1 DEF WaitsInCallback
  <2>5. CASE FinishWorker(t)
    <3>1. waitingFor[t] = Null /\ frames' = Popped(t)
          /\ waitingFor' = [u \in Threads |-> IF waitingFor[u] = t THEN Null ELSE waitingFor[u]]
      BY <2>5 DEF FinishWorker, Running
    <3> QED BY <1>0, <1>1, <3>1 DEF Popped
  <2>6. ASSUME NEW hs \in SUBSET DOMAIN contexts, NEW w \in Threads, NEW mode \in HandoffModes, HandOver(t, w, hs, mode) PROVE WaitsInCallback'
    <3>1. PICK f : f = UserFrame("worker", Top(t).renderer, Top(t).context, hs)
      OBVIOUS
    <3>2. /\ ~Idle(t) /\ Top(t).op = "callback" /\ Idle(w) /\ frames' = Pushed(w, f) /\ w # t
          /\ waitingFor' = IF mode = "waits" THEN [waitingFor EXCEPT ![t] = w] ELSE waitingFor
      BY <2>6, <3>1 DEF HandOver, Running
    <3>3. waitingFor[w] = Null
      BY <3>2 DEF WaitsInCallback
    <3>4. \A u \in Threads \ {w} : frames'[u] = frames[u]
      BY <1>0, <3>2 DEF Pushed
    <3>5. \A u \in Threads \ {t} : waitingFor'[u] = waitingFor[u]
      BY <3>2 DEF WaitsInCallback
    <3>6. waitingFor' = [u \in Threads |-> waitingFor'[u]]
      BY <3>2 DEF WaitsInCallback
    <3>7. ASSUME NEW u \in Threads, waitingFor'[u] # Null PROVE ~Idle(u)' /\ Top(u)'.op = "callback"
      BY <3>2, <3>3, <3>4, <3>5, <3>7 DEF WaitsInCallback, Idle, Top
    <3> QED BY <3>6, <3>7 DEF WaitsInCallback
  <2> QED BY <1>3, <2>1, <2>2, <2>3, <2>4, <2>5, <2>6 DEF Step
<1>4. ASSUME NEW t \in Threads, NEW r \in Renderers, StartRender(t, r) PROVE WaitsInCallback'
  <2>1. waitingFor[t] = Null
    BY <1>4 DEF StartRender, UserCode, Running, WaitsInCallback
  <2>2. waitingFor' = waitingFor /\ frames' = Pushed(t, Frame("render", r, 0))
    BY <1>4 DEF StartRender
  <2> QED BY <1>0, <1>1, <2>1, <2>2 DEF Pushed, WaitsInCallback
<1> QED BY <1>2, <1>3, <1>4 DEF Next

\* A call that waits for a lock was made by user code or by renderTemplate, which holds
\* that lock already; a worker's thread begins with its frame, which names the callback
\* that waits for it.
SitsAt(t, i) ==
    /\ frames[t][i].op \in Locking =>
          /\ i > 1
          /\ \/ frames[t][i - 1].op \in {"callback", "worker"}
             \/ frames[t][i - 1].op = "templated" /\ frames[t][i - 1].context = frames[t][i].context
    /\ frames[t][i].op = "worker" => i = 1
CallsSit == \A t \in Threads : \A i \in DOMAIN frames[t] : SitsAt(t, i)
JoinsWorker ==
    \A t \in Threads : waitingFor[t] # Null =>
        \E w \in Threads : /\ waitingFor[t] = w /\ 1 \in DOMAIN frames[w]
                           /\ frames[w][1].op = "worker" /\ frames[w][1].context = Top(t).context
WaitInv == WaitsInCallback /\ CallsSit /\ JoinsWorker

LEMMA CallsSitKept ==
    ASSUME CallsSit, NEW t \in Threads, NEW m, Turns(t, m), \A i \in DOMAIN frames'[t] : i > m => SitsAt(t, i)'
    PROVE  CallsSit'
<1> SUFFICES ASSUME NEW u \in Threads, NEW i \in DOMAIN frames'[u] PROVE SitsAt(u, i)'
  BY DEF CallsSit
<1>1. CASE u # t
  <2>1. frames'[u] = frames[u] /\ SitsAt(u, i)
    BY <1>1 DEF Turns, CallsSit
  <2> QED BY <2>1 DEF SitsAt
<1>2. CASE u = t /\ i > m
  BY <1>2
<1>3. CASE u = t /\ ~(i > m)
  <2>1. i \in Nat \ {0} /\ i <= m /\ i \in DOMAIN frames[t] /\ m \in Nat
    BY <1>3 DEF Turns
  <2>2. frames'[t][i] = frames[t][i] /\ (i > 1 => frames'[t][i - 1] = frames[t][i - 1])
    BY <2>1 DEF Turns
  <2>3. SitsAt(t, i)
    BY <2>1 DEF CallsSit
  <2> QED BY <1>3, <2>2, <2>3 DEF SitsAt
<1> QED BY <1>1, <1>2, <1>3

LEMMA JoinsKept ==
    ASSUME JoinsWorker, NEW t \in Threads, NEW m, Turns(t, m), waitingFor[t] = Null,
           m > 0 \/ 1 \notin DOMAIN frames[t] \/ frames[t][1].op # "worker",
           \A u \in Threads : waitingFor'[u] # Null => waitingFor'[u] = waitingFor[u]
    PROVE  JoinsWorker'
<1> SUFFICES ASSUME NEW u \in Threads, waitingFor'[u] # Null
             PROVE  \E w \in Threads : /\ waitingFor'[u] = w /\ 1 \in DOMAIN frames'[w]
                                       /\ frames'[w][1].op = "worker" /\ frames'[w][1].context = Top(u)'.context
  BY DEF JoinsWorker
<1>1. waitingFor'[u] = waitingFor[u] /\ u # t /\ Top(u)' = Top(u)
  BY DEF Turns, Top
<1>2. PICK w \in Threads : /\ waitingFor[u] = w /\ 1 \in DOMAIN frames[w]
                           /\ frames[w][1].op = "worker" /\ frames[w][1].context = Top(u).context
  BY <1>1 DEF JoinsWorker
<1>3. 1 \in DOMAIN frames'[w] /\ frames'[w][1] = frames[w][1]
  <2>1. CASE w # t
    BY <1>2, <2>1 DEF Turns
  <2>2. CASE w = t
    <3>1. m > 0
      BY <1>2, <2>2
    <3> QED BY <2>2, <3>1 DEF Turns
  <2> QED BY <2>1, <2>2
<1> QED BY <1>1, <1>2, <1>3

\* A step that drops the newest frame, replaces it, or adds one.
LEMMA WaitPop ==
    ASSUME FramesInv, WaitInv, NEW t \in Threads, ~Idle(t), frames' = Popped(t), waitingFor[t] = Null,
           \A u \in Threads : waitingFor'[u] # Null => waitingFor'[u] = waitingFor[u] /\ (Top(t).op = "worker" => waitingFor[u] # t)
    PROVE  CallsSit' /\ JoinsWorker'
<1>n. PICK n : n = Len(frames[t])
  OBVIOUS
<1>1. n \in Nat \ {0} /\ Turns(t, n - 1) /\ Len(frames'[t]) = n - 1
  BY <1>n, TopFits, PopTurns
<1>2. \A i \in DOMAIN frames'[t] : ~(i > n - 1)
  BY <1>1 DEF Turns
<1>3. CallsSit'
  BY <1>1, <1>2, CallsSitKept DEF WaitInv
<1>4. CASE n - 1 > 0 \/ Top(t).op # "worker"
  <2>1. n - 1 > 0 \/ frames[t][1].op # "worker"
    BY <1>n, <1>1, <1>4 DEF Top
  <2> QED BY <1>1, <1>3, <2>1, JoinsKept DEF WaitInv
<1>5. CASE Top(t).op = "worker"
  <2> SUFFICES ASSUME NEW u \in Threads, waitingFor'[u] # Null
               PROVE  \E w \in Threads : /\ waitingFor'[u] = w /\ 1 \in DOMAIN frames'[w]
                                         /\ frames'[w][1].op = "worker" /\ frames'[w][1].context = Top(u)'.context
    BY <1>3 DEF JoinsWorker
  <2>1. waitingFor'[u] = waitingFor[u] /\ waitingFor[u] # t /\ u # t
    BY <1>5
  <2>2. Top(u)' = Top(u)
    BY <1>1, <2>1 DEF Turns, Top
  <2>3. PICK w \in Threads : /\ waitingFor[u] = w /\ 1 \in DOMAIN frames[w]
                             /\ frames[w][1].op = "worker" /\ frames[w][1].context = Top(u).context
    BY <2>1 DEF WaitInv, JoinsWorker
  <2>4. frames'[w] = frames[w]
    BY <1>1, <2>1, <2>3 DEF Turns
  <2> QED BY <2>1, <2>2, <2>3, <2>4
<1> QED BY <1>4, <1>5

LEMMA WaitPut ==
    ASSUME FramesInv, WaitInv, NEW t \in Threads, NEW m, Turns(t, m), m > 0 \/ frames[t][1].op # "worker",
           \A i \in DOMAIN frames'[t] : i > m => SitsAt(t, i)', waitingFor[t] = Null, waitingFor' = waitingFor
    PROVE  CallsSit' /\ JoinsWorker'
  BY CallsSitKept, JoinsKept DEF WaitInv

LEMMA WaitPush ==
    ASSUME FramesInv, WaitInv, NEW t \in Threads, NEW f, frames' = Pushed(t, f), waitingFor[t] = Null, waitingFor' = waitingFor,
           f.op # "worker", f.op \in Locking => ~Idle(t) /\ Top(t).op \in {"callback", "worker"}
    PROVE  CallsSit' /\ JoinsWorker'
<1>n. PICK n : n = Len(frames[t])
  OBVIOUS
<1>1. Turns(t, n) /\ Len(frames'[t]) = n + 1 /\ frames'[t][n + 1] = f
  BY <1>n, PushTurns
<1>2. n \in Nat /\ DOMAIN frames[t] = 1..n /\ \A i \in DOMAIN frames'[t] : i > n => i = n + 1
  BY <1>n, <1>1 DEF Turns
<1>3. f.op \in Locking => n > 0 /\ frames'[t][n] = Top(t)
  <2> SUFFICES ASSUME f.op \in Locking PROVE n > 0 /\ frames'[t][n] = Top(t)
    OBVIOUS
  <2>1. n \in Nat \ {0} /\ Top(t) = frames[t][n]
    BY <1>n, TopFits DEF Top
  <2> QED BY <1>1, <2>1 DEF Turns
<1>4. SitsAt(t, n + 1)'
  BY <1>1, <1>2, <1>3 DEF SitsAt
<1>5. \A i \in DOMAIN frames'[t] : i > n => SitsAt(t, i)'
  BY <1>2, <1>4
<1>6. n > 0 \/ 1 \notin DOMAIN frames[t]
  BY <1>2
<1> QED BY <1>1, <1>5, <1>6, CallsSitKept, JoinsKept DEF WaitInv

LEMMA WaitHandOver ==
    ASSUME FramesInv, WaitInv, NEW t \in Threads, NEW hs, NEW w \in Threads, NEW mode, HandOver(t, w, hs, mode)
    PROVE  CallsSit' /\ JoinsWorker'
<1>f. PICK f : f = UserFrame("worker", Top(t).renderer, Top(t).context, hs)
  OBVIOUS
<1>1. /\ ~Idle(t) /\ Idle(w) /\ frames' = Pushed(w, f) /\ w # t
      /\ waitingFor' = IF mode = "waits" THEN [waitingFor EXCEPT ![t] = w] ELSE waitingFor
  BY <1>f DEF HandOver, Running
<1>2. f.op = "worker" /\ f.context = Top(t).context
  BY <1>f DEF UserFrame, Frame
<1>n. PICK n : n = Len(frames[w])
  OBVIOUS
<1>3. Turns(w, n) /\ Len(frames'[w]) = n + 1 /\ frames'[w][n + 1] = f
  BY <1>1, <1>n, PushTurns
<1>4. n = 0
  BY <1>1, <1>n, <1>3, NotIdle DEF FramesInv, Turns
<1>5. 1 \notin DOMAIN frames[w] /\ 1 \in DOMAIN frames'[w] /\ frames'[w][1] = f /\ \A i \in DOMAIN frames'[w] : i = 1
  BY <1>n, <1>3, <1>4 DEF Turns
<1>6. SitsAt(w, 1)'
  BY <1>2, <1>5 DEF SitsAt, Locking
<1>7. CallsSit'
  BY <1>3, <1>5, <1>6, CallsSitKept DEF WaitInv
<1>8. JoinsWorker'
  <2> SUFFICES ASSUME NEW u \in Threads, waitingFor'[u] # Null
               PROVE  \E v \in Threads : /\ waitingFor'[u] = v /\ 1 \in DOMAIN frames'[v]
                                         /\ frames'[v][1].op = "worker" /\ frames'[v][1].context = Top(u)'.context
    BY DEF JoinsWorker
  <2>1. \A v \in Threads \ {w} : frames'[v] = frames[v] /\ Top(v)' = Top(v)
    BY <1>3 DEF Turns, Top
  <2>2. CASE u = t /\ mode = "waits"
    <3>1. waitingFor'[u] = w
      BY <1>1, <2>2 DEF WaitInv, WaitsInCallback
    <3>2. Top(u)' = Top(t)
      BY <1>1, <2>1, <2>2
    <3> QED BY <1>2, <1>5, <3>1, <3>2
  <2>3. CASE ~(u = t /\ mode = "waits")
    <3>1. waitingFor'[u] = waitingFor[u]
      BY <1>1, <2>3 DEF WaitInv, WaitsInCallback
    <3>2. PICK v \in Threads : /\ waitingFor[u] = v /\ 1 \in DOMAIN frames[v]
                               /\ frames[v][1].op = "worker" /\ frames[v][1].context = Top(u).context
      BY <3>1 DEF WaitInv, JoinsWorker
    <3>3. u # w
      BY <1>1, <3>1 DEF WaitInv, WaitsInCallback
    <3>4. v # w
      BY <1>5, <3>2
    <3> QED BY <2>1, <3>1, <3>2, <3>3, <3>4
  <2> QED BY <2>2, <2>3
<1> QED BY <1>7, <1>8

LEMMA WaitStep ==
    ASSUME FramesInv, WaitInv, NEW t \in Threads, Step(t)
    PROVE  CallsSit' /\ JoinsWorker'
<1>n. PICK n : n = Len(frames[t])
  OBVIOUS
<1>1. ASSUME ~Idle(t), frames' = Popped(t), waitingFor[t] = Null, waitingFor' = waitingFor, Top(t).op # "worker"
      PROVE  CallsSit' /\ JoinsWorker'
  BY <1>1, WaitPop
\* The newest frame, not a worker's, is replaced by one that waits for no lock.
<1>2. ASSUME ~Idle(t), Turns(t, n - 1), Len(frames'[t]) = n, frames'[t][n].op \notin Locking, frames'[t][n].op # "worker",
             waitingFor[t] = Null, waitingFor' = waitingFor, Top(t).op # "worker"
      PROVE  CallsSit' /\ JoinsWorker'
  <2>1. n \in Nat \ {0} /\ Top(t) = frames[t][n]
    BY <1>2, <1>n, TopFits DEF Top
  <2>2. n - 1 > 0 \/ frames[t][1].op # "worker"
    BY <1>2, <2>1
  <2>3. SitsAt(t, n)'
    BY <1>2 DEF SitsAt
  <2>4. \A i \in DOMAIN frames'[t] : i > n - 1 => i = n
    BY <1>2, <2>1 DEF Turns
  <2>5. \A i \in DOMAIN frames'[t] : i > n - 1 => SitsAt(t, i)'
    BY <2>3, <2>4
  <2> QED BY <1>2, <2>1, <2>2, <2>5, WaitPut
<1>3. CASE FinishRender(t) \/ LeaveScope(t) \/ FinishHelper(t)
  BY <1>1, <1>3 DEF FinishRender, LeaveScope, FinishHelper, Running
<1>4. CASE FinishWorker(t)
  <2>1. ~Idle(t) /\ frames' = Popped(t) /\ waitingFor[t] = Null
        /\ waitingFor' = [u \in Threads |-> IF waitingFor[u] = t THEN Null ELSE waitingFor[u]]
    BY <1>4 DEF FinishWorker, Running
  <2>2. \A u \in Threads : waitingFor'[u] # Null => waitingFor'[u] = waitingFor[u] /\ waitingFor[u] # t
    BY <2>1
  <2> QED BY <2>1, <2>2, WaitPop
<1>5. CASE ReturnFromCallback(t) \/ Invalidate(t) \/ LeaveCallback(t)
  <2>1. PICK op \in {"returning", "invalidated", "unlinking"} : frames' = Became(t, op)
    BY <1>5 DEF ReturnFromCallback, Invalidate, LeaveCallback
  <2>2. ~Idle(t) /\ Top(t).op \in Callbacks /\ waitingFor[t] = Null /\ waitingFor' = waitingFor
    BY <1>5 DEF ReturnFromCallback, Invalidate, LeaveCallback, Running, Callbacks
  <2>3. op \in Callbacks
    BY DEF Callbacks
  <2>4. PICK f : f = [Top(t) EXCEPT !.op = op]
    OBVIOUS
  <2>5. f.op = op
    BY <2>2, <2>4, TopFits DEF FrameFits, IsFrame
  <2>6. frames' = [frames EXCEPT ![t] = [frames[t] EXCEPT ![Len(frames[t])] = f]]
    BY <2>1, <2>4 DEF Became, Top
  <2>7. Turns(t, n - 1) /\ Len(frames'[t]) = n /\ frames'[t][n].op = op
    BY <1>n, <2>2, <2>5, <2>6, PutTurns
  <2> QED BY <1>2, <2>2, <2>3, <2>7 DEF Callbacks, Locking
<1>6. CASE LockContext(t)
  <2>1. /\ Turns(t, n - 1) /\ Len(frames'[t]) = n /\ frames'[t][n].op \in {"locked", "template"}
        /\ Top(t).op \in Locking /\ ~Idle(t)
    BY <1>6, <1>n, LockTurns
  <2>2. waitingFor[t] = Null /\ waitingFor' = waitingFor
    BY <1>6 DEF LockContext, Running
  <2> QED BY <1>2, <2>1, <2>2 DEF Locking
<1>7. CASE RenderThroughContext(t)
  <2>1. ~Idle(t) /\ Top(t).op = "locked" /\ waitingFor[t] = Null /\ waitingFor' = waitingFor
    BY <1>7 DEF RenderThroughContext, Running
  <2>2. CASE frames' = Popped(t)
    BY <1>1, <2>1, <2>2
  <2>3. CASE frames' = [frames EXCEPT ![t][Len(frames[t])] = HelperFrame(contexts[Top(t).context], Top(t).context)]
    <3>1. PICK f : f = HelperFrame(contexts[Top(t).context], Top(t).context)
      OBVIOUS
    <3>2. f.op = "helper"
      BY <3>1 DEF HelperFrame, Frame
    <3>3. frames' = [frames EXCEPT ![t] = [frames[t] EXCEPT ![Len(frames[t])] = f]]
      BY <2>3, <3>1
    <3>4. Turns(t, n - 1) /\ Len(frames'[t]) = n /\ frames'[t][n] = f
      BY <1>n, <2>1, <3>3, PutTurns
    <3> QED BY <1>2, <2>1, <3>2, <3>4 DEF Locking
  <2> QED BY <1>7, <2>2, <2>3 DEF RenderThroughContext
<1>8. CASE RenderTemplate(t)
  <2>1. ~Idle(t) /\ Top(t).op = "template" /\ waitingFor[t] = Null /\ waitingFor' = waitingFor
    BY <1>8 DEF RenderTemplate, Running
  <2>2. CASE frames' = Popped(t)
    BY <1>1, <2>1, <2>2
  <2>3. CASE /\ Turns(t, n - 1) /\ Len(frames'[t]) = n + 1 /\ n \in Nat \ {0}
             /\ frames'[t][n].op = "templated" /\ frames'[t][n + 1].op = "lock"
             /\ frames'[t][n].context = Top(t).context /\ frames'[t][n + 1].context = Top(t).context
    <3>1. SitsAt(t, n)' /\ SitsAt(t, n + 1)'
      BY <2>3 DEF SitsAt, Locking
    <3>2. \A i \in DOMAIN frames'[t] : i > n - 1 => i = n \/ i = n + 1
      BY <2>3 DEF Turns
    <3>3. \A i \in DOMAIN frames'[t] : i > n - 1 => SitsAt(t, i)'
      BY <3>1, <3>2
    <3>4. n - 1 > 0 \/ frames[t][1].op # "worker"
      BY <1>n, <2>1, <2>3 DEF Top
    <3> QED BY <2>1, <2>3, <3>3, <3>4, WaitPut
  <2> QED BY <1>8, <1>n, <2>2, <2>3, TemplateTurns
<1>9. CASE InvokeSectionLambda(t)
  <2>1. PICK f : f = UserFrame("callback", Top(t).renderer, Len(contexts) + 1, HandlesOf(t, Len(contexts) + 1))
    OBVIOUS
  <2>2. frames' = Pushed(t, f) /\ waitingFor[t] = Null /\ waitingFor' = waitingFor
    BY <1>9, <2>1 DEF InvokeSectionLambda, Running
  <2>3. f.op = "callback"
    BY <2>1 DEF UserFrame, Frame
  <2> QED BY <2>2, <2>3, WaitPush DEF Locking
<1>10. CASE LegacyRender(t)
  <2>1. PICK f : f = HelperFrame(Top(t).renderer, 0)
    OBVIOUS
  <2>2. frames' = Pushed(t, f) /\ waitingFor[t] = Null /\ waitingFor' = waitingFor
    BY <1>10, <2>1 DEF LegacyRender, UserCode, Running
  <2>3. f.op = "helper"
    BY <2>1 DEF HelperFrame, Frame
  <2> QED BY <2>2, <2>3, WaitPush DEF Locking
<1>11. ASSUME NEW c \in DOMAIN contexts, NEW op \in Locking, CallRender(t, c, op) PROVE CallsSit' /\ JoinsWorker'
  <2>1. PICK f : f = Frame(op, Top(t).renderer, c)
    OBVIOUS
  <2>2. /\ frames' = Pushed(t, f) /\ waitingFor[t] = Null /\ waitingFor' = waitingFor
        /\ ~Idle(t) /\ Top(t).op \in {"callback", "worker"}
    BY <1>11, <2>1 DEF CallRender, UserCode, Running
  <2>3. f.op = op
    BY <2>1 DEF Frame
  <2> QED BY <2>2, <2>3, WaitPush DEF Locking
<1> QED BY <1>3, <1>4, <1>5, <1>6, <1>7, <1>8, <1>9, <1>10, <1>11, WaitHandOver, Step(t) DEF Step

LEMMA WaitInvNext == FramesInv /\ WaitInv /\ [Next]_vars => WaitInv'
<1> SUFFICES ASSUME FramesInv, WaitInv, [Next]_vars PROVE WaitInv'
  OBVIOUS
<1>1. WaitsInCallback'
  BY WaitsNext DEF WaitInv
<1>2. CASE UNCHANGED vars
  BY <1>1, <1>2 DEF vars, WaitInv, CallsSit, SitsAt, JoinsWorker, Top
<1>3. ASSUME NEW t \in Threads, NEW r \in Renderers, StartRender(t, r) PROVE CallsSit' /\ JoinsWorker'
  <2>1. PICK f : f = Frame("render", r, 0)
    OBVIOUS
  <2>2. frames' = Pushed(t, f) /\ waitingFor[t] = Null /\ waitingFor' = waitingFor
    BY <1>3, <2>1 DEF StartRender, UserCode, Running, WaitInv, WaitsInCallback
  <2>3. f.op = "render"
    BY <2>1 DEF Frame
  <2> QED BY <2>2, <2>3, WaitPush DEF Locking
<1> QED BY <1>1, <1>2, <1>3, WaitStep DEF WaitInv, Next

\* How recent a waiting thread is: twice the newest context it is concerned with, and one
\* more if it waits for the owner of that context's lock.
Age(t) == 2 * Top(t).context + IF waitingFor[t] # Null THEN 0 ELSE 1
\* It waits in the newest callback of its thread, or for a context that this one, or the
\* callback its worker belongs to, was given.
WaitsInOwn(t) ==
    /\ ~Idle(t)
    /\ \/ waitingFor[t] # Null /\ Top(t).op = "callback"
       \/ waitingFor[t] = Null /\ Top(t).op = "returning"
       \/ /\ waitingFor[t] = Null /\ Top(t).op \in Locking
          /\ Len(frames[t]) > 1 /\ frames[t][Len(frames[t]) - 1].op \in {"callback", "worker"}
          /\ frames[t][Len(frames[t]) - 1].context = Top(t).context

LEMMA WaiterInOwn ==
    ASSUME FramesInv, WaitInv, NEW t \in Threads, NEW u \in Threads, WaitsFor(t, u), ~CallsOuter(t)
    PROVE  WaitsInOwn(t)
<1>n. PICK n : n = Len(frames[t])
  OBVIOUS
<1>1. CASE waitingFor[t] = u
  BY <1>1, NullAssumption DEF WaitsInOwn, WaitInv, WaitsInCallback
<1>2. CASE Running(t, Locking \cup {"returning"}) /\ u # t /\ Holds(u, Top(t).context)
  <2>1. ~Idle(t) /\ waitingFor[t] = Null /\ Top(t).op \in Locking \cup {"returning"}
    BY <1>2 DEF Running
  <2>2. n \in Nat \ {0} /\ DOMAIN frames[t] = 1..n /\ Top(t) = frames[t][n]
    BY <1>n, <2>1, TopFits DEF Top
  <2>3. CASE Top(t).op = "returning"
    BY <2>1, <2>3 DEF WaitsInOwn
  <2>4. CASE Top(t).op \in Locking
    <3>1. SitsAt(t, n)
      BY <2>2 DEF WaitInv, CallsSit
    <3>2. n > 1 /\ frames[t][n - 1].op \in {"callback", "worker", "templated"}
      BY <2>2, <2>4, <3>1 DEF SitsAt
    <3>3. frames[t][n - 1].context = Top(t).context
      BY <1>n, <2>1, <2>4 DEF CallsOuter, Running
    <3>4. frames[t][n - 1].op # "templated"
      <4> SUFFICES ASSUME frames[t][n - 1].op = "templated" PROVE FALSE
        OBVIOUS
      <4>1. n - 1 \in DOMAIN frames[t]
        BY <2>2, <3>2
      <4>2. Holds(t, Top(t).context)
        BY <3>3, <4>1 DEF Holds, Locked
      <4>3. Top(t).context \in Nat \ {0}
        BY <2>1, <2>4, TopFits DEF FrameFits, FramesInv, StacksFit
      <4> QED BY <1>2, <4>2, <4>3 DEF FramesInv, LocksExclusive
    <3> QED BY <1>n, <2>1, <2>4, <3>2, <3>3, <3>4 DEF WaitsInOwn
  <2> QED BY <2>1, <2>3, <2>4
<1> QED BY <1>1, <1>2 DEF WaitsFor

\* A frame of a waiting thread that is no later than the callback it waits in.
LEMMA BelowIsOlder ==
    ASSUME FramesInv, WaitInv, NEW t \in Threads, WaitsInOwn(t), NEW i \in DOMAIN frames[t],
           frames[t][i].op \in Locked \cup {"worker"}
    PROVE  /\ frames[t][i].context \in Nat /\ Age(t) \in Nat
           /\ 2 * frames[t][i].context < Age(t)
           /\ frames[t][i].op \in Locked => 2 * frames[t][i].context + 1 < Age(t)
<1>n. PICK n : n = Len(frames[t])
  OBVIOUS
<1>c. PICK c : c = frames[t][i].context
  OBVIOUS
<1>1. n \in Nat \ {0} /\ DOMAIN frames[t] = 1..n /\ n \in DOMAIN frames[t] /\ Top(t) = frames[t][n] /\ i \in 1..n
  BY <1>n, TopFits DEF Top, WaitsInOwn
<1>2. \A j \in DOMAIN frames[t] : frames[t][j].context \in Nat
  BY DEF FramesInv, StacksFit, FrameFits
<1>d. PICK d : d = Top(t).context
  OBVIOUS
<1>3. c \in Nat /\ d \in Nat
  BY <1>1, <1>2, <1>c, <1>d
<1>4. CASE Top(t).op \in {"callback", "returning"}
  <2>1. i < n
    BY <1>1, <1>4 DEF Locked
  <2>2. c < d
    BY <1>1, <1>4, <1>c, <1>d, <2>1 DEF FramesInv, CallbacksNest, Callbacks
  <2>3. Age(t) = 2 * d \/ Age(t) = 2 * d + 1
    BY <1>3, <1>d DEF Age
  <2> QED BY <1>3, <1>c, <2>2, <2>3
<1>5. CASE /\ waitingFor[t] = Null /\ Top(t).op \in Locking
           /\ n > 1 /\ frames[t][n - 1].op \in {"callback", "worker"} /\ frames[t][n - 1].context = d
  <2>1. Age(t) = 2 * d + 1
    BY <1>5, <1>d DEF Age
  <2>2. i < n /\ n - 1 \in DOMAIN frames[t]
    BY <1>1, <1>5 DEF Locked, Locking
  <2>3. CASE i = n - 1
    <3>1. c = d /\ frames[t][i].op \notin Locked
      BY <1>5, <1>c, <2>3 DEF Locked
    <3> QED BY <1>3, <1>c, <2>1, <3>1
  <2>4. CASE i < n - 1
    <3>1. SitsAt(t, n - 1)
      BY <2>2 DEF WaitInv, CallsSit
    <3>2. frames[t][n - 1].op = "callback"
      BY <1>1, <1>5, <2>4, <3>1 DEF SitsAt
    <3>3. c < d
      BY <1>5, <1>c, <2>2, <2>4, <3>2 DEF FramesInv, CallbacksNest, Callbacks
    <3> QED BY <1>3, <1>c, <2>1, <3>3
  <2> QED BY <1>1, <2>2, <2>3, <2>4
<1> QED BY <1>n, <1>d, <1>4, <1>5 DEF WaitsInOwn

LEMMA WaitsForYounger ==
    ASSUME FramesInv, WaitInv, NEW t \in Threads, NEW u \in Threads, NEW v \in Threads,
           WaitsFor(t, u), WaitsFor(u, v), ~CallsOuter(u)
    PROVE  Age(t) < Age(u)
<1>1. WaitsInOwn(u)
  BY WaiterInOwn
<1>2. CASE waitingFor[t] = u
  <2>1. waitingFor[t] # Null
    BY <1>2, NullAssumption
  <2>2. 1 \in DOMAIN frames[u] /\ frames[u][1].op = "worker" /\ frames[u][1].context = Top(t).context
    BY <1>2, <2>1 DEF WaitInv, JoinsWorker
  <2>3. Age(t) = 2 * frames[u][1].context + 0
    BY <2>1, <2>2 DEF Age
  <2>4. 2 * frames[u][1].context < Age(u) /\ frames[u][1].context \in Nat
    BY <1>1, <2>2, BelowIsOlder
  <2> QED BY <2>3, <2>4
<1>3. CASE Running(t, Locking \cup {"returning"}) /\ u # t /\ Holds(u, Top(t).context)
  <2>1. PICK i \in DOMAIN frames[u] : frames[u][i].op \in Locked /\ frames[u][i].context = Top(t).context
    BY <1>3 DEF Holds
  <2>2. Age(t) = 2 * frames[u][i].context + 1
    BY <1>3, <2>1 DEF Age, Running
  <2>3. 2 * frames[u][i].context + 1 < Age(u)
    BY <1>1, <2>1, BelowIsOlder
  <2> QED BY <2>2, <2>3
<1> QED BY <1>2, <1>3 DEF WaitsFor

\* No set of threads, of any number, waits for one another for ever while each calls only
\* through the context of its innermost callback, or of the callback it works for: every
\* wait for a worker, for a lock (lambda.cpp:77, 101) or before a return (lambda.cpp:131)
\* then leads to a thread that waits in a newer callback.
THEOREM OwnContextsNeverDeadlock == Spec => []DeadlockNeedsOuter
<1>1. Init => FramesInv /\ WaitInv
  <2> SUFFICES ASSUME Init PROVE FramesInv /\ WaitInv
    OBVIOUS
  <2>1. <<>> \in Seq({}) /\ Len(<<>>) = 0
    OBVIOUS
  <2>2. DOMAIN <<>> = {}
    BY <2>1
  <2> QED BY <2>2, FramesInvInit DEF Init, WaitInv, WaitsInCallback, CallsSit, JoinsWorker
<1>2. FramesInv /\ WaitInv /\ [Next]_vars => (FramesInv /\ WaitInv)'
  BY FramesInvNext, WaitInvNext
<1>3. FramesInv /\ WaitInv => DeadlockNeedsOuter
  <2> SUFFICES ASSUME FramesInv, WaitInv, NEW stuck \in SUBSET Threads, Deadlocked(stuck), \A t \in stuck : ~CallsOuter(t)
               PROVE  FALSE
    BY DEF DeadlockNeedsOuter
  <2> DEFINE bound == 2 * Len(contexts) + 1
             S == {bound - Age(t) : t \in stuck}
  <2>1. stuck # {} /\ \A t \in stuck : \E u \in stuck : WaitsFor(t, u)
    BY DEF Deadlocked
  <2>2. ASSUME NEW t \in stuck PROVE Age(t) \in 0..bound
    <3>1. ~Idle(t)
      BY <2>1, WaiterInOwn DEF WaitsInOwn
    <3>2. Top(t).context \in 0..Len(contexts) /\ Len(contexts) \in Nat
      BY <3>1, TopFits DEF FrameFits, FramesInv, StacksFit
    <3> QED BY <3>2 DEF Age
  <2>3. bound \in Nat
    BY DEF FramesInv, StacksFit
  <2>4. S \in SUBSET Nat /\ S # {}
    <3>1. \A a \in 0..bound : bound - a \in Nat
      BY <2>3
    <3>2. \A t \in stuck : bound - Age(t) \in Nat
      BY <2>2, <3>1
    <3> QED BY <2>1, <3>2
  <2>5. PICK x \in S : \A y \in S : x <= y
    <3> HIDE DEF S
    <3> QED BY <2>4, Least
  <2>6. PICK t \in stuck : x = bound - Age(t)
    BY <2>5
  <2>7. PICK u \in stuck : WaitsFor(t, u)
    BY <2>1
  <2>8. PICK v \in stuck : WaitsFor(u, v)
    BY <2>1
  <2>9. Age(t) < Age(u)
    BY <2>7, <2>8, WaitsForYounger
  <2>10. x <= bound - Age(u)
    BY <2>5
  <2>11. Age(t) \in Nat /\ Age(u) \in Nat
    BY <2>2
  <2> QED BY <2>3, <2>6, <2>9, <2>10, <2>11
<1> QED BY <1>1, <1>2, <1>3, PTL DEF Spec

----------------------------------------------------------------------------
(* Callbacks that wait for the workers they hand a context to *)

\* Threads then work as one stack: a worker's frames continue those of the callback that
\* waits for it.  Its root is the thread that began with a render(), its level the number
\* of handovers since.
Knows(f, c) == f.context = c \/ c \in f.handles
Has(t, c) == \E i \in DOMAIN frames[t] : Knows(frames[t][i], c)
\* A frame whose contexts thread t has, but for new ones.
Learns(t, f) == \A c \in Nat \ {0} : Knows(f, c) => Has(t, c) \/ \A u \in Threads : ~Has(u, c)
Nothing(f) == \A c \in Nat \ {0} : ~Knows(f, c)
Knowing(t, f) == \A c \in Nat \ {0} : Knows(f, c) => Has(t, c)
Rooted(root, level) ==
    \A t \in Threads : ~Idle(t) =>
        /\ ~Idle(root[t]) /\ root[root[t]] = root[t] /\ level[root[t]] = 0
        /\ frames[t][1].op = IF level[t] = 0 THEN "render" ELSE "worker"
        /\ \A i \in DOMAIN frames[t] : frames[t][i].op = "worker" => i = 1
\* Of the threads with one root, all but the last wait.
Linear(root, level) ==
    \A t, u \in Threads : ~Idle(t) /\ ~Idle(u) /\ root[t] = root[u] =>
        /\ level[t] = level[u] => t = u
        /\ level[t] < level[u] => waitingFor[t] # Null
Awaited(root, level) ==
    \A t \in Threads : waitingFor[t] # Null =>
        \E w \in Threads : waitingFor[t] = w /\ ~Idle(w) /\ root[w] = root[t] /\ level[w] = level[t] + 1
\* Only threads with one root know a context, or work for a renderer: above its render().
Shared(root) == \A t, u \in Threads : \A c \in Nat \ {0} : Has(t, c) /\ Has(u, c) => root[t] = root[u]
BasedOn(u, j, t, i, root, level) ==
    /\ frames[u][j].op = "render" /\ frames[u][j].renderer = frames[t][i].renderer /\ root[u] = root[t]
    /\ \/ u = t /\ j <= i
       \/ level[u] < level[t]
Based(root, level) ==
    \A t \in Threads : \A i \in DOMAIN frames[t] :
        \E u \in Threads : \E j \in DOMAIN frames[u] : BasedOn(u, j, t, i, root, level)
Chained(root, level) == Rooted(root, level) /\ Linear(root, level) /\ Awaited(root, level) /\ Shared(root) /\ Based(root, level)
ChainInv == \E root \in [Threads -> Threads], level \in [Threads -> Nat] : Chained(root, level)

\* A thread that runs is the last of its chain.
LEMMA LastInChain ==
    ASSUME NEW root, NEW level \in [Threads -> Nat], Linear(root, level), NEW t \in Threads, NEW u \in Threads,
           ~Idle(t), ~Idle(u), root[u] = root[t], waitingFor[t] = Null
    PROVE  level[u] <= level[t] /\ (u # t => level[u] < level[t])
<1>1. ~(level[t] < level[u]) /\ (level[t] = level[u] => t = u)
  BY DEF Linear
<1>2. level[t] \in Nat /\ level[u] \in Nat
  OBVIOUS
<1> QED BY <1>1, <1>2

\* The last thread's newest frames change, and what is new works for a renderer of the chain.
LEMMA ChainTurns ==
    ASSUME FramesInv, NEW root \in [Threads -> Threads], NEW level \in [Threads -> Nat], Chained(root, level),
           NEW t \in Threads, ~Idle(t), waitingFor[t] = Null, waitingFor' = waitingFor,
           NEW m, Turns(t, m), m = Len(frames[t]) \/ Top(t).op \notin {"render", "worker"},
           \A i \in DOMAIN frames'[t] : i > m =>
              /\ frames'[t][i].op \notin {"render", "worker"}
              /\ Learns(t, frames'[t][i])
              /\ \E u \in Threads : \E j \in DOMAIN frames[u] :
                    frames[u][j].renderer = frames'[t][i].renderer /\ root[u] = root[t]
    PROVE  Chained(root, level)'
<1>n. PICK n : n = Len(frames[t])
  OBVIOUS
<1>0. StacksFit /\ Rooted(root, level) /\ Linear(root, level) /\ Awaited(root, level) /\ Shared(root) /\ Based(root, level)
  BY DEF FramesInv, Chained
<1>1. /\ \A u \in Threads \ {t} : frames'[u] = frames[u]
      /\ m \in Nat /\ n \in Nat /\ m <= n /\ n <= m + 1 /\ DOMAIN frames[t] = 1..n /\ n > 0 /\ Top(t) = frames[t][n]
      /\ Len(frames'[t]) \in Nat /\ m <= Len(frames'[t]) /\ DOMAIN frames'[t] = 1..Len(frames'[t])
      /\ \A i \in 1..m : frames'[t][i] = frames[t][i]
  BY <1>n, <1>0, NotIdle DEF Turns, Top
<1>2. m = n \/ frames[t][n].op \notin {"render", "worker"}
  BY <1>n, <1>1
<1>3. m >= 1
  <2>1. frames[t][1].op \in {"render", "worker"}
    BY <1>0 DEF Rooted
  <2> QED BY <1>1, <1>2, <2>1
<1>4. \A u \in Threads : Idle(u)' <=> Idle(u)
  <2>1. <<>> \in Seq({}) /\ Len(<<>>) = 0
    OBVIOUS
  <2>2. frames'[t] # <<>>
    BY <1>1, <1>3, <2>1
  <2> QED BY <1>1, <2>2 DEF Idle
<1>5. LosesNone({"render"}) /\ LosesNone({"worker"})
  BY <1>n, <1>1, <1>2, Loses
<1>6. GainsNone({"render"}) /\ GainsNone({"worker"})
  BY Gains
<1>7. Rooted(root, level)'
  <2> SUFFICES ASSUME NEW u \in Threads, ~Idle(u)'
               PROVE  /\ ~Idle(root[u])' /\ root[root[u]] = root[u] /\ level[root[u]] = 0
                      /\ frames'[u][1].op = IF level[u] = 0 THEN "render" ELSE "worker"
                      /\ \A i \in DOMAIN frames'[u] : frames'[u][i].op = "worker" => i = 1
    BY DEF Rooted, Idle
  <2>1. /\ ~Idle(root[u]) /\ root[root[u]] = root[u] /\ level[root[u]] = 0
        /\ frames[u][1].op = IF level[u] = 0 THEN "render" ELSE "worker"
        /\ \A i \in DOMAIN frames[u] : frames[u][i].op = "worker" => i = 1
    BY <1>0, <1>4 DEF Rooted
  <2>2. frames'[u][1] = frames[u][1]
    <3>1. 1 \in 1..m
      BY <1>1, <1>3
    <3> QED BY <1>1, <3>1
  <2>3. ~Idle(root[u])'
    BY <1>4, <2>1
  <2>4. \A i \in DOMAIN frames'[u] : frames'[u][i].op = "worker" => i = 1
    BY <1>6, <2>1 DEF GainsNone, Same
  <2> QED BY <2>1, <2>2, <2>3, <2>4
<1>8. Linear(root, level)' /\ Awaited(root, level)'
  <2>1. Linear(root, level)'
    BY <1>0, <1>4 DEF Linear
  <2>2. Awaited(root, level)'
    <3> SUFFICES ASSUME NEW u \in Threads, waitingFor[u] # Null
                 PROVE  \E w \in Threads : waitingFor[u] = w /\ ~Idle(w)' /\ root[w] = root[u] /\ level[w] = level[u] + 1
      BY DEF Awaited, Idle
    <3>1. PICK w \in Threads : waitingFor[u] = w /\ ~Idle(w) /\ root[w] = root[u] /\ level[w] = level[u] + 1
      BY <1>0 DEF Awaited
    <3>2. ~Idle(w)'
      BY <1>4, <3>1
    <3> QED BY <3>1, <3>2
  <2> QED BY <2>1, <2>2
<1>9. Shared(root)'
  <2>1. ASSUME NEW u \in Threads, NEW c \in Nat \ {0}, Has(u, c)'
        PROVE  Has(u, c) \/ (u = t /\ \A v \in Threads : ~Has(v, c))
    <3>1. PICK i \in DOMAIN frames'[u] : Knows(frames'[u][i], c)
      BY <2>1 DEF Has
    <3>2. CASE u = t /\ i > m
      BY <3>1, <3>2 DEF Learns
    <3>3. CASE u = t /\ ~(i > m)
      <4>1. i \in 1..m /\ i \in DOMAIN frames[t]
        BY <1>1, <3>3
      <4> QED BY <1>1, <3>1, <3>3, <4>1 DEF Has
    <3>4. CASE u # t
      BY <1>1, <3>1, <3>4 DEF Has
    <3> QED BY <3>2, <3>3, <3>4
  <2> SUFFICES ASSUME NEW u \in Threads, NEW v \in Threads, NEW c \in Nat \ {0}, Has(u, c)', Has(v, c)'
               PROVE  root[u] = root[v]
    BY DEF Shared
  <2>2. Has(u, c) \/ (u = t /\ \A x \in Threads : ~Has(x, c))
    BY <2>1
  <2>3. Has(v, c) \/ (v = t /\ \A x \in Threads : ~Has(x, c))
    BY <2>1
  <2> QED BY <1>0, <2>2, <2>3 DEF Shared
<1>10. Based(root, level)'
  <2>1. ASSUME NEW u \in Threads, NEW i \in DOMAIN frames[u], NEW v \in Threads, NEW j \in DOMAIN frames[v],
               BasedOn(v, j, u, i, root, level)
        PROVE  j \in DOMAIN frames'[v] /\ frames'[v][j] = frames[v][j] /\ frames[v][j].op = "render"
    BY <1>5, <2>1 DEF BasedOn, LosesNone, Same
  <2> SUFFICES ASSUME NEW u \in Threads, NEW i \in DOMAIN frames'[u]
               PROVE  \E v \in Threads : \E j \in DOMAIN frames'[v] : BasedOn(v, j, u, i, root, level)'
    BY DEF Based, BasedOn
  <2>2. CASE ~(u = t /\ i > m)
    <3>1. i \in DOMAIN frames[u] /\ frames'[u][i] = frames[u][i]
      <4>1. CASE u # t
        BY <1>1, <4>1
      <4>2. CASE u = t
        <5>1. i \in 1..m /\ i \in DOMAIN frames[t]
          BY <1>1, <2>2, <4>2
        <5> QED BY <1>1, <4>2, <5>1
      <4> QED BY <4>1, <4>2
    <3>2. PICK v \in Threads : \E j \in DOMAIN frames[v] : BasedOn(v, j, u, i, root, level)
      BY <1>0, <3>1 DEF Based
    <3>3. PICK j \in DOMAIN frames[v] : BasedOn(v, j, u, i, root, level)
      BY <3>2
    <3>4. j \in DOMAIN frames'[v] /\ frames'[v][j] = frames[v][j]
      BY <2>1, <3>1, <3>3
    <3>5. BasedOn(v, j, u, i, root, level)'
      BY <3>1, <3>3, <3>4 DEF BasedOn
    <3> QED BY <3>4, <3>5
  <2>3. CASE u = t /\ i > m
    <3>1. PICK x \in Threads : \E k \in DOMAIN frames[x] : frames[x][k].renderer = frames'[t][i].renderer /\ root[x] = root[t]
      BY <2>3
    <3>2. PICK k \in DOMAIN frames[x] : frames[x][k].renderer = frames'[t][i].renderer /\ root[x] = root[t]
      BY <3>1
    <3>3. PICK v \in Threads : \E j \in DOMAIN frames[v] : BasedOn(v, j, x, k, root, level)
      BY <1>0 DEF Based
    <3>4. PICK j \in DOMAIN frames[v] : BasedOn(v, j, x, k, root, level)
      BY <3>3
    <3>5. j \in DOMAIN frames'[v] /\ frames'[v][j] = frames[v][j] /\ frames[v][j].op = "render"
      BY <2>1, <3>4
    <3>6. frames[v][j].renderer = frames'[t][i].renderer /\ root[v] = root[t]
      BY <3>2, <3>4 DEF BasedOn
    <3>7. CASE v = t
      <4>1. j \in 1..m
        BY <1>1, <1>2, <3>5, <3>7
      <4>2. j <= i
        BY <1>1, <2>3, <4>1
      <4>3. BasedOn(v, j, u, i, root, level)'
        BY <2>3, <3>5, <3>6, <3>7, <4>2 DEF BasedOn
      <4> QED BY <3>5, <4>3
    <3>8. CASE v # t
      <4>1. ~Idle(v)
        BY <1>0, NotIdle
      <4>2. level[v] < level[t]
        BY <1>0, <3>6, <3>8, <4>1, LastInChain
      <4>3. BasedOn(v, j, u, i, root, level)'
        BY <2>3, <3>5, <3>6, <4>2 DEF BasedOn
      <4> QED BY <3>5, <4>3
    <3> QED BY <3>7, <3>8
  <2> QED BY <2>2, <2>3
<1> QED BY <1>7, <1>8, <1>9, <1>10 DEF Chained

\* The last thread leaves a frame: none is left that works for the same render().  If it was
\* the thread's only one, no other thread is rooted there and whoever waited for it goes on.
LEMMA ChainPop ==
    ASSUME FramesInv, NEW root \in [Threads -> Threads], NEW level \in [Threads -> Nat], Chained(root, level),
           NEW t \in Threads, ~Idle(t), waitingFor[t] = Null, frames' = Popped(t),
           \A u \in Threads : waitingFor'[u] = IF Len(frames[t]) = 1 /\ waitingFor[u] = t THEN Null ELSE waitingFor[u],
           Top(t).op = "render" =>
               \A u \in Threads : \A i \in DOMAIN frames[u] :
                   frames[u][i].renderer = Top(t).renderer => u = t /\ i = Len(frames[t])
    PROVE  Chained(root, level)'
<1>n. PICK n : n = Len(frames[t])
  OBVIOUS
<1>0. StacksFit /\ Rooted(root, level) /\ Linear(root, level) /\ Awaited(root, level) /\ Shared(root) /\ Based(root, level)
  BY DEF FramesInv, Chained
<1>1. /\ \A u \in Threads \ {t} : frames'[u] = frames[u]
      /\ n \in Nat \ {0} /\ DOMAIN frames[t] = 1..n /\ Top(t) = frames[t][n]
      /\ Len(frames'[t]) = n - 1 /\ DOMAIN frames'[t] = 1..(n - 1)
      /\ \A i \in 1..(n - 1) : frames'[t][i] = frames[t][i]
  BY <1>n, <1>0, NotIdle, PopTurns DEF Turns, Top
<1>2. \A u \in Threads : Idle(u)' <=> Idle(u) \/ (u = t /\ n = 1)
  <2>1. <<>> \in Seq({}) /\ Len(<<>>) = 0
    OBVIOUS
  <2>2. n # 1 => frames'[t] # <<>>
    BY <1>1, <2>1
  <2>3. n = 1 => frames'[t] = <<>>
    <3>1. frames'[t] = SubSeq(frames[t], 1, n - 1)
      BY <1>n, <1>0 DEF Popped, StacksFit
    <3>2. n = 1 => SubSeq(frames[t], 1, n - 1) = <<>>
      <4> SUFFICES ASSUME n = 1 PROVE SubSeq(frames[t], 1, n - 1) = <<>>
        OBVIOUS
      <4>1. PICK S : frames[t] \in Seq(S)
        BY <1>0 DEF StacksFit, IsSeq
      <4>2. SubSeq(frames[t], 1, 0) = <<>>
        BY <4>1
      <4> QED BY <4>2
    <3> QED BY <3>1, <3>2
  <2> QED BY <1>1, <2>2, <2>3 DEF Idle
<1>3. ASSUME NEW u \in Threads, NEW i \in DOMAIN frames'[u]
      PROVE  i \in DOMAIN frames[u] /\ frames'[u][i] = frames[u][i] /\ ~(u = t /\ i = n)
  <2>1. CASE u # t
    BY <1>1, <2>1
  <2>2. CASE u = t
    <3>1. i \in 1..(n - 1) /\ i \in 1..n /\ i # n
      BY <1>1, <2>2
    <3> QED BY <1>1, <2>2, <3>1
  <2> QED BY <2>1, <2>2
<1>4. ASSUME n = 1, NEW u \in Threads, ~Idle(u), root[u] = t PROVE u = t
  <2>1. root[t] = t /\ level[t] = 0
    BY <1>0, <1>4 DEF Rooted
  <2>2. u # t => level[u] < level[t]
    BY <1>0, <1>4, <2>1, LastInChain
  <2>3. level[u] \in Nat
    OBVIOUS
  <2> QED BY <2>1, <2>2, <2>3
<1>5. Rooted(root, level)'
  <2> SUFFICES ASSUME NEW u \in Threads, ~Idle(u)'
               PROVE  /\ ~Idle(root[u])' /\ root[root[u]] = root[u] /\ level[root[u]] = 0
                      /\ frames'[u][1].op = IF level[u] = 0 THEN "render" ELSE "worker"
                      /\ \A i \in DOMAIN frames'[u] : frames'[u][i].op = "worker" => i = 1
    BY DEF Rooted, Idle
  <2>1. ~Idle(u) /\ ~(u = t /\ n = 1)
    BY <1>2
  <2>2. /\ ~Idle(root[u]) /\ root[root[u]] = root[u] /\ level[root[u]] = 0
        /\ frames[u][1].op = IF level[u] = 0 THEN "render" ELSE "worker"
        /\ \A i \in DOMAIN frames[u] : frames[u][i].op = "worker" => i = 1
    BY <1>0, <2>1 DEF Rooted
  <2>3. frames'[u][1] = frames[u][1]
    <3>1. CASE u = t
      <4>1. 1 \in 1..(n - 1)
        BY <1>1, <2>1, <3>1
      <4> QED BY <1>1, <3>1, <4>1
    <3> QED BY <1>1, <3>1
  <2>4. ~Idle(root[u])'
    BY <1>2, <1>4, <2>1, <2>2
  <2>5. \A i \in DOMAIN frames'[u] : frames'[u][i].op = "worker" => i = 1
    BY <1>3, <2>2
  <2> QED BY <2>2, <2>3, <2>4, <2>5
<1>6. Linear(root, level)'
  <2> SUFFICES ASSUME NEW u \in Threads, NEW v \in Threads, ~Idle(u)', ~Idle(v)', root[u] = root[v]
               PROVE  (level[u] = level[v] => u = v) /\ (level[u] < level[v] => waitingFor'[u] # Null)
    BY DEF Linear, Idle
  <2>1. ~Idle(u) /\ ~Idle(v) /\ ~(v = t /\ n = 1)
    BY <1>2
  <2>2. (level[u] = level[v] => u = v) /\ (level[u] < level[v] => waitingFor[u] # Null)
    BY <1>0, <2>1 DEF Linear
  <2>3. ASSUME n = 1, waitingFor[u] = t PROVE ~(level[u] < level[v])
    <3>1. level[t] = level[u] + 1 /\ root[t] = root[u]
      BY <1>0, <2>3, NullAssumption DEF Awaited
    <3>2. level[v] < level[t]
      BY <1>0, <2>1, <2>3, <3>1, LastInChain
    <3>3. level[v] \in Nat /\ level[u] \in Nat
      OBVIOUS
    <3> QED BY <3>1, <3>2, <3>3
  <2> QED BY <1>n, <2>2, <2>3
<1>7. Awaited(root, level)'
  <2> SUFFICES ASSUME NEW u \in Threads, waitingFor'[u] # Null
               PROVE  \E w \in Threads : waitingFor'[u] = w /\ ~Idle(w)' /\ root[w] = root[u] /\ level[w] = level[u] + 1
    BY DEF Awaited, Idle
  <2>1. waitingFor'[u] = waitingFor[u] /\ ~(waitingFor[u] = t /\ n = 1)
    BY <1>n
  <2>2. PICK w \in Threads : waitingFor[u] = w /\ ~Idle(w) /\ root[w] = root[u] /\ level[w] = level[u] + 1
    BY <1>0, <2>1 DEF Awaited
  <2>3. ~Idle(w)'
    BY <1>2, <2>1, <2>2
  <2> QED BY <2>1, <2>2, <2>3
<1>8. Shared(root)'
  <2>1. \A u \in Threads, c \in Nat \ {0} : Has(u, c)' => Has(u, c)
    BY <1>3 DEF Has
  <2> QED BY <1>0, <2>1 DEF Shared
<1>9. Based(root, level)'
  <2> SUFFICES ASSUME NEW u \in Threads, NEW i \in DOMAIN frames'[u]
               PROVE  \E v \in Threads : \E j \in DOMAIN frames'[v] : BasedOn(v, j, u, i, root, level)'
    BY DEF Based, BasedOn
  <2>1. i \in DOMAIN frames[u] /\ frames'[u][i] = frames[u][i] /\ ~(u = t /\ i = n)
    BY <1>3
  <2>2. PICK v \in Threads : \E j \in DOMAIN frames[v] : BasedOn(v, j, u, i, root, level)
    BY <1>0, <2>1 DEF Based
  <2>3. PICK j \in DOMAIN frames[v] : BasedOn(v, j, u, i, root, level)
    BY <2>2
  <2>4. ~(v = t /\ j = n)
    <3> SUFFICES ASSUME v = t, j = n PROVE FALSE
      OBVIOUS
    <3>1. Top(t).op = "render" /\ frames[u][i].renderer = Top(t).renderer
      BY <1>1, <2>3 DEF BasedOn
    <3> QED BY <1>n, <2>1, <3>1
  <2>5. j \in DOMAIN frames'[v] /\ frames'[v][j] = frames[v][j]
    BY <1>1, <2>4
  <2>6. BasedOn(v, j, u, i, root, level)'
    BY <2>1, <2>3, <2>5 DEF BasedOn
  <2> QED BY <2>5, <2>6
<1> QED BY <1>5, <1>6, <1>7, <1>8, <1>9 DEF Chained

\* render() ends as the last frame that works for its renderer.
LEMMA ChainEnds ==
    ASSUME RegistryInv, EngineInv, NEW root \in [Threads -> Threads], NEW level \in [Threads -> Nat], Chained(root, level),
           NEW t \in Threads, FinishRender(t)
    PROVE  /\ \A u \in Threads : \A i \in DOMAIN frames[u] :
                 frames[u][i].renderer = Top(t).renderer => u = t /\ i = Len(frames[t])
           /\ Deserted(Top(t).renderer) /\ Chained(root, level)'
<1>n. PICK n : n = Len(frames[t])
  OBVIOUS
<1>r. PICK r : r = Top(t).renderer
  OBVIOUS
<1>0. StacksFit /\ Rooted(root, level) /\ Linear(root, level) /\ Awaited(root, level) /\ Based(root, level)
  BY DEF RegistryInv, FramesInv, Chained
<1>1. ~Idle(t) /\ waitingFor[t] = Null /\ Top(t).op = "render" /\ frames' = Popped(t) /\ waitingFor' = waitingFor
  BY DEF FinishRender, Running
<1>2. n \in Nat \ {0} /\ n \in DOMAIN frames[t] /\ Top(t) = frames[t][n] /\ DOMAIN frames[t] = 1..n
  BY <1>1, <1>n, TopFits DEF RegistryInv, Top
<1>3. ASSUME NEW u \in Threads, NEW i \in DOMAIN frames[u], frames[u][i].renderer = r PROVE u = t /\ i = n
  <2>1. PICK v \in Threads : \E j \in DOMAIN frames[v] : BasedOn(v, j, u, i, root, level)
    BY <1>0 DEF Based
  <2>2. PICK j \in DOMAIN frames[v] : BasedOn(v, j, u, i, root, level)
    BY <2>1
  <2>3. v = t /\ j = n
    BY <1>1, <1>2, <1>3, <1>r, <2>2 DEF BasedOn, EngineInv, RendersOwn
  <2>4. ~(level[t] < level[u])
    <3>1. root[u] = root[t]
      BY <2>2, <2>3 DEF BasedOn
    <3>2. ~Idle(u)
      BY <1>0, NotIdle
    <3>3. level[u] <= level[t] /\ level[u] \in Nat /\ level[t] \in Nat
      BY <1>0, <1>1, <3>1, <3>2, LastInChain
    <3> QED BY <3>3
  <2>5. u = t /\ n <= i
    BY <2>2, <2>3, <2>4 DEF BasedOn
  <2> QED BY <1>2, <2>5
<1>4. Deserted(r)
  BY <1>1, <1>2, <1>3 DEF Deserted, Callbacks
<1>5. ASSUME NEW u \in Threads, n = 1, waitingFor[u] = t PROVE FALSE
  <2>1. frames[t][1].op = "render"
    BY <1>1, <1>2, <1>5
  <2>2. level[t] = 0
    BY <1>0, <1>1, <2>1 DEF Rooted
  <2>3. level[t] = level[u] + 1 /\ level[u] \in Nat
    BY <1>0, <1>5, NullAssumption DEF Awaited
  <2> QED BY <2>2, <2>3
<1>6. \A u \in Threads : waitingFor'[u] = IF Len(frames[t]) = 1 /\ waitingFor[u] = t THEN Null ELSE waitingFor[u]
  BY <1>n, <1>1, <1>5
<1>7. Top(t).op = "render" =>
        \A u \in Threads : \A i \in DOMAIN frames[u] : frames[u][i].renderer = Top(t).renderer => u = t /\ i = Len(frames[t])
  BY <1>n, <1>r, <1>3
<1>8. Chained(root, level)'
  BY <1>1, <1>6, <1>7, ChainPop DEF RegistryInv
<1> QED BY <1>1, <1>r, <1>4, <1>7, <1>8

LEMMA ChainFinishWorker ==
    ASSUME FramesInv, WaitsInCallback, NEW root \in [Threads -> Threads], NEW level \in [Threads -> Nat], Chained(root, level),
           NEW t \in Threads, FinishWorker(t)
    PROVE  Chained(root, level)'
<1>1. ~Idle(t) /\ waitingFor[t] = Null /\ Top(t).op = "worker" /\ frames' = Popped(t)
      /\ waitingFor' = [u \in Threads |-> IF waitingFor[u] = t THEN Null ELSE waitingFor[u]]
  BY DEF FinishWorker, Running
<1>2. Len(frames[t]) \in DOMAIN frames[t] /\ Top(t) = frames[t][Len(frames[t])]
  BY <1>1, TopFits DEF Top
<1>3. Len(frames[t]) = 1
  BY <1>1, <1>2 DEF Chained, Rooted
<1>4. \A u \in Threads : waitingFor'[u] = IF Len(frames[t]) = 1 /\ waitingFor[u] = t THEN Null ELSE waitingFor[u]
  BY <1>1, <1>3
<1> QED BY <1>1, <1>4, ChainPop

\* A running thread begins a render() of a renderer that nothing works for.
LEMMA ChainNested ==
    ASSUME RegistryInv, EngineInv, NEW root \in [Threads -> Threads], NEW level \in [Threads -> Nat], Chained(root, level),
           NEW t \in Threads, NEW r \in Renderers, StartRender(t, r), ~Idle(t)
    PROVE  Chained(root, level)'
<1>n. PICK n : n = Len(frames[t])
  OBVIOUS
<1>f. PICK f : f = Frame("render", r, 0)
  OBVIOUS
<1>0. StacksFit /\ Rooted(root, level) /\ Linear(root, level) /\ Awaited(root, level) /\ Shared(root) /\ Based(root, level)
  BY DEF RegistryInv, FramesInv, Chained
<1>1. f.op = "render" /\ f.renderer = r /\ f.context = 0 /\ frames' = Pushed(t, f) /\ waitingFor' = waitingFor
  BY <1>f DEF StartRender, Frame
<1>h. \A c \in Nat \ {0} : ~Knows(f, c)
  BY <1>f DEF Frame, Knows
<1>2. /\ \A u \in Threads \ {t} : frames'[u] = frames[u]
      /\ n \in Nat \ {0} /\ DOMAIN frames[t] = 1..n /\ DOMAIN frames'[t] = 1..(n + 1) /\ frames'[t][n + 1] = f
      /\ \A i \in 1..n : frames'[t][i] = frames[t][i]
  BY <1>n, <1>0, <1>1, NotIdle, PushTurns DEF Turns, RegistryInv
<1>3. ASSUME NEW u \in Threads, NEW i \in DOMAIN frames[u]
      PROVE  i \in DOMAIN frames'[u] /\ frames'[u][i] = frames[u][i]
  <2>1. CASE u = t
    <3>1. i \in 1..n /\ i \in 1..(n + 1)
      BY <1>2, <2>1
    <3> QED BY <1>2, <2>1, <3>1
  <2> QED BY <1>2, <2>1
<1>4. ASSUME NEW u \in Threads, NEW i \in DOMAIN frames'[u]
      PROVE  i \in DOMAIN frames[u] \/ (u = t /\ i = n + 1)
  BY <1>2
<1>5. \A u \in Threads : Idle(u)' <=> Idle(u)
  <2>1. <<>> \in Seq({}) /\ Len(<<>>) = 0
    OBVIOUS
  <2>2. frames'[t] # <<>>
    <3>1. DOMAIN <<>> = {}
      BY <2>1
    <3> QED BY <1>2, <3>1
  <2> QED BY <1>2, <2>2 DEF Idle
<1>6. Rooted(root, level)'
  <2> SUFFICES ASSUME NEW u \in Threads, ~Idle(u)'
               PROVE  /\ ~Idle(root[u])' /\ root[root[u]] = root[u] /\ level[root[u]] = 0
                      /\ frames'[u][1].op = IF level[u] = 0 THEN "render" ELSE "worker"
                      /\ \A i \in DOMAIN frames'[u] : frames'[u][i].op = "worker" => i = 1
    BY DEF Rooted, Idle
  <2>1. /\ ~Idle(root[u]) /\ root[root[u]] = root[u] /\ level[root[u]] = 0
        /\ frames[u][1].op = IF level[u] = 0 THEN "render" ELSE "worker"
        /\ \A i \in DOMAIN frames[u] : frames[u][i].op = "worker" => i = 1
    BY <1>0, <1>5 DEF Rooted
  <2>2. frames'[u][1] = frames[u][1]
    <3>1. 1 \in 1..n
      BY <1>2
    <3>2. CASE u = t
      BY <1>2, <3>1, <3>2
    <3>3. CASE u # t
      BY <1>2, <3>3
    <3> QED BY <3>2, <3>3
  <2>3. ~Idle(root[u])'
    BY <1>5, <2>1
  <2>4. \A i \in DOMAIN frames'[u] : frames'[u][i].op = "worker" => i = 1
    BY <1>1, <1>2, <1>3, <1>4, <2>1
  <2> QED BY <2>1, <2>2, <2>3, <2>4
<1>7. Linear(root, level)' /\ Awaited(root, level)'
  BY <1>0, <1>1, <1>5 DEF Linear, Awaited
<1>8. Shared(root)'
  <2>1. ASSUME NEW u \in Threads, NEW c \in Nat \ {0}, Has(u, c)' PROVE Has(u, c)
    <3>1. PICK i \in DOMAIN frames'[u] : Knows(frames'[u][i], c)
      BY <2>1 DEF Has
    <3>2. i \in DOMAIN frames[u]
      BY <1>h, <1>2, <1>4, <3>1
    <3> QED BY <1>3, <3>1, <3>2 DEF Has
  <2> QED BY <1>0, <2>1 DEF Shared
<1>9. Based(root, level)'
  <2> SUFFICES ASSUME NEW u \in Threads, NEW i \in DOMAIN frames'[u]
               PROVE  \E v \in Threads : \E j \in DOMAIN frames'[v] : BasedOn(v, j, u, i, root, level)'
    BY DEF Based, BasedOn
  <2>1. CASE i \in DOMAIN frames[u]
    <3>1. PICK v \in Threads : \E j \in DOMAIN frames[v] : BasedOn(v, j, u, i, root, level)
      BY <1>0, <2>1 DEF Based
    <3>2. PICK j \in DOMAIN frames[v] : BasedOn(v, j, u, i, root, level)
      BY <3>1
    <3>3. frames'[u][i] = frames[u][i] /\ j \in DOMAIN frames'[v] /\ frames'[v][j] = frames[v][j]
      BY <1>3, <2>1
    <3>4. BasedOn(v, j, u, i, root, level)'
      BY <3>2, <3>3 DEF BasedOn
    <3> QED BY <3>3, <3>4
  <2>2. CASE u = t /\ i = n + 1
    <3>1. n + 1 \in DOMAIN frames'[t] /\ n + 1 <= n + 1
      BY <1>2
    <3>2. BasedOn(t, n + 1, u, i, root, level)'
      BY <1>1, <1>2, <2>2, <3>1 DEF BasedOn
    <3> QED BY <3>1, <3>2
  <2> QED BY <1>4, <2>1, <2>2
<1> QED BY <1>6, <1>7, <1>8, <1>9 DEF Chained

\* An idle thread w begins: with a render(), or as a worker that thread t waits for.
LEMMA ChainBegins ==
    ASSUME FramesInv, WaitsInCallback, NEW root \in [Threads -> Threads], NEW level \in [Threads -> Nat], Chained(root, level),
           NEW w \in Threads, Idle(w), NEW f, frames' = Pushed(w, f),
           NEW root2 \in [Threads -> Threads], NEW level2 \in [Threads -> Nat],
           \A u \in Threads \ {w} : root2[u] = root[u] /\ level2[u] = level[u],
           \/ /\ root2[w] = w /\ level2[w] = 0 /\ f.op = "render" /\ Nothing(f) /\ waitingFor' = waitingFor
           \/ \E t \in Threads :
                 /\ ~Idle(t) /\ waitingFor[t] = Null /\ root2[w] = root[t] /\ level2[w] = level[t] + 1
                 /\ f.op = "worker" /\ f.renderer = Top(t).renderer /\ Knowing(t, f)
                 /\ waitingFor'[t] = w /\ \A u \in Threads \ {t} : waitingFor'[u] = waitingFor[u]
    PROVE  Chained(root2, level2)'
<1> DEFINE Own0 == root2[w] = w /\ level2[w] = 0 /\ f.op = "render" /\ Nothing(f) /\ waitingFor' = waitingFor
           Worker(t) ==
                 /\ ~Idle(t) /\ waitingFor[t] = Null /\ root2[w] = root[t] /\ level2[w] = level[t] + 1
                 /\ f.op = "worker" /\ f.renderer = Top(t).renderer /\ Knowing(t, f)
                 /\ waitingFor'[t] = w /\ \A u \in Threads \ {t} : waitingFor'[u] = waitingFor[u]
<1>0. StacksFit /\ Rooted(root, level) /\ Linear(root, level) /\ Awaited(root, level) /\ Shared(root) /\ Based(root, level)
  BY DEF FramesInv, Chained
<1>1. /\ \A u \in Threads \ {w} : frames'[u] = frames[u]
      /\ DOMAIN frames[w] = {} /\ DOMAIN frames'[w] = {1} /\ frames'[w][1] = f
  <2>1. <<>> \in Seq({}) /\ Len(<<>>) = 0
    OBVIOUS
  <2>2. DOMAIN <<>> = {} /\ Len(frames[w]) = 0
    BY <2>1 DEF Idle
  <2>3. /\ Turns(w, Len(frames[w])) /\ Len(frames'[w]) = Len(frames[w]) + 1 /\ frames'[w][Len(frames[w]) + 1] = f
    BY PushTurns
  <2>4. DOMAIN frames'[w] = 1..1 /\ frames'[w][1] = f
    BY <2>2, <2>3 DEF Turns
  <2>5. 1..1 = {1}
    OBVIOUS
  <2> QED BY <2>2, <2>3, <2>4, <2>5 DEF Turns, Idle
<1>2. \A u \in Threads : ~Idle(u)' <=> ~Idle(u) \/ u = w
  <2>1. <<>> \in Seq({}) /\ Len(<<>>) = 0
    OBVIOUS
  <2>2. DOMAIN <<>> = {}
    BY <2>1
  <2>3. frames'[w] # <<>>
    BY <1>1, <2>2
  <2> QED BY <1>1, <2>3 DEF Idle
<1>3. \A u \in Threads : ~Idle(u) => u # w /\ root[u] \in Threads /\ root[u] # w /\ ~Idle(root[u])
  BY <1>0 DEF Rooted
<1>4. Own0 \/ \E t \in Threads : Worker(t)
  OBVIOUS
<1>5. \A u \in Threads : u # w => (root2[u] = root[u] /\ level2[u] = level[u])
  OBVIOUS
<1>6. \A u \in Threads : waitingFor[u] # Null => u # w /\ waitingFor[u] # w
  BY <1>0 DEF WaitsInCallback, Awaited
<1>7. \A u \in Threads : waitingFor[u] # Null => waitingFor'[u] # Null
  <2>1. w # Null
    BY NullAssumption
  <2> QED BY <1>4, <2>1
<1>8. Rooted(root2, level2)'
  <2> SUFFICES ASSUME NEW u \in Threads, ~Idle(u)'
               PROVE  /\ ~Idle(root2[u])' /\ root2[root2[u]] = root2[u] /\ level2[root2[u]] = 0
                      /\ frames'[u][1].op = IF level2[u] = 0 THEN "render" ELSE "worker"
                      /\ \A i \in DOMAIN frames'[u] : frames'[u][i].op = "worker" => i = 1
    BY DEF Rooted, Idle
  <2>1. ASSUME NEW t \in Threads, ~Idle(t)
        PROVE  root[t] # w /\ ~Idle(root[t])' /\ root2[root[t]] = root[t] /\ level2[root[t]] = 0
    BY <1>0, <1>2, <1>3, <1>5, <2>1 DEF Rooted
  <2>2. CASE u # w
    <3>1. ~Idle(u) /\ root2[u] = root[u] /\ level2[u] = level[u] /\ frames'[u] = frames[u]
      BY <1>1, <1>2, <1>5, <2>2
    <3> QED BY <1>0, <2>1, <3>1 DEF Rooted
  <2>3. CASE u = w
    <3>1. \A i \in DOMAIN frames'[u] : frames'[u][i].op = "worker" => i = 1
      BY <1>1, <2>3
    <3>2. CASE Own0
      BY <1>1, <2>3, <3>1, <3>2
    <3>3. CASE \E t \in Threads : Worker(t)
      <4>1. PICK t \in Threads : Worker(t)
        BY <3>3
      <4>2. root2[u] = root[t] /\ level2[u] # 0 /\ frames'[u][1].op = "worker"
        BY <1>1, <2>3, <4>1
      <4> QED BY <2>1, <3>1, <4>1, <4>2
    <3> QED BY <1>4, <3>2, <3>3
  <2> QED BY <2>2, <2>3
<1>9. ASSUME NEW u \in Threads, ~Idle(u), root2[u] = root2[w]
      PROVE  level2[u] < level2[w] /\ waitingFor'[u] # Null
  <2>1. u # w /\ root2[u] = root[u] /\ level2[u] = level[u] /\ root[u] # w
    BY <1>3, <1>5, <1>9
  <2>2. PICK t \in Threads : Worker(t)
    BY <1>4, <1>9, <2>1
  <2>3. root[u] = root[t]
    BY <1>9, <2>1, <2>2
  <2>4. level[u] <= level[t] /\ (u # t => level[u] < level[t])
    BY <1>0, <1>9, <2>2, <2>3, LastInChain
  <2>5. level[u] \in Nat /\ level[t] \in Nat /\ level2[w] = level[t] + 1
    BY <2>2
  <2>6. CASE u = t
    BY <2>1, <2>2, <2>4, <2>5, <2>6, NullAssumption
  <2>7. CASE u # t
    <3>1. waitingFor[u] # Null
      BY <1>0, <1>9, <2>2, <2>3, <2>4, <2>7 DEF Linear
    <3> QED BY <1>7, <2>1, <2>4, <2>5, <2>7, <3>1
  <2> QED BY <2>6, <2>7
<1>10. Linear(root2, level2)'
  <2> SUFFICES ASSUME NEW u \in Threads, NEW v \in Threads, ~Idle(u)', ~Idle(v)', root2[u] = root2[v]
               PROVE  (level2[u] = level2[v] => u = v) /\ (level2[u] < level2[v] => waitingFor'[u] # Null)
    BY DEF Linear, Idle
  <2>0. level2[u] \in Nat /\ level2[v] \in Nat
    OBVIOUS
  <2>1. CASE u = w /\ v = w
    BY <2>0, <2>1
  <2>2. CASE u # w /\ v # w
    <3>1. ~Idle(u) /\ ~Idle(v) /\ root[u] = root[v] /\ level2[u] = level[u] /\ level2[v] = level[v]
      BY <1>2, <1>5, <2>2
    <3>2. (level[u] = level[v] => u = v) /\ (level[u] < level[v] => waitingFor[u] # Null)
      BY <1>0, <3>1 DEF Linear
    <3> QED BY <1>7, <3>1, <3>2
  <2>3. CASE u # w /\ v = w
    <3>1. level2[u] < level2[v] /\ waitingFor'[u] # Null
      BY <1>2, <1>9, <2>3
    <3> QED BY <2>0, <3>1
  <2>4. CASE u = w /\ v # w
    <3>1. level2[v] < level2[u]
      BY <1>2, <1>9, <2>4
    <3> QED BY <2>0, <3>1
  <2> QED BY <2>1, <2>2, <2>3, <2>4
<1>11. Awaited(root2, level2)'
  <2> SUFFICES ASSUME NEW u \in Threads, waitingFor'[u] # Null
               PROVE  \E x \in Threads : waitingFor'[u] = x /\ ~Idle(x)' /\ root2[x] = root2[u] /\ level2[x] = level2[u] + 1
    BY DEF Awaited, Idle
  <2>1. CASE waitingFor[u] # Null /\ waitingFor'[u] = waitingFor[u]
    <3>1. PICK x \in Threads : waitingFor[u] = x /\ ~Idle(x) /\ root[x] = root[u] /\ level[x] = level[u] + 1
      BY <1>0, <2>1 DEF Awaited
    <3>2. x # w /\ u # w /\ ~Idle(x)'
      BY <1>2, <1>6, <2>1, <3>1
    <3> QED BY <1>5, <2>1, <3>1, <3>2
  <2>2. CASE ~(waitingFor[u] # Null /\ waitingFor'[u] = waitingFor[u])
    <3>1. PICK t \in Threads : Worker(t)
      BY <1>4, <2>2
    <3>2. u = t
      BY <2>2, <3>1
    <3>3. u # w
      BY <1>3, <3>1, <3>2
    <3>4. waitingFor'[u] = w /\ ~Idle(w)' /\ root2[w] = root2[u] /\ level2[w] = level2[u] + 1
      BY <1>2, <1>5, <3>1, <3>2, <3>3
    <3> QED BY <3>4
  <2> QED BY <2>1, <2>2
<1>12. Shared(root2)'
  <2>1. ASSUME NEW u \in Threads, NEW c \in Nat \ {0}, Has(u, c)'
        PROVE  \E x \in Threads : Has(x, c) /\ root2[u] = root[x]
    <3>1. PICK i \in DOMAIN frames'[u] : Knows(frames'[u][i], c)
      BY <2>1 DEF Has
    <3>2. CASE u # w
      <4>1. Has(u, c)
        BY <1>1, <3>1, <3>2 DEF Has
      <4> QED BY <1>5, <3>2, <4>1
    <3>3. CASE u = w
      <4>1. Knows(f, c)
        BY <1>1, <3>1, <3>3
      <4>2. PICK t \in Threads : Worker(t)
        BY <1>4, <4>1 DEF Nothing
      <4> QED BY <3>3, <4>1, <4>2 DEF Knowing
    <3> QED BY <3>2, <3>3
  <2> SUFFICES ASSUME NEW u \in Threads, NEW v \in Threads, NEW c \in Nat \ {0}, Has(u, c)', Has(v, c)'
               PROVE  root2[u] = root2[v]
    BY DEF Shared
  <2>2. PICK x \in Threads : Has(x, c) /\ root2[u] = root[x]
    BY <2>1
  <2>3. PICK y \in Threads : Has(y, c) /\ root2[v] = root[y]
    BY <2>1
  <2> QED BY <1>0, <2>2, <2>3 DEF Shared
<1>13. Based(root2, level2)'
  <2>1. ASSUME NEW u \in Threads, NEW i \in DOMAIN frames[u]
        PROVE  \E v \in Threads : \E j \in DOMAIN frames'[v] :
                  /\ frames'[v][j].op = "render" /\ frames'[v][j].renderer = frames[u][i].renderer /\ root2[v] = root2[u]
                  /\ u # w /\ level2[v] = level[v] /\ v # w
                  /\ (v = u /\ j <= i) \/ level[v] < level[u]
    <3>1. PICK v \in Threads : \E j \in DOMAIN frames[v] : BasedOn(v, j, u, i, root, level)
      BY <1>0 DEF Based
    <3>2. PICK j \in DOMAIN frames[v] : BasedOn(v, j, u, i, root, level)
      BY <3>1
    <3>3. ~Idle(u) /\ ~Idle(v)
      BY <1>0, NotIdle
    <3>4. u # w /\ v # w /\ frames'[v] = frames[v]
      BY <1>1, <3>3
    <3> QED BY <1>5, <3>2, <3>4 DEF BasedOn
  <2> SUFFICES ASSUME NEW u \in Threads, NEW i \in DOMAIN frames'[u]
               PROVE  \E v \in Threads : \E j \in DOMAIN frames'[v] : BasedOn(v, j, u, i, root2, level2)'
    BY DEF Based, BasedOn
  <2>2. CASE u # w
    <3>1. i \in DOMAIN frames[u] /\ frames'[u][i] = frames[u][i] /\ level2[u] = level[u]
      BY <1>1, <1>5, <2>2
    <3>2. PICK v \in Threads : \E j \in DOMAIN frames'[v] :
                  /\ frames'[v][j].op = "render" /\ frames'[v][j].renderer = frames[u][i].renderer /\ root2[v] = root2[u]
                  /\ u # w /\ level2[v] = level[v] /\ v # w
                  /\ (v = u /\ j <= i) \/ level[v] < level[u]
      BY <2>1, <3>1
    <3>3. PICK j \in DOMAIN frames'[v] :
                  /\ frames'[v][j].op = "render" /\ frames'[v][j].renderer = frames[u][i].renderer /\ root2[v] = root2[u]
                  /\ u # w /\ level2[v] = level[v] /\ v # w
                  /\ (v = u /\ j <= i) \/ level[v] < level[u]
      BY <3>2
    <3>4. BasedOn(v, j, u, i, root2, level2)'
      BY <3>1, <3>3 DEF BasedOn
    <3> QED BY <3>3, <3>4
  <2>3. CASE u = w
    <3>0. i = 1 /\ frames'[u][i] = f
      BY <1>1, <2>3
    <3>1. CASE Own0
      <4>1. BasedOn(w, 1, u, i, root2, level2)'
        BY <1>1, <2>3, <3>0, <3>1 DEF BasedOn
      <4>2. 1 \in DOMAIN frames'[w]
        BY <1>1
      <4> QED BY <4>1, <4>2
    <3>2. CASE \E t \in Threads : Worker(t)
      <4>1. PICK t \in Threads : Worker(t)
        BY <3>2
      <4>2. PICK n : n = Len(frames[t])
        OBVIOUS
      <4>3. n \in DOMAIN frames[t] /\ Top(t) = frames[t][n]
        BY <4>1, <4>2, TopFits DEF Top
      <4>4. PICK v \in Threads : \E j \in DOMAIN frames'[v] :
                  /\ frames'[v][j].op = "render" /\ frames'[v][j].renderer = frames[t][n].renderer /\ root2[v] = root2[t]
                  /\ t # w /\ level2[v] = level[v] /\ v # w
                  /\ (v = t /\ j <= n) \/ level[v] < level[t]
        BY <2>1, <4>3
      <4>5. PICK j \in DOMAIN frames'[v] :
                  /\ frames'[v][j].op = "render" /\ frames'[v][j].renderer = frames[t][n].renderer /\ root2[v] = root2[t]
                  /\ t # w /\ level2[v] = level[v] /\ v # w
                  /\ (v = t /\ j <= n) \/ level[v] < level[t]
        BY <4>4
      <4>6. level2[v] < level2[w]
        <5>1. level[v] \in Nat /\ level[t] \in Nat /\ level2[w] = level[t] + 1
          BY <4>1
        <5> QED BY <4>5, <5>1
      <4>7. root2[v] = root2[w] /\ frames'[v][j].renderer = f.renderer
        BY <1>5, <4>1, <4>3, <4>5
      <4>8. BasedOn(v, j, u, i, root2, level2)'
        BY <2>3, <3>0, <4>5, <4>6, <4>7 DEF BasedOn
      <4> QED BY <4>5, <4>8
    <3> QED BY <1>4, <3>1, <3>2
  <2> QED BY <2>2, <2>3
<1> QED BY <1>8, <1>10, <1>11, <1>12, <1>13 DEF Chained

\* The last thread pushes, rewrites or drops its newest frame.
LEMMA ChainPush ==
    ASSUME FramesInv, NEW root \in [Threads -> Threads], NEW level \in [Threads -> Nat], Chained(root, level),
           NEW t \in Threads, ~Idle(t), waitingFor[t] = Null, waitingFor' = waitingFor,
           NEW f, frames' = Pushed(t, f), f.op \notin {"render", "worker"}, f.renderer = Top(t).renderer,
           Learns(t, f)
    PROVE  Chained(root, level)'
<1>1. /\ Turns(t, Len(frames[t])) /\ Len(frames'[t]) = Len(frames[t]) + 1 /\ frames'[t][Len(frames[t]) + 1] = f
  BY PushTurns
<1>2. \A i \in DOMAIN frames'[t] : i > Len(frames[t]) => frames'[t][i] = f
  BY <1>1 DEF Turns
<1>3. Len(frames[t]) \in DOMAIN frames[t] /\ frames[t][Len(frames[t])].renderer = f.renderer /\ root[t] = root[t]
  BY TopFits DEF Top
<1>4. \A i \in DOMAIN frames'[t] : i > Len(frames[t]) =>
              /\ frames'[t][i].op \notin {"render", "worker"}
              /\ Learns(t, frames'[t][i])
              /\ \E u \in Threads : \E j \in DOMAIN frames[u] :
                    frames[u][j].renderer = frames'[t][i].renderer /\ root[u] = root[t]
  BY <1>2, <1>3
<1> QED BY <1>1, <1>4, ChainTurns

LEMMA ChainPut ==
    ASSUME FramesInv, NEW root \in [Threads -> Threads], NEW level \in [Threads -> Nat], Chained(root, level),
           NEW t \in Threads, ~Idle(t), waitingFor[t] = Null, waitingFor' = waitingFor, Top(t).op \notin {"render", "worker"},
           Turns(t, Len(frames[t]) - 1), Len(frames'[t]) = Len(frames[t]),
           NEW f, frames'[t][Len(frames[t])] = f, f.op \notin {"render", "worker"}, f.context = Top(t).context, f.handles = {} \/ f.handles = Top(t).handles,
           \E u \in Threads : \E j \in DOMAIN frames[u] : frames[u][j].renderer = f.renderer /\ root[u] = root[t]
    PROVE  Chained(root, level)'
<1>1. \A i \in DOMAIN frames'[t] : i > Len(frames[t]) - 1 => frames'[t][i] = f
  BY DEF Turns
<1>2. Learns(t, f)
  <2>1. Len(frames[t]) \in DOMAIN frames[t] /\ frames[t][Len(frames[t])] = Top(t)
    BY TopFits DEF Top
  <2>2. \A c \in Nat \ {0} : Knows(f, c) => Knows(Top(t), c)
    BY DEF Knows
  <2> QED BY <2>1, <2>2 DEF Learns, Has
<1>3. \A i \in DOMAIN frames'[t] : i > Len(frames[t]) - 1 =>
              /\ frames'[t][i].op \notin {"render", "worker"}
              /\ Learns(t, frames'[t][i])
              /\ \E u \in Threads : \E j \in DOMAIN frames[u] :
                    frames[u][j].renderer = frames'[t][i].renderer /\ root[u] = root[t]
  BY <1>1, <1>2
<1> QED BY <1>3, ChainTurns

LEMMA ChainDrop ==
    ASSUME FramesInv, NEW root \in [Threads -> Threads], NEW level \in [Threads -> Nat], Chained(root, level),
           NEW t \in Threads, ~Idle(t), waitingFor[t] = Null, waitingFor' = waitingFor, Top(t).op \notin {"render", "worker"},
           frames' = Popped(t)
    PROVE  Chained(root, level)'
<1>1. Turns(t, Len(frames[t]) - 1) /\ Len(frames'[t]) = Len(frames[t]) - 1
  BY PopTurns
<1>2. \A i \in DOMAIN frames'[t] : ~(i > Len(frames[t]) - 1)
  BY <1>1 DEF Turns
<1> QED BY <1>1, <1>2, ChainTurns

\* A callback's stages.
LEMMA ChainStage ==
    ASSUME RegistryInv, NEW root \in [Threads -> Threads], NEW level \in [Threads -> Nat], Chained(root, level),
           NEW t \in Threads, ~Idle(t), waitingFor[t] = Null, waitingFor' = waitingFor, Top(t).op \in Callbacks,
           NEW op \in Callbacks, frames' = Became(t, op)
    PROVE  Chained(root, level)'
<1>n. PICK n : n = Len(frames[t])
  OBVIOUS
<1>f. PICK f : f = frames'[t][n]
  OBVIOUS
<1>1. Turns(t, n - 1) /\ Len(frames'[t]) = n /\ f.op = op /\ f.context = Top(t).context /\ f.renderer = Top(t).renderer /\ f.handles = Top(t).handles
  BY <1>n, <1>f, BecameRecasts DEF Recast
<1>2. f.op \notin {"render", "worker"} /\ Top(t).op \notin {"render", "worker"}
  BY <1>1 DEF Callbacks
<1>3. n \in DOMAIN frames[t] /\ frames[t][n].renderer = f.renderer
  BY <1>n, <1>1, TopFits DEF Top, RegistryInv
<1>4. \E u \in Threads : \E j \in DOMAIN frames[u] : frames[u][j].renderer = f.renderer /\ root[u] = root[t]
  BY <1>3
<1>5. /\ FramesInv /\ Turns(t, Len(frames[t]) - 1) /\ Len(frames'[t]) = Len(frames[t])
      /\ frames'[t][Len(frames[t])] = f /\ f.context = Top(t).context /\ (f.handles = {} \/ f.handles = Top(t).handles)
  BY <1>n, <1>f, <1>1 DEF RegistryInv
<1> QED BY <1>2, <1>4, <1>5, ChainPut

LEMMA ChainTemplate ==
    ASSUME RegistryInv, NEW root \in [Threads -> Threads], NEW level \in [Threads -> Nat], Chained(root, level),
           NEW t \in Threads, RenderTemplate(t)
    PROVE  Chained(root, level)'
<1>n. PICK n : n = Len(frames[t])
  OBVIOUS
<1>1. ~Idle(t) /\ waitingFor[t] = Null /\ waitingFor' = waitingFor /\ Top(t).op \notin {"render", "worker"}
  BY DEF RenderTemplate, Running
<1>2. CASE frames' = Popped(t)
  BY <1>1, <1>2, ChainDrop DEF RegistryInv
<1>3. CASE /\ Turns(t, n - 1) /\ Len(frames'[t]) = n + 1 /\ n \in Nat \ {0}
           /\ frames'[t][n].op = "templated" /\ frames'[t][n + 1].op = "lock"
           /\ frames'[t][n].context = Top(t).context /\ frames'[t][n + 1].context = Top(t).context
           /\ frames'[t][n].renderer = Top(t).renderer /\ frames'[t][n + 1].renderer = Top(t).renderer
           /\ frames'[t][n].handles = Top(t).handles /\ frames'[t][n + 1].handles = {}
  <2>1. n \in DOMAIN frames[t] /\ frames[t][n] = Top(t)
    BY <1>n, <1>1, TopFits DEF Top, RegistryInv
  <2>a. Knowing(t, Top(t))
    BY <2>1 DEF Knowing, Has
  <2>b. Learns(t, frames'[t][n]) /\ Learns(t, frames'[t][n + 1])
    BY <1>3, <2>a DEF Learns, Knowing, Knows
  <2>2. \A i \in DOMAIN frames'[t] : i > n - 1 => i = n \/ i = n + 1
    BY <1>3 DEF Turns
  <2>3. \E u \in Threads : \E j \in DOMAIN frames[u] : frames[u][j].renderer = Top(t).renderer /\ root[u] = root[t]
    BY <2>1
  <2>4. \A i \in DOMAIN frames'[t] : i > n - 1 =>
              /\ frames'[t][i].op \notin {"render", "worker"}
              /\ Learns(t, frames'[t][i])
              /\ \E u \in Threads : \E j \in DOMAIN frames[u] :
                    frames[u][j].renderer = frames'[t][i].renderer /\ root[u] = root[t]
    BY <1>3, <2>1, <2>2, <2>3, <2>b
  <2> QED BY <1>1, <1>3, <2>4, ChainTurns DEF RegistryInv
<1> QED BY <1>n, <1>2, <1>3, TemplateTurns DEF RegistryInv

\* The renderer a context names is one the chain already works for: the context's callback
\* is in it.
LEMMA ChainHelper ==
    ASSUME RegistryInv, EngineInv, NEW root \in [Threads -> Threads], NEW level \in [Threads -> Nat], Chained(root, level),
           NEW t \in Threads, RenderThroughContext(t)
    PROVE  Chained(root, level)'
<1>n. PICK n : n = Len(frames[t])
  OBVIOUS
<1>c. PICK c : c = Top(t).context
  OBVIOUS
<1>r. PICK r : r = contexts[c]
  OBVIOUS
<1>f. PICK f : f = HelperFrame(r, c)
  OBVIOUS
<1>1. ~Idle(t) /\ waitingFor[t] = Null /\ waitingFor' = waitingFor /\ Top(t).op = "locked"
  BY DEF RenderThroughContext, Running
<1>2. CASE frames' = Popped(t)
  BY <1>1, <1>2, ChainDrop DEF RegistryInv
<1>3. CASE HelperAllowed(r) /\ frames' = [frames EXCEPT ![t] = [frames[t] EXCEPT ![n] = f]]
  <2>1. Turns(t, n - 1) /\ Len(frames'[t]) = n /\ frames'[t][n] = f
    BY <1>1, <1>3, <1>n, PutTurns DEF RegistryInv
  <2>2. f.op = "helper" /\ f.context = c /\ f.renderer = r /\ f.handles = {}
    BY <1>f DEF HelperFrame, Frame
  <2>3. n \in DOMAIN frames[t] /\ frames[t][n].context = c /\ c \in DOMAIN contexts /\ c \in Nat \ {0}
    <3>1. FrameFits(Top(t)) /\ contexts \in Seq(Renderers \cup {Null}) /\ n \in DOMAIN frames[t] /\ frames[t][n] = Top(t)
      BY <1>1, <1>n, TopFits DEF RegistryInv, FramesInv, StacksFit, Top
    <3> QED BY <1>1, <1>c, <3>1 DEF FrameFits
  <2>4. contexts[c] # Null
    BY <1>r, <1>3 DEF HelperAllowed
  <2>5. Calls(Open, c, r)
    BY <1>r, <2>3, <2>4 DEF EngineInv, ContextsCalled
  <2>6. PICK u \in Threads : \E j \in DOMAIN frames[u] : frames[u][j].context = c /\ frames[u][j].renderer = r
    BY <2>5 DEF Calls
  <2>7. Has(u, c) /\ Has(t, c)
    BY <2>3, <2>6 DEF Has, Knows
  <2>8. root[u] = root[t]
    BY <2>3, <2>7 DEF Chained, Shared
  <2>9. \E v \in Threads : \E j \in DOMAIN frames[v] : frames[v][j].renderer = f.renderer /\ root[v] = root[t]
    BY <2>2, <2>6, <2>8
  <2>10. f.op \notin {"render", "worker"} /\ Top(t).op \notin {"render", "worker"} /\ f.context = Top(t).context /\ (f.handles = {} \/ f.handles = Top(t).handles)
    BY <1>1, <1>c, <2>2
  <2> QED BY <1>n, <1>1, <2>1, <2>9, <2>10, ChainPut DEF RegistryInv
<1> QED BY <1>2, <1>3, <1>n, <1>c, <1>r, <1>f DEF RenderThroughContext

LEMMA ChainInvoke ==
    ASSUME FramesInv, NEW root \in [Threads -> Threads], NEW level \in [Threads -> Nat], Chained(root, level),
           NEW t \in Threads, InvokeSectionLambda(t)
    PROVE  Chained(root, level)'
<1>1. PICK f : f = UserFrame("callback", Top(t).renderer, Len(contexts) + 1, HandlesOf(t, Len(contexts) + 1))
  OBVIOUS
<1>2. ~Idle(t) /\ waitingFor[t] = Null /\ waitingFor' = waitingFor /\ frames' = Pushed(t, f)
  BY <1>1 DEF InvokeSectionLambda, Running
<1>3. /\ f.op = "callback" /\ f.renderer = Top(t).renderer /\ f.context = Len(contexts) + 1
      /\ f.handles = HandlesOf(t, Len(contexts) + 1)
  BY <1>1 DEF UserFrame, Frame
<1>4. Learns(t, f)
  <2>1. \A u \in Threads : ~Has(u, Len(contexts) + 1)
    BY DEF Has, Knows, FramesInv, StacksFit, FrameFits
  <2>2. ASSUME NEW c \in Nat \ {0}, Knows(f, c), c # Len(contexts) + 1 PROVE Has(t, c)
    <3>1. \E i \in DOMAIN frames[t] : c \in frames[t][i].handles
      BY <1>3, <2>2 DEF Knows, HandlesOf
    <3> QED BY <3>1 DEF Has, Knows
  <2> QED BY <2>1, <2>2 DEF Learns
<1>5. f.op \notin {"render", "worker"}
  BY <1>3
<1> QED BY <1>2, <1>3, <1>4, <1>5, ChainPush

LEMMA ChainHandOver ==
    ASSUME FramesInv, WaitsInCallback, ChainInv, NEW t \in Threads, NEW hs \in SUBSET DOMAIN contexts, NEW w \in Threads,
           HandOver(t, w, hs, "waits")
    PROVE  ChainInv'
<1>1. PICK root \in [Threads -> Threads], level \in [Threads -> Nat] : Chained(root, level)
  BY DEF ChainInv
<1>2. PICK f : f = UserFrame("worker", Top(t).renderer, Top(t).context, hs)
  OBVIOUS
<1>3. PICK root2 : root2 = [root EXCEPT ![w] = root[t]]
  OBVIOUS
<1>4. PICK level2 : level2 = [level EXCEPT ![w] = level[t] + 1]
  OBVIOUS
<1>5. /\ ~Idle(t) /\ waitingFor[t] = Null /\ Idle(w) /\ frames' = Pushed(w, f)
      /\ waitingFor' = [waitingFor EXCEPT ![t] = w] /\ hs \subseteq Top(t).handles
  BY <1>2 DEF HandOver, Running
<1>6. f.op = "worker" /\ f.renderer = Top(t).renderer /\ f.context = Top(t).context /\ f.handles = hs
  BY <1>2 DEF UserFrame, Frame
<1>7. Knowing(t, f)
  <2>1. Len(frames[t]) \in DOMAIN frames[t] /\ Top(t) = frames[t][Len(frames[t])]
    BY <1>5, TopFits DEF Top
  <2>2. \A c \in Nat \ {0} : Knows(f, c) => Knows(Top(t), c)
    BY <1>5, <1>6 DEF Knows
  <2> QED BY <2>1, <2>2 DEF Knowing, Has
<1>8. waitingFor'[t] = w /\ \A u \in Threads \ {t} : waitingFor'[u] = waitingFor[u]
  BY <1>5 DEF WaitsInCallback
<1>9. /\ root2 \in [Threads -> Threads] /\ level2 \in [Threads -> Nat]
      /\ root2[w] = root[t] /\ level2[w] = level[t] + 1
      /\ \A u \in Threads \ {w} : root2[u] = root[u] /\ level2[u] = level[u]
  BY <1>3, <1>4
<1>10. \E u \in Threads :
          /\ ~Idle(u) /\ waitingFor[u] = Null /\ root2[w] = root[u] /\ level2[w] = level[u] + 1
          /\ f.op = "worker" /\ f.renderer = Top(u).renderer /\ Knowing(u, f)
          /\ waitingFor'[u] = w /\ \A v \in Threads \ {u} : waitingFor'[v] = waitingFor[v]
  BY <1>5, <1>6, <1>7, <1>8, <1>9
<1>11. \/ /\ root2[w] = w /\ level2[w] = 0 /\ f.op = "render" /\ Nothing(f) /\ waitingFor' = waitingFor
       \/ \E v \in Threads :
             /\ ~Idle(v) /\ waitingFor[v] = Null /\ root2[w] = root[v] /\ level2[w] = level[v] + 1
             /\ f.op = "worker" /\ f.renderer = Top(v).renderer /\ Knowing(v, f)
             /\ waitingFor'[v] = w /\ \A u \in Threads \ {v} : waitingFor'[u] = waitingFor[u]
  BY <1>10
<1>12. /\ Chained(root, level) /\ Idle(w) /\ frames' = Pushed(w, f)
       /\ root2 \in [Threads -> Threads] /\ level2 \in [Threads -> Nat]
       /\ \A u \in Threads \ {w} : root2[u] = root[u] /\ level2[u] = level[u]
  BY <1>1, <1>5, <1>9
<1>13. Chained(root2, level2)'
  BY ONLY <1>1, <1>11, <1>12, FramesInv, WaitsInCallback, t \in Threads, w \in Threads, ChainBegins
<1> QED BY <1>9, <1>13 DEF ChainInv

LEMMA ChainStart ==
    ASSUME RegistryInv, EngineInv, WaitsInCallback, ChainInv, NEW t \in Threads, NEW r \in Renderers, StartRender(t, r)
    PROVE  ChainInv'
<1>1. PICK root \in [Threads -> Threads], level \in [Threads -> Nat] : Chained(root, level)
  BY DEF ChainInv
<1>2. CASE ~Idle(t)
  BY <1>1, <1>2, ChainNested DEF ChainInv
<1>3. CASE Idle(t)
  <2>1. PICK f : f = Frame("render", r, 0)
    OBVIOUS
  <2>2. PICK root2 : root2 = [root EXCEPT ![t] = t]
    OBVIOUS
  <2>3. PICK level2 : level2 = [level EXCEPT ![t] = 0]
    OBVIOUS
  <2>4. frames' = Pushed(t, f) /\ waitingFor' = waitingFor /\ f.op = "render" /\ Nothing(f)
    BY <2>1 DEF StartRender, Frame, Nothing, Knows
  <2>5. /\ root2 \in [Threads -> Threads] /\ level2 \in [Threads -> Nat] /\ root2[t] = t /\ level2[t] = 0
        /\ \A u \in Threads \ {t} : root2[u] = root[u] /\ level2[u] = level[u]
    BY <2>2, <2>3
  <2>6. Chained(root2, level2)'
    BY <1>1, <1>3, <2>4, <2>5, ChainBegins DEF RegistryInv
  <2> QED BY <2>5, <2>6 DEF ChainInv
<1> QED BY <1>2, <1>3

LEMMA ChainNext ==
    ASSUME HandoffModes \subseteq {"waits"}, RegistryInv, EngineInv, WaitsInCallback, ChainInv, [Next]_vars
    PROVE  ChainInv'
<1>0. FramesInv
  BY DEF RegistryInv
<1>1. CASE UNCHANGED vars
  <2>1. PICK root \in [Threads -> Threads], level \in [Threads -> Nat] : Chained(root, level)
    BY DEF ChainInv
  <2>2. frames' = frames /\ waitingFor' = waitingFor
    BY <1>1 DEF vars
  <2>3. Rooted(root, level)' /\ Linear(root, level)' /\ Awaited(root, level)'
    <3>1. Rooted(root, level)'
      BY <2>1, <2>2 DEF Chained, Rooted, Idle
    <3>2. Linear(root, level)'
      BY <2>1, <2>2 DEF Chained, Linear, Idle
    <3>3. Awaited(root, level)'
      BY <2>1, <2>2 DEF Chained, Awaited, Idle
    <3> QED BY <3>1, <3>2, <3>3
  <2>4. Shared(root)' /\ Based(root, level)'
    <3>1. Shared(root)'
      BY <2>1, <2>2 DEF Chained, Shared, Has, Knows
    <3>2. Based(root, level)'
      BY <2>1, <2>2 DEF Chained, Based, BasedOn
    <3> QED BY <3>1, <3>2
  <2>5. Chained(root, level)'
    BY <2>3, <2>4 DEF Chained
  <2> QED BY <2>5 DEF ChainInv
<1>2. ASSUME NEW t \in Threads, Step(t) PROVE ChainInv'
  <2> DEFINE Running0 == ~Idle(t) /\ waitingFor[t] = Null
  <2>p. PICK root \in [Threads -> Threads], level \in [Threads -> Nat] : Chained(root, level)
    BY DEF ChainInv
  <2>1. CASE FinishRender(t)
    <3>1. Chained(root, level)'
      BY <2>p, <2>1, ChainEnds
    <3> QED BY <3>1 DEF ChainInv
  <2>2. CASE FinishWorker(t)
    <3>1. Chained(root, level)'
      BY <1>0, <2>p, <2>2, ChainFinishWorker
    <3> QED BY <3>1 DEF ChainInv
  <2>3. CASE FinishHelper(t) \/ LeaveScope(t)
    <3>1. ~Idle(t) /\ waitingFor[t] = Null /\ waitingFor' = waitingFor /\ Top(t).op \notin {"render", "worker"} /\ frames' = Popped(t)
      BY <2>3 DEF FinishHelper, LeaveScope, Running
    <3>2. Chained(root, level)'
      BY <1>0, <2>p, <3>1, ChainDrop
    <3> QED BY <3>2 DEF ChainInv
  <2>4. CASE InvokeSectionLambda(t)
    <3>1. Chained(root, level)'
      BY <1>0, <2>p, <2>4, ChainInvoke
    <3> QED BY <3>1 DEF ChainInv
  <2>5. CASE ReturnFromCallback(t) \/ Invalidate(t) \/ LeaveCallback(t)
    <3>1. ~Idle(t) /\ waitingFor[t] = Null /\ waitingFor' = waitingFor /\ Top(t).op \in Callbacks
      BY <2>5 DEF ReturnFromCallback, Invalidate, LeaveCallback, Running, Callbacks
    <3>2. \E op \in Callbacks : frames' = Became(t, op)
      BY <2>5 DEF ReturnFromCallback, Invalidate, LeaveCallback, Callbacks
    <3>3. PICK op \in Callbacks : frames' = Became(t, op)
      BY <3>2
    <3>4. Chained(root, level)'
      BY <2>p, <3>1, <3>3, ChainStage
    <3> QED BY <3>4 DEF ChainInv
  <2>6. CASE RenderTemplate(t)
    <3>1. Chained(root, level)'
      BY <2>p, <2>6, ChainTemplate
    <3> QED BY <3>1 DEF ChainInv
  <2>7. CASE RenderThroughContext(t)
    <3>1. Chained(root, level)'
      BY <2>p, <2>7, ChainHelper
    <3> QED BY <3>1 DEF ChainInv
  <2>8. CASE LegacyRender(t)
    <3>1. PICK f : f = HelperFrame(Top(t).renderer, 0)
      OBVIOUS
    <3>2. ~Idle(t) /\ waitingFor[t] = Null /\ waitingFor' = waitingFor /\ frames' = Pushed(t, f)
      BY <2>8, <3>1 DEF LegacyRender, UserCode, Running
    <3>3. f.op \notin {"render", "worker"} /\ f.renderer = Top(t).renderer /\ Learns(t, f)
      BY <3>1 DEF HelperFrame, Frame, Learns, Knows
    <3>4. Chained(root, level)'
      BY <1>0, <2>p, <3>2, <3>3, ChainPush
    <3> QED BY <3>4 DEF ChainInv
  <2>9. ASSUME NEW c \in DOMAIN contexts, NEW op \in Locking, CallRender(t, c, op) PROVE ChainInv'
    <3>1. PICK f : f = Frame(op, Top(t).renderer, c)
      OBVIOUS
    <3>2. ~Idle(t) /\ waitingFor[t] = Null /\ waitingFor' = waitingFor /\ frames' = Pushed(t, f) /\ c \in Top(t).handles
      BY <2>9, <3>1 DEF CallRender, UserCode, Running
    <3>3. f.op \notin {"render", "worker"} /\ f.renderer = Top(t).renderer /\ f.context = c /\ f.handles = {}
      BY <3>1 DEF Frame, Locking
    <3>4. Learns(t, f)
      <4>1. Len(frames[t]) \in DOMAIN frames[t] /\ Top(t) = frames[t][Len(frames[t])]
        BY <1>0, <3>2, TopFits DEF Top
      <4> QED BY <3>2, <3>3, <4>1 DEF Learns, Has, Knows
    <3>5. Chained(root, level)'
      BY <1>0, <2>p, <3>2, <3>3, <3>4, ChainPush
    <3> QED BY <3>5 DEF ChainInv
  <2>10. ASSUME NEW hs \in SUBSET DOMAIN contexts, NEW w \in Threads, NEW mode \in HandoffModes, HandOver(t, w, hs, mode) PROVE ChainInv'
    <3>1. mode = "waits"
      OBVIOUS
    <3>2. HandOver(t, w, hs, "waits")
      BY <2>10, <3>1
    <3> QED BY <1>0, <3>2, ChainHandOver
  <2>11. CASE LockContext(t)
    <3>n. PICK n : n = Len(frames[t])
      OBVIOUS
    <3>f. PICK f : f = frames'[t][n]
      OBVIOUS
    <3>1. /\ ~Idle(t) /\ waitingFor[t] = Null /\ waitingFor' = waitingFor
          /\ Top(t).op \notin {"render", "worker"}
      BY <2>11 DEF LockContext, Running, Locking
    <3>2. /\ Turns(t, n - 1) /\ Len(frames'[t]) = n
          /\ f.op \notin {"render", "worker"} /\ f.context = Top(t).context
          /\ f.renderer = Top(t).renderer /\ f.handles = Top(t).handles
      BY <1>0, <2>11, <3>n, <3>f, LockTurns
    <3>3. n \in DOMAIN frames[t] /\ frames[t][n].renderer = f.renderer /\ root[t] = root[t]
      BY <1>0, <3>n, <3>1, <3>2, TopFits DEF Top
    <3>4. \E u \in Threads : \E j \in DOMAIN frames[u] : frames[u][j].renderer = f.renderer /\ root[u] = root[t]
      BY <3>3
    <3>6. /\ Turns(t, Len(frames[t]) - 1) /\ Len(frames'[t]) = Len(frames[t]) /\ frames'[t][Len(frames[t])] = f
          /\ f.op \notin {"render", "worker"} /\ f.context = Top(t).context
          /\ f.handles = {} \/ f.handles = Top(t).handles
      BY <3>n, <3>f, <3>2
    <3>5. Chained(root, level)'
      BY <1>0, <2>p, <3>1, <3>4, <3>6, ChainPut
    <3> QED BY <3>5 DEF ChainInv
  <2> QED BY <1>2, <2>1, <2>2, <2>3, <2>4, <2>5, <2>6, <2>7, <2>8, <2>9, <2>10, <2>11 DEF Step
<1>3. ASSUME NEW t \in Threads, NEW r \in Renderers, StartRender(t, r) PROVE ChainInv'
  BY <1>3, ChainStart
<1> QED BY <1>1, <1>2, <1>3 DEF Next

LEMMA ChainInit == Init => ChainInv
<1> SUFFICES ASSUME Init PROVE ChainInv
  OBVIOUS
<1>1. PICK root : root = [t \in Threads |-> t]
  OBVIOUS
<1>2. PICK level : level = [t \in Threads |-> 0]
  OBVIOUS
<1>3. \A t \in Threads : Idle(t) /\ DOMAIN frames[t] = {} /\ waitingFor[t] = Null
  <2>1. <<>> \in Seq({}) /\ Len(<<>>) = 0
    OBVIOUS
  <2>2. DOMAIN <<>> = {}
    BY <2>1
  <2>3. \A t \in Threads : frames[t] = <<>> /\ waitingFor[t] = Null
    BY DEF Init
  <2> QED BY <2>2, <2>3 DEF Idle
<1>4. root \in [Threads -> Threads] /\ level \in [Threads -> Nat]
  BY <1>1, <1>2
<1>5. Chained(root, level)
  BY <1>3 DEF Chained, Rooted, Linear, Awaited, Shared, Has, Based
<1> QED BY <1>4, <1>5 DEF ChainInv

\* Whoever works on a renderer is in its render()'s chain, and of a chain only the last runs.
LEMMA ChainExclusive == RegistryInv /\ EngineInv /\ ChainInv => RendererExclusive
<1> SUFFICES ASSUME RegistryInv, EngineInv, ChainInv, NEW t \in Threads, NEW u \in Threads, NEW r \in Renderers, Touches(t, r), Touches(u, r)
             PROVE  t = u
  BY DEF RendererExclusive
<1>1. PICK root \in [Threads -> Threads], level \in [Threads -> Nat] : Chained(root, level)
  BY DEF ChainInv
<1>2. ASSUME NEW v \in Threads, Touches(v, r)
      PROVE  /\ ~Idle(v) /\ waitingFor[v] = Null
             /\ \E x \in Threads : \E j \in DOMAIN frames[x] :
                   frames[x][j].op = "render" /\ frames[x][j].renderer = r /\ root[x] = root[v]
  <2>n. PICK n : n = Len(frames[v])
    OBVIOUS
  <2>1. ~Idle(v) /\ waitingFor[v] = Null
    BY <1>2 DEF Touches
  <2>2. n \in DOMAIN frames[v] /\ Top(v) = frames[v][n] /\ FrameFits(Top(v))
    BY <2>n, <2>1, TopFits DEF RegistryInv, Top
  <2>3. ASSUME NEW y \in Threads, NEW i \in DOMAIN frames[y], frames[y][i].renderer = r, root[y] = root[v]
        PROVE  \E x \in Threads : \E j \in DOMAIN frames[x] :
                   frames[x][j].op = "render" /\ frames[x][j].renderer = r /\ root[x] = root[v]
    <3>1. PICK x \in Threads : \E j \in DOMAIN frames[x] : BasedOn(x, j, y, i, root, level)
      BY <1>1 DEF Chained, Based
    <3>2. PICK j \in DOMAIN frames[x] : BasedOn(x, j, y, i, root, level)
      BY <3>1
    <3> QED BY <2>3, <3>2 DEF BasedOn
  <2>4. CASE Top(v).renderer = r
    BY <2>1, <2>2, <2>3, <2>4
  <2>5. CASE Top(v).op \in {"locked", "template"} /\ contexts[Top(v).context] = r
    <3>1. PICK c : c = Top(v).context
      OBVIOUS
    <3>2. c \in DOMAIN contexts /\ c \in Nat \ {0} /\ contexts[c] = r /\ r # Null
      <4>1. contexts \in Seq(Renderers \cup {Null})
        BY DEF RegistryInv, FramesInv, StacksFit
      <4> QED BY <2>2, <2>5, <3>1, <4>1, NullAssumption DEF FrameFits
    <3>3. Calls(Open, c, r)
      BY <3>2 DEF EngineInv, ContextsCalled
    <3>4. PICK y \in Threads : \E i \in DOMAIN frames[y] : frames[y][i].context = c /\ frames[y][i].renderer = r
      BY <3>3 DEF Calls
    <3>5. Has(y, c) /\ Has(v, c)
      BY <2>2, <3>1, <3>4 DEF Has, Knows
    <3>6. root[y] = root[v]
      BY <1>1, <3>2, <3>5 DEF Chained, Shared
    <3> QED BY <2>1, <2>3, <3>4, <3>6
  <2> QED BY <1>2, <2>4, <2>5 DEF Touches
<1>3. /\ ~Idle(t) /\ waitingFor[t] = Null
      /\ \E x \in Threads : \E j \in DOMAIN frames[x] :
            frames[x][j].op = "render" /\ frames[x][j].renderer = r /\ root[x] = root[t]
  BY <1>2
<1>4. /\ ~Idle(u) /\ waitingFor[u] = Null
      /\ \E x \in Threads : \E j \in DOMAIN frames[x] :
            frames[x][j].op = "render" /\ frames[x][j].renderer = r /\ root[x] = root[u]
  BY <1>2
<1>5. root[t] = root[u]
  BY <1>3, <1>4 DEF EngineInv, RendersOwn
<1>6. (u # t => level[u] < level[t]) /\ (t # u => level[t] < level[u])
  BY <1>1, <1>3, <1>4, <1>5, LastInChain DEF Chained
<1>7. level[t] \in Nat /\ level[u] \in Nat
  OBVIOUS
<1> QED BY <1>6, <1>7

-----------------------------------------------------------------------------
(* What holds of contexts while callbacks keep to what they were given *)

\* Either nested renders are all through contexts, or callbacks wait for their workers.
Disciplined == ~UsesRaw \/ HandoffModes \subseteq {"waits"}
ContextsInv ==
    /\ RegistryInv /\ EngineInv /\ WaitsInCallback
    /\ ~UsesRaw => HelpersHaveContexts
    /\ HandoffModes \subseteq {"waits"} => ChainInv

LEMMA ContextsInvInit == Init => ContextsInv
<1> SUFFICES ASSUME Init PROVE ContextsInv
  OBVIOUS
<1>1. RegistryInv /\ EngineInv /\ ChainInv
  BY RegistryInvInit, EngineInvInit, ChainInit
<1>2. \A t \in Threads : DOMAIN frames[t] = {}
  <2>1. <<>> \in Seq({}) /\ Len(<<>>) = 0
    OBVIOUS
  <2>2. DOMAIN <<>> = {}
    BY <2>1
  <2>3. \A t \in Threads : frames[t] = <<>>
    BY DEF Init
  <2> QED BY <2>2, <2>3
<1>3. HelpersHaveContexts
  BY <1>2 DEF HelpersHaveContexts
<1>4. WaitsInCallback
  BY DEF Init, WaitsInCallback
<1> QED BY <1>1, <1>3, <1>4 DEF ContextsInv

LEMMA ContextsInvNext == Disciplined /\ ContextsInv /\ [Next]_vars => ContextsInv'
<1> SUFFICES ASSUME Disciplined, ContextsInv, [Next]_vars PROVE ContextsInv'
  OBVIOUS
<1>0. RegistryInv /\ EngineInv /\ WaitsInCallback /\ FramesInv
  BY DEF ContextsInv, RegistryInv
<1>1. EndsDeserted
  <2> SUFFICES ASSUME NEW t \in Threads, FinishRender(t) PROVE Deserted(Top(t).renderer)
    BY DEF EndsDeserted
  <2>1. CASE ~UsesRaw
    BY <1>0, <2>1, FinishingIsDeserted DEF ContextsInv
  <2>2. CASE HandoffModes \subseteq {"waits"}
    <3>1. PICK root \in [Threads -> Threads], level \in [Threads -> Nat] : Chained(root, level)
      BY <2>2 DEF ContextsInv, ChainInv
    <3> QED BY <1>0, <3>1, ChainEnds
  <2> QED BY <2>1, <2>2 DEF Disciplined
<1>2. RegistryInv' /\ EngineInv' /\ WaitsInCallback'
  BY <1>0, <1>1, RegistryInvNext, EngineInvNext, WaitsNext
<1>3. ~UsesRaw => HelpersHaveContexts'
  BY <1>0, ContextsOnly DEF ContextsInv
<1>4. HandoffModes \subseteq {"waits"} => ChainInv'
  BY <1>0, ChainNext DEF ContextsInv
<1> QED BY <1>2, <1>3, <1>4 DEF ContextsInv

\* Behind the lock of a context that is still active, renderForLambda's checks never fail
\* (renderer.cpp: it throws unless the renderer is rendering, counts a callback and has an
\* engine in the registry): the callback guard revokes the context before it undoes any of
\* them.  For callbacks that use contexts only, and for those that also use the raw pointer
\* but wait for the workers they hand it to; a render that outlives its callback through
\* the raw pointer of a detached worker has no such promise.
THEOREM ActiveContextsCanRender == ASSUME Disciplined PROVE Spec => []ActiveContextCanRender
<1>1. Init => ContextsInv
  BY ContextsInvInit
<1>2. ContextsInv /\ [Next]_vars => ContextsInv'
  BY ContextsInvNext
<1>3. ContextsInv => ActiveContextCanRender
  <2> SUFFICES ASSUME ContextsInv, NEW t \in Threads, ~Idle(t), Top(t).op = "locked", contexts[Top(t).context] # Null
               PROVE  HelperAllowed(contexts[Top(t).context])
    BY DEF ActiveContextCanRender
  <2>1. RegistryInv /\ EngineInv
    BY DEF ContextsInv
  <2>2. Top(t).context \in DOMAIN contexts
    BY <2>1, TopFits DEF RegistryInv, FramesInv, StacksFit, FrameFits
  <2> QED BY <2>1, <2>2, ActiveAllowed
<1> QED BY <1>1, <1>2, <1>3, PTL DEF Spec

\* A nested render never runs in an engine whose render() has ended (renderer.cpp: the
\* registry is searched by Renderer *, which a later render() reuses): every helper's
\* engine is the one of the render() in progress, under the same condition.
THEOREM EnginesAreCurrent == ASSUME Disciplined PROVE Spec => []EngineIsCurrent
<1>1. Init => ContextsInv
  BY ContextsInvInit
<1>2. ContextsInv /\ [Next]_vars => ContextsInv'
  BY ContextsInvNext
<1>3. ContextsInv => EngineIsCurrent
  BY DEF ContextsInv, EngineInv, HelpersOwn, EngineIsCurrent
<1> QED BY <1>1, <1>2, <1>3, PTL DEF Spec

-----------------------------------------------------------------------------
(* Callbacks that use their own contexts *)

\* Whoever asks for a context's lock is the code the context was given to.
Asking == Locking \cup Locked
Own(f, g) ==
    /\ g.context = f.context
    /\ g.op \in {"callback", "worker"} \/ (g.op = "templated" /\ f.op \in {"lock", "locked", "helper"})
OwnUse ==
    \A t \in Threads : \A i \in DOMAIN frames[t] : frames[t][i].op \in Asking => i > 1 /\ Own(frames[t][i], frames[t][i - 1])
PlainFrame(f) ==
    /\ f.op = "render" => f.context = 0
    /\ f.op \in {"callback", "worker"} => f.handles \subseteq {f.context}
Plain ==
    \A t \in Threads : \A i \in DOMAIN frames[t] : (frames[t][i].op = "worker" => i = 1) /\ PlainFrame(frames[t][i])
\* The callbacks of a renderer form a chain, each called from the next older one.
CallbacksChain ==
    \A t, u \in Threads : \A i \in DOMAIN frames[t], j \in DOMAIN frames[u] :
        /\ frames[t][i].op \in Callbacks /\ frames[u][j].op \in Callbacks /\ frames[u][j].renderer = frames[t][i].renderer
              => frames[u][j].context <= frames[t][i - 1].context \/ frames[u][j].context >= frames[t][i].context
OwnInv == OwnUse /\ Plain /\ CallbacksChain

LEMMA OwnerBelow ==
    ASSUME RegistryInv, OwnInv, NEW t \in Threads, ~Idle(t), Top(t).op \in Locked, Top(t).context # 0,
           NEW u \in Threads, NEW j \in DOMAIN frames[u], frames[u][j].op \in Callbacks, j > 1,
           frames[u][j - 1].op = "helper", frames[u][j - 1].context = Top(t).context
    PROVE  FALSE
<1>n. PICK n : n = Len(frames[t])
  OBVIOUS
<1>p. PICK p : p = Top(t).context
  OBVIOUS
<1>1. /\ n \in Nat \ {0} /\ n \in DOMAIN frames[t] /\ Top(t) = frames[t][n] /\ DOMAIN frames[t] = 1..n /\ p \in Nat \ {0}
      /\ j \in Nat /\ j - 1 \in DOMAIN frames[u]
  <2>1. j \in Nat /\ j - 1 \in DOMAIN frames[u]
    BY StackShape DEF RegistryInv, FramesInv
  <2> QED BY <1>n, <1>p, <2>1, TopFits DEF RegistryInv, Top, FrameFits, FramesInv, StacksFit
<1>2. u = t
  <2>1. Holds(t, p) /\ Holds(u, p)
    BY <1>1, <1>p DEF Holds, Locked
  <2> QED BY <1>1, <2>1 DEF RegistryInv, FramesInv, LocksExclusive
<1>3. j < n
  BY <1>1, <1>2 DEF Locked, Callbacks
<1>4. n > 1 /\ Own(frames[t][n], frames[t][n - 1])
  BY <1>1 DEF OwnInv, OwnUse, Asking
<1>5. PICK b \in DOMAIN frames[t] : frames[t][b].context = p /\ frames[t][b].op \in {"callback", "worker"} /\ b >= j
  <2>1. CASE frames[t][n - 1].op \in {"callback", "worker"}
    <3>1. n - 1 \in DOMAIN frames[t] /\ n - 1 >= j
      BY <1>1, <1>3, <1>4
    <3> QED BY <1>1, <1>p, <1>4, <2>1, <3>1 DEF Own
  <2>2. CASE frames[t][n - 1].op = "templated"
    <3>1. n - 1 \in DOMAIN frames[t] /\ n - 1 > j /\ (n - 1) - 1 = n - 2
      BY <1>1, <1>2, <1>3, <1>4, <2>2 DEF Callbacks
    <3>2. n - 1 > 1 /\ Own(frames[t][n - 1], frames[t][(n - 1) - 1])
      BY <2>2, <3>1 DEF OwnInv, OwnUse, Asking, Locked
    <3>3. n - 2 \in DOMAIN frames[t] /\ n - 2 >= j
      BY <1>1, <3>1, <3>2
    <3>4. frames[t][n - 2].context = p /\ frames[t][n - 2].op \in {"callback", "worker"}
      BY <1>1, <1>p, <1>4, <2>2, <3>1, <3>2 DEF Own
    <3> QED BY <3>3, <3>4
  <2> QED BY <1>4, <2>1, <2>2 DEF Own
<1>6. CASE frames[t][b].op = "callback"
  <2>1. j - 1 < b
    BY <1>1, <1>5
  <2>2. frames[t][j - 1].context < frames[t][b].context
    BY <1>1, <1>2, <1>6, <2>1 DEF RegistryInv, FramesInv, CallbacksNest, Callbacks
  <2> QED BY <1>1, <1>2, <1>5, <1>p, <2>2
<1>7. CASE frames[t][b].op = "worker"
  <2>1. b = 1
    BY <1>7 DEF OwnInv, Plain, PlainFrame
  <2> QED BY <1>1, <1>5, <2>1
<1> QED BY <1>5, <1>6, <1>7

\* A callback that called no other is the newest of its renderer.
LEMMA LeafIsNewest ==
    ASSUME RegistryInv, EngineInv, HelpersHaveContexts, OwnInv, NEW r, NEW p \in Nat, p = 0 \/ Calls(Callbacks, p, r),
           \A u \in Threads : \A j \in DOMAIN frames[u] :
              frames[u][j].op \in Callbacks /\ frames[u][j].renderer = r => frames[u][j - 1].context # p
    PROVE  \A c : Calls(Callbacks, c, r) => c <= p
<1> DEFINE S == {c \in Nat : c > p /\ Calls(Callbacks, c, r)}
<1>0. ASSUME NEW d, Calls(Callbacks, d, r) PROVE d \in Nat
  BY <1>0 DEF Calls, RegistryInv, FramesInv, StacksFit, FrameFits
<1> SUFFICES ASSUME S # {} PROVE FALSE
  BY <1>0
<1>1. PICK d \in S : \A e \in S : d <= e
  <2>1. S \in SUBSET Nat
    OBVIOUS
  <2> HIDE DEF S
  <2> QED BY <2>1, Least
<1>2. PICK t \in Threads : \E i \in DOMAIN frames[t] :
         frames[t][i].op \in Callbacks /\ frames[t][i].context = d /\ frames[t][i].renderer = r
  BY DEF Calls
<1>3. PICK i \in DOMAIN frames[t] : frames[t][i].op \in Callbacks /\ frames[t][i].context = d /\ frames[t][i].renderer = r
  BY <1>2
<1>4. Len(frames[t]) \in Nat /\ DOMAIN frames[t] = 1..Len(frames[t])
  BY StackShape DEF RegistryInv, FramesInv
<1>5. i > 1 /\ frames[t][i - 1].op \in {"render", "helper"} /\ frames[t][i - 1].renderer = r
  BY <1>3 DEF EngineInv, CallbacksSit
<1>6. i - 1 \in DOMAIN frames[t] /\ i - 1 < i
  BY <1>4, <1>5
<1>q. PICK q : q = frames[t][i - 1].context
  OBVIOUS
<1>7. q < d /\ q \in Nat /\ d \in Nat /\ p < d
  <2>1. frames[t][i - 1].context < frames[t][i].context
    BY <1>3, <1>6 DEF RegistryInv, FramesInv, CallbacksNest
  <2>2. FrameFits(frames[t][i - 1]) /\ contexts \in Seq(Renderers \cup {Null})
    BY <1>6 DEF RegistryInv, FramesInv, StacksFit
  <2> QED BY <1>3, <1>q, <2>1, <2>2 DEF FrameFits
<1>8. q = 0 \/ Calls(Callbacks, q, r)
  <2>1. CASE frames[t][i - 1].op = "render"
    BY <1>6, <1>q, <2>1 DEF OwnInv, Plain, PlainFrame
  <2>2. CASE frames[t][i - 1].op = "helper"
    <3>1. FrameFits(frames[t][i - 1]) /\ FrameFits(frames[t][i]) /\ contexts \in Seq(Renderers \cup {Null})
      BY <1>6 DEF RegistryInv, FramesInv, StacksFit
    <3>2. q # 0 /\ contexts[q] = r /\ q \in DOMAIN contexts /\ contexts[q] # Null
      BY <1>3, <1>5, <1>6, <1>q, <2>2, <3>1, NullAssumption DEF EngineInv, HelpersOwn, HelpersHaveContexts, FrameFits
    <3>3. Calls(Open, q, r)
      BY <3>2 DEF EngineInv, ContextsCalled
    <3> QED BY <3>3 DEF Calls, Open, Callbacks
  <2> QED BY <1>5, <2>1, <2>2
<1>9. q <= p
  <2>1. q \notin S
    <3> HIDE DEF S
    <3> QED BY <1>1, <1>7
  <2> QED BY <1>7, <1>8, <2>1
<1>10. p <= q
  <2>1. CASE p = 0
    BY <1>7, <2>1
  <2>2. CASE Calls(Callbacks, p, r)
    <3>1. PICK u \in Threads : \E j \in DOMAIN frames[u] :
             frames[u][j].op \in Callbacks /\ frames[u][j].context = p /\ frames[u][j].renderer = r
      BY <2>2 DEF Calls
    <3>2. PICK j \in DOMAIN frames[u] : frames[u][j].op \in Callbacks /\ frames[u][j].context = p /\ frames[u][j].renderer = r
      BY <3>1
    <3>3. p <= q \/ p >= d
      BY <1>3, <1>q, <3>2 DEF OwnInv, CallbacksChain
    <3> QED BY <1>7, <3>3
  <2> QED BY <2>1, <2>2
<1> QED BY <1>3, <1>7, <1>9, <1>10, <1>q

\* Whoever works on a renderer does so for the newest callback of that renderer.
LEMMA ToucherIsNewest ==
    ASSUME RegistryInv, EngineInv, HelpersHaveContexts, OwnInv, NEW r \in Renderers, NEW t \in Threads, Touches(t, r)
    PROVE  /\ Top(t).context = 0 \/ Calls(Callbacks, Top(t).context, r)
           /\ \A c : Calls(Callbacks, c, r) => c <= Top(t).context
           /\ Top(t).context = 0 <=> Top(t).op = "render"
           /\ Top(t).op = "invalidated" => contexts[Top(t).context] = Null
           /\ Top(t).op \in Locked => contexts[Top(t).context] = r
<1>n. PICK n : n = Len(frames[t])
  OBVIOUS
<1>p. PICK p : p = Top(t).context
  OBVIOUS
<1>0. ~Idle(t) /\ \/ Top(t).op \in {"render", "helper", "invalidated"} /\ Top(t).renderer = r
                  \/ Top(t).op \in {"locked", "template"} /\ contexts[p] = r
  BY <1>p DEF Touches
<1>1. /\ n \in Nat \ {0} /\ n \in DOMAIN frames[t] /\ Top(t) = frames[t][n] /\ DOMAIN frames[t] = 1..n /\ FrameFits(Top(t))
      /\ contexts \in Seq(Renderers \cup {Null}) /\ p \in Nat
  BY <1>0, <1>n, <1>p, TopFits DEF RegistryInv, Top, FramesInv, StacksFit, FrameFits
<1>2. ASSUME NEW u \in Threads, NEW j \in DOMAIN frames[u], frames[u][j].op \in Callbacks, frames[u][j].renderer = r,
             frames[u][j - 1].context = p
      PROVE  /\ j > 1 /\ j - 1 \in DOMAIN frames[u] /\ frames[u][j - 1].renderer = r /\ (j - 1) + 1 = j
             /\ \/ frames[u][j - 1].op = "render" /\ p = 0
                \/ frames[u][j - 1].op = "helper" /\ p # 0 /\ contexts[p] = r
  <2>1. j > 1 /\ frames[u][j - 1].op \in {"render", "helper"} /\ frames[u][j - 1].renderer = r
    BY <1>2 DEF EngineInv, CallbacksSit
  <2>2. j - 1 \in DOMAIN frames[u] /\ (j - 1) + 1 = j
    BY <2>1, StackShape DEF RegistryInv, FramesInv
  <2> QED BY <1>2, <2>1, <2>2 DEF EngineInv, HelpersOwn, HelpersHaveContexts, OwnInv, Plain, PlainFrame
<1>3. CASE Top(t).op = "render"
  <2>1. p = 0 /\ Top(t).renderer = r
    BY <1>0, <1>1, <1>3, <1>p DEF OwnInv, Plain, PlainFrame
  <2>2. \A u \in Threads : \A j \in DOMAIN frames[u] :
           frames[u][j].op \in Callbacks /\ frames[u][j].renderer = r => frames[u][j - 1].context # p
    <3> SUFFICES ASSUME NEW u \in Threads, NEW j \in DOMAIN frames[u], frames[u][j].op \in Callbacks, frames[u][j].renderer = r,
                        frames[u][j - 1].context = p
                 PROVE  FALSE
      OBVIOUS
    <3>1. j - 1 \in DOMAIN frames[u] /\ frames[u][j - 1].op = "render" /\ frames[u][j - 1].renderer = r /\ (j - 1) + 1 = j
      BY <1>2, <2>1
    <3>2. u = t /\ j - 1 = n
      BY <1>1, <1>3, <2>1, <3>1 DEF EngineInv, RendersOwn
    <3> QED BY <1>1, <3>1, <3>2
  <2>3. \A c : Calls(Callbacks, c, r) => c <= p
    BY <1>1, <2>1, <2>2, LeafIsNewest
  <2> QED BY <1>3, <1>p, <2>1, <2>3 DEF Locked
<1>4. CASE Top(t).op = "invalidated"
  <2>1. contexts[p] = Null /\ Top(t).renderer = r /\ Calls(Callbacks, p, r) /\ p # 0
    BY <1>0, <1>1, <1>4, <1>p DEF EngineInv, CallbacksRender, Callbacks, Open, Calls, FrameFits
  <2>2. \A u \in Threads : \A j \in DOMAIN frames[u] :
           frames[u][j].op \in Callbacks /\ frames[u][j].renderer = r => frames[u][j - 1].context # p
    BY <1>2, <2>1, NullAssumption
  <2>3. \A c : Calls(Callbacks, c, r) => c <= p
    BY <1>1, <2>1, <2>2, LeafIsNewest
  <2> QED BY <1>4, <1>p, <2>1, <2>3 DEF Locked
<1>5. CASE Top(t).op \in {"helper", "locked", "template"}
  <2>1. Top(t).op \in Locked /\ contexts[p] = r /\ p # 0
    BY <1>0, <1>1, <1>5, <1>p DEF Locked, EngineInv, HelpersOwn, HelpersHaveContexts, FrameFits
  <2>2. p \in DOMAIN contexts /\ contexts[p] # Null
    BY <1>1, <1>p, <2>1, NullAssumption DEF FrameFits
  <2>3. Calls(Callbacks, p, r)
    <3>1. Calls(Open, p, r)
      BY <2>1, <2>2 DEF EngineInv, ContextsCalled
    <3> QED BY <3>1 DEF Calls, Open, Callbacks
  <2>4. \A u \in Threads : \A j \in DOMAIN frames[u] :
           frames[u][j].op \in Callbacks /\ frames[u][j].renderer = r => frames[u][j - 1].context # p
    BY <1>0, <1>2, <1>p, <2>1, OwnerBelow
  <2>5. \A c : Calls(Callbacks, c, r) => c <= p
    BY <1>1, <2>3, <2>4, LeafIsNewest
  <2> QED BY <1>5, <1>p, <2>1, <2>3, <2>5
<1> QED BY <1>0, <1>3, <1>4, <1>5

LEMMA ExclusiveHolds ==
    ASSUME RegistryInv, EngineInv, HelpersHaveContexts, OwnInv
    PROVE  RendererExclusive
<1> SUFFICES ASSUME NEW t \in Threads, NEW u \in Threads, NEW r \in Renderers, Touches(t, r), Touches(u, r) PROVE t = u
  BY DEF RendererExclusive
<1>1. ASSUME NEW v \in Threads, Touches(v, r)
      PROVE  /\ ~Idle(v) /\ Top(v).op \in {"render", "invalidated"} \cup Locked
             /\ Top(v).op = "render" => Top(v).renderer = r
             /\ Len(frames[v]) \in DOMAIN frames[v] /\ Top(v) = frames[v][Len(frames[v])] /\ Top(v).context \in Nat
  <2>1. ~Idle(v) /\ Top(v).op \in {"render", "invalidated"} \cup Locked /\ (Top(v).op = "render" => Top(v).renderer = r)
    BY <1>1 DEF Touches, Locked
  <2> QED BY <2>1, TopFits DEF RegistryInv, FramesInv, StacksFit, FrameFits, Top
<1>2. Top(t).context = Top(u).context
  <2>1. Top(t).context <= Top(u).context
    BY <1>1, ToucherIsNewest
  <2>2. Top(u).context <= Top(t).context
    BY <1>1, ToucherIsNewest
  <2> QED BY <1>1, <2>1, <2>2
<1>p. PICK p : p = Top(t).context
  OBVIOUS
<1>3. CASE p = 0
  <2>1. Top(t).op = "render" /\ Top(u).op = "render"
    BY <1>2, <1>3, <1>p, ToucherIsNewest
  <2> QED BY <1>1, <2>1 DEF EngineInv, RendersOwn
<1>4. CASE p # 0
  <2>1. Top(t).op \in {"invalidated"} \cup Locked /\ Top(u).op \in {"invalidated"} \cup Locked
    BY <1>1, <1>2, <1>4, <1>p, ToucherIsNewest
  <2>2. CASE Top(t).op \in Locked /\ Top(u).op \in Locked
    <3>1. Holds(t, p) /\ Holds(u, p) /\ p \in Nat \ {0}
      BY <1>1, <1>2, <1>4, <1>p, <2>2 DEF Holds
    <3> QED BY <3>1 DEF RegistryInv, FramesInv, LocksExclusive
  <2>3. CASE Top(t).op = "invalidated" /\ Top(u).op = "invalidated"
    BY <1>1, <1>2, <2>3 DEF RegistryInv, FramesInv, CallbacksOwn, Callbacks
  <2>4. CASE Top(t).op = "invalidated" /\ Top(u).op \in Locked
    BY <1>2, <2>4, ToucherIsNewest, NullAssumption
  <2>5. CASE Top(t).op \in Locked /\ Top(u).op = "invalidated"
    BY <1>2, <2>5, ToucherIsNewest, NullAssumption
  <2> QED BY <2>1, <2>2, <2>3, <2>4, <2>5
<1> QED BY <1>3, <1>4

LEMMA OwnStacksKept ==
    ASSUME OwnUse, Plain, NEW t \in Threads, NEW m, Turns(t, m),
           \A i \in DOMAIN frames'[t] : i > m =>
              /\ frames'[t][i].op \in Asking => i > 1 /\ Own(frames'[t][i], frames'[t][i - 1])
              /\ (frames'[t][i].op = "worker" => i = 1) /\ PlainFrame(frames'[t][i])
    PROVE  OwnUse' /\ Plain'
<1> SUFFICES ASSUME NEW u \in Threads, NEW i \in DOMAIN frames'[u]
             PROVE  /\ frames'[u][i].op \in Asking => i > 1 /\ Own(frames'[u][i], frames'[u][i - 1])
                    /\ (frames'[u][i].op = "worker" => i = 1) /\ PlainFrame(frames'[u][i])
  BY DEF OwnUse, Plain, PlainFrame, Own
<1>1. CASE u # t
  BY <1>1 DEF Turns, OwnUse, Plain, PlainFrame
<1>2. CASE u = t /\ i > m
  BY <1>2
<1>3. CASE u = t /\ ~(i > m)
  <2>1. i \in 1..m /\ m \in Nat
    BY <1>3 DEF Turns
  <2>2. i \in DOMAIN frames[t] /\ frames'[t][i] = frames[t][i]
    BY <2>1 DEF Turns
  <2>3. i > 1 => i - 1 \in 1..m
    BY <2>1
  <2>4. i > 1 => frames'[t][i - 1] = frames[t][i - 1]
    BY <2>3 DEF Turns
  <2> QED BY <1>3, <2>2, <2>4 DEF OwnUse, Plain, PlainFrame
<1> QED BY <1>1, <1>2, <1>3

LEMMA ChainKept ==
    ASSUME RegistryInv, EngineInv, CallbacksChain, NEW t \in Threads, NEW m, Turns(t, m),
           \A i \in DOMAIN frames'[t] : i > m /\ frames'[t][i].op \in Callbacks =>
              /\ i = m + 1 /\ i \in DOMAIN frames[t] /\ frames[t][i].op \in Callbacks
              /\ frames'[t][i].context = frames[t][i].context /\ frames'[t][i].renderer = frames[t][i].renderer
    PROVE  CallbacksChain'
<1>1. ASSUME NEW u \in Threads, NEW i \in DOMAIN frames'[u], frames'[u][i].op \in Callbacks
      PROVE  /\ i \in DOMAIN frames[u] /\ frames[u][i].op \in Callbacks
             /\ frames'[u][i].context = frames[u][i].context /\ frames'[u][i].renderer = frames[u][i].renderer
             /\ frames'[u][i - 1].context = frames[u][i - 1].context
  <2>1. CASE u # t
    BY <1>1, <2>1 DEF Turns
  <2>2. CASE u = t
    <3>1. i \in DOMAIN frames[t] /\ i \in Nat /\ m \in Nat /\ i <= m + 1
      BY <1>1, <2>2 DEF Turns
    <3>2. /\ frames[t][i].op \in Callbacks /\ frames'[t][i].context = frames[t][i].context
          /\ frames'[t][i].renderer = frames[t][i].renderer
      <4>1. CASE i > m
        BY <1>1, <2>2, <4>1
      <4>2. CASE ~(i > m)
        <5>1. i \in 1..m
          BY <1>1, <2>2, <3>1, <4>2 DEF Turns
        <5> QED BY <1>1, <2>2, <5>1 DEF Turns
      <4> QED BY <4>1, <4>2
    <3>3. i > 1
      BY <3>1, <3>2 DEF EngineInv, CallbacksSit
    <3>4. i - 1 \in 1..m
      BY <3>1, <3>3
    <3>5. frames'[t][i - 1] = frames[t][i - 1]
      BY <3>4 DEF Turns
    <3> QED BY <2>2, <3>1, <3>2, <3>5
  <2> QED BY <2>1, <2>2
<1> SUFFICES ASSUME NEW v \in Threads, NEW u \in Threads, NEW i \in DOMAIN frames'[v], NEW j \in DOMAIN frames'[u],
                    frames'[v][i].op \in Callbacks, frames'[u][j].op \in Callbacks, frames'[u][j].renderer = frames'[v][i].renderer
             PROVE  frames'[u][j].context <= frames'[v][i - 1].context \/ frames'[u][j].context >= frames'[v][i].context
  BY DEF CallbacksChain
<1>2. /\ i \in DOMAIN frames[v] /\ frames[v][i].op \in Callbacks
      /\ frames'[v][i].context = frames[v][i].context /\ frames'[v][i].renderer = frames[v][i].renderer
      /\ frames'[v][i - 1].context = frames[v][i - 1].context
  BY <1>1
<1>3. /\ j \in DOMAIN frames[u] /\ frames[u][j].op \in Callbacks
      /\ frames'[u][j].context = frames[u][j].context /\ frames'[u][j].renderer = frames[u][j].renderer
  BY <1>1
<1> QED BY <1>2, <1>3 DEF CallbacksChain

LEMMA PopKeepsOwn ==
    ASSUME RegistryInv, EngineInv, OwnInv, NEW t \in Threads, ~Idle(t), frames' = Popped(t)
    PROVE  OwnInv'
<1>1. Turns(t, Len(frames[t]) - 1) /\ Len(frames'[t]) = Len(frames[t]) - 1
  BY PopTurns DEF RegistryInv
<1>2. \A i \in DOMAIN frames'[t] : ~(i > Len(frames[t]) - 1)
  BY <1>1 DEF Turns
<1> QED BY <1>1, <1>2, OwnStacksKept, ChainKept DEF OwnInv

LEMMA PushKeepsOwn ==
    ASSUME RegistryInv, EngineInv, OwnInv, NEW t \in Threads, NEW f, frames' = Pushed(t, f),
           f.op \notin Callbacks, f.op \in Asking => ~Idle(t) /\ Own(f, Top(t)), f.op = "worker" => Idle(t),
           PlainFrame(f)
    PROVE  OwnInv'
<1>n. PICK n : n = Len(frames[t])
  OBVIOUS
<1>1. Turns(t, n) /\ Len(frames'[t]) = n + 1 /\ frames'[t][n + 1] = f
  BY <1>n, PushTurns DEF RegistryInv
<1>2. n \in Nat /\ \A i \in DOMAIN frames'[t] : i > n => i = n + 1
  BY <1>1 DEF Turns
<1>3. ~Idle(t) => n > 0 /\ frames'[t][n] = Top(t)
  <2> SUFFICES ASSUME ~Idle(t) PROVE n > 0 /\ frames'[t][n] = Top(t)
    OBVIOUS
  <2>1. n \in Nat \ {0} /\ Top(t) = frames[t][n]
    BY <1>n, TopFits DEF RegistryInv, Top
  <2> QED BY <1>1, <2>1 DEF Turns
<1>4. Idle(t) => n = 0
  BY <1>n DEF Idle
<1>5. (n + 1) - 1 = n
  BY <1>2
<1>6. \A i \in DOMAIN frames'[t] : i > n =>
         /\ frames'[t][i].op \in Asking => i > 1 /\ Own(frames'[t][i], frames'[t][i - 1])
         /\ (frames'[t][i].op = "worker" => i = 1) /\ PlainFrame(frames'[t][i])
  BY <1>1, <1>2, <1>3, <1>4, <1>5
<1>7. OwnUse' /\ Plain'
  BY <1>1, <1>6, OwnStacksKept DEF OwnInv
<1>8. \A i \in DOMAIN frames'[t] : i > n => frames'[t][i].op \notin Callbacks
  BY <1>1, <1>2
<1>9. CallbacksChain'
  BY <1>1, <1>8, ChainKept DEF OwnInv
<1> QED BY <1>7, <1>9 DEF OwnInv

LEMMA BecomeKeepsOwn ==
    ASSUME RegistryInv, EngineInv, OwnInv, NEW t \in Threads, ReturnFromCallback(t) \/ Invalidate(t) \/ LeaveCallback(t)
    PROVE  OwnInv'
<1>n. PICK n : n = Len(frames[t])
  OBVIOUS
<1>1. PICK op \in {"returning", "invalidated", "unlinking"} : frames' = Became(t, op) /\ ~Idle(t) /\ Top(t).op \in Callbacks
  BY DEF ReturnFromCallback, Invalidate, LeaveCallback, Running, Callbacks
<1>2. op \in Callbacks /\ op \notin Asking \cup {"callback", "worker", "render"}
  BY DEF Callbacks, Locking, Locked, Asking
<1>3. Recast(t, op) /\ Turns(t, n - 1) /\ Len(frames'[t]) = n
  BY <1>1, <1>2, <1>n, BecameRecasts
<1>4. n \in Nat \ {0} /\ n \in DOMAIN frames[t] /\ Top(t) = frames[t][n]
  BY <1>1, <1>n, TopFits DEF RegistryInv, Top
<1>5. \A i \in DOMAIN frames'[t] : i > n - 1 => i = n
  BY <1>3, <1>4 DEF Turns
<1>6. frames'[t][n].op = op /\ frames'[t][n].context = Top(t).context /\ frames'[t][n].renderer = Top(t).renderer
  BY <1>3, <1>n DEF Recast
<1>7. OwnUse' /\ Plain'
  BY <1>2, <1>3, <1>5, <1>6, OwnStacksKept DEF OwnInv, PlainFrame
<1>8. CallbacksChain'
  BY <1>1, <1>3, <1>4, <1>5, <1>6, ChainKept DEF OwnInv
<1> QED BY <1>7, <1>8 DEF OwnInv

LEMMA TemplateKeepsOwn ==
    ASSUME RegistryInv, EngineInv, OwnInv, NEW t \in Threads, RenderTemplate(t)
    PROVE  OwnInv'
<1>n. PICK n : n = Len(frames[t])
  OBVIOUS
<1>1. ~Idle(t) /\ Top(t).op = "template"
  BY DEF RenderTemplate, Running
<1>2. CASE frames' = Popped(t)
  BY <1>1, <1>2, PopKeepsOwn
<1>3. CASE /\ Turns(t, n - 1) /\ Len(frames'[t]) = n + 1 /\ n \in Nat \ {0}
           /\ frames'[t][n].op = "templated" /\ frames'[t][n + 1].op = "lock"
           /\ frames'[t][n].context = Top(t).context /\ frames'[t][n + 1].context = Top(t).context
  <2>1. n \in DOMAIN frames[t] /\ Top(t) = frames[t][n]
    BY <1>1, <1>n, TopFits DEF RegistryInv, Top
  <2>2. n > 1 /\ Own(frames[t][n], frames[t][n - 1])
    BY <1>1, <2>1 DEF OwnInv, OwnUse, Asking, Locked
  <2>3. n - 1 \in 1..(n - 1) /\ (n + 1) - 1 = n /\ n + 1 > 1
    BY <1>3, <2>2
  <2>4. frames'[t][n - 1] = frames[t][n - 1]
    BY <1>3, <2>3 DEF Turns
  <2>5. Own(frames'[t][n], frames'[t][n - 1])
    BY <1>1, <1>3, <2>1, <2>2, <2>4 DEF Own
  <2>6. Own(frames'[t][n + 1], frames'[t][n])
    BY <1>3 DEF Own
  <2>7. \A i \in DOMAIN frames'[t] : i > n - 1 => i = n \/ i = n + 1
    BY <1>3 DEF Turns
  <2>8. \A i \in DOMAIN frames'[t] : i > n - 1 => i > 1 /\ Own(frames'[t][i], frames'[t][i - 1]) /\ frames'[t][i].op \in {"lock", "templated"}
    BY <1>3, <2>2, <2>3, <2>5, <2>6, <2>7
  <2>9. OwnUse' /\ Plain'
    BY <1>3, <2>8, OwnStacksKept DEF OwnInv, PlainFrame
  <2>10. CallbacksChain'
    BY <1>3, <2>8, ChainKept DEF OwnInv, Callbacks
  <2> QED BY <2>9, <2>10 DEF OwnInv
<1> QED BY <1>2, <1>3, <1>n, TemplateTurns DEF RegistryInv

LEMMA EnterKeepsOwn ==
    ASSUME RegistryInv, EngineInv, OwnInv, NEW t \in Threads, RenderThroughContext(t)
    PROVE  OwnInv'
<1>n. PICK n : n = Len(frames[t])
  OBVIOUS
<1>1. ~Idle(t) /\ Top(t).op = "locked"
  BY DEF RenderThroughContext, Running
<1>2. CASE frames' = Popped(t)
  BY <1>1, <1>2, PopKeepsOwn
<1>3. ASSUME NEW f, f.op = "helper", f.context = Top(t).context, frames' = [frames EXCEPT ![t] = [frames[t] EXCEPT ![n] = f]]
      PROVE  OwnInv'
  <2>1. Turns(t, n - 1) /\ Len(frames'[t]) = n /\ frames'[t][n] = f
    BY <1>1, <1>3, <1>n, PutTurns DEF RegistryInv
  <2>2. n \in Nat \ {0} /\ n \in DOMAIN frames[t] /\ Top(t) = frames[t][n]
    BY <1>1, <1>n, TopFits DEF RegistryInv, Top
  <2>3. n > 1 /\ Own(frames[t][n], frames[t][n - 1])
    BY <1>1, <2>2 DEF OwnInv, OwnUse, Asking, Locked
  <2>4. n - 1 \in 1..(n - 1)
    BY <2>2, <2>3
  <2>5. frames'[t][n - 1] = frames[t][n - 1]
    BY <2>1, <2>4 DEF Turns
  <2>6. Own(frames'[t][n], frames'[t][n - 1])
    BY <1>1, <1>3, <2>1, <2>2, <2>3, <2>5 DEF Own
  <2>7. \A i \in DOMAIN frames'[t] : i > n - 1 => i = n
    BY <2>1, <2>2 DEF Turns
  <2>8. OwnUse' /\ Plain'
    BY <1>3, <2>1, <2>3, <2>6, <2>7, OwnStacksKept DEF OwnInv, PlainFrame
  <2>9. CallbacksChain'
    BY <1>3, <2>1, <2>7, ChainKept DEF OwnInv, Callbacks
  <2> QED BY <2>8, <2>9 DEF OwnInv
<1>4. CASE \E r : frames' = [frames EXCEPT ![t] = [frames[t] EXCEPT ![n] = HelperFrame(r, Top(t).context)]]
  <2>1. PICK r : frames' = [frames EXCEPT ![t] = [frames[t] EXCEPT ![n] = HelperFrame(r, Top(t).context)]]
    BY <1>4
  <2>2. PICK f : f = HelperFrame(r, Top(t).context)
    OBVIOUS
  <2>3. f.op = "helper" /\ f.context = Top(t).context
    BY <2>2 DEF HelperFrame, Frame
  <2> QED BY <1>3, <2>1, <2>2, <2>3
<1> QED BY <1>2, <1>4, <1>n DEF RenderThroughContext

LEMMA LockKeepsOwn ==
    ASSUME RegistryInv, EngineInv, OwnInv, NEW t \in Threads, LockContext(t)
    PROVE  OwnInv'
<1>n. PICK n : n = Len(frames[t])
  OBVIOUS
<1>f. PICK f : f = frames'[t][n]
  OBVIOUS
<1>1. /\ Turns(t, n - 1) /\ Len(frames'[t]) = n /\ f.op \in {"locked", "template"}
      /\ Top(t).op = "lock" => f.op = "locked"
      /\ f.context = Top(t).context /\ Top(t).op \in Locking /\ ~Idle(t)
  BY <1>n, <1>f, LockTurns DEF RegistryInv
<1>2. n \in Nat \ {0} /\ n \in DOMAIN frames[t] /\ Top(t) = frames[t][n]
  BY <1>1, <1>n, TopFits DEF RegistryInv, Top
<1>3. n > 1 /\ Own(frames[t][n], frames[t][n - 1])
  BY <1>1, <1>2 DEF OwnInv, OwnUse, Asking
<1>4. n - 1 \in 1..(n - 1)
  BY <1>2, <1>3
<1>5. frames'[t][n - 1] = frames[t][n - 1]
  BY <1>1, <1>4 DEF Turns
<1>6. Own(frames'[t][n], frames'[t][n - 1])
  BY <1>1, <1>f, <1>2, <1>3, <1>5 DEF Own, Locking
<1>7. \A i \in DOMAIN frames'[t] : i > n - 1 => i = n
  BY <1>1, <1>2 DEF Turns
<1>8. OwnUse' /\ Plain'
  BY <1>1, <1>f, <1>3, <1>6, <1>7, OwnStacksKept DEF OwnInv, PlainFrame
<1>9. CallbacksChain'
  BY <1>1, <1>f, <1>7, ChainKept DEF OwnInv, Callbacks
<1> QED BY <1>8, <1>9 DEF OwnInv

\* The newest callback of a renderer is where its next one begins.
LEMMA InvokeKeepsOwn ==
    ASSUME RegistryInv, EngineInv, HelpersHaveContexts, OwnInv, Reach = "own", NEW t \in Threads, InvokeSectionLambda(t)
    PROVE  OwnInv'
<1>r. PICK r : r = Top(t).renderer
  OBVIOUS
<1>n. PICK n : n = Len(frames[t])
  OBVIOUS
<1>id. PICK id : id = Len(contexts) + 1
  OBVIOUS
<1>f. PICK f : f = UserFrame("callback", r, id, HandlesOf(t, id))
  OBVIOUS
<1>1. ~Idle(t) /\ waitingFor[t] = Null /\ Top(t).op \in {"render", "helper"} /\ frames' = Pushed(t, f)
  BY <1>r, <1>id, <1>f DEF InvokeSectionLambda, Running
<1>2. r \in Renderers /\ n \in Nat \ {0} /\ n \in DOMAIN frames[t] /\ Top(t) = frames[t][n] /\ DOMAIN frames[t] = 1..n
  BY <1>1, <1>r, <1>n, TopFits DEF RegistryInv, FrameFits, Top
<1>3. f.op = "callback" /\ f.renderer = r /\ f.context = id /\ f.handles = {id}
  BY <1>f DEF UserFrame, Frame, HandlesOf
<1>4. Turns(t, n) /\ Len(frames'[t]) = n + 1 /\ frames'[t][n + 1] = f
  BY <1>1, <1>n, PushTurns DEF RegistryInv
<1>5. /\ n + 1 \in DOMAIN frames'[t] /\ (n + 1) - 1 = n /\ frames'[t][n] = Top(t)
      /\ \A i \in DOMAIN frames'[t] : i > n => i = n + 1
  BY <1>2, <1>4 DEF Turns
<1>6. OwnUse' /\ Plain'
  BY <1>3, <1>4, <1>5, OwnStacksKept DEF OwnInv, Locking, Locked, Asking, PlainFrame
<1>7. Touches(t, r)
  BY <1>1, <1>r DEF Touches
<1>8. \A c : Calls(Callbacks, c, r) => c <= Top(t).context
  BY <1>2, <1>7, ToucherIsNewest
<1>9. \A u \in Threads : \A i \in DOMAIN frames[u] : frames[u][i].context \in Nat /\ frames[u][i].context < id /\ id \in Nat
  BY <1>id DEF RegistryInv, FramesInv, StacksFit, FrameFits
<1>10. ASSUME NEW u \in Threads, NEW i \in DOMAIN frames'[u], frames'[u][i].op \in Callbacks
       PROVE  \/ u = t /\ i = n + 1 /\ frames'[u][i] = f /\ frames'[u][i - 1].context = Top(t).context
              \/ /\ i \in DOMAIN frames[u] /\ frames'[u][i] = frames[u][i]
                 /\ frames'[u][i - 1].context = frames[u][i - 1].context
  <2>1. CASE u = t /\ i = n + 1
    BY <1>4, <1>5, <2>1
  <2>2. CASE ~(u = t /\ i = n + 1)
    <3>1. i \in DOMAIN frames[u] /\ frames'[u][i] = frames[u][i]
      BY <1>4, <1>5, <2>2, <1>n DEF Turns
    <3>2. i > 1
      BY <1>10, <3>1 DEF EngineInv, CallbacksSit
    <3>3. i - 1 \in DOMAIN frames[u]
      BY <3>1, <3>2, StackShape DEF RegistryInv, FramesInv
    <3>4. frames'[u][i - 1] = frames[u][i - 1]
      BY <1>2, <1>4, <3>3 DEF Turns
    <3> QED BY <3>1, <3>4
  <2> QED BY <2>1, <2>2
<1>11. CallbacksChain'
  <2> SUFFICES ASSUME NEW v \in Threads, NEW u \in Threads, NEW i \in DOMAIN frames'[v], NEW j \in DOMAIN frames'[u],
                      frames'[v][i].op \in Callbacks, frames'[u][j].op \in Callbacks, frames'[u][j].renderer = frames'[v][i].renderer
               PROVE  frames'[u][j].context <= frames'[v][i - 1].context \/ frames'[u][j].context >= frames'[v][i].context
    BY DEF CallbacksChain
  <2>1. CASE u = t /\ j = n + 1 /\ frames'[u][j] = f
    <3>1. frames'[u][j].context = id /\ id \in Nat
      BY <1>3, <2>1, <1>9, <1>2
    <3>2. CASE frames'[v][i] = f
      <4>1. frames'[v][i].context = id
        BY <1>3, <3>2
      <4> QED BY <3>1, <4>1
    <3>3. CASE i \in DOMAIN frames[v] /\ frames'[v][i] = frames[v][i]
      <4>1. frames[v][i].context \in Nat /\ frames[v][i].context < id
        BY <1>9, <3>3
      <4>2. frames'[v][i].context = frames[v][i].context
        BY <3>3
      <4> QED BY <3>1, <4>1, <4>2
    <3> QED BY <1>10, <3>2, <3>3
  <2>2. CASE ~(u = t /\ j = n + 1 /\ frames'[u][j] = f)
    <3>1. j \in DOMAIN frames[u] /\ frames'[u][j] = frames[u][j]
      BY <1>10, <2>2
    <3>2. CASE v = t /\ i = n + 1 /\ frames'[v][i] = f /\ frames'[v][i - 1].context = Top(t).context
      <4>1. Calls(Callbacks, frames[u][j].context, r)
        BY <1>3, <3>1, <3>2 DEF Calls
      <4> QED BY <1>8, <3>1, <3>2, <4>1
    <3>3. CASE i \in DOMAIN frames[v] /\ frames'[v][i] = frames[v][i] /\ frames'[v][i - 1].context = frames[v][i - 1].context
      BY <3>1, <3>3 DEF OwnInv, CallbacksChain
    <3> QED BY <1>10, <3>2, <3>3
  <2> QED BY <2>1, <2>2
<1> QED BY <1>6, <1>11 DEF OwnInv

LEMMA OwnInvNext ==
    Reach = "own" /\ ~UsesRaw /\ RegistryInv /\ EngineInv /\ HelpersHaveContexts /\ OwnInv /\ [Next]_vars => OwnInv'
<1> SUFFICES ASSUME Reach = "own", ~UsesRaw, RegistryInv, EngineInv, HelpersHaveContexts, OwnInv, [Next]_vars PROVE OwnInv'
  OBVIOUS
<1>1. CASE UNCHANGED vars
  BY <1>1 DEF vars, OwnInv, OwnUse, Plain, PlainFrame, CallbacksChain
<1>2. ASSUME NEW t \in Threads, Step(t) PROVE OwnInv'
  <2>1. CASE FinishRender(t) \/ FinishHelper(t) \/ FinishWorker(t) \/ LeaveScope(t)
    BY <2>1, PopKeepsOwn DEF FinishRender, FinishHelper, FinishWorker, LeaveScope, Running
  <2>2. ASSUME NEW c \in DOMAIN contexts, NEW op \in Locking, CallRender(t, c, op) PROVE OwnInv'
    <3>1. PICK f : f = Frame(op, Top(t).renderer, c)
      OBVIOUS
    <3>2. ~Idle(t) /\ frames' = Pushed(t, f) /\ f.op = op /\ f.context = c /\ Top(t).op \in {"callback", "worker"} /\ c \in Top(t).handles
      BY <2>2, <3>1 DEF CallRender, UserCode, Running, Frame
    <3>4. Top(t).context = c
      <4>1. Len(frames[t]) \in DOMAIN frames[t] /\ Top(t) = frames[t][Len(frames[t])]
        BY <3>2, TopFits DEF RegistryInv, Top
      <4> QED BY <3>2, <4>1 DEF OwnInv, Plain, PlainFrame
    <3>3. Own(f, Top(t)) /\ f.op \notin Callbacks \cup {"worker"} /\ PlainFrame(f)
      BY <3>2, <3>4 DEF Own, Callbacks, Locking, PlainFrame
    <3> QED BY <3>2, <3>3, PushKeepsOwn
  <2>3. ASSUME NEW hs \in SUBSET DOMAIN contexts, NEW w \in Threads, NEW mode \in HandoffModes, HandOver(t, w, hs, mode) PROVE OwnInv'
    <3>1. PICK f : f = UserFrame("worker", Top(t).renderer, Top(t).context, hs)
      OBVIOUS
    <3>2. Idle(w) /\ frames' = Pushed(w, f) /\ f.op = "worker" /\ f.context = Top(t).context /\ f.handles = hs
      BY <2>3, <3>1 DEF HandOver, UserFrame, Frame
    <3>3. ~Idle(t) /\ Top(t).op = "callback" /\ hs \subseteq Top(t).handles
      BY <2>3 DEF HandOver, Running
    <3>4. Top(t).handles \subseteq {Top(t).context}
      <4>1. Len(frames[t]) \in DOMAIN frames[t] /\ Top(t) = frames[t][Len(frames[t])]
        BY <3>3, TopFits DEF RegistryInv, Top
      <4> QED BY <3>3, <4>1 DEF OwnInv, Plain, PlainFrame
    <3>5. PlainFrame(f)
      BY <3>2, <3>3, <3>4 DEF PlainFrame
    <3>6. f.op \notin Callbacks \cup Asking
      BY <3>2 DEF Callbacks, Locking, Locked, Asking
    <3> QED BY <3>2, <3>5, <3>6, PushKeepsOwn
  <2>4. ~LegacyRender(t)
    BY DEF LegacyRender
  <2> QED BY <1>2, <2>1, <2>2, <2>3, <2>4, InvokeKeepsOwn, BecomeKeepsOwn, TemplateKeepsOwn, EnterKeepsOwn, LockKeepsOwn DEF Step
<1>3. ASSUME NEW t \in Threads, NEW r \in Renderers, StartRender(t, r) PROVE OwnInv'
  <2>1. PICK f : f = Frame("render", r, 0)
    OBVIOUS
  <2>2. frames' = Pushed(t, f) /\ f.op = "render" /\ f.context = 0
    BY <1>3, <2>1 DEF StartRender, Frame
  <2>3. f.op \notin Callbacks \cup Asking \cup {"worker"} /\ PlainFrame(f)
    BY <2>2 DEF Callbacks, Locking, Locked, Asking, PlainFrame
  <2> QED BY <2>2, <2>3, PushKeepsOwn
<1> QED BY <1>1, <1>2, <1>3 DEF Next

LEMMA OwnInvInit == Init => OwnInv
<1> SUFFICES ASSUME Init PROVE OwnInv
  OBVIOUS
<1>1. <<>> \in Seq({}) /\ Len(<<>>) = 0
  OBVIOUS
<1>2. DOMAIN <<>> = {}
  BY <1>1
<1>3. \A t \in Threads : frames[t] = <<>>
  BY DEF Init
<1> QED BY <1>2, <1>3 DEF OwnInv, OwnUse, Plain, PlainFrame, CallbacksChain

\* Either callbacks use their own contexts only, or they wait for their workers.
Separate == (Reach = "own" /\ ~UsesRaw) \/ HandoffModes \subseteq {"waits"}

\* The renderer's own state has no lock (renderer.hpp: a Renderer is not thread-safe), and
\* needs none in two cases.  While callbacks wait for their workers, whatever they use, the
\* threads that work for a renderer are one stack and only its end runs.  And while callbacks
\* only use their own contexts, whatever they leave running: the thread that works on a
\* renderer is the one at the end of the chain of that renderer's callbacks.
THEOREM RenderersAreExclusive == ASSUME Separate PROVE Spec => []RendererExclusive
<1> DEFINE Inv == ContextsInv /\ (Reach = "own" /\ ~UsesRaw => OwnInv)
<1>0. Disciplined
  BY DEF Separate, Disciplined
<1>1. Init => Inv
  BY ContextsInvInit, OwnInvInit
<1>2. Inv /\ [Next]_vars => Inv'
  <2> SUFFICES ASSUME Inv, [Next]_vars PROVE Inv'
    OBVIOUS
  <2>1. ContextsInv'
    BY <1>0, ContextsInvNext
  <2>2. Reach = "own" /\ ~UsesRaw => OwnInv'
    BY OwnInvNext DEF ContextsInv
  <2> QED BY <2>1, <2>2
<1>3. Inv => RendererExclusive
  <2> SUFFICES ASSUME Inv PROVE RendererExclusive
    OBVIOUS
  <2>1. CASE Reach = "own" /\ ~UsesRaw
    BY <2>1, ExclusiveHolds DEF ContextsInv
  <2>2. CASE HandoffModes \subseteq {"waits"}
    BY <2>2, ChainExclusive DEF ContextsInv
  <2> QED BY <2>1, <2>2 DEF Separate
<1> HIDE DEF Inv
<1> QED BY <1>1, <1>2, <1>3, PTL DEF Spec
=============================================================================
