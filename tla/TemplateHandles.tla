----------------------------- MODULE TemplateHandles -----------------------------
(***************************************************************************)
(* CompiledTemplate and ArchivedTemplate: handles that share an immutable  *)
(* state and the renders that read it.                                     *)
(*                                                                         *)
(* A state is destroyed with its last owner, and its address may be given  *)
(* to the next one.  The owners are the application's handles, the entries *)
(* of its PartialMap and the renders and partial calls in progress, which  *)
(* read trees through plain pointers.  The application's code runs outside *)
(* of renders and inside of callbacks, where it may replace anything.      *)
(*                                                                         *)
(* Trees are sequences of what a render does: text, a partial, a lambda.   *)
(* The walk itself is Renderer's, the bytes of an archive are              *)
(* ArchivedTemplate's.                                                     *)
(***************************************************************************)
EXTENDS Naturals, Sequences

CONSTANTS
    Compiled,       \* the application's CompiledTemplate variables
    Archived,       \* its ArchivedTemplate variables
    Names,          \* names of partials, the keys of its PartialMap
    States,         \* addresses of shared states
    Trees,          \* what sources compile to: sequences of items
    Root,           \* the name of a template's own tree
    Null,           \* an empty handle
    Absent,         \* a key the map does not have
    MaxNesting,     \* RenderLimits::maxNestingDepth, in trees
    MaxCalls        \* bound: calls the application makes

ASSUME SlotsAssumption ==
    /\ Compiled \cap Archived = {} /\ Compiled \cap Names = {} /\ Archived \cap Names = {}
    /\ Null \notin States /\ Absent \notin States /\ Null # Absent /\ Root \notin Names
ASSUME TreesAssumption ==
    Trees \subseteq Seq([kind : {"text", "lambda"}, name : {Null}] \cup [kind : {"partial"}, name : Names])

VARIABLES
    handles,    \* handles and map entries -> the state they share
    heap,       \* the states that exist -> their trees by name
    archive,    \* the caller's vector of archive bytes: trees by name, or Null
    stack,      \* renders, partial calls and callbacks, the innermost last
    raising,    \* whether an exception is on its way out
    calls

vars == <<handles, heap, archive, stack, raising, calls>>

Slots == Compiled \cup Archived \cup Names
Contents == UNION {[names -> Trees] : names \in {{Root} \cup n : n \in SUBSET Names}}

-----------------------------------------------------------------------------
(* std::shared_ptr *)

\* A state lives while a handle, an entry or a call in progress owns it.
Owned(hs, st) == {hs[h] : h \in Slots} \cup {st[i].owner : i \in DOMAIN st}
Release(states) == heap' = [s \in DOMAIN states \cap Owned(handles', stack') |-> states[s]]
\* make_shared, and the handle that is assigned from it.
MakeState(h, contents) ==
    \E s \in States \ DOMAIN heap :
        /\ handles' = [handles EXCEPT ![h] = s]
        /\ Release([t \in DOMAIN heap \cup {s} |-> IF t = s THEN contents ELSE heap[t]])

-----------------------------------------------------------------------------
(* The application *)

InApplication == stack # <<>> => stack[Len(stack)].kind = "callback"
ApplicationRuns == ~raising /\ InApplication
Call == ApplicationRuns /\ calls < MaxCalls /\ calls' = calls + 1
Throw == raising' = TRUE /\ UNCHANGED <<handles, heap, archive, stack>>
Return == UNCHANGED raising
SameType(h, g) == (h \in Archived) = (g \in Archived)

\* Fault: the source is parsed into the state the handle has.
CompileInPlace(h, tree) ==
    /\ Call /\ h \notin Archived
    /\ IF handles[h] \in States
       THEN heap' = [heap EXCEPT ![handles[h]] = [n \in {Root} |-> tree]] /\ UNCHANGED <<handles, archive, stack>>
       ELSE UNCHANGED <<archive, stack>> /\ MakeState(h, [n \in {Root} |-> tree])
    /\ Return
Compile(h, tree) ==
    /\ Call /\ h \notin Archived
    /\ UNCHANGED <<archive, stack>>
    /\ MakeState(h, [n \in {Root} |-> tree])
    /\ Return
RejectSource == Call /\ Throw

CopyAssign(h, g) ==
    /\ Call /\ SameType(h, g) /\ handles[g] # Absent
    /\ handles' = [handles EXCEPT ![h] = handles[g]]
    /\ UNCHANGED <<archive, stack>>
    /\ Release(heap) /\ Return
\* A handle that is moved from is empty, unless it is moved to itself.
MoveAssign(h, g) ==
    /\ Call /\ SameType(h, g) /\ handles[g] # Absent
    /\ handles' = [handles EXCEPT ![g] = Null, ![h] = handles[g]]
    /\ UNCHANGED <<archive, stack>>
    /\ Release(heap) /\ Return
Clear(h) ==
    /\ Call
    /\ handles' = [handles EXCEPT ![h] = Null]
    /\ UNCHANGED <<archive, stack>>
    /\ Release(heap) /\ Return
ErasePartial(n) ==
    /\ Call /\ handles[n] # Absent
    /\ handles' = [handles EXCEPT ![n] = Absent]
    /\ UNCHANGED <<archive, stack>>
    /\ Release(heap) /\ Return

\* serializeArchivedTemplate reads every entry of the map, and none may be empty.
Serializable(h) == handles[h] \in States /\ \A n \in Names : handles[n] # Null
Serialize(h) ==
    /\ Call /\ Serializable(h)
    /\ archive' = [n \in {Root} \cup {m \in Names : handles[m] \in States} |->
                      IF n = Root THEN heap[handles[h]][Root] ELSE heap[handles[n]][Root]]
    /\ UNCHANGED <<handles, heap, stack>>
    /\ Return
RefuseSerialize(h) == Call /\ ~Serializable(h) /\ Throw
\* The application does with its bytes what it wants.
Overwrite ==
    /\ Call
    /\ archive' = Null
    /\ UNCHANGED <<handles, heap, stack>>
    /\ Return
\* loadArchivedTemplate copies the bytes and validates the copy.
Load(h) ==
    /\ Call /\ archive # Null
    /\ UNCHANGED <<archive, stack>>
    /\ MakeState(h, archive)
    /\ Return
RefuseLoad == Call /\ archive = Null /\ Throw

CallbackReturns ==
    /\ ApplicationRuns /\ stack # <<>>
    /\ stack' = SubSeq(stack, 1, Len(stack) - 1)
    /\ UNCHANGED <<handles, archive, raising, calls>>
    /\ Release(heap)
CallbackThrows ==
    /\ ApplicationRuns /\ stack # <<>>
    /\ Throw
    /\ UNCHANGED calls
\* The application catches what its own call let through.
Catch ==
    /\ raising /\ InApplication
    /\ raising' = FALSE
    /\ UNCHANGED <<handles, heap, archive, stack, calls>>

-----------------------------------------------------------------------------
(* Renders *)

\* A call that owns a state and reads one of the trees at an address.
Reader(owner, state, tree, source, depth) ==
    [kind |-> "tree", owner |-> owner, state |-> state, tree |-> tree, pos |-> 1, source |-> source, depth |-> depth]
Callback == [Reader(Null, Null, Root, "none", 0) EXCEPT !.kind = "callback"]
Top == stack[Len(stack)]
Advanced == [stack EXCEPT ![Len(stack)].pos = @ + 1]

\* Where a render looks for partials: a map, no map, or its own archive.
Sources(h) == IF h \in Archived THEN {"archive"} ELSE {"map", "none"}

\* render copies the handle's shared pointer before anything else.
BeginRender(h, source) ==
    /\ Call /\ source \in Sources(h) /\ handles[h] \in States
    /\ stack' = Append(stack, Reader(handles[h], handles[h], Root, source, 1))
    /\ UNCHANGED <<handles, archive>>
    /\ Release(heap) /\ Return
RefuseRender(h) == Call /\ handles[h] = Null /\ Throw

Engine == ~raising /\ stack # <<>> /\ Top.kind = "tree"
\* What stands at an address; nothing in particular if its state is gone.
TreeAt(frame) ==
    IF frame.state \in DOMAIN heap /\ frame.tree \in DOMAIN heap[frame.state]
    THEN heap[frame.state][frame.tree] ELSE <<>>
AtItem(kind) ==
    /\ Engine
    /\ Top.pos \in DOMAIN TreeAt(Top)
    /\ TreeAt(Top)[Top.pos].kind = kind
Name == TreeAt(Top)[Top.pos].name

AppendText ==
    /\ AtItem("text")
    /\ stack' = Advanced
    /\ UNCHANGED <<handles, heap, archive, raising, calls>>
InvokeLambda ==
    /\ AtItem("lambda")
    /\ stack' = Append(Advanced, Callback)
    /\ UNCHANGED <<handles, heap, archive, raising, calls>>

\* The compiled resolver or the archive's index; the trees of a map's entries own themselves.
InMap == Top.source = "map" /\ handles[Name] \in States
InArchive == Top.source = "archive" /\ Name \in DOMAIN heap[Top.state]
\* Fault: the resolver returns a plain pointer.
PartialReaderUnowned ==
    IF InMap THEN Reader(Null, handles[Name], Root, "map", Top.depth + 1)
    ELSE Reader(Null, Top.state, Name, "archive", Top.depth + 1)
PartialReader ==
    IF InMap THEN Reader(handles[Name], handles[Name], Root, "map", Top.depth + 1)
    ELSE Reader(Null, Top.state, Name, "archive", Top.depth + 1)
EmptyPartial == Top.source = "map" /\ handles[Name] = Null

EnterPartial ==
    /\ AtItem("partial") /\ (InMap \/ InArchive) /\ Top.depth < MaxNesting
    /\ stack' = Append(Advanced, PartialReader)
    /\ UNCHANGED <<handles, heap, archive, raising, calls>>
PartialTooDeep ==
    /\ AtItem("partial") /\ (InMap \/ InArchive) /\ Top.depth >= MaxNesting
    /\ Throw /\ UNCHANGED calls
RefusePartial ==
    /\ AtItem("partial") /\ EmptyPartial
    /\ Throw /\ UNCHANGED calls
SkipPartial ==
    /\ AtItem("partial") /\ ~InMap /\ ~InArchive /\ ~EmptyPartial
    /\ stack' = Advanced
    /\ UNCHANGED <<handles, heap, archive, raising, calls>>

Pop ==
    /\ stack' = SubSeq(stack, 1, Len(stack) - 1)
    /\ UNCHANGED <<handles, archive, raising, calls>>
    /\ Release(heap)
EndOfTree == Engine /\ Top.pos > Len(TreeAt(Top)) /\ Pop
\* A callback that does not catch is left as any other call is.
Unwind == raising /\ stack # <<>> /\ Pop

-----------------------------------------------------------------------------

Init ==
    /\ handles = [h \in Slots |-> IF h \in Names THEN Absent ELSE Null]
    /\ heap = [s \in {} |-> Null]
    /\ archive = Null /\ stack = <<>> /\ raising = FALSE /\ calls = 0

HandleStep ==
    \/ \E h \in Slots, tree \in Trees : Compile(h, tree)
    \/ \E h, g \in Slots : CopyAssign(h, g) \/ MoveAssign(h, g)
    \/ \E h \in Slots : Clear(h)
    \/ \E n \in Names : ErasePartial(n)
    \/ \E h \in Archived : Load(h)
OtherCall ==
    \/ RejectSource \/ RefuseLoad \/ Overwrite
    \/ \E h \in Compiled : Serialize(h) \/ RefuseSerialize(h)
    \/ \E h \in Compiled \cup Archived, source \in {"map", "none", "archive"} : BeginRender(h, source)
    \/ \E h \in Compiled \cup Archived : RefuseRender(h)
RenderStep ==
    \/ AppendText \/ InvokeLambda \/ EnterPartial \/ PartialTooDeep \/ RefusePartial \/ SkipPartial \/ EndOfTree
    \/ CallbackReturns \/ CallbackThrows \/ Catch \/ Unwind
Next == HandleStep \/ OtherCall \/ RenderStep
Spec == Init /\ [][Next]_vars

-----------------------------------------------------------------------------
(* Properties *)

\* Whatever tree is being read, some call at or below its reader owns the state it is in,
\* so that no reader depends on a handle of the application.
ReadersOwn ==
    \A i \in DOMAIN stack :
        stack[i].kind = "tree" => /\ stack[i].state \in DOMAIN heap
                                  /\ \E j \in 1..i : stack[j].owner = stack[i].state

ContentsAt(s) == IF s \in DOMAIN heap THEN heap[s] ELSE s
ReadsOf(frame) ==
    [kind |-> frame.kind, contents |-> ContentsAt(frame.state), tree |-> frame.tree,
     pos |-> frame.pos, source |-> frame.source]
Held == [h \in Slots |-> ContentsAt(handles[h])]
Reads == [i \in DOMAIN stack |-> ReadsOf(stack[i])]
Values == INSTANCE TemplateValues WITH held <- Held, reads <- Reads
\* Sharing, reuse of addresses and the order of releases cannot be observed: handles are values.
HandlesAreValues == Values!Spec

=============================================================================
