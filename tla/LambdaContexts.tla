----------------------------- MODULE LambdaContexts -----------------------------
(***************************************************************************)
(* Section lambdas and threads: LambdaRenderContext, its recursive mutex   *)
(* and its invalidation, the process-wide registry of active engines       *)
(* (Renderer::ActiveEngineScope), and the checks of renderForLambda.       *)
(*                                                                         *)
(* A thread is the sequence of its frames, the last one running.  What the *)
(* engine does between two lambdas is module Renderer's subject; here it   *)
(* either calls a section lambda or finishes, and an exception leaves a    *)
(* frame the way a return does, through the same guards.                   *)
(*                                                                         *)
(* The C++ code guards a context with a lock_guard: a thread owns the      *)
(* mutex of a context while one of its frames is in the guard's scope.     *)
(***************************************************************************)
EXTENDS Naturals, Sequences

CONSTANTS
    Threads, Renderers,
    Null,           \* the null pointer
    HandoffModes,   \* "waits": the callback waits for its worker; "detached": it does not
    Reach,          \* "own": user code uses the context it was given; "enclosing": also those of outer callbacks
    UsesRaw,        \* whether callbacks also use the Renderer * of the legacy hook
    MaxContexts,    \* bound: section lambda calls
    MaxRenders,     \* bound: render() calls
    MaxCalls        \* bound: calls that user code makes

ASSUME BoundsAssumption == MaxContexts \in Nat /\ MaxRenders \in Nat /\ MaxCalls \in Nat
ASSUME NullAssumption == Null \notin Renderers \cup Threads

Ids == 1..MaxContexts

VARIABLES
    frames,         \* thread -> its frames
    waitingFor,     \* thread -> the worker its callback waits for
    rendering,      \* renderer -> _rendering
    callbackDepth,  \* renderer -> _lambdaCallbackDepth
    engine,         \* renderer -> the RenderEngine of its current render() (a number)
    contexts,       \* State::renderer of every context created
    scopes,         \* live ActiveEngineScope objects: id -> [renderer, engine, previous]
    current,        \* ActiveEngineScope::current_
    calls

vars == <<frames, waitingFor, rendering, callbackDepth, engine, contexts, scopes, current, calls>>
renderers == <<rendering, callbackDepth, engine>>
registry == <<scopes, current>>

-----------------------------------------------------------------------------
(* Frames *)

\* handles: the contexts the user code of the frame has copies of.
Frame(op, r, c) == [op |-> op, renderer |-> r, context |-> c, engine |-> 0, handles |-> {}]
UserFrame(op, r, c, hs) == [Frame(op, r, c) EXCEPT !.handles = hs]
Idle(t) == frames[t] = <<>>
Top(t) == frames[t][Len(frames[t])]
Running(t, ops) == ~Idle(t) /\ waitingFor[t] = Null /\ Top(t).op \in ops
Pushed(t, f) == [frames EXCEPT ![t] = Append(@, f)]
Popped(t) == [frames EXCEPT ![t] = SubSeq(@, 1, Len(@) - 1)]
Became(t, op) == [frames EXCEPT ![t][Len(frames[t])].op = op]

\* Frames of _invokeSectionLambda: its scope is in the registry.
Callbacks == {"callback", "returning", "invalidated", "unlinking"}
\* Frames that construct the lock_guard of their context, and frames inside it.
Locking == {"lock", "lockTemplate"}
Locked == {"locked", "template", "templated", "helper"}
Holds(t, c) == \E i \in DOMAIN frames[t] : frames[t][i].op \in Locked /\ frames[t][i].context = c
\* Fault: the mutex is not recursive.
AvailableOnce(t, c) == \A u \in Threads : ~Holds(u, c)
\* Fault: nobody takes the lock.
AvailableAlways(t, c) == TRUE
\* lock_guard<recursive_mutex>: the owner may lock again.
Available(t, c) == \A u \in Threads \ {t} : ~Holds(u, c)

-----------------------------------------------------------------------------
(* The registry of active engines: each operation holds registryMutex_ throughout *)

\* ActiveEngineScope::find: the newest scope of a renderer.
FindScope(r) ==
    LET walk[s \in {0} \cup DOMAIN scopes] ==
          IF s = 0 \/ scopes[s].renderer = r THEN s ELSE walk[scopes[s].previous]
    IN walk[current]

EnterScope(id, r) ==
    /\ scopes' = [s \in DOMAIN scopes \cup {id} |->
                     IF s = id THEN [renderer |-> r, engine |-> engine[r], previous |-> current] ELSE scopes[s]]
    /\ current' = id

\* Fault: the destructor takes its scope for the newest.
UnlinkNewest(id) ==
    /\ current' = scopes[id].previous
    /\ scopes' = [s \in DOMAIN scopes \ {id} |-> scopes[s]]
\* The destructor looks for the link that points at its scope: scopes of several
\* threads need not end in the order opposite to their construction.
Unlink(id) ==
    LET relink(s) == IF s = id THEN scopes[id].previous ELSE s
    IN /\ current' = relink(current)
       /\ scopes' = [s \in DOMAIN scopes \ {id} |-> [scopes[s] EXCEPT !.previous = relink(@)]]

-----------------------------------------------------------------------------
(* The engine *)

UserCode(t) == Running(t, {"callback", "worker"})

\* An application thread renders, and a lambda may render with another renderer.
StartRender(t, r) ==
    /\ Idle(t) \/ UserCode(t)
    /\ ~rendering[r] /\ engine[r] < MaxRenders
    /\ rendering' = [rendering EXCEPT ![r] = TRUE]
    /\ callbackDepth' = [callbackDepth EXCEPT ![r] = 0]
    /\ engine' = [engine EXCEPT ![r] = @ + 1]
    /\ frames' = Pushed(t, Frame("render", r, 0))
    /\ UNCHANGED <<waitingFor, contexts, registry, calls>>

FinishRender(t) ==
    /\ Running(t, {"render"})
    /\ rendering' = [rendering EXCEPT ![Top(t).renderer] = FALSE]
    /\ callbackDepth' = [callbackDepth EXCEPT ![Top(t).renderer] = 0]
    /\ frames' = Popped(t)
    /\ UNCHANGED <<waitingFor, engine, contexts, registry, calls>>

\* A callback is given its own context; user code that keeps more has those of the
\* callbacks its thread is in, and those that were handed to its thread.
HandlesOf(t, id) ==
    {id} \cup IF Reach = "enclosing" THEN UNION {frames[t][i].handles : i \in DOMAIN frames[t]} ELSE {}

\* Fault: a nested callback is given the context it was reached through.
InvokeSectionLambdaSharing(t) ==
    /\ Running(t, {"render", "helper"}) /\ Len(contexts) < MaxContexts
    /\ LET r == Top(t).renderer
           id == Len(contexts) + 1
       IN /\ EnterScope(id, r)
          /\ contexts' = Append(contexts, r)
          /\ callbackDepth' = [callbackDepth EXCEPT ![r] = @ + 1]
          /\ LET c == IF Top(t).context = 0 THEN id ELSE Top(t).context
             IN frames' = Pushed(t, UserFrame("callback", r, c, HandlesOf(t, c)))
    /\ UNCHANGED <<waitingFor, rendering, engine, calls>>
\* _invokeSectionLambda up to the call of the lambda.
InvokeSectionLambda(t) ==
    /\ Running(t, {"render", "helper"}) /\ Len(contexts) < MaxContexts
    /\ LET r == Top(t).renderer
           id == Len(contexts) + 1
       IN /\ EnterScope(id, r)
          /\ contexts' = Append(contexts, r)
          /\ callbackDepth' = [callbackDepth EXCEPT ![r] = @ + 1]
          /\ frames' = Pushed(t, UserFrame("callback", r, id, HandlesOf(t, id)))
    /\ UNCHANGED <<waitingFor, rendering, engine, calls>>

\* Fault: the callback is counted out before its context is invalidated.
ReturnUncounting(t) ==
    /\ Running(t, {"callback"})
    /\ callbackDepth' = [callbackDepth EXCEPT ![Top(t).renderer] = @ - 1]
    /\ frames' = Became(t, "returning")
    /\ UNCHANGED <<waitingFor, rendering, engine, contexts, registry, calls>>
ReturnFromCallback(t) ==
    /\ Running(t, {"callback"})
    /\ frames' = Became(t, "returning")
    /\ UNCHANGED <<waitingFor, renderers, contexts, registry, calls>>

\* Fault: the context is cut off without waiting for a render through it.
InvalidateAtOnce(t) ==
    /\ Running(t, {"returning"})
    /\ contexts' = [contexts EXCEPT ![Top(t).context] = Null]
    /\ frames' = Became(t, "invalidated")
    /\ UNCHANGED <<waitingFor, renderers, registry, calls>>
\* The callback guard first invalidates the context, waiting for its mutex ...
Invalidate(t) ==
    /\ Running(t, {"returning"}) /\ Available(t, Top(t).context)
    /\ contexts' = [contexts EXCEPT ![Top(t).context] = Null]
    /\ frames' = Became(t, "invalidated")
    /\ UNCHANGED <<waitingFor, renderers, registry, calls>>

\* ... then counts the callback out ...
LeaveCallback(t) ==
    /\ Running(t, {"invalidated"})
    /\ callbackDepth' = [callbackDepth EXCEPT ![Top(t).renderer] = @ - 1]
    /\ frames' = Became(t, "unlinking")
    /\ UNCHANGED <<waitingFor, rendering, engine, contexts, registry, calls>>

\* ... and the scope, constructed first, is destroyed last.
LeaveScope(t) ==
    /\ Running(t, {"unlinking"})
    /\ Unlink(Top(t).context)
    /\ frames' = Popped(t)
    /\ UNCHANGED <<waitingFor, renderers, contexts, calls>>

-----------------------------------------------------------------------------
(* User code: a section lambda, or a worker it handed contexts to *)

UserCall == calls < MaxCalls /\ calls' = calls + 1

\* User code calls render or renderTemplate of a context it has; the call comes back
\* only after it has had the context's lock.
CallRender(t, c, op) ==
    /\ UserCode(t) /\ UserCall /\ c \in Top(t).handles
    /\ frames' = Pushed(t, Frame(op, Top(t).renderer, c))
    /\ UNCHANGED <<waitingFor, renderers, contexts, registry>>

LockContext(t) ==
    /\ Running(t, Locking) /\ Available(t, Top(t).context)
    /\ frames' = Became(t, IF Top(t).op = "lock" THEN "locked" ELSE "template")
    /\ UNCHANGED <<waitingFor, renderers, contexts, registry, calls>>

\* renderTemplate throws when its context has no renderer or its text is refused;
\* otherwise it calls render, which locks again.
RenderTemplate(t) ==
    /\ Running(t, {"template"})
    /\ LET c == Top(t).context IN
       \/ frames' = Popped(t)
       \/ /\ contexts[c] # Null
          /\ frames' = [frames EXCEPT ![t] = Append(Became(t, "templated")[t], Frame("lock", Top(t).renderer, c))]
    /\ UNCHANGED <<waitingFor, renderers, contexts, registry, calls>>

HelperAllowed(r) == r # Null /\ rendering[r] /\ callbackDepth[r] > 0 /\ FindScope(r) # 0
HelperFrame(r, c) == [Frame("helper", r, c) EXCEPT !.engine = scopes[FindScope(r)].engine]

\* Fault: renderForLambda does not ask whether the context still has a renderer.
RenderUnchecked(t) ==
    /\ Running(t, {"locked"})
    /\ LET r == Top(t).renderer IN
       \/ ~HelperAllowed(r) /\ frames' = Popped(t)
       \/ HelperAllowed(r) /\ frames' = [frames EXCEPT ![t][Len(frames[t])] = HelperFrame(r, Top(t).context)]
    /\ UNCHANGED <<waitingFor, renderers, contexts, registry, calls>>
\* Behind the lock: a context without a renderer throws; otherwise renderForLambda
\* finds the engine and runs it, or throws.
RenderThroughContext(t) ==
    /\ Running(t, {"locked"})
    /\ LET c == Top(t).context
           r == contexts[c]
       IN \/ ~HelperAllowed(r) /\ frames' = Popped(t)
          \/ /\ HelperAllowed(r)
             /\ frames' = [frames EXCEPT ![t][Len(frames[t])] = HelperFrame(r, c)]
    /\ UNCHANGED <<waitingFor, renderers, contexts, registry, calls>>

\* renderForLambda on the Renderer * of the legacy hook: no context, no lock.
LegacyRender(t) ==
    /\ UsesRaw /\ UserCode(t) /\ UserCall
    /\ HelperAllowed(Top(t).renderer)
    /\ frames' = Pushed(t, HelperFrame(Top(t).renderer, 0))
    /\ UNCHANGED <<waitingFor, renderers, contexts, registry>>

\* The render through the context ends: its lock_guard, and renderTemplate's, release.
FinishHelper(t) ==
    /\ Running(t, {"helper", "templated"})
    /\ frames' = Popped(t)
    /\ UNCHANGED <<waitingFor, renderers, contexts, registry, calls>>

\* A callback hands some of its contexts to a worker, whose frame keeps in mind whose
\* worker it is.
HandOver(t, w, hs, mode) ==
    /\ Running(t, {"callback"}) /\ UserCall /\ hs # {} /\ hs \subseteq Top(t).handles /\ Idle(w)
    /\ frames' = Pushed(w, UserFrame("worker", Top(t).renderer, Top(t).context, hs))
    /\ waitingFor' = IF mode = "waits" THEN [waitingFor EXCEPT ![t] = w] ELSE waitingFor
    /\ UNCHANGED <<renderers, contexts, registry>>

FinishWorker(w) ==
    /\ Running(w, {"worker"})
    /\ frames' = Popped(w)
    /\ waitingFor' = [t \in Threads |-> IF waitingFor[t] = w THEN Null ELSE waitingFor[t]]
    /\ UNCHANGED <<renderers, contexts, registry, calls>>

-----------------------------------------------------------------------------
Init ==
    /\ frames = [t \in Threads |-> <<>>] /\ waitingFor = [t \in Threads |-> Null]
    /\ rendering = [r \in Renderers |-> FALSE]
    /\ callbackDepth = [r \in Renderers |-> 0] /\ engine = [r \in Renderers |-> 0]
    /\ contexts = <<>> /\ scopes = <<>> /\ current = 0 /\ calls = 0

Step(t) ==
    \/ FinishRender(t) \/ InvokeSectionLambda(t)
    \/ ReturnFromCallback(t) \/ Invalidate(t) \/ LeaveCallback(t) \/ LeaveScope(t)
    \/ RenderTemplate(t) \/ RenderThroughContext(t) \/ FinishHelper(t) \/ FinishWorker(t)
    \/ LockContext(t) \/ LegacyRender(t)
    \/ \E c \in DOMAIN contexts, op \in Locking : CallRender(t, c, op)
    \/ \E hs \in SUBSET DOMAIN contexts, w \in Threads, mode \in HandoffModes : HandOver(t, w, hs, mode)

Next == \E t \in Threads : Step(t) \/ \E r \in Renderers : StartRender(t, r)

Spec == Init /\ [][Next]_vars
\* A thread that can run does; user code makes boundedly many calls and returns.
FairSpec == Spec /\ \A t \in Threads : WF_vars(Step(t))

-----------------------------------------------------------------------------
(* Properties *)

\* The registry's list is intact whatever the order in which threads leave their
\* callbacks: it links every live scope, the newest first, and no dead one.
NewestBelow(n, s) ==
    /\ s = 0 \/ (s \in DOMAIN scopes /\ s < n)
    /\ \A o \in DOMAIN scopes : o < n => o <= s
RegistryIntact ==
    /\ NewestBelow(MaxContexts + 1, current)
    /\ \A s \in DOMAIN scopes : NewestBelow(s, scopes[s].previous)

\* A thread that has locked a context which is still active can render: the renderer
\* is rendering, counts the callback, and its engine is in the registry.
ActiveContextCanRender ==
    \A t \in Threads :
       ~Idle(t) /\ Top(t).op = "locked" /\ contexts[Top(t).context] # Null
         => HelperAllowed(contexts[Top(t).context])

\* A nested render runs in the engine of the render() that is in progress, never in
\* that of an earlier one, whose object is gone.
EngineIsCurrent ==
    \A t \in Threads : \A i \in DOMAIN frames[t] :
       frames[t][i].op = "helper" =>
         rendering[frames[t][i].renderer] /\ frames[t][i].engine = engine[frames[t][i].renderer]

\* The renderer's own state has no lock.  While callbacks use their own contexts, or
\* wait for the worker they handed one to, no two threads read or write it at once:
\* the engine running, renderForLambda's checks, and the counter of the callback guard.
Touches(t, r) ==
    /\ ~Idle(t) /\ waitingFor[t] = Null
    /\ \/ Top(t).op \in {"render", "helper", "invalidated"} /\ Top(t).renderer = r
       \/ Top(t).op \in {"locked", "template"} /\ contexts[Top(t).context] = r
RendererExclusive ==
    \A t, u \in Threads, r \in Renderers : Touches(t, r) /\ Touches(u, r) => t = u

\* The promise of module Capability: no thread renders through a context after its
\* callback ended (README: "every copy becomes inactive when that exact callback frame
\* returns or throws"), and no two do at once.
Phase(c) ==
    IF c \notin DOMAIN contexts THEN "unborn" ELSE IF contexts[c] = Null THEN "revoked" ELSE "granted"
Users(c) == {t \in Threads : \E i \in DOMAIN frames[t] : frames[t][i].op = "helper" /\ frames[t][i].context = c}
Promise == INSTANCE Capability
    WITH Contexts <- Ids, phase <- [c \in Ids |-> Phase(c)], users <- [c \in Ids |-> Users(c)]
PromiseKept == Promise!Spec

\* Who waits for whom: a callback for the worker it handed contexts to, a call for the
\* owner of the context's lock, and a callback's return for the owner of its own.
WaitsFor(t, u) ==
    \/ waitingFor[t] = u
    \/ /\ Running(t, Locking \cup {"returning"})
       /\ u # t /\ Holds(u, Top(t).context)
Deadlocked(stuck) == stuck # {} /\ \A t \in stuck : \E u \in stuck : WaitsFor(t, u)
\* A call through another context than that of the innermost callback, or of the
\* callback the worker belongs to.
CallsOuter(t) == Running(t, Locking) /\ frames[t][Len(frames[t]) - 1].context # Top(t).context

\* Every deadlock, of however many threads, has one that calls through the context of
\* an outer callback: own contexts never deadlock, whoever waits for whom.
DeadlockNeedsOuter == \A stuck \in SUBSET Threads : Deadlocked(stuck) => \E t \in stuck : CallsOuter(t)

\* Every thread comes to an end, a callback that waits for its worker and a return that
\* waits for a render included, unless a call through an outer context closed a cycle.
EveryThreadFinishes ==
    \A t \in Threads :
       ~Idle(t) ~> (Idle(t) \/ \E stuck \in SUBSET Threads : Deadlocked(stuck) /\ \E u \in stuck : CallsOuter(u))

=============================================================================
