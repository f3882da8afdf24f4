------------------------------- MODULE Capability -------------------------------
(***************************************************************************)
(* What a LambdaRenderContext promises the application: it is granted when *)
(* its callback begins, one thread at a time renders through it, and once  *)
(* the callback has ended nobody does, whoever kept a copy.                *)
(***************************************************************************)
CONSTANTS Contexts, Threads

VARIABLES
    phase,  \* context -> "unborn", "granted" or "revoked"
    users   \* context -> the threads rendering through it

Init == phase = [c \in Contexts |-> "unborn"] /\ users = [c \in Contexts |-> {}]

Grant(c) ==
    /\ phase[c] = "unborn"
    /\ phase' = [phase EXCEPT ![c] = "granted"]
    /\ UNCHANGED users

\* A thread may render again inside its own render, which changes nothing here.
Enter(c, t) ==
    /\ phase[c] = "granted" /\ users[c] = {}
    /\ users' = [users EXCEPT ![c] = {t}]
    /\ UNCHANGED phase

Leave(c) ==
    /\ phase[c] = "granted" /\ users[c] # {}
    /\ users' = [users EXCEPT ![c] = {}]
    /\ UNCHANGED phase

Revoke(c) ==
    /\ phase[c] = "granted" /\ users[c] = {}
    /\ phase' = [phase EXCEPT ![c] = "revoked"]
    /\ UNCHANGED users

Next == \E c \in Contexts : Grant(c) \/ Leave(c) \/ Revoke(c) \/ \E t \in Threads : Enter(c, t)

Spec == Init /\ [][Next]_<<phase, users>>

=============================================================================
