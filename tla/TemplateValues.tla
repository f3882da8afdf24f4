----------------------------- MODULE TemplateValues -----------------------------
(***************************************************************************)
(* What template handles promise: a handle behaves as the template itself. *)
(* Assigning one changes no other and no render that has begun; a render   *)
(* reads the template its handle had when it began, and a partial that the *)
(* caller's map had when its tag was reached.  A render may fail anywhere. *)
(***************************************************************************)
EXTENDS Naturals, Sequences

CONSTANTS
    Slots,          \* handles, and keys of the caller's map of partials
    Contents,       \* templates: each names its trees
    Root,           \* the name of a template's own tree
    Null, Absent    \* an empty handle; a key that the map does not have

VARIABLES held, reads

vars == <<held, reads>>

\* The innermost reader is the last: a tree being read, or the application's code.
ApplicationRuns == reads # <<>> => reads[Len(reads)].kind = "callback"
Reading == reads # <<>> /\ reads[Len(reads)].kind = "tree"
Top == reads[Len(reads)]
Advanced == [reads EXCEPT ![Len(reads)].pos = @ + 1]
Tree(contents, name, source) == [kind |-> "tree", contents |-> contents, tree |-> name, pos |-> 1, source |-> source]
Callback == [kind |-> "callback", contents |-> Null, tree |-> Root, pos |-> 1, source |-> "none"]

Assign(h, v) ==
    /\ ApplicationRuns
    /\ held' = [held EXCEPT ![h] = v]
    /\ UNCHANGED reads
Move(h, g) ==
    /\ ApplicationRuns
    /\ held' = [held EXCEPT ![g] = Null, ![h] = held[g]]
    /\ UNCHANGED reads
Begin(h, source) ==
    /\ ApplicationRuns /\ held[h] \in Contents
    /\ reads' = Append(reads, Tree(held[h], Root, source))
    /\ UNCHANGED held

AtItem(kind) ==
    /\ Reading
    /\ Top.pos \in DOMAIN Top.contents[Top.tree]
    /\ Top.contents[Top.tree][Top.pos].kind = kind
Item == Top.contents[Top.tree][Top.pos]
Skip ==
    /\ AtItem("text") \/ AtItem("partial")
    /\ reads' = Advanced
    /\ UNCHANGED held
CallLambda ==
    /\ AtItem("lambda")
    /\ reads' = Append(Advanced, Callback)
    /\ UNCHANGED held
EnterHeld ==
    /\ AtItem("partial") /\ Top.source = "map"
    /\ Item.name \in Slots /\ held[Item.name] \in Contents
    /\ reads' = Append(Advanced, Tree(held[Item.name], Root, "map"))
    /\ UNCHANGED held
EnterOwn ==
    /\ AtItem("partial") /\ Top.source = "archive"
    /\ Item.name \in DOMAIN Top.contents
    /\ reads' = Append(Advanced, Tree(Top.contents, Item.name, "archive"))
    /\ UNCHANGED held
Leave ==
    /\ reads # <<>>
    /\ reads' = SubSeq(reads, 1, Len(reads) - 1)
    /\ UNCHANGED held

Init ==
    /\ held \in [Slots -> {Null, Absent}]
    /\ reads = <<>>
Next ==
    \/ \E h \in Slots, v \in Contents \cup {Null, Absent} : Assign(h, v)
    \/ \E h, g \in Slots : Move(h, g)
    \/ \E h \in Slots, source \in {"map", "none", "archive"} : Begin(h, source)
    \/ Skip \/ CallLambda \/ EnterHeld \/ EnterOwn \/ Leave
Spec == Init /\ [][Next]_vars

=============================================================================
