------------------------------- MODULE ParseBudget -------------------------------
(* What one parse of JSON or YAML data may read, and the budget it may use up. *)
EXTENDS Naturals

CONSTANTS
    ParseLimits,            \* Data::ParseLimits an application passes
    ParseNestingCeiling     \* parseNestingCeiling, whatever the limits say

VARIABLE limits             \* limits_, those of the call

ASSUME ParseLimitsAssumption ==
    /\ ParseLimits \subseteq [input : Nat, nesting : Nat, nodes : Nat, strings : Nat, entries : Nat]
    /\ ParseNestingCeiling \in Nat

\* checkInputSize, and the byte order mark
Readable(source) == source.bytes <= limits.input /\ source.clean

Uses == [nodes : Nat, strings : Nat, entries : Nat]
Unused == [nodes |-> 0, strings |-> 0, entries |-> 0]
Cost(nodes, strings, entries) == [nodes |-> nodes, strings |-> strings, entries |-> entries]

\* addNode, addString and addContainerEntries: none of the counters may pass its limit.
Consume(spent, cost) ==
    [nodes |-> spent.nodes + cost.nodes, strings |-> spent.strings + cost.strings,
     entries |-> spent.entries + cost.entries]
WithinLimits(spent) ==
    spent.nodes <= limits.nodes /\ spent.strings <= limits.strings /\ spent.entries <= limits.entries
Affordable(spent, cost) == WithinLimits(Consume(spent, cost))

TooDeep(depth) == depth >= limits.nesting \/ depth >= ParseNestingCeiling

=============================================================================
