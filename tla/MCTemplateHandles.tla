--------------------------- MODULE MCTemplateHandles ---------------------------
(* A few templates that call lambdas and each other, for model-checking TemplateHandles. *)
EXTENDS TemplateHandles, TLC

Item(kind, name) == [kind |-> kind, name |-> name]
\* {{f}}{{>p}}: the callback runs before the partial is looked up
Before == <<Item("lambda", Null), Item("partial", "p")>>
\* {{>p}}{{f}}: the callback runs when the partial is done
After == <<Item("partial", "p"), Item("lambda", Null)>>
Short == <<Item("lambda", Null), Item("text", Null)>>
MCTrees == {Before, After, Short}
Symmetry == Permutations(States)

=============================================================================
