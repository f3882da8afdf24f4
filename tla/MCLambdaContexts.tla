---------------------------- MODULE MCLambdaContexts ----------------------------
(* Threads are alike and so are renderers: safety is checked up to their permutations. *)
EXTENDS LambdaContexts, TLC

Symmetry == Permutations(Threads) \cup Permutations(Renderers)

=============================================================================
