---------------------------- MODULE MCGraphRuns ----------------------------
(* Small instances of GraphRuns. *)
EXTENDS GraphRuns, TLC

Symmetry == Permutations(Executor) \cup Permutations(Node \ {First})
=============================================================================
