------------------------ MODULE MCTreeSitterLifetime ------------------------
(* Small instances of TreeSitterLifetime. *)
EXTENDS TreeSitterLifetime, TLC

Symmetry == Permutations(Language) \cup Permutations(Node) \cup Permutations(Thread)
              \cup Permutations(Tree) \cup Permutations(Query)
=============================================================================
