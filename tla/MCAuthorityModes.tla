-------------------------- MODULE MCAuthorityModes --------------------------
(* Small instances of AuthorityModes. *)
EXTENDS AuthorityModes, TLC

Symmetry == Permutations(Caller) \cup Permutations(Operation)
=============================================================================
