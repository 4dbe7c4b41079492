-------------------------- MODULE MCEffectExecutor --------------------------
(* Small instances of EffectExecutor. *)
EXTENDS EffectExecutor, TLC

Symmetry == Permutations(Executor) \cup Permutations(Observation)
=============================================================================
