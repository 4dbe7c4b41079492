--------------------------- MODULE MCEffectStores ---------------------------
EXTENDS EffectStores, TLC

Symmetry == Permutations(Runtime) \cup Permutations(Migrator) \cup Permutations(Thread) \cup Permutations(Legacy)
=============================================================================
