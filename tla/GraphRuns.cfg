\* Two threads start and resume a run over three nodes, with budgets for two steps; three calls in all.
SPECIFICATION Spec
CONSTANTS
  Executor = {e1, e2}
  Node = {n1, n2, n3}
  First = n1
  MaxSteps = 2
  MaxVisits = 1
  MaxTries = 3
SYMMETRY Symmetry
INVARIANTS OnlyResumesRepeat StepsRunOnce
CHECK_DEADLOCK FALSE
