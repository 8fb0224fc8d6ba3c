\* The fresh lane with a step that overruns its budget.
CONSTANTS
  Invocations = {i1, i2}
  Free = Free
  Budget = 1
  Grace = 1
  StepNeed = 1
  MaxDuration = 3
  Stale = 9
  MaxTime = 5
SPECIFICATION Spec
SYMMETRY InvocationSymmetry
INVARIANTS
  NoOverlap
CHECK_DEADLOCK FALSE
