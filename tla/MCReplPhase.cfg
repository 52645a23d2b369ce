SPECIFICATION Spec
CONSTANTS
  MaxKeys = 2
  MaxAhead = 2
  MaxSignals = 1
  Interactive = {TRUE}
  Inherited = {"default"}
INVARIANTS
  PhaseProtects
CHECK_DEADLOCK FALSE
