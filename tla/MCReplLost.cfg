SPECIFICATION Spec
CONSTANTS
  MaxKeys = 2
  MaxAhead = 2
  MaxSignals = 1
  Interactive = {TRUE}
  Inherited = {"default"}
PROPERTIES
  InterruptAnswered
CHECK_DEADLOCK FALSE
