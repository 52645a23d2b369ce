SPECIFICATION Spec
CONSTANTS
  MaxFd = 5
  MaxLines = 1
  Lines <- MCShortLines
  Bases <- MCClosedBases
INVARIANTS
  StdRestored
CHECK_DEADLOCK FALSE
