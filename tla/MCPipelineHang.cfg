SPECIFICATION Spec
CONSTANTS
  N = 2
  MaxFd = 4
  Bases = {{0, 1, 2}}
  Cap = 1
  Burst = 2
  Lines <- MCShortLines
PROPERTIES
  OrphanedWriterEnds
CHECK_DEADLOCK FALSE
