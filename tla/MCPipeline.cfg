SPECIFICATION Spec
CONSTANTS
  N = 3
  MaxFd = 8
  Bases = {{0, 1, 2, 4}, {0}}
  Cap = 1
  Burst = 2
  Lines <- MCLines
INVARIANTS
  TypeOK
  WriteEndPrivate
  ReadEndConfined
  ShellKeepsNoPipe
  StagesWired
  SawEverything
  StuckOnlyOnOwnReadEnd
CHECK_DEADLOCK FALSE
PROPERTIES
  AbsSpec
  DrainedReturns
