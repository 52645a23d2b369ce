SPECIFICATION Spec
CONSTANTS
  Programs <- MCPrograms
  Statuses = {0, 1, 130}
  ExitArgs <- MCExitArgs
  MaxLines = 2
INVARIANTS
  TypeOK
  ShortCircuit
  StatusOfLatest
PROPERTIES
  NothingAfterExit
CHECK_DEADLOCK FALSE
