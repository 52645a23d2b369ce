SPECIFICATION Spec
CONSTANTS
  Programs <- MCPrograms
  Statuses = {0, 1}
  ExitArgs <- MCExitArgs
  MaxLines = 1
INVARIANTS
  ExpansionIsCurrent
CHECK_DEADLOCK FALSE
