SPECIFICATION Spec
CONSTANTS
  MaxFd = 6
  MaxLines = 1
  Lines <- MCLines
  Bases <- MCBases
INVARIANTS
  TypeOK
  TableRestored
  OutputGoesWhereRedirected
  ChildSeesRedirections
CHECK_DEADLOCK FALSE
