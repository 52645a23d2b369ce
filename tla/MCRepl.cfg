SPECIFICATION Spec
CONSTANTS
  MaxKeys = 3
  MaxAhead = 2
  MaxSignals = 2
  Interactive = {TRUE, FALSE}
  Inherited = {"default", "ignore"}
INVARIANTS
  TypeOK
  DispositionsFollow
  PhaseFollows
  ChildRunsDefault
  StorageReleased
PROPERTIES
  NoGhostInterrupt
  PromptHonoursInterrupt
  BlockedInterruptAnswered
  CommandReturns
CHECK_DEADLOCK FALSE
