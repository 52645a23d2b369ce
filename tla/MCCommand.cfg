SPECIFICATION Spec
CONSTANTS
  TextLeast = 2
  VectorLeast = 1
  Commands <- MCCommands
  Letters <- MCLetters
  Builtins <- MCBuiltins
  PathName <- MCPathName
  Files <- MCFiles
  MaxChanges = 2
INVARIANTS
  TypeOK
  TerminatorFits
  ExpandedAsWritten
  FirstInPathIsTaken
