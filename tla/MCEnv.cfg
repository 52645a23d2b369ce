SPECIFICATION Spec
CONSTANTS
  Keys <- MCKeys
  Values = {"/", "/tmp"}
  Dirs = {"/", "/tmp"}
  Envps <- MCEnvps
  MaxNodes = 4
INVARIANTS
  TypeOK
  ListWellFormed
  EnvpMatches
PROPERTIES
  EnvSpec
