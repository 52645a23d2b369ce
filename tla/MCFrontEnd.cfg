SPECIFICATION Spec
CONSTANTS
  Lines <- MCLines
INVARIANTS
  TypeOK
  TokensMatchLine
  RejectsAtFirstMisfit
  TreeMatchesLine
  WordsFreedOnce
PROPERTIES
  LineAdvances
