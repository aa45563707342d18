SPECIFICATION FairSpec
CONSTANTS
  Config = {1, 2, 3, 4}
  Problems <- MCProblems
  Inf = 50
  One = 8
  MaxNodes = 20
INVARIANTS
  TypeOK
  SolvedSound
  FailedSound
  PolicyIsStrong
  NeverPanics
  SolvedSucceedsSurely
PROPERTIES
  LabelsAreFinal
  SearchAnswers
CHECK_DEADLOCK FALSE
