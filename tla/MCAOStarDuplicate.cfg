SPECIFICATION FairSpec
CONSTANTS
  Config = {1, 2, 3, 4}
  Problems <- MCDuplicateProblems
  Inf = 50
  One = 8
  MaxNodes = 20
INVARIANT
  SolvedSucceedsSurely
CHECK_DEADLOCK FALSE
