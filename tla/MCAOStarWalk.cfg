SPECIFICATION FairSpec
CONSTANTS
  Config = {1, 2, 3, 4}
  Problems <- MCCyclicProblems
  Inf = 50
  One = 8
  MaxNodes = 6
PROPERTY
  WalkEnds
CHECK_DEADLOCK FALSE
