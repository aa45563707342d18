SPECIFICATION Spec
CONSTANTS
  Config = {1, 2, 3, 4}
  Problems <- MCCyclicProblems
  Inf = 50
  One = 8
  MaxNodes = 9
INVARIANTS
  SolvedSound
  FailedSound
  PolicyIsStrong
  WalkBorrowsOnce
PROPERTIES
  LabelsAreFinal
CHECK_DEADLOCK FALSE
