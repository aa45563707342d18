SPECIFICATION Spec
CONSTANTS
  Cases <- MCRefutedRoot
  UseOrder = TRUE
INVARIANT
  AcceptedPlansAreValid
CHECK_DEADLOCK FALSE
