SPECIFICATION Spec
CONSTANTS
  Cases <- MCOneForbidden
  UseOrder = TRUE
INVARIANT
  ValidPlansAreAccepted
CHECK_DEADLOCK FALSE
