SPECIFICATION FairSpec
CONSTANTS
  Cases <- MCPlans
  UseOrder = TRUE
INVARIANTS
  TypeOK
  AcceptedPlansAreValid
  ValidPlansAreAccepted
  ForbiddenAreRefuted
PROPERTY
  VerificationEnds
CHECK_DEADLOCK FALSE
