SPECIFICATION Spec
CONSTANT
  Domains <- MCDomains
INVARIANTS
  GroundingKeepsRefinements
  JoinIsExact
PROPERTY
  SubtaskOrderKept
CHECK_DEADLOCK FALSE
