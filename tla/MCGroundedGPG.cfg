SPECIFICATION FairSpec
CONSTANT
  Instances <- MCInstances
INVARIANTS
  TypeOK
  NothingUsablePruned
  DfsEntersNoPrunedTask
  ResultIsRefinement
PROPERTY
  GroundingEnds
CHECK_DEADLOCK FALSE
