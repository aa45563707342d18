SPECIFICATION Spec
CONSTANTS
  Primitive <- MCPrimitive
  Compound <- MCCompound
  Task <- MCTask
  Fact <- MCFact
  Action <- MCAction
  Method <- MCMethodSimilar
  InitNet <- MCInitNet
  InitState = {}
  MaxId = 13
INVARIANT
  MergedNetworksAreSame
CHECK_DEADLOCK FALSE
