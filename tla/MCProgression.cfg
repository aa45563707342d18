SPECIFICATION Spec
CONSTANTS
  Primitive <- MCPrimitive
  Compound <- MCCompound
  Task <- MCTask
  Fact <- MCFact
  Action <- MCAction
  Method <- MCMethod
  InitNet <- MCInitNet
  InitState = {}
  MaxId = 13
INVARIANTS
  TypeOK
  OrderingsAcyclic
  SomeTaskReady
  NewIdsDisjoint
  DecompositionsCommute
  KnownNetworkRecognised
PROPERTY
  ImplementsSemantics
CHECK_DEADLOCK FALSE
