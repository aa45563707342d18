SPECIFICATION Spec
CONSTANT
  Cases <- MCCases
  MaxMutexes = 2
INVARIANTS
  TypeOK
  MethodsAreWritable
  PlansKept
  WrittenIsTrue
  RelaxationKeepsPlans
  ConvertedIsDecomposition
  ConversionEnds
