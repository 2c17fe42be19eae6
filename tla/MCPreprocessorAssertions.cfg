SPECIFICATION Spec
CONSTANT Models <- Asserting
INVARIANTS
  NullGatesRemoved
  RootIsModule
