SPECIFICATION Spec
CONSTANT Models <- Samples
INVARIANTS
  ParentsAgree
  MeansTheModelSoFar
  AssertionsHold
  LeavesWellFormed
  FlagsTrue
  ModulesIndependent
  ReadyForEngine
PROPERTY
  Ends
