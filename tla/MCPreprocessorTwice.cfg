SPECIFICATION Spec
CONSTANT Models <- Twice
INVARIANTS
  MeansTheModel
