SPECIFICATION InitializerSpec
CONSTANTS
  Nodes = {1, 2, 3, 4, 5, 6, 7, 8, 9, 10, 11}
  Graphs <- MCGraphs
  Inputs <- DisputedInputs
INVARIANTS
  ReferencesFollowRoles
  OneFactorIsEnough
