SPECIFICATION Spec
CONSTANTS
  Keys = {1, 2, 4, 6, 7, 9}
  Results = {"r", "s"}
  Capacities <- MCCapacities
  InitCapacity = 3
  PrimeAtLeast <- MCPrimeAtLeast
  Hash <- MCHash
  MaxRequest = 4
INVARIANTS
  HitsAreCurrent
  SizeExact
PROPERTY
  LatestSurvives
