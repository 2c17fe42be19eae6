\* Both are violated: run TLC with -continue to see the two.
SPECIFICATION EnginesSpec
CONSTANTS
  Graphs <- SingleEvents
  Limits = {0, 2}
INVARIANTS
  AnalyzesWithinLimit
  FindsCutSetsAsked
