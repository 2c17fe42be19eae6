SPECIFICATION EnginesSpec
CONSTANTS
  Graphs <- SampleGraphs
  Limits = {0, 1, 2, 3, 4}
INVARIANTS
  ExpandsEachGateOnce
  ExpansionKeepsMeaning
  DiagramSound
  FindsMinimalCutSets
  SubstitutionsSettle
