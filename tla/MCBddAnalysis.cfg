SPECIFICATION QuantitySpec
CONSTANTS
  MaxOrder = 11
  Graphs <- ModularGraphs
  Limits = {0, 1, 2, 3}
  Kinds = {TRUE, FALSE}
  Quantified <- Quantities
  NoAnswer = NoAnswer
INVARIANTS
  Canonical
  MeansTheGraph
  MemoServesParents
  NoCallAfterFreeze
  NothingSpurious
  LostOnlyAtUnityModules
  QuantitiesCurrent
