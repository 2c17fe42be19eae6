SPECIFICATION QuantitySpec
CONSTANTS
  Graphs <- QuantifiedGraphs
  Limits = {3}
  Kinds = {FALSE}
  Quantified <- Quantities
  NoAnswer = NoAnswer
INVARIANTS
  FactorsAsDefined
