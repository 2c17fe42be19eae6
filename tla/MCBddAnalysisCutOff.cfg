SPECIFICATION QuantitySpec
CONSTANTS
  MaxOrder = 11
  Graphs <- TwoSums
  Limits = {1}
  Kinds = {FALSE}
  Quantified = {}
  NoAnswer = NoAnswer
INVARIANTS
  NothingLost
