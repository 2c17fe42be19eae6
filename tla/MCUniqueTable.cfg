CONSTANTS
  Indices = {1, 2}
  Terminals = {1}
  Capacities = {2, 5, 11}
  InitCapacity = 2
  NextCapacity <- MCNextCapacity
  Hash <- MCHash
  MaxId = 4
  MaxHeld = 1
SPECIFICATION Spec
INVARIANTS PointersAgree Reduced CountsExact SizeExact
PROPERTY ConsesSignatures
CHECK_DEADLOCK FALSE
