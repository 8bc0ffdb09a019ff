SPECIFICATION Spec
CONSTANTS
  o1 = o1
  o2 = o2
  Orders = {o1, o2}
  NoOrder = NoOrder
  MaxSweeps = 2
  Level <- MCLevel
  Floor = 0
  MaxCrashes = 1
  MaxFaults = 1
INVARIANT ReversalTakesAll
