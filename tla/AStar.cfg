CONSTANTS
  GridW = 3
  GridH = 4
  MaxBlocked = 5
SPECIFICATION Spec
INVARIANTS ShortestPath ClosedIsFinal
