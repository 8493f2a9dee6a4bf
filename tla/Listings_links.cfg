SPECIFICATION ListingsSpec
CONSTANTS
  Rows = {"r1", "r2", "r3", "r4"}
  Limits = {1, 2}
  MaxListed = 3
  MaxMoves = 2
INVARIANTS LinksReachEveryRow
CHECK_DEADLOCK FALSE
