CONSTANTS
  Repeated = {1, 2}
  MaxBuilt = 5
  MaxAppends = 2
SPECIFICATION TreeSpec
CHECK_DEADLOCK FALSE
INVARIANT RootOfList
