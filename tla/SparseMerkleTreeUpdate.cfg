CONSTANTS
  KeyBits = 2
  LeafValue = {"v", "w"}
  Overwrites = TRUE
  MaxCalls = 2
SPECIFICATION SparseSpec
CHECK_DEADLOCK FALSE
INVARIANT CallsReturn
