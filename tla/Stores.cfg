CONSTANTS
  Account = {x}
  StateKey = {k}
  FinalizedKey = f
  Value = {0, 1}
  Default = 0
  None = None
  MaxHeight = 1
  BlindWrites = FALSE
  ReadsDeleted = FALSE
  Forgers <- MCForgers
  OnionCount = 2
  Overlap = FALSE
  FirstPrevoted <- MCFirstPrevoted
  LongestChain = 4
  MaxPrevoted = 1
  Stated = {2}
  Budgets <- MCBudgets
SPECIFICATION MCSpec
CHECK_DEADLOCK FALSE
INVARIANTS StateSound  SeedsFollow
PROPERTIES SavesWhatWasWritten 
