CONSTANTS
  InMemory = {a}
  Remote = {r}
  MaxCalls = 2
  SendMayFail = TRUE
SPECIFICATION BusFairSpec
CHECK_DEADLOCK FALSE
INVARIANT OwnAnswer
