SPECIFICATION MCSpec
CONSTANTS
  InMemory = {application}
  Remote = {remote}
  MaxCalls = 2
  SendMayFail = TRUE
  LoadOrder <- MCLoadOrder
  ChildPlugin = {"child", "other"}
  MaxShutdowns = 2
CHECK_DEADLOCK FALSE
INVARIANTS  LoadedInOrder
PROPERTIES CallersEnd LifeEnds
