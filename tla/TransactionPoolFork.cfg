SPECIFICATION Spec
CONSTANTS
  alice = alice
  bob = bob
  carol = carol
  Sender = {alice, bob, carol}
  Tx <- MCTxs
  Caller = {c1}
  MaxTransactions = 3
  MaxTransactionsPerAccount = 2
  MinReplacementFeeDifference = 10
  MinEntranceFeePriority = 1
  MaxBlocks = 1
INVARIANT SkipsOnlyProcessable
