SPECIFICATION MCSpec
CONSTANTS
  alice = alice
  bob = bob
  carol = carol
  Sender = {alice, bob, carol}
  Tx <- MCTxs
  Caller = {c1, c2}
  MaxTransactions = 3
  MaxTransactionsPerAccount = 2
  MinReplacementFeeDifference = 10
  MinEntranceFeePriority = 1
  MaxBlocks = 1
  Repeated = {1, 2}
  MaxBuilt = 6
  MaxAppends = 1
  KeyBits = 3
  LeafValue = {"v"}
  Overwrites = FALSE
  MaxCalls = 2
  MaxQuery = 3
SYMMETRY Symmetry
INVARIANTS PoolConsistent OnlyVerifiedForgeable TreeOfMap 
