CONSTANTS
  Block <- MCBlock
  GenesisBlock <- MCGenesisBlock
  GenesisTime = 0
  BlockInterval = 1
  None = None
  MaxQueued = 2
  MaxCrashes = 1
  PeerHeader <- MCHeader
  Window = 1
  MaxHandlers = 2
  MaxRestarts = 1
  Delegate = {"d", "e"}
  Forging = {"d"}
  Voter = {"v"}
  Content <- MCContent
  Batch = 1
  Overlap = FALSE
  EmptiesVotes = FALSE
  MaxHeight = 3
  MaxStarts = 2
SPECIFICATION MCSpec
CHECK_DEADLOCK FALSE
INVARIANTS OldChainRecoverable TotalsMatchChain ContradictionsFound
PROPERTIES RecoveredTipNotWorse FinalizedForever 
