SPECIFICATION MCSpec
CONSTANTS
  GenesisTime = 0
  BlockInterval = 2
  MaxTime = 9
  StampTip = TRUE
  Block <- MCBlock
  FirstTip <- MCFirstTip
  Validator = {v1, v2, v3}
  Participant <- MCParticipant
  ActiveFrom <- MCActiveFrom
  Threshold = 2
  MaxHeight = 17
  MaxBlocks = 10
  MaxMixedBlocks = 5
  MaxFaultyBlocks = 3
  MaxChainLength = 6
SYMMETRY Symmetry
CHECK_DEADLOCK FALSE
INVARIANTS NeverReadopted VotesSound LedgerPruned  HonestNeverContradicts
PROPERTIES AdoptionRaisesRank
