SPECIFICATION MCSpec
CONSTANTS
  GenesisTime = 0
  BlockInterval = 1
  None = None
  Block <- MCBlock
  GenesisBlock <- MCGenesisBlock
  Clock = {3}
  Stamps = {0, 3}
  Version = {"a", "b"}
  MinCachedItems = 3
  MaxCachedItems = 5
  MaxHeight = 10
  Tx = {"a", "b", "bad"}
  Malformed = {"bad"}
  Announcer = {"p"}
  ReleaseLimit = 1
  Answers <- MCAnswers
INVARIANTS TipConsistent StorageKept CacheFollows
PROPERTIES StoreSpec AnnouncedBlocksKept AnnouncedRightly RelayEnds
