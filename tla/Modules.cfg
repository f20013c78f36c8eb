SPECIFICATION MCSpec
CONSTANTS
  Account <- MCAccount
  Delegates <- MCDelegates
  Genesis <- MCGenesis
  MinRemaining = 1
  Fees = {1, 2}
  MinFee = 1
  Rewarded = {2, 3}
  Amount = {1}
  MaxVote = 1
  MaxUnlocking = 2
  WaitVote = 1
  WaitSelf = 2
  PunishVoter = 2
  PunishSelf = 4
  PunishableDiff = 2
  MaxPom = 2
  UnlockFixHeight = 3
  Headers <- MCHeaders
  MaxHeight = 6
  MaxTx = 5
  Sender <- MCSender
  Key = {1, 2, 3}
  KeyOf <- MCKeyOf
  GenesisKeys <- MCGenesisKeys
  MaxKeys = 2
  MaxSent = 3
  Delegate <- MCDelegate
  Active = 2
  Standby = 1
  RoundOffset = 1
  ActiveRoundLimit = 1
  CapRate = 2
  Threshold = 1
  PunishPeriod = 4
  MaxMissed = 1
  MaxForgedDiff = 1
  BlockTime = 2
  Offsets = {0}
  Votes <- MCVotes
  InitVotes <- MCInitVotes
  InitDelegates <- MCInitDelegates
  SeedPairs <- MCSeedPairs
  Shuffles <- MCShuffles
  Gaps = {1, 2, 5}
  MaxTip = 6
  MaxChange = 1
CHECK_DEADLOCK FALSE
INVARIANTS LedgerKept
PROPERTIES PunishmentsHold  SignaturesHold
