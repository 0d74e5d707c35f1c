SPECIFICATION BotsSpec
CONSTANTS
  b1 = b1
  b2 = b2
  Bots <- TwoBots
  Rounds = 2
  Count = 1
  Share = 1
  Sizes <- TwoPools
  Tries = 2
  Clients <- TwoBots
  CeremonyTime = 1
  ApiTries = 2
  AddressRounds = 2
  MaxEpoch = 2
INVARIANTS PoolsNotOverfilled DelegateesOwnPools OneNetwork EpochsInStep
PROPERTIES SyncEnds FailurePropagates
