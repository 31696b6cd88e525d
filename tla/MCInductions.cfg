SPECIFICATION MCSpec
CHECK_DEADLOCK FALSE
CONSTANTS
  Account = {a, b, c}
  Initial = {a, b}
  Contract = eden
  MinWitnesses = 1
  MaxWitnesses = 1
  MaxGc = 0
  Lifetime = 0
  MaxActive = 3
  Videos = 2
  MaxId = 2
  MaxTime = 1
  MaxLimit = 2
  MaxWork = 4
  GenesisWork = 1
INVARIANTS
  EndorsedAsSeen
  InductionsCollected
  MicroChainShows
