SPECIFICATION MCSpec
CONSTANTS
  Member = {1, 2, 3}
  Founders = {1, 2}
  make_election_config <- SmallConfig
  UndefinedConfigs <- Undefined
  max_active_members = 3
  min_election_threshold = 3
  VersionLimit = 3
  RoundLimit = 3
  NumHashes = 1
  SeedingWindow = 1
  DefaultLead = 2
  TriggerLead = 2
  Week = 0
  MaxLead = 3
  RoundTime = 1
  FinalWindow = 1
  Keys = {1}
  Data = {1}
  KeyHolders = {1}
INVARIANTS
  TypeOK
  VotersNumbered
  RanksKept
  EntrantsAreVoters
  MeetingsOfGroups
