SPECIFICATION FairSpecShown
CHECK_DEADLOCK FALSE
CONSTANTS
  Member = {1, 2, 3, 4}
  Founders = {1, 2, 3, 4}
  make_election_config <- SmallConfig
  UndefinedConfigs <- Undefined
  max_active_members = 4
  min_election_threshold = 3
  VersionLimit = 3
  RoundLimit = 3
  NumHashes = 1
  SeedingWindow = 1
  DefaultLead = 0
  TriggerLead = 2
  Week = 0
  MaxLead = 3
  RoundTime = 1
  FinalWindow = 0
  MaxElections = 1
INVARIANTS
  VotesWithinGroup
  ElectionShown
PROPERTIES
  ElectionLeavesHierarchy
  ElectionEnds
