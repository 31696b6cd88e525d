SPECIFICATION Spec
CHECK_DEADLOCK FALSE
CONSTANTS
  MaxParticipants = 10000
  MaxWalked = 500
  MaxGroup = 6
  MaxRanks = 5
  MaxCount = 3
  MaxAmount = 24
  MaxKey = 5
  MaxPage = 2
  MaxTrx = 3
INVARIANTS
  RoundsChain
  WalkMatchesGroups
  ElectionTimeRight
  WinnerIsAgreed
  DividesExactly
  PagesCover
  ConvertersAgree
  EncodingsExact
  QueriesAnswered
  BlockShown
  QueriesSelect
