SPECIFICATION Spec
CHECK_DEADLOCK FALSE
CONSTANTS
  Account = {1, 2, 3}
  InitialBalances = {0, 1}
  InitialToken = 3
  MinimumDeposit = 1
  Amounts = {1}
  minimum_donation = 1
  MemberCount = 2
  StepLimits = {1, 2, 9}
  auction_duration = 1
  MaxAuctions = 2
  MaxToken = 4
  MaxDrift = 1
  Horizon = 3
INVARIANTS
  MigratedRight
