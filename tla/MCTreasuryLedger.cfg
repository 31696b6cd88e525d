SPECIFICATION MCSpec
CHECK_DEADLOCK FALSE
CONSTANTS
  Account = {1, 2}
  Founders = {1}
  InitialPool = 6
  monthly_distribution_pct = 60
  Month = 2
  MinimumDeposit = 2
  Amounts = {2}
  MaxToken = 8
  MaxRanks = 3
  MaxLead = 2
  Horizon = 1
  MaxTransfers = 3
INVARIANTS
  FundsConserved
  DistributionsFunded
  LedgerExplained
