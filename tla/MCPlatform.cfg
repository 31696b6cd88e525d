SPECIFICATION MCSpec
SYMMETRY Symmetric
CHECK_DEADLOCK FALSE
CONSTANTS
  o1 = o1
  o2 = o2
  k1 = k1
  k2 = k2
  None = None
  Accounts <- MCObjects
  Codes <- MCCodes
  Precisions = {0, 1}
  Value <- MCObjects
  MaxSlot = 3
  MaxTrx = 2
  MaxHeads = 3
  MaxCreated = 3
  MaxAmount = 3
  MaxId = 2
  MaxSessions = 3
  MaxTime = 3
  MaxKey = 3
  MaxBorn = 8
  MaxItems = 2
  MaxWork = 4
INVARIANTS
  TestsSeeTheirChain
  SupplyHeld
  TablesShowRows
PROPERTY
  SessionsRemember
