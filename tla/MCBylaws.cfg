SPECIFICATION Spec
CHECK_DEADLOCK FALSE
CONSTANTS
  Member = {a, b, c}
  Founders = {a, b, c}
  Text = {x, y}
  Quarter = 1
  TriggerLead = 1
  MaxLead = 2
  Horizon = 2
SYMMETRY Symmetry
INVARIANTS
  TypeOK
  ApprovalsFromBoard
PROPERTIES
  AdoptedBySupermajority
  RatifiedByLaterBoard
