SPECIFICATION Spec
CHECK_DEADLOCK FALSE
CONSTANTS
  Account = {a}
  Key = {k1, k2, k3}
  MaxSessions = 2
  MaxSequences = 2
  MaxSkip = 1
  MaxLife = 2
  MaxTime = 2
  MaxSequence = 3
SYMMETRY Symmetry
INVARIANTS
  NoReplay
  SessionsShown
