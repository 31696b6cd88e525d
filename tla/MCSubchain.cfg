SPECIFICATION Spec
CHECK_DEADLOCK FALSE
CONSTANTS
  MaxNum = 3
  MaxForks = 1
  MaxFaults = 1
  MaxUnsaved = 2
  maxBlocksToSend = 2
  None = None
INVARIANTS
  StateIsReplay
  BelievedBlocksArrive
PROPERTIES
  ClientCatchesUp
