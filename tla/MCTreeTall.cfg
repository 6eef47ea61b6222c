SPECIFICATION MCSpec
CONSTANTS
  F = 4
  Key <- Key15
  Val = {1}
  MaxNodes = 12
  MaxEpoch = 11
  MaxBatch = 0
  Scenes <- Tall
INVARIANTS NoOrphanNoDangling Occupancy SearchTree ChainIsLeafRow
PROPERTIES IndicesNeverReused
CHECK_DEADLOCK FALSE
