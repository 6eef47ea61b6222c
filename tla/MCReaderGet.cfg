SPECIFICATION MCMarketSpec
CONSTANTS
  F = 4
  Key <- Key8
  Val = {1}
  MaxNodes = 5
  MaxEpoch = 5
  MaxBatch = 0
  Limits = {1, 3, 9}
  Seed <- TwoLeaves
INVARIANTS GetFindsStoredKey
CHECK_DEADLOCK FALSE
