SPECIFICATION MCSpec
CONSTANTS
  F = 4
  Key <- Key5
  Val = {1}
  MaxNodes = 5
  MaxEpoch = 4
  MaxBatch = 0
  Seed <- TwoLeaves
INVARIANTS SearchTree StableEpochKeepsPath WalkStaysOnLevel StablePlanIsAccepted
CHECK_DEADLOCK FALSE
