SPECIFICATION MCSpec
CONSTANTS
  F = 4
  Key <- Keys
  Val <- Values
  MaxNodes = 3
  MaxEpoch = 3
  MaxBatch = 0
  BookSide = "ask"
  Trader <- Traders
  Prefix <- SamePrefix
  Radix = 3
  MaxU64 = 4
  MinSize = 1
  Funds = 3
  Price = {1, 2}
  Size = {1, 3}
  Nonce = {1, 2}
  MaxSlot = 0
  MaxLeaves = 2
  Seeds <- JustSentinel
  Opening <- FourOrders
INVARIANTS PlannedMatchIsAccepted
CHECK_DEADLOCK FALSE
