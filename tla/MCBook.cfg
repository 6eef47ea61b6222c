SPECIFICATION MCSpec
CONSTANTS
  F = 4
  Key <- Keys
  Val <- Values
  MaxNodes = 3
  MaxEpoch = 3
  MaxBatch = 0
  BookSide = "ask"
  Trader <- Traders
  Prefix <- OwnPrefix
  Radix = 2
  MaxU64 = 3
  MinSize = 1
  Funds = 2
  Price = {1, 2}
  Size = {1, 2}
  Nonce = {0}
  MaxSlot = 1
  MaxLeaves = 1
  Seeds <- SentinelOrNot
  Opening <- NoOpening
INVARIANTS VaultBacksOrders RestingOrdersCanSettle
PROPERTIES OrdersSettleInFull
CHECK_DEADLOCK FALSE
