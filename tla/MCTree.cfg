SPECIFICATION MCSpec
CONSTANTS
  F = 4
  Key <- Key5
  Val = {1, 2}
  MaxNodes = 3
  MaxEpoch = 5
  MaxBatch = 2
  Scenes <- FromEmpty
INVARIANTS ScansAreExact
PROPERTIES ImplementsMap
CHECK_DEADLOCK FALSE
