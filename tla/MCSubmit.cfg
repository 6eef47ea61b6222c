\* One trader who tries twice; two calls, of one wallet or two, two endpoints;
\* enough money for two grants, for one of them above the reserve.  Three
\* addresses and one delegate account with room for two.  Two makers' keys,
\* two dead runs of the setup scripts.  A book of two prices
\* with three orders at first and one more later; two passes.  A wire
\* of bits, with one for a u32 and two for a u64; two orders of others.
SPECIFICATION MCSpec
CONSTANTS
  Tx <- Txs
  Life = 0
  Trader = {ann}
  Tries = 2
  Call = {c1, c2}
  Wallet = {w1, w2}
  Endpoints = 2
  Reserve = 1
  GlobalMaxPerMin = 2
  MaxDaily = 2
  Balance = 2
  Address = {a, b, c}
  Zero = Zero
  List = {l1}
  MaxDelegates = 2
  Count = 2
  Target = 2
  Slips = 2
  Spends = 1
  Price = {1, 2}
  Ladder <- Rungs
  Passes = 2
  ScanLimit = 2
  AtFirst = 3
  Comings = 1
  Radix = 2
  U16 = 1
  U32 = 1
  U64 = 2
  PublicKey <- Makers
  Number <- Numbers
  Wish <- Wishes
  LastSlot = 1
  Placings = 2
INVARIANTS ExpiredNeverRests OneCallPerWallet PaidCallsAreCounted BudgetIsExact
INVARIANTS NothingWraps KeysServeTheBook ListsAreGrants HonouredWasGranted
INVARIANTS NoKeyIsLost RerunsAreSafe TidiedUp
SYMMETRY Symmetry
CHECK_DEADLOCK FALSE
