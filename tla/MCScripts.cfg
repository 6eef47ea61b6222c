\* The maker: one level and a fault or a visit in each program.  The
\* bring-up: two listings and two mishaps.
SPECIFICATION MCSpec
CONSTANTS
  Makers <- TwoMakers
  Levels = 1
  PruneMax = 2
  Anchor = 1500
  Band = 4
  Drift <- Moves
  TradeEvery = 2
  Attempts = 2
  QuoteSize = 1
  VisitorPrice = {150}
  VisitorSize = {1}
  Faults = 1
  Visits = 1
  Upsets = 1
  Listings <- TwoListings
  FirstId <- Table
  Single <- TheSingle
  Search = 20
  RetryLimit = 2
  MaxMints = 10
  Mishaps = 2
INVARIANTS OwnQuotesDoNotCross OwnQuotesAreBounded
INVARIANTS RecordedMarketsAreWhole CrashCostsOneMarket
PROPERTIES BookHeals VenueIsBroughtUp
CHECK_DEADLOCK FALSE
