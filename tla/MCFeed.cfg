\* The book: two live listings and one that is not, two requests of others
\* beside the page's, one of which fills the cache while the other's read is
\* late.  The proxy: one address, two requests of it at once, batches of two.
\* The feeds: two requests and three transactions, of which a round asks for
\* two.  The panels: three loads at once.  The terminal: two listings, one
\* trader and a wallet, three terminals in a row.
SPECIFICATION MCSpec
CONSTANTS
    Symbol = {"a", "b", "x"}
    Live = {"a", "b"}
    Visitor = {v1}
    Slot = {l1, l2}
    Ttl = 2
    Deadline = 1
    Ip = {p1}
    Forwarder = {f1, f2}
    Window = 2
    MaxPerWindow = 2
    MaxBatch = 2
    ReadTtl = 1
    Urls = 2
    Attempts = 3
    Asker = {r1, r2}
    RowLimit = 2
    DecodeLimit = 2
    MaxTx = 3
    Place = {1, 2, 3}
    Listing = {"a", "b"}
    Trader = {t1}
    Wallet = w1
    Mounts = 2
    MaxRows = 1
INVARIANT FreshIsRecent
INVARIANT OwnBookStays
INVARIANT ForwardedIsBounded
INVARIANT PanelsKeepUp
INVARIANT CancelsNameTheirTree
PROPERTY NeverEmptyHanded
PROPERTY EveryLoadEnds
