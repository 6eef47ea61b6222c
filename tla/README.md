# TornaCurb in TLA+

TornaCurb is an order-book venue on Solana. At its core is Torna, a B+ tree whose every node is an
account of its own, so that writers of different leaves can run in parallel; an order-book program
keeps each side of a market in one Torna tree; SDKs plan the accounts a transaction has to name; a
demo venue (web routes and pages, a faucet, market makers, bring-up scripts) runs on top. These modules
specify the parts in which state is kept and can go wrong, TLC checks them on small instances, and TLAPS
proves the theorems at the end for every instance.

## Inventory

| Part | Source | State | Operations | Modelled in |
|---|---|---|---|---|
| Node operations | `src/node.h` | none: functions on one or two nodes | insert, delete, update, split, borrow, merge, bisection | `TornaNode` |
| Engine, the tree | `sbf/src/torna/torna.c` | header (root, height, leftmost, rightmost, structure_epoch), allocator (node_high_water), node accounts | Insert, Delete, CompactLeaf, InsertFast, UpdateFast, DeleteFast, BulkInsertFast, MultiLeafInsertFast, Find, RangeScan | `TornaTree`, promise in `OrderedMap` |
| Engine, who may write | `sbf/src/torna/torna.c` | header authority, delegate accounts | TransferAuthority, AddDelegate, RemoveDelegate | `TornaAuth` |
| SDKs, planning | `ts-sdk/src/index.ts` (`sdk/src/lib.rs` alike) | a plan being resolved | read header, allocator, path, siblings; send; replan | `TornaClient` |
| SDKs, reading | same | a walk in progress | get, scan, best | `TornaReader` |
| SDK, encoding | `ts-sdk/src/index.ts`, `keys.ts`, `demo/src/lib/orderbook.ts` | none | integers to bytes, order keys, addresses, landedKey | `Wire` |
| Order book program | `orderbook/src/lib.rs` | two trees and two vaults per market | InitMarket, Place, PlaceCold, Cancel, Match | `Orderbook` |
| CPI helpers | `cpi/src/lib.rs` | none | pass accounts on | inside `Orderbook` |
| Order book client | `demo/src/lib/orderbook.ts` | none | computeFills, matchIx, placeIx, cancelIx | inside `Orderbook`, `Wire` |
| Transactions (external) | Solana | status and remaining life of each transaction | land, err, fork away, confirm, expire | `TxLife` |
| Trade actions | `demo/src/lib/actions.ts` | an order on its way, what its trader was told | sign, send, confirm by polling, retry | `TradeActions` |
| Faucet | `demo/src/app/api/faucet` | limiters (wallet, minute, day), calls under way, the faucet's account | admit, roll back, check, fund, second endpoint | `Faucet` |
| Book feed | `demo/src/lib/book-server.ts`, `useBook.ts`, `api/book` | cache per listing, requests under way, a page's ladder and guard | read, race a deadline, fall back, poll, switch listing | `BookFeed` |
| RPC proxy | `demo/src/app/api/rpc` | read cache, limiter windows | count, refuse, serve from cache, forward, fall back | `RpcProxy` |
| Marks, explorer, activity | `demo/src/app/api/mark`, `prestocks`, `explorer`, `activity` | a cache each, decoded transactions | fetch, probe, race a deadline, decode, fall back | `SideFeeds` |
| Panels | `demo/src/components` | the answer on display | pick, load, poll | `Panels` |
| Trading page | `demo/src/components/Terminal.tsx`, `Venue.tsx`, `Trade.tsx` | listing, identity, rows, guards of buttons | pick, load, cancel, submit, ask the faucet | `Terminal` |
| Market makers | `demo/scripts/market-maker.ts`, `api/mm` | mid, ticks, the tick's plan, transactions in flight | read, walk, uncross, trade, prune, re-quote | `MarketMaker` |
| Bring-up | `demo/scripts/bringup-venue.ts`, `bringup.ts` | venue.json, market.json, the run under way | pick free ids, mint, init, seed, hand over, open, record, resume | `Bringup` |
| Keys and money | `demo/scripts/setup-*.ts` | key files, who may mint, balances | generate, look, top up, hand over | `Setup` |
| Tidying | `demo/scripts/cancel-all.ts`, `cleanup-book.ts`, `topup.ts` | the script's progress | scan, cancel, uncross, lay | `Maintenance` |
| Static pages, diagrams, benchmarks, probes, tests | `demo/`, `bench/`, `integration/`, `test/` | none | display and measurement | not modelled |

How they interact: a client reads accounts off chain, one RPC call at a time, and names in its
transaction every account the program will touch. The order-book program calls the engine
within the same transaction; the engine checks that the accounts it was given are the ones the tree
routes to. A transaction is atomic and transactions are serialised, so the interleavings
are between whole transactions and the single reads of planners.

What is hard here: plans that are stale when they land; the cascade of a rebalancing Delete, whose
sibling accounts the client picks; leaves drained by DeleteFast without rebalancing, then borrowed
from, merged or compacted; the leaf chain, kept by hand beside the tree; batches of which only the
first key is used to descend; delegate lists that outlive an owner; escrow that must match
resting orders to the token through partial fills; a matcher that trusts nothing the taker passes;
scripts that send again what may have landed, or die between two transactions and are run again; caches
that many requests fill and fall back on at once; and pages whose answers come back after the reader moved on.
`PROJECT.json` lists each hazard with its line.

## Modules

**TornaNode** has the functions of `node.h` on node values: a leaf is `[keys, vals, next]`, an internal
node `[keys, kids]`. Keys are naturals (the program uses only their order). Byte layout is left out.

**TornaTree** is the engine. Its variables are the header's fields, the allocator's high water and two
maps from node index to node; one action per instruction. The accounts a transaction names are
parameters: a path `p`, spare slots (`from`, `spares`), sibling sides and accounts. A handler's early
returns are the guard of its action, because an error reverts the transaction. `Next` lets any caller
run any instruction with the accounts a fresh read of the tree would give and every choice of sibling
sides; `TornaClient` supplies stale ones. A Delete's cascade is a recursive function
over levels with the C loop's state (`Rebalance`), an Insert's separator likewise (`HangSeparator`).

**OrderedMap** is what the engine promises: a finite map under puts, one update, one removal.
`TornaTree!ImplementsMap` maps the tree to it through what `Find` returns along the routed path, so an
entry that is stored where no descent looks counts as lost.

**TornaClient** adds one planner beside everyone else, as `ts-sdk` has it; the Rust SDK differs in one
place, a child that is not found under its parent counts as the first one there (`delete_ix`). Each account read is an action: `Begin` (first
header), `ReadAllocator`, `ReadHeader`, `ReadNode` per level, `ReadSibling` per level; `Land` runs the
engine's own action under the plan as it is by then; `GiveUp` is a dropped or refused transaction or an
account that was gone. **TornaReader** does the same for `get` and `scan`, beside the instructions a
market signs for: its tree belongs to a program address, so nobody can Delete or CompactLeaf.

**TornaAuth** is about signers only: the authority, the delegate accounts (several per tree are
possible, as the bump of their address is the caller's choice) and a history variable `granted` that
says who was added by whom and not removed.

**Orderbook** extends TornaTree with one side of a market (`BookSide`; no instruction touches both
trees): status of the set-up, the clock, the vault and every trader's two balances. Order keys are
the program's layout as a number in a small radix (price, complemented for bids; slot; maker prefix;
nonce). `Match` is the program's two phases: `Sweep` over the leaf groups the taker passed, with its
chain, duplicate and crossing checks, then `Settle` fill by fill, all or nothing. `ComputeFills` and
`MatchIx` are the client's planner. Accounts checked by address (config, vaults, mints, headers) are
abstracted to one of each.

**BookFeed** is one server process and one page. A book's contents are abstracted to the time its
reading began, and time to ages that stop growing where nothing tells them apart, so the model has no
time bound. `Started` is `readBook` up to its first `await`; `ReadDone` and `ReadLost` are its two
continuations (retries and the second endpoint are inside a read); `Load`, `Show`, `LoadFails` and
`Switch` are the hook's. A serverless deployment has several such processes: what is shown holds for each.

**TxLife** is the chain as its senders see it, modelled from how they use it: a signed transaction can land
until its blockhash expires, may be forked away before it is confirmed, and is read through one node that
does not go back in time (the venue's own proxy may answer two reads from two endpoints, `rpc/route.ts:124`, of which one
lags: then what is said of expiry holds as far as they agree). **TradeActions** is `signSendConfirm` and `confirmByPolling`, one action per HTTP
call, for traders who try again when told that an order failed or expired. **Faucet** is the faucet route for
any number of concurrent calls; each action is what runs between two awaits. Amounts are counted in grants
(`CALL_COST` is 1) and a wallet either holds the faucet's cash or does not. `at` is the endpoint of the attempt
under way; `today` and `recent` remember the windows a call was admitted in. The window per IP is left
out: it is like the one per wallet, only never rolled back. A wallet's cooldown (five minutes) is taken to
outlast a call, which polls until a blockhash expires (about a minute) at most twice; a hanging HTTP
request would break that.

**RpcProxy** is one process of the proxy: fixed windows per address with the age of their first call, one
cacheable read, attempts at two endpoints. `passed` remembers what went through, by age. **SideFeeds** has
the four other feeds, one at a time; what is kept is missing, fresh or stale, only activity tells its rows
apart, because a round puts them together one by one. **Panels** has six panels, told apart by what they do
when the pick changes: remount or rerun an effect, check a flag or not, clear or not, what a failed load leaves.
**Terminal** is the trading page: a listing's terminal is mounted anew when another one is picked
(`key={symbol}` in `Venue.tsx`), and what was sent carries the listing and the identity of its moment.

**MarketMaker** is the tick of both programs over the same book: `program` says whether `market-maker.ts`
(waits for every transaction, sends afresh on an error) or `api/mm` (fires and returns) is at work. A side is
read at one instant; between any two steps visitors trade and transactions in flight land, are refused or are
dropped. What `matchIx` makes of a plan (see `MCBookPlan`) goes into the match as `leaves`: its leaves do not chain from the
leftmost one while that is drained (`drained`, kept for the asks, which the uncrossing match takes), they surely do
for one whole fill from an undrained book, which uncrossing is, and otherwise the match may be refused as often as it is sent. A path that a split made
stale between planning and landing is one of the faults. Prices are whole, the mid is in tenths, as in the code, so rounding is the code's. **Bringup** is each
script as the sequence of what it awaits; a step that throws may have landed, may land later (`astray`) or not
at all, and a run that dies leaves what it did. **Setup** has the keys: generated, written down, funded, given the
right to mint; again any step may be the last. What a run that died had sent last may land later: such transactions are
numbered by run (`afloat`), since two runs that send the same top-up send two transactions. **Maintenance** has cancel-all, cleanup-book and topup on a
book others trade on; an order is marked `old` if it was there when the script began, since of those only can a
script promise anything. `cleanup-book` reads a side leaf by leaf, 64 at most; here a side has no more, none of them is
missing, and it is read at once. **Wire** has integers as bytes below a `Radix`, so that wrapping, orders of bytes and
shared addresses are there at the boundaries of small widths; two scripts place an order, work its key
out of the slot it landed in, and cancel it.

`MCTree`, `MCClient`, `MCReader`, `MCOrderbook`, `MCFeed`, `MCScripts` and `MCSubmit` give constants values and
start runs, those of the tree from trees grown by real Inserts. The last three take several modules
that share no state one at a time, in scenes: `MCFeed` has the scenes book, proxy, feeds, panels and terminal, `MCScripts`
maker and bringup, `MCSubmit` trade, faucet, authority, setup, upkeep and wire. Definitions directly above another one
that they resemble (for instance `BumpEpochOnGrowth` above `BumpEpoch`) are plausible mistakes: putting
one in the place of its neighbour breaks the property `PROJECT.json` pairs it with.

## Runs

Deadlock checking is off in every run of the tree: the bounds on node indices, epochs and the clock stop
the model where the system would go on. It is off in MCSubmit and MCScripts too, where the calls, the tries and the
venue's listings run out. MCFeed checks it.

Fairness. Nothing in the engine, the program or the SDK runs on its own (each step is a transaction somebody
chooses to send), so no progress is promised there. In `BookFeed` time passes, the deadline's timer runs (the
event loop does that), and an answered request ends at the page as shown or as failed (`fetch` settles). That a
read of the chain ever returns is not assumed: the deadline is what makes every request end. In `MarketMaker`
the loop or the trigger comes round and each step of a tick is taken (`Ticking`; `step` is called in a loop
that catches what it throws), and what is in flight is taken up or expires (`Chain`). In `Bringup` a script
runs on and is run again until the venue is up (`RunsOn`), as its header tells the operator; faults, mishaps and visits are never
promised to happen, and their number is bounded, as "once faults have stopped" needs.

| Run | Instance | Shows |
|---|---|---|
| `MCTree` | fanout 4, five keys, two values, three nodes, batches of two, from empty | `ImplementsMap`, `ScansAreExact` (both directions, with and without a limit that cuts) |
| `MCTreeTall` | fanout 4; four leaves under all instructions; seven leaves and three levels under Delete, DeleteFast and CompactLeaf; a full root under Insert and Delete | `NoOrphanNoDangling`, `SearchTree`, `Occupancy`, `ChainIsLeafRow`, `IndicesNeverReused` |
| `MCClient` | five keys, five nodes, from two leaves; one planner whose plans land late, everyone else free | `SearchTree` (under stale paths), `StableEpochKeepsPath`, `WalkStaysOnLevel`, `StablePlanIsAccepted` |
| `MCReader` | seven keys, five nodes, from two leaves | `ScanIsRegular` |
| `MCReaderGet` | eight keys | violated: `GetFindsStoredKey` |
| `MCBook` | asks, one leaf, two traders, two prices and sizes, two slots, u64 of two bits, with and without an order smuggled in before InitMarket | `VaultBacksOrders`, `OrdersSettleInFull`, `RestingOrdersCanSettle` |
| `MCBookSplit` | bids, one slot, two leaves after a cold place, groups in any order | `BestFirst` (here by price; by time in `BestFirstEver`) |
| `MCBookPlan` | asks, two leaves | violated: `PlannedMatchIsAccepted` |
| `MCFeed` | book: two live listings and one that is not, another visitor, cache life 2, deadline 1. Proxy: one address, two requests at once, batches of two, three attempts. Feeds: two requests, three transactions, rounds of two. Panels: three loads at once. Terminal: two listings, a trader and a wallet, three terminals in a row | `FreshIsRecent`, `OwnBookStays`, `EveryLoadEnds`, `ForwardedIsBounded`, `NeverEmptyHanded`, `PanelsKeepUp`, `CancelsNameTheirTree` |
| `MCFeedSwitch` | `BookFeed` alone, the same | violated: `NeverAnothersBook` |
| `MCScripts` | maker: two identities, one level, a mid of two values, one fault or visit, two attempts. Bring-up: two listings and the single market, two mishaps | `OwnQuotesDoNotCross`, `OwnQuotesAreBounded`, `BookHeals`, `RecordedMarketsAreWhole`, `CrashCostsOneMarket`, `VenueIsBroughtUp` |
| `MCSubmit` | trade and faucet: one trader, two tries; two calls of one wallet or two, two endpoints, caps of two, money for two grants and above the reserve for one; a blockhash that lasts for the present block. Authority: three addresses, one delegate account of two. Setup: two makers, a target of two, two dead runs. Upkeep: two prices, three orders and one more, two passes that look at two orders. Wire: bits, one for a u32 and two for a u64, numbers below and past the widths, two orders of others | `ExpiredNeverRests`, `OneCallPerWallet`, `PaidCallsAreCounted`, `BudgetIsExact`, `ListsAreGrants`, `HonouredWasGranted`, `NoKeyIsLost`, `RerunsAreSafe`, `TidiedUp`, `NothingWraps`, `KeysServeTheBook` |

Why the bounds are enough. Fanout 4 is the smallest the engine accepts and gives a minimum of 2 keys,
so every branch (borrow from either side, merge from either side, root collapse, split of an internal
node, new root) is taken; coverage confirms it. The tall scenes allow four structural steps from trees
whose nodes are at their minimum (or whose root is full), enough for a cascade through both levels and
another after it. A delegate account of two can be full, emptied and restamped. Two traders suffice to
be maker and taker of each other and of oneself; two bits of price let `price * size` overflow. One other
visitor is enough to fill, miss or overtake the cache entry that the page's request captured; with cache life
2 and deadline 1 an entry can be new, ageing and expired, and a read on time, on the deadline and lost. With
two faucet calls a rollback meets a call that is under way, has paid or was refused; a blockhash of one
block already lets a transaction land before, between and after each two reads of its poller. A batch of two and
a limit of two meet at, before and past the limit. Three loads of a panel are one of a former pick and two of the
present one, in any order. With one level and a prune of two the maker's book already has quotes of two mids, a
repeated one and a visitor's between its own, and the prune more to do than it may; with one fault or visit the maker's book is crossed
by a visitor, by a late quote or not at all, with its leftmost ask leaf drained or not; with two mishaps a run dies
inside the recovery from another one, or a transaction given up by one run lands in the next. A scan limit of
two hides the third order of a side from a pass. Integers of one and two bits have a value that fits, the last one
that does, and one that does not.

### What the violated runs say

- `MCReaderGet`: `get` promises "None if absent"; a leaf split that lands between two of its reads makes it
  miss a key that was stored all along. The epoch, which the client could compare, is not.
- `MCBookPlan`: `computeFills` says it mirrors the matcher's sweep, but does not name every leaf it swept. The
  first order that does not cross ends both loops (`break outer`, `orderbook.ts:244`) before the leaf is listed
  (`:254`), so a taker who wants more than crosses gets a plan without the leaf of its last fills: on a book of one leaf a plan
  with fills and no leaf, which the program refuses (`lib.rs:480`). The run's trace is that: one order, a
  taker of more, the sentinel behind it. A leaf without a fill is not listed either, while the matcher wants
  the chain from the leftmost leaf on. Once the best leaf is drained, and a market's tree is never
  compacted, every planned match is refused (`lib.rs:518-527`) until an order lands in that leaf again; with
  `Size = {1}` in the configuration, where no taker can want more than there is, the trace is this one.
- `MCFeedSwitch`: the hook's one `busy` flag is shared by all listings. A switch during a load skips its own
  load and then shows the old listing's answer under the new name until the next poll. `WhyBook`
  switches within one mount; `Terminal` is remounted and not affected.

Further disagreements were met and have no run. `sdk/src/lib.rs:72` documents `structure_epoch` as "bumped
ONLY on a structural change (split/merge/root)"; a Delete that only removes an entry bumps it too
(`torna.c:690`). Harmless for safety (`StableEpochKeepsPath` needs only the other direction), but a cached
path is thrown away for nothing. `best` ("None if empty") returns None for a non-empty tree
when CompactLeaf closes the leftmost leaf between its two reads (`sdk/src/lib.rs:304`). The comment at
`book-server.ts:112` lets a losing read refresh the cache, but the line is reached only after the
read has won. The same file's header speaks of one upstream read per TTL shared by all viewers, but when
an entry expires each request under way starts its own.

In the senders: the last look of `confirmByPolling` takes any status for success, a failed transaction's
too (`actions.ts:44`). A trader told "failed on chain" by a block that is later forked away may still see the
order land. In the faucet, a second attempt that finds the first one's grant in the wallet answers
`alreadyFunded` and takes budget and cooldown back although the money was spent
(`route.ts:133-135`; the header says "ROLLED BACK on no-spend branches"), and so does a call whose two attempts
both lost sight of a transaction that lands after all (`:188`). The balance read returns 0 on any error
(`:131`), so both attempts may pay. The reserve is checked before the send (`:140`), so calls of different
wallets that read the same balance together take it below "the reserve floor". A call rolled back after midnight takes
from the new day's budget (`:116`); `BudgetIsExact` excepts that case. `BudgetIsExact` is therefore about what
the calls know: grants they never saw land are not counted.

On the web side: a read answered from the proxy's cache is up to 1.5 s old, and `Terminal` reads balances
only when something was done, so the ones it shows after a trade may be those from before it until the
next one. `useBook.refresh` does nothing while a load is under way and reads through a cache that lives
10 s, so a trader's own order may take that long to show. A read of the explorer that lost its race is stamped
as new when it ends (`explorer/route.ts:43`) and may replace a newer view; overlapping loads of its page may
end in any order. While its own answer is on its way a strip shows the former listing's mark, and "loading" once it heard an
error (`OracleStrip`). When the first endpoint throws, the proxy answers 502 without a word to the second
one. The decoded transactions of the activity feed are dropped all at once when there are too many.

In the scripts: after `cancel-all`'s last pass it goes on to the next side whatever is left, and its limit
counts visitors' orders; `TidiedUp` is therefore about sides it left early, having seen them whole. `bringup-venue`'s
header (`:7-8`) says what exists is skipped, which is decided by venue.json alone: what a dead run left on
the chain stays there unused, which is what `CrashCostsOneMarket` counts. The maker cannot
uncross a book whose leftmost ask leaf is drained: `matchIx`'s plan is refused each time, and the maker's own asks, clamped above the
best bid, go to later leaves. A cross that a visitor left (nothing in `place` looks at the other side) then stays until
somebody places a lower ask; `BookHeals` excepts it, and claims that every other cross goes. A quote that lands after the
script gave it up may cross the maker's own (`OwnQuotesDoNotCross` excepts it), until the next tick uncrosses.
A size that does not fit a u64 is encoded modulo 2^64 without a word (`orderbook.ts:37`), unlike price, slot and
nonce, which `orderKey` asserts. `capture-tx` goes on to its next candidate when a confirmation is lost, and the
order it placed stays.

## Proofs

Eight modules hold the theorems: `AccessProofs` (planner and signers), `TornaNodeProofs`, `TornaTreeProofs`,
`TornaSearchProofs`, `TornaMapProofs`, `OrderbookProofs` (the engine and the book in it, each on top of the one
before), `WebProofs` (feed, terminal, panels, proxy) and `SubmitProofs` (bring-up, set-up, tidying, faucet, trade actions). Each theorem rests on an
inductive invariant, preserved by one lemma per action, and closes with `PTL`. TLC checked the property of each
theorem on the instances above before it was proved, and the strengthened invariants too where they can be
evaluated; `BisectionIsLowerBound`, which the proofs have for every array, is in no run.

**Node operations** (`TornaNodeProofs`). What `lower_bound` and the functions of `node.h` do to any ascending array:
`BisectionFindsLowerBound` (the loop of bisection ends at the number of smaller keys, by natural induction
on the length of the interval), inserting at the lower bound keeps an array ascending and adds one key, a
split cuts it in two at its middle, a borrow moves one end, a merge joins two. The library's rule of
induction takes an operator as parameter, which the installed provers cannot instantiate, so `NatInductionOn` states
it for sets of naturals and is proved from the library's facts about finite sets; the recursive functions of the
model (`Bisect`, `Depth`, `Rebalance`, `HangSeparator`) are unrolled by lemmas that prove them well defined first.

**The accounts form a tree** (`AccountsFormATree`, `NoOrphanNoDanglingEver`, `IndicesStayFresh`; `TornaTreeProofs`; for every
fanout from 4 on, key set, value set, bounds on nodes and batches, and every choice of sibling sides, spares and groups a caller can
make). The invariant is `Structure`: there are a level `lv` for each live account and a parent `up` for each but the
root, such that every child is live, in one place of one parent and one level below it, leaves are on level
1 and the root is on the header's height, every internal node but the root has between the minimum and F keys, and no live
account has an index above the allocator's high water. With witnesses instead of reachability the invariant is local, so that a split or merge
changes it at two nodes and their parent; that the root reaches exactly the live accounts (`NoOrphanNoDangling`) follows
by induction over the levels. A Delete's cascade carries `Structure` with one exception, the node that may have become too
small, from level to level; an Insert's separator carries it with a second exception, a new node nobody hangs
under yet.

**It is a search tree** (`SearchTreeEver`, `BisectionServesEveryNode`; `TornaSearchProofs`; for the same constants). `SearchInv`
adds to `Structure` the third witness `rt`, the set of keys that are routed to each account: the root gets all, a node's
separators part its keys among its kids, none of which is left without, and every leaf ascends and stores only keys that are
routed to it. Each operation is shown to move bounds as it moves keys: the separator a split sends up is the
border between the halves, a rotation's new separator the border between what the two siblings then
hold, a merge's is dropped as the two ranges become one. A batch descends by its first key and checks its last one at each level (`RoutesAlong`); that the keys
between them belong to the leaf as well is what `Routes` says of a node's share. Between the split of a node and the hanging of
its separator the two halves count as one in the eyes of their parent (`SeenAsOne`).

**It is a map** (`TreeIsAMap`: `Spec => ImplementsMap`, for the same constants; `TornaMapProofs`). `MapInv` adds that every leaf has
a value for each key. `Stock` is the set of the entries all leaves store. `NextTrades` goes through the instructions: each adds to
the stock, revalues one key or loses one, as `OrderedMap` allows, and a cascade, a split or a merge only moves
entries between leaves. That a caller sees the stock, whatever path its key is routed along, is `ContentsAreHeld`: a
key is routed to one leaf only, and no other leaf stores it.

**No node overflows, and the chain is the leaf row** (`OccupancyEver`, `ChainIsLeafRowEver`; `TornaMapProofs`, for the same constants).
`ChainInv` adds to `SearchInv` that no leaf has more than F keys (`Filled`) and that the chain starts at `leftmost`, to which no leaf
leads, and ends at `rightmost` (`Ends`). Which leaf comes next is stated without rows: with the witness `rt`, each leaf leads to
the one whose keys follow its own (`Chained`, part of `SearchInv`), so that a split, merge or compaction concerns two neighbours and
the leaf before them, which the code does not touch. The rows then follow by induction from the root down: the kids of one node have
keys that follow one another because its separators part them, those of two neighbours because the nodes' own keys do
(`AbreastFlat`), and so the lowest row has all leaves, in order, and each leads to the next one.

**Scans are exact** (`ScansAreExactEver`; `TornaMapProofs`, for the same constants; the lemma `ScanIsExact` has every limit, the property the
two a run can afford). `ScanInv` adds to `MapInv` and the chain that only keys of `Key` are stored (`Keyed`), which each instruction's `Trades`
keeps. A descent for a scan's start splits the row of leaves (`Home`): those before have smaller keys only, those after larger ones, drained
leaves among them. What the scan gathers from there is its first leaf's part and whole leaves, each list after the former ones (`Gathers`,
`Batched`), so it ascends, or descends in reverse, and holds all of the stock on the start's side (`ForwardIsExact`, `ReverseIsExact`);
the first entry past the end has nothing but others past it behind it (`ListCut`), and a limit takes the first ones (`ListTake`).

**The order book** (`VaultBacksOrdersEver`, `RestingOrdersSettleEver`, `BestFirstEver`, `OrdersSettleInFullEver`;
`OrderbookProofs`; for every tree as above, finite set of
traders, prefixes of their keys, layout of order keys, clock and number of groups a taker passes). `BookInv` is `MapInv` and, in an open
market, `Pledged`: the vault holds what the stock is `Worth`, and what rests is `Sound`, with a notional from 1 to the largest u64.
Before it is open the vault is empty, and `InitMarket`'s check of the tree makes the first stock worth nothing. The sums rest on
`SumAdds` and `SumChanges`, which say what one entry does to a sum over a set. A key gives its order's price back
(`KeyKeepsPrice`, integer division unrolled), so an order's escrow can be told from its entry. The two phases of a match are two
inductions: `AllSwept` shows that whatever leaves a taker names, a sweep that goes on fills orders that rest, at their own price, and none of
them twice (`Plan`); `SettlesAll` that each fill releases what its order holds less afterwards, that the orders of later fills still
rest as they were swept, and that a part of an order can settle when the whole could (`PartSettles`). Matches and cancels take keys
out of leaves and add none, so the tree stays a map (`SubKeepsMap`). Priority follows the sweep once more, over the leaf row
in order (`InOrder`, from `ChainInv`): as long as it goes on, every order it has behind it was taken whole
(`Ahead`, `Stands`), because the leaves it accepts are the row's from the first one on; and a better or earlier order has the lower
key (`BetterIsLower`). Payments follow the settlement once more: after j fills each trader has what it had before, and its share of
what the keys filled so far collect and release (`SettledUp`), as sums over sets of keys to which each fill adds one
(`OverAdds`, `SharesGrow`); and what the two books show of a key is what its fill took (`MatchShown`). Assumptions: `FieldAssumption`
(there are finitely many traders, each field of a key is below the radix, quantities are u64s) and `OrderAssumption` (what the tree stores are orders, whose keys are keys of the tree).

**Staleness protocol** (`StableEpochTheorem`: `ClientSpec => []StableEpochKeepsPath`, for every fanout,
key set, value set and bound). The property speaks of finished paths only, so it says nothing of the walk
that builds one, and is not inductive. `PlanInv` adds `WalkFollowsTree` (a walk under the epoch it began
with has followed the tree as it is now, as far as it got) and `PlanOK` (the plan's epoch is never ahead of
the tree's; the path is a sequence). Of the engine the proof needs one fact, lemma by lemma over the
instructions: each leaves root, height, epoch and all internal nodes alone, or moves the epoch on
(`NextMoves`). If the epoch moved, a plan's epoch is behind from then on and nothing is claimed; if it did
not, the same descent is still there.

**Delegates** (`TypeCorrect`, `ListsHoldGrants`, `NoStaleDelegate`, for every set of addresses, of delegate
accounts and every capacity). `HonouredWasGranted` says that a signer the engine honours is the present
authority or a delegate that this very authority added and has not removed. It follows from
`ListsAreGrants`: an account stamped with an owner lists only grants of that owner, also while somebody else
is the authority, which is what makes handing the tree back safe. `AuthTypeOK /\ ListsAreGrants` (`AuthInv`) is
inductive. The lemmas `WithDelegateAdds`, `WithoutRemoves` and `RestampedIsOurs` carry the list operations.
Assumptions: `ZeroAssumption` (the zero key is nobody's address) and `LimitAssumption` (the capacity
is positive).

**Faucet** (`OneCallAtATime`, `PaidCallsKeepTheirHit`, `BudgetCountsTheDay`, for any calls, wallets, endpoints and
limits, from no assumption beyond the model's). A wallet's mark in `destSeen` stands for its call:
`WorkIsMarked` says that a call under way has its wallet marked. A marked wallet is not admitted; a rollback
unmarks the wallet of the only call that can stand behind the mark, and that call has ended. `CountInv` gives each call
that works or has paid, and is recent, a hit of its own in the global window, and makes the day's counter the number of the day's calls that
work or have paid; a rollback takes off one hit and one unit, and both are shown to be those of the call that ended.

**Trade actions** (`ExpiredIsTheTruth`, for any traders, tries and block heights). `TradeInv` ties what the poller knows to the
chain: a poller that has seen a height beyond the blockhash's last one looks at a chain on which the transaction can no longer
land, and what it then does not find was never there. A trader who tries again therefore has no older order that can still
rest. Assumption: `TradeAssumption` (the traders' transactions are transactions, and the lifetime of a blockhash a natural number).

**Book feed** (`FreshBooksAreRecent`, `PageKeepsItsBook`, for any listings, any number of requests at once,
any cache life and deadline). The first rests on `CacheIsRecent`: an entry that still counts as fresh is
at most a deadline older than its stamp. The second rests on `OneLoad`: at most one load of the page is
under way, the guard is set meanwhile, and once the page caught up that load is of its own listing (`FeedInv`).
Assumptions: `TimeAssumption`, `SymbolAssumption` and `PlaceAssumption` (the page's requests are not
other visitors').

**Trading page** (`CancelsGoHome`, `TerminalInv`) and **panels** (`PanelsNeverFallBack`, `PanelInv`), for any listings, identities,
panels' loads at once. The rows on display are of the listing picked (`RowsAreOfListing`), because a load reaches
only the terminal that began it (`LoadsAreOfTheirTerminal`). A panel is either a new component for each pick, and
has no former loads, or checks a flag that a former load does not pass (`KindsOfPanel`).

**Proxy** (`ProxyBoundEver`, `ProxyOK`, for any addresses, limits, batch size, window length and requests at once).
`Bounded` says how the open window cuts the calls let through in the last window's length: those since it opened
are within its count and the limit, and the older ones within the limit too, for all of them were let through in the window before. The
count may run ahead of what passed (refused calls and cache hits are counted), never behind. `SinceSums`, `SinceAdds`
and `SinceShifts` compute the sum over a stretch, by natural induction. Assumption: `ProxyAssumption` (positive sizes, and a batch no larger
than the limit).

**Bring-up** (`RecordedMarketsAreWholeEver`, `BringupInv`, for any listings and ids, any number of mishaps and of runs
that die anywhere). `NothingIsTakenBack`: whatever transaction lands, its run's or one of a dead run under the
same ids, every tree stays, and so do its sentinel, its orders, a book's authority over it, and every config (`Later`). A run moves
on only by a transaction that succeeded; so what each of its steps established (`Facts`) stays true, and is all of
`Whole` when the run comes to record its market. Assumption: `IdsAssumption` (no id is 0, which stands for the deployer).

**Setup** (`KeysAreKept`, `RerunsStayBounded`, `SetupInv`, for any number of makers, any target and any number of runs
that die anywhere). `WorkIsForFiledKeys`: whatever a run is about to send, or a dead one sent, is for a key
in a file, and files only grow; so no key gets anything before it is written down. `AllowanceHolds` strengthens
the second: a holder has at most a target for each run that died, short of one for each
transaction still afloat, and what the run at work is about to send fits in as well. A run leaves one transaction
behind at most, under its own number (`AfloatOK`), so no two of them are counted as one; one that lands late gives
its target back to the allowance and takes it. The bound is reached: in MCSubmit a maker ends with 6, a target of two and two late ones. Assumption: `TargetAssumption`.

**Tidying** (`BookIsLeftTidy`, `UpkeepInv`, for any prices, ladder, passes and scan limit, and any trading meanwhile).
`OldStaysTidy` says what carries it: nothing old comes back, so whatever holds of all old orders stays true when others
trade. `AsksAreRead` and `CrossersAreListed` follow cleanup-book: every old ask there is was read, and then
every old order of ours that crosses another old one is on its list. Assumption: `MaintenanceAssumption`.

Only model-checked: `EveryLoadEnds`, `BookHeals` and `VenueIsBroughtUp` (liveness, out of the prover's reach); the planner's `WalkStaysOnLevel` and `StablePlanIsAccepted`; the reader;
the market maker; what a crash of the bring-up costs; the side feeds and the wire.

## Not modelled, and why

- Account data layout, the order of accounts in an instruction, rent and lamports, and CPI plumbing are checks on
  addresses or byte ranges with no state of their own; each handler's model assumes they hold, because a
  failing one reverts the transaction. InitTree is the initial state. Lamports closed with a node go to
  the caller.
- The SDKs' batch planners, `findIx` and `scanAccounts`: paths, and nothing else, that `TornaClient` and
  `TornaReader` already resolve.
- The static pages (`research`, `why`, `docs`), diagrams and layout, most of the demo's lines: no state.
- `smoke-match` and `verify-venue` check one match and one read; the resolvers of feed names are run by hand, once.
- Benchmarks, probes, integration and unit tests drive the parts above.

Known to be hard and stated by no property: CompactLeaf refuses while the parent is at its minimum and only
the primary authority may call it, so that a market's drained leaves stay (`torna.c:733`; `MCBookPlan` shows one consequence);
the faucet's reserve and second attempt, above (`route.ts:140`, `:131`), where the code does not keep what
a property would say; the book server starting a read for each request when an entry expires, and not refreshing
from a losing read (`book-server.ts:102`, `:113`), which cost reads, not correctness.

## Plan

Done above, in this order: node functions, engine, promise, planner, signers, reader, order book, book feed,
transactions and their two senders, first theorems; market makers, bring-up, set-up, proxy, side feeds, panels,
trading page, tidying scripts, wire; theorems on set-up, tidying, page and panels; theorems on the node functions, on
the engine up to its promise, its leaf chain and its scans, on the order book's escrow, payments and priority, on the bring-up, the faucet, trade actions and the proxy. What could follow:

1. Theorems on the planner (`WalkStaysOnLevel`,
   `StablePlanIsAccepted`), the market maker and what a crash of the bring-up costs (`CrashCostsOneMarket`).
2. The Rust SDK's own `delete_ix`, with the child that is not found, beside the planner of `TornaClient`.
3. The maker and a planner of `TornaClient` on one book of `Orderbook`, paths included.
