------------------------------ MODULE Orderbook ------------------------------
(***************************************************************************)
(* The on-chain order book, orderbook/src/lib.rs: one side of a market.    *)
(*                                                                         *)
(* A market is two Torna trees and two vaults; no instruction touches both *)
(* trees, so BookSide picks the one modelled and the other is its mirror.  *)
(* Resting asks escrow base and are paid in quote, resting bids the other  *)
(* way round: `held' is what each trader has of the token the vault holds, *)
(* `cash' of the token a taker pays in.                                    *)
(*                                                                         *)
(* The tree is TornaTree's, written through its instructions (cpi/src/     *)
(* lib.rs passes accounts on unchanged).  Accounts are checked against the *)
(* market's config by address; that is abstracted by naming one book and   *)
(* one vault.  A transaction is atomic, transfers included.                *)
(***************************************************************************)
EXTENDS TornaTree

CONSTANTS BookSide,   \* "ask" or "bid"
          Trader,     \* makers and takers; each owns one account of each token
          Prefix,     \* first eight bytes of each trader's key, as a number
          Radix,      \* above every slot, prefix and nonce that occurs
          MaxU64,     \* largest u64
          MinSize,    \* the market's min_size
          Funds,      \* what each trader starts with, of either token
          Seeds,      \* entries the creator may insert: [key, maker, size]
          Price, Size, Nonce,   \* what orders and takers ask for
          MaxSlot,    \* bound: the clock
          MaxLeaves   \* bound: leaf groups of a match

ASSUME SideAssumption == BookSide \in {"ask", "bid"}
ASSUME FieldAssumption ==
    /\ IsFiniteSet(Trader)
    /\ Radix \in Nat /\ MaxU64 \in Nat /\ Prefix \in [Trader -> 0..Radix - 1]
    /\ Nonce \subseteq 0..Radix - 1 /\ MaxSlot \in 0..Radix - 1
    /\ Price \subseteq 0..MaxU64 /\ Size \subseteq 0..MaxU64
    /\ MinSize \in 1..MaxU64 /\ Funds \in 0..MaxU64

VARIABLES status,     \* setup, handed (to the program's book address), open
          slot,       \* the clock
          vault,      \* the book's escrow
          held, cash

bookVars == <<status, slot, vault, held, cash>>
allVars == <<vars, bookVars>>

MAXK == 8

(* order_key: price (complemented for bids), slot, maker prefix, nonce,    *)
(* big-endian, so that key order is price-time order.                      *)
OrderKeyPlain(price, s, m, nonce) ==
    ((price * Radix + s) * Radix + Prefix[m]) * Radix + nonce

OrderKey(price, s, m, nonce) ==
    (((IF BookSide = "ask" THEN price ELSE MaxU64 - price) * Radix + s) * Radix
        + Prefix[m]) * Radix + nonce

PriceOf(k) == LET p == k \div (Radix * Radix * Radix) IN IF BookSide = "ask" THEN p ELSE MaxU64 - p
SlotOf(k) == (k \div (Radix * Radix)) % Radix

(* What the tree stores are orders, under keys of this layout or a seed's. *)
ASSUME OrderAssumption ==
    /\ Val = [maker : Trader, size : 0..MaxU64]
    /\ Seeds \subseteq [key : Key, maker : Trader, size : 0..MaxU64]
    /\ \A price \in Price, s \in 0..MaxSlot, m \in Trader, nonce \in Nonce : OrderKey(price, s, m, nonce) \in Key

(* What an order of this side holds in the vault, and what a fill of it    *)
(* releases to the taker and collects for the maker.                       *)
Escrow(price, size) == IF BookSide = "ask" THEN size ELSE price * size
Release(price, fill) == IF BookSide = "ask" THEN fill ELSE price * fill
Collect(price, fill) == IF BookSide = "ask" THEN price * fill ELSE fill

BookInit ==
    /\ Init
    /\ status = "setup" /\ slot = 0 /\ vault = 0
    /\ held = [t \in Trader |-> Funds] /\ cash = [t \in Trader |-> Funds]

---------------------------------------------------------------------------
(* Setting the market up *)

(* Until it hands the tree over its creator may insert anything, the       *)
(* bring-up a sentinel of size 0 ...                                       *)
Seed(s) ==
    /\ status = "setup"
    /\ Insert(Path(s.key), s.key, [maker |-> s.maker, size |-> s.size], highWater + 1, height + 2)
    /\ UNCHANGED bookVars

HandOver ==
    /\ status = "setup"
    /\ status' = "handed"
    /\ UNCHANGED <<vars, slot, vault, held, cash>>

(* ... so InitMarket takes only a tree that the book address alone can     *)
(* write by now, and that holds nothing but entries of size 0.             *)
InitMarketUnclean ==
    /\ status = "handed"
    /\ height <= 1
    /\ status' = "open"
    /\ UNCHANGED <<vars, slot, vault, held, cash>>

InitMarket ==
    /\ status = "handed"
    /\ height <= 1
    /\ height = 1 => \A v \in Range(leaf[root].vals) : v.size = 0
    /\ status' = "open"
    /\ UNCHANGED <<vars, slot, vault, held, cash>>

---------------------------------------------------------------------------
(* Makers *)

AcceptsAnyNotional(price, size) == size >= MinSize /\ price # 0

(* No dust, no price of 0, and nothing that no match could pay for in full. *)
Accepts(price, size) == size >= MinSize /\ price # 0 /\ price * size <= MaxU64

Escrows(maker, price, size) ==
    /\ status = "open"
    /\ Accepts(price, size)
    /\ held[maker] >= Escrow(price, size)
    /\ held' = [held EXCEPT ![maker] = @ - Escrow(price, size)]
    /\ vault' = vault + Escrow(price, size)
    /\ UNCHANGED <<status, slot, cash>>

(* The key takes the slot the order lands in; the path p was planned for   *)
(* an estimate, and the tree refuses it if the key routes elsewhere.       *)
Place(maker, p, price, size, nonce) ==
    /\ Escrows(maker, price, size)
    /\ InsertFast(p, OrderKey(price, slot, maker, nonce), [maker |-> maker, size |-> size])

PlaceCold(maker, p, price, size, nonce, from, spares) ==
    /\ Escrows(maker, price, size)
    /\ Insert(p, OrderKey(price, slot, maker, nonce), [maker |-> maker, size |-> size], from, spares)

(* The order's own maker takes back what it still holds in the vault. *)
Cancel(maker, p, k) ==
    /\ status = "open"
    /\ height > 0 /\ Len(p) = height /\ HasKey(LeafOf(p), k)
    /\ LET order  == ValueOf(LeafOf(p), k)
           refund == Escrow(PriceOf(k), order.size)
       IN  /\ order.maker = maker
           /\ refund <= vault /\ refund <= MaxU64
           /\ vault' = vault - refund
           /\ held' = [held EXCEPT ![maker] = @ + refund]
    /\ DeleteFast(p, k)
    /\ UNCHANGED <<status, slot, cash>>

---------------------------------------------------------------------------
(* The matcher.  Phase 1 sweeps the leaves; its state `t' has the fills    *)
(* found, what the taker still wants, and whether the sweep goes on.       *)

Crosses(price, limit) == IF BookSide = "ask" THEN price <= limit ELSE price >= limit

Full(t, max) == t.remaining = 0 \/ Len(t.fills) >= max

(* One order: it fills what the taker still wants, or the sweep is over at *)
(* the first one that does not cross.                                      *)
SweepOrder(t, n, i, limit, max) ==
    LET k     == leaf[n].keys[i]
        order == leaf[n].vals[i]
        fill  == IF t.remaining < order.size THEN t.remaining ELSE order.size
    IN  IF t.state # "sweeping" \/ Full(t, max) THEN t
        ELSE IF ~Crosses(PriceOf(k), limit) THEN [t EXCEPT !.state = "done"]
        ELSE IF order.size = 0 THEN t
        ELSE [t EXCEPT !.remaining = @ - fill,
                       !.fills = Append(@, [key |-> k, maker |-> order.maker, price |-> PriceOf(k),
                                            fill |-> fill, left |-> order.size - fill, leaf |-> n])]

SweepLeaf(t, n, limit, max) ==
    LET after[i \in 0..KeyCount(leaf[n])] ==
            IF i = 0 THEN t ELSE SweepOrder(after[i - 1], n, i, limit, max)
    IN  after[KeyCount(leaf[n])]

(* Each leaf the sweep needs must be the one expected: the leftmost first, *)
(* then the next of the one before, and none twice.                        *)
SweepGroupOnTrust(t, p, limit, max) ==
    IF t.state # "sweeping" \/ Full(t, max) THEN t
    ELSE SweepLeaf([t EXCEPT !.expected = leaf[Last(p)].next, !.seen = @ \cup {t.expected}],
                   Last(p), limit, max)

SweepGroup(t, p, limit, max) ==
    IF t.state # "sweeping" \/ Full(t, max) THEN t
    ELSE IF Last(p) # t.expected \/ t.expected \in t.seen THEN [t EXCEPT !.state = "refused"]
    ELSE SweepLeaf([t EXCEPT !.expected = leaf[Last(p)].next, !.seen = @ \cup {t.expected}],
                   Last(p), limit, max)

Fresh(size) == [state |-> "sweeping", remaining |-> size, fills |-> <<>>,
                expected |-> leftmost, seen |-> {}]

Sweep(limit, size, max, groups) ==
    LET after[g \in 0..Len(groups)] ==
            IF g = 0 THEN Fresh(size) ELSE SweepGroup(after[g - 1], groups[g], limit, max)
    IN  after[Len(groups)]

(* Phase 2 settles fill after fill: both transfers, then the order removed *)
(* or reduced through the path of its own group.                           *)
LeftoverDropped(n, f) == LeafDelete(n, f.key)

Leftover(n, f) == IF f.left = 0 THEN LeafDelete(n, f.key)
                  ELSE LeafUpdate(n, f.key, [maker |-> f.maker, size |-> f.left])

TokenTransfer(accounts, from, to, amount) ==
    LET debited == [accounts EXCEPT ![from] = @ - amount]
    IN  [debited EXCEPT ![to] = @ + amount]

Settle(t, taker, f) ==
    LET release == Release(f.price, f.fill)
        collect == Collect(f.price, f.fill)
    IN  IF ~t.ok \/ f.price * f.fill > MaxU64 \/ release > t.vault \/ collect > t.cash[taker]
        THEN [t EXCEPT !.ok = FALSE]
        ELSE [t EXCEPT !.vault = @ - release,
                       !.held[taker] = @ + release,
                       !.cash = TokenTransfer(@, taker, f.maker, collect),
                       !.leaf[f.leaf] = Leftover(@, f)]

SettleAll(taker, fills) ==
    LET after[j \in 0..Len(fills)] ==
            IF j = 0 THEN [ok |-> TRUE, vault |-> vault, held |-> held, cash |-> cash, leaf |-> leaf]
            ELSE Settle(after[j - 1], taker, fills[j])
    IN  after[Len(fills)]

(* recvs are the makers whose accounts the taker passed to be paid into,   *)
(* groups the root-to-leaf paths; both were chosen off chain.              *)
Match(taker, limit, size, max, recvs, groups) ==
    LET swept   == Sweep(limit, size, IF max < MAXK THEN max ELSE MAXK, groups)
        settled == SettleAll(taker, swept.fills)
    IN  /\ status = "open" /\ height > 0 /\ groups # <<>>
        /\ swept.state # "refused"
        /\ \A j \in DOMAIN swept.fills :
            /\ recvs[j] = swept.fills[j].maker
            /\ \E p \in Range(groups) : Last(p) = swept.fills[j].leaf /\ Descends(p, swept.fills[j].key)
        /\ settled.ok
        /\ vault' = settled.vault /\ held' = settled.held /\ cash' = settled.cash
        /\ leaf' = settled.leaf
        /\ UNCHANGED <<header, highWater, inner, status, slot>>

---------------------------------------------------------------------------
(* The taker's plan, demo/src/lib/orderbook.ts *)

(* The leaf accounts in chain order, as a walk over next_leaf reads them. *)
Chain ==
    LET walk[i \in 1..Cardinality(DOMAIN leaf)] ==
            IF i = 1 THEN leftmost
            ELSE IF walk[i - 1] = 0 THEN 0 ELSE leaf[walk[i - 1]].next
    IN  SelectSeq(walk, LAMBDA n : n # 0)

(* computeFills: the matcher's sweep over the whole chain, and the leaves  *)
(* in which a fill was found.  At an order that does not cross the walk    *)
(* breaks off before it would note the leaf it is in.                      *)
ComputeFills(limit, size, max) ==
    LET visit(s, n) ==
            LET t == SweepLeaf(s.sweep, n, limit, max)
                used == Len(t.fills) > Len(s.sweep.fills)
            IN  [sweep |-> t, leaves |-> IF used /\ t.state # "done" THEN Append(s.leaves, n) ELSE s.leaves]
        end == FoldLeft(visit, [sweep |-> Fresh(size), leaves |-> <<>>], Chain)
    IN  [fills |-> end.sweep.fills, leaves |-> end.leaves]

(* matchIx: a fill slot and a maker account for each fill, and for each of *)
(* those leaves the path of its first key.                                 *)
MatchIx(limit, size, max) ==
    LET plan == ComputeFills(limit, size, max)
    IN  [max    |-> Len(plan.fills),
         recvs  |-> [j \in DOMAIN plan.fills |-> plan.fills[j].maker],
         groups |-> [g \in DOMAIN plan.leaves |-> Path(Head(leaf[plan.leaves[g]].keys))]]

---------------------------------------------------------------------------
Tick ==
    /\ slot < MaxSlot
    /\ slot' = slot + 1
    /\ UNCHANGED <<vars, status, vault, held, cash>>

Makes ==
  /\ status = "open"
  /\ \E m \in Trader, price \in Price, size \in Size, nonce \in Nonce, planned \in 0..MaxSlot :
        LET p == Path(OrderKey(price, planned, m, nonce))
        IN  planned <= slot /\ \/ Place(m, p, price, size, nonce)
                               \/ PlaceCold(m, p, price, size, nonce, highWater + 1, height + 2)

Cancels == \E m \in Trader, k \in Key : Cancel(m, Path(k), k)

(* A taker may pass the leaves of the tree in any order, and the makers it *)
(* will find there.                                                        *)
Takes ==
  /\ status = "open" /\ height > 0
  /\ \E t \in Trader, limit \in Price, size \in Size, max \in {1, MAXK} :
        \E groups \in BoundedSeq({Path(k) : k \in Key}, MaxLeaves) \ {<<>>} :
            LET fills == Sweep(limit, size, max, groups).fills
            IN  /\ fills # <<>>
                /\ Match(t, limit, size, max, [j \in DOMAIN fills |-> fills[j].maker], groups)

SetsUp ==
    \/ \E s \in Seeds : Seed(s)
    \/ HandOver \/ InitMarket

BookNext == SetsUp \/ Makes \/ Cancels \/ Takes \/ Tick

BookSpec == BookInit /\ [][BookNext]_allVars

---------------------------------------------------------------------------
(* Properties *)

(* The order that rests under each key. *)
Book ==
    LET holder(k) == CHOOSE n \in DOMAIN leaf : k \in Range(leaf[n].keys)
    IN  [k \in UNION {Range(leaf[n].keys) : n \in DOMAIN leaf} |-> ValueOf(leaf[holder(k)], k)]

EscrowOf(book) == SumFunction([k \in DOMAIN book |-> Escrow(PriceOf(k), book[k].size)])

(* "escrow == sum": the vault of an open market holds exactly what its     *)
(* resting orders need, after any mix of places, cancels, partial fills    *)
(* and splits, and whatever the creator put into the tree before.          *)
VaultBacksOrders == status = "open" => vault = EscrowOf(Book)

(* What a step took off the orders that were resting before it. *)
Taken(old, new, k) == old[k].size - (IF k \in DOMAIN new THEN new[k].size ELSE 0)
Reduced(old, new) == {k \in DOMAIN old : Taken(old, new, k) # 0}

(* An order shrinks or leaves only by being cancelled, its whole escrow    *)
(* going back to its maker, or by one taker's fills, each of which pays    *)
(* the maker at the order's own price and releases as much to the taker.   *)
OrdersSettleInFull ==
    [][status = "open" =>
        LET old == Book
            new == Book'
            reduced == Reduced(old, new)
            paid(m) == SumFunction([k \in {k \in reduced : old[k].maker = m} |->
                                       Collect(PriceOf(k), Taken(old, new, k))])
        IN  /\ \A k \in DOMAIN old \cap DOMAIN new : new[k].maker = old[k].maker
            /\ reduced # {} =>
                \/ \E k \in reduced :
                    /\ reduced = {k} /\ k \notin DOMAIN new
                    /\ cash' = cash
                    /\ held' = [held EXCEPT ![old[k].maker] = @ + Escrow(PriceOf(k), old[k].size)]
                \/ \E taker \in Trader : \A m \in Trader :
                    /\ cash'[m] - cash[m] =
                          paid(m) - (IF m = taker THEN SumFunction([x \in Trader |-> paid(x)]) ELSE 0)
                    /\ held'[m] - held[m] =
                          IF m = taker
                          THEN SumFunction([k \in reduced |-> Release(PriceOf(k), Taken(old, new, k))])
                          ELSE 0]_allVars

Better(j, k) ==
    \/ IF BookSide = "ask" THEN PriceOf(j) < PriceOf(k) ELSE PriceOf(j) > PriceOf(k)
    \/ PriceOf(j) = PriceOf(k) /\ SlotOf(j) < SlotOf(k)

(* Price-time priority: where a taker's payment shows a match ran, an      *)
(* order it took from leaves no better one on the book, however the sweep  *)
(* got to it over splits and drained leaves.                               *)
BestFirst ==
    [][cash' # cash =>
        LET old == Book
            new == Book'
        IN  \A k \in Reduced(old, new), j \in DOMAIN old :
                Better(j, k) /\ old[j].size > 0 => j \notin DOMAIN new]_allVars

(* The program's own words for its check at place: it does not "rest an    *)
(* ask that no match can ever settle in full" -- the notional of whatever  *)
(* rests, partially filled orders included, fits a u64 and is not nothing. *)
RestingOrdersCanSettle ==
    status = "open" => \A k \in DOMAIN Book :
        Book[k].size > 0 => PriceOf(k) * Book[k].size \in 1..MaxU64

(* demo/src/lib/orderbook.ts:224 of computeFills: "mirroring the on-chain  *)
(* matcher's sweep (price-crossing, sentinel-skipping, leaf-chained)": on  *)
(* the book it was planned from the matcher does not refuse a match, and   *)
(* fills as many orders as were planned.                                   *)
PlannedMatchIsAccepted ==
    status = "open" /\ height > 0 => \A limit \in Price, size \in Size :
        LET plan == MatchIx(limit, size, MAXK)
            swept == Sweep(limit, size, plan.max, plan.groups)
        IN  plan.max > 0 =>
                plan.groups # <<>> /\ swept.state # "refused" /\ Len(swept.fills) = plan.max
=============================================================================
