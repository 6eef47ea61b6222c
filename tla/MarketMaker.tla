----------------------------- MODULE MarketMaker -----------------------------
(***************************************************************************)
(* The market maker of one listing, in the two programs that run it:       *)
(* demo/scripts/market-maker.ts, a loop that waits for every transaction   *)
(* and sends it again when it saw an error, and demo/src/app/api/mm, a     *)
(* handler that fires its transactions and returns.  Either one reads the  *)
(* book, uncrosses it, prunes its own quotes and quotes anew, while        *)
(* visitors trade and its transactions land late, twice or never.          *)
(*                                                                         *)
(* The book is what Orderbook shows it to be, a queue of orders by price   *)
(* and time on each side; a scan sees all of it (the code reads 48).  Of   *)
(* the leaves it lies in one thing is kept: whether the leftmost one of    *)
(* the asks, where the match that uncrosses must start, is drained.        *)
(***************************************************************************)
EXTENDS Integers, SequencesExt

CONSTANTS
    Makers,      \* sequence of identities: MM_MAKERS, or the demo traders
    Levels,      \* LEVELS
    PruneMax,    \* PRUNE_MAX of the program at work
    Anchor,      \* opening mid, in tenths of a price unit
    Band,        \* MAX_DEV, in tenths
    Drift,       \* moves of the random walk, in tenths
    TradeEvery,  \* TRADE_EVERY of the script
    Attempts,    \* of its send
    QuoteSize, VisitorPrice, VisitorSize,
    Faults,      \* bound: errors, drops and refusals on the network's account
    Visits       \* bound: what visitors do

(* Two makers at least, and a mid that no rounding makes its own two best  *)
(* quotes meet at: 0.4 % either way is half a unit at 125.                 *)
ASSUME MakersAssumption == Len(Makers) >= 2
ASSUME AnchorAssumption == Anchor - Band >= 1250

VARIABLES
    program,     \* "script" or "route"
    book,        \* side -> the orders that rest there, best first
    drained,     \* the best ask, or the next to come, misses the leftmost leaf
    phase, mid, ticks, guard,
    seen,        \* side -> the orders as last read
    unread,      \* sides a read under way has not answered yet
    then,        \* the phase after that read
    todo,        \* transactions of this phase that are still to be sent
    flying,      \* those that were broadcast and may land
    copy,        \* the script's one: its number in flying, or Unsent, Done, Refused
    attempt,     \* of the script's send
    late,        \* history: something landed after its sender moved on
    faults, visits  \* how many there were

market == <<book, drained, flying, late>>
maker  == <<phase, mid, ticks, guard, seen, unread, then, todo, copy, attempt>>
makerVars == <<program, market, maker, faults, visits>>

Side == {"ask", "bid"}
Unsent == 0
Done == -1
Refused == -2

Nothing == [s \in Side |-> <<>>]

MakerInit ==
    /\ program \in {"script", "route"}
    /\ book = Nothing /\ seen = Nothing /\ drained = FALSE
    /\ phase = "idle" /\ mid = Anchor /\ ticks = 0 /\ guard = 0
    /\ unread = {} /\ then = "idle" /\ todo = <<>>
    /\ flying = {} /\ copy = Unsent /\ attempt = 0 /\ late = FALSE
    /\ faults = 0 /\ visits = 0

---------------------------------------------------------------------------
(* The book *)

NoWorse(side, p, q) == IF side = "ask" THEN p <= q ELSE p >= q

Rest(orders, side, o) ==
    InsertAt(orders, Cardinality({i \in DOMAIN orders : NoWorse(side, orders[i].price, o.price)}) + 1, o)

(* What a match of `size' up to `limit' takes: whom it pays, what is left. *)
Sweep(orders, side, limit, size, max) ==
    LET taken[i \in 0..Len(orders)] ==
            IF i = 0 THEN [left |-> size, pays |-> <<>>, rest |-> <<>>]
            ELSE LET t == taken[i - 1]
                     o == orders[i]
                     fill == IF Len(t.pays) < max /\ NoWorse(side, o.price, limit)
                             THEN Min({t.left, o.size}) ELSE 0
                 IN  [left |-> t.left - fill,
                      pays |-> IF fill = 0 THEN t.pays ELSE Append(t.pays, o.maker),
                      rest |-> IF fill = o.size THEN t.rest ELSE Append(t.rest, [o EXCEPT !.size = @ - fill])]
    IN  taken[Len(orders)]

(* An order's key: its price, its maker and a nonce that tells it from any *)
(* other of theirs that rests, was read, or is about to be cancelled.      *)
KeyOf(o) == <<o.price, o.maker, o.nonce>>
KeysOf(orders) == {KeyOf(o) : o \in Range(orders)}

(* What `drained' may be when the asks come to be `new'.  A separator      *)
(* stays where a split put it, so the leaf that holds the best ask goes on *)
(* to while that rests, and an ask that rested further on does not move    *)
(* into the leftmost leaf.                                                 *)
DrainedBy(new) ==
    LET old == book["ask"]
    IN  {d \in BOOLEAN :
            /\ old = <<>> \/ KeyOf(old[1]) \in KeysOf(new) => (d => drained)
            /\ old = <<>> \/ (new # <<>> /\ KeyOf(new[1]) \in KeysOf(old)) => (drained => d)}

Becomes(s, new) ==
    /\ book' = [book EXCEPT ![s] = new]
    /\ IF s = "ask" THEN drained' \in DrainedBy(new) ELSE UNCHANGED drained

Crossed(b) == b["bid"] # <<>> /\ b["ask"] # <<>> /\ b["bid"][1].price >= b["ask"][1].price

Order(s, price, owner, size) ==
    LET used == KeysOf(book[s]) \cup KeysOf(seen[s])
                \cup {t.key : t \in {u \in Range(todo) \cup {f.tx : f \in flying} : u.kind = "cancel"}}
        nonce == CHOOSE i \in 1..(Cardinality(used) + 1) :
                    /\ <<price, owner, i>> \notin used
                    /\ \A j \in 1..(i - 1) : <<price, owner, j>> \in used
    IN  [price |-> price, maker |-> owner, nonce |-> nonce, size |-> size]

---------------------------------------------------------------------------
(* Transactions: [kind, side, ...].  A place's key takes the slot it lands *)
(* in, so each copy that lands rests as an order of its own; a cancel      *)
(* needs its order; a match leaves that chain from the leftmost, and the   *)
(* makers it was planned to pay.                                           *)

(* How many of the best orders the leaves of a match may hold: up to the   *)
(* first it was planned to take, if that still rests, and maybe more.      *)
Reaches(tx) ==
    {n \in 0..Len(book[tx.side]) : \A i \in DOMAIN book[tx.side] : KeyOf(book[tx.side][i]) = tx.first => i <= n}

Swept(tx, n) == Sweep(SubSeq(book[tx.side], 1, n), tx.side, tx.limit, tx.size, Len(tx.pays))

(* The ways the side may be after it, none if it is refused. *)
Landings(tx) ==
    LET orders == book[tx.side]
    IN  CASE tx.kind = "place"  -> {Rest(orders, tx.side, Order(tx.side, tx.price, tx.maker, tx.size))}
          [] tx.kind = "cancel" -> IF tx.key \notin KeysOf(orders) THEN {}
                                   ELSE {SelectSeq(orders, LAMBDA o : KeyOf(o) # tx.key)}
          [] tx.kind = "match"  -> {Swept(tx, n).rest \o SubSeq(orders, n + 1, Len(orders)) :
                                       n \in {m \in Reaches(tx) : tx.leaves # "astray" /\ IsPrefix(Swept(tx, m).pays, tx.pays)}}

MayBeRefused(tx) ==
    \/ Landings(tx) = {}
    \/ tx.kind = "match" /\ tx.leaves = "maybe"
    \/ tx.kind = "match" /\ \E n \in Reaches(tx) : ~IsPrefix(Swept(tx, n).pays, tx.pays)

(* The copy the script waits for is the one it made of the first of todo. *)
Awaited(f) == todo # <<>> /\ f = [n |-> copy, tx |-> Head(todo)]
EndOf(f, how) == copy' = IF Awaited(f) THEN how ELSE copy

(* Included in a block: it runs whole or is refused.  A path that a split  *)
(* made stale since refuses it too, which is counted as a fault.           *)
Land(f) ==
    /\ flying' = flying \ {f}
    /\ \/ /\ \E after \in Landings(f.tx) : Becomes(f.tx.side, after)
          /\ late' = (late \/ (program = "script" /\ ~Awaited(f)))
          /\ EndOf(f, Done)
          /\ UNCHANGED faults
       \/ /\ MayBeRefused(f.tx)
          /\ EndOf(f, Refused)
          /\ UNCHANGED <<book, drained, late, faults>>
       \/ /\ faults < Faults /\ faults' = faults + 1
          /\ EndOf(f, Refused)
          /\ UNCHANGED <<book, drained, late>>
    /\ UNCHANGED <<program, phase, mid, ticks, guard, seen, unread, then, todo, attempt, visits>>

(* Never included before its blockhash expires. *)
Drop(f) ==
    /\ faults < Faults /\ faults' = faults + 1
    /\ flying' = flying \ {f}
    /\ EndOf(f, Refused)
    /\ UNCHANGED <<program, book, drained, late, phase, mid, ticks, guard, seen, unread, then, todo, attempt, visits>>

---------------------------------------------------------------------------
(* The tick *)

Script == program = "script"

(* The next tick of this listing: the loop comes round, or the trigger     *)
(* calls.  The route's calls for one listing are minutes apart, more than  *)
(* a blockhash lives.                                                      *)
Begin ==
    /\ phase = "idle"
    /\ Script \/ flying = {}
    /\ phase' = "read" /\ unread' = Side /\ then' = "walk"
    /\ ticks' = IF Script THEN (ticks + 1) % TradeEvery ELSE ticks
    /\ guard' = 0
    /\ UNCHANGED <<program, market, mid, seen, todo, copy, attempt, faults, visits>>

ReadSide(s) ==
    /\ phase = "read" /\ s \in unread
    /\ seen' = [seen EXCEPT ![s] = book[s]]
    /\ unread' = unread \ {s}
    /\ IF unread' = {} THEN phase' = then /\ then' = "idle" ELSE UNCHANGED <<phase, then>>
    /\ UNCHANGED <<program, market, mid, ticks, guard, todo, copy, attempt, faults, visits>>

(* A read fails: step throws, POST answers 500. *)
ReadThrows ==
    /\ phase = "read"
    /\ faults < Faults /\ faults' = faults + 1
    /\ phase' = "idle" /\ unread' = {} /\ seen' = Nothing
    /\ UNCHANGED <<program, market, mid, ticks, guard, then, todo, copy, attempt, visits>>

(* The script walks from the mid it remembers, the route from the book's;  *)
(* one outside the band starts over from the anchor.                       *)
Base ==
    LET bookMid == 5 * (seen["ask"][1].price + seen["bid"][1].price)
        prev    == IF Script THEN mid
                   ELSE IF seen["ask"] # <<>> /\ seen["bid"] # <<>> THEN bookMid ELSE Anchor
    IN  IF prev - Anchor \in -Band..Band THEN prev ELSE Anchor

Walk ==
    /\ phase = "walk"
    /\ \E d \in Drift : mid' = Max({Anchor - Band, Min({Anchor + Band, Base + d})})
    /\ phase' = "uncross"
    /\ UNCHANGED <<program, market, ticks, guard, seen, unread, then, todo, copy, attempt, faults, visits>>

(* A taker who does not own the order that was on top when it was read. *)
TakerFor(top) ==
    LET others == {i \in DOMAIN Makers : Makers[i] # top.maker} IN Makers[Min(others)]

(* matchIx plans against the book of now: nothing when nothing crosses.    *)
(* It names no leaf in which it found no fill, nor the one in which the    *)
(* sweep ended at an order that does not cross.  So the leaves it names do *)
(* not chain from the leftmost when that is drained, and may not when it   *)
(* ran out of orders or found fills in more than one leaf; of the bids it  *)
(* is left open.                                                           *)
MatchIx(side, top, size) ==
    LET swept == Sweep(book[side], side, top.price, size, 4)
        leaves == IF side = "bid" THEN "maybe"
                  ELSE IF drained THEN "astray"
                  ELSE IF Len(swept.pays) = 1 /\ swept.left = 0 THEN "chained" ELSE "maybe"
    IN  IF swept.pays = <<>> THEN <<>>
        ELSE << [kind |-> "match", side |-> side, taker |-> TakerFor(top), limit |-> top.price, size |-> size,
                 pays |-> swept.pays, first |-> KeyOf(book[side][1]), leaves |-> leaves] >>

Rereads(next) == phase' = "read" /\ unread' = Side /\ then' = next
GoesTo(next) == phase' = next /\ unread' = {} /\ then' = "idle"

Rounds == IF Script THEN 3 ELSE 1

TouchIsNoCross(s) == Crossed(s) /\ s["bid"][1].price > s["ask"][1].price
CrossedTops(s) == Crossed(s)

Uncross ==
    /\ phase = "uncross" /\ todo = <<>>
    /\ IF guard < Rounds /\ CrossedTops(seen)
       THEN LET top == seen["ask"][1]
            IN  /\ todo' = MatchIx("ask", top, Min({top.size, seen["bid"][1].size}))
                /\ guard' = guard + 1
                /\ IF todo' # <<>> THEN GoesTo("uncross")
                   ELSE IF Script THEN Rereads("uncross") ELSE GoesTo("prune")
       ELSE GoesTo(IF Script THEN "trade" ELSE "prune") /\ UNCHANGED <<todo, guard>>
    /\ UNCHANGED <<program, market, mid, ticks, seen, copy, attempt, faults, visits>>

(* Every third tick of the script prints a trade, on either side. *)
Trade ==
    /\ phase = "trade" /\ todo = <<>>
    /\ \/ /\ ticks = 0
          /\ \E s \in Side :
              IF seen[s] = <<>> THEN GoesTo("prune") /\ UNCHANGED todo
              ELSE LET top == seen[s][1]
                   IN  /\ todo' = MatchIx(s, top, IF top.size > 2 THEN 2 ELSE 1)
                       /\ IF todo' # <<>> THEN GoesTo("trade") ELSE Rereads("prune")
       \/ ticks # 0 /\ GoesTo("prune") /\ UNCHANGED todo
    /\ UNCHANGED <<program, market, mid, ticks, guard, seen, copy, attempt, faults, visits>>

(* Its own orders as read, the nearest to the mid first. *)
Distance(o) == IF 10 * o.price < mid THEN mid - 10 * o.price ELSE 10 * o.price - mid
Mine(orders) ==
    LET own == SelectSeq(orders, LAMBDA o : o.maker \in Range(Makers))
        nearer(i, j) == \/ Distance(own[i]) < Distance(own[j])
                        \/ Distance(own[i]) = Distance(own[j]) /\ i < j
        by == SortSeq([i \in DOMAIN own |-> i], nearer)
    IN  [i \in DOMAIN own |-> own[by[i]]]

CancelsPast(kept, side) ==
    LET mine == Mine(seen[side])
    IN  [i \in 1..Min({PruneMax, Max({0, Len(mine) - kept})}) |->
            [kind |-> "cancel", side |-> side, key |-> KeyOf(mine[kept + i])]]

CancelsOneLate(side) == CancelsPast(Levels + 1, side)
Cancels(side) == CancelsPast(Levels, side)

Prune ==
    /\ phase = "prune"
    /\ todo' = Cancels("ask") \o Cancels("bid")
    /\ GoesTo("cancel")
    /\ UNCHANGED <<program, market, mid, ticks, guard, seen, copy, attempt, faults, visits>>

(* Level i stands 0.4 % + 0.6 % i off the mid, rounded to a whole price.   *)
Rounded(i, side) ==
    LET off == 4 + 6 * i
    IN  Max({1, (mid * (IF side = "ask" THEN 1000 + off ELSE 1000 - off) + 5000) \div 10000})

(* Clamped past the best price of the other side, as read. *)
Clamped(i, side) ==
    LET price == Rounded(i, side)
    IN  IF side = "ask" /\ seen["bid"] # <<>> THEN Max({price, seen["bid"][1].price + 1})
        ELSE IF side = "bid" /\ seen["ask"] # <<>> THEN Min({price, seen["ask"][1].price - 1})
        ELSE price

UnclampedPrice(i, side) == Rounded(i, side)
PriceFor(i, side) == Clamped(i, side)

MakerFor(i, side) == Makers[((i + (IF side = "ask" THEN 0 ELSE 1)) % Len(Makers)) + 1]

Places ==
    LET quote(i, side) == [kind |-> "place", side |-> side, maker |-> MakerFor(i, side),
                           price |-> PriceFor(i, side), size |-> QuoteSize]
        all == [j \in 1..(2 * Levels) |-> quote((j - 1) \div 2, IF j % 2 = 1 THEN "ask" ELSE "bid")]
    IN  SelectSeq(all, LAMBDA tx : tx.price > 0)

(* What was read serves no more once the prices are fixed. *)
Requote ==
    /\ phase = "cancel" /\ todo = <<>>
    /\ todo' = Places
    /\ GoesTo("place")
    /\ seen' = Nothing
    /\ UNCHANGED <<program, market, mid, ticks, guard, copy, attempt, faults, visits>>

Finish ==
    /\ phase = "place" /\ todo = <<>>
    /\ GoesTo("idle")
    /\ UNCHANGED <<program, market, mid, ticks, guard, seen, todo, copy, attempt, faults, visits>>

---------------------------------------------------------------------------
(* Sending the first of todo.  The script's send makes a transaction of    *)
(* its own for each attempt; the route's fire is done once it is sent.     *)

Sends == todo # <<>> /\ phase \in {"uncross", "trade", "cancel", "place"}

(* How the tick goes on after a send. *)
Proceed(ok) ==
    /\ todo' = Tail(todo)
    /\ copy' = Unsent /\ attempt' = 0
    /\ CASE phase = "uncross" /\ ok  -> Rereads(IF Script THEN "uncross" ELSE "prune")
         [] phase = "uncross" /\ ~ok -> GoesTo(IF Script THEN "trade" ELSE "idle")
         [] phase = "trade" /\ ok    -> Rereads("prune")
         [] phase = "trade" /\ ~ok   -> GoesTo("prune")
         [] OTHER                    -> GoesTo(phase)
    /\ seen' = IF phase' = "idle" THEN Nothing ELSE seen
    /\ UNCHANGED <<mid, ticks, guard>>

Broadcast ==
    /\ Sends /\ copy = Unsent
    /\ LET n == CHOOSE i \in 1..(Cardinality(flying) + 1) : [n |-> i, tx |-> Head(todo)] \notin flying
       IN  /\ flying' = flying \cup {[n |-> n, tx |-> Head(todo)]}
           /\ IF Script
              THEN /\ copy' = n /\ attempt' = attempt + 1
                   /\ UNCHANGED <<phase, mid, ticks, guard, seen, unread, then, todo>>
              ELSE Proceed(TRUE)
    /\ UNCHANGED <<program, book, drained, late, faults, visits>>

Confirmed ==
    /\ Sends /\ copy = Done
    /\ Proceed(TRUE)
    /\ UNCHANGED <<program, market, faults, visits>>

(* The script saw an error: of this copy, or of the network while the copy *)
(* flies on or has landed.  It sends again, or skips.                      *)
Error ==
    /\ Sends /\ Script /\ copy # Unsent
    /\ IF copy = Refused THEN UNCHANGED faults ELSE faults < Faults /\ faults' = faults + 1
    /\ IF attempt < Attempts
       THEN copy' = Unsent /\ UNCHANGED <<phase, mid, ticks, guard, seen, unread, then, todo, attempt>>
       ELSE Proceed(FALSE)
    /\ UNCHANGED <<program, market, visits>>

(* It could not be built, or not be sent. *)
SendThrows ==
    /\ Sends /\ copy = Unsent
    /\ faults < Faults /\ faults' = faults + 1
    /\ Proceed(FALSE)
    /\ UNCHANGED <<program, market, visits>>

Ticking ==
    \/ Begin \/ (\E s \in Side : ReadSide(s)) \/ Walk \/ Uncross \/ Trade \/ Prune \/ Requote \/ Finish
    \/ Broadcast \/ Confirmed
    \/ copy = Refused /\ Error

Chain == \E f \in flying : Land(f)

---------------------------------------------------------------------------
(* Visitors place and take.  (A cancel of theirs undoes what they placed.) *)

Visitor == "visitor"

Visit ==
    /\ visits < Visits /\ visits' = visits + 1
    /\ \E s \in Side :
        \/ \E p \in VisitorPrice, size \in VisitorSize :
              Becomes(s, Rest(book[s], s, Order(s, p, Visitor, size)))
        \/ \E size \in VisitorSize :
              /\ book[s] # <<>> /\ (s = "ask" => ~drained)
              /\ \E n \in 1..Len(book[s]) :
                    Becomes(s, Sweep(SubSeq(book[s], 1, n), s, book[s][1].price, size, 8).rest
                               \o SubSeq(book[s], n + 1, Len(book[s])))
    /\ UNCHANGED <<program, flying, late, maker, faults>>

MakerNext ==
    \/ Ticking \/ Chain \/ Visit
    \/ ReadThrows \/ Error \/ SendThrows
    \/ \E f \in flying : Drop(f)

(* The scheduler keeps running either program, and what is in flight is    *)
(* taken up or expires.                                                    *)
MakerFairness == WF_makerVars(Ticking) /\ WF_makerVars(Chain)

MakerSpec == MakerInit /\ [][MakerNext]_makerVars /\ MakerFairness

---------------------------------------------------------------------------
(* Properties *)

Own(s) == {i \in DOMAIN book[s] : book[s][i].maker \in Range(Makers)}

(* However visitors take and place between a tick's reads and its landings *)
(* and however often a send is repeated within its tick, the maker's own   *)
(* quotes never cross each other: those of a moved mid are clamped past    *)
(* the ones that rest, the pruned ones included.  Only a transaction that  *)
(* lands after the script gave it up can break this.                       *)
OwnQuotesDoNotCross ==
    ~late => \A a \in Own("ask"), b \in Own("bid") : book["bid"][b].price < book["ask"][a].price

(* "steady state is roughly twice this per side": with nothing in flight   *)
(* the maker never rests more than twice its levels on a side, and one     *)
(* order more for each fault there was so far.                             *)
OwnQuotesAreBounded ==
    flying = {} => \A s \in Side : Cardinality(Own(s)) <= 2 * Levels + faults

(* Once faults have stopped the prune works off what they left behind, and *)
(* once visitors have, the book is uncrossed for good -- or stays crossed  *)
(* with the leftmost ask leaf drained, where the uncrossing match is       *)
(* refused whenever it is sent and no clamped ask of the maker's goes.     *)
BookHeals ==
    /\ <>[](flying = {} => \A s \in Side : Cardinality(Own(s)) <= 2 * Levels)
    /\ <>[](Crossed(book) => drained)
=============================================================================
