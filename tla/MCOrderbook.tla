----------------------------- MODULE MCOrderbook -----------------------------
(***************************************************************************)
(* Orderbook on small instances.  Once the market is open the orders in    *)
(* `todo' come to rest before anyone else acts: that is how a run starts   *)
(* from a book of two leaves.                                              *)
(***************************************************************************)
EXTENDS Orderbook

CONSTANT Opening   \* orders that rest first, as <<maker, price, size, nonce>>

VARIABLE todo

Traders == {"ann", "bob"}
SamePrefix == [t \in Traders |-> 0]
OwnPrefix == [t \in Traders |-> IF t = "ann" THEN 0 ELSE 1]

Keys == {OrderKey(price, s, m, nonce) :
            price \in Price, s \in 0..MaxSlot, m \in Trader, nonce \in Nonce}
        \cup {seed.key : seed \in Seeds}
Values == [maker : Trader, size : 0..MaxU64]

(* The bring-up's sentinel of size 0, at the far end of the book, or an    *)
(* order the creator smuggles in.                                          *)
Entry(price, size) == [key |-> OrderKey(price, 0, "ann", 0), maker |-> "ann", size |-> size]
SentinelOrNot == {Entry(IF BookSide = "ask" THEN MaxU64 ELSE 1, 0), Entry(2, 1)}
JustSentinel == {Entry(IF BookSide = "ask" THEN MaxU64 ELSE 1, 0)}

MCInit == BookInit /\ todo = Opening

Rest ==
    /\ status = "open" /\ todo # <<>>
    /\ LET o == Head(todo)
           p == Path(OrderKey(o[2], slot, o[1], o[4]))
       IN  \/ Place(o[1], p, o[2], o[3], o[4])
           \/ (height > 0 => KeyCount(LeafOf(p)) = F)
              /\ PlaceCold(o[1], p, o[2], o[3], o[4], highWater + 1, height + 2)
    /\ todo' = Tail(todo)

MCSpec == MCInit /\ [][Rest \/ ((status # "open" \/ todo = <<>>) /\ BookNext /\ UNCHANGED todo)]_<<allVars, todo>>

NoOpening == <<>>
FourOrders == << <<"ann", 1, 1, 1>>, <<"bob", 1, 1, 2>>, <<"ann", 2, 1, 1>>, <<"bob", 2, 1, 2>> >>
=============================================================================
