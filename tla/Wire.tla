-------------------------------- MODULE Wire --------------------------------
(***************************************************************************)
(* The bytes between the clients and the chain: the encoders of            *)
(* ts-sdk/src/index.ts and keys.ts, which throw at what does not fit, those*)
(* of demo/src/lib/orderbook.ts, which wrap, the addresses derived from    *)
(* them, and the key a placed order lands under.  Two scripts go the whole *)
(* way: smoke-trade and capture-tx place an order, work out its key from   *)
(* the slot it landed in, and cancel it, while others trade.               *)
(*                                                                         *)
(* A byte is a digit below Radix, and U16, U32 and U64 are widths in bytes,*)
(* so a small Radix and small widths have the boundaries of the real ones. *)
(***************************************************************************)
EXTENDS Integers, SequencesExt

CONSTANTS
    Radix, U16, U32, U64,   \* 256, 2, 4 and 8 in the code
    PublicKey,      \* public keys, as their bytes
    Number,         \* what callers pass, out of range too
    Wish,           \* sequences of sides and prices: what a script tries in turn
    LastSlot,       \* bound: the clock's
    Placings        \* bound: orders that others place

ASSUME WireAssumption ==
    /\ Radix > 1 /\ {U16, U32, U64} \subseteq Nat \ {0}
    /\ Number \subseteq Int /\ LastSlot \in 0..Radix ^ U64 - 1
    /\ \A a \in PublicKey : Len(a) >= U64

VARIABLES
    job,        \* what is looked at: orders, or the trees and markets opened
    clock,      \* the slot
    placed,     \* the orders on the book
    placings,   \* how many others placed
    trip,       \* the script's
    opened      \* the trees and markets

wireVars == <<job, clock, placed, placings, trip, opened>>

---------------------------------------------------------------------------
(* Encoding.  The stores of a DataView wrap; Fits is what the SDK asserts  *)
(* before it uses one, and orderbook.ts does not.                          *)
BigEndian(v, width) == [i \in 1..width |-> (v \div Radix ^ (width - i)) % Radix]
LittleEndian(v, width) == Reverse(BigEndian(v, width))
BigEndianOf(bytes) == FoldLeft(LAMBDA v, byte : v * Radix + byte, 0, bytes)
LittleEndianOf(bytes) == BigEndianOf(Reverse(bytes))

U64Max == Radix ^ U64 - 1
FitsAnything(v, width) == TRUE
Fits(v, width) == v \in 0..Radix ^ width - 1

Precedes(a, b) ==
    \E i \in DOMAIN a : a[i] < b[i] /\ SubSeq(a, 1, i - 1) = SubSeq(b, 1, i - 1)

(* orderKey, and the fields of a key. *)
OrderBytes(side, price, slot, maker, nonce) ==
    BigEndian(IF side = "ask" THEN price ELSE U64Max - price, U64)
        \o BigEndian(slot, U64) \o SubSeq(maker, 1, U64) \o BigEndian(nonce, U64)
Field(key, i) == BigEndianOf(SubSeq(key, (i - 1) * U64 + 1, i * U64))
PriceIn(side, key) == IF side = "ask" THEN Field(key, 1) ELSE U64Max - Field(key, 1)

KeyThrows(price, slot, nonce) == \E v \in {price, slot, nonce} : ~Fits(v, U64)

(* landedKey puts the slot of the transaction into the planned key. *)
AsPlanned(planned, slot) == planned
LandedKey(planned, slot) ==
    [i \in DOMAIN planned |->
        IF i \in U64 + 1..2 * U64 THEN BigEndian(slot, U64)[i - U64] ELSE planned[i]]

---------------------------------------------------------------------------
(* placeIx: the key the path is planned for, and what the program gets.    *)
PlaceData(side, price, size, nonce, maker) ==
    [side |-> side, price |-> LittleEndian(price, U64), size |-> LittleEndian(size, U64),
     nonce |-> LittleEndian(nonce, U64), maker |-> maker]

(* The program decodes them, and stamps its own slot.  `asked' keeps what  *)
(* the caller meant.                                                       *)
Stamped(data, asked) ==
    LET key == OrderBytes(data.side, LittleEndianOf(data.price), clock, data.maker, LittleEndianOf(data.nonce))
    IN  [side |-> data.side, key |-> key,
         value |-> data.maker \o BigEndian(LittleEndianOf(data.size), U64), slot |-> clock, asked |-> asked]

Refused(data, asked) ==
    \/ LittleEndianOf(data.size) = 0
    \/ \E o \in placed : o.side = data.side /\ o.key = Stamped(data, asked).key

Asked(price, nonce, maker) == [price |-> price, nonce |-> nonce, maker |-> maker]

---------------------------------------------------------------------------
(* A script's trip.  Its nonce is its own: the time of day.                *)
Own == U64Max
NoTrip == [at |-> "home"]

WireInit ==
    /\ job \in {"orders", "trees"}
    /\ clock = 0 /\ placed = {} /\ placings = 0 /\ opened = {} /\ trip = NoTrip

Depart ==
    /\ job = "orders" /\ trip = NoTrip
    /\ \E tries \in Wish, maker \in PublicKey : trip' = [at |-> "next", tries |-> tries, maker |-> maker]
    /\ UNCHANGED <<job, clock, placed, placings, opened>>

(* Whatever fails goes on to the next candidate, or ends the script.       *)
FailsWith(t) == trip' = [t EXCEPT !.at = IF Len(t.tries) = 1 THEN "died" ELSE "next", !.tries = Tail(@)]

Plan ==
    /\ trip.at = "next"
    /\ LET first == Head(trip.tries)
       IN  trip' = [at |-> "planned", tries |-> trip.tries, maker |-> trip.maker,
                    key |-> OrderBytes(first.side, first.price, clock, trip.maker, Own)]
    /\ UNCHANGED <<job, clock, placed, placings, opened>>

(* The transaction lands in some later slot, and its confirmation may be   *)
(* lost; or it is refused or dropped.                                      *)
SendPlace ==
    /\ trip.at = "planned"
    /\ LET first == Head(trip.tries)
           data == PlaceData(first.side, first.price, 1, Own, trip.maker)
           asked == Asked(first.price, Own, trip.maker)
       IN  \/ /\ ~Refused(data, asked)
              /\ placed' = placed \cup {Stamped(data, asked)}
              /\ \/ trip' = [at |-> "placed", tries |-> trip.tries, maker |-> trip.maker, key |-> trip.key,
                             order |-> Stamped(data, asked)]
                 \/ FailsWith(trip)
           \/ FailsWith(trip) /\ UNCHANGED placed
    /\ UNCHANGED <<job, clock, placings, opened>>

(* getTransaction, which may not find it. *)
LookUp ==
    /\ trip.at = "placed"
    /\ \/ trip' = [trip EXCEPT !.at = "landed", !.key = LandedKey(@, trip.order.slot)]
       \/ FailsWith(trip)
    /\ UNCHANGED <<job, clock, placed, placings, opened>>

(* The program cancels the order of that key, if the maker's. *)
CancelKey(side, key, maker) ==
    {o \in placed : o.side = side /\ o.key = key /\ SubSeq(o.value, 1, Len(maker)) = maker}

CancelIt ==
    /\ trip.at = "landed"
    /\ LET gone == CancelKey(trip.order.side, trip.key, trip.maker)
       IN  \/ gone # {} /\ placed' = placed \ gone /\ trip' = [trip EXCEPT !.at = "cancelled"]
           \/ trip' = [trip EXCEPT !.at = "died"] /\ UNCHANGED placed
    /\ UNCHANGED <<job, clock, placings, opened>>

---------------------------------------------------------------------------
(* The others: a caller of placeIx with any numbers, takers, the clock.    *)
OthersPlace ==
    /\ job = "orders" /\ placings < Placings /\ placings' = placings + 1
    /\ \E side \in {"ask", "bid"}, price \in Number, size \in Number, maker \in PublicKey, nonce \in {-1, 0, U64Max + 1} :
          LET data == PlaceData(side, price, size, nonce, maker)
              asked == Asked(price, nonce, maker)
          IN  IF KeyThrows(price, clock, nonce) \/ Refused(data, asked)
              THEN UNCHANGED placed
              ELSE placed' = placed \cup {Stamped(data, asked)}
    /\ UNCHANGED <<job, clock, trip, opened>>

OthersTake ==
    /\ \E o \in placed : placed' = placed \ {o}
    /\ UNCHANGED <<job, clock, placings, trip, opened>>

Ticks ==
    /\ job = "orders" /\ clock < LastSlot /\ clock' = clock + 1
    /\ UNCHANGED <<job, placed, placings, trip, opened>>

---------------------------------------------------------------------------
(* Trees and markets.  An address is the program's and of the seeds, one   *)
(* after the other: letters, the creator's key, numbers.                   *)
Pda(program, seeds) == [program |-> program, seeds |-> FlattenSeq(seeds)]
TreePda(letters, creator, id) == Pda("torna", <<letters, creator, LittleEndian(id, U32)>>)
NodePda(creator, id, index) ==
    Pda("torna", <<<<"n", "o", "d", "e">>, creator, LittleEndian(id, U32), LittleEndian(index, U64)>>)
TreePdas(creator, id) ==
    {TreePda(<<"t", "h", "d", "r">>, creator, id), TreePda(<<"t", "a", "l", "l", "o", "c">>, creator, id)}
        \cup {NodePda(creator, id, index) : index \in Number \cap 0..U64Max}
MarketPdas(id) == {Pda("orderbook", <<letters, LittleEndian(id, U64)>>) : letters \in {<<"b", "o", "o", "k">>, <<"m", "k", "t">>}}

(* initTreeIx, whose sizes the engine decodes. *)
InitTree(creator, id, valueSize, fanout) ==
    [owner |-> creator, id |-> id, addresses |-> TreePdas(creator, id), asked |-> <<valueSize, fanout>>,
     sent |-> <<LittleEndian(valueSize, U16), LittleEndian(fanout, U16)>>]

OpenTree ==
    /\ job = "trees" /\ Cardinality(opened) < 2
    /\ \E creator \in PublicKey, id \in Number, valueSize \in Number, fanout \in Number :
          /\ Fits(id, U32) /\ Fits(valueSize, U16) /\ Fits(fanout, U16)
          /\ opened' = opened \cup {InitTree(creator, id, valueSize, fanout)}
    /\ UNCHANGED <<job, clock, placed, placings, trip>>

(* A market's number is one of the listings', or a free one near them.     *)
OpenMarket ==
    /\ job = "trees" /\ Cardinality(opened) < 2
    /\ \E id \in Number \cap 0..U64Max :
          opened' = opened \cup {[owner |-> <<>>, id |-> id, addresses |-> MarketPdas(id), asked |-> <<>>, sent |-> <<>>]}
    /\ UNCHANGED <<job, clock, placed, placings, trip>>

WireNext ==
    \/ Depart \/ Plan \/ SendPlace \/ LookUp \/ CancelIt
    \/ OthersPlace \/ OthersTake \/ Ticks \/ OpenTree \/ OpenMarket

---------------------------------------------------------------------------
(* No number reaches the chain as another: a resting order has the price,  *)
(* the slot, the nonce and the maker that were asked for, a tree the sizes,*)
(* and trees or markets that were told apart by their callers have no      *)
(* address in common (index.ts:71-78, keys.ts:22-25).  An order's size is  *)
(* not among them: orderbook.ts:37 encodes it unasserted.                  *)
NothingWraps ==
    /\ \A o \in placed :
          /\ PriceIn(o.side, o.key) = o.asked.price
          /\ Field(o.key, 2) = o.slot /\ Field(o.key, 4) = o.asked.nonce
          /\ SubSeq(o.value, 1, Len(o.asked.maker)) = o.asked.maker
    /\ \A t \in opened : \A i \in DOMAIN t.sent : LittleEndianOf(t.sent[i]) = t.asked[i]
    /\ \A t, u \in opened :
          <<t.owner, t.id>> # <<u.owner, u.id>> => t.addresses \cap u.addresses = {}

(* The bytes of the keys sort a side by price and then by slot             *)
(* (keys.ts:3-11), and the key a script works out for its order is the one *)
(* the order landed under, however late it landed (orderbook.ts:188-191).  *)
KeysServeTheBook ==
    /\ \A a, b \in placed :
          LET nearer == IF a.side = "ask" THEN a.asked.price < b.asked.price ELSE a.asked.price > b.asked.price
          IN  a.side = b.side /\ (nearer \/ (a.asked.price = b.asked.price /\ a.slot < b.slot)) => Precedes(a.key, b.key)
    /\ trip.at = "landed" => trip.key = trip.order.key
=============================================================================
