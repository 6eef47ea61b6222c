---------------------------- MODULE Maintenance ----------------------------
(***************************************************************************)
(* The scripts that tidy one book by hand (demo/scripts): cancel-all, pass *)
(* after pass over either side; cleanup-book, which reads both sides once  *)
(* and cancels what crosses; topup, which lays a ladder.  Meanwhile        *)
(* visitors and the maker trade, and a transaction whose confirmation is   *)
(* lost may still land.                                                    *)
(*                                                                         *)
(* An order is known by its side, its price, whether a demo identity made  *)
(* it, and whether it was there when the script began.                     *)
(***************************************************************************)
EXTENDS Integers, Sequences, FiniteSetsExt

CONSTANTS
    Price,
    Ladder,         \* topup's orders, in turn
    Passes,         \* cancel-all's, of a side
    ScanLimit,      \* orders a pass looks at
    AtFirst,        \* bound: orders at the start
    Comings         \* bound: orders that others place

ASSUME MaintenanceAssumption ==
    /\ Price \subseteq Nat \ {0} /\ Passes \in Nat \ {0} /\ ScanLimit \in Nat \ {0}
    /\ Ladder \in Seq([side : {"ask", "bid"}, price : Price])

VARIABLES
    resting,    \* the book
    upkeep,     \* what the script is doing
    adrift,     \* its transactions without confirmation that may still land
    comings     \* orders placed by others so far

upkeepVars == <<resting, upkeep, adrift, comings>>

BothSides == <<"ask", "bid">>
NewOrder(side, price, ours) == [side |-> side, price |-> price, ours |-> ours, old |-> FALSE]
OldOrders == [side : {"ask", "bid"}, price : Price, ours : BOOLEAN, old : {TRUE}]

Of(side, os) == {o \in os : o.side = side}
Ours(os) == {o \in os : o.ours}

(* cancel-all starts with the asks; cleanup with reading them. *)
UpkeepInit ==
    /\ resting \in {os \in SUBSET OldOrders : Cardinality(os) <= AtFirst}
    /\ adrift = {} /\ comings = 0
    /\ upkeep \in {[at |-> "scan", side |-> 1, pass |-> 0, early |-> {}],
                   [at |-> "asks"], [at |-> "ladder", n |-> 1]}

---------------------------------------------------------------------------
(* A transaction that cancels or places: it lands and is confirmed, or it  *)
(* throws, having landed, being refused, dropped, or yet to land.          *)
Does(tx) == IF tx.place THEN resting \cup {tx.order} ELSE resting \ {tx.order}
Passable(tx) == tx.place \/ tx.order \in resting

Confirms(tx) == Passable(tx) /\ resting' = Does(tx) /\ UNCHANGED adrift
ThrowsAt(tx) ==
    \/ Passable(tx) /\ resting' = Does(tx) /\ UNCHANGED adrift
    \/ adrift' = adrift \cup {tx} /\ UNCHANGED resting
    \/ UNCHANGED <<resting, adrift>>

CancelOf(o) == [place |-> FALSE, order |-> o]
PlaceOf(o) == [place |-> TRUE, order |-> o]

---------------------------------------------------------------------------
(* cancel-all.  A pass looks at the front of a side; the side is left      *)
(* early when there is none of ours, and after its last pass in any case.  *)
(* `early' has the sides that were left early by a pass that saw them      *)
(* whole.                                                                  *)
NextSide(early) ==
    IF upkeep.side < Len(BothSides)
    THEN [at |-> "scan", side |-> upkeep.side + 1, pass |-> 0, early |-> early]
    ELSE [at |-> "cleared", early |-> early]

NoWorseThan(a, b) == IF a.side = "ask" THEN a.price <= b.price ELSE a.price >= b.price
Fronts(os) ==
    {seen \in SUBSET os :
        /\ Cardinality(seen) = Min({ScanLimit, Cardinality(os)})
        /\ \A a \in seen, b \in os \ seen : NoWorseThan(a, b)}

Scan ==
    /\ upkeep.at = "scan"
    /\ LET side == BothSides[upkeep.side] IN
       \E seen \in Fronts(Of(side, resting)) :
          upkeep' = IF Ours(seen) = {}
                    THEN NextSide(IF seen = Of(side, resting) THEN upkeep.early \cup {side} ELSE upkeep.early)
                    ELSE [at |-> "cancel", side |-> upkeep.side, pass |-> upkeep.pass,
                          early |-> upkeep.early, todo |-> Ours(seen)]
    /\ UNCHANGED <<resting, adrift, comings>>

(* A failure is counted as skipped, and the next pass sees what is left. *)
CancelNext ==
    /\ upkeep.at = "cancel"
    /\ \E o \in upkeep.todo :
          /\ Confirms(CancelOf(o)) \/ ThrowsAt(CancelOf(o))
          /\ upkeep' = [upkeep EXCEPT !.todo = @ \ {o}]
    /\ UNCHANGED comings

(* One pass taken for all of them. *)
PassEndsAtOnce ==
    /\ upkeep.at = "cancel" /\ upkeep.todo = {}
    /\ upkeep' = NextSide(upkeep.early \cup {BothSides[upkeep.side]})
    /\ UNCHANGED <<resting, adrift, comings>>

PassEnds ==
    /\ upkeep.at = "cancel" /\ upkeep.todo = {}
    /\ upkeep' = IF upkeep.pass + 1 = Passes THEN NextSide(upkeep.early)
                 ELSE [at |-> "scan", side |-> upkeep.side, pass |-> upkeep.pass + 1, early |-> upkeep.early]
    /\ UNCHANGED <<resting, adrift, comings>>

---------------------------------------------------------------------------
(* cleanup-book: the asks, then the bids, and from both what crosses the   *)
(* best of the other side, which is to say any of it.  A side here lies in *)
(* the 64 leaves it walks at most, none of them missing.                   *)
Crossers(asks, bids) ==
    {a \in asks : \E b \in bids : a.price <= b.price}
        \cup {b \in bids : \E a \in asks : b.price >= a.price}

ReadAsks ==
    /\ upkeep.at = "asks"
    /\ upkeep' = [at |-> "bids", asks |-> Of("ask", resting)]
    /\ UNCHANGED <<resting, adrift, comings>>

ReadBids ==
    /\ upkeep.at = "bids"
    /\ upkeep' = [at |-> "uncross", todo |-> Crossers(upkeep.asks, Of("bid", resting))]
    /\ UNCHANGED <<resting, adrift, comings>>

(* A visitor's order is passed over; a failure ends the script. *)
Uncross ==
    /\ upkeep.at = "uncross"
    /\ \E o \in upkeep.todo :
          \/ /\ ~o.ours
             /\ upkeep' = [upkeep EXCEPT !.todo = @ \ {o}] /\ UNCHANGED <<resting, adrift>>
          \/ o.ours /\ Confirms(CancelOf(o)) /\ upkeep' = [upkeep EXCEPT !.todo = @ \ {o}]
          \/ o.ours /\ ThrowsAt(CancelOf(o)) /\ upkeep' = [at |-> "died"]
    /\ UNCHANGED comings

Uncrossed ==
    /\ upkeep.at = "uncross" /\ upkeep.todo = {}
    /\ upkeep' = [at |-> "clean"]
    /\ UNCHANGED <<resting, adrift, comings>>

---------------------------------------------------------------------------
(* topup: order after order, until one fails. *)
Lay ==
    /\ upkeep.at = "ladder" /\ upkeep.n <= Len(Ladder)
    /\ LET tx == PlaceOf(NewOrder(Ladder[upkeep.n].side, Ladder[upkeep.n].price, TRUE))
       IN  \/ Confirms(tx) /\ upkeep' = [upkeep EXCEPT !.n = @ + 1]
           \/ ThrowsAt(tx) /\ upkeep' = [at |-> "died"]
    /\ UNCHANGED comings

---------------------------------------------------------------------------
(* Others: visitors and the maker place, an order is taken or cancelled,   *)
(* a transaction of the script's lands after all.                          *)
Comes ==
    /\ comings < Comings /\ comings' = comings + 1
    /\ \E side \in {"ask", "bid"}, p \in Price, ours \in BOOLEAN :
          resting' = resting \cup {NewOrder(side, p, ours)}
    /\ UNCHANGED <<upkeep, adrift>>

Leaves ==
    /\ \E o \in resting : resting' = resting \ {o}
    /\ UNCHANGED <<upkeep, adrift, comings>>

LandsAfterAll ==
    /\ \E tx \in adrift : resting' = Does(tx) /\ adrift' = adrift \ {tx}
    /\ UNCHANGED <<upkeep, comings>>

(* A read that throws ends the script, but for the reads of a cancel. *)
ReadFails ==
    /\ upkeep.at \in {"scan", "asks", "bids", "ladder"}
    /\ upkeep' = [at |-> "died"]
    /\ UNCHANGED <<resting, adrift, comings>>

UpkeepNext ==
    \/ Scan \/ CancelNext \/ PassEnds
    \/ ReadAsks \/ ReadBids \/ Uncross \/ Uncrossed
    \/ Lay \/ ReadFails \/ Comes \/ Leaves \/ LandsAfterAll

UpkeepSpec == UpkeepInit /\ [][UpkeepNext]_upkeepVars

---------------------------------------------------------------------------
(* What the scripts say of the book they leave holds of every order that   *)
(* was there when they began, whoever trades meanwhile and whichever of    *)
(* their transactions fail: a side that cancel-all left before its last    *)
(* pass, having seen it whole, has none of ours left (cancel-all.ts:47-68),*)
(* and after cleanup-book no order of ours crosses another                 *)
(* (cleanup-book.ts:50-66).                                                *)
TidiedUp ==
    /\ upkeep.at \in {"scan", "cancel", "cleared"} =>
          \A o \in Ours(resting) : o.old => o.side \notin upkeep.early
    /\ upkeep.at = "clean" =>
          \A a \in Of("ask", resting), b \in Of("bid", resting) :
              a.old /\ b.old /\ (a.ours \/ b.ours) => a.price > b.price
=============================================================================
