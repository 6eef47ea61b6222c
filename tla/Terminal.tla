------------------------------ MODULE Terminal ------------------------------
(***************************************************************************)
(* The trading page (demo/src/components: Venue, Terminal, Trade, and      *)
(* lib/actions.ts): a reader who picks listings and identities, sees the   *)
(* book of the one and the open orders of the other, and places, takes and *)
(* cancels.  What was sent belongs to the listing and the identity of its  *)
(* moment; its outcome comes back to whatever the page shows by then.      *)
(*                                                                         *)
(* Every listing has its own terminal: picking another one throws the old  *)
(* terminal's state away.  A mount is known by its number.                 *)
(***************************************************************************)
EXTENDS Integers, FiniteSets

CONSTANTS
    Listing,        \* provisioned listings
    Trader,         \* demo identities whose secret is on the page
    Wallet,         \* the reader's own
    Mounts,         \* bound: terminals in a row
    MaxRows         \* bound: orders on display

VARIABLES
    listing, mount,     \* the listing picked, and its terminal's number
    mode, trader,       \* who acts: a demo identity, or the wallet
    connected,          \* the wallet is
    rows,               \* the orders of the book on display
    fetches,            \* the book loads under way
    cancelling, sending, faucetBusy,   \* the guards of the page's buttons
    jobs                \* what was sent and has not come back

state == <<mode, trader, rows, cancelling, sending, faucetBusy>>
terminalVars == <<listing, mount, state, connected, fetches, jobs>>

Sides == {"ask", "bid"}
RowsOf(s) == [listing : {s}, side : Sides, maker : Trader \cup {Wallet}]
NoOne == "no one"
NoRow == [listing |-> "none", side |-> "none", maker |-> NoOne]

FirstTrader == CHOOSE t \in Trader : TRUE

TerminalInit ==
    /\ listing \in Listing /\ mount = 1
    /\ mode = "demo" /\ trader = FirstTrader /\ connected = FALSE
    /\ rows = {} /\ fetches = {}
    /\ cancelling = NoRow /\ sending = FALSE /\ faucetBusy = FALSE
    /\ jobs = {}

(* A wallet that is picked and not connected leaves no one to act. *)
Me == IF mode = "demo" THEN trader ELSE IF connected THEN Wallet ELSE NoOne

---------------------------------------------------------------------------
(* The book: one load at a time in a terminal, of the listing it is for. A *)
(* refresh while one is under way is none.                                 *)
MayFetch == \A f \in fetches : f.mount # mount
Refresh == IF MayFetch THEN fetches' = fetches \cup {[mount |-> mount, listing |-> listing]}
           ELSE UNCHANGED fetches

Fetch == MayFetch /\ Refresh /\ UNCHANGED <<listing, mount, state, connected, jobs>>

(* The answer, for the terminal that asked if it is still there; a failure *)
(* leaves the rows.                                                        *)
BookArrives(f) ==
    /\ fetches' = fetches \ {f}
    /\ IF f.mount = mount
       THEN \/ \E book \in SUBSET RowsOf(f.listing) : Cardinality(book) <= MaxRows /\ rows' = book
            \/ UNCHANGED rows
       ELSE UNCHANGED rows
    /\ UNCHANGED <<listing, mount, mode, trader, cancelling, sending, faucetBusy, connected, jobs>>

---------------------------------------------------------------------------
(* The terminal kept for all listings: its hook clears the ladder. *)
PickListingUnkeyed(s) ==
    /\ s # listing /\ listing' = s
    /\ rows' = {}
    /\ UNCHANGED <<mount, mode, trader, cancelling, sending, faucetBusy, connected, fetches, jobs>>

(* Another listing: a new terminal, as it starts. *)
PickListing(s) ==
    /\ s # listing /\ mount < Mounts
    /\ listing' = s /\ mount' = mount + 1
    /\ mode' = "demo" /\ trader' = FirstTrader /\ rows' = {}
    /\ cancelling' = NoRow /\ sending' = FALSE /\ faucetBusy' = FALSE
    /\ UNCHANGED <<connected, fetches, jobs>>

(* Another identity, at any time: the guards stay as they are. *)
PickTrader(t) ==
    /\ <<mode, trader>> # <<"demo", t>>
    /\ mode' = "demo" /\ trader' = t
    /\ UNCHANGED <<listing, mount, rows, cancelling, sending, faucetBusy, connected, fetches, jobs>>

PickWallet ==
    /\ connected /\ mode # "wallet" /\ mode' = "wallet"
    /\ UNCHANGED <<listing, mount, trader, rows, cancelling, sending, faucetBusy, connected, fetches, jobs>>

Connect ==
    /\ connected' = ~connected
    /\ UNCHANGED <<listing, mount, state, fetches, jobs>>

---------------------------------------------------------------------------
Sent(kind, side, row) ==
    [kind |-> kind, mount |-> mount, listing |-> listing, actor |-> Me, side |-> side, row |-> row]

(* The orders of whoever acts, in the book on display. *)
Mine == {r \in rows : r.maker = Me}

MayCancel(r) == Me # NoOne /\ cancelling = NoRow /\ r \in Mine

(* cancel: the order's side decides on tree, vault and the account paid. *)
CancelOrder(r) ==
    /\ MayCancel(r)
    /\ cancelling' = r
    /\ jobs' = jobs \cup {Sent("cancel", r.side, r)}
    /\ UNCHANGED <<listing, mount, mode, trader, rows, sending, faucetBusy, connected, fetches>>

(* place or take, on the side the form says, if its preview lets it, which *)
(* it may in any book: one button, and one guard, serves both.             *)
MaySubmit == Me # NoOne /\ ~sending

Submit ==
    /\ MaySubmit
    /\ sending' = TRUE
    /\ jobs' = jobs \cup {Sent("submit", "none", NoRow)}
    /\ UNCHANGED <<listing, mount, mode, trader, rows, cancelling, faucetBusy, connected, fetches>>

(* The faucet funds the wallet, whoever acts. *)
AskFaucet ==
    /\ connected /\ ~faucetBusy
    /\ faucetBusy' = TRUE
    /\ jobs' = jobs \cup {[Sent("faucet", "none", NoRow) EXCEPT !.actor = Wallet]}
    /\ UNCHANGED <<listing, mount, mode, trader, rows, cancelling, sending, connected, fetches>>

(* It worked, or was refused, failed, or had nothing to take: the guard is *)
(* released either way, and after a good end everything is read again.  A  *)
(* terminal that is gone hears of it no more.                              *)
Settles(j) ==
    /\ jobs' = jobs \ {j}
    /\ IF j.mount # mount THEN UNCHANGED <<cancelling, sending, faucetBusy, fetches>>
       ELSE /\ cancelling' = IF j.kind = "cancel" THEN NoRow ELSE cancelling
            /\ sending' = (sending /\ j.kind # "submit")
            /\ faucetBusy' = (faucetBusy /\ j.kind # "faucet")
            /\ Refresh \/ UNCHANGED fetches
    /\ UNCHANGED <<listing, mount, mode, trader, rows, connected>>

TerminalNext ==
    \/ Fetch \/ \E f \in fetches : BookArrives(f)
    \/ \E s \in Listing : PickListing(s)
    \/ \E t \in Trader : PickTrader(t)
    \/ PickWallet \/ Connect
    \/ \E r \in rows : CancelOrder(r)
    \/ Submit \/ AskFaucet \/ \E j \in jobs : Settles(j)

TerminalSpec == TerminalInit /\ [][TerminalNext]_terminalVars

---------------------------------------------------------------------------
(* Every cancel under way names an order of its own signer and of the      *)
(* market whose tree and vault it is sent to (Terminal.tsx:68-93): the     *)
(* book on display, the listing and the identity change under it, and the  *)
(* hook that loads the book would show one listing's under another's name, *)
(* were the terminal not thrown away with its listing (Venue.tsx:77).      *)
CancelsNameTheirTree ==
    \A j \in jobs : j.kind = "cancel" => /\ j.row.listing = j.listing
                                         /\ j.row.maker = j.actor
                                         /\ j.row.side = j.side
=============================================================================
