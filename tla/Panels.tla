------------------------------- MODULE Panels -------------------------------
(***************************************************************************)
(* What the pages show of answers that arrive late (demo/src/components):  *)
(* the trader's balances, the reference strip, the explorer's view, its    *)
(* account inspector, a transaction's details and the activity tape.  Each *)
(* asks the server for something the reader picks, and the reader may pick *)
(* something else while the answer is on its way.                          *)
(*                                                                         *)
(* A behaviour follows one panel.  Loads and answers are known by whether  *)
(* they were begun for what is picked now, or formerly.                    *)
(***************************************************************************)
EXTENDS Integers

CONSTANT Place   \* places for a panel's loads

VARIABLES
    panel,      \* which one
    picked,     \* the reader has picked something to load
    shown,      \* the answer on display: nothing, former, present
    load,       \* the loads under way: none, former, present
    answered    \* history: a load begun for the present pick has ended

panelVars == <<panel, picked, shown, load, answered>>

(* What a panel does when the pick changes: start anew as another          *)
(* component, or run its effect again; with or without a flag that an old  *)
(* effect's answers are checked against; and whether what it shows is      *)
(* cleared when there is nothing to load.  Whether it loads again by       *)
(* itself, and what a failed load leaves on display.                       *)
Balances  == [remounts |-> FALSE, flagged |-> TRUE,  clears |-> TRUE,  polls |-> FALSE, failed |-> "nothing"]
Reference == [remounts |-> FALSE, flagged |-> TRUE,  clears |-> FALSE, polls |-> TRUE,  failed |-> "nothing"]
Inspector == [remounts |-> FALSE, flagged |-> TRUE,  clears |-> TRUE,  polls |-> FALSE, failed |-> "answer"]
Detail    == [remounts |-> TRUE,  flagged |-> TRUE,  clears |-> FALSE, polls |-> FALSE, failed |-> "answer"]
View      == [remounts |-> TRUE,  flagged |-> FALSE, clears |-> FALSE, polls |-> TRUE,  failed |-> "kept"]
Tape      == [remounts |-> TRUE,  flagged |-> FALSE, clears |-> FALSE, polls |-> TRUE,  failed |-> "kept"]

PanelsInit ==
    /\ panel \in {Balances, Reference, Inspector, Detail, View, Tape}
    /\ picked = FALSE /\ shown = "nothing" /\ answered = FALSE
    /\ load = [l \in Place |-> "none"]

(* Starts its effect: with a place free for the load it asks for. *)
Loads(ls) ==
    \E l \in Place : ls[l] = "none" /\ load' = [ls EXCEPT ![l] = "present"]

Former(ls) == [l \in Place |-> IF ls[l] = "present" THEN "former" ELSE ls[l]]

(* Another listing, trader, account or transaction is picked; for the      *)
(* balances also: a trade is done and they are read again.  A new          *)
(* component shows nothing yet; the old one's answers reach no one.        *)
Pick ==
    /\ picked' = TRUE /\ answered' = FALSE
    /\ shown' = IF panel.remounts \/ shown = "nothing" THEN "nothing" ELSE "former"
    /\ Loads(IF panel.remounts THEN [l \in Place |-> "none"] ELSE Former(load))
    /\ UNCHANGED panel

(* The pick is taken back: no wallet, no address. *)
Unpick ==
    /\ picked /\ panel.clears
    /\ picked' = FALSE /\ answered' = FALSE
    /\ shown' = "nothing"
    /\ load' = Former(load)
    /\ UNCHANGED panel

(* The interval, the tab coming back to the front, the Refresh button: no  *)
(* load waits for another.                                                 *)
Reload ==
    /\ picked /\ panel.polls /\ Loads(load)
    /\ UNCHANGED <<panel, picked, shown, answered>>

(* The flag forgotten. *)
ReachesAlways(l) == TRUE

Reaches(l) == panel.flagged => load[l] = "present"

(* What a load leaves on display. *)
Outcomes(l) == {load[l], CASE panel.failed = "answer"  -> load[l]
                           [] panel.failed = "nothing" -> "nothing"
                           [] panel.failed = "kept"    -> shown}

LoadEnds(l) ==
    /\ load[l] # "none"
    /\ IF Reaches(l) THEN shown' \in Outcomes(l) ELSE UNCHANGED shown
    /\ answered' = (answered \/ load[l] = "present")
    /\ load' = [load EXCEPT ![l] = "none"]
    /\ UNCHANGED <<panel, picked>>

PanelsNext == Pick \/ Unpick \/ Reload \/ \E l \in Place : LoadEnds(l)

PanelsSpec == PanelsInit /\ [][PanelsNext]_panelVars

---------------------------------------------------------------------------
(* Once a load begun for what is picked now has ended, no panel shows what *)
(* was asked for before (Terminal.tsx:51-64, OracleStrip.tsx:41-53,        *)
(* Explorer.tsx:303-410): not another trader's balances, nor those from    *)
(* before a trade, not another listing's mark, not another account.  A     *)
(* panel that is a new component for each pick never does.                 *)
PanelsKeepUp == answered \/ panel.remounts => shown # "former"
=============================================================================
