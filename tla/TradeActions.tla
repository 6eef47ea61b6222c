---------------------------- MODULE TradeActions ----------------------------
(***************************************************************************)
(* A trade action's way through the browser (demo/src/lib/actions.ts,      *)
(* signSendConfirm and confirmByPolling): sign, send, and poll statuses    *)
(* and block heights over HTTP until there is something to tell the        *)
(* trader, who tries again when told that the order did not go through.    *)
(***************************************************************************)
EXTENDS TxLife

CONSTANTS Trader, Tries   \* Tries: bound on the orders a trader sends in turn

(* Every order is a transaction of the chain. *)
ASSUME TradeAssumption == Tries \in Nat \ {0} /\ Trader \X (1..Tries) \subseteq Tx

VARIABLES stage, try, told

tradeVars == <<stage, try, told>>

Order(o) == <<o, try[o]>>

TradeInit ==
    /\ stage = [o \in Trader |-> "idle"]
    /\ try = [o \in Trader |-> 1]
    /\ told = [o \in Trader |-> [i \in 1..Tries |-> "nothing"]]

Goes(o, s) == stage' = [stage EXCEPT ![o] = s] /\ UNCHANGED <<try, told>>
Tells(o, answer) ==
    /\ stage' = [stage EXCEPT ![o] = "done"]
    /\ told' = [told EXCEPT ![o][try[o]] = answer]
    /\ UNCHANGED try

(* The blockhash is fetched before the wallet is asked to sign. *)
SignOrder(o) == stage[o] = "idle" /\ Sign(Order(o)) /\ Goes(o, "signed")

SendOrder(o) == stage[o] = "signed" /\ Broadcast(Order(o)) /\ Goes(o, "poll")

(* Refused by the preflight, or sent and the answer lost. *)
SendThrows(o) ==
    /\ stage[o] = "signed"
    /\ Broadcast(Order(o)) \/ UNCHANGED chain
    /\ Tells(o, "error")

Poll(o) ==
    /\ stage[o] = "poll"
    /\ \/ HasErr(Order(o)) /\ Tells(o, "failed")
       \/ ~HasErr(Order(o)) /\ IsConfirmed(Order(o)) /\ Tells(o, "sig")
       \/ ~HasErr(Order(o)) /\ ~IsConfirmed(Order(o)) /\ Goes(o, "height")
    /\ UNCHANGED chain

(* Without the last look. *)
CheckHeightOnly(o) ==
    /\ stage[o] = "height"
    /\ IF Expired(Order(o)) THEN Tells(o, "expired") ELSE Goes(o, "poll")
    /\ UNCHANGED chain

CheckHeight(o) ==
    /\ stage[o] = "height"
    /\ Goes(o, IF Expired(Order(o)) THEN "final" ELSE "poll")
    /\ UNCHANGED chain

(* One last look, because it can land in the same breath: any status will  *)
(* do, an error's too.                                                     *)
FinalLook(o) ==
    /\ stage[o] = "final"
    /\ Tells(o, IF HasStatus(Order(o)) THEN "sig" ELSE "expired")
    /\ UNCHANGED chain

(* Any of these reads may throw, and the action with it. *)
ReadThrows(o) ==
    /\ stage[o] \in {"poll", "height", "final"}
    /\ Tells(o, "error")
    /\ UNCHANGED chain

(* "transaction expired before it was confirmed; please retry" *)
Again(o) ==
    /\ stage[o] = "done" /\ told[o][try[o]] \in {"failed", "expired"} /\ try[o] < Tries
    /\ try' = [try EXCEPT ![o] = @ + 1]
    /\ stage' = [stage EXCEPT ![o] = "idle"]
    /\ UNCHANGED <<told, chain>>

TradeNext ==
    \/ ChainNext /\ UNCHANGED tradeVars
    \/ \E o \in Trader : SignOrder(o) \/ SendOrder(o) \/ SendThrows(o) \/ Poll(o)
                       \/ CheckHeight(o) \/ FinalLook(o) \/ ReadThrows(o) \/ Again(o)

TradeSpec == TxInit /\ TradeInit /\ [][TradeNext]_<<chain, tradeVars>>

---------------------------------------------------------------------------
(* A trader who is told that an order expired is told the truth: it is not *)
(* on the book and never will be, so trying again does not place it twice  *)
(* (actions.ts:29-49).  It takes the last look after the height was read:  *)
(* the order may land and be confirmed between the two reads of a round.   *)
ExpiredNeverRests ==
    \A o \in Trader, i \in 1..Tries :
        told[o][i] = "expired" => ~HasStatus(<<o, i>>) /\ Expired(<<o, i>>)
=============================================================================
