------------------------------ MODULE MCSubmit ------------------------------
(***************************************************************************)
(* The two senders of TxLife; TornaAuth, which decides whose signature     *)
(* counts; Setup, which makes and funds the keys that sign; the            *)
(* Maintenance of a book; and the Wire.  They share nothing but the        *)
(* chain's rules, so a run takes them one at a time: `scene' says which    *)
(* one is at work.                                                         *)
(***************************************************************************)
EXTENDS TradeActions, Faucet, TornaAuth, Setup, Maintenance, Wire

VARIABLE scene

Symmetry == Permutations(Call) \cup Permutations(Wallet)

Rungs == <<[side |-> "ask", price |-> 2], [side |-> "bid", price |-> 1]>>

(* Two keys that begin alike. *)
Makers == {<<0, 1, 0>>, <<0, 1, 1>>}
Wishes == {<<[side |-> "ask", price |-> 0]>>,
           <<[side |-> "bid", price |-> 1], [side |-> "ask", price |-> 3]>>}
Numbers == {-1, 0, 3, 5}

Txs == (Call \X (1..Endpoints)) \cup (Trader \X (1..Tries))

MCInit ==
    /\ TxInit /\ TradeInit /\ FaucetInit /\ AuthInit /\ SetupInit /\ UpkeepInit /\ WireInit
    /\ scene \in {"trade", "faucet", "authority", "setup", "upkeep", "wire"}
    /\ scene # "authority" => authority = CHOOSE a \in Address : TRUE
    /\ scene # "wire" => job = "orders"
    /\ scene # "upkeep" => resting = {} /\ upkeep.at = "asks"

TradeScene == scene = "trade" /\ TradeNext /\ UNCHANGED <<faucetVars, authVars, setupVars, upkeepVars, wireVars, scene>>
FaucetScene == scene = "faucet" /\ FaucetNext /\ UNCHANGED <<tradeVars, authVars, setupVars, upkeepVars, wireVars, scene>>
AuthorityScene ==
    scene = "authority" /\ AuthNext /\ UNCHANGED <<chain, tradeVars, faucetVars, setupVars, upkeepVars, wireVars, scene>>
SetupScene ==
    scene = "setup" /\ SetupNext /\ UNCHANGED <<chain, tradeVars, faucetVars, authVars, upkeepVars, wireVars, scene>>
UpkeepScene ==
    scene = "upkeep" /\ UpkeepNext /\ UNCHANGED <<chain, tradeVars, faucetVars, authVars, setupVars, wireVars, scene>>
WireScene ==
    scene = "wire" /\ WireNext /\ UNCHANGED <<chain, tradeVars, faucetVars, authVars, setupVars, upkeepVars, scene>>

MCSpec ==
    MCInit /\ [][TradeScene \/ FaucetScene \/ AuthorityScene \/ SetupScene \/ UpkeepScene \/ WireScene]_
        <<chain, tradeVars, faucetVars, authVars, setupVars, upkeepVars, wireVars, scene>>
=============================================================================
