------------------------------- MODULE TxLife -------------------------------
(***************************************************************************)
(* The life of transactions on the chain, as the venue's senders use it    *)
(* (sendRawTransaction, getSignatureStatuses, getBlockHeight at commitment *)
(* confirmed).  External: Solana is not in the repository.                 *)
(*                                                                         *)
(* A signed transaction can land until the block height it was signed for  *)
(* has passed; `left' counts down to that.  It lands in a block that may   *)
(* yet be forked away, and is then confirmed for good.  Reads are those of *)
(* one node that does not go back in time.                                 *)
(***************************************************************************)
EXTENDS Integers

CONSTANTS Tx, Life   \* Life: blocks from signing to lastValidBlockHeight

ASSUME LifeAssumption == Life \in Nat

VARIABLES tx, left

chain == <<tx, left>>

TxInit == tx = [t \in Tx |-> "new"] /\ left = [t \in Tx |-> Life]

Sign(t) ==
    /\ tx[t] = "new"
    /\ tx' = [tx EXCEPT ![t] = "signed"]
    /\ UNCHANGED left

Broadcast(t) ==
    /\ tx[t] = "signed"
    /\ tx' = [tx EXCEPT ![t] = "pending"]
    /\ UNCHANGED left

(* It gets into a block, where it succeeds or errs. *)
Land(t, outcome) ==
    /\ tx[t] = "pending" /\ left[t] >= 0
    /\ outcome \in {"landed", "erring"}
    /\ tx' = [tx EXCEPT ![t] = outcome]
    /\ UNCHANGED left

(* The block is forked away; it may land once more while there is time.    *)
ForkAway(t) ==
    /\ tx[t] \in {"landed", "erring"}
    /\ tx' = [tx EXCEPT ![t] = "pending"]
    /\ UNCHANGED left

Confirm(t) ==
    /\ tx[t] \in {"landed", "erring"}
    /\ tx' = [tx EXCEPT ![t] = IF @ = "landed" THEN "confirmed" ELSE "failed"]
    /\ UNCHANGED left

(* The confirmed height moves on; what landed in the blocks it passes is   *)
(* confirmed by then.                                                      *)
NextBlock ==
    /\ \A t \in Tx : tx[t] \in {"landed", "erring"} => left[t] > 0
    /\ left' = [t \in Tx |-> IF tx[t] # "new" /\ left[t] >= 0 THEN left[t] - 1 ELSE left[t]]
    /\ UNCHANGED tx

ChainNext ==
    \/ NextBlock
    \/ \E t \in Tx : Land(t, "landed") \/ Land(t, "erring") \/ ForkAway(t) \/ Confirm(t)

(* What a status query and the block height tell of a transaction. *)
HasStatus(t) == tx[t] \in {"landed", "erring", "confirmed", "failed"}
HasErr(t) == tx[t] \in {"erring", "failed"}
IsConfirmed(t) == tx[t] \in {"confirmed", "failed"}
Expired(t) == left[t] < 0
=============================================================================
