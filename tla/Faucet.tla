------------------------------- MODULE Faucet -------------------------------
(***************************************************************************)
(* The faucet route, demo/src/app/api/faucet/route.ts: requests that run   *)
(* side by side in one process, share its limiters, and spend from one     *)
(* account.  Every action is what runs between two awaits.                 *)
(*                                                                         *)
(* One grant costs 1 (CALL_COST); a wallet is funded, or spent what it got *)
(* (FUNDED_QUOTE apart, balances do not matter).  Bad requests that change *)
(* nothing are left out, and so is the window per IP, which is like the    *)
(* one per wallet but never rolled back.                                   *)
(***************************************************************************)
EXTENDS TxLife, SequencesExt

CONSTANTS
    Call, Wallet,
    Endpoints,          \* 1: the dedicated endpoint, 2: public devnet
    Reserve,            \* RESERVE_LAMPORTS
    GlobalMaxPerMin, MaxDaily,
    Balance             \* what the faucet starts with

ASSUME FaucetAssumption ==
    /\ Endpoints \in Nat \ {0} /\ Reserve \in Nat /\ Balance \in Nat
    /\ GlobalMaxPerMin \in Nat /\ MaxDaily \in Nat

VARIABLES
    call,        \* stage, wallet, endpoint; when it was admitted (today, recent)
    destSeen,    \* wallets inside their cooldown
    globalHits,  \* calls of the last minute, oldest first
    daySpent,
    spoilt,      \* history: a call of an earlier day was rolled back today
    balance,     \* the faucet's lamports, confirmed
    funded       \* wallets that hold the faucet's cash, confirmed

limiters == <<destSeen, globalHits, daySpent, spoilt>>
money == <<balance, funded>>
faucetVars == <<call, limiters, money>>

FaucetInit ==
    /\ call = [c \in Call |-> [stage |-> "none", wallet |-> "none", at |-> 1,
                               today |-> FALSE, recent |-> FALSE]]
    /\ destSeen = {} /\ globalHits = <<>> /\ daySpent = 0 /\ spoilt = FALSE
    /\ balance = Balance /\ funded = {}

Stages == {"check", "balance", "sign", "send", "poll", "height"}
InFlight(c) == call[c].stage \in Stages
Grant(c) == <<c, call[c].at>>

Proceeds(c, s) == call' = [call EXCEPT ![c].stage = s] /\ UNCHANGED <<limiters, money>>

---------------------------------------------------------------------------
(* Limiters *)

(* All limiters are reserved before the first await. *)
AdmitLate(c, w) ==
    /\ call[c].stage = "none"
    /\ Len(globalHits) < GlobalMaxPerMin /\ w \notin destSeen /\ daySpent + 1 <= MaxDaily
    /\ globalHits' = Append(globalHits, c)
    /\ daySpent' = daySpent + 1
    /\ call' = [call EXCEPT ![c] = [stage |-> "check", wallet |-> w, at |-> 1,
                                    today |-> TRUE, recent |-> TRUE]]
    /\ UNCHANGED <<destSeen, spoilt, money, chain>>

Admit(c, w) ==
    /\ call[c].stage = "none"
    /\ Len(globalHits) < GlobalMaxPerMin /\ w \notin destSeen /\ daySpent + 1 <= MaxDaily
    /\ destSeen' = destSeen \cup {w}
    /\ globalHits' = Append(globalHits, c)
    /\ daySpent' = daySpent + 1
    /\ call' = [call EXCEPT ![c] = [stage |-> "check", wallet |-> w, at |-> 1,
                                    today |-> TRUE, recent |-> TRUE]]
    /\ UNCHANGED <<spoilt, money, chain>>

(* The latest hit is taken back, whoever's it is. *)
WithoutHitLifo(c) == IF globalHits = <<>> THEN <<>> ELSE Front(globalHits)

(* This call's hit is taken back by identity. *)
WithoutHit(c) ==
    IF \E i \in DOMAIN globalHits : globalHits[i] = c
    THEN RemoveAt(globalHits, CHOOSE i \in DOMAIN globalHits : globalHits[i] = c)
    ELSE globalHits

(* A call that ends without having spent gives back what it reserved.  A   *)
(* new day may have set the budget to 0 in between: it stays at 0.         *)
RolledBack(c, answer) ==
    /\ call' = [call EXCEPT ![c].stage = answer]
    /\ destSeen' = destSeen \ {call[c].wallet}
    /\ globalHits' = WithoutHit(c)
    /\ daySpent' = IF daySpent > 0 THEN daySpent - 1 ELSE 0
    /\ spoilt' = (spoilt \/ ~call[c].today)
    /\ UNCHANGED money

(* Windows end: here when it is time, in the code when the next request    *)
(* looks.  A wallet's is longer than a call takes, which polls until a     *)
(* blockhash expires, twice at most; the cooldown is five minutes.         *)
CoolDown(w) ==
    /\ w \in destSeen
    /\ \A c \in Call : InFlight(c) => call[c].wallet # w
    /\ destSeen' = destSeen \ {w}
    /\ UNCHANGED <<call, globalHits, daySpent, spoilt, money, chain>>

MinuteEnds ==
    /\ globalHits # <<>>
    /\ globalHits' = Tail(globalHits)
    /\ call' = [call EXCEPT ![Head(globalHits)].recent = FALSE]
    /\ UNCHANGED <<destSeen, daySpent, spoilt, money, chain>>

DayEnds ==
    /\ \E c \in Call : call[c].today
    /\ daySpent' = 0 /\ spoilt' = FALSE
    /\ call' = [c \in Call |-> [call[c] EXCEPT !.today = FALSE]]
    /\ UNCHANGED <<destSeen, globalHits, money, chain>>

---------------------------------------------------------------------------
(* One attempt *)

(* It throws: the next endpoint, or the end. *)
Throws(c) ==
    IF call[c].at < Endpoints
    THEN /\ call' = [call EXCEPT ![c].stage = "check", ![c].at = @ + 1]
         /\ UNCHANGED <<limiters, money>>
    ELSE RolledBack(c, "unavailable")

(* The no-spend branch rolls back and goes on as if it had thrown. *)
FundedCheckThrows(c) ==
    /\ call[c].stage = "check"
    /\ \/ /\ call[c].wallet \in funded
          /\ call' = [call EXCEPT ![c].stage = "balance"]
          /\ daySpent' = IF daySpent > 0 THEN daySpent - 1 ELSE 0
          /\ UNCHANGED <<destSeen, globalHits, spoilt, money>>
       \/ Proceeds(c, "balance")
    /\ UNCHANGED chain

(* Skip a wallet that holds cash; a failed read of it counts as none. *)
FundedCheck(c) ==
    /\ call[c].stage = "check"
    /\ \/ call[c].wallet \in funded /\ RolledBack(c, "alreadyFunded")
       \/ Proceeds(c, "balance")
    /\ UNCHANGED chain

BalanceCheck(c) ==
    /\ call[c].stage = "balance"
    /\ \/ balance < Reserve + 1 /\ RolledBack(c, "outOfFunds")
       \/ balance >= Reserve + 1 /\ Proceeds(c, "sign")
    /\ UNCHANGED chain

SignGrant(c) == call[c].stage = "sign" /\ Sign(Grant(c)) /\ Proceeds(c, "send")

SendGrant(c) == call[c].stage = "send" /\ Broadcast(Grant(c)) /\ Proceeds(c, "poll")

(* No preflight here, but the send's answer may be lost. *)
SendGrantThrows(c) ==
    /\ call[c].stage = "send"
    /\ Broadcast(Grant(c)) \/ UNCHANGED chain
    /\ Throws(c)

PollGrant(c) ==
    /\ call[c].stage = "poll"
    /\ \/ HasErr(Grant(c)) /\ Throws(c)
       \/ ~HasErr(Grant(c)) /\ IsConfirmed(Grant(c)) /\ Proceeds(c, "funded")
       \/ ~HasErr(Grant(c)) /\ ~IsConfirmed(Grant(c)) /\ Proceeds(c, "height")
    /\ UNCHANGED chain

GrantHeight(c) ==
    /\ call[c].stage = "height"
    /\ IF Expired(Grant(c)) THEN Throws(c) ELSE Proceeds(c, "poll")
    /\ UNCHANGED chain

(* A read fails for good, or the key cannot be read. *)
ReadGrantThrows(c) ==
    /\ call[c].stage \in {"check", "balance", "sign", "poll", "height"}
    /\ Throws(c)
    /\ UNCHANGED chain

---------------------------------------------------------------------------
(* The chain pays, in the order of its blocks, while there is money. *)
Paying == {t \in Tx : tx[t] = "landed"}

GrantLands(t) ==
    /\ Land(t, IF balance > Cardinality(Paying) THEN "landed" ELSE "erring")
    /\ UNCHANGED faucetVars

GrantConfirmed(t) ==
    /\ Confirm(t)
    /\ IF tx[t] = "landed"
       THEN balance' = balance - 1 /\ funded' = funded \cup {call[t[1]].wallet}
       ELSE UNCHANGED money
    /\ UNCHANGED <<call, limiters>>

(* A trader spends the cash and may come back. *)
SpendCash(w) ==
    /\ w \in funded
    /\ funded' = funded \ {w}
    /\ UNCHANGED <<call, limiters, balance, chain>>

FaucetNext ==
    \/ \E c \in Call, w \in Wallet : Admit(c, w)
    \/ \E c \in Call :
         \/ FundedCheck(c) \/ BalanceCheck(c) \/ SignGrant(c) \/ SendGrant(c) \/ SendGrantThrows(c)
         \/ PollGrant(c) \/ GrantHeight(c) \/ ReadGrantThrows(c)
    \/ \E w \in Wallet : CoolDown(w) \/ SpendCash(w)
    \/ MinuteEnds \/ DayEnds
    \/ NextBlock /\ UNCHANGED faucetVars
    \/ \E t \in Tx : GrantLands(t) \/ GrantConfirmed(t)
    \/ \E t \in Tx : ForkAway(t) /\ UNCHANGED faucetVars

FaucetSpec == TxInit /\ FaucetInit /\ [][FaucetNext]_<<chain, faucetVars>>

---------------------------------------------------------------------------
(* No two calls work for one wallet at a time: limits are checked and      *)
(* reserved before anything is awaited, and a rollback takes back its own  *)
(* call's mark only (route.ts:97-117).                                     *)
OneCallPerWallet ==
    \A c, d \in Call : InFlight(c) /\ InFlight(d) /\ call[c].wallet = call[d].wallet => c = d

(* A call of the last minute that is under way or has paid is counted      *)
(* against the global cap, whichever other calls roll back meanwhile       *)
(* (route.ts:104-117: "by identity (not LIFO, which could pop a concurrent *)
(* request's slot)").                                                      *)
PaidCallsAreCounted ==
    \A c \in Call : call[c].recent /\ (InFlight(c) \/ call[c].stage = "funded")
                        => c \in ToSet(globalHits)

(* The daily budget counts every call of the day that is under way or was  *)
(* seen to pay exactly once, over both attempts and all ways out of them,  *)
(* unless a call carried over from the day before was rolled back          *)
(* (route.ts:98, 102, 111, 116, 134, 141, 188).                            *)
BudgetIsExact ==
    ~spoilt => daySpent = Cardinality({c \in Call :
        call[c].today /\ (InFlight(c) \/ call[c].stage = "funded")})
=============================================================================
