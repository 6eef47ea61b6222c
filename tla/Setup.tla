-------------------------------- MODULE Setup --------------------------------
(***************************************************************************)
(* The keys of the venue: demo/scripts/setup-faucet-venue.ts and its older *)
(* form setup-faucet.ts, which make a key, fund it and hand it the right   *)
(* to mint, and setup-mm-makers.ts, which makes the market maker's         *)
(* identities and tops them up.  Each is "safe to re-run": it keeps its    *)
(* keys in a file and reads what is there before it sends.                 *)
(*                                                                         *)
(* A run dies at the first error, which its transaction may well survive.  *)
(* Amounts are counted in parts of the target, the same for SOL, cash and  *)
(* shares; the shares of one listing stand for all.                        *)
(***************************************************************************)
EXTENDS Integers, SequencesExt

CONSTANTS
    Count,      \* identities of the maker, MM_COUNT
    Target,     \* what each is topped up to
    Slips,      \* bound: runs that die
    Spends      \* bound: what the holders spend

ASSUME TargetAssumption == Target \in Nat \ {0} /\ Count \in Nat \ {0}

VARIABLES
    faucetFile, makerFile,  \* deploy/: the faucet's key or 0, the makers' keys
    generated,      \* keys generated so far; a key is its number
    mintAuthority,  \* mint -> who may mint: the deployer or a key
    holds,          \* key -> kind -> amount
    script,         \* the run under way: what it still does, and what it sends
    afloat,         \* dead runs whose last transaction may yet land: [run, tx]
    slips, spends

setupFiles == <<faucetFile, makerFile, generated>>
setupChain == <<mintAuthority, holds>>
setupVars == <<setupFiles, setupChain, script, afloat, slips, spends>>

Deployer == 0
NoKey == 0
Kinds == {"sol", "cash", "shares"}
MaxKeys == Count + 1

(* The venue's mints, and the two of the single market. *)
Mints == {"cash", "shares", "base1", "quote1"}

Idle == [name |-> "idle", todo |-> <<>>, amount |-> 0]

SetupInit ==
    /\ faucetFile = NoKey /\ makerFile = <<>> /\ generated = 0
    /\ mintAuthority = [m \in Mints |-> Deployer]
    /\ holds = [k \in 1..MaxKeys |-> [kind \in Kinds |-> 0]]
    /\ script = Idle /\ afloat = {} /\ slips = 0 /\ spends = 0

---------------------------------------------------------------------------
(* A run starts by loading its keys, or by making them and writing them    *)
(* down, and knows what it will look at, item by item.                     *)

Item(kind, key) == [kind |-> kind, mint |-> "", key |-> key]
RightTo(mint, key) == [kind |-> "right", mint |-> mint, key |-> key]

FaucetKey == IF faucetFile = NoKey THEN generated + 1 ELSE faucetFile

(* The key written down once the work is done. *)
KeepsKeyLater(work) ==
    /\ script = Idle
    /\ script' = [name |-> "faucet", todo |-> work, amount |-> 0]
    /\ generated' = IF faucetFile = NoKey THEN generated + 1 ELSE generated
    /\ UNCHANGED <<faucetFile, makerFile, setupChain, afloat, slips, spends>>

KeepsKey(work) ==
    /\ script = Idle
    /\ script' = [name |-> "faucet", todo |-> work, amount |-> 0]
    /\ faucetFile' = FaucetKey
    /\ generated' = IF faucetFile = NoKey THEN generated + 1 ELSE generated
    /\ UNCHANGED <<makerFile, setupChain, afloat, slips, spends>>

FaucetVenue == KeepsKey(<<Item("sol", FaucetKey), RightTo("cash", FaucetKey)>>)
FaucetSingle ==
    KeepsKey(<<Item("sol", FaucetKey), RightTo("base1", FaucetKey), RightTo("quote1", FaucetKey)>>)

(* The makers' script needs the faucet's key: it mints the cash.  Maker by *)
(* maker it looks at SOL, cash and shares.                                 *)
WorkFor(makers) ==
    [j \in 1..3 * Len(makers) |->
        Item(<<"sol", "cash", "shares">>[((j - 1) % 3) + 1], makers[(j - 1) \div 3 + 1])]

SetupMakers ==
    /\ script = Idle /\ faucetFile # NoKey
    /\ LET new == [i \in 1..(Count - Len(makerFile)) |-> generated + i]
           all == makerFile \o new
       IN  /\ makerFile' = all
           /\ generated' = generated + Len(new)
           /\ script' = [name |-> "makers", todo |-> WorkFor(all), amount |-> 0]
    /\ UNCHANGED <<faucetFile, setupChain, afloat, slips, spends>>

---------------------------------------------------------------------------
Todo == script.todo # <<>>
Now == Head(script.todo)

(* What is wanting by what the chain says, or all of it. *)
WantingInFull(item) == IF holds[item.key][item.kind] < Target THEN Target ELSE 0
Wanting(item) == IF holds[item.key][item.kind] < Target THEN Target - holds[item.key][item.kind] ELSE 0

Needed(item) ==
    IF item.kind \in Kinds THEN Wanting(item)
    ELSE IF mintAuthority[item.mint] = item.key THEN 0 ELSE 1

(* It reads; what is there already is passed over. *)
Look ==
    /\ Todo /\ script.amount = 0
    /\ script' = IF Needed(Now) = 0 THEN [script EXCEPT !.todo = Tail(@)]
                 ELSE [script EXCEPT !.amount = Needed(Now)]
    /\ UNCHANGED <<setupFiles, setupChain, afloat, slips, spends>>

(* The cash is minted by the faucet's key, shares by the deployer, who     *)
(* also gives the right to mint away.                                      *)
Takes(tx) ==
    CASE tx.kind = "cash"   -> mintAuthority["cash"] = faucetFile
      [] tx.kind = "shares" -> mintAuthority["shares"] = Deployer
      [] tx.kind = "sol"    -> TRUE
      [] OTHER              -> mintAuthority[tx.mint] = Deployer

Puts(tx) ==
    IF tx.kind \in Kinds
    THEN holds' = [holds EXCEPT ![tx.key][tx.kind] = @ + tx.amount] /\ UNCHANGED mintAuthority
    ELSE mintAuthority' = [mintAuthority EXCEPT ![tx.mint] = tx.key] /\ UNCHANGED holds

Sent == [kind |-> Now.kind, mint |-> Now.mint, key |-> Now.key, amount |-> script.amount]

Act ==
    /\ Todo /\ script.amount > 0
    /\ IF Takes(Sent)
       THEN Puts(Sent) /\ script' = [script EXCEPT !.todo = Tail(@), !.amount = 0]
       ELSE script' = Idle /\ UNCHANGED setupChain
    /\ UNCHANGED <<setupFiles, afloat, slips, spends>>

Ends ==
    /\ script # Idle /\ ~Todo
    /\ script' = Idle
    /\ UNCHANGED <<setupFiles, setupChain, afloat, slips, spends>>

(* The run dies; what it had sent landed, is lost or comes later.  Two     *)
(* runs that sent the same have sent it twice: each has its own blockhash. *)
Dies ==
    /\ Todo /\ slips < Slips /\ slips' = slips + 1
    /\ script' = Idle
    /\ \/ UNCHANGED <<setupChain, afloat>>
       \/ script.amount > 0 /\ Takes(Sent) /\ Puts(Sent) /\ UNCHANGED afloat
       \/ script.amount > 0 /\ afloat' = afloat \cup {[run |-> slips', tx |-> Sent]} /\ UNCHANGED setupChain
    /\ UNCHANGED <<setupFiles, spends>>

Surfaces(last) ==
    /\ afloat' = afloat \ {last}
    /\ IF Takes(last.tx) THEN Puts(last.tx) ELSE UNCHANGED setupChain
    /\ UNCHANGED <<setupFiles, script, slips, spends>>

(* The holders spend, though not while a script tops them up. *)
Spend ==
    /\ script = Idle /\ spends < Spends /\ spends' = spends + 1
    /\ \E k \in DOMAIN holds, kind \in Kinds :
        holds[k][kind] > 0 /\ holds' = [holds EXCEPT ![k][kind] = @ - 1]
    /\ UNCHANGED <<setupFiles, mintAuthority, script, afloat, slips>>

SetupNext ==
    \/ FaucetVenue \/ FaucetSingle \/ SetupMakers
    \/ Look \/ Act \/ Ends \/ Dies \/ Spend
    \/ \E last \in afloat : Surfaces(last)

SetupSpec == SetupInit /\ [][SetupNext]_setupVars

---------------------------------------------------------------------------
(* Properties *)

(* No run that dies takes a key with it that anything depends on: whatever *)
(* key holds SOL, cash, shares or the right to mint is in a file           *)
(* (setup-faucet-venue.ts:53, setup-mm-makers.ts:42-44).                   *)
NoKeyIsLost ==
    \A k \in DOMAIN holds :
        (\E m \in Mints : mintAuthority[m] = k) \/ (\E kind \in Kinds : holds[k][kind] > 0)
            => k = faucetFile \/ k \in Range(makerFile)

(* "safe to re-run": what runs that died have sent, seen or unseen, makes  *)
(* nobody richer than the target by more than the target for each of them. *)
RerunsAreSafe ==
    \A k \in DOMAIN holds, kind \in Kinds : holds[k][kind] <= Target * (1 + slips)
=============================================================================
