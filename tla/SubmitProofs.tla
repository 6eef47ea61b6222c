---------------------------- MODULE SubmitProofs ----------------------------
(***************************************************************************)
(* Proofs about what submits transactions: the scripts that bring a venue  *)
(* up, fill and keep it, Bringup, Setup and Maintenance, and the two       *)
(* senders of the web app, Faucet and TradeActions.                        *)
(***************************************************************************)
EXTENDS Bringup, Setup, Maintenance, TradeActions, Faucet, FiniteSetTheorems, SequenceTheorems, TLAPS

(***************************************************************************)
(* Setup.  For any number of makers, any target and any number of runs     *)
(* that die anywhere: no key that matters is lost, and nobody is paid more *)
(* than the target for each run that died and the target itself.           *)
(***************************************************************************)

Key == 1..MaxKeys
AnItem == [kind : Kinds \cup {"right"}, mint : Mints \cup {""}, key : Key]
ATx == [kind : Kinds \cup {"right"}, mint : Mints \cup {""}, key : Key, amount : 0..Target]
ALast == [run : Nat, tx : ATx]

(* A key is a number handed out once: the faucet's and the makers'. *)
FilesOK ==
    /\ faucetFile \in Nat /\ faucetFile <= MaxKeys
    /\ makerFile \in Seq(Key) /\ Len(makerFile) <= Count
    /\ generated = Len(makerFile) + (IF faucetFile = NoKey THEN 0 ELSE 1)

MintsOK ==
    /\ mintAuthority \in [Mints -> Nat]
    /\ holds \in [Key -> [Kinds -> Nat]]

ScriptOK ==
    /\ script = [name |-> script.name, todo |-> script.todo, amount |-> script.amount]
    /\ script.todo \in Seq(AnItem)
    /\ script.amount \in Nat /\ script.amount <= Target

(* What is afloat bears the number of the run that sent it, one each. *)
AfloatOK == afloat \subseteq ALast /\ IsFiniteSet(afloat) /\ \A last \in afloat : last.run <= slips

SetupTypeOK == FilesOK /\ MintsOK /\ ScriptOK /\ AfloatOK /\ slips \in Nat

Filed(k) == (k # NoKey /\ k = faucetFile) \/ k \in Range(makerFile)

(* Whatever a run means to do, or has sent, is for a key in a file. *)
WorkIsForFiledKeys ==
    /\ \A i \in DOMAIN script.todo : Filed(script.todo[i].key)
    /\ \A last \in afloat : Filed(last.tx.key)

(* What there is, and what the run is about to send, once what is afloat   *)
(* is set aside at a target each.                                          *)
Allowed == Target * (1 + slips - Cardinality(afloat))

AllowanceHolds ==
    /\ Cardinality(afloat) <= slips
    /\ \A k \in Key, kind \in Kinds : holds[k][kind] <= Allowed
    /\ Todo /\ script.amount > 0 /\ Now.kind \in Kinds =>
          holds[Now.key][Now.kind] + script.amount <= Allowed

SetupInv == SetupTypeOK /\ WorkIsForFiledKeys /\ NoKeyIsLost /\ AllowanceHolds

---------------------------------------------------------------------------
(* Facts about the work of a run *)

LEMMA NowIsAnItem ==
    ASSUME SetupTypeOK, Todo
    PROVE  /\ Now \in AnItem /\ Now = script.todo[1] /\ 1 \in DOMAIN script.todo
           /\ Tail(script.todo) \in Seq(AnItem)
           /\ \A i \in DOMAIN Tail(script.todo) :
                 i + 1 \in DOMAIN script.todo /\ Tail(script.todo)[i] = script.todo[i + 1]
BY DEF SetupTypeOK, ScriptOK, Todo, Now

LEMMA TxIsTyped ==
    ASSUME NEW sent \in ATx
    PROVE  sent.key \in Key /\ sent.key \in Nat /\ sent.amount \in Nat /\ sent.amount <= Target
<1>1. sent.key \in Key
  BY DEF ATx
<1>2. sent.amount \in 0..Target
  BY DEF ATx
<1>3. Key \subseteq Nat
  BY TargetAssumption DEF Key, MaxKeys
<1>4. \A n \in 0..Target : n \in Nat /\ n <= Target
  BY TargetAssumption
<1> QED BY <1>1, <1>2, <1>3, <1>4, Zenon

LEMMA FiledInRange == ASSUME SetupTypeOK, NEW k, Filed(k) PROVE k \in Key
BY TargetAssumption DEF SetupTypeOK, FilesOK, Filed, Range, MaxKeys, Key, NoKey

(* The card of what is afloat, and the allowance with it. *)
LEMMA AllowedIsNat ==
    ASSUME SetupTypeOK, Cardinality(afloat) <= slips
    PROVE  /\ Cardinality(afloat) \in Nat /\ Allowed \in Nat /\ Allowed >= Target
<1>1. Cardinality(afloat) \in Nat
  BY FS_CardinalityType DEF SetupTypeOK, AfloatOK
<1>2. PICK n \in Nat : n = slips - Cardinality(afloat)
  BY <1>1 DEF SetupTypeOK
<1>3. Allowed = Target * (1 + n)
  BY <1>1, <1>2 DEF Allowed, SetupTypeOK
<1>4. Target * (1 + n) = Target + Target * n /\ Target * n \in Nat
  BY TargetAssumption
<1> QED BY <1>1, <1>3, <1>4, TargetAssumption

LEMMA WorkIsTyped ==
    ASSUME NEW makers \in Seq(Key)
    PROVE  /\ WorkFor(makers) \in Seq(AnItem)
           /\ \A j \in DOMAIN WorkFor(makers) : WorkFor(makers)[j].key \in Range(makers)
<1>1. Len(makers) \in Nat /\ 3 * Len(makers) \in Nat
  OBVIOUS
<1>2. \A j \in 1..3 * Len(makers) :
          ((j - 1) % 3) + 1 \in 1..3 /\ (j - 1) \div 3 + 1 \in 1..Len(makers)
  BY <1>1
<1>3. \A i \in 1..3 : <<"sol", "cash", "shares">>[i] \in Kinds
  BY DEF Kinds
<1>4. \A i \in 1..Len(makers) : makers[i] \in Key /\ makers[i] \in Range(makers)
  BY DEF Range
<1>5. \A j \in 1..3 * Len(makers) :
          WorkFor(makers)[j] \in AnItem /\ WorkFor(makers)[j].key \in Range(makers)
  BY <1>2, <1>3, <1>4 DEF WorkFor, Item, AnItem
<1>6. WorkFor(makers) = [j \in 1..3 * Len(makers) |-> WorkFor(makers)[j]]
  BY DEF WorkFor
<1> QED BY <1>1, <1>5, <1>6

---------------------------------------------------------------------------
(* A transaction that lands, of a filed key, keeps everything but the      *)
(* allowance, and adds no more than its amount.                            *)
LEMMA PutsKeeps ==
    ASSUME SetupTypeOK, NoKeyIsLost, NEW sent \in ATx, Filed(sent.key), Puts(sent), UNCHANGED setupFiles
    PROVE  /\ mintAuthority' \in [Mints -> Nat]
           /\ holds' \in [Key -> [Kinds -> Nat]]
           /\ NoKeyIsLost'
           /\ \A k \in Key, kind \in Kinds :
                 \/ holds'[k][kind] = holds[k][kind]
                 \/ k = sent.key /\ kind = sent.kind /\ holds'[k][kind] = holds[k][kind] + sent.amount
<1>1. CASE sent.kind \in Kinds
  <2>1. mintAuthority' = mintAuthority /\ holds' = [holds EXCEPT ![sent.key][sent.kind] = @ + sent.amount]
    BY <1>1 DEF Puts
  <2>2. sent.key \in Key /\ sent.amount \in Nat
    BY TxIsTyped
  <2>3. \A k \in Key : k # sent.key => holds'[k] = holds[k]
    BY <2>1, <2>2 DEF SetupTypeOK
  <2>4. \A kind \in Kinds : holds'[sent.key][kind] =
            IF kind = sent.kind THEN holds[sent.key][kind] + sent.amount ELSE holds[sent.key][kind]
    BY <2>1, <2>2 DEF SetupTypeOK, MintsOK
  <2>5. holds' \in [Key -> [Kinds -> Nat]]
    BY <1>1, <2>1, <2>2 DEF SetupTypeOK, MintsOK
  <2>6. NoKeyIsLost'
    BY <2>1, <2>2, <2>3 DEF NoKeyIsLost, Filed, setupFiles, SetupTypeOK
  <2> QED BY <2>1, <2>2, <2>3, <2>4, <2>5, <2>6 DEF SetupTypeOK, MintsOK
<1>2. CASE sent.kind \notin Kinds
  <2>1. holds' = holds /\ mintAuthority' = [mintAuthority EXCEPT ![sent.mint] = sent.key]
    BY <1>2 DEF Puts
  <2>2. sent.key \in Nat /\ sent.key \in Key
    BY TxIsTyped
  <2>3. mintAuthority' \in [Mints -> Nat]
    BY <2>1, <2>2 DEF SetupTypeOK, MintsOK
  <2>4. NoKeyIsLost'
    BY <2>1, <2>2 DEF NoKeyIsLost, Filed, setupFiles, SetupTypeOK
  <2> QED BY <2>1, <2>3, <2>4 DEF SetupTypeOK, MintsOK
<1> QED BY <1>1, <1>2

(* What is pending, as a transaction. *)
LEMMA SentIsATx ==
    ASSUME SetupTypeOK, WorkIsForFiledKeys, Todo
    PROVE  Sent \in ATx /\ Filed(Sent.key) /\ Sent.kind = Now.kind /\ Sent.key = Now.key
           /\ Sent.amount = script.amount
<1>1. Now \in AnItem /\ Filed(Now.key)
  BY NowIsAnItem DEF WorkIsForFiledKeys
<1>2. script.amount \in 0..Target
  BY DEF SetupTypeOK, ScriptOK
<1> QED BY <1>1, <1>2 DEF Sent, ATx, AnItem

(* The allowance after a death, or after a transaction of a dead run has   *)
(* landed: a target more, or, where both go together, the same.            *)
LEMMA AllowedGrows ==
    ASSUME SetupTypeOK, Cardinality(afloat) \in Nat, Cardinality(afloat)' \in Nat, slips' \in Nat,
           slips' - Cardinality(afloat)' = slips - Cardinality(afloat) + 1
    PROVE  Allowed' = Allowed + Target
<1>1. \A n \in Int : Target * (1 + (n + 1)) = Target * (1 + n) + Target
  BY TargetAssumption
<1> DEFINE n == slips - Cardinality(afloat)
<1>2. n \in Int /\ 1 + slips' - Cardinality(afloat)' = 1 + (n + 1) /\ 1 + slips - Cardinality(afloat) = 1 + n
  BY DEF SetupTypeOK
<1> QED BY <1>1, <1>2 DEF Allowed

LEMMA IdleIsTyped ==
    /\ Idle = [name |-> "idle", todo |-> <<>>, amount |-> 0]
    /\ Idle.todo = <<>> /\ Idle.todo \in Seq(AnItem) /\ Idle.amount = 0
    /\ (script' = Idle => ScriptOK' /\ ~Todo')
<1>1. Idle.todo = <<>> /\ Idle.amount = 0 /\ <<>> \in Seq(AnItem)
  BY DEF Idle
<1>2. ASSUME script' = Idle PROVE ScriptOK' /\ ~Todo'
  BY <1>1, <1>2, TargetAssumption DEF ScriptOK, Todo, Idle
<1> QED BY <1>1, <1>2 DEF Idle

---------------------------------------------------------------------------
(* The inductive invariant, action by action *)

LEMMA InitSetupInv == SetupInit => SetupInv
<1> SUFFICES ASSUME SetupInit PROVE SetupInv
  OBVIOUS
<1>1. SetupTypeOK
  BY FS_EmptySet, TargetAssumption DEF SetupInit, SetupTypeOK, FilesOK, MintsOK, ScriptOK,
                                       AfloatOK, Idle, NoKey, Deployer, MaxKeys, Key
<1>2. WorkIsForFiledKeys
  BY DEF SetupInit, WorkIsForFiledKeys, Idle
<1>3. NoKeyIsLost
  BY TargetAssumption DEF SetupInit, NoKeyIsLost, Deployer, MaxKeys
<1>4. AllowanceHolds
  <2>1. Cardinality(afloat) = 0 /\ slips = 0
    BY FS_EmptySet DEF SetupInit
  <2>2. Allowed \in Nat
    BY <1>1, <2>1, AllowedIsNat
  <2> QED BY <2>1, <2>2 DEF SetupInit, AllowanceHolds, Todo, Idle, Key
<1> QED BY <1>1, <1>2, <1>3, <1>4 DEF SetupInv

(* A run of the faucet's scripts: its key is in the file before anything   *)
(* is sent.                                                                *)
LEMMA KeepsKeyKeeps ==
    ASSUME SetupInv, NEW work, KeepsKey(work),
           work \in Seq(AnItem), \A i \in DOMAIN work : work[i].key = FaucetKey
    PROVE  SetupInv'
<1>1. Len(makerFile) \in Nat /\ Len(makerFile) <= Count
  BY DEF SetupInv, SetupTypeOK, FilesOK
<1>2. FaucetKey \in Key /\ FaucetKey # NoKey /\ generated \in Nat
  BY <1>1, TargetAssumption DEF SetupInv, SetupTypeOK, FilesOK, FaucetKey, Key, MaxKeys, NoKey
<1>3. faucetFile' = FaucetKey /\ (faucetFile # NoKey => faucetFile' = faucetFile)
  BY DEF KeepsKey, FaucetKey
<1>4. SetupTypeOK'
  BY <1>1, <1>2, <1>3, TargetAssumption DEF SetupInv, SetupTypeOK, FilesOK, MintsOK, ScriptOK,
                                            AfloatOK, KeepsKey, FaucetKey, setupChain, Key,
                                            MaxKeys, NoKey
<1>5. \A k : Filed(k) => Filed(k)'
  BY <1>3 DEF Filed, KeepsKey
<1>6. WorkIsForFiledKeys'
  BY <1>2, <1>3, <1>5 DEF SetupInv, WorkIsForFiledKeys, KeepsKey, Filed
<1>7. NoKeyIsLost'
  <2>1. UNCHANGED <<mintAuthority, holds, makerFile>> /\ DOMAIN holds = Key
    BY DEF SetupInv, SetupTypeOK, MintsOK, KeepsKey, setupChain
  <2>2. \A k \in Key : k # NoKey
    BY TargetAssumption DEF Key, NoKey
  <2> QED BY <1>3, <2>1, <2>2 DEF SetupInv, NoKeyIsLost
<1>8. AllowanceHolds'
  BY DEF SetupInv, AllowanceHolds, Allowed, KeepsKey, setupChain, Todo, Now
<1> QED BY <1>4, <1>6, <1>7, <1>8 DEF SetupInv

LEMMA FaucetRunsKeep == ASSUME SetupInv, FaucetVenue \/ FaucetSingle PROVE SetupInv'
<1>1. Len(makerFile) \in Nat /\ Len(makerFile) <= Count
  BY DEF SetupInv, SetupTypeOK, FilesOK
<1>2. FaucetKey \in Key
  BY <1>1, TargetAssumption DEF SetupInv, SetupTypeOK, FilesOK, FaucetKey, Key, MaxKeys, NoKey
<1>3. Item("sol", FaucetKey) \in AnItem /\ Item("sol", FaucetKey).key = FaucetKey
  BY <1>2 DEF Item, AnItem, Kinds
<1>4. \A m \in Mints : RightTo(m, FaucetKey) \in AnItem /\ RightTo(m, FaucetKey).key = FaucetKey
  BY <1>2 DEF RightTo, AnItem
<1>5. {"cash", "base1", "quote1"} \subseteq Mints
  BY DEF Mints
<1>6. CASE FaucetVenue
  <2> DEFINE work == <<Item("sol", FaucetKey), RightTo("cash", FaucetKey)>>
  <2>1. DOMAIN work = 1..2 /\ work[1] = Item("sol", FaucetKey) /\ work[2] = RightTo("cash", FaucetKey)
    OBVIOUS
  <2>2. \A i \in 1..2 : i = 1 \/ i = 2
    OBVIOUS
  <2>3. work \in Seq(AnItem)
    BY <1>3, <1>4, <1>5
  <2>4. \A i \in DOMAIN work : work[i].key = FaucetKey
    BY <1>3, <1>4, <1>5, <2>1, <2>2, Zenon
  <2>5. KeepsKey(work)
    BY <1>6 DEF FaucetVenue
  <2> HIDE DEF work
  <2> QED BY <2>3, <2>4, <2>5, KeepsKeyKeeps
<1>7. CASE FaucetSingle
  <2> DEFINE work == <<Item("sol", FaucetKey), RightTo("base1", FaucetKey), RightTo("quote1", FaucetKey)>>
  <2>1. /\ DOMAIN work = 1..3 /\ work[1] = Item("sol", FaucetKey)
        /\ work[2] = RightTo("base1", FaucetKey) /\ work[3] = RightTo("quote1", FaucetKey)
    OBVIOUS
  <2>2. \A i \in 1..3 : i = 1 \/ i = 2 \/ i = 3
    OBVIOUS
  <2>3. work \in Seq(AnItem)
    BY <1>3, <1>4, <1>5
  <2>4. \A i \in DOMAIN work : work[i].key = FaucetKey
    BY <1>3, <1>4, <1>5, <2>1, <2>2, Zenon
  <2>5. KeepsKey(work)
    BY <1>7 DEF FaucetSingle
  <2> HIDE DEF work
  <2> QED BY <2>3, <2>4, <2>5, KeepsKeyKeeps
<1> QED BY <1>6, <1>7

LEMMA SetupMakersKeeps == ASSUME SetupInv, SetupMakers PROVE SetupInv'
<1> DEFINE missing == Count - Len(makerFile)
           new == [i \in 1..missing |-> generated + i]
           all == makerFile \o new
<1>1. /\ Len(makerFile) \in Nat /\ missing \in Nat
      /\ generated = Len(makerFile) + 1 /\ faucetFile # NoKey /\ Count \in Nat
  BY TargetAssumption DEF SetupInv, SetupTypeOK, FilesOK, SetupMakers
<1>2. new \in Seq(Key) /\ Len(new) = missing
  BY <1>1 DEF Key, MaxKeys
<1>3. all \in Seq(Key) /\ Len(all) = Count
  BY <1>1, <1>2 DEF SetupInv, SetupTypeOK, FilesOK, ScriptOK
<1>4. /\ makerFile' = all /\ generated' = generated + missing
      /\ script' = [name |-> "makers", todo |-> WorkFor(all), amount |-> 0]
  BY <1>2 DEF SetupMakers
<1>5. \A k : Filed(k) => Filed(k)'
  <2>1. \A i \in DOMAIN makerFile : i \in DOMAIN all /\ all[i] = makerFile[i]
    BY <1>1, <1>2 DEF SetupInv, SetupTypeOK
  <2> QED BY <1>4, <2>1 DEF Filed, Range, SetupMakers
<1>6. SetupTypeOK'
  <2>1. UNCHANGED <<faucetFile, mintAuthority, holds, afloat, slips>>
    BY DEF SetupMakers, setupChain
  <2>2. WorkFor(all) \in Seq(AnItem)
    BY <1>3, WorkIsTyped
  <2>3. makerFile' \in Seq(Key) /\ Len(makerFile') = Count /\ generated' = Count + 1
    BY <1>1, <1>3, <1>4
  <2> HIDE DEF all
  <2>4. FilesOK'
    BY <1>1, <2>1, <2>3 DEF SetupInv, SetupTypeOK, FilesOK
  <2>5. ScriptOK'
    BY <1>4, <2>2, TargetAssumption DEF ScriptOK
  <2> QED BY <2>1, <2>4, <2>5 DEF SetupInv, SetupTypeOK, MintsOK, AfloatOK
<1>7. WorkIsForFiledKeys'
  <2>1. \A j \in DOMAIN WorkFor(all) : WorkFor(all)[j].key \in Range(all)
    BY <1>3, WorkIsTyped
  <2> QED BY <1>4, <1>5, <2>1 DEF SetupInv, WorkIsForFiledKeys, SetupMakers, Filed
<1>8. NoKeyIsLost'
  <2>1. \A k \in DOMAIN holds : k = faucetFile \/ k \in Range(makerFile) => k = faucetFile' \/ k \in Range(makerFile')
    BY <1>5, TargetAssumption DEF Filed, SetupInv, SetupTypeOK, FilesOK, Key, MaxKeys, NoKey
  <2> QED BY <2>1 DEF SetupInv, NoKeyIsLost, SetupMakers, setupChain
<1>9. AllowanceHolds'
  BY <1>4 DEF SetupInv, AllowanceHolds, Allowed, SetupMakers, setupChain, Todo, Now
<1> QED BY <1>6, <1>7, <1>8, <1>9 DEF SetupInv

(* What is wanting makes up the target, and the target is allowed. *)
LEMMA LookKeeps == ASSUME SetupInv, Look PROVE SetupInv'
<1>1. Now \in AnItem /\ Tail(script.todo) \in Seq(AnItem) /\ script.todo \in Seq(AnItem)
  BY NowIsAnItem DEF SetupInv, Look, SetupTypeOK
<1>2. Cardinality(afloat) \in Nat /\ Allowed \in Nat /\ Allowed >= Target
  BY AllowedIsNat DEF SetupInv, AllowanceHolds
<1>3. Now.kind \in Kinds => holds[Now.key][Now.kind] \in Nat
  BY <1>1 DEF SetupInv, SetupTypeOK, MintsOK, AnItem
<1>4. /\ Needed(Now) \in 0..Target
      /\ Now.kind \in Kinds /\ Needed(Now) > 0 => holds[Now.key][Now.kind] + Needed(Now) = Target
  BY <1>3, TargetAssumption DEF Needed, Wanting
<1>5. CASE Needed(Now) = 0
  <2>1. script' = [script EXCEPT !.todo = Tail(@)] /\ script'.amount = 0
    BY <1>5 DEF Look, SetupInv, SetupTypeOK
  <2>2. SetupTypeOK'
    BY <1>1, <2>1 DEF SetupInv, SetupTypeOK, FilesOK, MintsOK, ScriptOK, AfloatOK, Look, setupFiles, setupChain
  <2>3. WorkIsForFiledKeys'
    BY <2>1, NowIsAnItem DEF SetupInv, WorkIsForFiledKeys, SetupTypeOK, Look, setupFiles, Filed
  <2> QED BY <2>1, <2>2, <2>3 DEF SetupInv, NoKeyIsLost, AllowanceHolds, Allowed, Look, setupFiles, setupChain
<1>6. CASE Needed(Now) # 0
  <2>1. script' = [script EXCEPT !.amount = Needed(Now)] /\ script'.todo = script.todo
    BY <1>6 DEF Look, SetupInv, SetupTypeOK
  <2>2. SetupTypeOK'
    <3>1. script'.amount \in Nat /\ script'.amount <= Target
      BY <1>4, <2>1, TargetAssumption DEF SetupInv, SetupTypeOK
    <3>2. ScriptOK'
      BY <2>1, <3>1 DEF SetupInv, SetupTypeOK, ScriptOK
    <3> QED BY <3>2 DEF SetupInv, SetupTypeOK, FilesOK, MintsOK, AfloatOK, Look, setupFiles, setupChain
  <2>3. WorkIsForFiledKeys'
    BY <2>1 DEF SetupInv, WorkIsForFiledKeys, Look, setupFiles, Filed
  <2>4. script'.amount = Needed(Now) /\ Now' = Now
    BY <2>1 DEF SetupInv, SetupTypeOK, Now
  <2>5. AllowanceHolds'
    BY <1>2, <1>4, <2>4 DEF SetupInv, AllowanceHolds, Allowed, Look, setupChain
  <2> QED BY <2>2, <2>3, <2>5 DEF SetupInv, NoKeyIsLost, Look, setupFiles, setupChain
<1> QED BY <1>5, <1>6

(* What lands is what was pending, which is allowed. *)
LEMMA ActKeeps == ASSUME SetupInv, Act PROVE SetupInv'
<1>1. /\ Sent \in ATx /\ Filed(Sent.key) /\ Sent.kind = Now.kind /\ Sent.key = Now.key
      /\ Sent.amount = script.amount
  BY SentIsATx DEF SetupInv, Act
<1>2. Tail(script.todo) \in Seq(AnItem)
  BY NowIsAnItem DEF SetupInv, Act
<1>3. CASE Takes(Sent)
  <2>1. script' = [script EXCEPT !.todo = Tail(@), !.amount = 0] /\ Puts(Sent) /\ UNCHANGED setupFiles
    BY <1>3 DEF Act
  <2>2. /\ mintAuthority' \in [Mints -> Nat] /\ holds' \in [Key -> [Kinds -> Nat]] /\ NoKeyIsLost'
        /\ \A k \in Key, kind \in Kinds :
             \/ holds'[k][kind] = holds[k][kind]
             \/ k = Sent.key /\ kind = Sent.kind /\ holds'[k][kind] = holds[k][kind] + Sent.amount
    BY <1>1, <2>1, PutsKeeps DEF SetupInv
  <2>3. SetupTypeOK'
    <3>1. ScriptOK'
      <4>1. script' = [name |-> script.name, todo |-> Tail(script.todo), amount |-> 0]
        BY <2>1 DEF SetupInv, SetupTypeOK, ScriptOK
      <4> QED BY <1>2, <4>1, TargetAssumption DEF ScriptOK
    <3>2. MintsOK'
      BY <2>2 DEF MintsOK
    <3> QED BY <2>1, <3>1, <3>2 DEF SetupInv, SetupTypeOK, FilesOK, AfloatOK, Act, setupFiles
  <2>4. WorkIsForFiledKeys'
    BY <2>1, NowIsAnItem DEF SetupInv, WorkIsForFiledKeys, SetupTypeOK, Act, setupFiles, Filed
  <2>5. script'.amount = 0
    BY <2>1 DEF SetupInv, SetupTypeOK
  <2>6. \A k \in Key, kind \in Kinds : holds'[k][kind] <= Allowed
    BY <1>1, <2>2 DEF SetupInv, AllowanceHolds, Act
  <2>7. AllowanceHolds'
    BY <2>5, <2>6 DEF SetupInv, AllowanceHolds, Allowed, Act
  <2> QED BY <2>2, <2>3, <2>4, <2>7 DEF SetupInv
<1>4. CASE ~Takes(Sent)
  <2>1. script' = Idle /\ UNCHANGED <<setupFiles, setupChain, afloat, slips>>
    BY <1>4 DEF Act
  <2>2. SetupTypeOK'
    BY <2>1, TargetAssumption DEF SetupInv, SetupTypeOK, FilesOK, MintsOK, ScriptOK, AfloatOK,
                                  setupFiles, setupChain, Idle
  <2> QED BY <2>1, <2>2 DEF SetupInv, WorkIsForFiledKeys, NoKeyIsLost, AllowanceHolds, Allowed, Filed,
                            setupFiles, setupChain, Idle, Todo
<1> QED BY <1>3, <1>4

LEMMA EndsKeeps == ASSUME SetupInv, Ends PROVE SetupInv'
<1>1. SetupTypeOK'
  BY TargetAssumption DEF SetupInv, SetupTypeOK, FilesOK, MintsOK, ScriptOK, AfloatOK, Ends,
                          setupFiles, setupChain, Idle
<1> QED BY <1>1 DEF SetupInv, Ends, WorkIsForFiledKeys, NoKeyIsLost, AllowanceHolds, Allowed, Filed,
                    setupFiles, setupChain, Idle, Todo

(* A death is worth a target: what was pending, if it landed, or will.     *)
LEMMA DiesKeeps == ASSUME SetupInv, Dies PROVE SetupInv'
<1>1. /\ Sent \in ATx /\ Filed(Sent.key) /\ Sent.amount \in Nat /\ Sent.amount <= Target
  BY SentIsATx, TxIsTyped DEF SetupInv, Dies
<1>2. /\ script' = Idle /\ slips' = slips + 1 /\ UNCHANGED setupFiles
      /\ slips \in Nat /\ slips' \in Nat /\ Cardinality(afloat) <= slips
  BY DEF Dies, SetupInv, SetupTypeOK, AllowanceHolds
<1>3. Cardinality(afloat) \in Nat /\ Allowed \in Nat
  BY AllowedIsNat DEF SetupInv, AllowanceHolds
<1>4. CASE UNCHANGED afloat
  <2>1. Cardinality(afloat)' = Cardinality(afloat)
    BY <1>4
  <2>2. Allowed' = Allowed + Target
    BY <1>2, <1>3, <2>1, AllowedGrows DEF SetupInv
  <2>3. /\ mintAuthority' \in [Mints -> Nat] /\ holds' \in [Key -> [Kinds -> Nat]] /\ NoKeyIsLost'
        /\ \A k \in Key, kind \in Kinds :
             holds'[k][kind] = holds[k][kind] \/ holds'[k][kind] = holds[k][kind] + Sent.amount
    <3>1. CASE UNCHANGED setupChain
      BY <1>2, <3>1 DEF SetupInv, SetupTypeOK, MintsOK, NoKeyIsLost, setupFiles, setupChain
    <3>2. CASE Puts(Sent)
      BY <1>1, <1>2, <3>2, PutsKeeps DEF SetupInv
    <3>3. UNCHANGED setupChain \/ Puts(Sent)
      BY DEF Dies
    <3> QED BY <3>1, <3>2, <3>3
  <2>4. \A k \in Key, kind \in Kinds : holds'[k][kind] <= Allowed'
    <3>1. \A k \in Key, kind \in Kinds : holds[k][kind] \in Nat /\ holds[k][kind] <= Allowed
      BY DEF SetupInv, AllowanceHolds, SetupTypeOK, MintsOK
    <3>2. Target \in Nat
      BY TargetAssumption
    <3>3. \A h \in Nat : h <= Allowed => h <= Allowed + Target /\ h + Sent.amount <= Allowed + Target
      BY <1>1, <1>3, <3>2
    <3> QED BY <2>2, <2>3, <3>1, <3>3
  <2>5. SetupTypeOK'
    <3>1. \A last \in afloat : last \in ALast /\ last.run \in Nat /\ last.run <= slips
      BY DEF SetupInv, SetupTypeOK, AfloatOK, ALast
    <3>2. \A last \in afloat : last.run <= slips + 1
      BY <1>2, <3>1
    <3>3. AfloatOK'
      BY <1>2, <1>4, <3>2 DEF SetupInv, SetupTypeOK, AfloatOK
    <3> QED BY <1>2, <2>3, <3>3, TargetAssumption DEF SetupInv, SetupTypeOK, FilesOK, MintsOK, ScriptOK,
                                                      setupFiles, Idle
  <2>6. WorkIsForFiledKeys'
    BY <1>2, <1>4 DEF SetupInv, WorkIsForFiledKeys, Filed, setupFiles, Idle
  <2>7. AllowanceHolds'
    BY <1>2, <1>3, <2>1, <2>4 DEF AllowanceHolds, Idle, Todo
  <2> QED BY <2>3, <2>5, <2>6, <2>7 DEF SetupInv
<1>5. CASE afloat' = afloat \cup {[run |-> slips', tx |-> Sent]} /\ UNCHANGED setupChain
  <2> DEFINE last == [run |-> slips', tx |-> Sent]
  <2>0. last \in ALast /\ last.run = slips + 1 /\ last.tx = Sent
    BY <1>1, <1>2 DEF ALast
  <2>1. IsFiniteSet(afloat') /\ Cardinality(afloat)' = Cardinality(afloat) + 1
    <3>1. IsFiniteSet(afloat) /\ last \notin afloat
      BY <1>2, <2>0 DEF SetupInv, SetupTypeOK, AfloatOK
    <3> HIDE DEF last
    <3>2. /\ IsFiniteSet(afloat \cup {last})
          /\ Cardinality(afloat \cup {last}) = Cardinality(afloat) + 1
      BY <3>1, FS_AddElement
    <3>3. afloat' = afloat \cup {last}
      BY <1>5 DEF last
    <3> QED BY <3>2, <3>3
  <2>2. Allowed' = Allowed /\ Cardinality(afloat)' \in Nat /\ Cardinality(afloat)' <= slips'
    <3>1. 1 + slips' - Cardinality(afloat)' = 1 + slips - Cardinality(afloat)
      BY <1>2, <1>3, <2>1
    <3> QED BY <1>2, <1>3, <2>1, <3>1 DEF Allowed
  <2>3. AfloatOK'
    <3>1. \A other \in afloat : other \in ALast /\ other.run <= slips + 1
      BY <1>2 DEF SetupInv, SetupTypeOK, AfloatOK, ALast
    <3>2. afloat' = afloat \cup {last} /\ slips' = slips + 1
      BY <1>2, <1>5
    <3> HIDE DEF last
    <3> QED BY <1>2, <2>0, <2>1, <3>1, <3>2 DEF AfloatOK
  <2>4. SetupTypeOK'
    BY <1>2, <1>5, <2>3, TargetAssumption DEF SetupInv, SetupTypeOK, FilesOK, MintsOK, ScriptOK,
                                              setupFiles, setupChain, Idle
  <2>5. WorkIsForFiledKeys'
    <3>1. \A k : Filed(k) => Filed(k)'
      BY <1>2 DEF Filed, setupFiles
    <3>2. afloat' = afloat \cup {last} /\ script'.todo = <<>>
      BY <1>2, <1>5 DEF Idle
    <3> HIDE DEF last
    <3> QED BY <1>1, <2>0, <3>1, <3>2 DEF SetupInv, WorkIsForFiledKeys
  <2>6. AllowanceHolds'
    BY <1>2, <1>5, <2>2 DEF SetupInv, AllowanceHolds, Idle, Todo, setupChain
  <2>7. NoKeyIsLost'
    BY <1>2, <1>5 DEF SetupInv, NoKeyIsLost, setupFiles, setupChain
  <2> QED BY <2>4, <2>5, <2>6, <2>7 DEF SetupInv
<1> QED BY <1>4, <1>5 DEF Dies

LEMMA SurfacesKeeps == ASSUME SetupInv, NEW last \in afloat, Surfaces(last) PROVE SetupInv'
<1> DEFINE sent == last.tx
<1>0. last \in ALast /\ last.run <= slips
  BY DEF SetupInv, SetupTypeOK, AfloatOK
<1>1. /\ sent \in ATx /\ Filed(sent.key) /\ sent.amount \in Nat /\ sent.amount <= Target
      /\ UNCHANGED <<setupFiles, script, slips>>
  BY <1>0, TxIsTyped DEF ALast, SetupInv, WorkIsForFiledKeys, Surfaces
<1>2. Cardinality(afloat) \in Nat /\ Allowed \in Nat /\ Cardinality(afloat) <= slips /\ slips \in Nat
  BY AllowedIsNat DEF SetupInv, AllowanceHolds, SetupTypeOK
<1>3. /\ IsFiniteSet(afloat') /\ Cardinality(afloat)' = Cardinality(afloat) - 1 /\ Cardinality(afloat)' \in Nat
  BY FS_RemoveElement, FS_CardinalityType DEF SetupInv, SetupTypeOK, AfloatOK, Surfaces
<1>4. Allowed' = Allowed + Target
  BY <1>1, <1>2, <1>3, AllowedGrows DEF SetupInv
<1>5. /\ mintAuthority' \in [Mints -> Nat] /\ holds' \in [Key -> [Kinds -> Nat]] /\ NoKeyIsLost'
      /\ \A k \in Key, kind \in Kinds :
           holds'[k][kind] = holds[k][kind] \/ holds'[k][kind] = holds[k][kind] + sent.amount
  <2>1. CASE UNCHANGED setupChain
    BY <1>1, <2>1 DEF SetupInv, SetupTypeOK, MintsOK, NoKeyIsLost, setupFiles, setupChain
  <2>2. CASE Puts(sent)
    BY <1>1, <2>2, PutsKeeps DEF SetupInv
  <2> QED BY <2>1, <2>2 DEF Surfaces
<1>6. \A k \in Key, kind \in Kinds : holds[k][kind] \in Nat /\ holds'[k][kind] <= holds[k][kind] + Target
  <2>1. \A k \in Key, kind \in Kinds : holds[k][kind] \in Nat
    BY DEF SetupInv, SetupTypeOK, MintsOK
  <2>2. \A h \in Nat : h <= h + Target /\ h + sent.amount <= h + Target
    BY <1>1, TargetAssumption
  <2> QED BY <1>5, <2>1, <2>2
<1>7. SetupTypeOK'
  BY <1>1, <1>3, <1>5 DEF SetupInv, SetupTypeOK, FilesOK, MintsOK, ScriptOK, AfloatOK, setupFiles, Surfaces
<1>8. WorkIsForFiledKeys'
  BY <1>1 DEF SetupInv, WorkIsForFiledKeys, Filed, setupFiles, Surfaces
<1>9. AllowanceHolds'
  <2>1. \A k \in Key, kind \in Kinds : holds'[k][kind] <= Allowed'
    BY <1>2, <1>4, <1>5, <1>6, TargetAssumption DEF SetupInv, AllowanceHolds
  <2>2. ASSUME Todo, script.amount > 0, Now.kind \in Kinds
        PROVE  holds'[Now.key][Now.kind] + script.amount <= Allowed'
    <3>1. Now.key \in Key /\ script.amount \in Nat
      BY <2>2, NowIsAnItem, TargetAssumption DEF SetupInv, SetupTypeOK, ScriptOK, AnItem
    <3>2. holds[Now.key][Now.kind] + script.amount <= Allowed
      BY <2>2 DEF SetupInv, AllowanceHolds
    <3>3. holds'[Now.key][Now.kind] \in Nat
      BY <1>5, <2>2, <3>1
    <3> QED BY <1>2, <1>4, <1>6, <2>2, <3>1, <3>2, <3>3, TargetAssumption
  <2> QED BY <1>1, <1>2, <1>3, <2>1, <2>2 DEF AllowanceHolds, Todo, Now
<1> QED BY <1>5, <1>7, <1>8, <1>9 DEF SetupInv

LEMMA SpendKeeps == ASSUME SetupInv, Spend PROVE SetupInv'
<1>1. PICK k \in DOMAIN holds, kind \in Kinds :
          holds[k][kind] > 0 /\ holds' = [holds EXCEPT ![k][kind] = @ - 1]
  BY DEF Spend
<1>2. k \in Key /\ holds[k][kind] \in Nat
  BY DEF SetupInv, SetupTypeOK, MintsOK
<1>3. holds' \in [Key -> [Kinds -> Nat]]
  BY <1>1, <1>2 DEF SetupInv, SetupTypeOK, MintsOK
<1>4. \A j \in Key, what \in Kinds :
          holds'[j][what] <= holds[j][what] /\ holds[j][what] \in Nat /\ holds'[j][what] \in Nat
  BY <1>1, <1>2, <1>3 DEF SetupInv, SetupTypeOK
<1>5. SetupTypeOK'
  BY <1>3 DEF SetupInv, SetupTypeOK, FilesOK, MintsOK, ScriptOK, AfloatOK, Spend, setupFiles
<1>6. NoKeyIsLost'
  <2>1. \A j \in Key, what \in Kinds : holds'[j][what] > 0 => holds[j][what] > 0
    BY <1>4
  <2>2. DOMAIN holds = Key /\ DOMAIN holds' = Key
    BY <1>3 DEF SetupInv, SetupTypeOK, MintsOK
  <2> QED BY <2>1, <2>2 DEF SetupInv, NoKeyIsLost, Spend, setupFiles
<1>7. AllowanceHolds'
  <2>1. Allowed \in Nat
    BY AllowedIsNat DEF SetupInv, AllowanceHolds
  <2>2. ~Todo' /\ Allowed' = Allowed
    BY DEF Spend, Todo, Idle, Allowed
  <2> QED BY <1>4, <2>1, <2>2 DEF SetupInv, AllowanceHolds, Spend
<1> QED BY <1>5, <1>6, <1>7 DEF SetupInv, WorkIsForFiledKeys, Filed, Spend, setupFiles

LEMMA StutterKeeps == ASSUME SetupInv, UNCHANGED setupVars PROVE SetupInv'
BY DEF SetupInv, SetupTypeOK, FilesOK, MintsOK, ScriptOK, AfloatOK, WorkIsForFiledKeys, Filed,
       NoKeyIsLost, AllowanceHolds, Allowed, Todo, Now,
       setupVars, setupFiles, setupChain

LEMMA SetupInvHolds == SetupSpec => []SetupInv
<1>1. SetupInit => SetupInv
  BY InitSetupInv
<1>2. SetupInv /\ [SetupNext]_setupVars => SetupInv'
  BY FaucetRunsKeep, SetupMakersKeeps, LookKeeps, ActKeeps, EndsKeeps, DiesKeeps, SpendKeeps,
     SurfacesKeeps, StutterKeeps DEF SetupNext
<1> QED BY <1>1, <1>2, PTL DEF SetupSpec

---------------------------------------------------------------------------
(* Whatever key holds anything, or may mint, is in a file, wherever a run  *)
(* died (setup-faucet-venue.ts:53, setup-mm-makers.ts:42-44).              *)
THEOREM KeysAreKept == SetupSpec => []NoKeyIsLost
<1>1. SetupInv => NoKeyIsLost
  BY DEF SetupInv
<1> QED BY <1>1, SetupInvHolds, PTL

(* "safe to re-run": nobody gets more than a target for each run that died *)
(* beside the target itself.                                               *)
THEOREM RerunsStayBounded == SetupSpec => []RerunsAreSafe
<1>1. SetupInv => RerunsAreSafe
  <2> SUFFICES ASSUME SetupInv, NEW k \in DOMAIN holds, NEW kind \in Kinds
               PROVE  holds[k][kind] <= Target * (1 + slips)
    BY DEF RerunsAreSafe
  <2>1. k \in Key /\ holds[k][kind] \in Nat /\ holds[k][kind] <= Allowed
    BY DEF SetupInv, SetupTypeOK, MintsOK, AllowanceHolds
  <2>2. Cardinality(afloat) \in Nat /\ slips \in Nat /\ Cardinality(afloat) <= slips /\ Allowed \in Nat
    BY AllowedIsNat DEF SetupInv, AllowanceHolds, SetupTypeOK
  <2>3. \A a, b \in Nat : a <= b => Target * a <= Target * b
    BY TargetAssumption
  <2>4. Allowed <= Target * (1 + slips)
    <3>1. 1 + slips - Cardinality(afloat) \in Nat /\ 1 + slips \in Nat
          /\ 1 + slips - Cardinality(afloat) <= 1 + slips
      BY <2>2
    <3> QED BY <2>3, <3>1 DEF Allowed
  <2>5. Target * (1 + slips) \in Nat
    BY <2>2, TargetAssumption
  <2> QED BY <2>1, <2>2, <2>4, <2>5
<1> QED BY <1>1, SetupInvHolds, PTL

---------------------------------------------------------------------------
(***************************************************************************)
(* Maintenance.  For any prices, ladder, number of passes and scan limit,  *)
(* and however many others trade: what the scripts leave behind is tidy,   *)
(* as far as what was there when they began.                               *)
(***************************************************************************)

(* The states of a script, each with what it knows. *)
UpkeepAt ==
    /\ upkeep.at = "scan" => upkeep = [at |-> "scan", side |-> upkeep.side, pass |-> upkeep.pass,
                                       early |-> upkeep.early]
    /\ upkeep.at = "cancel" => upkeep = [at |-> "cancel", side |-> upkeep.side, pass |-> upkeep.pass,
                                         early |-> upkeep.early, todo |-> upkeep.todo]
    /\ upkeep.at = "uncross" => upkeep = [at |-> "uncross", todo |-> upkeep.todo]
    /\ upkeep.at = "ladder" => upkeep = [at |-> "ladder", n |-> upkeep.n]
    /\ upkeep.at \in {"scan", "cancel"} => upkeep.side \in {1, 2}
    /\ upkeep.at = "ladder" => upkeep.n \in Nat \ {0}

(* Nothing old comes back: what is placed, or adrift to be, is new. *)
IsNew(o) == ~o.old /\ o.price \in Nat
OnlyNewComes == \A o \in resting' : o \in resting \/ IsNew(o)

BookTyped ==
    /\ \A o \in resting : o.price \in Nat
    /\ \A sent \in adrift : sent.place => IsNew(sent.order)

(* cleanup-book has read every old ask there is; then everything of ours   *)
(* that is old and crosses is on its list.                                 *)
AsksAreRead == upkeep.at = "bids" => \A o \in Of("ask", resting) : o.old => o \in upkeep.asks

CrossersAreListed ==
    upkeep.at = "uncross" =>
        \A a \in Of("ask", resting), b \in Of("bid", resting) :
            a.old /\ b.old /\ a.price <= b.price =>
                (a.ours => a \in upkeep.todo) /\ (b.ours => b \in upkeep.todo)

UpkeepInv == UpkeepAt /\ BookTyped /\ AsksAreRead /\ CrossersAreListed /\ TidiedUp

---------------------------------------------------------------------------
(* What is true of all that was there stays true when only new comes.      *)
LEMMA OldStaysTidy ==
    ASSUME UpkeepInv, OnlyNewComes, BookTyped', UNCHANGED upkeep
    PROVE  UpkeepInv'
<1>1. \A o \in resting' : o.old => o \in resting
  BY DEF OnlyNewComes, IsNew
<1> QED BY <1>1 DEF UpkeepInv, UpkeepAt, AsksAreRead, CrossersAreListed, TidiedUp, Of, Ours

(* A transaction of the script's, of a new order if it places. *)
LEMMA SendingAddsOnlyNew ==
    ASSUME UpkeepInv, NEW sent, sent.place => IsNew(sent.order), Confirms(sent) \/ ThrowsAt(sent)
    PROVE  OnlyNewComes /\ BookTyped'
BY DEF UpkeepInv, BookTyped, OnlyNewComes, Confirms, ThrowsAt, Does, IsNew

LEMMA CancelsArePlain ==
    ASSUME NEW o PROVE ~CancelOf(o).place /\ CancelOf(o).order = o
BY DEF CancelOf

LEMMA InitUpkeepInv == UpkeepInit => UpkeepInv
<1> SUFFICES ASSUME UpkeepInit PROVE UpkeepInv
  OBVIOUS
<1>1. BookTyped
  BY MaintenanceAssumption DEF UpkeepInit, BookTyped, OldOrders
<1>2. UpkeepAt /\ upkeep.at \in {"scan", "asks", "ladder"} /\ (upkeep.at = "scan" => upkeep.early = {})
  BY DEF UpkeepInit, UpkeepAt
<1> QED BY <1>1, <1>2 DEF UpkeepInv, AsksAreRead, CrossersAreListed, TidiedUp

---------------------------------------------------------------------------
(* cancel-all *)

(* The next side, or the end, with what has been left early so far. *)
LEMMA NextSideKeeps ==
    ASSUME UpkeepInv, upkeep.at \in {"scan", "cancel"}, NEW early, upkeep' = NextSide(early),
           UNCHANGED <<resting, adrift>>,
           \A o \in Ours(resting) : o.old => o.side \notin early
    PROVE  UpkeepInv'
<1>1. /\ upkeep'.at \in {"scan", "cleared"} /\ upkeep'.early = early
      /\ UpkeepAt'
  BY DEF UpkeepInv, UpkeepAt, NextSide, BothSides
<1> QED BY <1>1 DEF UpkeepInv, BookTyped, IsNew, AsksAreRead, CrossersAreListed, TidiedUp, Ours

LEMMA ScanKeeps == ASSUME UpkeepInv, Scan PROVE UpkeepInv'
<1> DEFINE side == BothSides[upkeep.side]
<1>1. PICK seen \in Fronts(Of(side, resting)) :
          upkeep' = IF Ours(seen) = {}
                    THEN NextSide(IF seen = Of(side, resting) THEN upkeep.early \cup {side} ELSE upkeep.early)
                    ELSE [at |-> "cancel", side |-> upkeep.side, pass |-> upkeep.pass,
                          early |-> upkeep.early, todo |-> Ours(seen)]
  BY DEF Scan
<1>2. /\ upkeep.at = "scan" /\ UNCHANGED <<resting, adrift>>
      /\ \A o \in Ours(resting) : o.old => o.side \notin upkeep.early
  BY DEF Scan, UpkeepInv, TidiedUp
<1>3. CASE Ours(seen) = {}
  <2> DEFINE early == IF seen = Of(side, resting) THEN upkeep.early \cup {side} ELSE upkeep.early
  <2>1. \A o \in Ours(resting) : o.old => o.side \notin early
    BY <1>2, <1>3 DEF Of, Ours
  <2>2. upkeep' = NextSide(early)
    BY <1>1, <1>3
  <2> HIDE DEF early
  <2> QED BY <1>2, <2>1, <2>2, NextSideKeeps
<1>4. CASE Ours(seen) # {}
  <2>1. upkeep' = [at |-> "cancel", side |-> upkeep.side, pass |-> upkeep.pass,
                   early |-> upkeep.early, todo |-> Ours(seen)]
    BY <1>1, <1>4
  <2> QED BY <1>2, <2>1 DEF UpkeepInv, UpkeepAt, BookTyped, IsNew, AsksAreRead, CrossersAreListed, TidiedUp, Ours
<1> QED BY <1>3, <1>4

LEMMA CancelNextKeeps == ASSUME UpkeepInv, CancelNext PROVE UpkeepInv'
<1>1. PICK o \in upkeep.todo :
          /\ Confirms(CancelOf(o)) \/ ThrowsAt(CancelOf(o))
          /\ upkeep' = [upkeep EXCEPT !.todo = @ \ {o}]
  BY DEF CancelNext
<1>2. OnlyNewComes /\ BookTyped'
  BY <1>1, CancelsArePlain, SendingAddsOnlyNew
<1>3. /\ upkeep.at = "cancel" /\ upkeep'.at = "cancel" /\ upkeep'.early = upkeep.early /\ UpkeepAt'
  BY <1>1 DEF CancelNext, UpkeepInv, UpkeepAt
<1>4. \A x \in resting' : x.old => x \in resting
  BY <1>2 DEF OnlyNewComes, IsNew
<1> QED BY <1>2, <1>3, <1>4 DEF UpkeepInv, AsksAreRead, CrossersAreListed, TidiedUp, Ours

LEMMA PassEndsKeeps == ASSUME UpkeepInv, PassEnds PROVE UpkeepInv'
<1>1. upkeep.at = "cancel" /\ UNCHANGED <<resting, adrift>>
      /\ \A o \in Ours(resting) : o.old => o.side \notin upkeep.early
  BY DEF PassEnds, UpkeepInv, TidiedUp
<1>2. CASE upkeep' = NextSide(upkeep.early)
  BY <1>1, <1>2, NextSideKeeps
<1>3. CASE upkeep' = [at |-> "scan", side |-> upkeep.side, pass |-> upkeep.pass + 1, early |-> upkeep.early]
  BY <1>1, <1>3 DEF UpkeepInv, UpkeepAt, BookTyped, IsNew, AsksAreRead, CrossersAreListed, TidiedUp, Ours
<1> QED BY <1>2, <1>3 DEF PassEnds

---------------------------------------------------------------------------
(* cleanup-book *)

LEMMA ReadAsksKeeps == ASSUME UpkeepInv, ReadAsks PROVE UpkeepInv'
BY DEF UpkeepInv, UpkeepAt, BookTyped, IsNew, AsksAreRead, CrossersAreListed, TidiedUp, ReadAsks

(* The old bids are all read now, the old asks that are still there were,  *)
(* so a pair of them that crosses is on the list.                          *)
LEMMA ReadBidsKeeps == ASSUME UpkeepInv, ReadBids PROVE UpkeepInv'
<1>1. upkeep' = [at |-> "uncross", todo |-> Crossers(upkeep.asks, Of("bid", resting))]
      /\ UNCHANGED <<resting, adrift>> /\ upkeep.at = "bids"
  BY DEF ReadBids
<1>2. \A a \in Of("ask", resting), b \in Of("bid", resting) :
          a.old /\ b.old /\ a.price <= b.price =>
              a \in Crossers(upkeep.asks, Of("bid", resting)) /\ b \in Crossers(upkeep.asks, Of("bid", resting))
  BY <1>1 DEF UpkeepInv, AsksAreRead, Crossers, BookTyped, Of
<1> QED BY <1>1, <1>2 DEF UpkeepInv, UpkeepAt, BookTyped, IsNew, AsksAreRead, CrossersAreListed, TidiedUp

LEMMA DiedKeeps ==
    ASSUME BookTyped', upkeep' = [at |-> "died"]
    PROVE  UpkeepInv'
BY DEF UpkeepInv, UpkeepAt, AsksAreRead, CrossersAreListed, TidiedUp

LEMMA UncrossKeeps == ASSUME UpkeepInv, Uncross PROVE UpkeepInv'
<1>1. PICK o \in upkeep.todo :
          \/ /\ ~o.ours
             /\ upkeep' = [upkeep EXCEPT !.todo = @ \ {o}] /\ UNCHANGED <<resting, adrift>>
          \/ o.ours /\ Confirms(CancelOf(o)) /\ upkeep' = [upkeep EXCEPT !.todo = @ \ {o}]
          \/ o.ours /\ ThrowsAt(CancelOf(o)) /\ upkeep' = [at |-> "died"]
  BY DEF Uncross
<1>2. CASE upkeep' = [upkeep EXCEPT !.todo = @ \ {o}] /\
           ((~o.ours /\ UNCHANGED <<resting, adrift>>) \/ Confirms(CancelOf(o)))
  <2>1. OnlyNewComes /\ BookTyped' /\ (o.ours => o \notin resting')
    <3>1. CASE Confirms(CancelOf(o))
      <4>1. OnlyNewComes /\ BookTyped'
        BY <3>1, CancelsArePlain, SendingAddsOnlyNew
      <4>2. o \notin resting'
        BY <3>1, CancelsArePlain DEF Confirms, Does
      <4> QED BY <4>1, <4>2
    <3>2. CASE ~o.ours /\ UNCHANGED <<resting, adrift>>
      BY <3>2 DEF UpkeepInv, BookTyped, IsNew, OnlyNewComes
    <3> QED BY <1>2, <3>1, <3>2
  <2>2. /\ upkeep.at = "uncross" /\ upkeep'.at = "uncross" /\ upkeep'.todo = upkeep.todo \ {o} /\ UpkeepAt'
    BY <1>2 DEF Uncross, UpkeepInv, UpkeepAt
  <2>3. \A x \in resting' : x.old => x \in resting
    BY <2>1 DEF OnlyNewComes, IsNew
  <2>4. CrossersAreListed'
    <3> SUFFICES ASSUME NEW a \in Of("ask", resting'), NEW b \in Of("bid", resting'),
                        a.old, b.old, a.price <= b.price
                 PROVE  (a.ours => a \in upkeep'.todo) /\ (b.ours => b \in upkeep'.todo)
      BY DEF CrossersAreListed, Of
    <3>1. a \in Of("ask", resting) /\ b \in Of("bid", resting)
      BY <2>3 DEF Of
    <3>2. (a.ours => a \in upkeep.todo) /\ (b.ours => b \in upkeep.todo)
      BY <2>2, <3>1 DEF UpkeepInv, CrossersAreListed
    <3>3. (a.ours => a # o) /\ (b.ours => b # o)
      BY <2>1 DEF Of
    <3> QED BY <2>2, <3>2, <3>3
  <2> QED BY <2>1, <2>2, <2>4 DEF UpkeepInv, AsksAreRead, TidiedUp
<1>3. CASE ThrowsAt(CancelOf(o)) /\ upkeep' = [at |-> "died"]
  BY <1>3, CancelsArePlain, SendingAddsOnlyNew, DiedKeeps
<1> QED BY <1>1, <1>2, <1>3

(* Nothing is left to do: every pair of old orders that crosses is between *)
(* visitors.                                                               *)
LEMMA UncrossedKeeps == ASSUME UpkeepInv, Uncrossed PROVE UpkeepInv'
<1>1. upkeep.at = "uncross" /\ upkeep.todo = {} /\ upkeep' = [at |-> "clean"] /\ UNCHANGED <<resting, adrift>>
  BY DEF Uncrossed
<1>2. \A a \in Of("ask", resting), b \in Of("bid", resting) :
          a.old /\ b.old /\ (a.ours \/ b.ours) => ~(a.price <= b.price)
  BY <1>1 DEF UpkeepInv, CrossersAreListed
<1>3. \A a \in Of("ask", resting), b \in Of("bid", resting) : a.price \in Nat /\ b.price \in Nat
  BY DEF UpkeepInv, BookTyped, Of
<1> QED BY <1>1, <1>2, <1>3 DEF UpkeepInv, UpkeepAt, BookTyped, IsNew, AsksAreRead, CrossersAreListed, TidiedUp

---------------------------------------------------------------------------
(* topup, reads that fail, and the others *)

LEMMA NewOrdersAreNew ==
    ASSUME NEW side, NEW p \in Price, NEW ours
    PROVE  IsNew(NewOrder(side, p, ours))
BY MaintenanceAssumption DEF IsNew, NewOrder

LEMMA LayKeeps == ASSUME UpkeepInv, Lay PROVE UpkeepInv'
<1> DEFINE o == NewOrder(Ladder[upkeep.n].side, Ladder[upkeep.n].price, TRUE)
           sent == PlaceOf(o)
<1>1. /\ upkeep.at = "ladder"
      /\ \/ Confirms(sent) /\ upkeep' = [upkeep EXCEPT !.n = @ + 1]
         \/ ThrowsAt(sent) /\ upkeep' = [at |-> "died"]
  BY DEF Lay
<1>2. IsNew(o) /\ sent.order = o
  <2>1. Ladder[upkeep.n].price \in Price
    <3>1. upkeep.n \in 1..Len(Ladder)
      BY MaintenanceAssumption DEF UpkeepInv, UpkeepAt, Lay
    <3> DEFINE Rung == [side : {"ask", "bid"}, price : Price]
    <3>2. \A r \in Rung : r.price \in Price
      OBVIOUS
    <3>3. Ladder \in Seq(Rung)
      BY MaintenanceAssumption
    <3> HIDE DEF Rung
    <3>4. Ladder[upkeep.n] \in Rung
      BY <3>1, <3>3
    <3> QED BY <3>2, <3>4
  <2> QED BY <2>1, NewOrdersAreNew DEF PlaceOf
<1>3. OnlyNewComes /\ BookTyped'
  BY <1>1, <1>2, SendingAddsOnlyNew
<1>4. CASE upkeep' = [upkeep EXCEPT !.n = @ + 1]
  <2>1. upkeep'.at = "ladder" /\ UpkeepAt'
    BY <1>1, <1>4 DEF UpkeepInv, UpkeepAt
  <2> QED BY <1>3, <2>1 DEF UpkeepInv, AsksAreRead, CrossersAreListed, TidiedUp
<1>5. CASE upkeep' = [at |-> "died"]
  BY <1>3, <1>5, DiedKeeps
<1> QED BY <1>1, <1>4, <1>5

LEMMA OthersKeep ==
    ASSUME UpkeepInv, Comes \/ Leaves \/ LandsAfterAll \/ UNCHANGED upkeepVars
    PROVE  UpkeepInv'
<1>1. UNCHANGED upkeep
  BY DEF Comes, Leaves, LandsAfterAll, upkeepVars
<1>2. OnlyNewComes /\ BookTyped'
  <2>1. CASE Comes
    BY <2>1, NewOrdersAreNew DEF Comes, UpkeepInv, BookTyped, OnlyNewComes, IsNew
  <2>2. CASE Leaves
    BY <2>2 DEF Leaves, UpkeepInv, BookTyped, OnlyNewComes, IsNew
  <2>3. CASE LandsAfterAll
    BY <2>3 DEF LandsAfterAll, UpkeepInv, BookTyped, OnlyNewComes, Does, IsNew
  <2>4. CASE UNCHANGED upkeepVars
    BY <2>4 DEF upkeepVars, UpkeepInv, BookTyped, OnlyNewComes, IsNew
  <2> QED BY <2>1, <2>2, <2>3, <2>4
<1> QED BY <1>1, <1>2, OldStaysTidy

LEMMA ReadFailsKeeps == ASSUME UpkeepInv, ReadFails PROVE UpkeepInv'
<1>1. BookTyped'
  BY DEF UpkeepInv, BookTyped, IsNew, ReadFails
<1> QED BY <1>1, DiedKeeps DEF ReadFails

(* A side that cancel-all left early, having seen it whole, has none of    *)
(* ours left that was there, and after cleanup-book none of ours crosses   *)
(* (cancel-all.ts:47-68, cleanup-book.ts:50-66).                           *)
THEOREM BookIsLeftTidy == UpkeepSpec => []TidiedUp
<1>1. UpkeepInit => UpkeepInv
  BY InitUpkeepInv
<1>2. UpkeepInv /\ [UpkeepNext]_upkeepVars => UpkeepInv'
  BY ScanKeeps, CancelNextKeeps, PassEndsKeeps, ReadAsksKeeps, ReadBidsKeeps, UncrossKeeps,
     UncrossedKeeps, LayKeeps, ReadFailsKeeps, OthersKeep DEF UpkeepNext
<1>3. UpkeepInv => TidiedUp
  BY DEF UpkeepInv
<1> QED BY <1>1, <1>2, <1>3, PTL DEF UpkeepSpec

---------------------------------------------------------------------------
(***************************************************************************)
(* The two senders of transactions, for any calls, wallets, traders,       *)
(* endpoints and limits.                                                   *)
(*                                                                         *)
(* The faucet never works for one wallet in two calls at a time: the mark  *)
(* of a wallet stands for its call.  Its global window holds every recent  *)
(* call that works or paid, and its budget counts each of the day's once;  *)
(* both follow a call from the reservation to the only way out it takes.   *)
(*                                                                         *)
(* A trader is told that an order expired only after its height was seen   *)
(* to pass and, after that, no status was found: nothing lands any more.   *)
(***************************************************************************)

Refusals == {"alreadyFunded", "outOfFunds", "unavailable"}
AnyStage == Stages \cup Refusals \cup {"none", "funded"}

CallsOK == call \in [Call -> [stage : AnyStage, wallet : Wallet \cup {"none"}, at : Int,
                              today : BOOLEAN, recent : BOOLEAN]]

WorkIsMarked == \A c \in Call : InFlight(c) => call[c].wallet \in destSeen

IInv == CallsOK /\ WorkIsMarked /\ OneCallPerWallet

(* A step that changes at most stage, endpoint and window of one call and, *)
(* if marks go, only the mark of a call that stops.                        *)
LEMMA CallStepKeeps ==
    ASSUME IInv, NEW c \in Call, CallsOK', InFlight(c),
           \A d \in Call : call'[d].wallet = call[d].wallet,
           \A d \in Call : d # c => call'[d].stage = call[d].stage,
           \/ destSeen' = destSeen
           \/ ~InFlight(c)' /\ destSeen' = destSeen \ {call[c].wallet}
    PROVE  IInv'
<1>1. \A d \in Call : InFlight(d)' => InFlight(d)
  BY DEF InFlight
<1>2. OneCallPerWallet'
  BY <1>1 DEF IInv, OneCallPerWallet
<1>3. WorkIsMarked'
  BY <1>1 DEF IInv, WorkIsMarked, OneCallPerWallet
<1> QED BY <1>2, <1>3 DEF IInv

LEMMA ProceedsKeeps ==
    ASSUME IInv, NEW c \in Call, InFlight(c), NEW s \in AnyStage, Proceeds(c, s)
    PROVE  IInv'
<1>1. /\ CallsOK'
      /\ \A d \in Call : call'[d].wallet = call[d].wallet
      /\ \A d \in Call : d # c => call'[d].stage = call[d].stage
  BY DEF Proceeds, IInv, CallsOK
<1>2. destSeen' = destSeen
  BY DEF Proceeds, limiters
<1> QED BY <1>1, <1>2, CallStepKeeps

LEMMA RolledBackKeeps ==
    ASSUME IInv, NEW c \in Call, InFlight(c),
           NEW s \in Refusals, RolledBack(c, s)
    PROVE  IInv'
<1>1. /\ CallsOK'
      /\ \A d \in Call : call'[d].wallet = call[d].wallet
      /\ \A d \in Call : d # c => call'[d].stage = call[d].stage
      /\ call'[c].stage = s
  BY DEF RolledBack, AnyStage, IInv, CallsOK
<1>2. destSeen' = destSeen \ {call[c].wallet} /\ ~InFlight(c)'
  BY <1>1 DEF RolledBack, InFlight, Refusals, Stages
<1> QED BY <1>1, <1>2, CallStepKeeps

LEMMA ThrowsKeeps ==
    ASSUME IInv, NEW c \in Call, InFlight(c), Throws(c)
    PROVE  IInv'
<1>1. CASE call[c].at < Endpoints
  <2>1. /\ CallsOK'
        /\ \A d \in Call : call'[d].wallet = call[d].wallet
        /\ \A d \in Call : d # c => call'[d].stage = call[d].stage
    BY <1>1 DEF Throws, IInv, CallsOK, AnyStage, Stages
  <2>2. destSeen' = destSeen
    BY <1>1 DEF Throws, limiters
  <2> QED BY <2>1, <2>2, CallStepKeeps
<1>2. CASE ~(call[c].at < Endpoints)
  <2>1. RolledBack(c, "unavailable")
    BY <1>2 DEF Throws
  <2> QED BY <2>1, RolledBackKeeps DEF Refusals
<1> QED BY <1>1, <1>2

LEMMA AttemptKeeps ==
    ASSUME IInv, NEW c \in Call,
           \/ FundedCheck(c) \/ BalanceCheck(c) \/ SignGrant(c) \/ SendGrant(c)
           \/ SendGrantThrows(c) \/ PollGrant(c) \/ GrantHeight(c) \/ ReadGrantThrows(c)
    PROVE  IInv'
<1>1. InFlight(c)
  BY DEF FundedCheck, BalanceCheck, SignGrant, SendGrant, SendGrantThrows, PollGrant,
         GrantHeight, ReadGrantThrows, InFlight, Stages
<1>2. \/ Throws(c)
      \/ RolledBack(c, "alreadyFunded") \/ RolledBack(c, "outOfFunds")
      \/ \E s \in {"balance", "sign", "send", "poll", "height", "funded"} : Proceeds(c, s)
  BY DEF FundedCheck, BalanceCheck, SignGrant, SendGrant, SendGrantThrows, PollGrant,
         GrantHeight, ReadGrantThrows
<1>3. CASE Throws(c)
  BY <1>1, <1>3, ThrowsKeeps
<1>4. ASSUME NEW s \in Refusals, RolledBack(c, s) PROVE IInv'
  BY <1>1, <1>4, RolledBackKeeps
<1>5. ASSUME NEW s \in AnyStage, Proceeds(c, s) PROVE IInv'
  BY <1>1, <1>5, ProceedsKeeps
<1> QED BY <1>2, <1>3, <1>4, <1>5 DEF Refusals, AnyStage, Stages

LEMMA AdmitKeeps ==
    ASSUME IInv, NEW c \in Call, NEW w \in Wallet, Admit(c, w)
    PROVE  IInv'
<1> DEFINE new == [stage |-> "check", wallet |-> w, at |-> 1, today |-> TRUE, recent |-> TRUE]
<1>0. /\ w \notin destSeen /\ destSeen' = destSeen \cup {w}
      /\ call' = [call EXCEPT ![c] = new]
  BY DEF Admit
<1>1. /\ w \notin destSeen /\ destSeen' = destSeen \cup {w}
      /\ CallsOK'
      /\ call'[c].wallet = w
      /\ \A d \in Call : d # c => call'[d] = call[d]
  BY <1>0 DEF IInv, CallsOK, AnyStage, Stages
<1>2. \A d \in Call : InFlight(d)' /\ d # c => InFlight(d) /\ call'[d].wallet # w
  BY <1>1 DEF InFlight, IInv, WorkIsMarked
<1>3. OneCallPerWallet'
  BY <1>1, <1>2 DEF IInv, OneCallPerWallet
<1>4. WorkIsMarked'
  BY <1>1, <1>2 DEF IInv, WorkIsMarked
<1> QED BY <1>1, <1>3, <1>4 DEF IInv

(* Time and the chain change no call's stage, and no mark in use. *)
LEMMA WorldKeeps ==
    ASSUME IInv, CallsOK',
           \A d \in Call : call'[d].wallet = call[d].wallet /\ call'[d].stage = call[d].stage,
           \A d \in Call : InFlight(d) /\ call[d].wallet \in destSeen => call[d].wallet \in destSeen'
    PROVE  IInv'
BY DEF IInv, WorkIsMarked, OneCallPerWallet, InFlight

LEMMA NextKeeps == IInv /\ [FaucetNext]_<<chain, faucetVars>> => IInv'
<1> SUFFICES ASSUME IInv, [FaucetNext]_<<chain, faucetVars>> PROVE IInv'
  OBVIOUS
<1>1. ASSUME NEW c \in Call, NEW w \in Wallet, Admit(c, w) PROVE IInv'
  BY <1>1, AdmitKeeps
<1>2. ASSUME NEW w \in Wallet, CoolDown(w) PROVE IInv'
  BY <1>2, WorldKeeps DEF CoolDown, IInv, CallsOK
<1>3. ASSUME NEW w \in Wallet, SpendCash(w) PROVE IInv'
  BY <1>3, WorldKeeps DEF SpendCash, limiters, IInv, CallsOK
<1>4. CASE MinuteEnds
  BY <1>4, WorldKeeps DEF MinuteEnds, IInv, CallsOK
<1>5. CASE DayEnds
  <2>1. CallsOK'
    BY <1>5 DEF DayEnds, IInv, CallsOK
  <2>2. \A d \in Call : call'[d].wallet = call[d].wallet /\ call'[d].stage = call[d].stage
    BY <1>5 DEF DayEnds, IInv, CallsOK
  <2>3. \A d \in Call : InFlight(d) /\ call[d].wallet \in destSeen => call[d].wallet \in destSeen'
    BY <1>5 DEF DayEnds
  <2> QED BY <2>1, <2>2, <2>3, WorldKeeps
<1>6. ASSUME NEW t, GrantConfirmed(t) PROVE IInv'
  BY <1>6, WorldKeeps DEF GrantConfirmed, limiters, IInv, CallsOK
<1>7. CASE UNCHANGED faucetVars
  BY <1>7, WorldKeeps DEF faucetVars, limiters, IInv, CallsOK
<1>8. ASSUME NEW t, GrantLands(t) PROVE IInv'
  BY <1>7, <1>8 DEF GrantLands
<1> QED
  BY <1>1, <1>2, <1>3, <1>4, <1>5, <1>6, <1>7, <1>8, AttemptKeeps DEF FaucetNext

(* No two calls work for one wallet at a time (route.ts:107-125). *)
THEOREM OneCallAtATime == FaucetSpec => []OneCallPerWallet
<1>1. TxInit /\ FaucetInit => IInv
  <2> SUFFICES ASSUME FaucetInit PROVE IInv
    OBVIOUS
  <2>1. CallsOK
    BY DEF FaucetInit, CallsOK, AnyStage
  <2>2. \A c \in Call : ~InFlight(c)
    BY DEF FaucetInit, InFlight, Stages
  <2> QED BY <2>1, <2>2 DEF IInv, WorkIsMarked, OneCallPerWallet
<1>2. IInv => OneCallPerWallet
  BY DEF IInv
<1> QED BY <1>1, <1>2, NextKeeps, PTL DEF FaucetSpec

---------------------------------------------------------------------------
(* The window and the budget *)

(* The calls the budget and the window are about. *)
WorksOrPaid(c) == InFlight(c) \/ call[c].stage = "funded"
Today == {c \in Call : call[c].today}
Counted == {c \in Call : call[c].today /\ WorksOrPaid(c)}

(* Finitely many calls came today; the budget is their number. *)
BudgetOK == daySpent \in Nat /\ IsFiniteSet(Today)
HitsOK == globalHits \in Seq(Call)

CountInv == CallsOK /\ HitsOK /\ BudgetOK /\ PaidCallsAreCounted /\ BudgetIsExact

LEMMA CountedIsFinite == BudgetOK => IsFiniteSet(Counted)
<1>1. Counted \subseteq Today
  BY DEF Counted, Today
<1> QED BY <1>1, FS_Subset DEF BudgetOK

(* A hit that is taken out of the window leaves the others there. *)
LEMMA OthersKeepTheirHit ==
    ASSUME HitsOK, NEW c \in Call
    PROVE  /\ WithoutHit(c) \in Seq(Call)
           /\ \A d \in Call : d # c /\ d \in ToSet(globalHits) => d \in ToSet(WithoutHit(c))
<1> DEFINE i == CHOOSE i \in DOMAIN globalHits : globalHits[i] = c
           n == Len(globalHits)
           s1 == SubSeq(globalHits, 1, i - 1)
           s2 == SubSeq(globalHits, i + 1, n)
<1>1. CASE ~\E j \in DOMAIN globalHits : globalHits[j] = c
  BY <1>1 DEF WithoutHit, HitsOK
<1>2. CASE \E j \in DOMAIN globalHits : globalHits[j] = c
  <2>1. i \in 1..n /\ globalHits[i] = c /\ n \in Nat /\ DOMAIN globalHits = 1..n
    BY <1>2, LenProperties DEF HitsOK
  <2>2. WithoutHit(c) = s1 \o s2
    BY <1>2 DEF WithoutHit, RemoveAt
  <2>3. \A j \in 1..n : globalHits[j] \in Call
    BY ElementOfSeq DEF HitsOK
  <2> HIDE DEF i, n
  <2>4. /\ s1 \in Seq(Call) /\ Len(s1) = i - 1
        /\ \A j \in 1..i - 1 : s1[j] = globalHits[j]
    <3>1. \A j \in 1..i - 1 : globalHits[j] \in Call
      BY <2>1, <2>3
    <3> QED BY <2>1, <3>1, SubSeqProperties
  <2>5. /\ s2 \in Seq(Call) /\ Len(s2) = n - i
        /\ \A j \in 1..n - i : s2[j] = globalHits[i + j]
    <3>1. \A j \in i + 1..n : globalHits[j] \in Call
      BY <2>1, <2>3
    <3>2. /\ s2 \in Seq(Call) /\ Len(s2) = IF i + 1 <= n THEN n - (i + 1) + 1 ELSE 0
          /\ \A j \in 1..n - (i + 1) + 1 : s2[j] = globalHits[i + 1 + j - 1]
      <4>1. i + 1 \in Int /\ n \in Int
        BY <2>1
      <4> QED BY <3>1, <4>1, SubSeqProperties
    <3>3. n - (i + 1) + 1 = n - i /\ (~(i + 1 <= n) => n - i = 0)
      BY <2>1
    <3>4. \A j \in 1..n - i : i + 1 + j - 1 = i + j
      BY <2>1
    <3> QED BY <3>2, <3>3, <3>4
  <2> HIDE DEF s1, s2
  <2>6. /\ s1 \o s2 \in Seq(Call) /\ Len(s1 \o s2) = n - 1
        /\ \A j \in 1..n - 1 : (s1 \o s2)[j] = IF j <= i - 1 THEN s1[j] ELSE s2[j - (i - 1)]
    <3>1. Len(s1) + Len(s2) = n - 1
      BY <2>1, <2>4, <2>5
    <3> QED BY <2>4, <2>5, <3>1, ConcatProperties
  <2>7. ASSUME NEW d \in Call, d # c, d \in ToSet(globalHits)
        PROVE  d \in ToSet(s1 \o s2)
    <3>1. PICK j \in 1..n : globalHits[j] = d
      BY <2>1, <2>7 DEF ToSet
    <3>2. j # i /\ DOMAIN (s1 \o s2) = 1..n - 1
      BY <2>1, <2>6, <2>7, <3>1, LenProperties
    <3>3. ASSUME j < i PROVE (s1 \o s2)[j] = d /\ j \in 1..n - 1
      BY <2>1, <2>4, <2>6, <3>1, <3>3
    <3>4. ASSUME j > i PROVE (s1 \o s2)[j - 1] = d /\ j - 1 \in 1..n - 1
      <4>1. /\ j - 1 \in 1..n - 1 /\ ~(j - 1 <= i - 1) /\ j - 1 - (i - 1) = j - i
            /\ j - i \in 1..n - i /\ i + (j - i) = j
        BY <2>1, <3>1, <3>4
      <4> QED BY <2>5, <2>6, <3>1, <4>1
    <3>5. j < i \/ j > i
      BY <2>1, <3>1, <3>2
    <3> QED BY <3>2, <3>3, <3>4, <3>5 DEF ToSet
  <2> QED BY <2>2, <2>6, <2>7
<1> QED BY <1>1, <1>2

(* A step that changes of the calls only the stage and endpoint of c.      *)
LEMMA ProceedsCounts ==
    ASSUME CountInv, NEW c \in Call, InFlight(c), CallsOK',
           \A d \in Call : d # c => call'[d] = call[d],
           call'[c].today = call[c].today, call'[c].recent = call[c].recent,
           WorksOrPaid(c)', UNCHANGED limiters
    PROVE  CountInv'
<1>1. Today' = Today /\ Counted' = Counted
  BY DEF Today, Counted, WorksOrPaid, InFlight
<1>2. HitsOK' /\ BudgetOK' /\ BudgetIsExact'
  BY <1>1 DEF limiters, CountInv, HitsOK, BudgetOK, BudgetIsExact, Counted, WorksOrPaid
<1>3. PaidCallsAreCounted'
  BY DEF limiters, CountInv, PaidCallsAreCounted, WorksOrPaid, InFlight
<1> QED BY <1>2, <1>3 DEF CountInv

LEMMA RolledBackCounts ==
    ASSUME CountInv, NEW c \in Call, InFlight(c),
           NEW s \in Refusals, RolledBack(c, s)
    PROVE  CountInv'
<1>1. /\ CallsOK'
      /\ \A d \in Call : d # c => call'[d] = call[d]
      /\ call'[c].today = call[c].today
      /\ call'[c].stage = s
  BY DEF RolledBack, AnyStage, CountInv, CallsOK
<1>2. ~WorksOrPaid(c)' /\ WorksOrPaid(c)
  BY <1>1 DEF WorksOrPaid, InFlight, Refusals, Stages
<1>3. Today' = Today /\ Counted' = Counted \ {c}
  BY <1>1, <1>2 DEF Today, Counted, WorksOrPaid, InFlight
<1>4. daySpent' = (IF daySpent > 0 THEN daySpent - 1 ELSE 0) /\ daySpent \in Nat
  BY DEF RolledBack, CountInv, BudgetOK
<1>5. BudgetOK'
  BY <1>3, <1>4 DEF CountInv, BudgetOK
<1>6. BudgetIsExact'
  <2>1. SUFFICES ASSUME ~spoilt' PROVE daySpent' = Cardinality(Counted')
    BY DEF BudgetIsExact, Counted, WorksOrPaid
  <2>2. ~spoilt /\ c \in Counted
    BY <1>2, <2>1 DEF RolledBack, Counted
  <2>3. daySpent = Cardinality(Counted) /\ IsFiniteSet(Counted)
    BY <2>2, CountedIsFinite DEF CountInv, BudgetIsExact, Counted, WorksOrPaid
  <2>4. Cardinality(Counted') = daySpent - 1
    BY <1>3, <2>2, <2>3, FS_RemoveElement
  <2>5. Cardinality(Counted') \in Nat
    BY <1>3, <2>3, FS_RemoveElement, FS_CardinalityType
  <2> QED BY <1>4, <2>4, <2>5
<1>7. HitsOK' /\ PaidCallsAreCounted'
  <2>1. globalHits' = WithoutHit(c)
    BY DEF RolledBack
  <2>2. HitsOK' /\ \A d \in Call : d # c /\ d \in ToSet(globalHits) => d \in ToSet(globalHits')
    BY <2>1, OthersKeepTheirHit DEF CountInv, HitsOK
  <2>3. ASSUME NEW d \in Call, call'[d].recent, WorksOrPaid(d)'
        PROVE  d \in ToSet(globalHits')
    <3>1. d # c /\ call[d].recent /\ WorksOrPaid(d)
      BY <1>1, <1>2, <2>3 DEF WorksOrPaid, InFlight
    <3> QED BY <2>2, <3>1 DEF CountInv, PaidCallsAreCounted, WorksOrPaid
  <2> QED BY <2>2, <2>3 DEF PaidCallsAreCounted, WorksOrPaid
<1> QED BY <1>1, <1>5, <1>6, <1>7 DEF CountInv

LEMMA AttemptCounts ==
    ASSUME CountInv, NEW c \in Call,
           \/ FundedCheck(c) \/ BalanceCheck(c) \/ SignGrant(c) \/ SendGrant(c)
           \/ SendGrantThrows(c) \/ PollGrant(c) \/ GrantHeight(c) \/ ReadGrantThrows(c)
    PROVE  CountInv'
<1>1. InFlight(c)
  BY DEF FundedCheck, BalanceCheck, SignGrant, SendGrant, SendGrantThrows, PollGrant,
         GrantHeight, ReadGrantThrows, InFlight, Stages
<1>2. \/ Throws(c)
      \/ RolledBack(c, "alreadyFunded") \/ RolledBack(c, "outOfFunds")
      \/ \E s \in {"balance", "sign", "send", "poll", "height", "funded"} : Proceeds(c, s)
  BY DEF FundedCheck, BalanceCheck, SignGrant, SendGrant, SendGrantThrows, PollGrant,
         GrantHeight, ReadGrantThrows
<1>3. ASSUME NEW s \in Refusals, RolledBack(c, s) PROVE CountInv'
  BY <1>1, <1>3, RolledBackCounts
<1>4. ASSUME NEW s \in Stages \cup {"funded"}, Proceeds(c, s) PROVE CountInv'
  <2>1. /\ CallsOK' /\ call'[c].stage = s
        /\ \A d \in Call : d # c => call'[d] = call[d]
        /\ call'[c].today = call[c].today /\ call'[c].recent = call[c].recent
    BY <1>4 DEF Proceeds, CountInv, CallsOK, AnyStage
  <2>2. WorksOrPaid(c)' /\ UNCHANGED limiters
    BY <1>4, <2>1 DEF Proceeds, WorksOrPaid, InFlight
  <2> QED BY <1>1, <2>1, <2>2, ProceedsCounts
<1>5. CASE Throws(c)
  <2>1. CASE ~(call[c].at < Endpoints)
    BY <1>3, <1>5, <2>1 DEF Throws, Refusals
  <2>2. CASE call[c].at < Endpoints
    <3>1. /\ CallsOK' /\ call'[c].stage = "check"
          /\ \A d \in Call : d # c => call'[d] = call[d]
          /\ call'[c].today = call[c].today /\ call'[c].recent = call[c].recent
      BY <1>5, <2>2 DEF Throws, CountInv, CallsOK, AnyStage, Stages
    <3>2. WorksOrPaid(c)' /\ UNCHANGED limiters
      BY <1>5, <2>2, <3>1 DEF Throws, WorksOrPaid, InFlight, Stages
    <3> QED BY <1>1, <3>1, <3>2, ProceedsCounts
  <2> QED BY <2>1, <2>2
<1> QED BY <1>2, <1>3, <1>4, <1>5 DEF Refusals, Stages

LEMMA AdmitCounts ==
    ASSUME CountInv, NEW c \in Call, NEW w \in Wallet, Admit(c, w)
    PROVE  CountInv'
<1> DEFINE new == [stage |-> "check", wallet |-> w, at |-> 1, today |-> TRUE, recent |-> TRUE]
<1>1. /\ call' = [call EXCEPT ![c] = new] /\ call[c].stage = "none"
      /\ globalHits' = Append(globalHits, c) /\ daySpent' = daySpent + 1
      /\ spoilt' = spoilt
  BY DEF Admit
<1>2. CallsOK' /\ call'[c] = new /\ \A d \in Call : d # c => call'[d] = call[d]
  BY <1>1 DEF CountInv, CallsOK, AnyStage, Stages
<1>3. ~WorksOrPaid(c) /\ WorksOrPaid(c)'
  BY <1>1, <1>2 DEF WorksOrPaid, InFlight, Stages
<1>4. /\ Today' = Today \cup {c}
      /\ Counted' = Counted \cup {c} /\ c \notin Counted
  BY <1>2, <1>3 DEF Today, Counted, WorksOrPaid, InFlight
<1>5. BudgetOK'
  BY <1>1, <1>4, FS_AddElement DEF CountInv, BudgetOK
<1>6. BudgetIsExact'
  <2>1. IsFiniteSet(Counted) /\ Cardinality(Counted') = Cardinality(Counted) + 1
    BY <1>4, CountedIsFinite, FS_AddElement DEF CountInv
  <2> QED BY <1>1, <2>1 DEF CountInv, BudgetIsExact, Counted, WorksOrPaid
<1>7. HitsOK' /\ ToSet(globalHits') = ToSet(globalHits) \cup {c}
  <2>1. /\ HitsOK' /\ Len(globalHits') = Len(globalHits) + 1
        /\ \A i \in 1..Len(globalHits) : globalHits'[i] = globalHits[i]
        /\ globalHits'[Len(globalHits) + 1] = c
    BY <1>1, AppendProperties DEF CountInv, HitsOK
  <2>2. /\ DOMAIN globalHits = 1..Len(globalHits) /\ Len(globalHits) \in Nat
        /\ DOMAIN globalHits' = 1..Len(globalHits')
    BY <2>1, LenProperties DEF CountInv, HitsOK
  <2> QED BY <2>1, <2>2 DEF ToSet
<1>8. PaidCallsAreCounted'
  BY <1>2, <1>7 DEF CountInv, PaidCallsAreCounted, InFlight
<1> QED BY <1>2, <1>5, <1>6, <1>7, <1>8 DEF CountInv

LEMMA MinuteEndsCounts ==
    ASSUME CountInv, MinuteEnds
    PROVE  CountInv'
<1> DEFINE c == Head(globalHits)
<1>1. /\ globalHits # <<>> /\ globalHits' = Tail(globalHits)
      /\ call' = [call EXCEPT ![c].recent = FALSE]
      /\ UNCHANGED <<daySpent, spoilt>>
  BY DEF MinuteEnds
<1>2. /\ Len(globalHits) \in Nat /\ DOMAIN globalHits = 1..Len(globalHits)
      /\ c \in Call /\ c = globalHits[1] /\ HitsOK'
      /\ Len(globalHits') = Len(globalHits) - 1
      /\ \A i \in 1..Len(globalHits) - 1 : globalHits'[i] = globalHits[i + 1]
  BY <1>1, HeadTailProperties, LenProperties DEF CountInv, HitsOK
<1>3. /\ CallsOK' /\ ~call'[c].recent
      /\ \A d \in Call : call'[d].stage = call[d].stage /\ call'[d].today = call[d].today
      /\ \A d \in Call : d # c => call'[d].recent = call[d].recent
  BY <1>1, <1>2 DEF CountInv, CallsOK
<1> HIDE DEF c
<1>4. Today' = Today /\ Counted' = Counted
  BY <1>3 DEF Today, Counted, WorksOrPaid, InFlight
<1>5. BudgetOK' /\ BudgetIsExact'
  BY <1>1, <1>4 DEF CountInv, BudgetOK, BudgetIsExact, Counted, WorksOrPaid
<1>6. \A d \in Call : d # c /\ d \in ToSet(globalHits) => d \in ToSet(globalHits')
  <2>1. SUFFICES ASSUME NEW d \in Call, d # c, d \in ToSet(globalHits)
                 PROVE  d \in ToSet(globalHits')
    OBVIOUS
  <2>2. PICK i \in 1..Len(globalHits) : globalHits[i] = d
    BY <1>2, <2>1 DEF ToSet
  <2>3. i - 1 \in 1..Len(globalHits) - 1 /\ globalHits'[i - 1] = d
    BY <1>2, <2>1, <2>2
  <2>4. DOMAIN globalHits' = 1..Len(globalHits) - 1
    BY <1>2, LenProperties DEF HitsOK
  <2> QED BY <2>3, <2>4 DEF ToSet
<1>7. PaidCallsAreCounted'
  BY <1>3, <1>6 DEF CountInv, PaidCallsAreCounted, InFlight
<1> QED BY <1>2, <1>3, <1>5, <1>7 DEF CountInv

LEMMA DayEndsCounts ==
    ASSUME CountInv, DayEnds
    PROVE  CountInv'
<1>1. /\ CallsOK' /\ \A d \in Call : ~call'[d].today
      /\ \A d \in Call : call'[d].stage = call[d].stage /\ call'[d].recent = call[d].recent
      /\ daySpent' = 0 /\ globalHits' = globalHits
  BY DEF DayEnds, CountInv, CallsOK
<1>2. Today' = {} /\ Counted' = {}
  BY <1>1 DEF Today, Counted
<1>3. BudgetOK' /\ BudgetIsExact'
  BY <1>1, <1>2, FS_EmptySet DEF BudgetOK, BudgetIsExact, Counted, WorksOrPaid
<1> QED BY <1>1, <1>3 DEF CountInv, HitsOK, PaidCallsAreCounted, InFlight

LEMMA NextCounts == CountInv /\ [FaucetNext]_<<chain, faucetVars>> => CountInv'
<1> SUFFICES ASSUME CountInv, [FaucetNext]_<<chain, faucetVars>> PROVE CountInv'
  OBVIOUS
<1>1. CASE UNCHANGED <<call, globalHits, daySpent, spoilt>>
  BY <1>1 DEF CountInv, CallsOK, HitsOK, BudgetOK, Today, PaidCallsAreCounted, BudgetIsExact, InFlight
<1>2. ASSUME NEW c \in Call, NEW w \in Wallet, Admit(c, w) PROVE CountInv'
  BY <1>2, AdmitCounts
<1>3. ASSUME NEW w \in Wallet, CoolDown(w) \/ SpendCash(w) PROVE CountInv'
  BY <1>1, <1>3 DEF CoolDown, SpendCash, limiters
<1>4. ASSUME NEW t, GrantConfirmed(t) \/ GrantLands(t) PROVE CountInv'
  BY <1>1, <1>4 DEF GrantConfirmed, GrantLands, faucetVars, limiters
<1>5. CASE UNCHANGED faucetVars
  BY <1>1, <1>5 DEF faucetVars, limiters
<1> QED BY <1>2, <1>3, <1>4, <1>5, AttemptCounts, MinuteEndsCounts, DayEndsCounts DEF FaucetNext

LEMMA InitCounts == FaucetInit => CountInv
<1> SUFFICES ASSUME FaucetInit PROVE CountInv
  OBVIOUS
<1>1. CallsOK /\ HitsOK /\ daySpent = 0
  BY DEF FaucetInit, CallsOK, AnyStage, HitsOK
<1>2. \A c \in Call : ~WorksOrPaid(c) /\ ~call[c].today
  BY DEF FaucetInit, WorksOrPaid, InFlight, Stages
<1>3. Today = {} /\ Counted = {}
  BY <1>2 DEF Today, Counted
<1>4. BudgetOK /\ BudgetIsExact /\ PaidCallsAreCounted
  BY <1>1, <1>2, <1>3, FS_EmptySet DEF BudgetOK, BudgetIsExact, PaidCallsAreCounted, Counted, WorksOrPaid
<1> QED BY <1>1, <1>4 DEF CountInv

(* A recent call that works or has paid keeps its place in the global      *)
(* window, whichever other calls roll back (route.ts:104-117).             *)
THEOREM PaidCallsKeepTheirHit == FaucetSpec => []PaidCallsAreCounted
<1>1. CountInv => PaidCallsAreCounted
  BY DEF CountInv
<1> QED BY <1>1, InitCounts, NextCounts, PTL DEF FaucetSpec

(* The budget is the number of the day's calls that work or have paid      *)
(* (route.ts:98, 102, 111, 116, 134, 141, 188).                            *)
THEOREM BudgetCountsTheDay == FaucetSpec => []BudgetIsExact
<1>1. CountInv => BudgetIsExact
  BY DEF CountInv
<1> QED BY <1>1, InitCounts, NextCounts, PTL DEF FaucetSpec

---------------------------------------------------------------------------
(* The trader *)

Statuses == {"landed", "erring", "confirmed", "failed"}

ChainOK ==
    /\ tx \in [Tx -> {"new", "signed", "pending"} \cup Statuses]
    /\ left \in [Tx -> Int]

ToldOK ==
    /\ try \in [Trader -> 1..Tries]
    /\ told \in [Trader -> [1..Tries -> {"nothing", "error", "failed", "sig", "expired"}]]
    /\ DOMAIN stage = Trader

(* The height an order was signed for was seen to pass before the last look. *)
LastLookIsLate == \A o \in Trader : stage[o] = "final" => Expired(Order(o))

TradeInv == ChainOK /\ ToldOK /\ LastLookIsLate /\ ExpiredNeverRests

(* What has expired without a status never gets one. *)
LEMMA TooLateToLand ==
    ASSUME ChainOK, NEW t \in Tx, Expired(t),
           ChainNext \/ (\E o \in Trader : Order(o) \in Tx /\ (Sign(Order(o)) \/ Broadcast(Order(o))))
                     \/ UNCHANGED chain
    PROVE  Expired(t)' /\ (~HasStatus(t) => ~HasStatus(t)')
<1>1. CASE NextBlock
  BY <1>1 DEF NextBlock, Expired, HasStatus, ChainOK
<1>2. ASSUME NEW u \in Tx, Land(u, "landed") \/ Land(u, "erring") PROVE ~HasStatus(t) => ~HasStatus(t)'
  BY <1>2 DEF Land, Expired, HasStatus, ChainOK
<1>3. ASSUME NEW u \in Tx, ForkAway(u) \/ Confirm(u) PROVE ~HasStatus(t) => ~HasStatus(t)'
  BY <1>3 DEF ForkAway, Confirm, HasStatus, ChainOK
<1>4. ASSUME NEW u \in Tx, Sign(u) \/ Broadcast(u) PROVE ~HasStatus(t) => ~HasStatus(t)'
  BY <1>4 DEF Sign, Broadcast, HasStatus, ChainOK
<1>5. ~NextBlock => left' = left
  BY DEF ChainNext, Land, ForkAway, Confirm, Sign, Broadcast, chain
<1>6. UNCHANGED chain => (~HasStatus(t) => ~HasStatus(t)')
  BY DEF chain, HasStatus
<1>7. Expired(t)'
  BY <1>1, <1>5 DEF Expired
<1> QED BY <1>1, <1>2, <1>3, <1>4, <1>6, <1>7 DEF ChainNext

LEMMA ChainStaysOK ==
    ASSUME ChainOK,
           ChainNext \/ (\E o \in Trader : Order(o) \in Tx /\ (Sign(Order(o)) \/ Broadcast(Order(o))))
                     \/ UNCHANGED chain
    PROVE  ChainOK'
<1>1. CASE NextBlock
  BY <1>1 DEF NextBlock, ChainOK
<1>2. ASSUME NEW u \in Tx, \/ Land(u, "landed") \/ Land(u, "erring") \/ ForkAway(u) \/ Confirm(u)
                           \/ Sign(u) \/ Broadcast(u)
      PROVE  ChainOK'
  BY <1>2 DEF Land, ForkAway, Confirm, Sign, Broadcast, ChainOK, Statuses
<1>3. CASE UNCHANGED chain
  BY <1>3 DEF chain, ChainOK
<1> QED BY <1>1, <1>2, <1>3 DEF ChainNext

(* A step of one trader's browser: the chain may take a step of the order, *)
(* and the trader hears of at most the order under way.                    *)
LEMMA TraderStepKeeps ==
    ASSUME TradeInv, NEW o \in Trader,
           Sign(Order(o)) \/ Broadcast(Order(o)) \/ UNCHANGED chain,
           NEW s, s = "final" => Expired(Order(o)),
           \/ Goes(o, s)
           \/ \E answer \in {"error", "failed", "sig"} : Tells(o, answer)
           \/ /\ Tells(o, "expired") /\ UNCHANGED chain
              /\ stage[o] = "final" /\ ~HasStatus(Order(o))
    PROVE  TradeInv'
<1> USE TradeAssumption
<1>1. \A q \in Trader : Order(q) \in Tx
  BY DEF Order, TradeInv, ToldOK
<1>2. ChainOK'
  BY <1>1, ChainStaysOK DEF TradeInv
<1>3. \A t \in Tx : Expired(t) => Expired(t)' /\ (~HasStatus(t) => ~HasStatus(t)')
  BY <1>1, TooLateToLand DEF TradeInv
<1>4. UNCHANGED try /\ \A q \in Trader : Order(q)' = Order(q)
  BY DEF Goes, Tells, Order
<1>5. ToldOK' /\ LastLookIsLate'
  <2>1. ToldOK'
    <3>1. CASE Goes(o, s)
      BY <3>1 DEF Goes, ToldOK, TradeInv
    <3>2. ASSUME NEW answer \in {"error", "failed", "sig", "expired"}, Tells(o, answer)
          PROVE  ToldOK'
      BY <3>2 DEF Tells, ToldOK, TradeInv
    <3> QED BY <3>1, <3>2
  <2>2. \A q \in Trader : stage'[q] = "final" => Expired(Order(q))
    BY DEF Goes, Tells, LastLookIsLate, TradeInv, ToldOK
  <2>3. \A q \in Trader : stage'[q] = "final" => Expired(Order(q))'
    BY <2>2, <1>1, <1>3, <1>4 DEF Expired
  <2> QED BY <2>1, <2>3 DEF LastLookIsLate
<1>6. \A q \in Trader, i \in 1..Tries :
        told'[q][i] = "expired" => Expired(<<q, i>>) /\ ~HasStatus(<<q, i>>)
  <2>1. \A q \in Trader, i \in 1..Tries :
          told'[q][i] = "expired" => \/ told[q][i] = "expired"
                                    \/ /\ q = o /\ i = try[o]
                                       /\ stage[o] = "final" /\ ~HasStatus(Order(o))
    BY DEF Goes, Tells, TradeInv, ToldOK
  <2> QED BY <2>1 DEF TradeInv, ExpiredNeverRests, LastLookIsLate, Order
<1>7. ExpiredNeverRests'
  BY <1>6, <1>3 DEF ExpiredNeverRests, Expired, HasStatus
<1> QED BY <1>2, <1>5, <1>7 DEF TradeInv

LEMMA TradeNextKeeps == TradeInv /\ [TradeNext]_<<chain, tradeVars>> => TradeInv'
<1> SUFFICES ASSUME TradeInv, [TradeNext]_<<chain, tradeVars>> PROVE TradeInv'
  OBVIOUS
<1> USE TradeAssumption
<1>1. CASE (ChainNext \/ UNCHANGED chain) /\ UNCHANGED tradeVars
  <2>1. ChainOK' /\ \A t \in Tx : Expired(t) => Expired(t)' /\ (~HasStatus(t) => ~HasStatus(t)')
    BY <1>1, ChainStaysOK, TooLateToLand DEF TradeInv
  <2>2. ToldOK' /\ LastLookIsLate'
    BY <1>1, <2>1 DEF tradeVars, TradeInv, ToldOK, LastLookIsLate, Order, Expired
  <2>3. ExpiredNeverRests'
    BY <1>1, <2>1 DEF tradeVars, TradeInv, ExpiredNeverRests, Expired, HasStatus
  <2> QED BY <2>1, <2>2, <2>3 DEF TradeInv
<1>2. ASSUME NEW o \in Trader, \/ SignOrder(o) \/ SendOrder(o) \/ SendThrows(o) \/ Poll(o)
                               \/ CheckHeight(o) \/ FinalLook(o) \/ ReadThrows(o)
      PROVE  TradeInv'
  <2>1. Sign(Order(o)) \/ Broadcast(Order(o)) \/ UNCHANGED chain
    BY <1>2 DEF SignOrder, SendOrder, SendThrows, Poll, CheckHeight, FinalLook, ReadThrows
  <2>2. \/ \E s \in {"signed", "poll", "height"} : Goes(o, s)
        \/ Goes(o, "final") /\ Expired(Order(o))
        \/ \E answer \in {"error", "failed", "sig"} : Tells(o, answer)
        \/ /\ Tells(o, "expired") /\ UNCHANGED chain
           /\ stage[o] = "final" /\ ~HasStatus(Order(o))
    BY <1>2 DEF SignOrder, SendOrder, SendThrows, Poll, CheckHeight, FinalLook, ReadThrows
  <2>3. ASSUME NEW s \in {"signed", "poll", "height"}, Goes(o, s) PROVE TradeInv'
    BY <2>1, <2>3, TraderStepKeeps
  <2>4. ASSUME Goes(o, "final"), Expired(Order(o)) PROVE TradeInv'
    BY <2>1, <2>4, TraderStepKeeps
  <2>5. ASSUME (\E answer \in {"error", "failed", "sig"} : Tells(o, answer))
               \/ (Tells(o, "expired") /\ UNCHANGED chain
                    /\ stage[o] = "final" /\ ~HasStatus(Order(o)))
        PROVE  TradeInv'
    BY <2>1, <2>5, TraderStepKeeps, "none" # "final"
  <2> QED BY <2>2, <2>3, <2>4, <2>5
<1>3. ASSUME NEW o \in Trader, Again(o) PROVE TradeInv'
  <2>1. /\ ChainOK' /\ ToldOK' /\ LastLookIsLate'
    BY <1>3 DEF Again, chain, TradeInv, ChainOK, ToldOK, LastLookIsLate, Order, Expired
  <2>2. ExpiredNeverRests'
    BY <1>3 DEF Again, chain, TradeInv, ExpiredNeverRests, Expired, HasStatus
  <2> QED BY <2>1, <2>2 DEF TradeInv
<1> QED BY <1>1, <1>2, <1>3 DEF TradeNext, chain, tradeVars

(* An order that its trader was told had expired has no status and never   *)
(* will (actions.ts:29-49).                                                *)
THEOREM ExpiredIsTheTruth == TradeSpec => []ExpiredNeverRests
<1>1. TxInit /\ TradeInit => TradeInv
  <2> SUFFICES ASSUME TxInit, TradeInit PROVE TradeInv
    OBVIOUS
  <2>1. ChainOK
    BY LifeAssumption DEF TxInit, ChainOK
  <2>2. ToldOK
    BY TradeAssumption DEF TradeInit, ToldOK
  <2>3. LastLookIsLate /\ ExpiredNeverRests
    BY DEF TradeInit, LastLookIsLate, ExpiredNeverRests
  <2> QED BY <2>1, <2>2, <2>3 DEF TradeInv
<1>2. TradeInv => ExpiredNeverRests
  BY DEF TradeInv
<1> QED BY <1>1, <1>2, TradeNextKeeps, PTL DEF TradeSpec

(***************************************************************************)
(* Bringup.  For any listings and ids, any number of mishaps and of runs:  *)
(* every market that either file names is whole.                           *)
(*                                                                         *)
(* A run moves on only when its transaction succeeded, and no transaction, *)
(* however late and whosever, takes back what another one did: trees stay, *)
(* so do their sentinel, their orders and a book's authority over them,    *)
(* and no config is written twice.  So the facts a run made are facts      *)
(* until it records its market, and afterwards (Facts, Solid).             *)
(***************************************************************************)

(* Induction, from the finite sets: a number outside A would map the       *)
(* members of A up to it one to one into themselves, missing zero.         *)
LEMMA NatInductionOn ==
    ASSUME NEW A, 0 \in A, \A n \in Nat : n \in A => n + 1 \in A
    PROVE  \A n \in Nat : n \in A
<1> SUFFICES ASSUME NEW m \in Nat, m \notin A PROVE FALSE
  OBVIOUS
<1> DEFINE B == {n \in 0..m : n \in A}
           f == [n \in B |-> n + 1]
<1>1. IsFiniteSet(B)
  <2>1. IsFiniteSet(0..m)
    BY FS_Interval
  <2> QED BY <2>1, FS_Subset
<1>2. \A n \in B : n + 1 \in B
  OBVIOUS
<1>3. f \in [B -> B] /\ \A x, y \in B : f[x] = f[y] => x = y
  BY <1>2
<1>4. f \in Injection(B, B)
  BY <1>3 DEF Injection, IsInjective
<1>5. f \in Surjection(B, B)
  BY <1>1, <1>4, FS_Injection
<1>6. 0 \in B
  OBVIOUS
<1>7. PICK n \in B : f[n] = 0
  BY <1>5, <1>6 DEF Surjection
<1> QED BY <1>7

---------------------------------------------------------------------------
(* A set of naturals that is not empty has a least one. *)
LEMMA LeastIsThere ==
    ASSUME NEW S \in SUBSET Nat, S # {}
    PROVE  Min(S) \in S
<1> SUFFICES ASSUME \A x \in S : \E y \in S : ~(x <= y) PROVE FALSE
  BY DEF Min
<1> DEFINE A == {n \in Nat : \A m \in 0..n : m \notin S}
<1>1. 0 \in A
  <2> SUFFICES ASSUME 0 \in S PROVE FALSE
    OBVIOUS
  <2> QED OBVIOUS
<1>2. ASSUME NEW n \in Nat, n \in A PROVE n + 1 \in A
  <2>1. \A m \in 0..n : m \notin S
    BY <1>2
  <2>2. n + 1 \notin S
    <3> SUFFICES ASSUME n + 1 \in S PROVE FALSE
      OBVIOUS
    <3>1. PICK y \in S : ~(n + 1 <= y)
      OBVIOUS
    <3>2. y \in 0..n
      BY <3>1
    <3> QED BY <2>1, <3>2
  <2>3. \A m \in 0..(n + 1) : m \in 0..n \/ m = n + 1
    OBVIOUS
  <2> QED BY <2>1, <2>2, <2>3
<1> HIDE DEF A
<1>3. \A n \in Nat : n \in A
  BY <1>1, <1>2, NatInductionOn
<1>4. PICK x \in S : TRUE
  OBVIOUS
<1>5. x \in A /\ x \in 0..x
  BY <1>3
<1> QED BY <1>5 DEF A

(* A run that sets up a market, and how far it is: its preparations are    *)
(* picks and mints, and from the first transaction on both scripts do the  *)
(* same.                                                                   *)
BringsUp(r) == r.program = "single" \/ r.symbol # "none"
Stage(r) == r.at - (IF r.program = "single" THEN 2 ELSE 4)

Runs ==
    [program : {"venue", "single"}, symbol : Range(Listings) \cup {"none"}, at : Nat \ {0}, attempt : Nat,
     market : Nat, ask : Nat, bid : Nat, base : Nat, quote : Nat]

AllSteps ==
    {<<"mint", "quote">>, <<"mint", "base">>, <<"pick", "market">>, <<"pick", "ask">>, <<"pick", "bid">>,
     <<"init", "ask">>, <<"seed", "ask">>, <<"hand", "ask">>, <<"init", "bid">>, <<"seed", "bid">>, <<"hand", "bid">>,
     <<"open", "both">>, <<"place", "ask">>, <<"place", "bid">>, <<"record", "file">>}
StepSeq == Seq(AllSteps)

LEMMA TwoInRow ==
    ASSUME NEW S, NEW a \in S, NEW b \in S PROVE <<a, b>> \in Seq(S) /\ Len(<<a, b>>) = 2
OBVIOUS

LEMMA FourInRow ==
    ASSUME NEW S, NEW a \in S, NEW b \in S, NEW c \in S, NEW d \in S
    PROVE  <<a, b, c, d>> \in Seq(S) /\ Len(<<a, b, c, d>>) = 4
OBVIOUS

LEMMA SixInRow ==
    ASSUME NEW S, NEW a \in S, NEW b \in S, NEW c \in S, NEW d \in S, NEW e \in S, NEW f \in S
    PROVE  <<a, b, c, d, e, f>> \in Seq(S) /\ Len(<<a, b, c, d, e, f>>) = 6
OBVIOUS

LEMMA RowsAreSteps ==
    /\ Trees \in StepSeq /\ Len(Trees) = 6
    /\ Opens \in StepSeq /\ Len(Opens) = 4
<1>1. /\ <<"init", "ask">> \in AllSteps /\ <<"seed", "ask">> \in AllSteps /\ <<"hand", "ask">> \in AllSteps
      /\ <<"init", "bid">> \in AllSteps /\ <<"seed", "bid">> \in AllSteps /\ <<"hand", "bid">> \in AllSteps
      /\ <<"open", "both">> \in AllSteps /\ <<"place", "ask">> \in AllSteps /\ <<"place", "bid">> \in AllSteps
      /\ <<"record", "file">> \in AllSteps
  BY Zenon DEF AllSteps
<1> QED BY <1>1, FourInRow, SixInRow DEF Trees, Opens, StepSeq

(* From the first transaction on. *)
Common == Trees \o Opens

LEMMA CommonSteps ==
    /\ Common \in StepSeq /\ Len(Common) = 10
    /\ Common[1] = <<"init", "ask">> /\ Common[2] = <<"seed", "ask">> /\ Common[3] = <<"hand", "ask">>
    /\ Common[4] = <<"init", "bid">> /\ Common[5] = <<"seed", "bid">> /\ Common[6] = <<"hand", "bid">>
    /\ Common[7] = <<"open", "both">> /\ Common[8] = <<"place", "ask">> /\ Common[9] = <<"place", "bid">>
    /\ Common[10] = <<"record", "file">>
<1>3. /\ Common \in StepSeq /\ Len(Common) = 10
      /\ \A i \in 1..10 : Common[i] = IF i <= 6 THEN Trees[i] ELSE Opens[i - 6]
  <2>1. /\ Common \in StepSeq /\ Len(Common) = Len(Trees) + Len(Opens)
        /\ \A i \in 1..Len(Trees) + Len(Opens) : Common[i] = IF i <= Len(Trees) THEN Trees[i] ELSE Opens[i - Len(Trees)]
    BY Zenon, RowsAreSteps, ConcatProperties DEF Common, StepSeq
  <2> HIDE DEF Trees, Opens
  <2> QED BY <2>1, RowsAreSteps
<1>4. /\ \A i \in 1..6 : Common[i] = Trees[i]
      /\ Common[7] = Opens[1] /\ Common[8] = Opens[2] /\ Common[9] = Opens[3] /\ Common[10] = Opens[4]
  BY <1>3
<1>5. /\ Trees[1] = <<"init", "ask">> /\ Trees[2] = <<"seed", "ask">> /\ Trees[3] = <<"hand", "ask">>
      /\ Trees[4] = <<"init", "bid">> /\ Trees[5] = <<"seed", "bid">> /\ Trees[6] = <<"hand", "bid">>
      /\ Opens[1] = <<"open", "both">> /\ Opens[2] = <<"place", "ask">> /\ Opens[3] = <<"place", "bid">>
      /\ Opens[4] = <<"record", "file">>
  BY DEF Trees, Opens
<1> QED BY <1>3, <1>4, <1>5

LEMMA TheSteps ==
    /\ SharedSteps[1] = <<"mint", "quote">> /\ SharedSteps[2] = <<"record", "file">>
    /\ MarketSteps[1] = <<"pick", "market">> /\ MarketSteps[2] = <<"pick", "ask">>
    /\ MarketSteps[3] = <<"pick", "bid">> /\ MarketSteps[4] = <<"mint", "base">>
    /\ \A i \in 1..10 : MarketSteps[i + 4] = Common[i]
    /\ SingleSteps[1] = <<"mint", "base">> /\ SingleSteps[2] = <<"mint", "quote">>
    /\ \A i \in 1..10 : SingleSteps[i + 2] = Common[i]
<1> DEFINE four == <<<<"pick", "market">>, <<"pick", "ask">>, <<"pick", "bid">>, <<"mint", "base">>>>
           two == <<<<"mint", "base">>, <<"mint", "quote">>>>
<1>1. four \in StepSeq /\ Len(four) = 4 /\ two \in StepSeq /\ Len(two) = 2
  <2>1. /\ <<"pick", "market">> \in AllSteps /\ <<"pick", "ask">> \in AllSteps /\ <<"pick", "bid">> \in AllSteps
        /\ <<"mint", "base">> \in AllSteps /\ <<"mint", "quote">> \in AllSteps
    BY Zenon DEF AllSteps
  <2> QED BY <2>1, FourInRow, TwoInRow DEF StepSeq
<1>2. /\ four[1] = <<"pick", "market">> /\ four[2] = <<"pick", "ask">> /\ four[3] = <<"pick", "bid">>
      /\ four[4] = <<"mint", "base">> /\ two[1] = <<"mint", "base">> /\ two[2] = <<"mint", "quote">>
  OBVIOUS
<1>4. MarketSteps = (four \o Trees) \o Opens /\ SingleSteps = (two \o Trees) \o Opens
  BY Zenon DEF MarketSteps, SingleSteps
<1> HIDE DEF four, two
<1>5. MarketSteps = four \o Common /\ SingleSteps = two \o Common
  <2>0. four \in Seq(AllSteps) /\ two \in Seq(AllSteps) /\ Trees \in Seq(AllSteps) /\ Opens \in Seq(AllSteps)
    BY <1>1, RowsAreSteps DEF StepSeq
  <2> HIDE DEF Trees, Opens
  <2>1. (four \o Trees) \o Opens = four \o (Trees \o Opens)
    BY ONLY <2>0, ConcatAssociative
  <2>2. (two \o Trees) \o Opens = two \o (Trees \o Opens)
    BY ONLY <2>0, ConcatAssociative
  <2> QED BY Zenon, <1>4, <2>1, <2>2 DEF Common
<1>6. /\ \A i \in 1..14 : MarketSteps[i] = IF i <= 4 THEN four[i] ELSE Common[i - 4]
      /\ \A i \in 1..12 : SingleSteps[i] = IF i <= 2 THEN two[i] ELSE Common[i - 2]
  <2>1. /\ \A i \in 1..Len(four) + Len(Common) : MarketSteps[i] = IF i <= Len(four) THEN four[i] ELSE Common[i - Len(four)]
        /\ \A i \in 1..Len(two) + Len(Common) : SingleSteps[i] = IF i <= Len(two) THEN two[i] ELSE Common[i - Len(two)]
    BY Zenon, <1>1, <1>5, CommonSteps, ConcatProperties DEF StepSeq
  <2>2. Len(Common) = 10
    BY CommonSteps
  <2> QED BY <1>1, <2>1, <2>2
<1>7. \A i \in 1..10 : MarketSteps[i + 4] = Common[i] /\ SingleSteps[i + 2] = Common[i]
  <2> SUFFICES ASSUME NEW i \in 1..10 PROVE MarketSteps[i + 4] = Common[i] /\ SingleSteps[i + 2] = Common[i]
    OBVIOUS
  <2>1. /\ i + 4 \in 1..14 /\ ~(i + 4 <= 4) /\ (i + 4) - 4 = i
        /\ i + 2 \in 1..12 /\ ~(i + 2 <= 2) /\ (i + 2) - 2 = i
    OBVIOUS
  <2> QED BY <1>6, <2>1
<1>8. /\ MarketSteps[1] = four[1] /\ MarketSteps[2] = four[2] /\ MarketSteps[3] = four[3] /\ MarketSteps[4] = four[4]
      /\ SingleSteps[1] = two[1] /\ SingleSteps[2] = two[2]
  BY <1>6
<1>9. SharedSteps[1] = <<"mint", "quote">> /\ SharedSteps[2] = <<"record", "file">>
  BY DEF SharedSteps
<1> QED BY <1>2, <1>7, <1>8, <1>9

InBounds(r) == IF BringsUp(r) THEN Stage(r) <= 10 ELSE r.at <= 2

Is(r, kind, which) == StepsOf(r)[r.at] = <<kind, which>>

(* Where a run is. *)
Position(r) ==
    LET j == Stage(r) IN
    \/ ~BringsUp(r) /\ r.at = 1 /\ Is(r, "mint", "quote")
    \/ ~BringsUp(r) /\ r.at = 2 /\ Is(r, "record", "file")
    \/ BringsUp(r) /\ r.program = "venue" /\ j = -3 /\ Is(r, "pick", "market")
    \/ BringsUp(r) /\ r.program = "venue" /\ j = -2 /\ Is(r, "pick", "ask")
    \/ BringsUp(r) /\ r.program = "venue" /\ j = -1 /\ Is(r, "pick", "bid")
    \/ BringsUp(r) /\ r.program = "venue" /\ j = 0 /\ Is(r, "mint", "base")
    \/ BringsUp(r) /\ r.program = "single" /\ j = -1 /\ Is(r, "mint", "base")
    \/ BringsUp(r) /\ r.program = "single" /\ j = 0 /\ Is(r, "mint", "quote")
    \/ BringsUp(r) /\ j = 1 /\ Is(r, "init", "ask")
    \/ BringsUp(r) /\ j = 2 /\ Is(r, "seed", "ask")
    \/ BringsUp(r) /\ j = 3 /\ Is(r, "hand", "ask")
    \/ BringsUp(r) /\ j = 4 /\ Is(r, "init", "bid")
    \/ BringsUp(r) /\ j = 5 /\ Is(r, "seed", "bid")
    \/ BringsUp(r) /\ j = 6 /\ Is(r, "hand", "bid")
    \/ BringsUp(r) /\ j = 7 /\ Is(r, "open", "both")
    \/ BringsUp(r) /\ j = 8 /\ Is(r, "place", "ask")
    \/ BringsUp(r) /\ j = 9 /\ Is(r, "place", "bid")
    \/ BringsUp(r) /\ j = 10 /\ Is(r, "record", "file")

LEMMA Positions ==
    ASSUME NEW r \in Runs, InBounds(r)
    PROVE  Position(r)
<1>1. r.program \in {"venue", "single"} /\ r.at \in Nat /\ r.at # 0
  BY DEF Runs
<1>2. CASE ~BringsUp(r)
  <2>1. StepsOf(r) = SharedSteps
    BY <1>1, <1>2 DEF BringsUp, StepsOf
  <2>2. r.at = 1 \/ r.at = 2
    BY <1>1, <1>2 DEF InBounds
  <2>3. r.at = 1 => Is(r, "mint", "quote")
    BY <2>1, TheSteps DEF Is
  <2>4. r.at = 2 => Is(r, "record", "file")
    BY <2>1, TheSteps DEF Is
  <2> QED BY <1>2, <2>2, <2>3, <2>4 DEF Position
<1>3. CASE BringsUp(r)
  <2> DEFINE j == Stage(r)
  <2>1. j \in 1..10 => StepsOf(r)[r.at] = Common[j]
    <3>1. CASE r.program = "single"
      <4>1. StepsOf(r) = SingleSteps /\ r.at = j + 2
        BY <1>1, <3>1 DEF StepsOf, Stage
      <4> HIDE DEF j
      <4> QED BY <4>1, TheSteps
    <3>2. CASE r.program # "single"
      <4>1. StepsOf(r) = MarketSteps
        BY <1>3, <3>2 DEF StepsOf, BringsUp
      <4>2. r.at = j + 4
        BY <1>1, <3>2 DEF Stage
      <4> HIDE DEF j
      <4> QED BY <4>1, <4>2, TheSteps
    <3> QED BY <3>1, <3>2
  <2>2. j \in Int /\ j <= 10
    BY <1>1, <1>3 DEF Stage, InBounds
  <2>3. CASE j > 0
    <3>1. \/ j = 1 \/ j = 2 \/ j = 3 \/ j = 4 \/ j = 5 \/ j = 6 \/ j = 7 \/ j = 8 \/ j = 9 \/ j = 10
      BY <2>2, <2>3
    <3> HIDE DEF j
    <3>3. /\ j = 1 => Is(r, "init", "ask")
          /\ j = 2 => Is(r, "seed", "ask")
          /\ j = 3 => Is(r, "hand", "ask")
      BY <2>1, CommonSteps DEF Is
    <3>4. /\ j = 4 => Is(r, "init", "bid")
          /\ j = 5 => Is(r, "seed", "bid")
          /\ j = 6 => Is(r, "hand", "bid")
      BY <2>1, CommonSteps DEF Is
    <3>5. /\ j = 7 => Is(r, "open", "both")
          /\ j = 8 => Is(r, "place", "ask")
          /\ j = 9 => Is(r, "place", "bid")
          /\ j = 10 => Is(r, "record", "file")
      BY <2>1, CommonSteps DEF Is
    <3>6. j = Stage(r)
      BY DEF j
    <3> QED BY <1>3, <3>1, <3>3, <3>4, <3>5, <3>6 DEF Position
  <2>4. CASE j <= 0 /\ r.program = "single"
    <3>1. StepsOf(r) = SingleSteps /\ j = r.at - 2
      BY <2>4 DEF StepsOf, Stage
    <3>2. (j = -1 /\ r.at = 1) \/ (j = 0 /\ r.at = 2)
      BY <1>1, <2>4, <3>1
    <3> HIDE DEF j
    <3>5. j = Stage(r)
      BY DEF j
    <3>3. j = -1 => Is(r, "mint", "base")
      BY <3>1, <3>2, TheSteps DEF Is
    <3>4. j = 0 => Is(r, "mint", "quote")
      BY <3>1, <3>2, TheSteps DEF Is
    <3> QED BY <1>3, <2>4, <3>2, <3>3, <3>4, <3>5 DEF Position
  <2>5. CASE j <= 0 /\ r.program = "venue"
    <3>1. StepsOf(r) = MarketSteps /\ j = r.at - 4
      BY <1>3, <2>5 DEF StepsOf, Stage, BringsUp
    <3>2. (j = -3 /\ r.at = 1) \/ (j = -2 /\ r.at = 2) \/ (j = -1 /\ r.at = 3) \/ (j = 0 /\ r.at = 4)
      BY <1>1, <2>5, <3>1
    <3> HIDE DEF j
    <3>3. (j = -3 => Is(r, "pick", "market")) /\ (j = -2 => Is(r, "pick", "ask"))
      BY <3>1, <3>2, TheSteps DEF Is
    <3>4. (j = -1 => Is(r, "pick", "bid")) /\ (j = 0 => Is(r, "mint", "base"))
      BY <3>1, <3>2, TheSteps DEF Is
    <3>5. j = Stage(r)
      BY DEF j
    <3> QED BY <1>3, <2>5, <3>2, <3>3, <3>4, <3>5 DEF Position
  <2> QED BY <1>1, <2>2, <2>3, <2>4, <2>5
<1> QED BY <1>2, <1>3

---------------------------------------------------------------------------
(* What the chain keeps *)

TreesOK(T) ==
    /\ T = [t \in DOMAIN T |-> T[t]]
    /\ \A t \in DOMAIN T :
        /\ T[t] = [authority |-> T[t].authority, seeded |-> T[t].seeded, orders |-> T[t].orders]
        /\ T[t].orders \in Nat

(* No transaction takes back what another one did. *)
Later(T, C, T2, C2) ==
    /\ \A t \in DOMAIN T :
        /\ t \in DOMAIN T2
        /\ T[t].seeded => T2[t].seeded
        /\ T[t].authority # Payer => T2[t].authority = T[t].authority
        /\ T[t].orders > 0 => T2[t].orders > 0
    /\ \A m \in DOMAIN C : m \in DOMAIN C2 /\ C2[m] = C[m]

LEMMA NothingIsTakenBack ==
    ASSUME TreesOK(trees), NEW late, Works(late), Lands(late)
    PROVE  TreesOK(trees') /\ Later(trees, configs, trees', configs')
<1>1. /\ trees = [t \in DOMAIN trees |-> trees[t]]
      /\ \A t \in DOMAIN trees :
          /\ trees[t] = [authority |-> trees[t].authority, seeded |-> trees[t].seeded, orders |-> trees[t].orders]
          /\ trees[t].orders \in Nat
  BY DEF TreesOK
<1>2. \A m \in DOMAIN configs : m \in DOMAIN configs' /\ configs'[m] = configs[m]
  BY DEF Lands, Works, With
<1>3. CASE late.kind = "init"
  <2>1. late.tree \notin DOMAIN trees
    BY <1>3 DEF Works
  <2>2. trees' = [z \in DOMAIN trees \cup {late.tree} |->
                    IF z = late.tree THEN [authority |-> Payer, seeded |-> FALSE, orders |-> 0] ELSE trees[z]]
    BY <1>3 DEF Lands, With
  <2>3. \A t \in DOMAIN trees : t \in DOMAIN trees' /\ trees'[t] = trees[t]
    BY <2>1, <2>2
  <2>4. DOMAIN trees' = DOMAIN trees \cup {late.tree} /\ trees'[late.tree] = [authority |-> Payer, seeded |-> FALSE, orders |-> 0]
    BY <2>2
  <2>5. trees' = [t \in DOMAIN trees' |-> trees'[t]]
    BY <2>2
  <2>6. TreesOK(trees')
    BY <1>1, <2>3, <2>4, <2>5 DEF TreesOK
  <2> QED BY <1>2, <2>3, <2>6 DEF Later
<1>4. CASE late.kind = "seed"
  <2>1. trees' = [trees EXCEPT ![late.tree].seeded = TRUE]
    BY <1>4 DEF Lands
  <2>2. DOMAIN trees' = DOMAIN trees /\ trees' = [t \in DOMAIN trees' |-> trees'[t]]
    BY <1>1, <2>1
  <2>3. \A t \in DOMAIN trees : t # late.tree => trees'[t] = trees[t]
    BY <1>1, <2>1
  <2>4. late.tree \in DOMAIN trees =>
            trees'[late.tree] = [authority |-> trees[late.tree].authority, seeded |-> TRUE, orders |-> trees[late.tree].orders]
    <3> SUFFICES ASSUME late.tree \in DOMAIN trees
                 PROVE  trees'[late.tree] = [authority |-> trees[late.tree].authority, seeded |-> TRUE, orders |-> trees[late.tree].orders]
      OBVIOUS
    <3>1. trees'[late.tree] = [trees[late.tree] EXCEPT !.seeded = TRUE]
      BY <1>1, <2>1
    <3>2. ASSUME NEW f, NEW a, NEW b, NEW c, NEW v, f = [authority |-> a, seeded |-> b, orders |-> c]
          PROVE  [f EXCEPT !.seeded = v] = [authority |-> a, seeded |-> v, orders |-> c]
      BY <3>2
    <3>3. trees[late.tree] = [authority |-> trees[late.tree].authority, seeded |-> trees[late.tree].seeded, orders |-> trees[late.tree].orders]
      BY <1>1
    <3> QED BY <3>1, <3>2, <3>3
  <2>5. TreesOK(trees')
    BY <1>1, <2>2, <2>3, <2>4 DEF TreesOK
  <2> QED BY <1>2, <2>2, <2>3, <2>4, <2>5 DEF Later
<1>5. CASE late.kind = "hand"
  <2>1. trees' = [trees EXCEPT ![late.tree].authority = late.market] /\ trees[late.tree].authority = Payer
    BY <1>5 DEF Lands, Works
  <2>2. DOMAIN trees' = DOMAIN trees /\ trees' = [t \in DOMAIN trees' |-> trees'[t]]
    BY <1>1, <2>1
  <2>3. \A t \in DOMAIN trees : t # late.tree => trees'[t] = trees[t]
    BY <1>1, <2>1
  <2>4. late.tree \in DOMAIN trees =>
            trees'[late.tree] = [authority |-> late.market, seeded |-> trees[late.tree].seeded, orders |-> trees[late.tree].orders]
    BY <1>1, <2>1
  <2>5. TreesOK(trees')
    BY <1>1, <2>2, <2>3, <2>4 DEF TreesOK
  <2> QED BY <1>2, <2>1, <2>2, <2>3, <2>4, <2>5 DEF Later
<1>6. CASE late.kind = "place"
  <2>1. trees' = [trees EXCEPT ![late.tree].orders = @ + 1]
    BY <1>6 DEF Lands
  <2>2. DOMAIN trees' = DOMAIN trees /\ trees' = [t \in DOMAIN trees' |-> trees'[t]]
    BY <1>1, <2>1
  <2>3. \A t \in DOMAIN trees : t # late.tree => trees'[t] = trees[t]
    BY <1>1, <2>1
  <2>4. late.tree \in DOMAIN trees =>
            trees'[late.tree] = [authority |-> trees[late.tree].authority, seeded |-> trees[late.tree].seeded, orders |-> trees[late.tree].orders + 1]
    BY <1>1, <2>1
  <2>5. TreesOK(trees')
    BY <1>1, <2>2, <2>3, <2>4 DEF TreesOK
  <2>6. \A t \in DOMAIN trees : trees[t].orders > 0 => trees'[t].orders > 0
    BY <1>1, <2>3, <2>4
  <2> QED BY <1>2, <2>2, <2>3, <2>4, <2>5, <2>6 DEF Later
<1>7. CASE late.kind \notin {"init", "seed", "hand", "place"}
  <2>1. trees' = trees
    BY <1>7 DEF Lands
  <2> QED BY <1>2, <2>1 DEF Later
<1> QED BY <1>3, <1>4, <1>5, <1>6, <1>7

---------------------------------------------------------------------------
(* What a run has done *)

Config(r) == [ask |-> r.ask, bid |-> r.bid, base |-> r.base, quote |-> r.quote]

Opened(T, C, m, c) ==
    /\ m # Payer /\ m \in DOMAIN C /\ C[m] = c
    /\ \A t \in {c.ask, c.bid} : t \in DOMAIN T /\ T[t].authority = m

Sown(T, t) == t \in DOMAIN T /\ T[t].seeded
Laddered(T, t) == t \in DOMAIN T /\ T[t].orders > 0

(* Everything up to where it is, whatever others do. *)
Facts(T, C, r) ==
    LET j == Stage(r) IN
    /\ j > 1 => r.ask \in DOMAIN T
    /\ j > 2 => Sown(T, r.ask)
    /\ j > 4 => r.bid \in DOMAIN T
    /\ j > 5 => Sown(T, r.bid)
    /\ j > 7 => Opened(T, C, r.market, Config(r))
    /\ j > 8 => Laddered(T, r.ask)
    /\ j > 9 => Laddered(T, r.bid)

LEMMA FactsStay ==
    ASSUME NEW T, NEW C, NEW T2, NEW C2, NEW r, Later(T, C, T2, C2), Facts(T, C, r)
    PROVE  Facts(T2, C2, r)
<1>1. \A t : t \in DOMAIN T => t \in DOMAIN T2
  BY DEF Later
<1>2. \A t : Sown(T, t) => Sown(T2, t)
  BY DEF Later, Sown
<1>3. \A t : Laddered(T, t) => Laddered(T2, t)
  BY DEF Later, Laddered
<1>4. ASSUME NEW m, NEW c, Opened(T, C, m, c) PROVE Opened(T2, C2, m, c)
  BY <1>4 DEF Later, Opened
<1> QED BY <1>1, <1>2, <1>3, <1>4 DEF Facts

(* A market of a file. *)
Solid(T, C, m, quote) ==
    /\ Opened(T, C, m.market, [ask |-> m.ask, bid |-> m.bid, base |-> m.base, quote |-> quote])
    /\ \A t \in {m.ask, m.bid} : Sown(T, t) /\ Laddered(T, t)

LEMMA SolidStays ==
    ASSUME NEW T, NEW C, NEW T2, NEW C2, NEW m, NEW q, Later(T, C, T2, C2), Solid(T, C, m, q)
    PROVE  Solid(T2, C2, m, q)
<1>1. \A t : Sown(T, t) /\ Laddered(T, t) => Sown(T2, t) /\ Laddered(T2, t)
  BY DEF Later, Sown, Laddered
<1>2. ASSUME NEW k, NEW c, Opened(T, C, k, c) PROVE Opened(T2, C2, k, c)
  BY <1>2 DEF Later, Opened
<1> QED BY <1>1, <1>2 DEF Solid

LEMMA DoneIsSolid ==
    ASSUME NEW T, NEW C, NEW r \in Runs, Facts(T, C, r), Stage(r) = 10
    PROVE  Solid(T, C, MarketOf(r), r.quote)
<1>1. /\ Sown(T, r.ask) /\ Sown(T, r.bid) /\ Laddered(T, r.ask) /\ Laddered(T, r.bid)
      /\ Opened(T, C, r.market, Config(r))
  BY DEF Facts
<1>2. /\ MarketOf(r).market = r.market /\ MarketOf(r).ask = r.ask
      /\ MarketOf(r).bid = r.bid /\ MarketOf(r).base = r.base
  BY DEF MarketOf
<1> QED BY <1>1, <1>2 DEF Solid, Config

---------------------------------------------------------------------------
(* The invariant *)

RunOK(T, C, v, r) ==
    \/ r = Stopped
    \/ /\ r \in Runs /\ InBounds(r)
       /\ BringsUp(r) => r.market # Payer /\ Facts(T, C, r)
       /\ r.program = "venue" /\ BringsUp(r) => v # None /\ r.quote = v.quote

VenueOK(T, C, v) ==
    \/ v = None
    \/ /\ v = [quote |-> v.quote, markets |-> v.markets] /\ v.quote \in Nat
       /\ \A s \in DOMAIN v.markets : Solid(T, C, v.markets[s], v.quote)

FileOK(T, C, f) == f = None \/ Solid(T, C, f.is, f.quote)

BringupInv ==
    /\ TreesOK(trees) /\ mints \in Nat
    /\ RunOK(trees, configs, venue, run)
    /\ VenueOK(trees, configs, venue)
    /\ FileOK(trees, configs, marketFile)

LEMMA FilesStay ==
    ASSUME NEW T, NEW C, NEW T2, NEW C2, NEW v, NEW f, Later(T, C, T2, C2), VenueOK(T, C, v), FileOK(T, C, f)
    PROVE  VenueOK(T2, C2, v) /\ FileOK(T2, C2, f)
BY SolidStays DEF VenueOK, FileOK

LEMMA RunStays ==
    ASSUME NEW T, NEW C, NEW T2, NEW C2, NEW v, NEW r, Later(T, C, T2, C2), RunOK(T, C, v, r)
    PROVE  RunOK(T2, C2, v, r)
BY FactsStay DEF RunOK

LEMMA StoppedIsOK ==
    ASSUME NEW T, NEW C, NEW v
    PROVE  RunOK(T, C, v, Stopped)
BY DEF RunOK

(* Another attempt. *)
LEMMA RetryIsOK ==
    ASSUME NEW T, NEW C, NEW v, NEW r, r # Stopped, RunOK(T, C, v, r)
    PROVE  RunOK(T, C, v, [r EXCEPT !.attempt = @ + 1])
<1> DEFINE q == [r EXCEPT !.attempt = @ + 1]
<1>1. r \in Runs
  BY DEF RunOK
<1>2. /\ q \in Runs /\ q.program = r.program /\ q.symbol = r.symbol /\ q.at = r.at /\ q.market = r.market
      /\ q.ask = r.ask /\ q.bid = r.bid /\ q.base = r.base /\ q.quote = r.quote
  BY <1>1 DEF Runs
<1> HIDE DEF q
<1>3. (BringsUp(q) <=> BringsUp(r)) /\ Stage(q) = Stage(r) /\ Config(q) = Config(r)
  BY <1>2 DEF BringsUp, Stage, Config
<1>4. Facts(T, C, r) => Facts(T, C, q)
  BY <1>2, <1>3 DEF Facts
<1>5. InBounds(r) => InBounds(q)
  BY <1>2, <1>3 DEF InBounds
<1>6. RunOK(T, C, v, q)
  BY <1>2, <1>3, <1>4, <1>5 DEF RunOK
<1> QED BY <1>6 DEF q

(* One more step done, with other ids while there are only preparations. *)
LEMMA AdvanceIsOK ==
    ASSUME NEW T, NEW C, NEW v, NEW r, r \in Runs, InBounds(r),
           NEW q, q \in Runs, q.at = r.at, q.program = r.program, q.symbol = r.symbol,
           IF BringsUp(r) THEN Stage(r) < 10 ELSE r.at < 2,
           BringsUp(r) => /\ q.market # Payer
                          /\ Facts(T, C, Advance(q)),
           r.program = "venue" /\ BringsUp(r) => v # None /\ q.quote = v.quote
    PROVE  RunOK(T, C, v, Advance(q))
<1> DEFINE z == Advance(q)
<1>1. /\ z \in Runs /\ z.program = r.program /\ z.symbol = r.symbol /\ z.at = r.at + 1 /\ z.market = q.market
      /\ z.quote = q.quote
  <2>1. q.at + 1 \in Nat \ {0} /\ 1 \in Nat
    BY DEF Runs
  <2>2. q.at \in Nat
    BY DEF Runs
  <2>3. ASSUME NEW a \in Nat \ {0}, NEW y, y = [q EXCEPT !.at = a, !.attempt = 1]
        PROVE  /\ y \in Runs /\ y.program = q.program /\ y.symbol = q.symbol /\ y.at = a /\ y.market = q.market
               /\ y.quote = q.quote
    BY <2>3 DEF Runs
  <2>4. z = [q EXCEPT !.at = q.at + 1, !.attempt = 1]
    BY DEF Advance
  <2> HIDE DEF z
  <2> QED BY <2>1, <2>3, <2>4
<1>2. r.at \in Nat
  BY DEF Runs
<1> HIDE DEF z
<1>3. (BringsUp(z) <=> BringsUp(r)) /\ (BringsUp(r) => Stage(z) = Stage(r) + 1)
  BY <1>1, <1>2 DEF BringsUp, Stage
<1>4. Stage(r) \in Int
  BY <1>2 DEF Stage
<1>5. InBounds(z)
  BY <1>1, <1>2, <1>3, <1>4 DEF InBounds
<1>6. BringsUp(z) => z.market # Payer /\ Facts(T, C, z)
  BY <1>1, <1>3 DEF z
<1>7. RunOK(T, C, v, z)
  BY <1>1, <1>3, <1>5, <1>6 DEF RunOK
<1> QED BY <1>7 DEF z

(* The run after this one. *)
LEMMA NextIsOK ==
    ASSUME NEW T, NEW C, NEW v, VenueOK(T, C, v)
    PROVE  RunOK(T, C, v, NextRun(v))
<1>1. CASE v = None
  <2> DEFINE r == Starting("venue", "none", [market |-> 0, ask |-> 0, bid |-> 0])
  <2>1. NextRun(v) = r
    BY <1>1 DEF NextRun
  <2>2. r \in Runs /\ r.program = "venue" /\ r.symbol = "none" /\ r.at = 1
    <3>1. r = [program |-> "venue", symbol |-> "none", at |-> 1, attempt |-> 1,
               market |-> 0, ask |-> 0, bid |-> 0, base |-> 0, quote |-> 0]
      BY DEF Starting
    <3> QED BY <3>1 DEF Runs
  <2> HIDE DEF r
  <2>3. ~BringsUp(r) /\ InBounds(r)
    BY <2>2 DEF BringsUp, InBounds
  <2> QED BY <2>1, <2>2, <2>3 DEF RunOK
<1>2. CASE v # None /\ Missing(v) = {}
  BY <1>2, StoppedIsOK DEF NextRun
<1>3. CASE v # None /\ Missing(v) # {}
  <2> DEFINE i == Min(Missing(v))
             s == Listings[i]
             q == Starting("venue", s, FirstId[s])
             r == [q EXCEPT !.quote = v.quote]
  <2>1. NextRun(v) = r
    BY <1>3 DEF NextRun
  <2>2. i \in DOMAIN Listings
    <3>1. Missing(v) \subseteq DOMAIN Listings /\ DOMAIN Listings \subseteq Nat
      BY IdsAssumption DEF Missing
    <3> QED BY <1>3, <3>1, LeastIsThere
  <2> HIDE DEF i
  <2>3. s \in Range(Listings)
    BY <2>2 DEF Range
  <2>4. FirstId[s].market \in Nat \ {0} /\ FirstId[s].ask \in Nat /\ FirstId[s].bid \in Nat
    BY <2>3, IdsAssumption
  <2>5. v.quote \in Nat
    BY <1>3 DEF VenueOK
  <2> HIDE DEF s
  <2>6. q = [program |-> "venue", symbol |-> s, at |-> 1, attempt |-> 1,
             market |-> FirstId[s].market, ask |-> FirstId[s].ask, bid |-> FirstId[s].bid, base |-> 0, quote |-> 0]
    BY DEF Starting
  <2>7. q \in Runs /\ q.program = "venue" /\ q.at = 1 /\ q.market = FirstId[s].market
    BY <2>3, <2>4, <2>6 DEF Runs, s
  <2> HIDE DEF q
  <2>8. r \in Runs /\ r.program = "venue" /\ r.at = 1 /\ r.market = FirstId[s].market /\ r.quote = v.quote
    BY <2>5, <2>7 DEF Runs
  <2> HIDE DEF r
  <2>9. Stage(r) = -3 /\ InBounds(r) /\ Facts(T, C, r)
    BY <2>8 DEF Stage, InBounds, Facts
  <2>10. r.market # Payer
    BY <2>4, <2>8 DEF Payer
  <2> QED BY <1>3, <2>1, <2>8, <2>9, <2>10 DEF RunOK
<1> QED BY <1>1, <1>2, <1>3

LEMMA SingleIsOK ==
    ASSUME NEW T, NEW C, NEW v
    PROVE  RunOK(T, C, v, Starting("single", "none", Single))
<1> DEFINE r == Starting("single", "none", Single)
<1>1. Single.market \in Nat \ {0} /\ Single.ask \in Nat /\ Single.bid \in Nat
  BY IdsAssumption
<1>2. r = [program |-> "single", symbol |-> "none", at |-> 1, attempt |-> 1,
           market |-> Single.market, ask |-> Single.ask, bid |-> Single.bid, base |-> 0, quote |-> 0]
  BY DEF Starting
<1>3. r \in Runs /\ r.program = "single" /\ r.at = 1 /\ r.market = Single.market
  BY <1>1, <1>2 DEF Runs
<1> HIDE DEF r
<1>4. Stage(r) = -1 /\ InBounds(r) /\ Facts(T, C, r)
  BY <1>3 DEF Stage, InBounds, Facts
<1>5. r.market # Payer
  BY <1>1, <1>3 DEF Payer
<1>6. RunOK(T, C, v, r)
  BY <1>3, <1>4, <1>5 DEF RunOK
<1> QED BY <1>6 DEF r

---------------------------------------------------------------------------
(* The actions *)

LEMMA AtWork ==
    ASSUME BringupInv, run # Stopped
    PROVE  run \in Runs /\ InBounds(run) /\ Position(run) /\ (BringsUp(run) => run.market # Payer /\ Facts(trees, configs, run))
BY Positions DEF BringupInv, RunOK

(* What a transaction of the run does where it is. *)
Effect(T, C, r) ==
    LET j == Stage(r) IN
    /\ j = 1 => r.ask \in DOMAIN T
    /\ j = 2 => Sown(T, r.ask)
    /\ j = 4 => r.bid \in DOMAIN T
    /\ j = 5 => Sown(T, r.bid)
    /\ j = 7 => Opened(T, C, r.market, Config(r))
    /\ j = 8 => Laddered(T, r.ask)
    /\ j = 9 => Laddered(T, r.bid)

LEMMA FactsGrow ==
    ASSUME NEW T, NEW C, NEW r \in Runs, Facts(T, C, r), Effect(T, C, r)
    PROVE  Facts(T, C, Advance(r))
<1> DEFINE z == Advance(r)
<1>1. /\ z.ask = r.ask /\ z.bid = r.bid /\ z.market = r.market /\ z.base = r.base /\ z.quote = r.quote
      /\ z.program = r.program /\ z.at = r.at + 1
  BY DEF Advance, Runs
<1>2. r.at \in Nat
  BY DEF Runs
<1> HIDE DEF z
<1>3. Stage(z) = Stage(r) + 1 /\ Stage(r) \in Int /\ Config(z) = Config(r)
  BY <1>1, <1>2 DEF Stage, Config
<1> DEFINE j == Stage(r)
<1>4. Stage(z) = j + 1 /\ j \in Int /\ Stage(r) = j
  BY <1>3
<1> HIDE DEF j
<1>5. Facts(T, C, z)
  BY <1>1, <1>3, <1>4 DEF Facts, Effect
<1> QED BY <1>5 DEF z

LEMMA SendingIs ==
    ASSUME BringupInv, Sending
    PROVE  /\ run \in Runs /\ InBounds(run) /\ BringsUp(run) /\ Stage(run) \in 1..9
           /\ run.market # Payer /\ Facts(trees, configs, run)
           /\ Stage(run) = 1 => Step = <<"init", "ask">>
           /\ Stage(run) = 2 => Step = <<"seed", "ask">>
           /\ Stage(run) = 3 => Step = <<"hand", "ask">>
           /\ Stage(run) = 4 => Step = <<"init", "bid">>
           /\ Stage(run) = 5 => Step = <<"seed", "bid">>
           /\ Stage(run) = 6 => Step = <<"hand", "bid">>
           /\ Stage(run) = 7 => Step = <<"open", "both">>
           /\ Stage(run) = 8 => Step = <<"place", "ask">>
           /\ Stage(run) = 9 => Step = <<"place", "bid">>
<1>1. run # Stopped /\ Step[1] \in {"init", "seed", "hand", "open", "place"}
  BY DEF Sending
<1>2. run \in Runs /\ InBounds(run) /\ Position(run) /\ (BringsUp(run) => run.market # Payer /\ Facts(trees, configs, run))
  BY <1>1, AtWork
<1>3. \A kind, which : Is(run, kind, which) => Step = <<kind, which>>
  BY DEF Is, Step
<1>4. \A which : ~Is(run, "mint", which) /\ ~Is(run, "record", which) /\ ~Is(run, "pick", which)
  BY <1>1, <1>3
<1> HIDE DEF Step
<1> DEFINE j == Stage(run)
<1>5. \/ BringsUp(run) /\ j = 1 /\ Is(run, "init", "ask")
      \/ BringsUp(run) /\ j = 2 /\ Is(run, "seed", "ask")
      \/ BringsUp(run) /\ j = 3 /\ Is(run, "hand", "ask")
      \/ BringsUp(run) /\ j = 4 /\ Is(run, "init", "bid")
      \/ BringsUp(run) /\ j = 5 /\ Is(run, "seed", "bid")
      \/ BringsUp(run) /\ j = 6 /\ Is(run, "hand", "bid")
      \/ BringsUp(run) /\ j = 7 /\ Is(run, "open", "both")
      \/ BringsUp(run) /\ j = 8 /\ Is(run, "place", "ask")
      \/ BringsUp(run) /\ j = 9 /\ Is(run, "place", "bid")
  BY <1>2, <1>4 DEF Position
<1> HIDE DEF j
<1>6. Stage(run) = j
  BY DEF j
<1>7. BringsUp(run) /\ j \in 1..9
  BY <1>5
<1>8. /\ j = 1 => Step = <<"init", "ask">>
      /\ j = 2 => Step = <<"seed", "ask">>
      /\ j = 3 => Step = <<"hand", "ask">>
      /\ j = 4 => Step = <<"init", "bid">>
      /\ j = 5 => Step = <<"seed", "bid">>
      /\ j = 6 => Step = <<"hand", "bid">>
      /\ j = 7 => Step = <<"open", "both">>
      /\ j = 8 => Step = <<"place", "ask">>
      /\ j = 9 => Step = <<"place", "bid">>
  BY <1>3, <1>5
<1> QED BY <1>2, <1>6, <1>7, <1>8

LEMMA LandingIs ==
    ASSUME BringupInv, Sending, Works(Submitted), Lands(Submitted)
    PROVE  Facts(trees', configs', run) /\ Effect(trees', configs', run)
<1> DEFINE j == Stage(run)
           late == Submitted
<1>1. /\ run \in Runs /\ BringsUp(run) /\ j \in 1..9 /\ run.market # Payer /\ Facts(trees, configs, run)
  BY SendingIs
<1>2. TreesOK(trees') /\ Later(trees, configs, trees', configs')
  <2>1. TreesOK(trees)
    BY DEF BringupInv
  <2> QED BY <2>1, NothingIsTakenBack
<1>3. Facts(trees', configs', run)
  BY <1>1, <1>2, FactsStay
<1>4. /\ late.kind = Step[1] /\ late.market = run.market /\ late.config = Config(run)
      /\ Step[2] = "ask" => late.tree = run.ask
      /\ Step[2] = "bid" => late.tree = run.bid
  BY DEF Submitted, ConfigOf, Config
<1>5. /\ trees = [t \in DOMAIN trees |-> trees[t]]
      /\ \A t \in DOMAIN trees :
          /\ trees[t] = [authority |-> trees[t].authority, seeded |-> trees[t].seeded, orders |-> trees[t].orders]
          /\ trees[t].orders \in Nat
  BY DEF BringupInv, TreesOK
<1>6. Works(late) /\ Lands(late)
  OBVIOUS
<1>s. /\ j = 1 => Step = <<"init", "ask">>
      /\ j = 2 => Step = <<"seed", "ask">>
      /\ j = 4 => Step = <<"init", "bid">>
      /\ j = 5 => Step = <<"seed", "bid">>
      /\ j = 7 => Step = <<"open", "both">>
      /\ j = 8 => Step = <<"place", "ask">>
      /\ j = 9 => Step = <<"place", "bid">>
  BY SendingIs
<1>f. /\ j = 2 => run.ask \in DOMAIN trees
      /\ j = 5 => run.bid \in DOMAIN trees
      /\ j = 7 => run.ask \in DOMAIN trees /\ run.bid \in DOMAIN trees
      /\ j = 8 => run.ask \in DOMAIN trees
      /\ j = 9 => run.bid \in DOMAIN trees
  BY <1>1 DEF Facts
<1> HIDE DEF late, Step
<1>7. ASSUME late.kind = "init" PROVE late.tree \in DOMAIN trees'
  BY <1>6, <1>7 DEF Lands, With
<1>8. ASSUME late.kind = "seed", late.tree \in DOMAIN trees PROVE Sown(trees', late.tree)
  <2>1. trees' = [trees EXCEPT ![late.tree].seeded = TRUE]
    BY <1>6, <1>8 DEF Lands
  <2>2. late.tree \in DOMAIN trees' /\ trees'[late.tree] = [trees[late.tree] EXCEPT !.seeded = TRUE]
    BY <1>5, <1>8, <2>1
  <2>3. ASSUME NEW f, NEW a, NEW b, NEW c, NEW v, f = [authority |-> a, seeded |-> b, orders |-> c]
        PROVE  [f EXCEPT !.seeded = v].seeded = v
    BY <2>3
  <2>4. [trees[late.tree] EXCEPT !.seeded = TRUE].seeded = TRUE
    BY <1>5, <1>8, <2>3
  <2> QED BY <2>2, <2>4 DEF Sown
<1>9. ASSUME late.kind = "place", late.tree \in DOMAIN trees PROVE Laddered(trees', late.tree)
  <2>1. trees' = [trees EXCEPT ![late.tree].orders = @ + 1]
    BY <1>6, <1>9 DEF Lands
  <2>2. late.tree \in DOMAIN trees' /\ trees'[late.tree].orders = trees[late.tree].orders + 1
    BY <1>5, <1>9, <2>1
  <2> QED BY <1>5, <1>9, <2>2 DEF Laddered
<1>10. ASSUME late.kind = "open", run.ask \in DOMAIN trees, run.bid \in DOMAIN trees
       PROVE  Opened(trees', configs', run.market, Config(run))
  <2>1. trees' = trees /\ configs' = With(configs, run.market, Config(run))
    BY <1>4, <1>6, <1>10 DEF Lands
  <2>2. run.market \in DOMAIN configs' /\ configs'[run.market] = Config(run)
    BY <2>1 DEF With
  <2>3. \A t \in {late.config.ask, late.config.bid} : trees[t].authority = late.market
    BY <1>6, <1>10 DEF Works
  <2>4. Config(run).ask = run.ask /\ Config(run).bid = run.bid
    BY DEF Config
  <2>5. \A t \in {Config(run).ask, Config(run).bid} : t \in DOMAIN trees' /\ trees'[t].authority = run.market
    BY <1>4, <1>10, <2>1, <2>3, <2>4
  <2> QED BY <1>1, <2>2, <2>5 DEF Opened
<1>11. /\ j = 1 => late.kind = "init" /\ late.tree = run.ask
       /\ j = 2 => late.kind = "seed" /\ late.tree = run.ask
       /\ j = 4 => late.kind = "init" /\ late.tree = run.bid
       /\ j = 5 => late.kind = "seed" /\ late.tree = run.bid
       /\ j = 7 => late.kind = "open"
       /\ j = 8 => late.kind = "place" /\ late.tree = run.ask
       /\ j = 9 => late.kind = "place" /\ late.tree = run.bid
  BY <1>4, <1>s
<1>12. Effect(trees', configs', run)
  BY <1>7, <1>8, <1>9, <1>10, <1>11, <1>f DEF Effect
<1> QED BY <1>3, <1>12

LEMMA SucceedsKeeps ==
    ASSUME BringupInv, Succeeds
    PROVE  BringupInv'
<1>1. Sending /\ Works(Submitted) /\ Lands(Submitted) /\ run' = Advance(run) /\ UNCHANGED <<venue, marketFile, mints>>
  BY DEF Succeeds
<1>2. TreesOK(trees') /\ Later(trees, configs, trees', configs')
  <2>1. TreesOK(trees)
    BY DEF BringupInv
  <2> QED BY <1>1, <2>1, NothingIsTakenBack
<1>3. VenueOK(trees', configs', venue) /\ FileOK(trees', configs', marketFile)
  BY <1>2, FilesStay DEF BringupInv
<1>4. RunOK(trees', configs', venue, Advance(run))
  <2>1. /\ run \in Runs /\ InBounds(run) /\ BringsUp(run) /\ Stage(run) \in 1..9 /\ run.market # Payer
    BY <1>1, SendingIs
  <2>2. Facts(trees', configs', Advance(run))
    BY <1>1, <2>1, LandingIs, FactsGrow
  <2>3. run.program = "venue" => venue # None /\ run.quote = venue.quote
    <3>1. run # Stopped
      BY <1>1 DEF Sending
    <3> QED BY <2>1, <3>1 DEF BringupInv, RunOK
  <2>4. Stage(run) < 10
    BY <2>1
  <2> QED BY <2>1, <2>2, <2>3, <2>4, AdvanceIsOK
<1> QED BY <1>1, <1>2, <1>3, <1>4 DEF BringupInv

(* Another attempt or the run's end, whatever happened to the chain. *)
LEMMA RunGoesOnKeeps ==
    ASSUME BringupInv, run # Stopped, Retry \/ Exit,
           TreesOK(trees'), Later(trees, configs, trees', configs'), UNCHANGED <<venue, marketFile, mints>>
    PROVE  BringupInv'
<1>1. VenueOK(trees', configs', venue) /\ FileOK(trees', configs', marketFile)
  BY FilesStay DEF BringupInv
<1>2. RunOK(trees', configs', venue, run)
  BY RunStays DEF BringupInv
<1>3. run' = Stopped \/ run' = [run EXCEPT !.attempt = @ + 1]
  BY DEF Retry, Exit
<1>4. RunOK(trees', configs', venue, run')
  BY <1>2, <1>3, RetryIsOK, StoppedIsOK
<1> QED BY <1>1, <1>4 DEF BringupInv

LEMMA SameIsLater ==
    ASSUME NEW T, NEW C
    PROVE  Later(T, C, T, C)
BY DEF Later

LEMMA DeclinedKeeps ==
    ASSUME BringupInv, Declined
    PROVE  BringupInv'
<1>1. run # Stopped /\ Retry /\ UNCHANGED <<venue, marketFile, mints, trees, configs>>
  BY DEF Declined, Sending, chainVars
<1>2. TreesOK(trees') /\ Later(trees, configs, trees', configs')
  BY <1>1, SameIsLater DEF BringupInv
<1> QED BY <1>1, <1>2, RunGoesOnKeeps

LEMMA MishapKeeps ==
    ASSUME BringupInv, Mishap
    PROVE  BringupInv'
<1>1. run # Stopped /\ (Retry \/ Exit) /\ UNCHANGED <<venue, marketFile, mints>>
  BY DEF Mishap
<1>2. TreesOK(trees)
  BY DEF BringupInv
<1>3. TreesOK(trees') /\ Later(trees, configs, trees', configs')
  <2>1. CASE UNCHANGED <<trees, configs>>
    BY <1>2, <2>1, SameIsLater
  <2>2. CASE Works(Submitted) /\ Lands(Submitted)
    BY <1>2, <2>2, NothingIsTakenBack
  <2> QED BY <2>1, <2>2 DEF Mishap
<1> QED BY <1>1, <1>3, RunGoesOnKeeps

LEMMA LandsLateKeeps ==
    ASSUME BringupInv, NEW late, LandsLate(late)
    PROVE  BringupInv'
<1>1. UNCHANGED <<venue, marketFile, run, mints>>
  BY DEF LandsLate
<1>2. TreesOK(trees)
  BY DEF BringupInv
<1>3. TreesOK(trees') /\ Later(trees, configs, trees', configs')
  <2>1. CASE Works(late)
    BY <1>2, <2>1, NothingIsTakenBack DEF LandsLate
  <2>2. CASE ~Works(late)
    BY <1>2, <2>2, SameIsLater DEF LandsLate
  <2> QED BY <2>1, <2>2
<1>4. VenueOK(trees', configs', venue) /\ FileOK(trees', configs', marketFile)
  BY <1>3, FilesStay DEF BringupInv
<1>5. RunOK(trees', configs', venue, run)
  BY <1>3, RunStays DEF BringupInv
<1> QED BY <1>1, <1>3, <1>4, <1>5 DEF BringupInv

(* Before the first transaction nothing is asked of the chain. *)
LEMMA NoFactsYet ==
    ASSUME NEW T, NEW C, NEW r, r \in Runs, Stage(r) <= 0
    PROVE  Facts(T, C, Advance(r))
<1> DEFINE z == Advance(r)
<1>1. z.program = r.program /\ z.at = r.at + 1 /\ r.at \in Nat
  BY DEF Advance, Runs
<1> HIDE DEF z
<1>2. Stage(z) <= 1 /\ Stage(z) \in Int
  BY <1>1 DEF Stage
<1>3. Facts(T, C, z)
  BY <1>2 DEF Facts
<1> QED BY <1>3 DEF z

LEMMA FreeIsThere ==
    ASSUME NEW kind, run[kind] \in Nat, Free(kind) # {}
    PROVE  Min(Free(kind)) \in Nat /\ Min(Free(kind)) >= run[kind]
<1>1. Free(kind) \subseteq run[kind]..(run[kind] + Search - 1)
  BY DEF Free
<1>2. Search \in Nat
  BY IdsAssumption
<1>3. Free(kind) \in SUBSET Nat /\ \A x \in Free(kind) : x >= run[kind]
  BY <1>1, <1>2
<1>4. Min(Free(kind)) \in Free(kind)
  BY <1>3, LeastIsThere
<1> QED BY <1>3, <1>4

LEMMA PickKeeps ==
    ASSUME BringupInv, Pick
    PROVE  BringupInv'
<1> DEFINE kind == Step[2]
           q == [run EXCEPT ![kind] = Min(Free(kind))]
<1>1. run # Stopped /\ Step[1] = "pick" /\ UNCHANGED <<venue, marketFile, mints, trees, configs>>
  BY DEF Pick, Doing, chainVars
<1>2. CASE run' = Stopped
  BY <1>1, <1>2, StoppedIsOK DEF BringupInv
<1>3. CASE run' = Advance(q) /\ Free(kind) # {}
  <2>1. run \in Runs /\ InBounds(run) /\ Position(run) /\ (BringsUp(run) => run.market # Payer)
    BY <1>1, AtWork
  <2>2. \A k, which : Is(run, k, which) => Step = <<k, which>>
    BY DEF Is, Step
  <2>3. BringsUp(run) /\ Stage(run) \in {-3, -2, -1} /\ kind \in {"market", "ask", "bid"}
    <3> HIDE DEF Step
    <3>1. \A k, which : Is(run, k, which) => k = "pick" /\ kind = which
      BY <1>1, <2>2
    <3> QED BY <2>1, <3>1 DEF Position
  <2>4. run[kind] \in Nat /\ run.market \in Nat
    <3>1. run.market \in Nat /\ run.ask \in Nat /\ run.bid \in Nat
      BY <2>1 DEF Runs
    <3> HIDE DEF kind
    <3> QED BY <2>3, <3>1
  <2> DEFINE x == Min(Free(kind))
  <2>5. x \in Nat /\ x >= run[kind]
    <3> HIDE DEF kind
    <3> QED BY <1>3, <2>4, FreeIsThere
  <2> HIDE DEF x, kind
  <2>6. /\ q \in Runs /\ q.at = run.at /\ q.program = run.program /\ q.symbol = run.symbol /\ q.quote = run.quote
        /\ q.market = IF kind = "market" THEN x ELSE run.market
    <3>1. q = [run EXCEPT ![kind] = x]
      BY DEF x
    <3> HIDE DEF q
    <3>2. CASE kind = "market"
      BY <2>1, <2>5, <3>1, <3>2 DEF Runs
    <3>3. CASE kind = "ask"
      BY <2>1, <2>5, <3>1, <3>3 DEF Runs
    <3>4. CASE kind = "bid"
      BY <2>1, <2>5, <3>1, <3>4 DEF Runs
    <3> QED BY <2>3, <3>2, <3>3, <3>4
  <2>7. q.market # Payer
    <3>1. run.market \in Nat /\ run.market # 0
      BY <2>1, <2>3, <2>4 DEF Payer
    <3>2. kind = "market" => x >= run.market
      BY <2>5
    <3> HIDE DEF q
    <3> QED BY <2>5, <2>6, <3>1, <3>2 DEF Payer
  <2> HIDE DEF q
  <2>8. Stage(q) = Stage(run)
    BY <2>6 DEF Stage
  <2>9. Facts(trees, configs, Advance(q))
    <3>1. Stage(q) <= 0
      BY <2>3, <2>8
    <3> QED BY <2>6, <3>1, NoFactsYet
  <2>10. run.program = "venue" => venue # None /\ q.quote = venue.quote
    BY <1>1, <2>3, <2>6 DEF BringupInv, RunOK
  <2>11. Stage(run) < 10
    BY <2>3
  <2>12. RunOK(trees, configs, venue, Advance(q))
    BY <2>1, <2>3, <2>6, <2>7, <2>9, <2>10, <2>11, AdvanceIsOK
  <2> QED BY <1>1, <1>3, <2>12 DEF BringupInv
<1> QED BY <1>2, <1>3 DEF Pick, Exit

LEMMA MintKeeps ==
    ASSUME BringupInv, Mint
    PROVE  BringupInv'
<1> DEFINE kind == Step[2]
           x == mints + 1
           q == [run EXCEPT ![kind] = x]
<1>1. /\ run # Stopped /\ Step[1] = "mint" /\ UNCHANGED <<venue, marketFile, trees, configs>>
      /\ mints' = x /\ x \in Nat /\ run' = Advance(q)
  BY DEF Mint, Doing, BringupInv
<1>2. run \in Runs /\ InBounds(run) /\ Position(run) /\ (BringsUp(run) => run.market # Payer)
  BY <1>1, AtWork
<1>3. \A k, which : Is(run, k, which) => Step = <<k, which>>
  BY DEF Is, Step
<1>4. /\ kind \in {"base", "quote"}
      /\ IF BringsUp(run) THEN Stage(run) \in {-1, 0} ELSE run.at = 1
      /\ BringsUp(run) /\ run.program = "venue" => kind = "base"
  <2> HIDE DEF Step
  <2>1. \A k, which : Is(run, k, which) => k = "mint" /\ kind = which
    BY <1>1, <1>3
  <2> QED BY <1>2, <2>1 DEF Position
<1> HIDE DEF kind, x
<1>5. /\ q \in Runs /\ q.at = run.at /\ q.program = run.program /\ q.symbol = run.symbol /\ q.market = run.market
      /\ kind = "base" => q.quote = run.quote
  <2>1. CASE kind = "base"
    BY <1>1, <1>2, <2>1 DEF Runs
  <2>2. CASE kind = "quote"
    BY <1>1, <1>2, <2>2 DEF Runs
  <2> QED BY <1>4, <2>1, <2>2
<1> HIDE DEF q
<1>6. BringsUp(run) => Facts(trees, configs, Advance(q))
  <2> SUFFICES ASSUME BringsUp(run) PROVE Facts(trees, configs, Advance(q))
    OBVIOUS
  <2>1. Stage(q) <= 0
    BY <1>4, <1>5 DEF Stage
  <2> QED BY <1>5, <2>1, NoFactsYet
<1>7. run.program = "venue" /\ BringsUp(run) => venue # None /\ q.quote = venue.quote
  BY <1>1, <1>4, <1>5 DEF BringupInv, RunOK
<1>8. IF BringsUp(run) THEN Stage(run) < 10 ELSE run.at < 2
  BY <1>4
<1>9. RunOK(trees, configs, venue, Advance(q))
  BY <1>2, <1>5, <1>6, <1>7, <1>8, AdvanceIsOK
<1> QED BY <1>1, <1>9 DEF BringupInv

LEMMA RecordingIs ==
    ASSUME BringupInv, Doing("record")
    PROVE  /\ run \in Runs
           /\ BringsUp(run) => /\ Solid(trees, configs, MarketOf(run), run.quote)
                               /\ run.program = "venue" => venue # None /\ run.quote = venue.quote
<1>1. run # Stopped /\ Step[1] = "record"
  BY DEF Doing
<1>2. run \in Runs /\ Position(run) /\ (BringsUp(run) => Facts(trees, configs, run))
  BY <1>1, AtWork
<1>3. \A k, which : Is(run, k, which) => k = "record"
  BY <1>1 DEF Is, Step
<1>4. BringsUp(run) => Stage(run) = 10
  BY <1>2, <1>3 DEF Position
<1>5. BringsUp(run) => Solid(trees, configs, MarketOf(run), run.quote)
  BY <1>2, <1>4, DoneIsSolid
<1>6. BringsUp(run) /\ run.program = "venue" => venue # None /\ run.quote = venue.quote
  BY <1>1 DEF BringupInv, RunOK
<1> QED BY <1>2, <1>5, <1>6

LEMMA RecordKeeps ==
    ASSUME BringupInv, Record
    PROVE  BringupInv'
<1>1. /\ Doing("record") /\ run.program = "venue" /\ venue' = Recording /\ run' = NextRun(venue')
      /\ UNCHANGED <<marketFile, trees, configs, mints>>
  BY DEF Record, chainVars
<1>2. run \in Runs /\ run.quote \in Nat
  BY <1>1, RecordingIs DEF Runs
<1>3. VenueOK(trees, configs, venue')
  <2>1. CASE run.symbol = "none"
    <3> DEFINE v == [quote |-> run.quote, markets |-> [s \in {} |-> None]]
    <3>1. venue' = v
      BY <1>1, <2>1 DEF Recording
    <3>2. v.quote = run.quote /\ DOMAIN v.markets = {} /\ v = [quote |-> v.quote, markets |-> v.markets]
      OBVIOUS
    <3> HIDE DEF v
    <3>3. VenueOK(trees, configs, v)
      BY <1>2, <3>2 DEF VenueOK
    <3> QED BY <3>1, <3>3
  <2>2. CASE run.symbol # "none"
    <3>1. BringsUp(run)
      BY <2>2 DEF BringsUp
    <3>2. Solid(trees, configs, MarketOf(run), run.quote) /\ venue # None /\ run.quote = venue.quote
      BY <1>1, <3>1, RecordingIs
    <3>3. /\ venue = [quote |-> venue.quote, markets |-> venue.markets]
          /\ \A s \in DOMAIN venue.markets : Solid(trees, configs, venue.markets[s], venue.quote)
      BY <3>2 DEF BringupInv, VenueOK
    <3> DEFINE ms == With(venue.markets, run.symbol, MarketOf(run))
               v == [quote |-> venue.quote, markets |-> ms]
    <3>4. venue' = v
      BY <1>1, <2>2, <3>3 DEF Recording
    <3>5. \A s \in DOMAIN ms : Solid(trees, configs, ms[s], venue.quote)
      <4>1. DOMAIN ms = DOMAIN venue.markets \cup {run.symbol}
        BY DEF With
      <4>2. \A s \in DOMAIN ms : ms[s] = IF s = run.symbol THEN MarketOf(run) ELSE venue.markets[s]
        BY DEF With
      <4> HIDE DEF ms
      <4> QED BY <3>2, <3>3, <4>1, <4>2
    <3> HIDE DEF ms
    <3>6. v.quote = venue.quote /\ v.markets = ms /\ v = [quote |-> v.quote, markets |-> v.markets]
      OBVIOUS
    <3> HIDE DEF v
    <3>7. VenueOK(trees, configs, v)
      BY <1>2, <3>2, <3>5, <3>6 DEF VenueOK
    <3> QED BY <3>4, <3>7
  <2> QED BY <2>1, <2>2
<1>4. RunOK(trees, configs, venue', NextRun(venue'))
  BY <1>3, NextIsOK
<1> QED BY <1>1, <1>3, <1>4 DEF BringupInv

LEMMA RecordSingleKeeps ==
    ASSUME BringupInv, RecordSingle
    PROVE  BringupInv'
<1>1. /\ Doing("record") /\ run.program = "single" /\ marketFile' = [quote |-> run.quote, is |-> MarketOf(run)]
      /\ run' = Stopped /\ UNCHANGED <<venue, trees, configs, mints>>
  BY DEF RecordSingle, chainVars
<1>2. Solid(trees, configs, MarketOf(run), run.quote)
  BY <1>1, RecordingIs DEF BringsUp
<1>3. FileOK(trees, configs, marketFile')
  BY <1>1, <1>2 DEF FileOK
<1> QED BY <1>1, <1>3, StoppedIsOK DEF BringupInv

LEMMA StartsKeep ==
    ASSUME BringupInv, StartVenue \/ StartSingle
    PROVE  BringupInv'
<1>1. UNCHANGED <<venue, marketFile, trees, configs, mints>> /\ run' \in {NextRun(venue), Starting("single", "none", Single)}
  BY DEF StartVenue, StartSingle, chainVars
<1>2. RunOK(trees, configs, venue, run')
  BY <1>1, NextIsOK, SingleIsOK DEF BringupInv
<1> QED BY <1>1, <1>2 DEF BringupInv

LEMMA BringupInvSteps == BringupInv /\ [BringupNext]_bringupVars => BringupInv'
<1> SUFFICES ASSUME BringupInv, [BringupNext]_bringupVars PROVE BringupInv'
  OBVIOUS
<1>1. CASE UNCHANGED bringupVars
  BY <1>1 DEF bringupVars, chainVars, BringupInv
<1>2. ASSUME NEW late \in astray, LandsLate(late) \/ Expires(late) PROVE BringupInv'
  <2>1. CASE LandsLate(late)
    BY <2>1, LandsLateKeeps
  <2>2. CASE Expires(late)
    BY <2>2 DEF Expires, BringupInv
  <2> QED BY <1>2, <2>1, <2>2
<1>3. CASE StartVenue \/ StartSingle
  BY <1>3, StartsKeep
<1>4. CASE Pick \/ Mint
  BY <1>4, PickKeeps, MintKeeps
<1>5. CASE Succeeds \/ Declined \/ Mishap
  BY <1>5, SucceedsKeeps, DeclinedKeeps, MishapKeeps
<1>6. CASE Record \/ RecordSingle
  BY <1>6, RecordKeeps, RecordSingleKeeps
<1> QED BY <1>1, <1>2, <1>3, <1>4, <1>5, <1>6 DEF BringupNext, RunsOn

LEMMA BringupInvStarts == BringupInit => BringupInv
<1> SUFFICES ASSUME BringupInit PROVE BringupInv
  OBVIOUS
<1>1. TreesOK(trees)
  BY DEF BringupInit, TreesOK
<1>2. RunOK(trees, configs, venue, run)
  BY StoppedIsOK DEF BringupInit
<1>3. VenueOK(trees, configs, venue) /\ FileOK(trees, configs, marketFile)
  BY DEF BringupInit, VenueOK, FileOK
<1> QED BY <1>1, <1>2, <1>3 DEF BringupInit, BringupInv

LEMMA SolidIsWhole ==
    ASSUME NEW m, NEW q, Solid(trees, configs, m, q)
    PROVE  Whole(m, q)
<1> DEFINE c == [ask |-> m.ask, bid |-> m.bid, base |-> m.base, quote |-> q]
<1>1. c.ask = m.ask /\ c.bid = m.bid
  OBVIOUS
<1>2. /\ Opened(trees, configs, m.market, c)
      /\ \A t \in {m.ask, m.bid} : trees[t].seeded /\ trees[t].orders > 0
  BY DEF Solid, Sown, Laddered
<1> QED BY <1>1, <1>2 DEF Opened, Whole

(* For any listings and ids, however many runs there are and wherever they *)
(* die, whatever is tried again and whatever lands late: a market either   *)
(* file names is whole (bringup-venue.ts:98-121, 236-258).                 *)
THEOREM RecordedMarketsAreWholeEver == BringupSpec => []RecordedMarketsAreWhole
<1>1. BringupInv => RecordedMarketsAreWhole
  <2> SUFFICES ASSUME BringupInv PROVE RecordedMarketsAreWhole
    OBVIOUS
  <2>1. \A s \in DOMAIN Recorded(venue) : Whole(venue.markets[s], venue.quote)
    BY SolidIsWhole DEF BringupInv, VenueOK, Recorded
  <2>2. marketFile # None => Whole(marketFile.is, marketFile.quote)
    BY SolidIsWhole DEF BringupInv, FileOK
  <2> QED BY <2>1, <2>2 DEF RecordedMarketsAreWhole
<1> QED BY BringupInvStarts, BringupInvSteps, <1>1, PTL DEF BringupSpec
=============================================================================
