----------------------------- MODULE AccessProofs -----------------------------
(***************************************************************************)
(* Proofs about those who approach the engine: the clients that walk its   *)
(* tree (TornaClient) and the signers it heeds (TornaAuth).                *)
(*                                                                         *)
(* A client's path, resolved account by account while others write, is     *)
(* still the engine's path for its key as long as the structure epoch is   *)
(* the one read before the walk.  The argument needs one fact of every     *)
(* instruction: it leaves root, height, epoch and every internal node      *)
(* alone, or it moves the epoch on.                                        *)
(*                                                                         *)
(* Whoever writes on the word of a delegate account was put there by the   *)
(* authority of this moment and not removed since.                         *)
(***************************************************************************)
EXTENDS TornaClient, TornaAuth, TLAPS

(* What an epoch stands for: all that a descent depends on. *)
shape == <<root, height, inner, epoch>>

IsSequence(s) == Len(s) \in Nat /\ s = [i \in 1..Len(s) |-> s[i]]

(* p is a descent for k in the current tree as far as it goes. *)
Follows(p, k) ==
    /\ p[1] = root
    /\ \A i \in 1..Len(p) - 1 : p[i + 1] = ChildFor(inner[p[i]], k)

(* The walk's own state: the epoch it carries is no later than the tree's. *)
PlanOK ==
    /\ epoch \in Nat /\ height \in Nat
    /\ phase \in {"idle", "spares", "header", "descend", "siblings", "ready"}
    /\ DOMAIN plan = DOMAIN NoPlan
    /\ plan = [x \in DOMAIN plan |-> plan[x]]
    /\ plan.epoch \in Nat /\ plan.epoch <= epoch
    /\ IsSequence(plan.path)

(* A walk under the epoch it began with has followed the current tree. *)
WalkFollowsTree ==
    phase = "descend" /\ plan.epoch = epoch =>
        /\ plan.height = height /\ height > 1
        /\ Len(plan.path) \in 1..height - 1
        /\ Follows(plan.path, plan.key)

(* StableEpochKeepsPath is not inductive: it says nothing of the walk that *)
(* leads to a finished path.                                               *)
PlanInv == PlanOK /\ WalkFollowsTree /\ StableEpochKeepsPath

---------------------------------------------------------------------------
(* The engine *)

(* Every instruction leaves the shape alone or moves the epoch on. *)
Moves == UNCHANGED shape \/ (epoch' = epoch + 1 /\ height' \in Nat)

LEMMA InsertMoves ==
    ASSUME height \in Nat, NEW p, NEW k, NEW v, NEW from, NEW spares,
           Insert(p, k, v, from, spares)
    PROVE  Moves
<1>1. CASE InsertFirst(k, v, from, spares)
  BY <1>1 DEF InsertFirst, BumpEpoch, Moves
<1>2. CASE InsertRoom(p, k, v)
  BY <1>2 DEF InsertRoom, Moves, shape, header
<1>3. CASE InsertSplit(p, k, v, from, spares)
  BY <1>3 DEF InsertSplit, BumpEpoch, Moves
<1> QED BY <1>1, <1>2, <1>3 DEF Insert

LEMMA DeleteMoves ==
    ASSUME height \in Nat, NEW p, NEW k, NEW sides, NEW sibs, Delete(p, k, sides, sibs)
    PROVE  Moves
<1>1. epoch' = epoch + 1 /\ height > 0
  BY DEF Delete, BumpEpoch, Descends
<1>2. height' \in {height, height - 1}
  BY DEF Delete
<1> QED BY <1>1, <1>2 DEF Moves

LEMMA FastMoves ==
    ASSUME NEW p, NEW k, NEW v,
           InsertFast(p, k, v) \/ UpdateFast(p, k, v) \/ DeleteFast(p, k)
    PROVE  Moves
BY DEF InsertFast, UpdateFast, DeleteFast, Moves, shape, header

LEMMA NextMoves == ASSUME height \in Nat, Next PROVE Moves
<1>1. ASSUME NEW k \in Key, NEW v \in Val,
             InsertFast(Path(k), k, v) \/ UpdateFast(Path(k), k, v) \/ DeleteFast(Path(k), k)
      PROVE  Moves
  BY <1>1, FastMoves
<1>2. ASSUME NEW k \in Key, NEW v \in Val,
             Insert(Path(k), k, v, highWater + 1, height + 2)
      PROVE  Moves
  BY <1>2, InsertMoves
<1>3. ASSUME NEW k \in Key, NEW sides, Delete(Path(k), k, sides, Siblings(Path(k), sides))
      PROVE  Moves
  BY <1>3, DeleteMoves
<1>4. ASSUME NEW k \in Key, DeleteFast(Path(k), k)
      PROVE  Moves
  BY <1>4 DEF DeleteFast, Moves, shape, header
<1>5. CASE CompactLeaf(LeftmostPath)
  BY <1>5 DEF CompactLeaf, BumpEpoch, Moves
<1>6. ASSUME NEW p, NEW ks, NEW v, BulkInsertFast(p, ks, v)
      PROVE  Moves
  BY <1>6 DEF BulkInsertFast, Moves, shape, header
<1>7. ASSUME NEW ps, NEW batches, NEW v, MultiLeafInsertFast(ps, batches, v)
      PROVE  Moves
  BY <1>7 DEF MultiLeafInsertFast, Moves, shape, header
<1> QED BY <1>1, <1>2, <1>3, <1>4, <1>5, <1>6, <1>7 DEF Next

LEMMA LandMoves == ASSUME height \in Nat, Land PROVE Moves
<1> PICK v \in Val :
        \/ InsertFast(plan.path, plan.key, v)
        \/ UpdateFast(plan.path, plan.key, v)
        \/ DeleteFast(plan.path, plan.key)
        \/ Insert(plan.path, plan.key, v, plan.from, plan.spares)
        \/ Delete(plan.path, plan.key, plan.sides, plan.sibs)
  BY DEF Land
<1> QED BY FastMoves, InsertMoves, DeleteMoves

---------------------------------------------------------------------------
(* The client *)

LEMMA AppendExtends ==
    ASSUME NEW s, NEW e, IsSequence(s)
    PROVE  /\ Len(Append(s, e)) = Len(s) + 1
           /\ \A i \in 1..Len(s) : Append(s, e)[i] = s[i]
           /\ Append(s, e)[Len(s) + 1] = e
           /\ IsSequence(Append(s, e))
<1> DEFINE S == {s[i] : i \in 1..Len(s)} \cup {e}
<1>1. s \in Seq(S) /\ e \in S
  BY DEF IsSequence
<1>2. /\ Append(s, e) \in Seq(S) /\ Len(s) \in Nat
      /\ Len(Append(s, e)) = Len(s) + 1
      /\ \A i \in 1..Len(s) : Append(s, e)[i] = s[i]
      /\ Append(s, e)[Len(s) + 1] = e
  <2> HIDE DEF S
  <2> QED BY <1>1
<1>3. \A t \in Seq(S) : IsSequence(t)
  <2> HIDE DEF S
  <2> QED BY DEF IsSequence
<1> QED BY <1>2, <1>3

LEMMA PlanInvInit == ClientInit => PlanInv
BY DEF ClientInit, Init, NoPlan, PlanInv, PlanOK, WalkFollowsTree, StableEpochKeepsPath, IsSequence

LEMMA BeginKeeps ==
    ASSUME PlanInv, NEW kind \in Kinds, NEW k \in Key, Begin(kind, k)
    PROVE  PlanInv'
<1>1. plan' = [NoPlan EXCEPT !.kind = kind, !.key = k, !.epoch = epoch, !.spares = height + 2]
  BY DEF Begin
<1>2. DOMAIN plan' = DOMAIN NoPlan /\ plan'.epoch = epoch /\ plan'.path = <<>>
  BY <1>1 DEF NoPlan
<1>3. phase' \in {"spares", "header"} /\ epoch' = epoch /\ height' = height
  BY DEF Begin, vars
<1>4. plan' = [x \in DOMAIN plan' |-> plan'[x]]
  BY <1>1 DEF NoPlan
<1> QED BY <1>2, <1>3, <1>4
        DEF PlanInv, PlanOK, WalkFollowsTree, StableEpochKeepsPath, IsSequence

(* A planning step that leaves path and epoch of the plan alone. *)
LEMMA ReadAllocatorKeeps == ASSUME PlanInv, ReadAllocator PROVE PlanInv'
<1>1. plan' = [plan EXCEPT !.from = highWater + 1] /\ phase' = "header" /\ UNCHANGED vars
  BY DEF ReadAllocator
<1>2. /\ DOMAIN plan' = DOMAIN plan /\ plan' = [x \in DOMAIN plan' |-> plan'[x]]
      /\ plan'.epoch = plan.epoch /\ plan'.path = plan.path
  BY <1>1 DEF PlanInv, PlanOK
<1> QED BY <1>1, <1>2 DEF PlanInv, PlanOK, WalkFollowsTree, StableEpochKeepsPath, vars

LEMMA ReadHeaderKeeps == ASSUME PlanInv, ReadHeader PROVE PlanInv'
<1> DEFINE start == IF height = 0 THEN <<>> ELSE <<root>>
<1>1. /\ plan' = [plan EXCEPT !.height = height, !.path = start]
      /\ phase' = IF height <= 1 THEN Planned(plan) ELSE "descend"
      /\ root' = root /\ height' = height /\ epoch' = epoch /\ inner' = inner
  BY DEF ReadHeader, vars
<1>2. /\ DOMAIN plan' = DOMAIN plan /\ plan' = [x \in DOMAIN plan' |-> plan'[x]]
      /\ plan'.epoch = plan.epoch /\ plan'.height = height
      /\ plan'.path = start /\ plan'.key = plan.key
  BY <1>1 DEF PlanInv, PlanOK, NoPlan
<1>3. /\ IsSequence(start)
      /\ height # 0 => Len(start) = 1 /\ start[1] = root
  BY DEF IsSequence
<1>4. height \in Nat /\ Planned(plan) \in {"siblings", "ready"}
  BY DEF PlanInv, PlanOK, Planned
<1>5. PlanOK'
  BY <1>1, <1>2, <1>3, <1>4 DEF PlanInv, PlanOK
<1>6. WalkFollowsTree'
  <2> SUFFICES ASSUME phase' = "descend"
               PROVE  /\ plan'.height = height' /\ height' > 1
                      /\ Len(plan'.path) \in 1..height' - 1
                      /\ Follows(plan.path, plan.key)'
    BY DEF WalkFollowsTree
  <2>1. height > 1
    BY <1>1, <1>4
  <2> QED BY <2>1, <1>1, <1>2, <1>3, <1>4 DEF Follows
<1>7. StableEpochKeepsPath'
  <2> SUFFICES ASSUME phase' \in {"ready", "siblings"}, height' > 0
               PROVE  Descends(plan.path, plan.key)'
    BY DEF StableEpochKeepsPath
  <2>1. height = 1
    BY <1>1, <1>4
  <2> QED BY <2>1, <1>1, <1>2, <1>3 DEF Descends
<1> QED BY <1>5, <1>6, <1>7 DEF PlanInv

LEMMA ReadNodeKeeps == ASSUME PlanInv, ReadNode PROVE PlanInv'
<1> DEFINE p == plan.path
           child == ChildFor(inner[p[Len(p)]], plan.key)
           q == Append(p, child)
<1>1. /\ phase = "descend"
      /\ plan' = [plan EXCEPT !.path = q]
      /\ phase' = IF Len(plan'.path) = plan.height THEN Planned(plan) ELSE "descend"
      /\ root' = root /\ height' = height /\ epoch' = epoch /\ inner' = inner
  BY DEF ReadNode, vars, Last
<1>2. /\ DOMAIN plan' = DOMAIN plan /\ plan' = [x \in DOMAIN plan' |-> plan'[x]]
      /\ plan'.epoch = plan.epoch /\ plan'.height = plan.height
      /\ plan'.path = q /\ plan'.key = plan.key
  BY <1>1 DEF PlanInv, PlanOK, NoPlan
<1>3. /\ Len(p) \in Nat /\ IsSequence(q) /\ Len(q) = Len(p) + 1
      /\ \A i \in 1..Len(p) : q[i] = p[i]
      /\ q[Len(p) + 1] = child
  BY AppendExtends DEF PlanInv, PlanOK, IsSequence
<1>4. height \in Nat /\ Planned(plan) \in {"siblings", "ready"}
  BY DEF PlanInv, PlanOK, Planned
<1>5. PlanOK'
  BY <1>1, <1>2, <1>3, <1>4 DEF PlanInv, PlanOK
<1>6. ASSUME plan.epoch = epoch
      PROVE  /\ plan.height = height /\ height > 1
             /\ Len(q) \in 1..height
             /\ Follows(q, plan.key)
  <2>1. /\ plan.height = height /\ height > 1 /\ Len(p) \in 1..height - 1
        /\ p[1] = root
        /\ \A i \in 1..Len(p) - 1 : p[i + 1] = ChildFor(inner[p[i]], plan.key)
    BY <1>1, <1>6 DEF PlanInv, WalkFollowsTree, Follows
  <2>2. q[1] = root
    BY <2>1, <1>3
  <2>3. ASSUME NEW i \in 1..Len(q) - 1 PROVE q[i + 1] = ChildFor(inner[q[i]], plan.key)
    <3>1. CASE i = Len(p)
      BY <3>1, <2>1, <1>3
    <3>2. CASE i # Len(p)
      <4>1. i \in 1..Len(p) - 1 /\ i \in 1..Len(p) /\ i + 1 \in 1..Len(p)
        BY <3>2, <1>3
      <4> QED BY <4>1, <2>1, <1>3
    <3> QED BY <3>1, <3>2
  <2> QED BY <2>1, <2>2, <2>3, <1>3, <1>4 DEF Follows
<1>7. WalkFollowsTree'
  <2> SUFFICES ASSUME phase' = "descend", plan'.epoch = epoch'
               PROVE  /\ plan'.height = height' /\ height' > 1
                      /\ Len(plan'.path) \in 1..height' - 1
                      /\ Follows(plan.path, plan.key)'
    BY DEF WalkFollowsTree
  <2>1. plan.epoch = epoch /\ Len(q) # plan.height
    BY <1>1, <1>2, <1>4
  <2>2. /\ plan.height = height /\ height > 1 /\ Len(q) \in 1..height /\ Len(q) # height
        /\ height \in Nat /\ Len(q) \in Nat
    BY <2>1, <1>4, <1>6
  <2>3. Len(q) \in 1..height - 1
    BY <2>2
  <2>4. q[1] = root /\ \A i \in 1..Len(q) - 1 : q[i + 1] = ChildFor(inner[q[i]], plan.key)
    BY <2>1, <1>6 DEF Follows
  <2> HIDE DEF q
  <2>5. /\ plan'.path[1] = root'
        /\ \A i \in 1..Len(plan'.path) - 1 : plan'.path[i + 1] = ChildFor(inner'[plan'.path[i]], plan'.key)
    BY ONLY <2>4, <1>1, <1>2
  <2>6. Follows(plan.path, plan.key)'
    BY ONLY <2>5 DEF Follows
  <2>7. plan'.height = height' /\ height' > 1 /\ Len(plan'.path) \in 1..height' - 1
    BY ONLY <2>2, <2>3, <1>1, <1>2
  <2> QED BY <2>6, <2>7
<1>8. StableEpochKeepsPath'
  <2> SUFFICES ASSUME phase' \in {"ready", "siblings"}, plan'.epoch = epoch'
               PROVE  Descends(plan.path, plan.key)'
    BY DEF StableEpochKeepsPath
  <2>1. plan.epoch = epoch /\ Len(q) = plan.height
    BY <1>1, <1>2
  <2>2. Len(q) = height /\ Follows(q, plan.key)
    BY <2>1, <1>6
  <2>3. Descends(q, plan.key)
    BY <2>2 DEF Follows, Descends
  <2> HIDE DEF q
  <2>4. /\ height > 0 /\ Len(q) = height /\ q[1] = root
        /\ \A i \in 1..Len(q) - 1 : q[i + 1] = ChildFor(inner[q[i]], plan.key)
    BY ONLY <2>3 DEF Descends
  <2>5. /\ height' > 0 /\ Len(plan'.path) = height' /\ plan'.path[1] = root'
        /\ \A i \in 1..Len(plan'.path) - 1 : plan'.path[i + 1] = ChildFor(inner'[plan'.path[i]], plan'.key)
    BY ONLY <2>4, <1>1, <1>2
  <2> QED BY ONLY <2>5 DEF Descends
<1> QED BY <1>5, <1>7, <1>8 DEF PlanInv

LEMMA ReadSiblingKeeps == ASSUME PlanInv, ReadSibling PROVE PlanInv'
<1>1. /\ phase = "siblings" /\ phase' \in {"siblings", "ready"}
      /\ root' = root /\ height' = height /\ epoch' = epoch /\ inner' = inner
  BY DEF ReadSibling, vars
<1> PICK sides, sibs : plan' = [plan EXCEPT !.sides = sides, !.sibs = sibs]
  BY DEF ReadSibling
<1>2. /\ DOMAIN plan' = DOMAIN plan /\ plan' = [x \in DOMAIN plan' |-> plan'[x]]
      /\ plan'.epoch = plan.epoch /\ plan'.path = plan.path /\ plan'.key = plan.key
  BY DEF PlanInv, PlanOK, NoPlan
<1>3. PlanOK'
  BY <1>1, <1>2 DEF PlanInv, PlanOK
<1>4. StableEpochKeepsPath'
  BY <1>1, <1>2 DEF PlanInv, StableEpochKeepsPath, Descends
<1> QED BY <1>1, <1>3, <1>4 DEF PlanInv, WalkFollowsTree

(* The end of a plan, whatever the engine did. *)
LEMMA ResetKeeps ==
    ASSUME PlanInv, epoch' \in Nat, height' \in Nat, phase' = "idle", plan' = NoPlan
    PROVE  PlanInv'
BY DEF PlanInv, PlanOK, NoPlan, IsSequence, WalkFollowsTree, StableEpochKeepsPath

LEMMA OthersKeep == ASSUME PlanInv, Moves, UNCHANGED clientVars PROVE PlanInv'
<1>1. CASE UNCHANGED shape
  BY <1>1 DEF PlanInv, PlanOK, WalkFollowsTree, Follows, StableEpochKeepsPath, Descends,
              shape, clientVars
<1>2. CASE epoch' = epoch + 1 /\ height' \in Nat
  <2>1. plan'.epoch < epoch' /\ epoch' \in Nat /\ plan'.epoch \in Nat
    BY <1>2 DEF PlanInv, PlanOK, clientVars
  <2> QED BY <2>1, <1>2
          DEF PlanInv, PlanOK, WalkFollowsTree, StableEpochKeepsPath, clientVars
<1> QED BY <1>1, <1>2 DEF Moves

LEMMA PlanInvStep == PlanInv /\ [ClientNext]_allVars => PlanInv'
<1> SUFFICES ASSUME PlanInv, [ClientNext]_allVars PROVE PlanInv'
  OBVIOUS
<1> USE DEF PlanOK
<1>1. ASSUME NEW kind \in Kinds, NEW k \in Key, Begin(kind, k) PROVE PlanInv'
  BY <1>1, BeginKeeps
<1>2. CASE ReadAllocator
  BY <1>2, ReadAllocatorKeeps
<1>3. CASE ReadHeader
  BY <1>3, ReadHeaderKeeps
<1>4. CASE ReadNode
  BY <1>4, ReadNodeKeeps
<1>5. CASE ReadSibling
  BY <1>5, ReadSiblingKeeps
<1>6. CASE Land
  <2>1. Moves /\ phase' = "idle" /\ plan' = NoPlan
    BY <1>6, LandMoves DEF PlanInv, Land
  <2>2. epoch' \in Nat /\ height' \in Nat
    BY <2>1 DEF PlanInv, Moves, shape
  <2> QED BY <2>1, <2>2, ResetKeeps
<1>7. CASE GiveUp
  <2>1. phase' = "idle" /\ plan' = NoPlan /\ epoch' = epoch /\ height' = height
    BY <1>7 DEF GiveUp, vars
  <2> QED BY <2>1, ResetKeeps DEF PlanInv
<1>8. CASE Others
  BY <1>8, NextMoves, OthersKeep DEF Others, PlanInv
<1>9. CASE UNCHANGED allVars
  <2>1. UNCHANGED shape /\ UNCHANGED clientVars
    BY <1>9 DEF allVars, vars, shape
  <2> QED BY <2>1, OthersKeep DEF Moves
<1> QED BY <1>1, <1>2, <1>3, <1>4, <1>5, <1>6, <1>7, <1>8, <1>9 DEF ClientNext

(* While the structure epoch is the one the client read before resolving,  *)
(* its finished path passes the engine's descent check for its key,        *)
(* whatever landed between the reads.                                      *)
THEOREM StableEpochTheorem == ClientSpec => []StableEpochKeepsPath
<1>1. PlanInv => StableEpochKeepsPath
  BY DEF PlanInv
<1> QED BY <1>1, PlanInvInit, PlanInvStep, PTL DEF ClientSpec

---------------------------------------------------------------------------
(* Signers *)

AuthInv == AuthTypeOK /\ ListsAreGrants

---------------------------------------------------------------------------
(* The two list helpers *)

(* Adding a delegate keeps a list of distinct signers, and adds only him.  *)
LEMMA WithDelegateAdds ==
    ASSUME NEW ds \in Seq(Address), NEW d \in Address, IsInjective(ds)
    PROVE  /\ WithDelegate(ds, d) \in Seq(Address)
           /\ IsInjective(WithDelegate(ds, d))
           /\ Range(WithDelegate(ds, d)) \subseteq Range(ds) \cup {d}
<1>1. CASE d \in Range(ds)
  BY <1>1 DEF WithDelegate
<1>2. CASE d \notin Range(ds)
  <2>1. WithDelegate(ds, d) = Append(ds, d)
    BY <1>2 DEF WithDelegate
  <2>2. \A i \in DOMAIN ds : ds[i] \in Range(ds)
    BY DEF Range
  <2>3. IsInjective(Append(ds, d))
    BY <1>2, <2>2 DEF IsInjective
  <2>4. Range(Append(ds, d)) \subseteq Range(ds) \cup {d}
    BY <2>2 DEF Range
  <2> QED BY <2>1, <2>3, <2>4
<1> QED BY <1>1, <1>2

(* Closing the gap keeps the others, each once, and drops the one at i.    *)
LEMMA WithoutRemoves ==
    ASSUME NEW ds \in Seq(Address), NEW i \in DOMAIN ds, IsInjective(ds)
    PROVE  /\ Without(ds, i) \in Seq(Address)
           /\ IsInjective(Without(ds, i))
           /\ Range(Without(ds, i)) \subseteq Range(ds) \ {ds[i]}
<1> DEFINE rest == Without(ds, i)
           from(j) == IF j < i THEN j ELSE j + 1
<1>1. Len(ds) \in Nat /\ DOMAIN ds = 1..Len(ds) /\ i \in 1..Len(ds)
  OBVIOUS
<1>2. DOMAIN rest = 1..Len(ds) - 1
  BY DEF Without
<1>3. \A j \in 1..Len(ds) - 1 : from(j) \in 1..Len(ds) /\ from(j) # i /\ rest[j] = ds[from(j)]
  BY <1>1 DEF Without
<1>4. rest \in Seq(Address)
  BY <1>1, <1>3 DEF Without
<1>5. IsInjective(rest)
  <2> SUFFICES ASSUME NEW a \in 1..Len(ds) - 1, NEW b \in 1..Len(ds) - 1, rest[a] = rest[b]
               PROVE  a = b
    BY <1>2 DEF IsInjective
  <2>1. from(a) = from(b)
    BY <1>1, <1>3 DEF IsInjective
  <2> QED BY <2>1, <1>1
<1>6. \A j \in 1..Len(ds) - 1 : rest[j] \in Range(ds) \ {ds[i]}
  BY <1>1, <1>3 DEF IsInjective, Range
<1> QED BY <1>2, <1>4, <1>5, <1>6 DEF Range

---------------------------------------------------------------------------
(* The inductive invariant *)

LEMMA AuthInvInit == AuthInit => AuthInv
BY DEF AuthInit, AuthInv, AuthTypeOK, ListsAreGrants

LEMMA TransferKeeps ==
    ASSUME AuthInv, NEW s \in Address, NEW new \in Address \cup {Zero}, TransferAuthority(s, new)
    PROVE  AuthInv'
BY DEF AuthInv, AuthTypeOK, ListsAreGrants, TransferAuthority

(* The list an addition starts from: the one there is, if the authority    *)
(* stamped it, or an empty one.                                            *)
LEMMA RestampedIsOurs ==
    ASSUME AuthInv, NEW l \in List
    PROVE  LET ds == Restamped(l).delegates
           IN  /\ ds \in Seq(Address) /\ IsInjective(ds)
               /\ \A d \in Range(ds) : <<authority, d>> \in granted[l]
<1>1. CASE l \in DOMAIN lists /\ lists[l].authorizing = authority
  BY <1>1 DEF AuthInv, AuthTypeOK, ListsAreGrants, Restamped, Existing
<1>2. CASE ~(l \in DOMAIN lists /\ lists[l].authorizing = authority)
  <2>1. authority # Zero
    BY ZeroAssumption DEF AuthInv, AuthTypeOK
  <2>2. Restamped(l).delegates = <<>>
    BY <1>2, <2>1 DEF Restamped, Existing
  <2>3. IsInjective(<<>>) /\ Range(<<>>) = {}
    BY DEF IsInjective, Range
  <2> QED BY <2>2, <2>3
<1> QED BY <1>1, <1>2

LEMMA AddKeeps ==
    ASSUME AuthInv, NEW s \in Address, NEW l \in List, NEW d \in Address, AddDelegate(s, l, d)
    PROVE  AuthInv'
<1> DEFINE old == Restamped(l).delegates
           new == WithDelegate(old, d)
<1>1. /\ old \in Seq(Address) /\ IsInjective(old)
      /\ \A e \in Range(old) : <<authority, e>> \in granted[l]
  BY RestampedIsOurs
<1>2. new \in Seq(Address) /\ IsInjective(new) /\ Range(new) \subseteq Range(old) \cup {d}
  BY <1>1, WithDelegateAdds
<1>3. /\ DOMAIN lists' = DOMAIN lists \cup {l}
      /\ lists'[l] = [authorizing |-> authority, delegates |-> new]
      /\ \A m \in DOMAIN lists : m # l => lists'[m] = lists[m]
  BY DEF AddDelegate
<1>4. /\ granted \in [List -> SUBSET (Address \X Address)]
      /\ granted' = [granted EXCEPT ![l] = @ \cup {<<authority, d>>}]
      /\ authority \in Address /\ authority' = authority
  BY DEF AuthInv, AuthTypeOK, AddDelegate
<1>5. AuthTypeOK'
  <2>1. lists' \in [DOMAIN lists' -> [authorizing : Address, delegates : Seq(Address)]]
    <3>1. lists' = [m \in DOMAIN lists' |-> lists'[m]]
      BY DEF AddDelegate
    <3>2. \A m \in DOMAIN lists' : lists'[m] \in [authorizing : Address, delegates : Seq(Address)]
      BY <1>2, <1>3, <1>4 DEF AuthInv, AuthTypeOK
    <3> QED BY <3>1, <3>2
  <2>2. granted' \in [List -> SUBSET (Address \X Address)]
    BY <1>4
  <2> QED BY <1>3, <1>4, <2>1, <2>2 DEF AuthInv, AuthTypeOK
<1>6. ListsAreGrants'
  <2> SUFFICES ASSUME NEW m \in DOMAIN lists'
               PROVE  /\ IsInjective(lists'[m].delegates)
                      /\ \A e \in Range(lists'[m].delegates) :
                            <<lists'[m].authorizing, e>> \in granted'[m]
    BY DEF ListsAreGrants
  <2>1. CASE m = l
    BY <2>1, <1>1, <1>2, <1>3, <1>4
  <2>2. CASE m # l
    <3>1. lists'[m] = lists[m] /\ granted'[m] = granted[m] /\ m \in DOMAIN lists
      BY <2>2, <1>3, <1>4 DEF AuthInv, AuthTypeOK
    <3> QED BY <3>1 DEF AuthInv, ListsAreGrants
  <2> QED BY <2>1, <2>2
<1> QED BY <1>5, <1>6 DEF AuthInv

LEMMA RemoveKeeps ==
    ASSUME AuthInv, NEW s \in Address, NEW l \in List, NEW d \in Address, RemoveDelegate(s, l, d)
    PROVE  AuthInv'
<1> DEFINE old == lists[l].delegates
<1>1. /\ l \in DOMAIN lists /\ lists[l].authorizing = authority
      /\ old \in Seq(Address) /\ IsInjective(old)
      /\ \A e \in Range(old) : <<authority, e>> \in granted[l]
  BY DEF AuthInv, AuthTypeOK, ListsAreGrants, RemoveDelegate
<1>2. PICK i \in DOMAIN old :
        old[i] = d /\ lists' = [lists EXCEPT ![l].delegates = Without(@, i)]
  BY DEF RemoveDelegate
<1> DEFINE new == Without(old, i)
<1>3. new \in Seq(Address) /\ IsInjective(new) /\ Range(new) \subseteq Range(old) \ {d}
  BY <1>1, <1>2, WithoutRemoves
<1>4. /\ DOMAIN lists' = DOMAIN lists
      /\ lists'[l].authorizing = authority /\ lists'[l].delegates = new
      /\ \A m \in DOMAIN lists : m # l => lists'[m] = lists[m]
  BY <1>1, <1>2 DEF AuthInv, AuthTypeOK
<1>5. /\ granted \in [List -> SUBSET (Address \X Address)]
      /\ granted' = [granted EXCEPT ![l] = @ \ {<<authority, d>>}]
      /\ authority \in Address /\ authority' = authority
  BY DEF AuthInv, AuthTypeOK, RemoveDelegate
<1>6. AuthTypeOK'
  <2>1. lists' \in [DOMAIN lists -> [authorizing : Address, delegates : Seq(Address)]]
    BY <1>2, <1>3 DEF AuthInv, AuthTypeOK
  <2>2. granted' \in [List -> SUBSET (Address \X Address)]
    BY <1>5
  <2> QED BY <1>4, <1>5, <2>1, <2>2 DEF AuthInv, AuthTypeOK
<1>7. ListsAreGrants'
  <2> SUFFICES ASSUME NEW m \in DOMAIN lists'
               PROVE  /\ IsInjective(lists'[m].delegates)
                      /\ \A e \in Range(lists'[m].delegates) :
                            <<lists'[m].authorizing, e>> \in granted'[m]
    BY DEF ListsAreGrants
  <2>1. CASE m = l
    <3>1. \A e \in Range(new) : <<authority, e>> \in granted[l] /\ e # d
      BY <1>1, <1>3
    <3>2. \A e \in Range(new) : <<authority, e>> \in granted'[l]
      BY <3>1, <1>1, <1>5 DEF AuthInv, AuthTypeOK
    <3> QED BY <2>1, <3>2, <1>3, <1>4
  <2>2. CASE m # l
    <3>1. lists'[m] = lists[m] /\ granted'[m] = granted[m] /\ m \in DOMAIN lists
      BY <2>2, <1>4, <1>5 DEF AuthInv, AuthTypeOK
    <3> QED BY <3>1 DEF AuthInv, ListsAreGrants
  <2> QED BY <2>1, <2>2
<1> QED BY <1>6, <1>7 DEF AuthInv

LEMMA AuthInvStep == AuthInv /\ [AuthNext]_authVars => AuthInv'
<1> SUFFICES ASSUME AuthInv, [AuthNext]_authVars PROVE AuthInv'
  OBVIOUS
<1>1. ASSUME NEW s \in Address, NEW new \in Address \cup {Zero}, TransferAuthority(s, new)
      PROVE  AuthInv'
  BY <1>1, TransferKeeps
<1>2. ASSUME NEW s \in Address, NEW l \in List, NEW d \in Address, AddDelegate(s, l, d)
      PROVE  AuthInv'
  BY <1>2, AddKeeps
<1>3. ASSUME NEW s \in Address, NEW l \in List, NEW d \in Address, RemoveDelegate(s, l, d)
      PROVE  AuthInv'
  BY <1>3, RemoveKeeps
<1>4. CASE UNCHANGED authVars
  BY <1>4 DEF AuthInv, AuthTypeOK, ListsAreGrants, authVars
<1> QED BY <1>1, <1>2, <1>3, <1>4 DEF AuthNext

(* The tree never falls open to the zero authority, and the stored lists   *)
(* keep their type.                                                        *)
THEOREM TypeCorrect == AuthSpec => []AuthTypeOK
<1>1. AuthInv => AuthTypeOK
  BY DEF AuthInv
<1> QED BY <1>1, AuthInvInit, AuthInvStep, PTL DEF AuthSpec

(* A delegate account holds only what its stamp's owner added and did not  *)
(* remove, each signer once.                                               *)
THEOREM ListsHoldGrants == AuthSpec => []ListsAreGrants
<1>1. AuthInv => ListsAreGrants
  BY DEF AuthInv
<1> QED BY <1>1, AuthInvInit, AuthInvStep, PTL DEF AuthSpec

(* Whoever tx_has_authorized_signer lets write on the word of a delegate   *)
(* account was added to it by the authority of this moment, and not        *)
(* removed by it since.                                                    *)
THEOREM NoStaleDelegate == AuthSpec => []HonouredWasGranted
<1>1. AuthInv => HonouredWasGranted
  BY DEF AuthInv, ListsAreGrants, HonouredWasGranted, HonouredBy
<1> QED BY <1>1, AuthInvInit, AuthInvStep, PTL DEF AuthSpec
=============================================================================
