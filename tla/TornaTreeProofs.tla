--------------------------- MODULE TornaTreeProofs ---------------------------
(***************************************************************************)
(* Proofs about TornaTree: the node accounts form one tree.                *)
(***************************************************************************)
EXTENDS TornaTree, TornaNodeProofs

(* The forest that the node maps make while a handler runs: `in' and L are *)
(* the live internal nodes and leaves, R the nodes no one hangs yet, h the *)
(* height.  lv and up are witnesses: a node's level (1 at the leaves) and  *)
(* its parent.                                                             *)
KidsOf(in, n) == ToSet(in[n].kids)

Accounts(in, L, R, lv, up) ==
    /\ lv \in [Nat -> Nat] /\ up \in [Nat -> Nat]
    /\ DOMAIN in \subseteq Nat /\ L \subseteq Nat /\ DOMAIN in \cap L = {}
    /\ R \subseteq DOMAIN in \cup L

Levels(in, L, h, lv) ==
    /\ h \in Nat
    /\ \A c \in L : lv[c] = 1
    /\ \A n \in DOMAIN in : lv[n] \in 2..h

NoDangling(in, L, R, lv, up) ==
    \A n \in DOMAIN in : \A c \in KidsOf(in, n) :
        c \in DOMAIN in \cup L /\ c \notin R /\ up[c] = n /\ lv[n] = lv[c] + 1

NoOrphan(in, L, R, up) ==
    \A c \in (DOMAIN in \cup L) \ R : up[c] \in DOMAIN in /\ c \in KidsOf(in, up[c])

Forest(in, L, R, h, lv, up) ==
    Accounts(in, L, R, lv, up) /\ Levels(in, L, h, lv) /\ NoDangling(in, L, R, lv, up) /\ NoOrphan(in, L, R, up)

LEMMA ForestFacts ==
    ASSUME NEW in, NEW L, NEW R, NEW h, NEW lv, NEW up, Forest(in, L, R, h, lv, up)
    PROVE  /\ h \in Nat
           /\ \A c \in DOMAIN in \cup L : c \in Nat /\ lv[c] \in Nat
           /\ R \subseteq DOMAIN in \cup L /\ DOMAIN in \cap L = {}
           /\ \A n \in DOMAIN in : \A c \in KidsOf(in, n) :
                 c \in DOMAIN in \cup L /\ c \notin R /\ up[c] = n /\ lv[n] = lv[c] + 1 /\ c # n
<1>1. \A c \in DOMAIN in \cup L : c \in Nat /\ lv[c] \in Nat
  BY DEF Forest, Accounts
<1>2. \A n \in DOMAIN in : \A c \in KidsOf(in, n) :
        c \in DOMAIN in \cup L /\ c \notin R /\ up[c] = n /\ lv[n] = lv[c] + 1
  BY DEF Forest, NoDangling
<1>3. \A n \in DOMAIN in : \A c \in KidsOf(in, n) : c # n
  BY <1>1, <1>2
<1> QED BY <1>1, <1>2, <1>3 DEF Forest, Accounts, Levels

Unborn(m, in, L) == m \in Nat /\ m \notin DOMAIN in \cup L

(* m gets the level of n, and the earlier nodes keep theirs. *)
Levelled(lv2, lv, in, L, m, n) == lv2[m] = lv[n] /\ \A c \in DOMAIN in \cup L : lv2[c] = lv[c]

(* All of it one tree of height h. *)
Settled(in, L, r, h) == \E lv, up : Forest(in, L, {r}, h, lv, up) /\ lv[r] = h

(* A new leaf, not yet hung. *)
LEMMA Sprout ==
    ASSUME NEW in, NEW L, NEW R, NEW h, NEW lv, NEW up, Forest(in, L, R, h, lv, up),
           NEW m, Unborn(m, in, L)
    PROVE  Forest(in, L \cup {m}, R \cup {m}, h, [lv EXCEPT ![m] = 1], up)
BY DEF Unborn, Forest, Accounts, Levels, NoDangling, NoOrphan

(* The unhung node q becomes a kid of n. *)
LEMMA Graft ==
    ASSUME NEW in, NEW L, NEW R, NEW h, NEW lv, NEW up, Forest(in, L, R, h, lv, up),
           NEW q \in R, NEW n \in DOMAIN in, lv[n] = lv[q] + 1,
           NEW in2, DOMAIN in2 = DOMAIN in, KidsOf(in2, n) = KidsOf(in, n) \cup {q},
           \A x \in DOMAIN in \ {n} : KidsOf(in2, x) = KidsOf(in, x)
    PROVE  Forest(in2, L, R \ {q}, h, lv, [up EXCEPT ![q] = n])
<1> DEFINE up2 == [up EXCEPT ![q] = n]
<1>1. Accounts(in2, L, R \ {q}, lv, up2) /\ Levels(in2, L, h, lv)
  BY DEF Forest, Accounts, Levels
<1>2. n # q /\ q \in Nat /\ q \in DOMAIN in2 \cup L /\ \A x \in DOMAIN in : q \notin KidsOf(in, x)
  BY ForestFacts
<1>3. \A c \in Nat : up2[c] = IF c = q THEN n ELSE up[c]
  BY DEF Forest, Accounts
<1>4. NoDangling(in2, L, R \ {q}, lv, up2)
  <2> SUFFICES ASSUME NEW x \in DOMAIN in, NEW c \in KidsOf(in2, x)
               PROVE  c \in DOMAIN in \cup L /\ c \notin R \ {q} /\ up2[c] = x /\ lv[x] = lv[c] + 1
    BY DEF NoDangling
  <2>1. CASE c = q
    BY <1>2, <1>3, <2>1
  <2>2. CASE c # q
    <3>1. c \in KidsOf(in, x)
      BY <2>2
    <3>2. c \in DOMAIN in \cup L /\ c \notin R /\ up[c] = x /\ lv[x] = lv[c] + 1 /\ c \in Nat
      BY <3>1 DEF Forest, Accounts, NoDangling
    <3> QED BY <1>3, <2>2, <3>2
  <2> QED BY <2>1, <2>2
<1>5. NoOrphan(in2, L, R \ {q}, up2)
  BY <1>2, <1>3 DEF Forest, Accounts, NoOrphan
<1> QED BY <1>1, <1>4, <1>5 DEF Forest

(* Some of the kids of n move to a new unhung node m of the same level. *)
Cloven(in, in2, n, m) ==
    /\ DOMAIN in2 = DOMAIN in \cup {m}
    /\ KidsOf(in2, n) \cup KidsOf(in2, m) = KidsOf(in, n)
    /\ KidsOf(in2, n) \cap KidsOf(in2, m) = {}
    /\ \A x \in DOMAIN in \ {n} : KidsOf(in2, x) = KidsOf(in, x)

LEMMA Cleave ==
    ASSUME NEW in, NEW L, NEW R, NEW h, NEW lv, NEW up, Forest(in, L, R, h, lv, up),
           NEW m, Unborn(m, in, L), NEW n \in DOMAIN in,
           NEW in2, Cloven(in, in2, n, m)
    PROVE  \E lv2, up2 : /\ Forest(in2, L, R \cup {m}, h, lv2, up2) /\ Levelled(lv2, lv, in, L, m, n)
<1> DEFINE A == KidsOf(in2, m)
           lv2 == [lv EXCEPT ![m] = lv[n]]
           up2 == [c \in Nat |-> IF c \in A THEN m ELSE up[c]]
<1>0. DOMAIN in2 = DOMAIN in \cup {m} /\ KidsOf(in2, n) = KidsOf(in, n) \ A
      /\ A \subseteq KidsOf(in, n) /\ \A x \in DOMAIN in \ {n} : KidsOf(in2, x) = KidsOf(in, x)
  BY DEF Cloven
<1>. m \in Nat /\ m \notin DOMAIN in \cup L
  BY DEF Unborn
<1>1. A \subseteq KidsOf(in, n) /\ \A x \in DOMAIN in : KidsOf(in2, x) = KidsOf(in, x) \ A
  <2>1. ASSUME NEW x \in DOMAIN in \ {n} PROVE KidsOf(in, x) \cap A = {}
    BY <1>0, ForestFacts
  <2> QED BY <1>0, <2>1
<1>2. \A c \in Nat : up2[c] = (IF c \in A THEN m ELSE up[c]) /\ lv2[c] = IF c = m THEN lv[n] ELSE lv[c]
  BY DEF Forest, Accounts
<1>3. A \subseteq DOMAIN in \cup L /\ m \notin A
  BY <1>1, ForestFacts
<1> HIDE DEF A
<1>4. Accounts(in2, L, R \cup {m}, lv2, up2)
  BY <1>0, <1>3 DEF Forest, Accounts
<1>5. Levels(in2, L, h, lv2)
  BY <1>0, <1>2, ForestFacts DEF Forest, Levels
<1>6. NoDangling(in2, L, R \cup {m}, lv2, up2)
  <2> SUFFICES ASSUME NEW x \in DOMAIN in2, NEW c \in KidsOf(in2, x)
               PROVE  c \in DOMAIN in2 \cup L /\ c \notin R \cup {m} /\ up2[c] = x /\ lv2[x] = lv2[c] + 1
    BY DEF NoDangling
  <2>1. CASE x = m
    <3>1. c \in A /\ c \in KidsOf(in, n)
      BY <1>1, <2>1 DEF A
    <3> QED BY <1>0, <1>2, <1>3, <2>1, <3>1, ForestFacts
  <2>2. CASE x # m
    <3>1. x \in DOMAIN in /\ c \in KidsOf(in, x) /\ c \notin A
      BY <1>0, <1>1, <2>2
    <3>2. x \in Nat /\ c \in Nat /\ c # m
      BY <3>1, ForestFacts
    <3> QED BY <1>0, <1>2, <2>2, <3>1, <3>2, ForestFacts
  <2> QED BY <2>1, <2>2
<1>7. NoOrphan(in2, L, R \cup {m}, up2)
  <2> SUFFICES ASSUME NEW c \in (DOMAIN in2 \cup L) \ (R \cup {m})
               PROVE  up2[c] \in DOMAIN in2 /\ c \in KidsOf(in2, up2[c])
    BY DEF NoOrphan
  <2>1. c \in Nat /\ up[c] \in DOMAIN in /\ c \in KidsOf(in, up[c])
    BY <1>0, ForestFacts DEF Forest, NoOrphan
  <2>2. CASE c \in A
    BY <1>0, <1>2, <2>1, <2>2 DEF A
  <2>3. CASE c \notin A
    BY <1>0, <1>1, <1>2, <2>1, <2>3
  <2> QED BY <2>2, <2>3
<1>8. Forest(in2, L, R \cup {m}, h, lv2, up2)
  BY <1>4, <1>5, <1>6, <1>7 DEF Forest
<1> HIDE DEF lv2, up2
<1>9. Levelled(lv2, lv, in, L, m, n)
  BY <1>2, ForestFacts DEF Levelled
<1> QED BY <1>8, <1>9

(* A new root m over all the unhung nodes. *)
LEMMA Crown ==
    ASSUME NEW in, NEW L, NEW R, NEW h, NEW lv, NEW up, Forest(in, L, R, h, lv, up),
           h > 0, \A c \in R : lv[c] = h,
           NEW m, Unborn(m, in, L),
           NEW in2, DOMAIN in2 = DOMAIN in \cup {m}, KidsOf(in2, m) = R,
           \A x \in DOMAIN in : KidsOf(in2, x) = KidsOf(in, x)
    PROVE  Settled(in2, L, m, h + 1)
<1> m \in Nat /\ m \notin DOMAIN in \cup L /\ h \in Nat
  BY ForestFacts DEF Unborn
<1> DEFINE lv2 == [lv EXCEPT ![m] = h + 1]
           up2 == [c \in Nat |-> IF c \in R THEN m ELSE up[c]]
<1>1. \A c \in Nat : up2[c] = (IF c \in R THEN m ELSE up[c]) /\ lv2[c] = IF c = m THEN h + 1 ELSE lv[c]
  BY DEF Forest, Accounts
<1>2. Accounts(in2, L, {m}, lv2, up2)
  BY DEF Forest, Accounts
<1>3. Levels(in2, L, h + 1, lv2)
  <2>1. \A c \in L : lv2[c] = 1
    BY <1>1, ForestFacts DEF Forest, Levels
  <2>2. \A x \in DOMAIN in : lv2[x] \in 2..h + 1
    BY <1>1, ForestFacts DEF Forest, Levels
  <2>3. lv2[m] \in 2..h + 1
    BY <1>1
  <2> QED BY <2>1, <2>2, <2>3 DEF Levels
<1>4. NoDangling(in2, L, {m}, lv2, up2)
  <2> SUFFICES ASSUME NEW x \in DOMAIN in2, NEW c \in KidsOf(in2, x)
               PROVE  c \in DOMAIN in2 \cup L /\ c \notin {m} /\ up2[c] = x /\ lv2[x] = lv2[c] + 1
    BY DEF NoDangling
  <2>1. CASE x = m
    <3>1. c \in R /\ c \in Nat /\ c \in DOMAIN in \cup L /\ lv[c] = h
      BY <2>1, ForestFacts
    <3> QED BY <1>1, <2>1, <3>1
  <2>2. CASE x # m
    <3>1. x \in DOMAIN in /\ c \in KidsOf(in, x)
      BY <2>2
    <3>2. x \in Nat /\ c \in Nat /\ c # m /\ c \notin R
      BY <3>1, ForestFacts
    <3> QED BY <1>1, <2>2, <3>1, <3>2, ForestFacts
  <2> QED BY <2>1, <2>2
<1>5. NoOrphan(in2, L, {m}, up2)
  <2> SUFFICES ASSUME NEW c \in (DOMAIN in2 \cup L) \ {m}
               PROVE  up2[c] \in DOMAIN in2 /\ c \in KidsOf(in2, up2[c])
    BY DEF NoOrphan
  <2>1. c \in Nat
    BY ForestFacts
  <2>2. CASE c \in R
    BY <1>1, <2>1, <2>2
  <2>3. CASE c \notin R
    BY <1>1, <2>1, <2>3 DEF Forest, NoOrphan
  <2> QED BY <2>2, <2>3
<1>6. Forest(in2, L, {m}, h + 1, lv2, up2)
  BY <1>2, <1>3, <1>4, <1>5 DEF Forest
<1>7. lv2[m] = h + 1
  BY <1>1
<1> HIDE DEF lv2, up2
<1> QED BY <1>6, <1>7 DEF Settled

(* The kid c of n is unhung. *)
LEMMA Prune ==
    ASSUME NEW in, NEW L, NEW R, NEW h, NEW lv, NEW up, Forest(in, L, R, h, lv, up),
           NEW n \in DOMAIN in, NEW c \in KidsOf(in, n),
           NEW in2, DOMAIN in2 = DOMAIN in, KidsOf(in2, n) = KidsOf(in, n) \ {c},
           \A x \in DOMAIN in \ {n} : KidsOf(in2, x) = KidsOf(in, x)
    PROVE  Forest(in2, L, R \cup {c}, h, lv, up)
BY DEF Forest, Accounts, Levels, NoDangling, NoOrphan

(* The unhung internal node r is folded into l, of the same level. *)
LEMMA Fuse ==
    ASSUME NEW in, NEW L, NEW R, NEW h, NEW lv, NEW up, Forest(in, L, R, h, lv, up),
           NEW r \in R, r \in DOMAIN in, NEW l \in DOMAIN in, l # r, lv[l] = lv[r],
           NEW in2, DOMAIN in2 = DOMAIN in \ {r},
           KidsOf(in2, l) = KidsOf(in, l) \cup KidsOf(in, r),
           \A x \in DOMAIN in \ {l, r} : KidsOf(in2, x) = KidsOf(in, x)
    PROVE  \E up2 : /\ Forest(in2, L, R \ {r}, h, lv, up2)
                    /\ (\A c \in Nat \ KidsOf(in, r) : up2[c] = up[c])
<1> DEFINE B == KidsOf(in, r)
           up2 == [c \in Nat |-> IF c \in B THEN l ELSE up[c]]
<1>1. \A c \in Nat : up2[c] = IF c \in B THEN l ELSE up[c]
  OBVIOUS
<1>2. Accounts(in2, L, R \ {r}, lv, up2) /\ Levels(in2, L, h, lv)
  BY DEF Forest, Accounts, Levels
<1>3. \A x \in DOMAIN in \ {r} : KidsOf(in, x) \cap B = {}
  BY ForestFacts
<1>4. NoDangling(in2, L, R \ {r}, lv, up2)
  <2> SUFFICES ASSUME NEW x \in DOMAIN in2, NEW c \in KidsOf(in2, x)
               PROVE  c \in DOMAIN in2 \cup L /\ c \notin R \ {r} /\ up2[c] = x /\ lv[x] = lv[c] + 1
    BY DEF NoDangling
  <2>1. CASE c \in B
    <3>1. x = l
      BY <1>3, <2>1
    <3>2. c \in DOMAIN in \cup L /\ c \notin R /\ lv[r] = lv[c] + 1 /\ c \in Nat
      BY <2>1, ForestFacts
    <3> QED BY <1>1, <2>1, <3>1, <3>2
  <2>2. CASE c \notin B
    <3>1. x \in DOMAIN in /\ c \in KidsOf(in, x)
      BY <2>2
    <3>2. c \in DOMAIN in \cup L /\ c \notin R /\ up[c] = x /\ lv[x] = lv[c] + 1 /\ c \in Nat
      BY <3>1, ForestFacts
    <3> QED BY <1>1, <2>2, <3>2
  <2> QED BY <2>1, <2>2
<1>5. NoOrphan(in2, L, R \ {r}, up2)
  <2> SUFFICES ASSUME NEW c \in (DOMAIN in2 \cup L) \ (R \ {r})
               PROVE  up2[c] \in DOMAIN in2 /\ c \in KidsOf(in2, up2[c])
    BY DEF NoOrphan
  <2>1. c \in Nat /\ c \notin R /\ up[c] \in DOMAIN in /\ c \in KidsOf(in, up[c])
    BY ForestFacts DEF Forest, NoOrphan
  <2>2. CASE c \in B
    BY <1>1, <2>1, <2>2
  <2>3. CASE c \notin B
    BY <1>1, <2>1, <2>3
  <2> QED BY <2>2, <2>3
<1>6. Forest(in2, L, R \ {r}, h, lv, up2)
  BY <1>2, <1>4, <1>5 DEF Forest
<1> HIDE DEF up2
<1>7. (\A c \in Nat \ KidsOf(in, r) : up2[c] = up[c])
  BY <1>1
<1> QED BY <1>6, <1>7

(* An unhung leaf is closed. *)
LEMMA DropLeaf ==
    ASSUME NEW in, NEW L, NEW R, NEW h, NEW lv, NEW up, Forest(in, L, R, h, lv, up),
           NEW r \in R, r \in L
    PROVE  Forest(in, L \ {r}, R \ {r}, h, lv, up)
BY DEF Forest, Accounts, Levels, NoDangling, NoOrphan

(* The root is closed and its kids are unhung: the tree is one level lower. *)
Without(in, in2, r) == DOMAIN in2 = DOMAIN in \ {r} /\ \A x \in DOMAIN in2 : KidsOf(in2, x) = KidsOf(in, x)

Toppled(in, in2, L, r, h, lv, up) ==
    Forest(in2, L, KidsOf(in, r), h - 1, lv, up) /\ \A c \in KidsOf(in, r) : lv[c] = h - 1

LEMMA Topple ==
    ASSUME NEW in, NEW in2, NEW L, NEW r, NEW h, NEW lv, NEW up, Forest(in, L, {r}, h, lv, up),
           lv[r] = h, r \in DOMAIN in, Without(in, in2, r)
    PROVE  Toppled(in, in2, L, r, h, lv, up)
<1> DOMAIN in2 = DOMAIN in \ {r} /\ \A x \in DOMAIN in2 : KidsOf(in2, x) = KidsOf(in, x)
  BY DEF Without
<1> h \in Nat
  BY ForestFacts
<1> DEFINE R2 == KidsOf(in, r)
<1>1. R2 \subseteq DOMAIN in2 \cup L /\ \A c \in R2 : lv[c] = h - 1
  BY ForestFacts
<1>2. Accounts(in2, L, R2, lv, up)
  BY <1>1 DEF Forest, Accounts
<1>3. Levels(in2, L, h - 1, lv)
  <2> SUFFICES ASSUME NEW n \in DOMAIN in2 PROVE lv[n] \in 2..h - 1
    BY DEF Forest, Levels
  <2>1. n \in DOMAIN in \ {r} /\ lv[n] \in 2..h
    BY DEF Forest, Levels
  <2>2. up[n] \in DOMAIN in /\ n \in KidsOf(in, up[n])
    BY <2>1 DEF Forest, NoOrphan
  <2>3. lv[up[n]] = lv[n] + 1 /\ lv[up[n]] \in 2..h
    BY <2>2 DEF Forest, NoDangling, Levels
  <2> QED BY <2>1, <2>3
<1>4. NoDangling(in2, L, R2, lv, up)
  BY ForestFacts DEF NoDangling
<1>5. NoOrphan(in2, L, R2, up)
  <2> SUFFICES ASSUME NEW c \in (DOMAIN in2 \cup L) \ R2
               PROVE  up[c] \in DOMAIN in2 /\ c \in KidsOf(in2, up[c])
    BY DEF NoOrphan
  <2>1. c \in (DOMAIN in \cup L) \ {r}
    BY DEF Forest, Accounts
  <2>2. up[c] \in DOMAIN in /\ c \in KidsOf(in, up[c])
    BY <2>1 DEF Forest, NoOrphan
  <2> QED BY <2>2
<1> QED BY <1>1, <1>2, <1>3, <1>4, <1>5 DEF Forest, Toppled

---------------------------------------------------------------------------
(* The node maps *)

LEMMA WithFacts ==
    ASSUME NEW nodes, NEW n, NEW node
    PROVE  /\ DOMAIN With(nodes, n, node) = DOMAIN nodes \cup {n}
           /\ With(nodes, n, node)[n] = node
           /\ \A x \in DOMAIN nodes \ {n} : With(nodes, n, node)[x] = nodes[x]
BY DEF With

LEMMA ClosedFacts ==
    ASSUME NEW nodes, NEW n
    PROVE  /\ DOMAIN Closed(nodes, n) = DOMAIN nodes \ {n}
           /\ \A x \in DOMAIN nodes \ {n} : Closed(nodes, n)[x] = nodes[x]
BY DEF Closed, Restrict

LEMMA FanoutFacts == F \in Nat /\ MINK \in Nat /\ MINK >= 2 /\ 2 * MINK <= F /\ F <= 2 * MINK + 1
<1>1. F \in 4..256
  BY FanoutAssumption
<1>2. F \in Nat /\ F >= 4
  BY <1>1
<1>3. F \div 2 \in Nat /\ F \div 2 >= 2 /\ 2 * (F \div 2) <= F /\ F <= 2 * (F \div 2) + 1
  BY <1>2
<1> QED BY <1>2, <1>3 DEF MINK

(* Every internal node is well formed and has its share of keys.           *)
IsMap(in) == in = [n \in DOMAIN in |-> in[n]]

Sized(in, r) ==
    /\ IsMap(in)
    /\ \A n \in DOMAIN in : NodeOK(in[n]) /\ KeyCount(in[n]) \in (IF n = r THEN 1 ELSE MINK)..F

LEMMA Maps ==
    ASSUME NEW in, NEW n, NEW node
    PROVE  /\ IsMap([in EXCEPT ![n] = node]) /\ IsMap(With(in, n, node)) /\ IsMap(Closed(in, n))
BY DEF IsMap, With, Closed, Restrict

---------------------------------------------------------------------------
(* A separator on its way up *)

LEMMA HalvesOfOverfull ==
    (F + 1) \div 2 \in MINK..F /\ (F + 1) - ((F + 1) \div 2) - 1 \in MINK..F
<1>1. F \in Nat /\ F >= 4
  BY FanoutAssumption
<1> QED BY <1>1 DEF MINK

(* The separator and the node q to its right are inserted at n ... *)
Grown(node, n, r) == NodeOK(node) /\ Len(node.keys) \in 1..F + 1 /\ (n = r \/ Len(node.keys) >= MINK)

Rooted(in, L, R, h, lv) == \E up : Forest(in, L, R, h, lv, up)

LEMMA Hangs ==
    ASSUME NEW L, NEW h, NEW lv, NEW up, NEW r, NEW in, NEW q, NEW sep, NEW n, NEW node, NEW in1,
           Forest(in, L, {r, q}, h, lv, up), Sized(in, r), q # r, sep \in Index,
           n \in DOMAIN in, lv[n] = lv[q] + 1,
           node = InternalInsertAt(in[n], LowerBound(in[n].keys, sep), sep, q),
           in1 = [in EXCEPT ![n] = node]
    PROVE  Grown(node, n, r) /\ Rooted(in1, L, {r}, h, lv)
<1>1. NodeOK(in[n]) /\ Len(in[n].keys) \in 1..F /\ (n = r \/ Len(in[n].keys) >= MINK)
  BY FanoutFacts DEF Sized, KeyCount
<1>2. q \in Index /\ q \notin ToSet(in[n].kids) /\ q \in DOMAIN in \cup L
  BY ForestFacts DEF KidsOf, Index
<1>3. LowerBound(in[n].keys, sep) \in Slots(in[n])
  BY <1>1, LowerBoundIsPosition DEF NodeOK, Slots
<1>4. NodeOK(node) /\ ToSet(node.kids) = ToSet(in[n].kids) \cup {q} /\ Len(node.keys) = Len(in[n].keys) + 1
  BY <1>1, <1>2, <1>3, InsertedOK
<1>5. /\ DOMAIN in1 = DOMAIN in /\ KidsOf(in1, n) = KidsOf(in, n) \cup {q}
      /\ \A x \in DOMAIN in \ {n} : KidsOf(in1, x) = KidsOf(in, x)
  BY <1>4 DEF KidsOf
<1>6. Forest(in1, L, {r, q} \ {q}, h, lv, [up EXCEPT ![q] = n])
  BY <1>5, Graft
<1>7. {r, q} \ {q} = {r}
  OBVIOUS
<1>8. Len(node.keys) \in 1..F + 1 /\ (n = r \/ Len(node.keys) >= MINK)
  BY <1>1, <1>4, FanoutFacts
<1> QED BY <1>4, <1>6, <1>7, <1>8 DEF Grown, Rooted

(* ... and a node that is then too full is split, its right half unhung. *)
Overhang(in2, L, r, m, h, lv, in, n) ==
    /\ Sized(in2, r) /\ DOMAIN in2 = DOMAIN in \cup {m} /\ KeyCount(in2[n]) >= MINK
    /\ \E lv2, up2 : Forest(in2, L, {r, m}, h, lv2, up2) /\ Levelled(lv2, lv, in, L, m, n)

LEMMA Splits ==
    ASSUME NEW L, NEW h, NEW lv, NEW r, NEW in, NEW n, NEW node, NEW in1, NEW m, NEW halves, NEW in2,
           n \in DOMAIN in, NodeOK(node), Len(node.keys) = F + 1,
           in1 = [in EXCEPT ![n] = node], Rooted(in1, L, {r}, h, lv), Sized(in, r),
           Unborn(m, in, L), halves = InternalSplit(node),
           in2 = With([in EXCEPT ![n] = halves.left], m, halves.right)
    PROVE  halves.sep \in Index /\ Overhang(in2, L, r, m, h, lv, in, n)
<1>0. m \in Nat /\ m \notin DOMAIN in \cup L
  BY DEF Unborn
<1>1. /\ NodeOK(halves.left) /\ NodeOK(halves.right) /\ halves.sep \in Index
      /\ Len(halves.left.keys) = (F + 1) \div 2 /\ Len(halves.right.keys) = (F + 1) - ((F + 1) \div 2) - 1
      /\ ToSet(halves.left.kids) \cup ToSet(halves.right.kids) = ToSet(node.kids)
      /\ ToSet(halves.left.kids) \cap ToSet(halves.right.kids) = {}
  <2>1. Len(node.keys) > 0
    BY FanoutFacts
  <2> QED BY <2>1, SplitOK
<1>2. Len(halves.left.keys) \in MINK..F /\ Len(halves.right.keys) \in MINK..F
  BY <1>1, FanoutFacts, HalvesOfOverfull
<1>3. /\ DOMAIN in2 = DOMAIN in \cup {m} /\ in2[m] = halves.right /\ in2[n] = halves.left
      /\ \A x \in DOMAIN in \ {n} : in2[x] = in[x]
  BY <1>0 DEF With
<1>4. /\ DOMAIN in1 = DOMAIN in /\ in1[n] = node /\ \A x \in DOMAIN in \ {n} : in1[x] = in[x]
  OBVIOUS
<1>5. PICK up : Forest(in1, L, {r}, h, lv, up)
  BY DEF Rooted
<1>6. Sized(in2, r)
  <2> SUFFICES ASSUME NEW x \in DOMAIN in2
               PROVE  NodeOK(in2[x]) /\ Len(in2[x].keys) \in (IF x = r THEN 1 ELSE MINK)..F
    <3>1. IsMap(in2)
      BY Maps
    <3> QED BY <3>1 DEF Sized, KeyCount
  <2>1. CASE x \in {n, m}
    <3>1. NodeOK(in2[x]) /\ Len(in2[x].keys) \in MINK..F
      BY <1>1, <1>2, <1>3, <2>1
    <3>2. MINK..F \subseteq 1..F
      BY FanoutFacts
    <3> QED BY <3>1, <3>2
  <2>2. CASE x \notin {n, m}
    BY <1>3, <2>2 DEF Sized, KeyCount
  <2> QED BY <2>1, <2>2
<1>7. Cloven(in1, in2, n, m)
  BY <1>1, <1>3, <1>4 DEF KidsOf, Cloven
<1>8. PICK lv2, up2 : /\ Forest(in2, L, {r} \cup {m}, h, lv2, up2) /\ Levelled(lv2, lv, in1, L, m, n)
  <2>1. n \in DOMAIN in1 /\ Unborn(m, in1, L)
    BY <1>3, <1>4 DEF Unborn
  <2> QED BY <1>5, <1>7, <2>1, Cleave
<1>9. {r} \cup {m} = {r, m}
  OBVIOUS
<1>10. KeyCount(in2[n]) >= MINK
  BY <1>2, <1>3, FanoutFacts DEF KeyCount
<1>11. /\ Forest(in2, L, {r, m}, h, lv2, up2) /\ Levelled(lv2, lv, in, L, m, n)
  BY <1>4, <1>8, <1>9 DEF Levelled
<1> QED BY <1>1, <1>3, <1>6, <1>10, <1>11 DEF Overhang

(* The loop's state at level i of the path p, in a tree of height h whose  *)
(* internal nodes were in0 and whose allocator stood at hw: the separator  *)
(* has settled, or the node to its right hangs in the air at p[i]'s level. *)
PathLevels(p, lv, h) == \A j \in 1..h : lv[p[j]] = h - j + 1

Hovering(in, L, q, h, p, i) ==
    \E lv, up : Forest(in, L, {p[1], q}, h, lv, up) /\ PathLevels(p, lv, h) /\ lv[q] = h - i + 1

Climbing(u, i, p, in0, L, hw, h) ==
    /\ u = [rising |-> u.rising, sep |-> u.sep, right |-> u.right, used |-> u.used, inner |-> u.inner]
    /\ u.used \in Nat /\ u.used > hw
    /\ Sized(u.inner, p[1])
    /\ DOMAIN in0 \subseteq DOMAIN u.inner /\ DOMAIN u.inner \subseteq DOMAIN in0 \cup hw + 2..u.used
    /\ \/ u.rising = FALSE /\ Settled(u.inner, L, p[1], h)
       \/ /\ u.rising = TRUE /\ u.sep \in Index /\ u.right # p[1]
          /\ Hovering(u.inner, L, u.right, h, p, i)
          /\ i < h => KeyCount(u.inner[p[i]]) >= MINK

LEMMA ClimbStep ==
    ASSUME NEW hw \in Nat, NEW h \in Nat, NEW in0, NEW L, DOMAIN in0 \cup L \subseteq 1..hw + 1,
           NEW p, \A j \in 1..h - 1 : p[j] \in DOMAIN in0, p[h] \in L,
           NEW i \in 1..h - 1, NEW u, Climbing(u, i + 1, p, in0, L, hw, h)
    PROVE  Climbing(HangSeparator(p[i], u), i, p, in0, L, hw, h)
<1> DEFINE in == u.inner
           n == p[i]
           node == InternalInsertAt(in[n], LowerBound(in[n].keys, u.sep), u.sep, u.right)
           in1 == [in EXCEPT ![n] = node]
           halves == InternalSplit(node)
           m == u.used + 1
           in2 == With([in EXCEPT ![n] = halves.left], m, halves.right)
           w == HangSeparator(p[i], u)
<1>1. CASE u.rising = FALSE
  BY <1>1 DEF Climbing, HangSeparator
<1>2. CASE u.rising = TRUE
  <2>1. /\ u = [rising |-> u.rising, sep |-> u.sep, right |-> u.right, used |-> u.used, inner |-> u.inner]
        /\ u.sep \in Index /\ u.right # p[1] /\ u.used \in Nat /\ u.used > hw /\ Sized(in, p[1])
        /\ DOMAIN in0 \subseteq DOMAIN in /\ DOMAIN in \subseteq DOMAIN in0 \cup hw + 2..u.used
        /\ Hovering(in, L, u.right, h, p, i + 1)
    BY <1>2 DEF Climbing
  <2>2. PICK lv, up : Forest(in, L, {p[1], u.right}, h, lv, up) /\ PathLevels(p, lv, h)
                      /\ lv[u.right] = h - (i + 1) + 1
    BY <2>1 DEF Hovering
  <2>3. n \in DOMAIN in
    BY <2>1
  <2>4. lv[n] = lv[u.right] + 1
    <3>1. lv[n] = h - i + 1
      BY <2>2 DEF PathLevels
    <3> QED BY <2>2, <3>1
  <2> DEFINE q == u.right
             sep == u.sep
             r == p[1]
  <2> HIDE DEF in, n, node, in1, q, sep, r
  <2>5. Grown(node, n, r) /\ Rooted(in1, L, {r}, h, lv)
    <3>1. Forest(in, L, {r, q}, h, lv, up) /\ Sized(in, r) /\ q # r /\ sep \in Index /\ n \in DOMAIN in
      BY <2>1, <2>2, <2>3 DEF q, sep, r, in, n
    <3>2. node = InternalInsertAt(in[n], LowerBound(in[n].keys, sep), sep, q) /\ in1 = [in EXCEPT ![n] = node]
      BY DEF node, in1, q, sep
    <3>3. lv[n] = lv[q] + 1
      BY <2>4 DEF q, n
    <3> QED BY <3>1, <3>2, <3>3, Hangs
  <2>6. PICK up1 : Forest(in1, L, {r}, h, lv, up1)
    BY <2>5 DEF Rooted
  <2>7. lv[r] = h /\ lv[n] = h - i + 1
    BY <2>2 DEF PathLevels, r, n
  <2>8. /\ in = u.inner /\ u.sep = sep /\ u.right = q /\ n = p[i] /\ r = p[1]
        /\ node = InternalInsertAt(u.inner[p[i]], LowerBound(u.inner[p[i]].keys, u.sep), u.sep, u.right)
        /\ in1 = [u.inner EXCEPT ![p[i]] = node] /\ n \in DOMAIN in
    BY <2>3 DEF in, n, q, sep, node, in1, r
  <2>9. CASE KeyCount(node) <= F
    <3>1. w = [rising |-> FALSE, sep |-> u.sep, right |-> u.right, used |-> u.used, inner |-> in1]
      BY <1>2, <2>1, <2>8, <2>9 DEF HangSeparator
    <3>2. DOMAIN in1 = DOMAIN in /\ in1[n] = node /\ \A x \in DOMAIN in \ {n} : in1[x] = in[x]
      BY <2>8
    <3>3. Sized(in1, r)
      <4>1. NodeOK(node) /\ Len(node.keys) \in (IF n = r THEN 1 ELSE MINK)..F
        BY <2>5, <2>9, FanoutFacts DEF Grown, KeyCount
      <4>2. IsMap(in1)
        BY <2>8, Maps
      <4> QED BY <2>1, <2>8, <3>2, <4>1, <4>2 DEF Sized, KeyCount
    <3>4. Settled(in1, L, r, h)
      BY <2>6, <2>7 DEF Settled
    <3> HIDE DEF w
    <3>5. w.rising = FALSE /\ w.inner = in1 /\ w.used = u.used
          /\ w = [rising |-> w.rising, sep |-> w.sep, right |-> w.right, used |-> w.used, inner |-> w.inner]
      BY <3>1
    <3>6. Climbing(w, i, p, in0, L, hw, h)
      BY <2>1, <2>8, <3>2, <3>3, <3>4, <3>5 DEF Climbing
    <3> QED BY <3>6 DEF w
  <2>10. CASE ~(KeyCount(node) <= F)
    <3> HIDE DEF halves, m, in2
    <3>1. w = [rising |-> TRUE, sep |-> halves.sep, right |-> m, used |-> m, inner |-> in2]
      <4>1. halves = InternalSplit(node) /\ m = u.used + 1
            /\ in2 = With([u.inner EXCEPT ![p[i]] = halves.left], u.used + 1, halves.right)
        BY <2>8 DEF halves, m, in2
      <4> QED BY <1>2, <2>8, <2>10, <4>1 DEF HangSeparator
    <3>2. Unborn(m, in, L) /\ m \in Nat /\ m = u.used + 1
      BY <2>1, <2>8 DEF m, Unborn
    <3>3. /\ Sized(in2, r) /\ DOMAIN in2 = DOMAIN in \cup {m} /\ halves.sep \in Index
          /\ KeyCount(in2[n]) >= MINK /\ Overhang(in2, L, r, m, h, lv, in, n)
      <4>1. NodeOK(node) /\ Len(node.keys) = F + 1
        BY <2>5, <2>10, FanoutFacts DEF Grown, KeyCount
      <4>2. /\ halves = InternalSplit(node) /\ in2 = With([in EXCEPT ![n] = halves.left], m, halves.right)
            /\ Sized(in, r) /\ in1 = [in EXCEPT ![n] = node]
        BY <2>1, <2>8 DEF halves, in2
      <4>3. halves.sep \in Index /\ Overhang(in2, L, r, m, h, lv, in, n)
        <5>1. n \in DOMAIN in /\ Rooted(in1, L, {r}, h, lv) /\ Unborn(m, in, L)
          BY <2>5, <2>8, <3>2
        <5> QED BY ONLY <4>1, <4>2, <5>1, Splits
      <4> QED BY <4>3 DEF Overhang
    <3>4. PICK lv2, up2 : Forest(in2, L, {r, m}, h, lv2, up2) /\ Levelled(lv2, lv, in, L, m, n)
      BY <3>3 DEF Overhang
    <3>5. PathLevels(p, lv2, h) /\ lv2[m] = h - i + 1
      <4>1. \A j \in 1..h : p[j] \in DOMAIN in \cup L
        BY <2>1, <2>8
      <4> QED BY <2>2, <2>7, <3>4, <4>1 DEF Levelled, PathLevels
    <3>6. Hovering(in2, L, m, h, p, i)
      BY <2>8, <3>4, <3>5 DEF Hovering
    <3> HIDE DEF w
    <3>7. /\ w.rising = TRUE /\ w.inner = in2 /\ w.used = m /\ w.right = m /\ w.sep = halves.sep
          /\ w = [rising |-> w.rising, sep |-> w.sep, right |-> w.right, used |-> w.used, inner |-> w.inner]
      BY <3>1
    <3>8. m # r /\ m > hw /\ 1..u.used \subseteq 1..m /\ m \in hw + 2..m
      <4>1. r \in DOMAIN in \cup L
        BY <2>2, <2>8, ForestFacts
      <4> QED BY <2>1, <3>2, <4>1 DEF Unborn
    <3>9. DOMAIN in2 \subseteq DOMAIN in0 \cup hw + 2..m /\ DOMAIN in0 \subseteq DOMAIN in2
      BY <2>1, <2>8, <3>2, <3>3, <3>8
    <3>10. Climbing(w, i, p, in0, L, hw, h)
      BY <2>8, <3>2, <3>3, <3>6, <3>7, <3>8, <3>9 DEF Climbing
    <3> QED BY <3>10 DEF w
  <2> QED BY <2>9, <2>10
<1>3. u.rising \in {TRUE, FALSE}
  BY DEF Climbing
<1> QED BY <1>1, <1>2, <1>3

(* The loop: what it starts from, and the states it passes through. *)
Bottom(sep) == [rising |-> TRUE, sep |-> sep, right |-> highWater + 1, used |-> highWater + 1, inner |-> inner]

Climb(s, p, sep) ==
    s = [i \in 1..height |-> IF i = height
                             THEN [rising |-> TRUE, sep |-> sep, right |-> highWater + 1,
                                   used |-> highWater + 1, inner |-> inner]
                             ELSE HangSeparator(p[i], s[i + 1])]

LEMMA ClimbRuns ==
    ASSUME NEW p, NEW sep, height \in Nat, height > 0
    PROVE  \E s : Climb(s, p, sep) /\ Propagate(p, sep) = s[1]
<1> DEFINE Step(s, i) == IF i = height THEN Bottom(sep) ELSE HangSeparator(p[i], s[i + 1])
           Upto(s, d) == s = [i \in 1..height |-> s[i]] /\ \A i \in 1..height : i >= height - d => s[i] = Step(s, i)
           A == {d \in Nat : \E s : Upto(s, d)}
<1>1. 0 \in A
  <2> DEFINE s == [i \in 1..height |-> Bottom(sep)]
  <2>1. s = [i \in 1..height |-> s[i]] /\ \A i \in 1..height : i >= height - 0 => i = height /\ s[i] = Bottom(sep)
    OBVIOUS
  <2> HIDE DEF s
  <2>2. Upto(s, 0)
    BY <2>1
  <2> QED BY <2>2
<1>2. ASSUME NEW d \in Nat, d \in A PROVE d + 1 \in A
  <2>1. PICK s : Upto(s, d)
    BY <1>2
  <2> DEFINE e == height - (d + 1)
             t == [i \in 1..height |-> IF i = e THEN Step(s, i) ELSE s[i]]
  <2>2. t = [i \in 1..height |-> t[i]] /\ \A i \in 1..height : t[i] = IF i = e THEN Step(s, i) ELSE s[i]
    OBVIOUS
  <2>3. e \in Int /\ e < height /\ \A i \in 1..height : i >= e <=> i = e \/ i >= height - d
    OBVIOUS
  <2> HIDE DEF t, e
  <2>4. ASSUME NEW i \in 1..height, i >= e PROVE t[i] = Step(t, i)
    <3>1. i # height => i + 1 \in 1..height /\ i + 1 # e
      BY <2>3, <2>4
    <3>2. i # height => t[i + 1] = s[i + 1]
      BY <2>2, <3>1
    <3>3. Step(t, i) = Step(s, i)
      BY <3>2
    <3>4. t[i] = Step(s, i)
      BY <2>1, <2>2, <2>3, <2>4
    <3> QED BY <3>3, <3>4
  <2>5. Upto(t, d + 1)
    BY <2>2, <2>4 DEF e
  <2> HIDE DEF Upto
  <2> QED BY <2>5
<1> HIDE DEF A
<1>3. height \in A
  BY <1>1, <1>2, NatInductionOn
<1>4. PICK s : Upto(s, height)
  BY <1>3 DEF A
<1>5. Climb(s, p, sep)
  <2>1. \A i \in 1..height : s[i] = Step(s, i)
    <3>1. \A i \in 1..height : i >= height - height
      OBVIOUS
    <3> HIDE DEF Step
    <3> QED BY <1>4, <3>1
  <2> QED BY <1>4, <2>1 DEF Climb, Bottom
<1> DEFINE c == CHOOSE c : Climb(c, p, sep)
<1>6. Climb(c, p, sep)
  BY <1>5
<1>7. Propagate(p, sep) = c[1]
  BY Zenon DEF Propagate, Climb
<1> QED BY <1>6, <1>7

(* Where the loop ends: all separators have settled, or the root was split. *)
LEMMA ClimbEnds ==
    ASSUME NEW p, NEW sep, NEW L, height \in Nat, height > 0, highWater \in Nat,
           DOMAIN inner \cup L \subseteq 1..highWater + 1,
           \A j \in 1..height - 1 : p[j] \in DOMAIN inner, p[height] \in L,
           Climbing(Bottom(sep), height, p, inner, L, highWater, height)
    PROVE  Climbing(Propagate(p, sep), 1, p, inner, L, highWater, height)
<1>1. PICK s : Climb(s, p, sep) /\ Propagate(p, sep) = s[1]
  BY ClimbRuns
<1> DEFINE Good(i) == Climbing(s[i], i, p, inner, L, highWater, height)
           A == {d \in Nat : d < height => Good(height - d)}
<1>2. s[height] = Bottom(sep) /\ \A i \in 1..height - 1 : s[i] = HangSeparator(p[i], s[i + 1])
  <2>1. s = [i \in 1..height |-> IF i = height THEN Bottom(sep) ELSE HangSeparator(p[i], s[i + 1])]
    BY <1>1 DEF Climb, Bottom
  <2>2. height \in 1..height /\ \A i \in 1..height - 1 : i \in 1..height /\ i # height
    OBVIOUS
  <2>3. \A i \in 1..height : s[i] = IF i = height THEN Bottom(sep) ELSE HangSeparator(p[i], s[i + 1])
    BY <2>1
  <2> QED BY <2>2, <2>3
<1>3. 0 \in A
  BY <1>2
<1>4. ASSUME NEW d \in Nat, d \in A PROVE d + 1 \in A
  <2> SUFFICES ASSUME d + 1 < height PROVE Good(height - (d + 1))
    OBVIOUS
  <2> DEFINE i == height - (d + 1)
  <2>1. i \in 1..height - 1 /\ height - d = i + 1
    OBVIOUS
  <2>2. Climbing(s[i + 1], i + 1, p, inner, L, highWater, height)
    BY <1>4, <2>1
  <2> HIDE DEF i
  <2>3. Climbing(HangSeparator(p[i], s[i + 1]), i, p, inner, L, highWater, height)
    BY <2>1, <2>2, ClimbStep
  <2>4. Good(i)
    BY <1>2, <2>1, <2>3
  <2> QED BY <2>4 DEF i
<1> HIDE DEF A
<1>5. height - 1 \in A
  <2>1. height - 1 \in Nat
    OBVIOUS
  <2> QED BY <1>3, <1>4, <2>1, NatInductionOn
<1>6. height - 1 < height /\ height - (height - 1) = 1
  OBVIOUS
<1> QED BY <1>1, <1>5, <1>6 DEF A

---------------------------------------------------------------------------
(* Leaves *)

LeafOK(node) ==
    /\ node = [keys |-> node.keys, vals |-> node.vals, next |-> node.next]
    /\ node.keys \in Seq(Index)

LEMMA LeafEdit ==
    ASSUME NEW n, n = [keys |-> n.keys, vals |-> n.vals, next |-> n.next], NEW a, NEW b
    PROVE  [n EXCEPT !.keys = a, !.vals = b] = [keys |-> a, vals |-> b, next |-> n.next]
<1> DEFINE m == [n EXCEPT !.keys = a, !.vals = b]
           r == [keys |-> a, vals |-> b, next |-> n.next]
           D == {"keys", "vals", "next"}
<1>0. DOMAIN n = D
  OBVIOUS
<1>1. m["keys"] = a /\ m["vals"] = b /\ m["next"] = n.next 
  OBVIOUS
<1>2. DOMAIN m = D
  BY <1>0
<1>3. m = [i \in DOMAIN m |-> m[i]] 
  OBVIOUS
<1>4. r["keys"] = a /\ r["vals"] = b /\ r["next"] = n.next /\ DOMAIN r = D
  OBVIOUS
<1>5. r = [i \in DOMAIN r |-> r[i]] 
  OBVIOUS
<1> HIDE DEF m, r
<1>6. \A i \in D : m[i] = r[i]
  BY <1>1, <1>4
<1>7. m = r
  BY <1>2, <1>3, <1>4, <1>5, <1>6
<1> QED BY <1>7 DEF m, r

LEMMA LeafInsertOK ==
    ASSUME NEW n, NEW k, NEW v, LeafOK(n), k \in Index
    PROVE  LeafOK(LeafInsert(n, k, v)) /\ Len(LeafInsert(n, k, v).keys) = Len(n.keys) + 1
<1> DEFINE i == LowerBound(n.keys, k)
           m == LeafInsert(n, k, v)
<1>1. n.keys \in Seq(Index) /\ n = [keys |-> n.keys, vals |-> n.vals, next |-> n.next]
  BY DEF LeafOK
<1>2. i \in 1..Len(n.keys) + 1
  BY <1>1, LowerBoundIsPosition
<1>3. InsertAt(n.keys, i, k) \in Seq(Index) /\ Len(InsertAt(n.keys, i, k)) = Len(n.keys) + 1
  BY <1>1, <1>2, InsertAtFacts
<1>4. m.keys = InsertAt(n.keys, i, k) /\ m = [keys |-> m.keys, vals |-> m.vals, next |-> m.next]
  <2>1. m = [keys |-> InsertAt(n.keys, i, k), vals |-> InsertAt(n.vals, i, v), next |-> n.next]
    BY <1>1, LeafEdit DEF LeafInsert
  <2> QED BY <2>1
<1> QED BY <1>3, <1>4 DEF LeafOK

LEMMA LeafDeleteOK ==
    ASSUME NEW n, NEW k, LeafOK(n), HasKey(n, k)
    PROVE  LeafOK(LeafDelete(n, k)) /\ Len(LeafDelete(n, k).keys) = Len(n.keys) - 1
<1> DEFINE i == LowerBound(n.keys, k)
           m == LeafDelete(n, k)
<1>1. n.keys \in Seq(Index) /\ n = [keys |-> n.keys, vals |-> n.vals, next |-> n.next]
  BY DEF LeafOK
<1>2. i \in 1..Len(n.keys)
  <2>1. i \in 1..Len(n.keys) + 1 /\ Len(n.keys) \in Nat
    BY <1>1, LowerBoundIsPosition, Positions
  <2>2. i <= Len(n.keys)
    BY DEF HasKey, KeyCount
  <2> QED BY <2>1, <2>2
<1>3. RemoveAt(n.keys, i) \in Seq(Index) /\ Len(RemoveAt(n.keys, i)) = Len(n.keys) - 1
  BY <1>1, <1>2, RemoveAtFacts
<1>4. m.keys = RemoveAt(n.keys, i) /\ m = [keys |-> m.keys, vals |-> m.vals, next |-> m.next]
  <2>1. m = [keys |-> RemoveAt(n.keys, i), vals |-> RemoveAt(n.vals, i), next |-> n.next]
    BY <1>1, LeafEdit DEF LeafDelete
  <2> QED BY <2>1
<1> QED BY <1>3, <1>4 DEF LeafOK

LEMMA LeafUpdateOK ==
    ASSUME NEW n, NEW k, NEW v, LeafOK(n)
    PROVE  LeafOK(LeafUpdate(n, k, v)) /\ LeafUpdate(n, k, v).keys = n.keys
BY DEF LeafOK, LeafUpdate

LEMMA LeafSplitOK ==
    ASSUME NEW n, LeafOK(n), Len(n.keys) > 0
    PROVE  LET halves == LeafSplit(n)
           IN  LeafOK(halves.left) /\ LeafOK(halves.right) /\ halves.sep \in Index
<1> DEFINE half == Len(n.keys) \div 2
           a == [n EXCEPT !.keys = UpTo(@, half), !.vals = UpTo(@, half)]
           b == [keys |-> From(n.keys, half + 1), vals |-> From(n.vals, half + 1), next |-> 0]
<1>1. n.keys \in Seq(Index) /\ n = [keys |-> n.keys, vals |-> n.vals, next |-> n.next]
  BY DEF LeafOK
<1>2. LeafSplit(n) = [left |-> a, right |-> b, sep |-> n.keys[half + 1]]
  BY DEF LeafSplit, KeyCount
<1>3. Len(n.keys) \in Nat /\ half \in Nat /\ half < Len(n.keys)
  <2>1. Len(n.keys) \in Nat
    BY <1>1, Positions
  <2> QED BY <2>1, HalfOf
<1> HIDE DEF half
<1>4. half \in 0..Len(n.keys) /\ half + 1 \in 1..Len(n.keys) + 1 /\ half + 1 \in 1..Len(n.keys)
  BY <1>3
<1>5. n.keys[half + 1] \in Index
  BY <1>1, <1>4, Positions
<1>6. UpTo(n.keys, half) \in Seq(Index) /\ From(n.keys, half + 1) \in Seq(Index)
  BY <1>1, <1>4, UpToFacts, FromFacts
<1>7. LeafOK(a)
  <2>1. a = [keys |-> UpTo(n.keys, half), vals |-> UpTo(n.vals, half), next |-> n.next]
    BY <1>1, LeafEdit
  <2> QED BY <1>6, <2>1 DEF LeafOK
<1>8. LeafOK(b)
  BY <1>6 DEF LeafOK
<1> HIDE DEF a, b
<1> QED BY <1>2, <1>5, <1>7, <1>8

---------------------------------------------------------------------------
(* The tree at rest *)

Structure ==
    /\ highWater \in Nat /\ height \in Nat
    /\ DOMAIN inner \cup DOMAIN leaf \subseteq 1..highWater
    /\ Sized(inner, root)
    /\ \A n \in DOMAIN leaf : LeafOK(leaf[n])
    /\ IF height = 0 THEN inner = NoNodes /\ leaf = NoNodes
                     ELSE Settled(inner, DOMAIN leaf, root, height)

LEMMA ChildIsKid ==
    ASSUME NEW n, NEW k, NodeOK(n)
    PROVE  ChildFor(n, k) \in ToSet(n.kids)
<1> DEFINE i == LowerBound(n.keys, k)
<1>1. /\ n.keys \in Seq(Index) /\ n.kids \in Seq(Index) /\ Len(n.kids) = Len(n.keys) + 1
      /\ i \in 1..Len(n.keys) + 1
  BY LowerBoundIsPosition DEF NodeOK
<1>2. Len(n.keys) \in Nat /\ DOMAIN n.kids = 1..Len(n.kids)
  BY <1>1, Positions
<1>3. HasKey(n, k) => i <= Len(n.keys)
  BY DEF HasKey, KeyCount
<1> HIDE DEF i
<1>4. i \in DOMAIN n.kids /\ (HasKey(n, k) => i + 1 \in DOMAIN n.kids)
  BY <1>1, <1>2, <1>3
<1>5. ChildFor(n, k) = IF HasKey(n, k) THEN n.kids[i + 1] ELSE n.kids[i]
  BY DEF ChildFor, i
<1> QED BY <1>4, <1>5 DEF ToSet

(* A path that starts at the root and steps from kid to kid goes down one  *)
(* level at a time, and ends at a leaf.                                    *)
Steps(p) == p[1] = root /\ \A i \in 1..height - 1 : p[i] \in DOMAIN inner => p[i + 1] \in KidsOf(inner, p[i])

LEMMA PathsGoDown ==
    ASSUME NEW p, NEW lv, NEW up, Steps(p), height \in Nat, height > 0,
           Forest(inner, DOMAIN leaf, {root}, height, lv, up), lv[root] = height
    PROVE  /\ PathLevels(p, lv, height)
           /\ \A i \in 1..height - 1 : p[i] \in DOMAIN inner /\ p[i + 1] \in KidsOf(inner, p[i])
           /\ p[height] \in DOMAIN leaf
<1> DEFINE Down(i) == p[i] \in DOMAIN inner \cup DOMAIN leaf /\ lv[p[i]] = height - i + 1
           A == {d \in Nat : d < height => Down(d + 1)}
<1>1. \A n \in DOMAIN inner \cup DOMAIN leaf : lv[n] \in Nat /\ (n \in DOMAIN leaf <=> lv[n] = 1) /\ (n \in DOMAIN inner <=> lv[n] >= 2)
  BY ForestFacts DEF Forest, Levels
<1>2. 0 \in A
  <2>1. root \in DOMAIN inner \cup DOMAIN leaf
    BY ForestFacts
  <2> QED BY <2>1 DEF Steps
<1>3. ASSUME NEW d \in Nat, d \in A PROVE d + 1 \in A
  <2> SUFFICES ASSUME d + 1 < height PROVE Down(d + 2)
    OBVIOUS
  <2> DEFINE i == d + 1
  <2>1. i \in 1..height - 1 /\ i + 1 = d + 2 /\ Down(i)
    BY <1>3
  <2> HIDE DEF i
  <2>2. p[i] \in DOMAIN inner
    BY <1>1, <2>1
  <2>3. p[i + 1] \in KidsOf(inner, p[i])
    BY <2>1, <2>2 DEF Steps
  <2>4. p[i + 1] \in DOMAIN inner \cup DOMAIN leaf /\ lv[p[i]] = lv[p[i + 1]] + 1 /\ lv[p[i + 1]] \in Nat
    BY <2>2, <2>3, ForestFacts
  <2>5. lv[p[i + 1]] = height - (i + 1) + 1
    BY <2>1, <2>4
  <2> QED BY <2>1, <2>4, <2>5
<1> HIDE DEF A
<1>4. \A d \in Nat : d \in A
  BY <1>2, <1>3, NatInductionOn
<1>5. ASSUME NEW i \in 1..height PROVE Down(i)
  <2>1. i - 1 \in Nat /\ i - 1 < height /\ (i - 1) + 1 = i
    OBVIOUS
  <2> QED BY <1>4, <2>1 DEF A
<1>6. PathLevels(p, lv, height)
  BY <1>5 DEF PathLevels
<1>7. ASSUME NEW i \in 1..height - 1 PROVE p[i] \in DOMAIN inner
  <2>1. Down(i) /\ height - i + 1 >= 2
    BY <1>5
  <2> QED BY <1>1, <2>1
<1>8. p[height] \in DOMAIN leaf
  <2>1. Down(height) /\ height - height + 1 = 1
    BY <1>5
  <2> QED BY <1>1, <2>1
<1> QED BY <1>6, <1>7, <1>8 DEF Steps

LEMMA DescentsStep ==
    ASSUME NEW p, NEW k, Descends(p, k), Sized(inner, root)
    PROVE  Steps(p) /\ height > 0
<1>1. ASSUME NEW i \in 1..height - 1, p[i] \in DOMAIN inner PROVE p[i + 1] \in KidsOf(inner, p[i])
  <2>1. NodeOK(inner[p[i]])
    BY <1>1 DEF Sized
  <2>2. p[i + 1] = ChildFor(inner[p[i]], k)
    BY DEF Descends
  <2> QED BY <2>1, <2>2, ChildIsKid DEF KidsOf
<1> QED BY <1>1 DEF Steps, Descends

---------------------------------------------------------------------------
(* Cold Insert keeps the structure *)

LEMMA FirstLeaf ==
    ASSUME NEW m, m \in Nat, NEW in, DOMAIN in = {}
    PROVE  Settled(in, {m}, m, 1)
<1> DEFINE lv == [n \in Nat |-> 1]
           up == [n \in Nat |-> 0]
<1>1. Forest(in, {m}, {m}, 1, lv, up)
  BY DEF Forest, Accounts, Levels, NoDangling, NoOrphan
<1>2. lv[m] = 1
  OBVIOUS
<1> HIDE DEF lv, up
<1> QED BY <1>1, <1>2 DEF Settled

(* What a step does to the allocator. *)
Allocates ==
    /\ highWater' >= highWater
    /\ (DOMAIN inner' \cup DOMAIN leaf') \ (DOMAIN inner \cup DOMAIN leaf) \subseteq highWater + 1..highWater'

LEMMA InsertFirstKeeps ==
    ASSUME Structure, NEW k, k \in Index, NEW v, NEW from, NEW spares, InsertFirst(k, v, from, spares)
    PROVE  Structure' /\ Allocates
<1> DEFINE m == highWater + 1
           node == [keys |-> <<k>>, vals |-> <<v>>, next |-> 0]
<1>1. /\ height = 0 /\ highWater' = m /\ leaf' = With(leaf, m, node) /\ root' = m /\ height' = 1 /\ inner' = inner
  BY DEF InsertFirst
<1>2. inner = NoNodes /\ leaf = NoNodes /\ highWater \in Nat
  BY <1>1 DEF Structure
<1>3. LeafOK(node)
  BY DEF LeafOK
<1> HIDE DEF node
<1>4. m \in Nat /\ m \in 1..m /\ m >= highWater /\ m \in highWater + 1..m
  BY <1>2
<1>5. DOMAIN inner = {} /\ DOMAIN leaf = {}
  BY <1>2 DEF NoNodes
<1>6. DOMAIN leaf' = {m} /\ leaf'[m] = node
  BY <1>1, <1>5 DEF With
<1> HIDE DEF m
<1>7. Settled(inner', DOMAIN leaf', root', height')
  BY <1>1, <1>4, <1>5, <1>6, FirstLeaf
<1>8. Sized(inner', root')
  BY <1>1, <1>5, Structure DEF Structure, Sized
<1>9. \A n \in DOMAIN leaf' : LeafOK(leaf'[n])
  BY <1>3, <1>6
<1>10. Allocates
  BY <1>1, <1>4, <1>5, <1>6 DEF Allocates
<1> QED BY <1>1, <1>4, <1>5, <1>6, <1>7, <1>8, <1>9, <1>10 DEF Structure

(* A new root over the old one and the node that still hovers beside it.   *)
LEMMA Crowned ==
    ASSUME NEW in, NEW L, NEW q, NEW h, NEW p, NEW m, NEW sep, NEW in2,
           Hovering(in, L, q, h, p, 1), h \in Nat, h > 0, q # p[1], Unborn(m, in, L), sep \in Index,
           in2 = With(in, m, [keys |-> <<sep>>, kids |-> <<p[1], q>>]),
           Sized(in, p[1]), p[1] \in DOMAIN in => KeyCount(in[p[1]]) >= MINK
    PROVE  Settled(in2, L, m, h + 1) /\ Sized(in2, m)
<1> DEFINE r == p[1]
           node == [keys |-> <<sep>>, kids |-> <<r, q>>]
<1>1. PICK lv, up : Forest(in, L, {r, q}, h, lv, up) /\ PathLevels(p, lv, h) /\ lv[q] = h - 1 + 1
  BY DEF Hovering
<1>2. \A c \in {r, q} : lv[c] = h
  BY <1>1 DEF PathLevels
<1>3. r \in Index /\ q \in Index /\ m # r /\ m # q
  BY <1>1, ForestFacts DEF Unborn, Index
<1>4. NodeOK(node) /\ ToSet(node.kids) = {r, q} /\ Len(node.keys) = 1
  <2>1. node.keys \in Seq(Index) /\ node.kids \in Seq(Index) /\ Len(node.kids) = 2 /\ Len(node.keys) = 1
    BY <1>3
  <2>2. ToSet(node.kids) = {r, q} /\ IsInjective(node.kids)
    BY DEF ToSet, IsInjective
  <2>3. node = [keys |-> node.keys, kids |-> node.kids]
    OBVIOUS
  <2> QED BY <2>1, <2>2, <2>3 DEF NodeOK
<1>5. in2 = With(in, m, node)
  OBVIOUS
<1> HIDE DEF node, r
<1>6. DOMAIN in2 = DOMAIN in \cup {m} /\ in2[m] = node /\ \A x \in DOMAIN in \ {m} : in2[x] = in[x]
  BY <1>5 DEF With
<1>7. m \notin DOMAIN in
  BY DEF Unborn
<1>8. KidsOf(in2, m) = {r, q} /\ \A x \in DOMAIN in : KidsOf(in2, x) = KidsOf(in, x)
  BY <1>4, <1>6, <1>7 DEF KidsOf
<1>9. Settled(in2, L, m, h + 1)
  <2> DEFINE R == {r, q}
  <2>1. /\ Forest(in, L, R, h, lv, up) /\ (\A c \in R : lv[c] = h) /\ KidsOf(in2, m) = R
        /\ h > 0 /\ Unborn(m, in, L) /\ DOMAIN in2 = DOMAIN in \cup {m}
        /\ \A x \in DOMAIN in : KidsOf(in2, x) = KidsOf(in, x)
    BY <1>1, <1>2, <1>6, <1>8
  <2> HIDE DEF R
  <2> QED BY ONLY <2>1, Crown
<1>10. Sized(in2, m)
  <2> SUFFICES ASSUME NEW x \in DOMAIN in2
               PROVE  NodeOK(in2[x]) /\ Len(in2[x].keys) \in (IF x = m THEN 1 ELSE MINK)..F
    <3>1. IsMap(With(in, m, node))
      BY Maps
    <3>2. IsMap(in2)
      BY <1>5, <3>1
    <3> QED BY <3>2 DEF Sized, KeyCount
  <2>1. CASE x = m
    <3>1. 1 \in 1..F
      BY FanoutFacts
    <3> QED BY <1>4, <1>6, <2>1, <3>1
  <2>2. CASE x # m /\ x = r
    BY <1>6, <2>2, FanoutFacts DEF Sized, KeyCount, r
  <2>3. CASE x # m /\ x # r
    BY <1>6, <2>3, FanoutFacts DEF Sized, KeyCount, r
  <2> QED BY <2>1, <2>2, <2>3
<1> QED BY <1>9, <1>10

(* The loop starts with the new right leaf hovering beside the old one. *)
LEMMA BottomClimbs ==
    ASSUME Structure, NEW p, NEW k, Descends(p, k), NEW sep, sep \in Index
    PROVE  Climbing(Bottom(sep), height, p, inner, DOMAIN leaf \cup {highWater + 1}, highWater, height)
<1> DEFINE m == highWater + 1
           L == DOMAIN leaf \cup {m}
<1>1. /\ highWater \in Nat /\ height \in Nat /\ DOMAIN inner \cup DOMAIN leaf \subseteq 1..highWater
      /\ Sized(inner, root)
  BY DEF Structure
<1>2. Steps(p) /\ height > 0 /\ p[1] = root
  BY <1>1, DescentsStep DEF Descends
<1>3. PICK lv, up : Forest(inner, DOMAIN leaf, {root}, height, lv, up) /\ lv[root] = height
  BY <1>1, <1>2 DEF Structure, Settled
<1>4. /\ PathLevels(p, lv, height) /\ \A i \in 1..height - 1 : p[i] \in DOMAIN inner
      /\ p[height] \in DOMAIN leaf
  BY <1>1, <1>2, <1>3, PathsGoDown
<1> DEFINE b == Bottom(sep)
<1>5. /\ b = [rising |-> TRUE, sep |-> sep, right |-> m, used |-> m, inner |-> inner]
      /\ b = [rising |-> b.rising, sep |-> b.sep, right |-> b.right, used |-> b.used, inner |-> b.inner]
      /\ b.rising = TRUE /\ b.sep = sep /\ b.right = m /\ b.used = m /\ b.inner = inner
  BY DEF Bottom
<1>6. Unborn(m, inner, DOMAIN leaf) /\ m > highWater /\ m \in Nat
  BY <1>1 DEF Unborn
<1>7. Forest(inner, L, {root} \cup {m}, height, [lv EXCEPT ![m] = 1], up)
  BY <1>3, <1>6, Sprout
<1>8. PathLevels(p, [lv EXCEPT ![m] = 1], height) /\ [lv EXCEPT ![m] = 1][m] = 1
  <2>1. \A i \in 1..height : p[i] \in DOMAIN inner \cup DOMAIN leaf
    BY <1>1, <1>4
  <2>2. DOMAIN lv = Nat
    BY <1>3 DEF Forest, Accounts
  <2> QED BY <1>4, <1>6, <2>1, <2>2 DEF PathLevels, Unborn
<1>9. {root} \cup {m} = {p[1], m} /\ height - height + 1 = 1
  BY <1>1, <1>2
<1>10. Hovering(inner, L, m, height, p, height)
  BY <1>7, <1>8, <1>9 DEF Hovering
<1>11. m # p[1]
  BY <1>2, <1>3, <1>6, ForestFacts DEF Unborn
<1> HIDE DEF b, L, m
<1>12. Climbing(b, height, p, inner, L, highWater, height)
  BY <1>1, <1>2, <1>5, <1>6, <1>10, <1>11 DEF Climbing
<1> QED BY <1>12 DEF b, L, m

LEMMA InsertSplitKeeps ==
    ASSUME Structure, NEW p, NEW k, k \in Index, NEW v, NEW from, NEW spares,
           InsertSplit(p, k, v, from, spares)
    PROVE  /\ Structure'
           /\ highWater' > highWater
           /\ (DOMAIN inner' \cup DOMAIN leaf') \ (DOMAIN inner \cup DOMAIN leaf) \subseteq highWater + 1..highWater'
<1> DEFINE l == p[height]
           halves == LeafSplit(LeafInsert(LeafOf(p), k, v))
           u == Propagate(p, halves.sep)
           used == SlotsOf(u)
           m == highWater + 1
           L == DOMAIN leaf \cup {m}
<1>1. Descends(p, k) /\ KeyCount(leaf[l]) = F
  BY DEF InsertSplit, LeafOf
<1>2. /\ highWater \in Nat /\ height \in Nat /\ DOMAIN inner \cup DOMAIN leaf \subseteq 1..highWater
      /\ Sized(inner, root) /\ \A n \in DOMAIN leaf : LeafOK(leaf[n])
  BY DEF Structure
<1>3. Steps(p) /\ height > 0 /\ p[1] = root
  BY <1>1, <1>2, DescentsStep DEF Descends
<1>4. PICK lv, up : Forest(inner, DOMAIN leaf, {root}, height, lv, up) /\ lv[root] = height
  BY <1>2, <1>3 DEF Structure, Settled
<1>5. /\ PathLevels(p, lv, height) /\ \A i \in 1..height - 1 : p[i] \in DOMAIN inner
      /\ l \in DOMAIN leaf
  BY <1>2, <1>3, <1>4, PathsGoDown
<1>6. LeafOK(halves.left) /\ LeafOK(halves.right) /\ halves.sep \in Index
  <2>1. LeafOK(leaf[l]) /\ Len(leaf[l].keys) = F
    BY <1>1, <1>2, <1>5 DEF KeyCount
  <2>2. LeafOK(LeafInsert(leaf[l], k, v)) /\ Len(LeafInsert(leaf[l], k, v).keys) = F + 1
    BY <2>1, LeafInsertOK
  <2>3. Len(LeafInsert(leaf[l], k, v).keys) > 0
    BY <2>2, FanoutFacts
  <2> QED BY <2>2, <2>3, LeafSplitOK DEF LeafOf
<1>7. /\ highWater' = used /\ leaf' = SplitChain(l, halves)
      /\ inner' = IF u.rising THEN With(u.inner, used, [keys |-> <<u.sep>>, kids |-> <<root, u.right>>])
                  ELSE u.inner
      /\ root' = IF u.rising THEN used ELSE root
      /\ height' = IF u.rising THEN height + 1 ELSE height
  BY DEF InsertSplit
<1>8. Climbing(Bottom(halves.sep), height, p, inner, L, highWater, height)
  BY <1>1, <1>6, BottomClimbs
<1>9. Climbing(u, 1, p, inner, L, highWater, height)
  BY <1>2, <1>3, <1>5, <1>8, ClimbEnds
<1> HIDE DEF u
<1>10. u.used \in Nat /\ u.used > highWater /\ used = IF u.rising THEN u.used + 1 ELSE u.used
  BY <1>9 DEF Climbing, SlotsOf
<1> HIDE DEF used, halves
<1>11. /\ DOMAIN leaf' = L /\ \A n \in DOMAIN leaf' : LeafOK(leaf'[n])
  <2>1. LeafOK([halves.left EXCEPT !.next = m]) /\ LeafOK([halves.right EXCEPT !.next = leaf[l].next])
    BY <1>6 DEF LeafOK
  <2>2. leaf' = With([leaf EXCEPT ![l] = [halves.left EXCEPT !.next = m]], m, [halves.right EXCEPT !.next = leaf[l].next])
    BY <1>7 DEF SplitChain
  <2> QED BY <1>2, <1>5, <2>1, <2>2 DEF With
<1>12. L \subseteq 1..u.used /\ DOMAIN u.inner \subseteq 1..u.used /\ DOMAIN u.inner \subseteq DOMAIN inner \cup highWater + 2..u.used
  BY <1>2, <1>9, <1>10 DEF Climbing
<1>13. CASE u.rising = FALSE
  <2>1. highWater' = u.used /\ inner' = u.inner /\ root' = root /\ height' = height
    BY <1>7, <1>10, <1>13
  <2>2. Sized(inner', root') /\ Settled(inner', DOMAIN leaf', root', height')
    BY <1>3, <1>9, <1>11, <1>13, <2>1 DEF Climbing
  <2>3. DOMAIN inner' \cup DOMAIN leaf' \subseteq 1..highWater'
    BY <1>11, <1>12, <2>1
  <2>4. (DOMAIN inner' \cup DOMAIN leaf') \ (DOMAIN inner \cup DOMAIN leaf) \subseteq highWater + 1..highWater'
    BY <1>2, <1>10, <1>11, <1>12, <2>1
  <2> QED BY <1>2, <1>3, <1>10, <1>11, <2>1, <2>2, <2>3, <2>4 DEF Structure
<1>14. CASE u.rising = TRUE
  <2>1. /\ highWater' = u.used + 1 /\ root' = u.used + 1 /\ height' = height + 1
        /\ inner' = With(u.inner, u.used + 1, [keys |-> <<u.sep>>, kids |-> <<p[1], u.right>>])
    BY <1>3, <1>7, <1>10, <1>14
  <2>2. /\ Hovering(u.inner, L, u.right, height, p, 1) /\ u.right # p[1] /\ u.sep \in Index
        /\ Sized(u.inner, p[1]) /\ (1 < height => KeyCount(u.inner[p[1]]) >= MINK)
    BY <1>9, <1>14 DEF Climbing
  <2>3. p[1] \in DOMAIN u.inner => KeyCount(u.inner[p[1]]) >= MINK
    <3>1. CASE height = 1
      <4>1. p[1] \in L
        BY <1>5, <3>1
      <4>2. DOMAIN u.inner \cap L = {}
        BY <2>2, ForestFacts DEF Hovering
      <4> QED BY <4>1, <4>2
    <3> QED BY <1>2, <1>3, <2>2, <3>1
  <2>4. Unborn(u.used + 1, u.inner, L)
    BY <1>10, <1>12 DEF Unborn
  <2> DEFINE n == u.used + 1
             q == u.right
             sep == u.sep
             in == u.inner
  <2>5. /\ inner' = With(in, n, [keys |-> <<sep>>, kids |-> <<p[1], q>>]) /\ Unborn(n, in, L)
        /\ Hovering(in, L, q, height, p, 1) /\ q # p[1] /\ sep \in Index
        /\ Sized(in, p[1]) /\ (p[1] \in DOMAIN in => KeyCount(in[p[1]]) >= MINK)
    BY <2>1, <2>2, <2>3, <2>4
  <2> HIDE DEF n, q, sep, in, L
  <2>6. Settled(inner', L, n, height + 1) /\ Sized(inner', n)
    BY <1>2, <1>3, <2>5, Crowned
  <2>7. DOMAIN inner' = DOMAIN in \cup {n}
    <3>1. inner' = With(in, n, [keys |-> <<sep>>, kids |-> <<p[1], q>>])
      BY <2>5
    <3> QED BY ONLY <3>1, WithFacts
  <2>8. DOMAIN inner' \cup DOMAIN leaf' \subseteq 1..highWater'
    <3>1. n \in 1..n /\ 1..u.used \subseteq 1..n /\ highWater' = n
      BY <1>10, <2>1 DEF n
    <3>2. L \subseteq 1..n /\ DOMAIN in \subseteq 1..n
      BY <1>12, <3>1 DEF in
    <3> QED BY <1>11, <2>7, <3>1, <3>2
  <2>9. (DOMAIN inner' \cup DOMAIN leaf') \ (DOMAIN inner \cup DOMAIN leaf) \subseteq highWater + 1..highWater'
    BY <1>2, <1>10, <1>11, <1>12, <2>1, <2>7 DEF n, in, L
  <2> QED BY <1>2, <1>3, <1>10, <1>11, <2>1, <2>6, <2>8, <2>9 DEF Structure, n
<1> QED BY <1>9, <1>13, <1>14 DEF Climbing

---------------------------------------------------------------------------
(* Instructions that only edit leaves *)

InsertsUpto(s, n, ks, v) ==
    s = [i \in 0..Len(ks) |-> IF i = 0 THEN n ELSE LeafInsert(s[i - 1], ks[i], v)]

LEMMA InsertAllRuns ==
    ASSUME NEW n, NEW ks, NEW v, Len(ks) \in Nat
    PROVE  \E s : InsertsUpto(s, n, ks, v) /\ InsertAll(n, ks, v) = s[Len(ks)]
<1> DEFINE N == Len(ks)
           Step(s, i) == IF i = 0 THEN n ELSE LeafInsert(s[i - 1], ks[i], v)
           Upto(s, d) == s = [i \in 0..N |-> s[i]] /\ \A i \in 0..N : i <= d => s[i] = Step(s, i)
           A == {d \in Nat : \E s : Upto(s, d)}
<1> HIDE DEF N
<1>0. N \in Nat
  BY DEF N
<1>1. 0 \in A
  <2> DEFINE s == [i \in 0..N |-> n]
  <2>1. s = [i \in 0..N |-> s[i]] /\ \A i \in 0..N : i <= 0 => i = 0 /\ s[i] = n
    BY <1>0
  <2> HIDE DEF s
  <2>2. Upto(s, 0)
    BY <2>1
  <2> QED BY <2>2
<1>2. ASSUME NEW d \in Nat, d \in A PROVE d + 1 \in A
  <2>1. PICK s : Upto(s, d)
    BY <1>2
  <2> DEFINE t == [i \in 0..N |-> IF i = d + 1 THEN Step(s, i) ELSE s[i]]
  <2>2. t = [i \in 0..N |-> t[i]] /\ \A i \in 0..N : t[i] = IF i = d + 1 THEN Step(s, i) ELSE s[i]
    OBVIOUS
  <2> HIDE DEF t
  <2>3. ASSUME NEW i \in 0..N, i <= d + 1 PROVE t[i] = Step(t, i)
    <3>1. i # 0 => i - 1 \in 0..N /\ i - 1 # d + 1
      BY <1>0, <2>3
    <3>2. i # 0 => t[i - 1] = s[i - 1]
      BY <2>2, <3>1
    <3>3. Step(t, i) = Step(s, i)
      BY <3>2
    <3>4. t[i] = Step(s, i)
      <4>1. i # d + 1 => i <= d
        BY <1>0, <2>3
      <4> HIDE DEF Step
      <4> QED BY <2>1, <2>2, <4>1
    <3> QED BY <3>3, <3>4
  <2>4. Upto(t, d + 1)
    BY <2>2, <2>3
  <2> HIDE DEF Upto
  <2> QED BY <2>4
<1> HIDE DEF A
<1>3. N \in A
  BY <1>0, <1>1, <1>2, NatInductionOn
<1>4. PICK s : Upto(s, N)
  BY <1>3 DEF A
<1>5. InsertsUpto(s, n, ks, v)
  <2>1. \A i \in 0..N : i <= N
    BY <1>0
  <2>2. \A i \in 0..N : s[i] = Step(s, i)
    <3> HIDE DEF Step
    <3> QED BY <1>4, <2>1
  <2> QED BY <1>4, <2>2 DEF InsertsUpto, N
<1> DEFINE c == CHOOSE c : InsertsUpto(c, n, ks, v)
<1>6. InsertsUpto(c, n, ks, v)
  BY <1>5
<1>7. InsertAll(n, ks, v) = c[Len(ks)]
  BY Zenon DEF InsertAll, InsertsUpto
<1> QED BY <1>6, <1>7

LEMMA InsertAllOK ==
    ASSUME NEW n, NEW ks, NEW v, LeafOK(n), ks \in Seq(Index)
    PROVE  LeafOK(InsertAll(n, ks, v))
<1>0. Len(ks) \in Nat /\ \A i \in 1..Len(ks) : ks[i] \in Index
  BY Positions
<1>1. PICK s : InsertsUpto(s, n, ks, v) /\ InsertAll(n, ks, v) = s[Len(ks)]
  BY <1>0, InsertAllRuns
<1> DEFINE N == Len(ks)
           A == {i \in Nat : i <= N => LeafOK(s[i])}
<1>2. s[0] = n /\ \A i \in 1..N : s[i] = LeafInsert(s[i - 1], ks[i], v)
  <2>1. \A i \in 0..N : s[i] = IF i = 0 THEN n ELSE LeafInsert(s[i - 1], ks[i], v)
    BY <1>1 DEF InsertsUpto
  <2>2. 0 \in 0..N /\ \A i \in 1..N : i \in 0..N /\ i # 0
    BY <1>0
  <2> QED BY <2>1, <2>2
<1>3. 0 \in A
  BY <1>2
<1>4. ASSUME NEW i \in Nat, i \in A PROVE i + 1 \in A
  <2> SUFFICES ASSUME i + 1 <= N PROVE LeafOK(s[i + 1])
    OBVIOUS
  <2>1. i <= N /\ i + 1 \in 1..N /\ (i + 1) - 1 = i
    BY <1>0
  <2>2. s[i + 1] = LeafInsert(s[i], ks[i + 1], v) /\ LeafOK(s[i]) /\ ks[i + 1] \in Index
    BY <1>0, <1>2, <1>4, <2>1
  <2> QED BY <2>2, LeafInsertOK
<1> HIDE DEF A
<1>5. N \in A
  BY <1>0, <1>3, <1>4, NatInductionOn
<1> QED BY <1>0, <1>1, <1>5 DEF A

(* Leaves come out of a batch as the same leaves, well formed. *)
SameLeaves(L2, L1) == DOMAIN L2 = DOMAIN L1 /\ \A n \in DOMAIN L2 : LeafOK(L2[n])

Writes(s, ps, batches, v) ==
    s = [b \in 0..Len(batches) |->
            IF b = 0 THEN leaf
            ELSE [s[b - 1] EXCEPT ![ps[b][height]] = InsertAll(@, batches[b], v)]]

LEMMA WriteBatchesRuns ==
    ASSUME NEW ps, NEW batches, NEW v, Len(batches) \in Nat
    PROVE  \E s : Writes(s, ps, batches, v) /\ WriteBatches(ps, batches, v) = s[Len(batches)]
<1> DEFINE N == Len(batches)
           Step(s, i) == IF i = 0 THEN leaf
                         ELSE [s[i - 1] EXCEPT ![ps[i][height]] = InsertAll(@, batches[i], v)]
           Upto(s, d) == s = [i \in 0..N |-> s[i]] /\ \A i \in 0..N : i <= d => s[i] = Step(s, i)
           A == {d \in Nat : \E s : Upto(s, d)}
<1> HIDE DEF N
<1>0. N \in Nat
  BY DEF N
<1>1. 0 \in A
  <2> DEFINE s == [i \in 0..N |-> leaf]
  <2>1. s = [i \in 0..N |-> s[i]] /\ \A i \in 0..N : i <= 0 => i = 0 /\ s[i] = leaf
    BY <1>0
  <2> HIDE DEF s
  <2>2. Upto(s, 0)
    BY <2>1
  <2> QED BY <2>2
<1>2. ASSUME NEW d \in Nat, d \in A PROVE d + 1 \in A
  <2>1. PICK s : Upto(s, d)
    BY <1>2
  <2> DEFINE t == [i \in 0..N |-> IF i = d + 1 THEN Step(s, i) ELSE s[i]]
  <2>2. t = [i \in 0..N |-> t[i]] /\ \A i \in 0..N : t[i] = IF i = d + 1 THEN Step(s, i) ELSE s[i]
    OBVIOUS
  <2> HIDE DEF t
  <2>3. ASSUME NEW i \in 0..N, i <= d + 1 PROVE t[i] = Step(t, i)
    <3>1. i # 0 => i - 1 \in 0..N /\ i - 1 # d + 1
      BY <1>0, <2>3
    <3>2. i # 0 => t[i - 1] = s[i - 1]
      BY <2>2, <3>1
    <3>3. Step(t, i) = Step(s, i)
      BY <3>2
    <3>4. t[i] = Step(s, i)
      BY <1>0, <2>1, <2>2, <2>3
    <3> QED BY <3>3, <3>4
  <2>4. Upto(t, d + 1)
    BY <2>2, <2>3
  <2> HIDE DEF Upto
  <2> QED BY <2>4
<1> HIDE DEF A
<1>3. N \in A
  BY <1>0, <1>1, <1>2, NatInductionOn
<1>4. PICK s : Upto(s, N)
  BY <1>3 DEF A
<1>5. Writes(s, ps, batches, v)
  <2>1. \A i \in 0..N : i <= N
    BY <1>0
  <2>2. \A i \in 0..N : s[i] = Step(s, i)
    <3> HIDE DEF Step
    <3> QED BY <1>4, <2>1
  <2> QED BY <1>4, <2>2 DEF Writes, N
<1> DEFINE c == CHOOSE c : Writes(c, ps, batches, v)
<1>6. Writes(c, ps, batches, v)
  BY <1>5
<1>7. WriteBatches(ps, batches, v) = c[Len(batches)]
  BY Zenon DEF WriteBatches, Writes
<1> QED BY <1>6, <1>7

LEMMA WriteBatchesOK ==
    ASSUME NEW ps, NEW batches, NEW v, Len(batches) \in Nat,
           \A b \in 1..Len(batches) : batches[b] \in Seq(Index),
           \A n \in DOMAIN leaf : LeafOK(leaf[n])
    PROVE  SameLeaves(WriteBatches(ps, batches, v), leaf)
<1>1. PICK s : Writes(s, ps, batches, v) /\ WriteBatches(ps, batches, v) = s[Len(batches)]
  BY WriteBatchesRuns
<1> DEFINE N == Len(batches)
           A == {i \in Nat : i <= N => SameLeaves(s[i], leaf)}
<1>2. s[0] = leaf /\ \A i \in 1..N : s[i] = [s[i - 1] EXCEPT ![ps[i][height]] = InsertAll(@, batches[i], v)]
  <2>1. \A i \in 0..N : s[i] = IF i = 0 THEN leaf
                               ELSE [s[i - 1] EXCEPT ![ps[i][height]] = InsertAll(@, batches[i], v)]
    BY <1>1 DEF Writes
  <2>2. 0 \in 0..N /\ \A i \in 1..N : i \in 0..N /\ i # 0
    OBVIOUS
  <2> QED BY <2>1, <2>2
<1>3. 0 \in A
  BY <1>2 DEF SameLeaves
<1>4. ASSUME NEW i \in Nat, i \in A PROVE i + 1 \in A
  <2> SUFFICES ASSUME i + 1 <= N PROVE SameLeaves(s[i + 1], leaf)
    OBVIOUS
  <2> DEFINE before == s[i]
             n == ps[i + 1][height]
             ks == batches[i + 1]
  <2>1. i <= N /\ i + 1 \in 1..N /\ (i + 1) - 1 = i
    OBVIOUS
  <2>2. s[i + 1] = [before EXCEPT ![n] = InsertAll(before[n], ks, v)] /\ SameLeaves(before, leaf) /\ ks \in Seq(Index)
    BY <1>2, <1>4, <2>1
  <2> HIDE DEF before, n, ks
  <2>3. n \in DOMAIN before => LeafOK(InsertAll(before[n], ks, v))
    BY <2>2, InsertAllOK DEF SameLeaves
  <2> QED BY <2>2, <2>3 DEF SameLeaves
<1> HIDE DEF A
<1>5. N \in A
  BY <1>3, <1>4, NatInductionOn
<1> QED BY <1>1, <1>5 DEF A

LEMMA LeafEditKeeps ==
    ASSUME Structure, SameLeaves(leaf', leaf), UNCHANGED <<root, height, highWater, inner>>
    PROVE  Structure' /\ Allocates
<1>1. /\ root' = root /\ height' = height /\ highWater' = highWater /\ inner' = inner
      /\ DOMAIN leaf' = DOMAIN leaf /\ \A n \in DOMAIN leaf' : LeafOK(leaf'[n])
  BY DEF SameLeaves
<1>2. height = 0 => leaf' = NoNodes
  BY <1>1 DEF Structure, NoNodes
<1>3. Allocates
  BY <1>1 DEF Allocates, Structure
<1> QED BY <1>1, <1>2, <1>3 DEF Structure

(* One leaf is rewritten. *)
LEMMA RewriteKeeps ==
    ASSUME Structure, NEW l, NEW node, l \in DOMAIN leaf => LeafOK(node),
           leaf' = [leaf EXCEPT ![l] = node], UNCHANGED <<root, height, highWater, inner>>
    PROVE  Structure' /\ Allocates
<1>1. SameLeaves(leaf', leaf)
  BY DEF SameLeaves, Structure
<1> QED BY <1>1, LeafEditKeeps

LEMMA KeyIsIndex == \A k \in Key : k \in Index
BY KeyAssumption DEF Index

LEMMA FastStepsKeep ==
    ASSUME Structure, NEW p, NEW k \in Key, NEW v,
           InsertFast(p, k, v) \/ UpdateFast(p, k, v) \/ DeleteFast(p, k) \/ InsertRoom(p, k, v)
    PROVE  Structure' /\ Allocates
<1> DEFINE l == p[height]
<1> k \in Index
  BY KeyIsIndex
<1>1. l \in DOMAIN leaf => LeafOK(leaf[l])
  BY DEF Structure
<1>2. CASE InsertFast(p, k, v) \/ InsertRoom(p, k, v)
  <2>1. leaf' = [leaf EXCEPT ![l] = LeafInsert(leaf[l], k, v)] /\ UNCHANGED <<root, height, highWater, inner>>
    BY <1>2 DEF InsertFast, InsertRoom, header
  <2>2. l \in DOMAIN leaf => LeafOK(LeafInsert(leaf[l], k, v))
    BY <1>1, LeafInsertOK
  <2> HIDE DEF l
  <2> QED BY <2>1, <2>2, RewriteKeeps
<1>3. CASE UpdateFast(p, k, v)
  <2>1. leaf' = [leaf EXCEPT ![l] = LeafUpdate(leaf[l], k, v)] /\ UNCHANGED <<root, height, highWater, inner>>
    BY <1>3 DEF UpdateFast, header
  <2>2. l \in DOMAIN leaf => LeafOK(LeafUpdate(leaf[l], k, v))
    BY <1>1, LeafUpdateOK
  <2> HIDE DEF l
  <2> QED BY <2>1, <2>2, RewriteKeeps
<1>4. CASE DeleteFast(p, k)
  <2>1. /\ leaf' = [leaf EXCEPT ![l] = LeafDelete(leaf[l], k)] /\ UNCHANGED <<root, height, highWater, inner>>
        /\ HasKey(leaf[l], k)
    BY <1>4 DEF DeleteFast, header, LeafOf
  <2>2. l \in DOMAIN leaf => LeafOK(LeafDelete(leaf[l], k))
    BY <1>1, <2>1, LeafDeleteOK
  <2> HIDE DEF l
  <2> QED BY <2>1, <2>2, RewriteKeeps
<1> QED BY <1>2, <1>3, <1>4

LEMMA BulkKeeps ==
    ASSUME Structure, NEW p, NEW ks, ks \in Seq(Index), NEW v, BulkInsertFast(p, ks, v)
    PROVE  Structure' /\ Allocates
<1> DEFINE l == p[height]
<1>1. leaf' = [leaf EXCEPT ![l] = InsertAll(leaf[l], ks, v)] /\ UNCHANGED <<root, height, highWater, inner>>
  BY DEF BulkInsertFast, header
<1>2. l \in DOMAIN leaf => LeafOK(InsertAll(leaf[l], ks, v))
  BY InsertAllOK DEF Structure
<1> HIDE DEF l
<1> QED BY <1>1, <1>2, RewriteKeeps

LEMMA MultiKeeps ==
    ASSUME Structure, NEW ps, NEW batches, NEW v, MultiLeafInsertFast(ps, batches, v),
           Len(batches) \in Nat, \A b \in 1..Len(batches) : batches[b] \in Seq(Index)
    PROVE  Structure' /\ Allocates
<1>1. leaf' = WriteBatches(ps, batches, v) /\ UNCHANGED <<root, height, highWater, inner>>
  BY DEF MultiLeafInsertFast, header
<1>2. SameLeaves(leaf', leaf)
  BY <1>1, WriteBatchesOK DEF Structure
<1> QED BY <1>1, <1>2, LeafEditKeeps

---------------------------------------------------------------------------
(* CompactLeaf *)

LEMMA ShrunkStill ==
    ASSUME NEW in, NEW r, NEW n, NEW node, NEW in2, Sized(in, r), n \in DOMAIN in, NodeOK(node),
           Len(node.keys) = Len(in[n].keys) - 1, KeyCount(in[n]) > MINK, in2 = [in EXCEPT ![n] = node]
    PROVE  Sized(in2, r)
<1>1. IsMap([in EXCEPT ![n] = node])
  BY Maps
<1>2. DOMAIN in2 = DOMAIN in /\ in2[n] = node /\ \A x \in DOMAIN in \ {n} : in2[x] = in[x]
  OBVIOUS
<1>3. Len(in[n].keys) \in 1..F /\ Len(in[n].keys) > MINK
  BY FanoutFacts DEF Sized, KeyCount
<1>4. Len(node.keys) \in MINK..F /\ Len(node.keys) \in 1..F
  BY <1>3, FanoutFacts
<1> QED BY <1>1, <1>2, <1>4 DEF Sized, KeyCount

LEMMA FirstKidGone ==
    ASSUME NEW in, NEW L, NEW r, NEW h, NEW lv, NEW up, Forest(in, L, {r}, h, lv, up), lv[r] = h, h >= 2,
           NEW n, n \in DOMAIN in, NEW c, c \in KidsOf(in, n), c \in L,
           NEW node, ToSet(node.kids) = ToSet(in[n].kids) \ {c}, NEW in2, in2 = [in EXCEPT ![n] = node]
    PROVE  Settled(in2, L \ {c}, r, h)
<1>1. DOMAIN in2 = DOMAIN in /\ KidsOf(in2, n) = KidsOf(in, n) \ {c}
      /\ \A x \in DOMAIN in \ {n} : KidsOf(in2, x) = KidsOf(in, x)
  BY DEF KidsOf
<1>2. Forest(in2, L, {r} \cup {c}, h, lv, up)
  BY <1>1, Prune
<1>3. Forest(in2, L \ {c}, ({r} \cup {c}) \ {c}, h, lv, up)
  BY <1>2, DropLeaf
<1>4. c # r
  BY DEF Forest, Levels
<1>5. ({r} \cup {c}) \ {c} = {r}
  BY <1>4
<1>6. Forest(in2, L \ {c}, {r}, h, lv, up)
  BY <1>3, <1>5
<1> QED BY <1>6 DEF Settled

LEMMA CompactKeeps ==
    ASSUME Structure, NEW p, CompactLeaf(p)
    PROVE  Structure' /\ highWater' = highWater /\ DOMAIN inner' \subseteq DOMAIN inner /\ DOMAIN leaf' \subseteq DOMAIN leaf
<1> DEFINE l == p[height]
           n == p[height - 1]
           node == InternalRemoveFirst(inner[n])
<1>1. /\ height >= 2 /\ p[1] = root /\ \A i \in 1..height - 1 : p[i + 1] = Head(inner[p[i]].kids)
      /\ KeyCount(inner[n]) > MINK /\ inner' = [inner EXCEPT ![n] = node] /\ leaf' = Closed(leaf, l)
      /\ root' = root /\ height' = height /\ highWater' = highWater
  BY DEF CompactLeaf
<1>2. /\ highWater \in Nat /\ height \in Nat /\ DOMAIN inner \cup DOMAIN leaf \subseteq 1..highWater
      /\ Sized(inner, root) /\ \A m \in DOMAIN leaf : LeafOK(leaf[m])
  BY DEF Structure
<1> height > 0 /\ height # 0
  BY <1>1, <1>2
<1>3. ASSUME NEW m \in DOMAIN inner
      PROVE  Head(inner[m].kids) = inner[m].kids[1] /\ inner[m].kids[1] \in KidsOf(inner, m)
  <2>1. inner[m].keys \in Seq(Index) /\ inner[m].kids \in Seq(Index) /\ Len(inner[m].kids) = Len(inner[m].keys) + 1
    BY <1>2 DEF Sized, NodeOK
  <2>2. 1 \in 1..Len(inner[m].kids) /\ DOMAIN inner[m].kids = 1..Len(inner[m].kids)
    BY <2>1, Positions
  <2>3. Head(inner[m].kids) = inner[m].kids[1]
    BY <2>1
  <2> QED BY <2>2, <2>3 DEF KidsOf, ToSet
<1>4. Steps(p)
  BY <1>1, <1>3 DEF Steps
<1>5. PICK lv, up : Forest(inner, DOMAIN leaf, {root}, height, lv, up) /\ lv[root] = height
  BY DEF Structure, Settled
<1>6. \A i \in 1..height - 1 : p[i] \in DOMAIN inner /\ p[i + 1] \in KidsOf(inner, p[i])
  BY <1>2, <1>4, <1>5, PathsGoDown
<1>7. l \in DOMAIN leaf
  BY <1>2, <1>4, <1>5, PathsGoDown
<1>8. height - 1 \in 1..height - 1 /\ (height - 1) + 1 = height
  BY <1>1, <1>2
<1>9. n \in DOMAIN inner /\ l \in KidsOf(inner, n) /\ l = inner[n].kids[1]
  BY <1>1, <1>3, <1>6, <1>8
<1>10. NodeOK(inner[n]) /\ Len(inner[n].keys) > 0
  <2>1. Len(inner[n].keys) \in Nat /\ Len(inner[n].keys) > MINK
    BY <1>1, <1>2, <1>9, Positions DEF Sized, NodeOK, KeyCount
  <2> QED BY <1>2, <1>9, <2>1, FanoutFacts DEF Sized
<1>11. NodeOK(node) /\ ToSet(node.kids) = ToSet(inner[n].kids) \ {l} /\ Len(node.keys) = Len(inner[n].keys) - 1
  BY <1>9, <1>10, RemovedFirstOK
<1> HIDE DEF l, n, node
<1>12. Sized(inner', root')
  BY <1>1, <1>2, <1>9, <1>11, ShrunkStill
<1>13. DOMAIN leaf' = DOMAIN leaf \ {l} /\ \A m \in DOMAIN leaf' : LeafOK(leaf'[m])
  <2>1. leaf' = Closed(leaf, l)
    BY <1>1
  <2>2. DOMAIN leaf' = DOMAIN leaf \ {l} /\ \A m \in DOMAIN leaf \ {l} : leaf'[m] = leaf[m]
    BY ONLY <2>1, ClosedFacts
  <2> QED BY <1>2, <2>2
<1>14. Settled(inner', DOMAIN leaf', root', height')
  <2>1. Settled(inner', DOMAIN leaf \ {l}, root, height)
    BY <1>1, <1>5, <1>7, <1>9, <1>11, FirstKidGone
  <2> QED BY <1>1, <1>13, <2>1
<1>15. DOMAIN inner' = DOMAIN inner
  BY <1>1
<1> QED BY <1>1, <1>2, <1>12, <1>13, <1>14, <1>15 DEF Structure

---------------------------------------------------------------------------
(* One level of the rebalancing cascade *)

LEMMA SameKids ==
    ASSUME NEW in, NEW L, NEW R, NEW h, NEW lv, NEW up, Forest(in, L, R, h, lv, up),
           NEW in2, DOMAIN in2 = DOMAIN in, \A x \in DOMAIN in : KidsOf(in2, x) = KidsOf(in, x)
    PROVE  Forest(in2, L, R, h, lv, up)
BY DEF Forest, Accounts, Levels, NoDangling, NoOrphan

(* The kid c of a moves to b, of the same level. *)
LEMMA Moves ==
    ASSUME NEW in, NEW L, NEW R, NEW h, NEW lv, NEW up, Forest(in, L, R, h, lv, up),
           NEW a, a \in DOMAIN in, NEW b, b \in DOMAIN in, a # b, lv[a] = lv[b],
           NEW c, c \in KidsOf(in, a),
           NEW in2, DOMAIN in2 = DOMAIN in,
           KidsOf(in2, a) = KidsOf(in, a) \ {c}, KidsOf(in2, b) = KidsOf(in, b) \cup {c},
           \A x \in DOMAIN in \ {a, b} : KidsOf(in2, x) = KidsOf(in, x)
    PROVE  Rooted(in2, L, R, h, lv)
<1> DEFINE in1 == [in EXCEPT ![a] = in2[a]]
<1>1. /\ DOMAIN in1 = DOMAIN in /\ KidsOf(in1, a) = KidsOf(in, a) \ {c}
      /\ \A x \in DOMAIN in \ {a} : KidsOf(in1, x) = KidsOf(in, x)
  BY DEF KidsOf
<1> HIDE DEF in1
<1>2. Forest(in1, L, R \cup {c}, h, lv, up)
  BY <1>1, Prune
<1>3. lv[b] = lv[c] + 1 /\ c \notin R
  BY ForestFacts
<1>4. /\ c \in R \cup {c} /\ b \in DOMAIN in1 /\ DOMAIN in2 = DOMAIN in1 /\ KidsOf(in2, b) = KidsOf(in1, b) \cup {c}
      /\ \A x \in DOMAIN in1 \ {b} : KidsOf(in2, x) = KidsOf(in1, x)
  BY <1>1
<1>5. Forest(in2, L, (R \cup {c}) \ {c}, h, lv, [up EXCEPT ![c] = b])
  BY <1>2, <1>3, <1>4, Graft
<1>6. (R \cup {c}) \ {c} = R
  BY <1>3
<1> QED BY <1>5, <1>6 DEF Rooted

(* The neighbours that separator s of n stands between. *)
Brothers(in, L, n, l, r, lv) ==
    /\ l \in KidsOf(in, n) /\ r \in KidsOf(in, n) /\ l # r /\ l # n /\ r # n
    /\ lv[l] = lv[r] /\ lv[n] = lv[l] + 1
    /\ \/ l \in L /\ r \in L /\ l \notin DOMAIN in /\ r \notin DOMAIN in
       \/ l \in DOMAIN in /\ r \in DOMAIN in /\ l \notin L /\ r \notin L /\ KidsOf(in, l) \cap KidsOf(in, r) = {}

LEMMA Neighbours ==
    ASSUME NEW in, NEW L, NEW R, NEW h, NEW lv, NEW up, Forest(in, L, R, h, lv, up),
           NEW n, n \in DOMAIN in, NodeOK(in[n]), NEW s, s \in Occupied(in[n])
    PROVE  Brothers(in, L, n, in[n].kids[s], in[n].kids[s + 1], lv)
<1> DEFINE kids == in[n].kids
           l == kids[s]
           r == kids[s + 1]
<1>1. kids \in Seq(Index) /\ IsInjective(kids) /\ s \in 1..Len(kids) /\ s + 1 \in 1..Len(kids) /\ s # s + 1
  <2>1. in[n].keys \in Seq(Index) /\ kids \in Seq(Index) /\ Len(kids) = Len(in[n].keys) + 1 /\ IsInjective(kids)
    BY DEF NodeOK
  <2>2. Len(in[n].keys) \in Nat /\ s \in 1..Len(in[n].keys)
    BY <2>1, Positions DEF Occupied
  <2> QED BY <2>1, <2>2
<1>2. DOMAIN kids = 1..Len(kids)
  BY <1>1, Positions
<1>3. l \in KidsOf(in, n) /\ r \in KidsOf(in, n) /\ l # r
  BY <1>1, <1>2 DEF KidsOf, ToSet, IsInjective
<1> HIDE DEF l, r, kids
<1>4. /\ l \in DOMAIN in \cup L /\ r \in DOMAIN in \cup L /\ l # n /\ r # n /\ lv[n] = lv[l] + 1 /\ lv[n] = lv[r] + 1
      /\ lv[l] \in Nat /\ lv[r] \in Nat
  BY <1>3, ForestFacts
<1>5. lv[l] = lv[r]
  BY <1>4
<1>6. \A x \in DOMAIN in \cup L : (x \in L <=> lv[x] = 1) /\ (x \in DOMAIN in <=> x \notin L)
  BY ForestFacts DEF Forest, Levels
<1>7. l \in DOMAIN in /\ r \in DOMAIN in => KidsOf(in, l) \cap KidsOf(in, r) = {}
  BY <1>3, ForestFacts
<1> QED BY <1>3, <1>4, <1>5, <1>6, <1>7 DEF Brothers, l, r, kids

(* Leaves that lend an entry or are folded together. *)
LEMMA LeafBorrowFromRightOK ==
    ASSUME NEW a, NEW b, LeafOK(a), LeafOK(b), Len(b.keys) >= 2
    PROVE  LET h == LeafBorrowFromRight(a, b)
           IN  LeafOK(h.left) /\ LeafOK(h.right) /\ h.sep \in Index
<1> DEFINE x == [a EXCEPT !.keys = Append(@, Head(b.keys)), !.vals = Append(@, Head(b.vals))]
           y == [b EXCEPT !.keys = Tail(@), !.vals = Tail(@)]
<1>1. /\ a.keys \in Seq(Index) /\ a = [keys |-> a.keys, vals |-> a.vals, next |-> a.next]
      /\ b.keys \in Seq(Index) /\ b = [keys |-> b.keys, vals |-> b.vals, next |-> b.next]
  BY DEF LeafOK
<1>2. Len(b.keys) > 0 /\ 2 \in 1..Len(b.keys)
  BY <1>1, Positions
<1>3. Head(b.keys) \in Index /\ Tail(b.keys) \in Seq(Index) /\ b.keys[2] \in Index
  BY <1>1, <1>2, TailFacts, Positions
<1>4. LeafOK(x)
  <2> DEFINE ks == Append(a.keys, Head(b.keys))
             vs == Append(a.vals, Head(b.vals))
  <2>1. x = [a EXCEPT !.keys = ks, !.vals = vs]
    OBVIOUS
  <2>2. ks \in Seq(Index)
    BY <1>1, <1>3, AppendFacts
  <2> HIDE DEF ks, vs, x
  <2>3. x = [keys |-> ks, vals |-> vs, next |-> a.next]
    BY <1>1, <2>1, LeafEdit
  <2> QED BY <2>2, <2>3 DEF LeafOK
<1>5. LeafOK(y)
  <2> DEFINE ks == Tail(b.keys)
             vs == Tail(b.vals)
  <2>1. y = [b EXCEPT !.keys = ks, !.vals = vs]
    OBVIOUS
  <2>2. ks \in Seq(Index)
    BY <1>3
  <2> HIDE DEF ks, vs, y
  <2>3. y = [keys |-> ks, vals |-> vs, next |-> b.next]
    BY <1>1, <2>1, LeafEdit
  <2> QED BY <2>2, <2>3 DEF LeafOK
<1>6. LeafBorrowFromRight(a, b) = [left |-> x, right |-> y, sep |-> b.keys[2]]
  BY DEF LeafBorrowFromRight
<1> HIDE DEF x, y
<1> QED BY <1>3, <1>4, <1>5, <1>6

LEMMA LeafBorrowFromLeftOK ==
    ASSUME NEW a, NEW b, LeafOK(a), LeafOK(b), Len(a.keys) > 0
    PROVE  LET h == LeafBorrowFromLeft(a, b)
           IN  LeafOK(h.left) /\ LeafOK(h.right) /\ h.sep \in Index
<1> DEFINE x == [a EXCEPT !.keys = Front(@), !.vals = Front(@)]
           y == [b EXCEPT !.keys = <<Last(a.keys)>> \o @, !.vals = <<Last(a.vals)>> \o @]
<1>1. /\ a.keys \in Seq(Index) /\ a = [keys |-> a.keys, vals |-> a.vals, next |-> a.next]
      /\ b.keys \in Seq(Index) /\ b = [keys |-> b.keys, vals |-> b.vals, next |-> b.next]
  BY DEF LeafOK
<1>2. Last(a.keys) \in Index /\ Front(a.keys) \in Seq(Index)
  BY <1>1, FrontFacts
<1>3. LeafOK(x)
  <2> DEFINE ks == Front(a.keys)
             vs == Front(a.vals)
  <2>1. x = [a EXCEPT !.keys = ks, !.vals = vs]
    OBVIOUS
  <2>2. ks \in Seq(Index)
    BY <1>2
  <2> HIDE DEF ks, vs, x
  <2>3. x = [keys |-> ks, vals |-> vs, next |-> a.next]
    BY <1>1, <2>1, LeafEdit
  <2> QED BY <2>2, <2>3 DEF LeafOK
<1>4. LeafOK(y)
  <2> DEFINE ks == <<Last(a.keys)>> \o b.keys
             vs == <<Last(a.vals)>> \o b.vals
  <2>1. y = [b EXCEPT !.keys = ks, !.vals = vs]
    OBVIOUS
  <2>2. ks \in Seq(Index)
    BY <1>1, <1>2, ConsFacts
  <2> HIDE DEF ks, vs, y
  <2>3. y = [keys |-> ks, vals |-> vs, next |-> b.next]
    BY <1>1, <2>1, LeafEdit
  <2> QED BY <2>2, <2>3 DEF LeafOK
<1>5. LeafBorrowFromLeft(a, b) = [left |-> x, right |-> y, sep |-> Last(a.keys)]
  BY DEF LeafBorrowFromLeft
<1> HIDE DEF x, y
<1> QED BY <1>2, <1>3, <1>4, <1>5

LEMMA LeafMergeOK ==
    ASSUME NEW a, NEW b, LeafOK(a), LeafOK(b)
    PROVE  LeafOK(LeafMerge(a, b))
<1> DEFINE x == [a EXCEPT !.keys = @ \o b.keys, !.vals = @ \o b.vals]
<1>1. a.keys \in Seq(Index) /\ a = [keys |-> a.keys, vals |-> a.vals, next |-> a.next] /\ b.keys \in Seq(Index)
  BY DEF LeafOK
<1>2. x = [keys |-> a.keys \o b.keys, vals |-> a.vals \o b.vals, next |-> a.next]
  BY <1>1, LeafEdit
<1>3. LeafMerge(a, b) = [x EXCEPT !.next = b.next]
  BY DEF LeafMerge
<1> HIDE DEF x
<1>4. LeafMerge(a, b) = [keys |-> a.keys \o b.keys, vals |-> a.vals \o b.vals, next |-> b.next]
  BY <1>2, <1>3
<1>5. a.keys \o b.keys \in Seq(Index)
  BY <1>1, ConcatFacts
<1> QED BY <1>4, <1>5 DEF LeafOK

LEMMA ResepOK ==
    ASSUME NEW n, NodeOK(n), NEW s, s \in Occupied(n), NEW sep, sep \in Index, NEW m, m = [n EXCEPT !.keys[s] = sep]
    PROVE  NodeOK(m) /\ m.kids = n.kids /\ Len(m.keys) = Len(n.keys)
<1>1. /\ n = [keys |-> n.keys, kids |-> n.kids] /\ n.keys \in Seq(Index) /\ n.kids \in Seq(Index)
      /\ Len(n.kids) = Len(n.keys) + 1 /\ IsInjective(n.kids)
  BY DEF NodeOK
<1> DEFINE ks == [n.keys EXCEPT ![s] = sep]
<1>2. m = [n EXCEPT !.keys = ks]
  OBVIOUS
<1>3. ks \in Seq(Index) /\ Len(ks) = Len(n.keys)
  BY <1>1 DEF Occupied
<1> HIDE DEF ks
<1>4. m = [keys |-> ks, kids |-> n.kids]
  BY <1>1, <1>2
<1>5. m.keys = ks /\ m.kids = n.kids /\ m = [keys |-> m.keys, kids |-> m.kids]
  BY ONLY <1>4
<1>6. NodeOK(m)
  BY <1>1, <1>3, <1>5 DEF NodeOK
<1> QED BY <1>3, <1>5, <1>6

(* While the cascade runs, the tree in (and its leaves L) is whole, but    *)
(* the node at p[i] may be one key short.                                  *)
Share(n, r) == IF n = r THEN 1 ELSE MINK

Nearly(in, r, e) ==
    /\ IsMap(in)
    /\ \A n \in DOMAIN in :
        NodeOK(in[n]) /\ KeyCount(in[n]) \in (IF n = e THEN Share(n, r) - 1 ELSE Share(n, r))..F

OnPath(in, L, lv, h, p, i) ==
    /\ \A j \in 1..i : p[j] \in DOMAIN in \cup L /\ lv[p[j]] = h - j + 1
    /\ \A j \in 1..i - 1 : p[j + 1] \in KidsOf(in, p[j])

Standing(in, L, h, p, i) ==
    \E lv, up : Forest(in, L, {p[1]}, h, lv, up) /\ OnPath(in, L, lv, h, p, i)

LEMMA ShareFacts == \A n, r : Share(n, r) \in 1..MINK
BY FanoutFacts DEF Share

LEMMA NearlySized ==
    ASSUME NEW in, NEW r, NEW e, Nearly(in, r, e), e \in DOMAIN in => KeyCount(in[e]) >= MINK
    PROVE  Sized(in, r)
<1> SUFFICES ASSUME NEW n \in DOMAIN in PROVE NodeOK(in[n]) /\ KeyCount(in[n]) \in Share(n, r)..F
  BY DEF Nearly, Sized, Share
<1>1. NodeOK(in[n]) /\ KeyCount(in[n]) \in (IF n = e THEN Share(n, r) - 1 ELSE Share(n, r))..F
  BY DEF Nearly
<1>2. Share(n, r) \in 1..MINK
  BY ShareFacts
<1> QED BY <1>1, <1>2, FanoutFacts

(* The node at p[i], i > 1, and its parent. *)
Above(in, L, lv, h, p, i) ==
    /\ p[i - 1] \in DOMAIN in /\ p[i] \in KidsOf(in, p[i - 1])
    /\ lv[p[i - 1]] = h - i + 2 /\ lv[p[i]] = h - i + 1 /\ p[i] \in DOMAIN in \cup L

LEMMA ParentAbove ==
    ASSUME NEW in, NEW L, NEW R, NEW h, NEW lv, NEW up, Forest(in, L, R, h, lv, up),
           NEW p, NEW i, i \in 2..h, OnPath(in, L, lv, h, p, i)
    PROVE  Above(in, L, lv, h, p, i)
<1>1. h \in Nat /\ i - 1 \in 1..i /\ i - 1 \in 1..i - 1 /\ i \in 1..i /\ (i - 1) + 1 = i
  BY ForestFacts
<1>2. /\ p[i - 1] \in DOMAIN in \cup L /\ lv[p[i - 1]] = h - (i - 1) + 1
      /\ p[i] \in DOMAIN in \cup L /\ lv[p[i]] = h - i + 1
  BY <1>1 DEF OnPath
<1>3. p[i] \in KidsOf(in, p[i - 1])
  BY <1>1 DEF OnPath
<1>4. lv[p[i - 1]] = h - i + 2 /\ lv[p[i - 1]] # 1
  BY <1>1, <1>2
<1>5. p[i - 1] \in DOMAIN in
  BY <1>2, <1>4 DEF Forest, Levels
<1> QED BY <1>2, <1>3, <1>4, <1>5 DEF Above

(* What lies above the parent is not disturbed. *)
LEMMA PathStays ==
    ASSUME NEW in, NEW L, NEW R, NEW h, NEW lv, NEW up, Forest(in, L, R, h, lv, up),
           NEW p, NEW i, i \in 2..h, OnPath(in, L, lv, h, p, i), NEW in3, NEW L3,
           \A x \in DOMAIN in \cup L : lv[x] > h - i + 1 => x \in DOMAIN in3 \cup L3,
           \A x \in DOMAIN in : lv[x] > h - i + 2 => KidsOf(in3, x) = KidsOf(in, x)
    PROVE  OnPath(in3, L3, lv, h, p, i - 1)
<1>1. h \in Nat
  BY ForestFacts
<1>2. ASSUME NEW j \in 1..i - 1 PROVE p[j] \in DOMAIN in3 \cup L3 /\ lv[p[j]] = h - j + 1
  <2>1. j \in 1..i /\ h - j + 1 > h - i + 1
    BY <1>1
  <2> QED BY <2>1 DEF OnPath
<1>3. ASSUME NEW j \in 1..(i - 1) - 1 PROVE p[j + 1] \in KidsOf(in3, p[j])
  <2>1. j \in 1..i /\ j \in 1..i - 1 /\ h - j + 1 > h - i + 2 /\ h - j + 1 # 1
    BY <1>1
  <2>2. p[j] \in DOMAIN in \cup L /\ lv[p[j]] = h - j + 1 /\ p[j + 1] \in KidsOf(in, p[j])
    BY <2>1 DEF OnPath
  <2>3. p[j] \in DOMAIN in
    BY <2>1, <2>2 DEF Forest, Levels
  <2> QED BY <2>1, <2>2, <2>3
<1> QED BY <1>2, <1>3 DEF OnPath

(* p[i] and its neighbour, on either side of separator s of their parent.  *)
Poised(in, L, h, p, i, lv, up, s, l, r) ==
    /\ Forest(in, L, {p[1]}, h, lv, up) /\ OnPath(in, L, lv, h, p, i) /\ i \in 2..h
    /\ Nearly(in, p[1], p[i])
    /\ s \in Occupied(in[p[i - 1]]) /\ l = in[p[i - 1]].kids[s] /\ r = in[p[i - 1]].kids[s + 1]
    /\ p[i] \in {l, r}

Paired(in, L, h, p, i, lv, up, l, r) ==
    /\ Forest(in, L, {p[1]}, h, lv, up) /\ h \in Nat /\ i \in 2..h
    /\ p[i - 1] \in DOMAIN in /\ NodeOK(in[p[i - 1]]) /\ Brothers(in, L, p[i - 1], l, r, lv)
    /\ p[i] \in {l, r} /\ p[i - 1] # p[i] /\ l # p[1] /\ r # p[1]
    /\ lv[p[1]] = h /\ lv[l] = h - i + 1 /\ lv[r] = h - i + 1 /\ lv[p[i - 1]] = h - i + 2

LEMMA PoisedFacts ==
    ASSUME NEW in, NEW L, NEW h, NEW p, NEW i, NEW lv, NEW up, NEW s, NEW l, NEW r,
           Poised(in, L, h, p, i, lv, up, s, l, r)
    PROVE  Paired(in, L, h, p, i, lv, up, l, r)
<1>1. /\ Forest(in, L, {p[1]}, h, lv, up) /\ OnPath(in, L, lv, h, p, i) /\ i \in 2..h
      /\ Nearly(in, p[1], p[i]) /\ s \in Occupied(in[p[i - 1]])
      /\ l = in[p[i - 1]].kids[s] /\ r = in[p[i - 1]].kids[s + 1] /\ p[i] \in {l, r}
  BY DEF Poised
<1>2. Above(in, L, lv, h, p, i)
  BY <1>1, ParentAbove
<1>3. p[i - 1] \in DOMAIN in /\ lv[p[i - 1]] = h - i + 2 /\ lv[p[i]] = h - i + 1 /\ h \in Nat
  BY <1>1, <1>2, ForestFacts DEF Above
<1>4. NodeOK(in[p[i - 1]])
  BY <1>1, <1>3 DEF Nearly
<1>5. Brothers(in, L, p[i - 1], in[p[i - 1]].kids[s], in[p[i - 1]].kids[s + 1], lv)
  BY <1>1, <1>3, <1>4, Neighbours
<1>6. Brothers(in, L, p[i - 1], l, r, lv)
  BY <1>1, <1>5
<1>7. l \in KidsOf(in, p[i - 1]) /\ r \in KidsOf(in, p[i - 1]) /\ lv[l] = lv[r]
  BY <1>6 DEF Brothers
<1>8. l # p[1] /\ r # p[1]
  BY <1>1, <1>3, <1>7, ForestFacts
<1>9. 1 \in 1..i /\ lv[p[1]] = h - 1 + 1
  BY <1>1 DEF OnPath
<1>10. lv[l] = h - i + 1 /\ lv[r] = h - i + 1
  BY <1>1, <1>3, <1>7
<1>11. p[i - 1] # p[i]
  BY <1>1, <1>3
<1> QED BY <1>1, <1>3, <1>4, <1>6, <1>8, <1>9, <1>10, <1>11 DEF Paired

(* A leaf lends an entry: only the separator changes among the internals. *)
LEMMA BorrowLeafKeeps ==
    ASSUME NEW in, NEW L, NEW h, NEW p, NEW i, NEW lv, NEW up, NEW s, NEW l, NEW r,
           Poised(in, L, h, p, i, lv, up, s, l, r), l \in L,
           NEW in3, IsMap(in3), DOMAIN in3 = DOMAIN in, NEW sep, sep \in Index,
           in3[p[i - 1]] = [in[p[i - 1]] EXCEPT !.keys[s] = sep],
           \A x \in DOMAIN in \ {p[i - 1]} : in3[x] = in[x]
    PROVE  Sized(in3, p[1]) /\ Settled(in3, L, p[1], h)
<1> DEFINE n == p[i - 1]
<1>0. Paired(in, L, h, p, i, lv, up, l, r)
  BY PoisedFacts
<1>1. /\ Forest(in, L, {p[1]}, h, lv, up) /\ n \in DOMAIN in /\ NodeOK(in[n])
      /\ Brothers(in, L, n, l, r, lv) /\ p[i] \in {l, r} /\ lv[p[1]] = h
  BY <1>0 DEF Paired
<1>2. s \in Occupied(in[n]) /\ Nearly(in, p[1], p[i])
  BY DEF Poised
<1>3. in3[n] = [in[n] EXCEPT !.keys[s] = sep] /\ \A x \in DOMAIN in \ {n} : in3[x] = in[x]
  OBVIOUS
<1> HIDE DEF n
<1>4. NodeOK(in3[n]) /\ in3[n].kids = in[n].kids /\ Len(in3[n].keys) = Len(in[n].keys)
  BY <1>1, <1>2, <1>3, ResepOK
<1>5. \A x \in DOMAIN in : KidsOf(in3, x) = KidsOf(in, x)
  BY <1>3, <1>4 DEF KidsOf
<1>6. Forest(in3, L, {p[1]}, h, lv, up)
  BY <1>1, <1>5, SameKids
<1>7. p[i] \notin DOMAIN in
  BY <1>1 DEF Brothers
<1>8. Nearly(in3, p[1], p[i])
  BY <1>2, <1>3, <1>4 DEF Nearly, KeyCount
<1>9. Sized(in3, p[1])
  BY <1>7, <1>8, NearlySized
<1> QED BY <1>1, <1>6, <1>9 DEF Settled

Two(a, b, l, r) ==
    \/ a = l /\ b = r
    \/ a = r /\ b = l

(* An internal node a lends its neighbour b = p[i] the kid c. *)
Lent(in, in3, a, b, c) ==
    /\ NodeOK(in3[a]) /\ NodeOK(in3[b]) /\ c \in KidsOf(in, a)
    /\ KidsOf(in3, a) = KidsOf(in, a) \ {c} /\ KidsOf(in3, b) = KidsOf(in, b) \cup {c}
    /\ KeyCount(in3[a]) = KeyCount(in[a]) - 1 /\ KeyCount(in3[b]) = KeyCount(in[b]) + 1

LEMMA BorrowInnerKeeps ==
    ASSUME NEW in, NEW L, NEW h, NEW p, NEW i, NEW lv, NEW up, NEW s, NEW l, NEW r,
           Poised(in, L, h, p, i, lv, up, s, l, r), l \in DOMAIN in,
           NEW in3, IsMap(in3), DOMAIN in3 = DOMAIN in, NEW sep, sep \in Index,
           in3[p[i - 1]] = [in[p[i - 1]] EXCEPT !.keys[s] = sep],
           \A x \in DOMAIN in \ {l, r, p[i - 1]} : in3[x] = in[x],
           NEW a, NEW c, Two(a, p[i], l, r), Lent(in, in3, a, p[i], c),
           KeyCount(in[a]) > MINK, ~(KeyCount(in[p[i]]) >= MINK)
    PROVE  Sized(in3, p[1]) /\ Settled(in3, L, p[1], h)
<1> DEFINE n == p[i - 1]
           b == p[i]
           r0 == p[1]
<1>0. Paired(in, L, h, p, i, lv, up, l, r)
  BY PoisedFacts
<1>1. /\ Forest(in, L, {r0}, h, lv, up) /\ n \in DOMAIN in /\ NodeOK(in[n])
      /\ Brothers(in, L, n, l, r, lv) /\ lv[r0] = h /\ l # r0 /\ r # r0
  BY <1>0 DEF Paired
<1>2. s \in Occupied(in[n]) /\ Nearly(in, r0, b)
  BY DEF Poised
<1>3. /\ in3[n] = [in[n] EXCEPT !.keys[s] = sep] /\ \A x \in DOMAIN in \ {l, r, n} : in3[x] = in[x]
      /\ ((a = l /\ b = r) \/ (a = r /\ b = l)) /\ Lent(in, in3, a, b, c) /\ KeyCount(in[a]) > MINK /\ ~(KeyCount(in[b]) >= MINK)
  BY DEF Two
<1> HIDE DEF n, b, r0
<1>4. /\ a \in DOMAIN in /\ b \in DOMAIN in /\ a # b /\ a # n /\ b # n /\ lv[a] = lv[b] /\ a # r0 /\ b # r0
  BY <1>1, <1>3 DEF Brothers
<1>5. NodeOK(in3[n]) /\ in3[n].kids = in[n].kids /\ Len(in3[n].keys) = Len(in[n].keys)
  BY <1>1, <1>2, <1>3, ResepOK
<1>6. \A x \in DOMAIN in \ {a, b} : KidsOf(in3, x) = KidsOf(in, x)
  BY <1>3, <1>5 DEF KidsOf
<1>7. Rooted(in3, L, {r0}, h, lv)
  <2>1. c \in KidsOf(in, a) /\ KidsOf(in3, a) = KidsOf(in, a) \ {c} /\ KidsOf(in3, b) = KidsOf(in, b) \cup {c}
    BY <1>3 DEF Lent
  <2> QED BY <1>1, <1>4, <1>6, <2>1, Moves
<1>8. KeyCount(in3[a]) \in MINK..F /\ KeyCount(in3[b]) \in MINK..F /\ NodeOK(in3[a]) /\ NodeOK(in3[b])
  <2>1. KeyCount(in[a]) \in MINK..F /\ KeyCount(in[b]) \in MINK - 1..F
    BY <1>2, <1>4 DEF Nearly, Share
  <2>2. KeyCount(in3[a]) = KeyCount(in[a]) - 1 /\ KeyCount(in3[b]) = KeyCount(in[b]) + 1
    BY <1>3 DEF Lent
  <2>3. KeyCount(in3[a]) \in MINK..F
    BY <1>3, <2>1, <2>2, FanoutFacts
  <2>4. KeyCount(in3[b]) \in MINK..F
    BY <1>3, <2>1, <2>2, FanoutFacts
  <2> QED BY <1>3, <2>3, <2>4 DEF Lent
<1>9. Sized(in3, r0)
  <2> SUFFICES ASSUME NEW x \in DOMAIN in
               PROVE  NodeOK(in3[x]) /\ KeyCount(in3[x]) \in Share(x, r0)..F
    BY DEF Sized, Share
  <2>1. CASE x \in {a, b}
    BY <1>4, <1>8, <2>1 DEF Share
  <2>2. CASE x \notin {a, b}
    <3>1. KeyCount(in[x]) \in Share(x, r0)..F /\ NodeOK(in[x])
      BY <1>2, <2>2 DEF Nearly
    <3>2. CASE x = n
      BY <1>5, <3>1, <3>2 DEF KeyCount
    <3>3. CASE x # n
      BY <1>3, <2>2, <3>1, <3>3
    <3> QED BY <3>2, <3>3
  <2> QED BY <2>1, <2>2
<1>10. Settled(in3, L, r0, h)
  BY <1>1, <1>7 DEF Rooted, Settled
<1> QED BY <1>9, <1>10 DEF r0

(* Two leaves are folded into one. *)
LEMMA MergeLeafKeeps ==
    ASSUME NEW in, NEW L, NEW h, NEW p, NEW i, NEW lv, NEW up, NEW s, NEW l, NEW r,
           Poised(in, L, h, p, i, lv, up, s, l, r), l \in L,
           NEW in3, in3 = [in EXCEPT ![p[i - 1]] = InternalRemoveAt(in[p[i - 1]], s)]
    PROVE  Nearly(in3, p[1], p[i - 1]) /\ Standing(in3, L \ {r}, h, p, i - 1)
<1> DEFINE n == p[i - 1]
           r0 == p[1]
           node == InternalRemoveAt(in[n], s)
<1>0. Paired(in, L, h, p, i, lv, up, l, r)
  BY PoisedFacts
<1>1. /\ Forest(in, L, {r0}, h, lv, up) /\ n \in DOMAIN in /\ NodeOK(in[n]) /\ h \in Nat /\ i \in 2..h
      /\ Brothers(in, L, n, l, r, lv) /\ lv[r0] = h /\ l # r0 /\ r # r0 /\ p[i] \in {l, r}
      /\ lv[r] = h - i + 1 /\ lv[n] = h - i + 2
  BY <1>0 DEF Paired
<1>2. s \in Occupied(in[n]) /\ Nearly(in, r0, p[i]) /\ OnPath(in, L, lv, h, p, i) /\ r = in[n].kids[s + 1]
  BY DEF Poised
<1>3. in3 = [in EXCEPT ![n] = node]
  OBVIOUS
<1>4. NodeOK(node) /\ ToSet(node.kids) = ToSet(in[n].kids) \ {r} /\ Len(node.keys) = Len(in[n].keys) - 1
  BY <1>1, <1>2, RemovedOK
<1> HIDE DEF n, r0, node
<1>5. /\ DOMAIN in3 = DOMAIN in /\ in3[n] = node /\ \A x \in DOMAIN in \ {n} : in3[x] = in[x]
      /\ KidsOf(in3, n) = KidsOf(in, n) \ {r} /\ \A x \in DOMAIN in \ {n} : KidsOf(in3, x) = KidsOf(in, x)
  BY <1>1, <1>3, <1>4 DEF KidsOf
<1>6. r \in KidsOf(in, n) /\ r \in L /\ p[i] \notin DOMAIN in
  BY <1>1 DEF Brothers
<1>7. Forest(in3, L, {r0} \cup {r}, h, lv, up)
  <2>1. /\ Forest(in, L, {r0}, h, lv, up) /\ n \in DOMAIN in /\ r \in KidsOf(in, n) /\ DOMAIN in3 = DOMAIN in
        /\ KidsOf(in3, n) = KidsOf(in, n) \ {r} /\ \A x \in DOMAIN in \ {n} : KidsOf(in3, x) = KidsOf(in, x)
    BY <1>1, <1>5, <1>6
  <2> QED BY ONLY <2>1, Prune
<1>8. Forest(in3, L \ {r}, ({r0} \cup {r}) \ {r}, h, lv, up)
  BY <1>6, <1>7, DropLeaf
<1>9. ({r0} \cup {r}) \ {r} = {r0}
  BY <1>1
<1>10. Nearly(in3, r0, n)
  <2>1. IsMap(in3)
    BY <1>3, Maps
  <2> SUFFICES ASSUME NEW x \in DOMAIN in
               PROVE  NodeOK(in3[x]) /\ KeyCount(in3[x]) \in (IF x = n THEN Share(x, r0) - 1 ELSE Share(x, r0))..F
    BY <1>5, <2>1 DEF Nearly
  <2>2. NodeOK(in[x]) /\ KeyCount(in[x]) \in Share(x, r0)..F
    BY <1>2, <1>6 DEF Nearly
  <2>3. CASE x = n
    <3>1. KeyCount(node) = KeyCount(in[n]) - 1
      BY <1>4 DEF KeyCount
    <3>2. Share(n, r0) \in 1..MINK
      BY ShareFacts
    <3> QED BY <1>4, <1>5, <2>2, <2>3, <3>1, <3>2, FanoutFacts
  <2>4. CASE x # n
    BY <1>5, <2>2, <2>4
  <2> QED BY <2>3, <2>4
<1>11. OnPath(in3, L \ {r}, lv, h, p, i - 1)
  <2>1. \A x \in DOMAIN in \cup L : lv[x] > h - i + 1 => x \in DOMAIN in3 \cup (L \ {r})
    <3>1. ~(lv[r] > h - i + 1) /\ ~(lv[n] > h - i + 2)
      BY <1>1
    <3> QED BY <1>5, <3>1
  <2>2. \A x \in DOMAIN in : lv[x] > h - i + 2 => KidsOf(in3, x) = KidsOf(in, x)
    <3>1. ~(lv[n] > h - i + 2)
      BY <1>1
    <3> QED BY <1>5, <3>1
  <2> QED BY <1>1, <1>2, <2>1, <2>2, PathStays
<1>12. Forest(in3, L \ {r}, {r0}, h, lv, up)
  BY <1>8, <1>9
<1> QED BY <1>10, <1>11, <1>12 DEF Standing, r0, n

(* Two internal nodes are folded into one. *)
LEMMA MergeInnerKeeps ==
    ASSUME NEW in, NEW L, NEW h, NEW p, NEW i, NEW lv, NEW up, NEW s, NEW l, NEW r,
           Poised(in, L, h, p, i, lv, up, s, l, r), l \in DOMAIN in,
           ~(KeyCount(in[p[i]]) >= MINK), \A m \in {l, r} : m # p[i] => ~(KeyCount(in[m]) > MINK),
           NEW shrunk, shrunk = [in EXCEPT ![p[i - 1]] = InternalRemoveAt(in[p[i - 1]], s)],
           NEW sep, sep \in Index,
           NEW in3, in3 = Closed([shrunk EXCEPT ![l] = InternalMergeRight(in[l], in[r], sep)], r)
    PROVE  Nearly(in3, p[1], p[i - 1]) /\ Standing(in3, L, h, p, i - 1)
<1> DEFINE n == p[i - 1]
           r0 == p[1]
           node == InternalRemoveAt(in[n], s)
           merged == InternalMergeRight(in[l], in[r], sep)
<1>0. Paired(in, L, h, p, i, lv, up, l, r)
  BY PoisedFacts
<1>1. /\ Forest(in, L, {r0}, h, lv, up) /\ n \in DOMAIN in /\ NodeOK(in[n]) /\ h \in Nat /\ i \in 2..h
      /\ Brothers(in, L, n, l, r, lv) /\ lv[r0] = h /\ l # r0 /\ r # r0 /\ p[i] \in {l, r}
      /\ lv[r] = h - i + 1 /\ lv[l] = h - i + 1 /\ lv[n] = h - i + 2
  BY <1>0 DEF Paired
<1>2. s \in Occupied(in[n]) /\ Nearly(in, r0, p[i]) /\ OnPath(in, L, lv, h, p, i) /\ r = in[n].kids[s + 1]
  BY DEF Poised
<1>3. shrunk = [in EXCEPT ![n] = node] /\ in3 = Closed([shrunk EXCEPT ![l] = merged], r)
  OBVIOUS
<1>4. NodeOK(node) /\ ToSet(node.kids) = ToSet(in[n].kids) \ {r} /\ Len(node.keys) = Len(in[n].keys) - 1
  BY <1>1, <1>2, RemovedOK
<1>5. /\ l \in DOMAIN in /\ r \in DOMAIN in /\ l # r /\ l # n /\ r # n /\ r \in KidsOf(in, n) /\ lv[l] = lv[r]
      /\ KidsOf(in, l) \cap KidsOf(in, r) = {}
  BY <1>1 DEF Brothers
<1>6. /\ NodeOK(merged) /\ ToSet(merged.kids) = KidsOf(in, l) \cup KidsOf(in, r)
      /\ Len(merged.keys) = Len(in[l].keys) + Len(in[r].keys) + 1
  <2>1. NodeOK(in[l]) /\ NodeOK(in[r])
    BY <1>2, <1>5 DEF Nearly
  <2> QED BY <1>5, <2>1, MergedOK DEF KidsOf
<1> HIDE DEF n, r0, node, merged
<1>7. /\ DOMAIN shrunk = DOMAIN in /\ shrunk[n] = node /\ \A x \in DOMAIN in \ {n} : shrunk[x] = in[x]
      /\ KidsOf(shrunk, n) = KidsOf(in, n) \ {r} /\ \A x \in DOMAIN in \ {n} : KidsOf(shrunk, x) = KidsOf(in, x)
  BY <1>1, <1>3, <1>4 DEF KidsOf
<1>8. /\ DOMAIN in3 = DOMAIN in \ {r} /\ in3[l] = merged /\ in3[n] = node
      /\ \A x \in DOMAIN in \ {r, l, n} : in3[x] = in[x]
  <2> DEFINE both == [shrunk EXCEPT ![l] = merged]
  <2>1. DOMAIN both = DOMAIN in /\ both[l] = merged /\ \A x \in DOMAIN in \ {l} : both[x] = shrunk[x]
    BY <1>5, <1>7
  <2>2. in3 = Closed(both, r)
    BY <1>3
  <2> HIDE DEF both
  <2>3. DOMAIN in3 = DOMAIN in \ {r} /\ \A x \in DOMAIN in \ {r} : in3[x] = both[x]
    <3>1. /\ DOMAIN Closed(both, r) = DOMAIN both \ {r}
          /\ \A x \in DOMAIN both \ {r} : Closed(both, r)[x] = both[x]
      BY ClosedFacts
    <3> QED BY <2>1, <2>2, <3>1
  <2>4. in3[l] = merged
    BY <1>5, <2>1, <2>3
  <2>5. in3[n] = node
    <3>1. n \in DOMAIN in \ {r} /\ n \in DOMAIN in \ {l}
      BY <1>1, <1>5
    <3> QED BY <1>7, <2>1, <2>3, <3>1
  <2>6. \A x \in DOMAIN in \ {r, l, n} : in3[x] = in[x]
    BY <1>7, <2>1, <2>3
  <2> QED BY <2>3, <2>4, <2>5, <2>6
<1>9. Forest(shrunk, L, {r0} \cup {r}, h, lv, up)
  <2>1. /\ Forest(in, L, {r0}, h, lv, up) /\ n \in DOMAIN in /\ r \in KidsOf(in, n) /\ DOMAIN shrunk = DOMAIN in
        /\ KidsOf(shrunk, n) = KidsOf(in, n) \ {r} /\ \A x \in DOMAIN in \ {n} : KidsOf(shrunk, x) = KidsOf(in, x)
    BY <1>1, <1>5, <1>7
  <2> QED BY ONLY <2>1, Prune
<1>10. PICK up2 : Forest(in3, L, ({r0} \cup {r}) \ {r}, h, lv, up2)
  <2>1. /\ r \in {r0} \cup {r} /\ r \in DOMAIN shrunk /\ l \in DOMAIN shrunk /\ l # r /\ lv[l] = lv[r]
        /\ DOMAIN in3 = DOMAIN shrunk \ {r}
    BY <1>5, <1>7, <1>8
  <2>2. KidsOf(in3, l) = KidsOf(shrunk, l) \cup KidsOf(shrunk, r)
    BY <1>5, <1>6, <1>7, <1>8 DEF KidsOf
  <2>3. \A x \in DOMAIN shrunk \ {l, r} : KidsOf(in3, x) = KidsOf(shrunk, x)
    <3>1. ASSUME NEW x \in DOMAIN in \ {l, r} PROVE in3[x] = shrunk[x]
      <4>1. CASE x = n
        BY <1>7, <1>8, <4>1
      <4>2. CASE x # n
        BY <1>7, <1>8, <4>2
      <4> QED BY <4>1, <4>2
    <3> QED BY <1>7, <3>1 DEF KidsOf
  <2> QED BY ONLY <1>9, <2>1, <2>2, <2>3, Fuse
<1>11. ({r0} \cup {r}) \ {r} = {r0}
  BY <1>1
<1>12. KeyCount(merged) \in MINK..F
  <2>1. KeyCount(in[l]) \in MINK - 1..F /\ KeyCount(in[r]) \in MINK - 1..F
    <3>1. \A x \in {l, r} : KeyCount(in[x]) \in (IF x = p[i] THEN MINK - 1 ELSE MINK)..F
      BY <1>1, <1>2, <1>5 DEF Nearly, Share
    <3>2. \A x \in {l, r} : KeyCount(in[x]) \in MINK - 1..F
      BY <3>1, FanoutFacts
    <3> QED BY <3>2
  <2>2. KeyCount(in[l]) + KeyCount(in[r]) <= 2 * MINK - 1
    <3>1. CASE p[i] = l
      BY <1>5, <2>1, <3>1, FanoutFacts
    <3>2. CASE p[i] = r
      BY <1>5, <2>1, <3>2, FanoutFacts
    <3> QED BY <1>1, <3>1, <3>2
  <2>3. KeyCount(merged) = KeyCount(in[l]) + KeyCount(in[r]) + 1
    BY <1>6 DEF KeyCount
  <2> HIDE DEF KeyCount
  <2> QED BY <2>1, <2>2, <2>3, FanoutFacts
<1>13. Nearly(in3, r0, n)
  <2>1. IsMap(in3)
    <3>1. IsMap(Closed([shrunk EXCEPT ![l] = merged], r))
      BY Maps
    <3> QED BY <1>3, <3>1
  <2> SUFFICES ASSUME NEW x \in DOMAIN in \ {r}
               PROVE  NodeOK(in3[x]) /\ KeyCount(in3[x]) \in (IF x = n THEN Share(x, r0) - 1 ELSE Share(x, r0))..F
    BY <1>8, <2>1 DEF Nearly
  <2>2. CASE x = l
    BY <1>1, <1>5, <1>6, <1>8, <1>12, <2>2 DEF Share
  <2>3. CASE x # l
    <3>1. NodeOK(in[x]) /\ KeyCount(in[x]) \in Share(x, r0)..F
      <4>1. x # p[i]
        BY <1>1, <2>3
      <4> QED BY <1>2, <4>1 DEF Nearly
    <3>2. CASE x = n
      <4>1. KeyCount(node) = KeyCount(in[n]) - 1
        BY <1>4 DEF KeyCount
      <4>2. Share(n, r0) \in 1..MINK
        BY ShareFacts
      <4> QED BY <1>4, <1>8, <3>1, <3>2, <4>1, <4>2, FanoutFacts
    <3>3. CASE x # n
      BY <1>8, <2>3, <3>1, <3>3
    <3> QED BY <3>2, <3>3
  <2> QED BY <2>2, <2>3
<1>14. OnPath(in3, L, lv, h, p, i - 1)
  <2>1. \A x \in DOMAIN in \cup L : lv[x] > h - i + 1 => x \in DOMAIN in3 \cup L
    <3>1. ~(lv[r] > h - i + 1)
      BY <1>1
    <3> QED BY <1>8, <3>1
  <2>2. \A x \in DOMAIN in : lv[x] > h - i + 2 => KidsOf(in3, x) = KidsOf(in, x)
    <3>1. ~(lv[r] > h - i + 2) /\ ~(lv[l] > h - i + 2) /\ ~(lv[n] > h - i + 2)
      BY <1>1
    <3> QED BY <1>8, <3>1 DEF KidsOf
  <2>3. Forest(in, L, {r0}, h, lv, up) /\ i \in 2..h /\ OnPath(in, L, lv, h, p, i)
    BY <1>1, <1>2
  <2> QED BY ONLY <2>1, <2>2, <2>3, PathStays
<1>15. Forest(in3, L, {r0}, h, lv, up2)
  BY <1>10, <1>11
<1> QED BY <1>13, <1>14, <1>15 DEF Standing, r0, n

(* The internal lenders of the code. *)
LEMMA LendRight ==
    ASSUME NEW in, NEW in3, NEW l, NEW r, NEW sep, NEW h, NodeOK(in[l]), NodeOK(in[r]), sep \in Index,
           KidsOf(in, l) \cap KidsOf(in, r) = {}, KeyCount(in[r]) > MINK,
           h = InternalBorrowFromRight(in[l], in[r], sep), in3[l] = h.left, in3[r] = h.right
    PROVE  h.sep \in Index /\ Lent(in, in3, r, l, in[r].kids[1])
<1>1. in[r].keys \in Seq(Index) /\ in[r].kids \in Seq(Index) /\ Len(in[r].kids) = Len(in[r].keys) + 1
  BY DEF NodeOK
<1>2. Len(in[r].keys) > 0 /\ 1 \in DOMAIN in[r].kids
  <2>1. Len(in[r].keys) \in Nat /\ Len(in[r].keys) > MINK
    BY <1>1, Positions DEF KeyCount
  <2>2. DOMAIN in[r].kids = 1..Len(in[r].kids)
    BY <1>1, Positions
  <2> QED BY <1>1, <2>1, <2>2, FanoutFacts
<1>3. in[r].kids[1] \in ToSet(in[r].kids) /\ in[r].kids[1] \notin ToSet(in[l].kids)
  BY <1>2 DEF KidsOf, ToSet
<1>4. /\ NodeOK(h.left) /\ NodeOK(h.right) /\ h.sep \in Index
      /\ ToSet(h.left.kids) = ToSet(in[l].kids) \cup {in[r].kids[1]}
      /\ ToSet(h.right.kids) = ToSet(in[r].kids) \ {in[r].kids[1]}
      /\ Len(h.left.keys) = Len(in[l].keys) + 1 /\ Len(h.right.keys) = Len(in[r].keys) - 1
  <2> DEFINE a == in[l]
             b == in[r]
  <2>1. /\ NodeOK(a) /\ NodeOK(b) /\ Len(b.keys) > 0 /\ b.kids[1] \notin ToSet(a.kids)
        /\ h = InternalBorrowFromRight(a, b, sep) /\ sep \in Index
    BY <1>2, <1>3
  <2> HIDE DEF a, b
  <2>2. TakenFirst(h, a, b)
    BY <2>1, BorrowedFromRightOK
  <2> QED BY <2>2 DEF TakenFirst, a, b
<1> QED BY <1>3, <1>4 DEF Lent, KidsOf, KeyCount

LEMMA LendLeft ==
    ASSUME NEW in, NEW in3, NEW l, NEW r, NEW sep, NEW h, NodeOK(in[l]), NodeOK(in[r]), sep \in Index,
           KidsOf(in, l) \cap KidsOf(in, r) = {}, KeyCount(in[l]) > MINK,
           h = InternalBorrowFromLeft(in[l], in[r], sep), in3[l] = h.left, in3[r] = h.right
    PROVE  h.sep \in Index /\ Lent(in, in3, l, r, in[l].kids[Len(in[l].kids)])
<1> DEFINE c == in[l].kids[Len(in[l].kids)]
<1>1. in[l].keys \in Seq(Index) /\ in[l].kids \in Seq(Index) /\ Len(in[l].kids) = Len(in[l].keys) + 1
  BY DEF NodeOK
<1>2. Len(in[l].keys) > 0 /\ Len(in[l].kids) \in DOMAIN in[l].kids
  <2>1. Len(in[l].keys) \in Nat /\ Len(in[l].keys) > MINK
    BY <1>1, Positions DEF KeyCount
  <2>2. DOMAIN in[l].kids = 1..Len(in[l].kids)
    BY <1>1, Positions
  <2> QED BY <1>1, <2>1, <2>2, FanoutFacts
<1>3. c \in ToSet(in[l].kids) /\ c \notin ToSet(in[r].kids)
  BY <1>2 DEF KidsOf, ToSet
<1>4. /\ NodeOK(h.left) /\ NodeOK(h.right) /\ h.sep \in Index
      /\ ToSet(h.left.kids) = ToSet(in[l].kids) \ {c}
      /\ ToSet(h.right.kids) = ToSet(in[r].kids) \cup {c}
      /\ Len(h.left.keys) = Len(in[l].keys) - 1 /\ Len(h.right.keys) = Len(in[r].keys) + 1
  <2> DEFINE a == in[l]
             b == in[r]
  <2>1. /\ NodeOK(a) /\ NodeOK(b) /\ Len(a.keys) > 0 /\ a.kids[Len(a.kids)] \notin ToSet(b.kids)
        /\ h = InternalBorrowFromLeft(a, b, sep) /\ sep \in Index
    BY <1>2, <1>3
  <2>2. c = a.kids[Len(a.kids)]
    OBVIOUS
  <2> HIDE DEF a, b, c
  <2>3. GivenLast(h, a, b)
    BY <2>1, BorrowedFromLeftOK
  <2> QED BY <2>2, <2>3 DEF GivenLast, a, b
<1> HIDE DEF c
<1>5. Lent(in, in3, l, r, c)
  BY <1>3, <1>4 DEF Lent, KidsOf, KeyCount
<1> QED BY <1>4, <1>5 DEF c

(* The cascade's state is a record, edited field by field. *)
Fields == {"inner", "leaf", "rightmost", "state"}

Are(t, in, lf, st) == DOMAIN t = Fields /\ t.inner = in /\ t.leaf = lf /\ t.state = st

LEMMA Edits ==
    ASSUME NEW t, NEW in, NEW lf, NEW st, Are(t, in, lf, st), NEW x
    PROVE  /\ Are([t EXCEPT !.inner = x], x, lf, st) /\ Are([t EXCEPT !.leaf = x], in, x, st)
           /\ Are([t EXCEPT !.rightmost = x], in, lf, st) /\ Are([t EXCEPT !.state = x], in, lf, x)
BY DEF Are, Fields

LEMMA LeafBorrowEdits ==
    ASSUME NEW t, NEW in, NEW lf, NEW st, Are(t, in, lf, st), NEW l, NEW r, NEW n, NEW s, NEW a, NEW b, NEW c
    PROVE  Are([t EXCEPT !.leaf[l] = a, !.leaf[r] = b, !.inner[n].keys[s] = c],
               [in EXCEPT ![n].keys[s] = c], [lf EXCEPT ![l] = a, ![r] = b], st)
<1> DEFINE t1 == [t EXCEPT !.leaf[l] = a]
           t2 == [t1 EXCEPT !.leaf[r] = b]
           t3 == [t2 EXCEPT !.inner[n].keys[s] = c]
           w == [t EXCEPT !.leaf[l] = a, !.leaf[r] = b, !.inner[n].keys[s] = c]
           lf1 == [lf EXCEPT ![l] = a]
           lf2 == [lf1 EXCEPT ![r] = b]
           in1 == [in EXCEPT ![n].keys[s] = c]
<1>1. w = t3 /\ lf2 = [lf EXCEPT ![l] = a, ![r] = b]
  OBVIOUS
<1>2. t1 = [t EXCEPT !.leaf = lf1]
  BY DEF Are
<1> HIDE DEF w, t1, lf1
<1>3. Are(t1, in, lf1, st)
  BY <1>2, Edits
<1>4. t2 = [t1 EXCEPT !.leaf = lf2]
  BY <1>3 DEF Are
<1> HIDE DEF t2, lf2
<1>5. Are(t2, in, lf2, st)
  BY <1>3, <1>4, Edits
<1>6. t3 = [t2 EXCEPT !.inner = in1]
  BY <1>5 DEF Are
<1> HIDE DEF t3, in1
<1>7. Are(t3, in1, lf2, st)
  BY <1>5, <1>6, Edits
<1> QED BY <1>1, <1>7 DEF w, in1

LEMMA InnerBorrowEdits ==
    ASSUME NEW t, NEW in, NEW lf, NEW st, Are(t, in, lf, st), NEW l, NEW r, NEW n, NEW s, NEW a, NEW b, NEW c
    PROVE  Are([t EXCEPT !.inner[l] = a, !.inner[r] = b, !.inner[n].keys[s] = c],
               [in EXCEPT ![l] = a, ![r] = b, ![n].keys[s] = c], lf, st)
<1> DEFINE t1 == [t EXCEPT !.inner[l] = a]
           t2 == [t1 EXCEPT !.inner[r] = b]
           t3 == [t2 EXCEPT !.inner[n].keys[s] = c]
           w == [t EXCEPT !.inner[l] = a, !.inner[r] = b, !.inner[n].keys[s] = c]
           in1 == [in EXCEPT ![l] = a]
           in2 == [in1 EXCEPT ![r] = b]
           in3 == [in2 EXCEPT ![n].keys[s] = c]
<1>1. w = t3 /\ in3 = [in EXCEPT ![l] = a, ![r] = b, ![n].keys[s] = c]
  OBVIOUS
<1>2. t1 = [t EXCEPT !.inner = in1]
  BY DEF Are
<1> HIDE DEF w, t1, in1
<1>3. Are(t1, in1, lf, st)
  BY <1>2, Edits
<1>4. t2 = [t1 EXCEPT !.inner = in2]
  BY <1>3 DEF Are
<1> HIDE DEF t2, in2
<1>5. Are(t2, in2, lf, st)
  BY <1>3, <1>4, Edits
<1>6. t3 = [t2 EXCEPT !.inner = in3]
  BY <1>5 DEF Are
<1> HIDE DEF t3, in3
<1>7. Are(t3, in3, lf, st)
  BY <1>5, <1>6, Edits
<1> QED BY <1>1, <1>7 DEF w

LEMMA LeafMergeEdits ==
    ASSUME NEW t, NEW in, NEW lf, NEW st, Are(t, in, lf, st), NEW l, NEW r, NEW a, NEW c, NEW in1
    PROVE  Are([t EXCEPT !.leaf = Closed([@ EXCEPT ![l] = a], r), !.rightmost = IF c = 0 THEN l ELSE @, !.inner = in1],
               in1, Closed([lf EXCEPT ![l] = a], r), st)
<1> DEFINE lf1 == Closed([t.leaf EXCEPT ![l] = a], r)
           t1 == [t EXCEPT !.leaf = lf1]
           x == IF c = 0 THEN l ELSE t1.rightmost
           t2 == [t1 EXCEPT !.rightmost = x]
           t3 == [t2 EXCEPT !.inner = in1]
           w == [t EXCEPT !.leaf = Closed([@ EXCEPT ![l] = a], r), !.rightmost = IF c = 0 THEN l ELSE @, !.inner = in1]
<1>1. w = t3
  OBVIOUS
<1>2. lf1 = Closed([lf EXCEPT ![l] = a], r)
  BY DEF Are
<1> HIDE DEF w, lf1
<1>3. Are(t1, in, lf1, st)
  BY Edits
<1> HIDE DEF t1
<1> HIDE DEF x
<1>4. Are(t2, in, lf1, st)
  BY <1>3, Edits
<1> HIDE DEF t2
<1>5. Are(t3, in1, lf1, st)
  BY <1>4, Edits
<1> HIDE DEF t3
<1> QED BY <1>1, <1>2, <1>5 DEF w

LEMMA Reseparated ==
    ASSUME NEW in, NEW n, NEW s, NEW c, NEW w, n \in DOMAIN in, w = [in EXCEPT ![n].keys[s] = c]
    PROVE  /\ DOMAIN w = DOMAIN in /\ IsMap(w) /\ w[n] = [in[n] EXCEPT !.keys[s] = c]
           /\ \A x \in DOMAIN in \ {n} : w[x] = in[x]
BY DEF IsMap

LeavesOK(lf) == \A n \in DOMAIN lf : LeafOK(lf[n])

(* The neighbour on the given side has a key to spare and lends it. *)
Lends(t, p, i, l, r, side) ==
    /\ side = 1 => p[i] = l /\ CountAt(t, r) > MINK
    /\ side # 1 => p[i] = r /\ CountAt(t, l) > MINK
    /\ ~(CountAt(t, p[i]) >= MINK)

Whole(t, in, lf, r, h) ==
    /\ DOMAIN t = Fields /\ DOMAIN t.inner = DOMAIN in /\ DOMAIN t.leaf = DOMAIN lf /\ LeavesOK(t.leaf)
    /\ Sized(t.inner, r) /\ Settled(t.inner, DOMAIN t.leaf, r, h)

LEMMA BorrowKeeps ==
    ASSUME NEW t, NEW in, NEW lf, NEW st, NEW h, NEW p, NEW i, NEW lv, NEW up, NEW s, NEW l, NEW r, NEW side,
           Are(t, in, lf, st), LeavesOK(lf), Poised(in, DOMAIN lf, h, p, i, lv, up, s, l, r),
           Lends(t, p, i, l, r, side)
    PROVE  Whole(Borrow(t, p[i - 1], s, side), in, lf, p[1], h)
<1> DEFINE n == p[i - 1]
           L == DOMAIN lf
           w == Borrow(t, n, s, side)
<1>0. Paired(in, L, h, p, i, lv, up, l, r)
  BY PoisedFacts
<1>1. t.inner = in /\ t.leaf = lf /\ DOMAIN t = Fields
  BY DEF Are
<1>2. /\ n \in DOMAIN in /\ Brothers(in, L, n, l, r, lv) /\ s \in Occupied(in[n]) /\ l = in[n].kids[s] /\ r = in[n].kids[s + 1]
      /\ Nearly(in, p[1], p[i]) /\ NodeOK(in[n])
  BY <1>0 DEF Paired, Poised
<1>3. CASE l \in L
  <2> DEFINE b == IF side = 1 THEN LeafBorrowFromRight(lf[l], lf[r]) ELSE LeafBorrowFromLeft(lf[l], lf[r])
             in3 == [in EXCEPT ![n].keys[s] = b.sep]
             lf3 == [lf EXCEPT ![l] = b.left, ![r] = b.right]
  <2>1. l \in L /\ r \in L /\ l # r
    BY <1>2, <1>3 DEF Brothers
  <2>2. LeafOK(b.left) /\ LeafOK(b.right) /\ b.sep \in Index
    <3>1. LeafOK(lf[l]) /\ LeafOK(lf[r])
      BY <2>1 DEF LeavesOK
    <3>2. Len(lf[l].keys) \in Nat /\ Len(lf[r].keys) \in Nat
      BY <3>1, Positions DEF LeafOK
    <3>3. CASE side = 1
      <4>1. Len(lf[r].keys) >= 2
        BY <1>1, <2>1, <3>2, <3>3, FanoutFacts DEF Lends, CountAt, KeyCount
      <4> QED BY <3>1, <3>3, <4>1, LeafBorrowFromRightOK
    <3>4. CASE side # 1
      <4>1. Len(lf[l].keys) > 0
        BY <1>1, <2>1, <3>2, <3>4, FanoutFacts DEF Lends, CountAt, KeyCount
      <4> QED BY <3>1, <3>4, <4>1, LeafBorrowFromLeftOK
    <3> QED BY <3>3, <3>4
  <2>3. w = [t EXCEPT !.leaf[l] = b.left, !.leaf[r] = b.right, !.inner[n].keys[s] = b.sep]
    BY <1>1, <1>2, <2>1 DEF Borrow
  <2> HIDE DEF b, w, n
  <2>4. Are(w, in3, lf3, st)
    BY <2>3, LeafBorrowEdits
  <2>5. DOMAIN lf3 = L /\ LeavesOK(lf3)
    BY <2>1, <2>2 DEF LeavesOK
  <2>6. /\ DOMAIN in3 = DOMAIN in /\ IsMap(in3) /\ in3[n] = [in[n] EXCEPT !.keys[s] = b.sep]
        /\ \A x \in DOMAIN in \ {n} : in3[x] = in[x]
    BY <1>2, Reseparated
  <2> HIDE DEF in3, lf3
  <2>7. Sized(in3, p[1]) /\ Settled(in3, L, p[1], h)
    BY <1>3, <2>2, <2>6, BorrowLeafKeeps DEF n
  <2> QED BY <2>4, <2>5, <2>6, <2>7 DEF Are, Whole, w, n
<1>4. CASE l \notin L
  <2> DEFINE sep == in[n].keys[s]
             b == IF side = 1 THEN InternalBorrowFromRight(in[l], in[r], sep)
                              ELSE InternalBorrowFromLeft(in[l], in[r], sep)
             in3 == [in EXCEPT ![l] = b.left, ![r] = b.right, ![n].keys[s] = b.sep]
  <2>1. /\ l \in DOMAIN in /\ r \in DOMAIN in /\ l # r /\ n # l /\ n # r /\ r \notin L /\ l \notin L
        /\ KidsOf(in, l) \cap KidsOf(in, r) = {}
    BY <1>2, <1>4 DEF Brothers
  <2>2. sep \in Index
    <3>1. in[n].keys \in Seq(Index) /\ s \in 1..Len(in[n].keys)
      BY <1>2 DEF NodeOK, Occupied
    <3> QED BY <3>1, Positions
  <2>3. w = [t EXCEPT !.inner[l] = b.left, !.inner[r] = b.right, !.inner[n].keys[s] = b.sep]
    BY <1>1, <1>2, <2>1 DEF Borrow
  <2>4. NodeOK(in[l]) /\ NodeOK(in[r])
    BY <1>2, <2>1 DEF Nearly
  <2>5. b = IF side = 1 THEN InternalBorrowFromRight(in[l], in[r], sep)
                        ELSE InternalBorrowFromLeft(in[l], in[r], sep)
    OBVIOUS
  <2> HIDE DEF b, w, n, sep
  <2>6. Are(w, in3, lf, st)
    BY <2>3, InnerBorrowEdits
  <2>7. /\ DOMAIN in3 = DOMAIN in /\ IsMap(in3) /\ in3[l] = b.left /\ in3[r] = b.right
        /\ in3[n] = [in[n] EXCEPT !.keys[s] = b.sep]
        /\ \A x \in DOMAIN in \ {l, r, n} : in3[x] = in[x]
    <3>1. in3 = [in EXCEPT ![l] = b.left, ![r] = b.right, ![n].keys[s] = b.sep]
      OBVIOUS
    <3> HIDE DEF in3
    <3>2. l # r /\ n # l /\ n # r /\ l \in DOMAIN in /\ r \in DOMAIN in /\ n \in DOMAIN in
      BY <1>2, <2>1
    <3> QED BY ONLY <3>1, <3>2 DEF IsMap
  <2> HIDE DEF in3
  <2>8. ~(KeyCount(in[p[i]]) >= MINK) /\ p[i] \in {l, r}
    BY <1>0, <1>1, <2>1 DEF Lends, CountAt, Paired
  <2>9. CASE side = 1
    <3>1. p[i] = l /\ KeyCount(in[r]) > MINK
      BY <1>1, <2>1, <2>9 DEF Lends, CountAt
    <3>2. b.sep \in Index /\ Lent(in, in3, r, l, in[r].kids[1])
      BY <2>1, <2>2, <2>4, <2>5, <2>7, <2>9, <3>1, LendRight
    <3>3. Sized(in3, p[1]) /\ Settled(in3, L, p[1], h)
      <4>1. /\ Poised(in, L, h, p, i, lv, up, s, l, r) /\ l \in DOMAIN in /\ IsMap(in3) /\ DOMAIN in3 = DOMAIN in
            /\ b.sep \in Index /\ in3[p[i - 1]] = [in[p[i - 1]] EXCEPT !.keys[s] = b.sep]
            /\ \A x \in DOMAIN in \ {l, r, p[i - 1]} : in3[x] = in[x]
            /\ Two(r, p[i], l, r) /\ KeyCount(in[r]) > MINK /\ ~(KeyCount(in[p[i]]) >= MINK)
        BY <2>1, <2>7, <2>8, <3>1, <3>2 DEF n, Two
      <4>2. PICK c : Lent(in, in3, r, p[i], c)
        BY <3>1, <3>2
      <4> QED BY ONLY <4>1, <4>2, BorrowInnerKeeps
    <3> QED BY <2>6, <2>7, <3>3 DEF Are, Whole, w, n
  <2>10. CASE side # 1
    <3>1. p[i] = r /\ KeyCount(in[l]) > MINK
      BY <1>1, <2>1, <2>10 DEF Lends, CountAt
    <3>2. b.sep \in Index /\ Lent(in, in3, l, r, in[l].kids[Len(in[l].kids)])
      BY <2>1, <2>2, <2>4, <2>5, <2>7, <2>10, <3>1, LendLeft
    <3>3. Sized(in3, p[1]) /\ Settled(in3, L, p[1], h)
      <4>1. /\ Poised(in, L, h, p, i, lv, up, s, l, r) /\ l \in DOMAIN in /\ IsMap(in3) /\ DOMAIN in3 = DOMAIN in
            /\ b.sep \in Index /\ in3[p[i - 1]] = [in[p[i - 1]] EXCEPT !.keys[s] = b.sep]
            /\ \A x \in DOMAIN in \ {l, r, p[i - 1]} : in3[x] = in[x]
            /\ Two(l, p[i], l, r) /\ KeyCount(in[l]) > MINK /\ ~(KeyCount(in[p[i]]) >= MINK)
        BY <2>1, <2>7, <2>8, <3>1, <3>2 DEF n, Two
      <4>2. PICK c : Lent(in, in3, l, p[i], c)
        BY <3>1, <3>2
      <4> QED BY ONLY <4>1, <4>2, BorrowInnerKeeps
    <3> QED BY <2>6, <2>7, <3>3 DEF Are, Whole, w, n
  <2> QED BY <2>9, <2>10
<1> QED BY <1>3, <1>4

LEMMA MergeKeeps ==
    ASSUME NEW t, NEW in, NEW lf, NEW st, NEW h, NEW p, NEW i, NEW lv, NEW up, NEW s, NEW l, NEW r,
           Are(t, in, lf, st), LeavesOK(lf), Poised(in, DOMAIN lf, h, p, i, lv, up, s, l, r),
           ~(CountAt(t, p[i]) >= MINK), \A m \in {l, r} : m # p[i] => ~(CountAt(t, m) > MINK),
           NEW w, w = Merge(t, p[i - 1], s)
    PROVE  /\ DOMAIN w = Fields /\ DOMAIN w.inner \subseteq DOMAIN in /\ DOMAIN w.leaf \subseteq DOMAIN lf
           /\ LeavesOK(w.leaf) /\ w.state = st
           /\ Nearly(w.inner, p[1], p[i - 1]) /\ Standing(w.inner, DOMAIN w.leaf, h, p, i - 1)
<1> DEFINE n == p[i - 1]
           L == DOMAIN lf
           shrunk == [in EXCEPT ![n] = InternalRemoveAt(in[n], s)]
<1>0. Paired(in, L, h, p, i, lv, up, l, r)
  BY PoisedFacts
<1>1. t.inner = in /\ t.leaf = lf /\ DOMAIN t = Fields /\ t.state = st
  BY DEF Are
<1>2. /\ n \in DOMAIN in /\ Brothers(in, L, n, l, r, lv) /\ s \in Occupied(in[n]) /\ l = in[n].kids[s] /\ r = in[n].kids[s + 1]
      /\ NodeOK(in[n]) /\ p[i] \in {l, r}
  BY <1>0 DEF Paired, Poised
<1>3. CASE l \in L
  <2> DEFINE merged == LeafMerge(lf[l], lf[r])
             lf3 == Closed([lf EXCEPT ![l] = merged], r)
  <2>1. l \in L /\ r \in L /\ l # r
    BY <1>2, <1>3 DEF Brothers
  <2>2. LeafOK(merged)
    BY <2>1, LeafMergeOK DEF LeavesOK
  <2>3. w = [t EXCEPT !.leaf = Closed([@ EXCEPT ![l] = merged], r),
                      !.rightmost = IF merged.next = 0 THEN l ELSE @, !.inner = shrunk]
    BY <1>1, <1>2, <2>1 DEF Merge
  <2> HIDE DEF merged, n
  <2>4. Nearly(shrunk, p[1], p[i - 1]) /\ Standing(shrunk, L \ {r}, h, p, i - 1)
    <3>1. shrunk = [in EXCEPT ![p[i - 1]] = InternalRemoveAt(in[p[i - 1]], s)]
      BY DEF n
    <3> HIDE DEF shrunk
    <3> QED BY <1>3, <3>1, MergeLeafKeeps
  <2> HIDE DEF shrunk
  <2>5. Are(w, shrunk, lf3, st)
    <3> DEFINE c == merged.next
    <3>1. Are([t EXCEPT !.leaf = Closed([@ EXCEPT ![l] = merged], r),
                        !.rightmost = IF c = 0 THEN l ELSE @, !.inner = shrunk],
              shrunk, Closed([lf EXCEPT ![l] = merged], r), st)
      <4> HIDE DEF c
      <4> QED BY LeafMergeEdits
    <3> QED BY <2>3, <3>1
  <2>6. DOMAIN lf3 = L \ {r} /\ LeavesOK(lf3)
    <3> DEFINE both == [lf EXCEPT ![l] = merged]
    <3>1. DOMAIN both = L /\ LeavesOK(both)
      BY <2>1, <2>2 DEF LeavesOK
    <3>2. lf3 = Closed(both, r)
      OBVIOUS
    <3> HIDE DEF both, lf3
    <3>3. DOMAIN Closed(both, r) = DOMAIN both \ {r} /\ \A x \in DOMAIN both \ {r} : Closed(both, r)[x] = both[x]
      BY ClosedFacts
    <3> QED BY <3>1, <3>2, <3>3 DEF LeavesOK
  <2> HIDE DEF lf3
  <2>7. DOMAIN shrunk = DOMAIN in
    BY DEF shrunk
  <2> QED BY <2>4, <2>5, <2>6, <2>7 DEF Are
<1>4. CASE l \notin L
  <2> DEFINE sep == in[n].keys[s]
             in3 == Closed([shrunk EXCEPT ![l] = InternalMergeRight(in[l], in[r], sep)], r)
  <2>1. l \in DOMAIN in /\ r \in DOMAIN in /\ l # r /\ r \notin L /\ l \notin L
    BY <1>2, <1>4 DEF Brothers
  <2>2. sep \in Index
    <3>1. in[n].keys \in Seq(Index) /\ s \in 1..Len(in[n].keys)
      BY <1>2 DEF NodeOK, Occupied
    <3> QED BY <3>1, Positions
  <2>3. w = [t EXCEPT !.inner = in3]
    BY <1>1, <1>2, <2>1 DEF Merge
  <2>4. ~(KeyCount(in[p[i]]) >= MINK) /\ \A m \in {l, r} : m # p[i] => ~(KeyCount(in[m]) > MINK)
    BY <1>1, <1>2, <2>1 DEF CountAt
  <2>5. DOMAIN in3 \subseteq DOMAIN in
    <3> DEFINE both == [shrunk EXCEPT ![l] = InternalMergeRight(in[l], in[r], sep)]
    <3>1. DOMAIN both = DOMAIN in
      OBVIOUS
    <3>2. in3 = Closed(both, r)
      OBVIOUS
    <3> HIDE DEF both, in3
    <3>3. DOMAIN Closed(both, r) = DOMAIN both \ {r}
      BY ClosedFacts
    <3> QED BY <3>1, <3>2, <3>3
  <2>6. Nearly(in3, p[1], p[i - 1]) /\ Standing(in3, L, h, p, i - 1)
    <3>1. /\ shrunk = [in EXCEPT ![p[i - 1]] = InternalRemoveAt(in[p[i - 1]], s)]
          /\ in3 = Closed([shrunk EXCEPT ![l] = InternalMergeRight(in[l], in[r], sep)], r)
      OBVIOUS
    <3> HIDE DEF shrunk, in3, sep
    <3> QED BY <2>1, <2>2, <2>4, <3>1, MergeInnerKeeps
  <2> HIDE DEF in3
  <2>7. Are(w, in3, lf, st)
    <3>1. Are([t EXCEPT !.inner = in3], in3, lf, st)
      BY Edits
    <3> QED BY <2>3, <3>1
  <2> QED BY <2>5, <2>6, <2>7 DEF Are
<1> QED BY <1>3, <1>4

(* Position j of the kids, its neighbours and the separators between.      *)
LEMMA PlaceOf ==
    ASSUME NEW node, NEW e, NodeOK(node), e \in ToSet(node.kids)
    PROVE  LET j == IndexOf(node.kids, e)
           IN  /\ node.kids[j] = e
               /\ j + 1 \in DOMAIN node.kids => j \in Occupied(node)
               /\ j - 1 \in DOMAIN node.kids => j - 1 \in Occupied(node) /\ (j - 1) + 1 = j
<1> DEFINE kids == node.kids
           j == IndexOf(kids, e)
<1>1. node.keys \in Seq(Index) /\ kids \in Seq(Index) /\ Len(kids) = Len(node.keys) + 1
  BY DEF NodeOK
<1>2. Len(node.keys) \in Nat /\ DOMAIN kids = 1..Len(node.keys) + 1
  BY <1>1, Positions
<1>3. \E x \in DOMAIN kids : kids[x] = e
  BY DEF ToSet
<1>4. j \in DOMAIN kids /\ kids[j] = e
  BY <1>3 DEF IndexOf
<1> HIDE DEF j, kids
<1>5. j \in 1..Len(node.keys) + 1
  BY <1>2, <1>4
<1>6. /\ j + 1 \in DOMAIN kids => j \in Occupied(node)
      /\ j - 1 \in DOMAIN kids => j - 1 \in Occupied(node) /\ (j - 1) + 1 = j
  BY <1>2, <1>5 DEF Occupied
<1> QED BY <1>4, <1>6 DEF j, kids

(* The loop's state before level i: refused; done, and the tree is whole;  *)
(* or still rising, with p[i] perhaps a key short.                         *)
Falling(t, i, p, I0, L0, h) ==
    /\ DOMAIN t = Fields /\ DOMAIN t.inner \subseteq I0 /\ DOMAIN t.leaf \subseteq L0 /\ LeavesOK(t.leaf)
    /\ \/ t.state = "refused"
       \/ t.state = "done" /\ Sized(t.inner, p[1]) /\ Settled(t.inner, DOMAIN t.leaf, p[1], h)
       \/ t.state = "rising" /\ Nearly(t.inner, p[1], p[i]) /\ Standing(t.inner, DOMAIN t.leaf, h, p, i)

LEMMA Finish ==
    ASSUME NEW t, NEW i, NEW p, NEW I0, NEW L0, NEW h, DOMAIN t = Fields, DOMAIN t.inner \subseteq I0,
           DOMAIN t.leaf \subseteq L0, LeavesOK(t.leaf),
           Sized(t.inner, p[1]), Settled(t.inner, DOMAIN t.leaf, p[1], h)
    PROVE  Falling([t EXCEPT !.state = "done"], i, p, I0, L0, h)
BY DEF Falling, Fields

LEMMA RebalanceStep ==
    ASSUME NEW t, NEW i, NEW p, NEW I0, NEW L0, NEW h, NEW sides, NEW sibs,
           Falling(t, i, p, I0, L0, h), i \in 2..h, h \in Nat
    PROVE  Falling(Rebalance(p, sides, sibs, i, t), i - 1, p, I0, L0, h)
<1> DEFINE in == t.inner
           lf == t.leaf
           n == p[i - 1]
           kids == in[n].kids
           our == IndexOf(kids, p[i])
           sib == IF sides[i] = 1 THEN our + 1 ELSE our - 1
           s == IF sides[i] = 1 THEN our ELSE sib
           w == Rebalance(p, sides, sibs, i, t)
<1>1. CASE t.state # "rising"
  <2>1. w = t
    BY <1>1 DEF Rebalance
  <2> QED BY <1>1, <2>1 DEF Falling
<1>2. CASE t.state = "rising"
  <2>1. /\ DOMAIN t = Fields /\ DOMAIN in \subseteq I0 /\ DOMAIN lf \subseteq L0 /\ LeavesOK(lf)
        /\ Nearly(in, p[1], p[i]) /\ Standing(in, DOMAIN lf, h, p, i)
    BY <1>2 DEF Falling
  <2>2. PICK lv, up : Forest(in, DOMAIN lf, {p[1]}, h, lv, up) /\ OnPath(in, DOMAIN lf, lv, h, p, i)
    BY <2>1 DEF Standing
  <2>3. n \in DOMAIN in /\ p[i] \in KidsOf(in, n) /\ NodeOK(in[n]) /\ DOMAIN in \cap DOMAIN lf = {}
    <3>1. Above(in, DOMAIN lf, lv, h, p, i)
      BY <2>2, ParentAbove
    <3> QED BY <2>1, <2>2, <3>1, ForestFacts DEF Above, Nearly
  <2>4. /\ kids[our] = p[i]
        /\ our + 1 \in DOMAIN kids => our \in Occupied(in[n])
        /\ our - 1 \in DOMAIN kids => our - 1 \in Occupied(in[n]) /\ (our - 1) + 1 = our
    <3> HIDE DEF n, in
    <3>1. NodeOK(in[n]) /\ p[i] \in ToSet(in[n].kids)
      BY <2>3 DEF KidsOf
    <3> QED BY <3>1, PlaceOf
  <2>5. w = IF CountAt(t, p[i]) >= MINK THEN [t EXCEPT !.state = "done"]
            ELSE IF sides[i] = 0 \/ sib \notin DOMAIN kids THEN [t EXCEPT !.state = "refused"]
            ELSE IF kids[sib] # sibs[i] THEN [t EXCEPT !.state = "refused"]
            ELSE IF CountAt(t, sibs[i]) > MINK THEN [Borrow(t, n, s, sides[i]) EXCEPT !.state = "done"]
            ELSE Merge(t, n, s)
    BY <1>2 DEF Rebalance
  <2>6. CASE CountAt(t, p[i]) >= MINK
    <3>1. p[i] \in DOMAIN in => KeyCount(in[p[i]]) >= MINK
      BY <2>3, <2>6 DEF CountAt
    <3>2. Sized(in, p[1])
      BY <2>1, <3>1, NearlySized
    <3>3. Settled(in, DOMAIN lf, p[1], h)
      <4>1. 1 \in 1..i /\ lv[p[1]] = h - 1 + 1
        BY <2>2 DEF OnPath
      <4> QED BY <2>2, <4>1 DEF Settled
    <3>4. Falling([t EXCEPT !.state = "done"], i - 1, p, I0, L0, h)
      BY <2>1, <3>2, <3>3, Finish
    <3> QED BY <2>5, <2>6, <3>4
  <2>7. CASE ~(CountAt(t, p[i]) >= MINK) /\ (sides[i] = 0 \/ sib \notin DOMAIN kids \/ kids[sib] # sibs[i])
    <3>1. w = [t EXCEPT !.state = "refused"]
      BY <2>5, <2>7
    <3> HIDE DEF w
    <3> QED BY <2>1, <3>1 DEF Falling, Fields, w
  <2>8. CASE ~(CountAt(t, p[i]) >= MINK) /\ ~(sides[i] = 0 \/ sib \notin DOMAIN kids \/ kids[sib] # sibs[i])
    <3> DEFINE l == kids[s]
               r == kids[s + 1]
    <3>1. s \in Occupied(in[n]) /\ (sides[i] = 1 => l = p[i] /\ r = sibs[i]) /\ (sides[i] # 1 => l = sibs[i] /\ r = p[i])
      BY <2>4, <2>8
    <3>2. l = in[n].kids[s] /\ r = in[n].kids[s + 1] /\ p[i] \in {l, r}
      BY <3>1
    <3>3. Poised(in, DOMAIN lf, h, p, i, lv, up, s, l, r)
      BY <2>1, <2>2, <3>1, <3>2 DEF Poised
    <3>4. Are(t, in, lf, "rising")
      BY <1>2, <2>1 DEF Are
    <3> HIDE DEF in, lf, kids, our, s, l, r, w, sib
    <3>5. CASE CountAt(t, sibs[i]) > MINK
      <4> DEFINE b == Borrow(t, n, s, sides[i])
      <4>1. w = [b EXCEPT !.state = "done"]
        BY <2>5, <2>8, <3>5
      <4>2. Lends(t, p, i, l, r, sides[i])
        BY <2>8, <3>1, <3>5 DEF Lends
      <4>3. Whole(b, in, lf, p[1], h)
        BY <2>1, <3>3, <3>4, <4>2, BorrowKeeps
      <4> HIDE DEF b
      <4>4. Falling([b EXCEPT !.state = "done"], i - 1, p, I0, L0, h)
        BY <2>1, <4>3, Finish DEF Whole
      <4> QED BY <4>1, <4>4 DEF w
    <3>6. CASE ~(CountAt(t, sibs[i]) > MINK)
      <4>1. w = Merge(t, n, s)
        BY <2>5, <2>8, <3>6
      <4>2. \A m \in {l, r} : m # p[i] => ~(CountAt(t, m) > MINK)
        BY <3>1, <3>6
      <4>3. /\ DOMAIN w = Fields /\ DOMAIN w.inner \subseteq DOMAIN in /\ DOMAIN w.leaf \subseteq DOMAIN lf
            /\ LeavesOK(w.leaf) /\ w.state = "rising"
            /\ Nearly(w.inner, p[1], p[i - 1]) /\ Standing(w.inner, DOMAIN w.leaf, h, p, i - 1)
        BY <2>1, <2>8, <3>3, <3>4, <4>1, <4>2, MergeKeeps
      <4>4. Falling(w, i - 1, p, I0, L0, h)
        BY <2>1, <4>3 DEF Falling
      <4> QED BY <4>4 DEF w
    <3> QED BY <3>5, <3>6
  <2> QED BY <2>6, <2>7, <2>8
<1> QED BY <1>1, <1>2

(* The cascade: what it starts from, and the states it passes through.     *)
Emptied(p, k) ==
    [inner |-> inner, leaf |-> [leaf EXCEPT ![p[height]] = LeafDelete(@, k)],
     rightmost |-> rightmost, state |-> "rising"]

Falls(s, p, sides, sibs, k) ==
    s = [i \in 2..height + 1 |->
            IF i = height + 1
            THEN [inner |-> inner, leaf |-> [leaf EXCEPT ![p[height]] = LeafDelete(@, k)],
                  rightmost |-> rightmost, state |-> "rising"]
            ELSE Rebalance(p, sides, sibs, i, s[i + 1])]

LEMMA CascadeRuns ==
    ASSUME NEW p, NEW sides, NEW sibs, NEW k, height \in Nat, height > 0
    PROVE  \E s : Falls(s, p, sides, sibs, k) /\ Cascade(p, sides, sibs, k) = s[2]
<1> DEFINE top == height + 1
           Step(s, i) == IF i = top THEN Emptied(p, k) ELSE Rebalance(p, sides, sibs, i, s[i + 1])
           Upto(s, d) == s = [i \in 2..top |-> s[i]] /\ \A i \in 2..top : i >= top - d => s[i] = Step(s, i)
           A == {d \in Nat : \E s : Upto(s, d)}
<1>0. top \in Nat /\ top = height + 1
  OBVIOUS
<1> HIDE DEF top
<1>1. 0 \in A
  <2> DEFINE s == [i \in 2..top |-> Emptied(p, k)]
  <2>1. s = [i \in 2..top |-> s[i]] /\ \A i \in 2..top : i >= top - 0 => i = top /\ s[i] = Emptied(p, k)
    BY <1>0
  <2> HIDE DEF s
  <2>2. Upto(s, 0)
    BY <2>1
  <2> QED BY <2>2
<1>2. ASSUME NEW d \in Nat, d \in A PROVE d + 1 \in A
  <2>1. PICK s : Upto(s, d)
    BY <1>2
  <2> DEFINE e == top - (d + 1)
             t == [i \in 2..top |-> IF i = e THEN Step(s, i) ELSE s[i]]
  <2>2. t = [i \in 2..top |-> t[i]] /\ \A i \in 2..top : t[i] = IF i = e THEN Step(s, i) ELSE s[i]
    OBVIOUS
  <2>3. e \in Int /\ e < top /\ \A i \in 2..top : i >= e <=> i = e \/ i >= top - d
    BY <1>0
  <2> HIDE DEF t, e
  <2>4. ASSUME NEW i \in 2..top, i >= e PROVE t[i] = Step(t, i)
    <3>1. i # top => i + 1 \in 2..top /\ i + 1 # e
      BY <1>0, <2>3, <2>4
    <3>2. i # top => t[i + 1] = s[i + 1]
      BY <2>2, <3>1
    <3>3. Step(t, i) = Step(s, i)
      BY <3>2
    <3>4. t[i] = Step(s, i)
      BY <2>1, <2>2, <2>3, <2>4
    <3> QED BY <3>3, <3>4
  <2>5. Upto(t, d + 1)
    BY <2>2, <2>4 DEF e
  <2> HIDE DEF Upto
  <2> QED BY <2>5
<1> HIDE DEF A
<1>3. top \in A
  BY <1>0, <1>1, <1>2, NatInductionOn
<1>4. PICK s : Upto(s, top)
  BY <1>3 DEF A
<1>5. Falls(s, p, sides, sibs, k)
  <2>1. \A i \in 2..top : s[i] = Step(s, i)
    <3>1. \A i \in 2..top : i >= top - top
      BY <1>0
    <3> HIDE DEF Step
    <3> QED BY <1>4, <3>1
  <2> QED BY <1>4, <2>1 DEF Falls, Emptied, top
<1> DEFINE c == CHOOSE c : Falls(c, p, sides, sibs, k)
<1>6. Falls(c, p, sides, sibs, k)
  BY <1>5
<1>7. Cascade(p, sides, sibs, k) = c[2]
  BY Zenon DEF Cascade, Falls
<1> QED BY <1>6, <1>7

LEMMA CascadeEnds ==
    ASSUME NEW p, NEW sides, NEW sibs, NEW k, NEW I0, NEW L0, height \in Nat, height > 0,
           Falling(Emptied(p, k), height, p, I0, L0, height)
    PROVE  Falling(Cascade(p, sides, sibs, k), 1, p, I0, L0, height)
<1>1. PICK s : Falls(s, p, sides, sibs, k) /\ Cascade(p, sides, sibs, k) = s[2]
  BY CascadeRuns
<1> DEFINE Good(i) == Falling(s[i + 1], i, p, I0, L0, height)
           A == {d \in Nat : d < height => Good(height - d)}
<1>2. s[height + 1] = Emptied(p, k) /\ \A i \in 2..height : s[i] = Rebalance(p, sides, sibs, i, s[i + 1])
  <2>1. s = [i \in 2..height + 1 |-> IF i = height + 1 THEN Emptied(p, k) ELSE Rebalance(p, sides, sibs, i, s[i + 1])]
    BY <1>1 DEF Falls, Emptied
  <2>2. height + 1 \in 2..height + 1 /\ \A i \in 2..height : i \in 2..height + 1 /\ i # height + 1
    OBVIOUS
  <2>3. \A i \in 2..height + 1 : s[i] = IF i = height + 1 THEN Emptied(p, k) ELSE Rebalance(p, sides, sibs, i, s[i + 1])
    BY <2>1
  <2> QED BY <2>2, <2>3
<1>3. 0 \in A
  BY <1>2
<1>4. ASSUME NEW d \in Nat, d \in A PROVE d + 1 \in A
  <2> SUFFICES ASSUME d + 1 < height PROVE Good(height - (d + 1))
    OBVIOUS
  <2> DEFINE i == height - d
  <2>1. i \in 2..height /\ height - (d + 1) = i - 1 /\ (i - 1) + 1 = i
    OBVIOUS
  <2>2. Falling(s[i + 1], i, p, I0, L0, height)
    BY <1>4, <2>1
  <2> HIDE DEF i
  <2>3. Falling(Rebalance(p, sides, sibs, i, s[i + 1]), i - 1, p, I0, L0, height)
    BY <2>1, <2>2, RebalanceStep
  <2>4. Good(i - 1)
    BY <1>2, <2>1, <2>3
  <2> QED BY <2>1, <2>4
<1> HIDE DEF A
<1>5. height - 1 \in A
  <2>1. height - 1 \in Nat
    OBVIOUS
  <2> QED BY <1>3, <1>4, <2>1, NatInductionOn
<1>6. height - 1 < height /\ height - (height - 1) = 1 /\ 1 + 1 = 2
  OBVIOUS
<1> QED BY <1>1, <1>5, <1>6 DEF A

---------------------------------------------------------------------------
(* Delete keeps the structure *)

(* A tree of one level is one leaf. *)
LEMMA LoneLeaf ==
    ASSUME NEW in, NEW L, NEW r, Settled(in, L, r, 1)
    PROVE  DOMAIN in = {} /\ L = {r}
<1>1. PICK lv, up : Forest(in, L, {r}, 1, lv, up)
  BY DEF Settled
<1>2. DOMAIN in = {}
  BY <1>1 DEF Forest, Levels
<1>3. r \in L /\ \A c \in L : c = r
  BY <1>1, <1>2 DEF Forest, NoOrphan, Accounts
<1> QED BY <1>2, <1>3

LEMMA NoKids ==
    ASSUME NEW nodes, IsMap(nodes), DOMAIN nodes = {}
    PROVE  nodes = NoNodes
BY DEF IsMap, NoNodes

(* A root without keys gives way to its only kid. *)
LEMMA Collapse ==
    ASSUME NEW in, NEW L, NEW r, NEW h, Nearly(in, r, r), Settled(in, L, r, h), h > 1, in[r].keys = <<>>,
           NEW c, c = in[r].kids[1], NEW in2, in2 = Closed(in, r)
    PROVE  Sized(in2, c) /\ Settled(in2, L, c, h - 1) /\ DOMAIN in2 \subseteq DOMAIN in
<1>1. PICK lv, up : Forest(in, L, {r}, h, lv, up) /\ lv[r] = h
  BY DEF Settled
<1>2. r \in DOMAIN in /\ h \in Nat
  <2>1. r \in DOMAIN in \cup L /\ h \in Nat
    BY <1>1, ForestFacts
  <2>2. r \notin L
    BY <1>1 DEF Forest, Levels
  <2> QED BY <2>1, <2>2
<1>3. KidsOf(in, r) = {c}
  <2>1. in[r].kids \in Seq(Index) /\ Len(in[r].kids) = Len(in[r].keys) + 1 /\ Len(in[r].keys) = 0
    BY <1>2 DEF Nearly, NodeOK
  <2>2. DOMAIN in[r].kids = 1..1
    BY <2>1, Positions
  <2> QED BY <2>2 DEF KidsOf, ToSet
<1>4. DOMAIN Closed(in, r) = DOMAIN in \ {r} /\ \A x \in DOMAIN in \ {r} : Closed(in, r)[x] = in[x]
  BY ClosedFacts
<1>5. DOMAIN in2 = DOMAIN in \ {r} /\ \A x \in DOMAIN in2 : in2[x] = in[x] /\ KidsOf(in2, x) = KidsOf(in, x)
  BY <1>4 DEF KidsOf
<1>6. Forest(in2, L, KidsOf(in, r), h - 1, lv, up) /\ \A x \in KidsOf(in, r) : lv[x] = h - 1
  <2>1. Without(in, in2, r)
    BY <1>5 DEF Without
  <2>2. Toppled(in, in2, L, r, h, lv, up)
    BY <1>1, <1>2, <2>1, Topple
  <2> QED BY <2>2 DEF Toppled
<1>7. Settled(in2, L, c, h - 1)
  BY <1>3, <1>6 DEF Settled
<1>8. IsMap(Closed(in, r))
  BY Maps
<1>9. Sized(in2, c)
  <2> SUFFICES ASSUME NEW x \in DOMAIN in2
               PROVE  NodeOK(in2[x]) /\ KeyCount(in2[x]) \in (IF x = c THEN 1 ELSE MINK)..F
    BY <1>8 DEF Sized
  <2>1. NodeOK(in2[x]) /\ KeyCount(in2[x]) \in MINK..F
    BY <1>5 DEF Nearly, Share
  <2> QED BY <2>1, FanoutFacts
<1> QED BY <1>5, <1>7, <1>9

LEMMA SizedNearly ==
    ASSUME NEW in, NEW r, NEW e, Sized(in, r)
    PROVE  Nearly(in, r, e)
<1> SUFFICES ASSUME NEW n \in DOMAIN in
             PROVE  NodeOK(in[n]) /\ KeyCount(in[n]) \in (IF n = e THEN Share(n, r) - 1 ELSE Share(n, r))..F
  BY DEF Sized, Nearly
<1>1. NodeOK(in[n]) /\ KeyCount(in[n]) \in Share(n, r)..F
  BY DEF Sized, Share
<1>2. Share(n, r) \in 1..MINK
  BY ShareFacts
<1> QED BY <1>1, <1>2, FanoutFacts

(* The cascade starts with a leaf that is one key short. *)
LEMMA EmptiedFalls ==
    ASSUME Structure, NEW p, NEW k, Descends(p, k), HasKey(leaf[p[height]], k)
    PROVE  Falling(Emptied(p, k), height, p, DOMAIN inner, DOMAIN leaf, height)
<1> DEFINE l == p[height]
<1>a. /\ highWater \in Nat /\ height \in Nat /\ DOMAIN inner \cup DOMAIN leaf \subseteq 1..highWater
      /\ Sized(inner, root) /\ LeavesOK(leaf)
  BY DEF Structure, LeavesOK
<1>b. Steps(p) /\ height > 0 /\ p[1] = root
  BY <1>a, DescentsStep DEF Descends
<1>c. PICK lv, up : Forest(inner, DOMAIN leaf, {root}, height, lv, up) /\ lv[root] = height
  BY <1>a, <1>b DEF Structure, Settled
<1>d. /\ PathLevels(p, lv, height) /\ \A i \in 1..height - 1 : p[i] \in DOMAIN inner /\ p[i + 1] \in KidsOf(inner, p[i])
      /\ l \in DOMAIN leaf
  BY <1>a, <1>b, <1>c, PathsGoDown
<1> DEFINE e == Emptied(p, k)
           lf1 == [leaf EXCEPT ![l] = LeafDelete(leaf[l], k)]
<1>1. LeafOK(LeafDelete(leaf[l], k))
  BY <1>a, <1>d, LeafDeleteOK DEF LeavesOK
<1>2. DOMAIN lf1 = DOMAIN leaf /\ LeavesOK(lf1)
  BY <1>a, <1>1 DEF LeavesOK
<1>3. e = [inner |-> inner, leaf |-> lf1, rightmost |-> rightmost, state |-> "rising"]
  BY DEF Emptied
<1> HIDE DEF e, lf1
<1>4. DOMAIN e = Fields /\ e.inner = inner /\ e.leaf = lf1 /\ e.state = "rising"
  BY <1>3 DEF Fields
<1>5. Nearly(inner, p[1], p[height])
  BY <1>a, <1>b, SizedNearly
<1>6. Standing(inner, DOMAIN leaf, height, p, height)
  <2>1. OnPath(inner, DOMAIN leaf, lv, height, p, height)
    <3>1. \A j \in 1..height : p[j] \in DOMAIN inner \cup DOMAIN leaf
      BY <1>a, <1>d
    <3> QED BY <1>d, <3>1 DEF OnPath, PathLevels
  <2> QED BY <1>b, <1>c, <2>1 DEF Standing
<1>7. Falling(e, height, p, DOMAIN inner, DOMAIN leaf, height)
  BY <1>2, <1>4, <1>5, <1>6 DEF Falling
<1> QED BY <1>7 DEF e

(* What a cascade that is not refused leaves. *)
LEMMA CascadeSettles ==
    ASSUME Structure, NEW p, NEW k, Descends(p, k), NEW t, t.state # "refused",
           Falling(t, 1, p, DOMAIN inner, DOMAIN leaf, height)
    PROVE  Nearly(t.inner, root, root) /\ Settled(t.inner, DOMAIN t.leaf, root, height)
<1> DEFINE in == t.inner
           L == DOMAIN t.leaf
<1>a. height \in Nat /\ p[1] = root
  BY DEF Structure, Descends
<1>1. CASE t.state = "done" /\ Sized(in, root) /\ Settled(in, L, root, height)
  BY <1>1, SizedNearly
<1>2. CASE t.state = "rising" /\ Nearly(in, root, root) /\ Standing(in, L, height, p, 1)
  <2>1. PICK lv1, up1 : Forest(in, L, {root}, height, lv1, up1) /\ OnPath(in, L, lv1, height, p, 1)
    BY <1>a, <1>2 DEF Standing
  <2>2. lv1[root] = height
    <3>1. 1 \in 1..1 /\ height - 1 + 1 = height
      BY <1>a
    <3> QED BY <1>a, <2>1, <3>1 DEF OnPath
  <2> QED BY <1>2, <2>1, <2>2 DEF Settled
<1> QED BY <1>a, <1>1, <1>2 DEF Falling

LEMMA DeleteKeeps ==
    ASSUME Structure, NEW p, NEW k, NEW sides, NEW sibs, Delete(p, k, sides, sibs)
    PROVE  Structure' /\ highWater' = highWater /\ DOMAIN inner' \subseteq DOMAIN inner /\ DOMAIN leaf' \subseteq DOMAIN leaf
<1> DEFINE l == p[height]
           t == Cascade(p, sides, sibs, k)
           in == t.inner
           lf == t.leaf
           L == DOMAIN lf
           collapses == height > 1 /\ in[root].keys = <<>>
           empties == height = 1 /\ KeyCount(lf[root]) = 0
<1>1. Descends(p, k) /\ HasKey(leaf[l], k)
  BY DEF Delete, LeafOf
<1>2. /\ highWater \in Nat /\ height \in Nat /\ DOMAIN inner \cup DOMAIN leaf \subseteq 1..highWater
      /\ Sized(inner, root) /\ LeavesOK(leaf)
  BY DEF Structure, LeavesOK
<1>3. Steps(p) /\ height > 0 /\ p[1] = root
  BY <1>1, <1>2, DescentsStep DEF Descends
<1>4. PICK lv, up : Forest(inner, DOMAIN leaf, {root}, height, lv, up) /\ lv[root] = height
  BY <1>2, <1>3 DEF Structure, Settled
<1>5. /\ PathLevels(p, lv, height) /\ \A i \in 1..height - 1 : p[i] \in DOMAIN inner /\ p[i + 1] \in KidsOf(inner, p[i])
      /\ l \in DOMAIN leaf
  BY <1>2, <1>3, <1>4, PathsGoDown
<1>6. Falling(Emptied(p, k), height, p, DOMAIN inner, DOMAIN leaf, height)
  BY <1>1, EmptiedFalls
<1>7. Falling(t, 1, p, DOMAIN inner, DOMAIN leaf, height)
  BY <1>2, <1>3, <1>6, CascadeEnds
<1>8. /\ t.state # "refused"
      /\ root' = IF collapses THEN in[root].kids[1] ELSE IF empties THEN 0 ELSE root
      /\ height' = IF collapses \/ empties THEN height - 1 ELSE height
      /\ inner' = IF collapses THEN Closed(in, root) ELSE in
      /\ leaf' = IF empties THEN Closed(lf, root) ELSE lf
      /\ highWater' = highWater
  BY DEF Delete
<1> HIDE DEF t
<1>9. DOMAIN in \subseteq DOMAIN inner /\ L \subseteq DOMAIN leaf /\ LeavesOK(lf)
  BY <1>7 DEF Falling
<1>10. Nearly(in, root, root) /\ Settled(in, L, root, height)
  BY <1>1, <1>7, <1>8, CascadeSettles
<1> HIDE DEF in, lf, L
<1>11. CASE collapses
  <2>1. /\ root' = in[root].kids[1] /\ height' = height - 1 /\ inner' = Closed(in, root) /\ leaf' = lf
        /\ height > 1 /\ in[root].keys = <<>>
    BY <1>8, <1>11
  <2>2. Sized(inner', root') /\ Settled(inner', L, root', height') /\ DOMAIN inner' \subseteq DOMAIN in
    BY <1>10, <2>1, Collapse
  <2>3. height' \in Nat /\ height' # 0 /\ DOMAIN leaf' = L
    BY <1>2, <2>1 DEF L, lf
  <2> QED BY <1>2, <1>8, <1>9, <2>1, <2>2, <2>3 DEF Structure, LeavesOK
<1>12. CASE empties
  <2>1. root' = 0 /\ height' = 0 /\ inner' = in /\ leaf' = Closed(lf, root) /\ height = 1
    BY <1>8, <1>12
  <2>2. DOMAIN in = {} /\ L = {root} /\ IsMap(in)
    BY <1>10, <2>1, LoneLeaf DEF Nearly
  <2>3. IsMap(Closed(lf, root)) /\ DOMAIN Closed(lf, root) = DOMAIN lf \ {root}
    BY Maps, ClosedFacts
  <2>4. DOMAIN leaf' = {} /\ IsMap(leaf')
    BY <2>1, <2>2, <2>3 DEF L
  <2>5. inner' = NoNodes /\ leaf' = NoNodes
    BY <2>1, <2>2, <2>4, NoKids
  <2>6. Sized(inner', root')
    BY <2>1, <2>2 DEF Sized
  <2> QED BY <1>2, <1>8, <2>1, <2>2, <2>4, <2>5, <2>6 DEF Structure
<1>13. CASE ~collapses /\ ~empties
  <2>1. root' = root /\ height' = height /\ inner' = in /\ leaf' = lf
    BY <1>8, <1>13
  <2>2. root \in DOMAIN in => KeyCount(in[root]) >= 1
    <3> SUFFICES ASSUME root \in DOMAIN in PROVE KeyCount(in[root]) >= 1
      OBVIOUS
    <3>1. height # 1
      BY <1>10, LoneLeaf
    <3>2. in[root].keys # <<>>
      BY <1>2, <1>3, <1>13, <3>1
    <3>3. in[root].keys \in Seq(Index)
      BY <1>10 DEF Nearly, NodeOK
    <3> QED BY <3>2, <3>3 DEF KeyCount
  <2>3. Sized(in, root)
    BY <1>10, <2>2 DEF Sized, Nearly, Share
  <2> QED BY <1>2, <1>3, <1>8, <1>9, <1>10, <2>1, <2>3 DEF Structure, LeavesOK, L
<1> QED BY <1>11, <1>12, <1>13

---------------------------------------------------------------------------
(* The instructions together *)

LEMMA BatchIsSeq ==
    ASSUME NEW ks, ks \in Batches
    PROVE  ks \in Seq(Index) /\ Len(ks) \in Nat /\ ks # <<>>
<1>1. ks \in BoundedSeq(Key, MaxBatch) /\ ks # <<>>
  BY DEF Batches
<1>2. PICK n \in 0..MaxBatch : ks \in [1..n -> Key]
  BY <1>1 DEF BoundedSeq, SeqOf
<1>3. ks \in Seq(Index) /\ Len(ks) \in Nat
  BY <1>2, KeyIsIndex
<1> QED BY <1>1, <1>3

LEMMA InitStructured ==
    ASSUME Init
    PROVE  Structure
<1>1. DOMAIN NoNodes = {} /\ IsMap(NoNodes)
  BY DEF NoNodes, IsMap
<1> QED BY <1>1 DEF Init, Structure, Sized

LEMMA NextKeeps ==
    ASSUME Structure, [Next]_vars
    PROVE  Structure' /\ Allocates
<1>1. CASE UNCHANGED vars
  BY <1>1 DEF vars, Structure, Allocates, Sized, IsMap, Settled, Forest, Accounts, Levels, NoDangling, NoOrphan, KidsOf
<1>2. ASSUME NEW k \in Key, NEW v, InsertFast(Path(k), k, v) \/ UpdateFast(Path(k), k, v) \/ DeleteFast(Path(k), k)
      PROVE  Structure' /\ Allocates
  BY <1>2, FastStepsKeep
<1>3. ASSUME NEW k \in Key, NEW v, NEW p, NEW from, NEW spares, Insert(p, k, v, from, spares)
      PROVE  Structure' /\ Allocates
  <2> k \in Index
    BY KeyIsIndex
  <2>1. CASE InsertFirst(k, v, from, spares)
    BY <2>1, InsertFirstKeeps
  <2>2. CASE InsertRoom(p, k, v)
    BY <2>2, FastStepsKeep
  <2>3. CASE InsertSplit(p, k, v, from, spares)
    <3>1. /\ Structure' /\ highWater' > highWater
          /\ (DOMAIN inner' \cup DOMAIN leaf') \ (DOMAIN inner \cup DOMAIN leaf) \subseteq highWater + 1..highWater'
      BY <2>3, InsertSplitKeeps
    <3> QED BY <3>1 DEF Allocates, Structure
  <2> QED BY <1>3, <2>1, <2>2, <2>3 DEF Insert
<1>4. ASSUME NEW p, NEW k, NEW sides, NEW sibs, Delete(p, k, sides, sibs)
      PROVE  Structure' /\ Allocates
  <2>1. Structure' /\ highWater' = highWater /\ DOMAIN inner' \subseteq DOMAIN inner /\ DOMAIN leaf' \subseteq DOMAIN leaf
    BY <1>4, DeleteKeeps
  <2> QED BY <2>1 DEF Allocates, Structure
<1>5. ASSUME NEW p, CompactLeaf(p)
      PROVE  Structure' /\ Allocates
  <2>1. Structure' /\ highWater' = highWater /\ DOMAIN inner' \subseteq DOMAIN inner /\ DOMAIN leaf' \subseteq DOMAIN leaf
    BY <1>5, CompactKeeps
  <2> QED BY <2>1 DEF Allocates, Structure
<1>6. ASSUME NEW ks, ks \in Batches, NEW p, NEW v, BulkInsertFast(p, ks, v)
      PROVE  Structure' /\ Allocates
  BY <1>6, BatchIsSeq, BulkKeeps
<1>7. ASSUME NEW ks, ks \in Batches, NEW v, NEW cut \in 1..Len(ks) - 1, NEW ps,
             MultiLeafInsertFast(ps, <<UpTo(ks, cut), From(ks, cut + 1)>>, v)
      PROVE  Structure' /\ Allocates
  <2>1. ks \in Seq(Index) /\ Len(ks) \in Nat
    BY <1>7, BatchIsSeq
  <2> DEFINE batches == <<UpTo(ks, cut), From(ks, cut + 1)>>
  <2>2. UpTo(ks, cut) \in Seq(Index) /\ From(ks, cut + 1) \in Seq(Index)
    <3>1. cut \in 0..Len(ks) /\ cut + 1 \in 1..Len(ks) + 1
      BY <2>1
    <3> QED BY <2>1, <3>1, UpToFacts, FromFacts
  <2>3. Len(batches) = 2 /\ \A b \in 1..Len(batches) : batches[b] \in Seq(Index)
    BY <2>2
  <2>4. MultiLeafInsertFast(ps, batches, v)
    BY <1>7
  <2> HIDE DEF batches
  <2> QED BY <2>3, <2>4, MultiKeeps
<1>8. CASE Next
  BY <1>2, <1>3, <1>4, <1>5, <1>6, <1>7, <1>8 DEF Next
<1> QED BY <1>1, <1>8

(* The account structure is an invariant: whatever instructions run, the   *)
(* node accounts form one tree of the header's height, hung from its root, *)
(* in which every account is well formed, no index lies above the          *)
(* allocator's mark, and every internal node has one kid more than keys    *)
(* and its share of them, MINK to F, or 1 to F in the root.                *)
THEOREM AccountsFormATree == Spec => []Structure
<1>1. Init => Structure
  BY InitStructured
<1>2. Structure /\ [Next]_vars => Structure'
  BY NextKeeps
<1> QED BY <1>1, <1>2, PTL DEF Spec

(* No account index is used twice, so a path resolved long ago never names *)
(* a different node than the one it was read as.                           *)
THEOREM IndicesStayFresh == Spec => IndicesNeverReused
<1>1. Structure /\ [Next]_vars => [/\ highWater' >= highWater
       /\ (DOMAIN inner' \cup DOMAIN leaf') \ (DOMAIN inner \cup DOMAIN leaf)
             \subseteq highWater + 1..highWater']_vars
  BY NextKeeps DEF Allocates
<1> QED BY <1>1, AccountsFormATree, PTL DEF Spec, IndicesNeverReused

---------------------------------------------------------------------------
(* No orphan and no dangling child *)

Live == DOMAIN inner \cup DOMAIN leaf
AtDepth(lv, j) == {n \in Live : lv[n] = height - j + 1}
Below(s, j) == IF j = 1 THEN {root} ELSE UNION {Range(inner[n].kids) : n \in s[j - 1]}
DepthRun(s, i) == s = [j \in 1..i |-> IF j = 1 THEN {root} ELSE UNION {Range(inner[n].kids) : n \in s[j - 1]}]

(* The nodes of one level are the kids of those of the level above. *)
LEMMA LevelBelow ==
    ASSUME NEW lv, NEW up, Forest(inner, DOMAIN leaf, {root}, height, lv, up), lv[root] = height, height # 0,
           NEW j, j \in 1..height
    PROVE  AtDepth(lv, j) = IF j = 1 THEN {root} ELSE UNION {Range(inner[n].kids) : n \in AtDepth(lv, j - 1)}
<1>1. \A n \in Live : lv[n] \in Nat /\ (n \in DOMAIN inner <=> lv[n] >= 2)
  BY ForestFacts DEF Forest, Levels, Live
<1>2. height \in Nat /\ root \in Live /\ \A n \in DOMAIN inner : lv[n] <= height
  <2>1. Levels(inner, DOMAIN leaf, height, lv)
    BY DEF Forest
  <2>2. root \in Live
    BY ForestFacts DEF Live
  <2> QED BY <2>1, <2>2 DEF Levels
<1>3. \A n \in DOMAIN inner : \A c \in KidsOf(inner, n) : c \in Live /\ lv[n] = lv[c] + 1
  BY ForestFacts DEF Live
<1>4. \A c \in Live \ {root} : up[c] \in DOMAIN inner /\ c \in KidsOf(inner, up[c])
  BY DEF Forest, NoOrphan, Live
<1>5. \A n : Range(inner[n].kids) = KidsOf(inner, n)
  BY DEF Range, KidsOf, ToSet
<1> HIDE DEF Live
<1>6. CASE j = 1
  <2>1. ASSUME NEW c \in Live, lv[c] = height PROVE c = root
    <3> SUFFICES ASSUME c # root PROVE FALSE
      OBVIOUS
    <3>1. up[c] \in DOMAIN inner /\ lv[up[c]] = lv[c] + 1
      BY <1>3, <1>4
    <3> QED BY <1>1, <1>2, <2>1, <3>1
  <2>2. height - 1 + 1 = height
    BY <1>2
  <2>3. AtDepth(lv, 1) = {root}
    BY <1>2, <2>1, <2>2 DEF AtDepth
  <2> QED BY <1>6, <2>3
<1>7. CASE j # 1
  <2>1. j - 1 \in 1..height /\ height - j + 1 \in Nat /\ height - (j - 1) + 1 = height - j + 2 /\ height - j + 2 >= 2
    BY <1>2, <1>7
  <2>2. ASSUME NEW c, c \in AtDepth(lv, j) PROVE \E n \in AtDepth(lv, j - 1) : c \in KidsOf(inner, n)
    <3>1. c \in Live /\ lv[c] = height - j + 1
      BY <2>2 DEF AtDepth
    <3>2. c # root
      BY <1>2, <1>7, <3>1
    <3>3. up[c] \in DOMAIN inner /\ c \in KidsOf(inner, up[c]) /\ lv[up[c]] = lv[c] + 1
      BY <1>3, <1>4, <3>1, <3>2
    <3>4. lv[up[c]] = height - (j - 1) + 1
      BY <1>2, <3>1, <3>3
    <3>5. up[c] \in AtDepth(lv, j - 1)
      BY <3>3, <3>4 DEF AtDepth, Live
    <3> QED BY <3>3, <3>5
  <2>3. ASSUME NEW n, n \in AtDepth(lv, j - 1), NEW c, c \in KidsOf(inner, n) PROVE c \in AtDepth(lv, j)
    <3>1. n \in Live /\ lv[n] = height - j + 2
      BY <2>1, <2>3 DEF AtDepth
    <3>2. n \in DOMAIN inner
      BY <1>1, <2>1, <3>1
    <3>3. c \in Live /\ lv[n] = lv[c] + 1 /\ lv[c] \in Nat
      BY <1>1, <1>3, <2>3, <3>2
    <3>4. lv[c] = height - j + 1
      BY <1>2, <3>1, <3>3
    <3> QED BY <3>3, <3>4 DEF AtDepth
  <2>4. AtDepth(lv, j) = UNION {KidsOf(inner, n) : n \in AtDepth(lv, j - 1)}
    BY Zenon, <2>2, <2>3
  <2>5. {KidsOf(inner, n) : n \in AtDepth(lv, j - 1)} = {Range(inner[n].kids) : n \in AtDepth(lv, j - 1)}
    BY <1>5
  <2> QED BY <1>7, <2>4, <2>5
<1> QED BY <1>6, <1>7

(* Depth, which walks down from the root, finds the levels.                *)
LEMMA DepthIsLevel ==
    ASSUME NEW lv, NEW up, Forest(inner, DOMAIN leaf, {root}, height, lv, up), lv[root] = height, height # 0,
           NEW i, i \in 1..height
    PROVE  Depth(i) = AtDepth(lv, i)
<1> DEFINE w == [j \in 1..i |-> AtDepth(lv, j)]
           s == CHOOSE s : DepthRun(s, i)
           A == {d \in Nat : d < i => s[d + 1] = AtDepth(lv, d + 1)}
<1>1. height \in Nat /\ i \in Nat
  BY ForestFacts
<1>2. DepthRun(w, i)
  <2>1. w = [j \in 1..i |-> w[j]] /\ \A j \in 1..i : w[j] = AtDepth(lv, j)
    OBVIOUS
  <2> HIDE DEF w
  <2>2. ASSUME NEW j \in 1..i
        PROVE  w[j] = IF j = 1 THEN {root} ELSE UNION {Range(inner[n].kids) : n \in w[j - 1]}
    <3>1. j \in 1..height /\ (j # 1 => j - 1 \in 1..i)
      BY <1>1
    <3>2. AtDepth(lv, j) = IF j = 1 THEN {root} ELSE UNION {Range(inner[n].kids) : n \in AtDepth(lv, j - 1)}
      BY <3>1, LevelBelow
    <3>3. j # 1 => w[j - 1] = AtDepth(lv, j - 1)
      BY <2>1, <3>1
    <3> QED BY <2>1, <3>2, <3>3
  <2>3. w = [j \in 1..i |-> IF j = 1 THEN {root} ELSE UNION {Range(inner[n].kids) : n \in w[j - 1]}]
    BY <2>1, <2>2
  <2> QED BY <2>3 DEF DepthRun
<1>3. DepthRun(s, i)
  BY <1>2
<1>4. Depth(i) = s[i]
  BY Zenon DEF Depth, DepthRun
<1> HIDE DEF s, w
<1>5. \A j \in 1..i : s[j] = IF j = 1 THEN {root} ELSE UNION {Range(inner[n].kids) : n \in s[j - 1]}
  BY <1>3 DEF DepthRun
<1>6. 0 \in A
  <2>1. 1 \in 1..height /\ 1 \in 1..i
    BY <1>1
  <2>2. AtDepth(lv, 1) = {root}
    BY <2>1, LevelBelow
  <2>3. s[1] = {root}
    BY <1>5, <2>1
  <2> QED BY <2>2, <2>3
<1>7. ASSUME NEW d \in Nat, d \in A PROVE d + 1 \in A
  <2> SUFFICES ASSUME d + 1 < i PROVE s[(d + 1) + 1] = AtDepth(lv, (d + 1) + 1)
    OBVIOUS
  <2> DEFINE j == (d + 1) + 1
  <2>1. j \in 1..i /\ j \in 1..height /\ j # 1 /\ j - 1 = d + 1
    BY <1>1
  <2>2. s[j - 1] = AtDepth(lv, j - 1)
    BY <1>1, <1>7, <2>1
  <2> HIDE DEF j, A
  <2>3. AtDepth(lv, j) = UNION {Range(inner[n].kids) : n \in AtDepth(lv, j - 1)}
    BY <2>1, LevelBelow
  <2>4. s[j] = UNION {Range(inner[n].kids) : n \in s[j - 1]}
    BY <1>5, <2>1
  <2>5. s[j] = AtDepth(lv, j)
    BY <2>2, <2>3, <2>4
  <2> QED BY <2>5 DEF j
<1> HIDE DEF A
<1>8. i - 1 \in A
  <2>1. i - 1 \in Nat
    BY <1>1
  <2> QED BY <1>6, <1>7, <2>1, NatInductionOn
<1>9. (i - 1) + 1 = i /\ i - 1 < i
  BY <1>1
<1> QED BY <1>4, <1>8, <1>9 DEF A

LEMMA StructureHangsTogether ==
    ASSUME Structure
    PROVE  NoOrphanNoDangling
<1>1. CASE height = 0
  BY <1>1 DEF Structure, NoOrphanNoDangling
<1>2. CASE height # 0
  <2>1. PICK lv, up : Forest(inner, DOMAIN leaf, {root}, height, lv, up) /\ lv[root] = height
    BY <1>2 DEF Structure, Settled
  <2>2. height \in Nat /\ (\A n \in DOMAIN inner : lv[n] \in 2..height) /\ (\A n \in DOMAIN leaf : lv[n] = 1)
    BY <2>1 DEF Forest, Levels
  <2>3. \A i \in 1..height : Depth(i) = AtDepth(lv, i)
    BY <1>2, <2>1, DepthIsLevel
  <2>4. DOMAIN inner \cap DOMAIN leaf = {}
    BY <2>1, ForestFacts
  <2>5. UNION {Depth(i) : i \in 1..height - 1} = DOMAIN inner
    <3>1. ASSUME NEW i \in 1..height - 1, NEW n, n \in Depth(i) PROVE n \in DOMAIN inner
      <4>1. i \in 1..height /\ height - i + 1 >= 2
        BY <2>2
      <4>2. n \in Live /\ lv[n] = height - i + 1
        BY <2>3, <3>1, <4>1 DEF AtDepth
      <4> QED BY <2>2, <4>1, <4>2 DEF Live
    <3>2. ASSUME NEW n \in DOMAIN inner PROVE \E i \in 1..height - 1 : n \in Depth(i)
      <4> DEFINE i == height - lv[n] + 1
      <4>1. i \in 1..height - 1 /\ i \in 1..height /\ height - i + 1 = lv[n]
        BY <2>2
      <4> HIDE DEF i
      <4>2. n \in AtDepth(lv, i)
        BY <4>1 DEF AtDepth, Live
      <4> QED BY <2>3, <4>1, <4>2
    <3> QED BY Zenon, <3>1, <3>2
  <2>6. Depth(height) = DOMAIN leaf
    <3>1. height \in 1..height /\ height - height + 1 = 1
      BY <1>2, <2>2
    <3>2. \A n \in Live : lv[n] = 1 <=> n \in DOMAIN leaf
      BY <2>2 DEF Live
    <3>3. Depth(height) = {n \in Live : lv[n] = 1}
      BY <2>3, <3>1 DEF AtDepth
    <3>4. DOMAIN leaf \subseteq Live
      BY DEF Live
    <3> QED BY <3>2, <3>3, <3>4
  <2>7. ASSUME NEW m \in DOMAIN inner, NEW n \in DOMAIN inner,
               NEW i \in DOMAIN inner[m].kids, NEW j \in DOMAIN inner[n].kids
        PROVE  /\ inner[m].kids[i] # root
               /\ inner[m].kids[i] = inner[n].kids[j] => m = n /\ i = j
    <3>1. inner[m].kids[i] \in KidsOf(inner, m) /\ inner[n].kids[j] \in KidsOf(inner, n)
      BY DEF KidsOf, ToSet
    <3>2. inner[m].kids[i] # root /\ up[inner[m].kids[i]] = m /\ up[inner[n].kids[j]] = n
      BY <2>1, <3>1, ForestFacts
    <3>3. IsInjective(inner[m].kids)
      BY DEF Structure, Sized, NodeOK
    <3> QED BY <3>2, <3>3 DEF IsInjective
  <2> QED BY <1>2, <2>4, <2>5, <2>6, <2>7 DEF NoOrphanNoDangling
<1> QED BY <1>1, <1>2

(* Splits, merges, collapses and compaction leave neither an orphan nor a  *)
(* dangling child, on trees of any size and fanout.                        *)
THEOREM NoOrphanNoDanglingEver == Spec => []NoOrphanNoDangling
<1>1. Structure => NoOrphanNoDangling
  BY StructureHangsTogether
<1> QED BY <1>1, AccountsFormATree, PTL
=============================================================================
