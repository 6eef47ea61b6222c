-------------------------- MODULE TornaSearchProofs --------------------------
(***************************************************************************)
(* Proofs about TornaTree: the tree is a search tree.                      *)
(*                                                                         *)
(* The argument carries one witness: rt[n], the keys a descent brings to   *)
(* node n, which are all keys at the root.  A node's separators part its   *)
(* keys among its kids, none of which is left without.                     *)
(***************************************************************************)
EXTENDS TornaTreeProofs

(* sep stands between the keys of A and those of B. *)
Parts(A, B, sep) ==
    /\ A # {} /\ B # {}
    /\ \A a \in A : a < sep
    /\ \A b \in B : sep <= b

(* The internal node routes the keys of S: each reaches some kid, and a    *)
(* separator stands between the keys that neighbouring kids see.           *)
Routes(node, S, seen) ==
    /\ \A k : k \in S <=> \E c \in ToSet(node.kids) : k \in seen[c]
    /\ \A i \in 1..Len(node.keys) : Parts(seen[node.kids[i]], seen[node.kids[i + 1]], node.keys[i])

LEMMA NodeLists ==
    ASSUME NEW n, NodeOK(n)
    PROVE  /\ n.keys \in Seq(Nat) /\ n.kids \in Seq(Nat) /\ Len(n.keys) \in Nat /\ Len(n.kids) = Len(n.keys) + 1
           /\ DOMAIN n.keys = 1..Len(n.keys) /\ DOMAIN n.kids = 1..Len(n.keys) + 1
           /\ \A i \in 1..Len(n.keys) : n.keys[i] \in Nat
           /\ \A i \in 1..Len(n.keys) + 1 : n.kids[i] \in Nat
           /\ \A i, j \in 1..Len(n.keys) + 1 : n.kids[i] = n.kids[j] => i = j
<1>1. n.keys \in Seq(Nat) /\ n.kids \in Seq(Nat) /\ Len(n.kids) = Len(n.keys) + 1 /\ IsInjective(n.kids)
  BY DEF NodeOK, Index
<1>2. /\ Len(n.keys) \in Nat /\ DOMAIN n.keys = 1..Len(n.keys) /\ \A i \in 1..Len(n.keys) : n.keys[i] \in Nat
      /\ DOMAIN n.kids = 1..Len(n.kids) /\ \A i \in 1..Len(n.kids) : n.kids[i] \in Nat
  BY <1>1, Positions
<1> QED BY <1>1, <1>2 DEF IsInjective

(* The position at which a new separator is inserted. *)
LEMMA LowerBoundIsGap ==
    ASSUME NEW ks, ks \in Seq(Nat), Ascending(ks), NEW k, k \in Nat, NEW j, j \in 1..Len(ks) + 1,
           j = 1 \/ ks[j - 1] < k, j = Len(ks) + 1 \/ k <= ks[j]
    PROVE  LowerBound(ks, k) = j
<1> DEFINE i == LowerBound(ks, k)
<1>1. i \in 1..Len(ks) + 1 /\ \A x \in 1..Len(ks) : ks[x] < k <=> x < i
  BY LowerBoundCuts
<1>2. Len(ks) \in Nat /\ \A x \in 1..Len(ks) : ks[x] \in Nat
  BY Positions
<1> HIDE DEF i
<1>3. CASE i < j
  <2>1. j - 1 \in 1..Len(ks) /\ j # 1 /\ ~(j - 1 < i)
    BY <1>1, <1>2, <1>3
  <2> QED BY <1>1, <1>2, <2>1
<1>4. CASE j < i
  <2>1. j \in 1..Len(ks) /\ j # Len(ks) + 1
    BY <1>1, <1>2, <1>4
  <2> QED BY <1>1, <1>2, <1>4, <2>1
<1>5. i = j
  BY <1>1, <1>2, <1>3, <1>4
<1> QED BY <1>5 DEF i

(* Each separator stands between all kids before it and all after it. *)
Bounded(n, seen) ==
    \A i \in 1..Len(n.keys) :
        /\ \A x \in 1..i : \A k \in seen[n.kids[x]] : k < n.keys[i]
        /\ \A x \in i + 1..Len(n.keys) + 1 : \A k \in seen[n.kids[x]] : n.keys[i] <= k

LEMMA RoutesIn ==
    ASSUME NEW n, NodeOK(n), NEW S, S \subseteq Nat, NEW seen, Routes(n, S, seen)
    PROVE  \A x \in 1..Len(n.keys) + 1 : seen[n.kids[x]] \subseteq S /\ seen[n.kids[x]] \subseteq Nat
<1>1. \A x \in 1..Len(n.keys) + 1 : n.kids[x] \in ToSet(n.kids)
  BY NodeLists DEF ToSet
<1> QED BY <1>1 DEF Routes

LEMMA RoutesBounded ==
    ASSUME NEW n, NodeOK(n), NEW S, S \subseteq Nat, NEW seen, Routes(n, S, seen)
    PROVE  Ascending(n.keys) /\ Bounded(n, seen)
<1> DEFINE ks == n.keys
           N == Len(n.keys)
<1>1. /\ ks \in Seq(Nat) /\ N \in Nat /\ \A i \in 1..N : ks[i] \in Nat
  BY NodeLists
<1>2. \A x \in 1..N + 1 : seen[n.kids[x]] \subseteq Nat
  BY RoutesIn
<1>3. \A i \in 1..N : Parts(seen[n.kids[i]], seen[n.kids[i + 1]], ks[i])
  BY DEF Routes
<1> HIDE DEF ks, N
<1>4. ASSUME NEW i \in 1..N - 1 PROVE ks[i] < ks[i + 1]
  <2>1. i \in 1..N /\ i + 1 \in 1..N /\ i + 1 \in 1..N + 1
    BY <1>1
  <2>2. PICK k \in seen[n.kids[i + 1]] : TRUE
    BY <1>3, <2>1 DEF Parts
  <2>3. ks[i] <= k /\ k < ks[i + 1]
    BY <1>3, <2>1, <2>2 DEF Parts
  <2> QED BY <1>1, <1>2, <2>1, <2>2, <2>3
<1>5. Ascending(ks)
  BY <1>4 DEF Ascending, N, ks
<1>6. \A j \in 1..N : \A i \in 1..j - 1 : ks[i] < ks[j]
  BY <1>1, <1>5, AscendingPairs DEF N, ks
<1>7. ASSUME NEW i \in 1..N, NEW x \in 1..i, NEW k \in seen[n.kids[x]] PROVE k < ks[i]
  <2>1. x \in 1..N /\ x \in 1..N + 1
    BY <1>1
  <2>2. k < ks[x] /\ k \in Nat
    BY <1>2, <1>3, <2>1 DEF Parts
  <2>3. x = i \/ ks[x] < ks[i]
    <3>1. x = i \/ x \in 1..i - 1
      BY <1>1
    <3> QED BY <1>6, <3>1
  <2> QED BY <1>1, <2>1, <2>2, <2>3
<1>8. ASSUME NEW i \in 1..N, NEW x \in i + 1..N + 1, NEW k \in seen[n.kids[x]] PROVE ks[i] <= k
  <2>1. x - 1 \in 1..N /\ (x - 1) + 1 = x /\ x \in 1..N + 1 /\ (x - 1 = i \/ i \in 1..(x - 1) - 1)
    BY <1>1
  <2>2. ks[x - 1] <= k /\ k \in Nat
    BY <1>2, <1>3, <2>1 DEF Parts
  <2>3. x - 1 = i \/ ks[i] < ks[x - 1]
    BY <1>6, <2>1
  <2> QED BY <1>1, <2>1, <2>2, <2>3
<1> QED BY <1>5, <1>7, <1>8 DEF Bounded, N, ks

(* A key is seen by one kid. *)
LEMMA Apart ==
    ASSUME NEW n, NodeOK(n), NEW S, S \subseteq Nat, NEW seen, Routes(n, S, seen),
           NEW c, c \in ToSet(n.kids), NEW d, d \in ToSet(n.kids), NEW k, k \in seen[c], k \in seen[d]
    PROVE  c = d
<1>1. Bounded(n, seen) /\ \A x \in 1..Len(n.keys) + 1 : seen[n.kids[x]] \subseteq Nat
  BY RoutesBounded, RoutesIn
<1>2. Len(n.keys) \in Nat /\ DOMAIN n.kids = 1..Len(n.keys) + 1 /\ \A i \in 1..Len(n.keys) : n.keys[i] \in Nat
  BY NodeLists
<1>3. PICK x \in 1..Len(n.keys) + 1 : n.kids[x] = c
  BY <1>2 DEF ToSet
<1>4. PICK y \in 1..Len(n.keys) + 1 : n.kids[y] = d
  BY <1>2 DEF ToSet
<1>5. ASSUME NEW a \in 1..Len(n.keys) + 1, NEW b \in 1..Len(n.keys) + 1, a < b, k \in seen[n.kids[a]], k \in seen[n.kids[b]]
      PROVE  FALSE
  <2>1. a \in 1..Len(n.keys) /\ a \in 1..a /\ b \in a + 1..Len(n.keys) + 1
    BY <1>2, <1>5
  <2>2. k < n.keys[a] /\ n.keys[a] <= k /\ k \in Nat /\ n.keys[a] \in Nat
    BY <1>1, <1>2, <1>5, <2>1 DEF Bounded
  <2> QED BY <2>2
<1>6. ~(x < y) /\ ~(y < x)
  BY <1>3, <1>4, <1>5
<1>7. x = y
  BY <1>2, <1>6
<1> QED BY <1>3, <1>4, <1>7

(* A kid that sees two keys sees the keys of S between them. *)
LEMMA Convex ==
    ASSUME NEW n, NodeOK(n), NEW S, S \subseteq Nat, NEW seen, Routes(n, S, seen),
           NEW c, c \in ToSet(n.kids), NEW a, a \in seen[c], NEW b, b \in seen[c], NEW k, k \in S, a <= k, k <= b
    PROVE  k \in seen[c]
<1>1. Bounded(n, seen) /\ \A x \in 1..Len(n.keys) + 1 : seen[n.kids[x]] \subseteq Nat
  BY RoutesBounded, RoutesIn
<1>2. Len(n.keys) \in Nat /\ DOMAIN n.kids = 1..Len(n.keys) + 1 /\ \A i \in 1..Len(n.keys) : n.keys[i] \in Nat
  BY NodeLists
<1>3. PICK x \in 1..Len(n.keys) + 1 : n.kids[x] = c
  BY <1>2 DEF ToSet
<1>4. PICK y \in 1..Len(n.keys) + 1 : k \in seen[n.kids[y]]
  BY <1>2 DEF ToSet, Routes
<1>5. a \in Nat /\ b \in Nat /\ k \in Nat
  BY <1>1, <1>3, <1>4
<1>6. ASSUME x < y PROVE FALSE
  <2>1. x \in 1..Len(n.keys) /\ x \in 1..x /\ y \in x + 1..Len(n.keys) + 1
    BY <1>2, <1>6
  <2>2. b < n.keys[x] /\ n.keys[x] <= k /\ n.keys[x] \in Nat
    BY <1>1, <1>2, <1>3, <1>4, <2>1 DEF Bounded
  <2> QED BY <1>5, <2>2
<1>7. ASSUME y < x PROVE FALSE
  <2>1. y \in 1..Len(n.keys) /\ y \in 1..y /\ x \in y + 1..Len(n.keys) + 1
    BY <1>2, <1>7
  <2>2. k < n.keys[y] /\ n.keys[y] <= a /\ n.keys[y] \in Nat
    BY <1>1, <1>2, <1>3, <1>4, <2>1 DEF Bounded
  <2> QED BY <1>5, <2>2
<1>8. x = y
  BY <1>2, <1>6, <1>7
<1> QED BY <1>3, <1>4, <1>8

(* A descent goes to the kid that sees the key. *)
LEMMA GoesTo ==
    ASSUME NEW n, NodeOK(n), NEW S, S \subseteq Nat, NEW seen, Routes(n, S, seen), NEW k, k \in S
    PROVE  k \in seen[ChildFor(n, k)]
<1> DEFINE ks == n.keys
           N == Len(n.keys)
           i == LowerBound(ks, k)
<1>1. ks \in Seq(Nat) /\ N \in Nat /\ DOMAIN n.kids = 1..N + 1 /\ k \in Nat /\ \A x \in 1..N : ks[x] \in Nat
  BY NodeLists
<1>2. Ascending(ks) /\ Bounded(n, seen)
  BY RoutesBounded
<1>3. i \in 1..N + 1 /\ \A x \in 1..N : ks[x] < k <=> x < i
  BY <1>1, <1>2, LowerBoundCuts
<1>4. HasKey(n, k) <=> i <= N /\ ks[i] = k
  BY DEF HasKey, KeyCount
<1>5. ChildFor(n, k) = IF HasKey(n, k) THEN n.kids[i + 1] ELSE n.kids[i]
  BY DEF ChildFor
<1>6. PICK y \in 1..N + 1 : k \in seen[n.kids[y]]
  BY <1>1 DEF ToSet, Routes
<1>7. \A x \in 1..N : (y <= x => k < ks[x]) /\ (x < y => ks[x] <= k)
  <2> SUFFICES ASSUME NEW x \in 1..N PROVE (y <= x => k < ks[x]) /\ (x < y => ks[x] <= k)
    OBVIOUS
  <2>1. y <= x => y \in 1..x
    BY <1>1
  <2>2. x < y => y \in x + 1..N + 1
    BY <1>1
  <2> QED BY <1>2, <1>6, <2>1, <2>2 DEF Bounded
<1> HIDE DEF ks, N, i
<1>8. CASE HasKey(n, k)
  <2>1. i \in 1..N /\ ks[i] = k
    BY <1>1, <1>3, <1>4, <1>8
  <2>2. i < y
    BY <1>1, <1>7, <2>1
  <2>3. ASSUME i + 1 < y PROVE FALSE
    <3>1. i + 1 \in 1..N /\ ~(i + 1 < i) /\ i \in 1..N - 1
      BY <1>1, <1>3, <2>1, <2>3
    <3>2. ks[i] < ks[i + 1]
      BY <1>2, <3>1 DEF Ascending, ks, N
    <3> QED BY <1>1, <1>7, <2>1, <2>3, <3>1, <3>2
  <2>4. y = i + 1
    BY <1>1, <2>1, <2>2, <2>3
  <2> QED BY <1>5, <1>6, <1>8, <2>4
<1>9. CASE ~HasKey(n, k)
  <2>1. ASSUME y < i PROVE FALSE
    <3>1. y \in 1..N
      BY <1>1, <1>3, <2>1
    <3>2. ks[y] < k
      BY <1>3, <2>1, <3>1
    <3>3. y <= y /\ k < ks[y]
      BY <1>1, <1>7, <3>1
    <3> QED BY <1>1, <3>1, <3>2, <3>3
  <2>2. ASSUME i < y PROVE FALSE
    <3>1. i \in 1..N
      BY <1>1, <1>3, <2>2
    <3>2. ks[i] <= k /\ ~(ks[i] < k)
      BY <1>1, <1>3, <1>7, <2>2, <3>1
    <3>3. ks[i] = k
      BY <1>1, <3>1, <3>2
    <3> QED BY <1>1, <1>4, <1>9, <3>1, <3>3
  <2>3. y = i
    BY <1>1, <1>3, <2>1, <2>2
  <2> QED BY <1>5, <1>6, <1>9, <2>3
<1> QED BY <1>8, <1>9

---------------------------------------------------------------------------
(* A parent's separators *)

LEMMA PartsLess ==
    ASSUME NEW A, NEW B, NEW sep, Parts(A, B, sep), NEW A2, NEW B2, A2 \subseteq A, B2 \subseteq B, A2 # {}, B2 # {}
    PROVE  Parts(A2, B2, sep)
BY DEF Parts

(* Two separators in a row. *)
LEMMA PartsJoin ==
    ASSUME NEW A, NEW B, NEW C, NEW d, NEW e, A \subseteq Nat, B \subseteq Nat, C \subseteq Nat, d \in Nat, e \in Nat,
           Parts(A, B, d), Parts(B, C, e)
    PROVE  Parts(A \cup B, C, e) /\ Parts(A, B \cup C, d)
<1>1. PICK b \in B : d <= b /\ b < e
  BY DEF Parts
<1>2. d < e
  BY <1>1
<1>3. \A a \in A : a < e
  BY <1>2 DEF Parts
<1>4. \A c \in C : d <= c
  BY <1>2 DEF Parts
<1>5. Parts(A \cup B, C, e)
  BY <1>3 DEF Parts
<1>6. Parts(A, B \cup C, d)
  BY <1>4 DEF Parts
<1> QED BY <1>5, <1>6

InsertedAt(u, s, i, e) ==
    /\ Len(u) = Len(s) + 1
    /\ \A j \in 1..Len(s) + 1 : u[j] = IF j < i THEN s[j] ELSE IF j = i THEN e ELSE s[j - 1]

LEMMA Inserts ==
    ASSUME NEW s, s \in Seq(Index), NEW i, i \in 1..Len(s) + 1, NEW e, e \in Index
    PROVE  InsertedAt(InsertAt(s, i, e), s, i, e)
BY InsertAtFacts DEF InsertedAt

(* The separator of c and the new node q is hung on the parent of c, whose *)
(* keys they share.                                                        *)
LEMMA HungRoutes ==
    ASSUME NEW n, NodeOK(n), NEW S, S \subseteq Nat, NEW seen, Routes(n, S, seen),
           NEW c, c \in ToSet(n.kids), NEW q, q \in Nat, q \notin ToSet(n.kids), NEW sep, sep \in Nat,
           NEW rt, Parts(rt[c], rt[q], sep), rt[c] \cup rt[q] = seen[c],
           \A d \in ToSet(n.kids) : d # c => rt[d] = seen[d],
           NEW node, node = InternalInsertAt(n, LowerBound(n.keys, sep), sep, q)
    PROVE  Routes(node, S, rt)
<1> DEFINE ks == n.keys
           kids == n.kids
           N == Len(n.keys)
           ks2 == node.keys
           kids2 == node.kids
<1>1. /\ ks \in Seq(Nat) /\ kids \in Seq(Nat) /\ N \in Nat /\ Len(kids) = N + 1 /\ DOMAIN kids = 1..N + 1
      /\ \A i \in 1..N : ks[i] \in Nat
      /\ \A i, j \in 1..N + 1 : kids[i] = kids[j] => i = j
  BY NodeLists
<1>2. PICK j \in 1..N + 1 : c = kids[j]
  BY <1>1 DEF ToSet
<1>3. Ascending(ks) /\ Bounded(n, seen) /\ \A x \in 1..N + 1 : seen[kids[x]] \subseteq Nat
  BY RoutesBounded, RoutesIn
<1>4. PICK a \in rt[c], b \in rt[q] : a < sep /\ sep <= b /\ a \in seen[c] /\ b \in seen[c] /\ a \in Nat /\ b \in Nat
  BY <1>2, <1>3 DEF Parts
<1>5. j = 1 \/ ks[j - 1] < sep
  <2> SUFFICES ASSUME j # 1 PROVE ks[j - 1] < sep
    OBVIOUS
  <2>1. j - 1 \in 1..N /\ j \in (j - 1) + 1..N + 1
    BY <1>1, <1>2
  <2>2. ks[j - 1] <= a /\ ks[j - 1] \in Nat
    BY <1>1, <1>2, <1>3, <1>4, <2>1 DEF Bounded
  <2>3. a \in Nat /\ a < sep
    BY <1>4
  <2> HIDE DEF ks
  <2> QED BY <2>2, <2>3
<1>6. j = N + 1 \/ sep <= ks[j]
  <2> SUFFICES ASSUME j # N + 1 PROVE sep <= ks[j]
    OBVIOUS
  <2>1. j \in 1..N /\ j \in 1..j
    BY <1>1, <1>2
  <2>2. b < ks[j] /\ ks[j] \in Nat
    BY <1>1, <1>2, <1>3, <1>4, <2>1 DEF Bounded
  <2>3. b \in Nat /\ sep <= b
    BY <1>4
  <2> HIDE DEF ks
  <2> QED BY <2>2, <2>3
<1>7. LowerBound(ks, sep) = j
  BY <1>1, <1>2, <1>3, <1>5, <1>6, LowerBoundIsGap
<1>8. ks2 = InsertAt(ks, j, sep) /\ kids2 = InsertAt(kids, j + 1, q)
  BY <1>7 DEF InternalInsertAt
<1>len. Len(ks) = N
  OBVIOUS
<1> HIDE DEF ks2, kids2, ks, N, kids
<1>9. /\ Len(ks2) = N + 1
      /\ \A x \in 1..N + 1 : ks2[x] = IF x < j THEN ks[x] ELSE IF x = j THEN sep ELSE ks[x - 1]
  <2>1. ks \in Seq(Index) /\ j \in 1..Len(ks) + 1 /\ sep \in Index
    BY <1>1, <1>len DEF Index
  <2>2. InsertedAt(ks2, ks, j, sep)
    BY <1>8, <2>1, Inserts
  <2> QED BY <1>len, <2>2 DEF InsertedAt
<1>10. j + 1 \in 1..Len(kids) + 1 /\ Len(kids) + 1 = N + 2
  BY <1>1, <1>2
<1>11. \A x \in 1..N + 2 : kids2[x] = IF x < j + 1 THEN kids[x] ELSE IF x = j + 1 THEN q ELSE kids[x - 1]
  <2>1. \A x \in 1..Len(kids) + 1 : kids2[x] = IF x < j + 1 THEN kids[x] ELSE IF x = j + 1 THEN q ELSE kids[x - 1]
    <3> DEFINE w == j + 1
    <3>1. kids \in Seq(Index) /\ w \in 1..Len(kids) + 1 /\ q \in Index
      BY <1>1, <1>10 DEF Index
    <3>2. kids2 = InsertAt(kids, w, q)
      BY <1>8
    <3> HIDE DEF w
    <3>3. InsertedAt(kids2, kids, w, q)
      BY <3>1, <3>2, Inserts
    <3> QED BY <3>3 DEF InsertedAt, w
  <2> QED BY <1>10, <2>1
<1>12. ToSet(kids2) = ToSet(kids) \cup {q}
  <2>1. IsInjective(kids) /\ kids \in Seq(Index) /\ j + 1 \in 1..Len(kids) + 1 /\ q \in Index /\ q \notin ToSet(kids)
    BY <1>1, <1>10 DEF NodeOK, Index, kids
  <2> QED BY <1>8, <2>1, InsertAtHolds
<1>13. \A i \in 1..N : Parts(seen[kids[i]], seen[kids[i + 1]], ks[i])
  BY DEF Routes, ks, N, kids
<1>14. \A x \in 1..N + 1 : rt[kids[x]] \subseteq seen[kids[x]] /\ (x # j => rt[kids[x]] = seen[kids[x]]) /\ kids[x] \in ToSet(kids)
  <2> SUFFICES ASSUME NEW x \in 1..N + 1
               PROVE  rt[kids[x]] \subseteq seen[kids[x]] /\ (x # j => rt[kids[x]] = seen[kids[x]]) /\ kids[x] \in ToSet(kids)
    OBVIOUS
  <2>1. kids[x] \in ToSet(kids) /\ (kids[x] = c => x = j) /\ (x = j => kids[x] = c)
    BY <1>1, <1>2 DEF ToSet
  <2> QED BY <2>1 DEF kids
<1>15. rt[c] # {} /\ rt[q] # {} /\ rt[q] \subseteq seen[c]
  BY DEF Parts
<1>16. ASSUME NEW i \in 1..N + 1 PROVE Parts(rt[kids2[i]], rt[kids2[i + 1]], ks2[i])
  <2>1. CASE i < j
    <3>1. i \in 1..N /\ i + 1 \in 1..N + 1 /\ i \in 1..N + 2 /\ i + 1 \in 1..N + 2 /\ i < j + 1 /\ i + 1 < j + 1 /\ i # j
      BY <1>1, <1>2, <2>1
    <3>2. kids2[i] = kids[i] /\ kids2[i + 1] = kids[i + 1] /\ ks2[i] = ks[i]
      BY <1>9, <1>11, <2>1, <3>1
    <3>3. Parts(seen[kids[i]], seen[kids[i + 1]], ks[i])
      BY <1>13, <3>1
    <3>4. rt[kids[i]] = seen[kids[i]] /\ rt[kids[i + 1]] \subseteq seen[kids[i + 1]]
      BY <1>14, <3>1
    <3>5. rt[kids[i + 1]] # {}
      BY <1>2, <1>14, <1>15, <3>1, <3>3 DEF Parts
    <3>6. Parts(rt[kids[i]], rt[kids[i + 1]], ks[i])
      BY <3>3, <3>4, <3>5 DEF Parts
    <3> QED BY <3>2, <3>6
  <2>2. CASE i = j
    <3>1. i \in 1..N + 2 /\ i + 1 \in 1..N + 2 /\ i < j + 1 /\ i + 1 = j + 1 /\ ~(i < j)
      BY <1>1, <1>2, <2>2
    <3>2. kids2[i] = c /\ kids2[i + 1] = q /\ ks2[i] = sep
      BY <1>2, <1>9, <1>11, <2>2, <3>1
    <3> QED BY <3>2
  <2>3. CASE i = j + 1
    <3>1. /\ i \in 1..N + 2 /\ i + 1 \in 1..N + 2 /\ ~(i < j + 1) /\ ~(i + 1 < j + 1) /\ i + 1 # j + 1 /\ ~(i < j) /\ i # j
          /\ i - 1 = j /\ (i + 1) - 1 = j + 1 /\ j \in 1..N /\ j + 1 \in 1..N + 1 /\ j + 1 # j
      BY <1>1, <1>2, <2>3
    <3>2. kids2[i] = q /\ kids2[i + 1] = kids[j + 1] /\ ks2[i] = ks[j]
      BY <1>9, <1>11, <2>3, <3>1
    <3>3. Parts(seen[c], seen[kids[j + 1]], ks[j])
      BY <1>2, <1>13, <3>1
    <3>4. rt[kids[j + 1]] = seen[kids[j + 1]]
      BY <1>14, <3>1
    <3>5. Parts(rt[q], rt[kids[j + 1]], ks[j])
      BY <1>15, <3>3, <3>4 DEF Parts
    <3> QED BY <3>2, <3>5
  <2>4. CASE i > j + 1
    <3>1. /\ i \in 1..N + 2 /\ i + 1 \in 1..N + 2 /\ ~(i < j + 1) /\ ~(i + 1 < j + 1) /\ i + 1 # j + 1 /\ i # j + 1 /\ ~(i < j) /\ i # j
          /\ i - 1 \in 1..N /\ i - 1 \in 1..N + 1 /\ (i + 1) - 1 = i /\ (i - 1) + 1 = i /\ i - 1 # j
      BY <1>1, <1>2, <2>4
    <3>2. kids2[i] = kids[i - 1] /\ kids2[i + 1] = kids[i] /\ ks2[i] = ks[i - 1]
      BY <1>9, <1>11, <3>1
    <3>3. Parts(seen[kids[i - 1]], seen[kids[i]], ks[i - 1])
      BY <1>13, <3>1
    <3>4. rt[kids[i - 1]] = seen[kids[i - 1]] /\ rt[kids[i]] = seen[kids[i]]
      BY <1>14, <3>1
    <3> QED BY <3>2, <3>3, <3>4
  <2>5. i < j \/ i = j \/ i = j + 1 \/ i > j + 1
    BY <1>1, <1>2
  <2> QED BY <2>1, <2>2, <2>3, <2>4, <2>5
<1>17. ASSUME NEW k PROVE k \in S <=> \E d \in ToSet(kids2) : k \in rt[d]
  <2>1. k \in S <=> \E d \in ToSet(kids) : k \in seen[d]
    BY DEF Routes, kids
  <2>2. c \in ToSet(kids) /\ \A d \in ToSet(kids) : d # c => rt[d] = seen[d]
    BY DEF kids
  <2> QED BY <1>12, <2>1, <2>2
<1> QED BY <1>9, <1>16, <1>17 DEF Routes, ks2, kids2

(* The separator of two kids moves, and keys move between the two. *)
LEMMA ResepRoutes ==
    ASSUME NEW n, NodeOK(n), NEW S, S \subseteq Nat, NEW seen, Routes(n, S, seen),
           NEW s, s \in Occupied(n), NEW sep, sep \in Nat, NEW l, l = n.kids[s], NEW r, r = n.kids[s + 1],
           NEW rt, Parts(rt[l], rt[r], sep), rt[l] \cup rt[r] = seen[l] \cup seen[r],
           \A d \in ToSet(n.kids) : d \notin {l, r} => rt[d] = seen[d],
           NEW m, m = [n EXCEPT !.keys[s] = sep]
    PROVE  Routes(m, S, rt)
<1> DEFINE ks == n.keys
           kids == n.kids
           N == Len(n.keys)
<1>1. /\ ks \in Seq(Nat) /\ N \in Nat /\ DOMAIN kids = 1..N + 1 /\ DOMAIN ks = 1..N
      /\ \A i \in 1..N : ks[i] \in Nat
      /\ \A i, j \in 1..N + 1 : kids[i] = kids[j] => i = j
  BY NodeLists
<1>2. s \in 1..N /\ s \in 1..N + 1 /\ s + 1 \in 1..N + 1
  BY <1>1 DEF Occupied
<1>3. m.kids = kids /\ m.keys = [ks EXCEPT ![s] = sep]
  BY DEF NodeOK
<1>4. Len(m.keys) = N /\ m.keys[s] = sep /\ \A i \in 1..N : i # s => m.keys[i] = ks[i]
  <2>1. m.keys \in Seq(Nat) /\ DOMAIN m.keys = 1..N
    BY <1>1, <1>2, <1>3
  <2> QED BY <1>1, <1>2, <1>3, <2>1
<1>5. /\ \A i \in 1..N : Parts(seen[kids[i]], seen[kids[i + 1]], ks[i])
      /\ \A k : k \in S <=> \E c \in ToSet(kids) : k \in seen[c]
  BY DEF Routes
<1>6. Bounded(n, seen) /\ \A x \in 1..N + 1 : seen[kids[x]] \subseteq Nat
  BY RoutesBounded, RoutesIn
<1>7. \A x \in 1..N + 1 : kids[x] \in ToSet(kids) /\ (x \notin {s, s + 1} => rt[kids[x]] = seen[kids[x]])
  <2> SUFFICES ASSUME NEW x \in 1..N + 1
               PROVE  kids[x] \in ToSet(kids) /\ (x \notin {s, s + 1} => rt[kids[x]] = seen[kids[x]])
    OBVIOUS
  <2>1. kids[x] \in ToSet(kids) /\ (x \notin {s, s + 1} => kids[x] \notin {l, r})
    BY <1>1, <1>2 DEF ToSet
  <2> QED BY <2>1
<1>8. l = kids[s] /\ r = kids[s + 1]
  OBVIOUS
<1>9. rt[l] # {} /\ rt[r] # {}
  BY DEF Parts
<1>10. \A k : k \in S <=> \E c \in ToSet(kids) : k \in rt[c]
  <2>1. l \in ToSet(kids) /\ r \in ToSet(kids) /\ \A d \in ToSet(kids) : d \notin {l, r} => rt[d] = seen[d]
    BY <1>2, <1>7
  <2> SUFFICES ASSUME NEW k PROVE k \in S <=> \E c \in ToSet(kids) : k \in rt[c]
    OBVIOUS
  <2>2. k \in rt[l] \/ k \in rt[r] <=> k \in seen[l] \/ k \in seen[r]
    OBVIOUS
  <2>3. (\E c \in ToSet(kids) : k \in rt[c]) <=> (\E c \in ToSet(kids) : k \in seen[c])
    BY <2>1, <2>2
  <2> QED BY <1>5, <2>3
<1> HIDE DEF ks, kids, N
<1>11. ASSUME NEW i \in 1..N PROVE Parts(rt[kids[i]], rt[kids[i + 1]], m.keys[i])
  <2>1. CASE i = s
    BY <1>4, <1>8, <2>1
  <2>2. CASE i + 1 = s
    <3>1. i # s /\ i \in 1..N + 1 /\ i \notin {s, s + 1} /\ i + 1 # s + 1 /\ i \in 1..i
      BY <1>1, <1>2, <2>2
    <3>2. m.keys[i] = ks[i] /\ rt[kids[i]] = seen[kids[i]] /\ kids[i + 1] = l
      BY <1>4, <1>7, <1>8, <2>2, <3>1
    <3>3. s \in i + 1..N + 1 /\ s + 1 \in i + 1..N + 1
      BY <1>1, <1>2, <2>2
    <3>4. \A k \in seen[l] \cup seen[r] : ks[i] <= k
      BY <1>6, <1>8, <3>3 DEF Bounded, N, ks, kids
    <3>5. Parts(seen[kids[i]], seen[kids[i + 1]], ks[i])
      BY <1>5
    <3> QED BY <1>9, <3>2, <3>4, <3>5 DEF Parts
  <2>3. CASE i = s + 1
    <3>1. i # s /\ i + 1 \in 1..N + 1 /\ i + 1 \notin {s, s + 1}
      BY <1>1, <1>2, <2>3
    <3>2. m.keys[i] = ks[i] /\ rt[kids[i + 1]] = seen[kids[i + 1]] /\ kids[i] = r
      BY <1>4, <1>7, <1>8, <2>3, <3>1
    <3>3. s \in 1..i /\ s + 1 \in 1..i
      BY <1>1, <1>2, <2>3
    <3>4. \A k \in seen[l] \cup seen[r] : k < ks[i]
      BY <1>6, <1>8, <3>3 DEF Bounded, N, ks, kids
    <3>5. Parts(seen[kids[i]], seen[kids[i + 1]], ks[i])
      BY <1>5
    <3> QED BY <1>9, <3>2, <3>4, <3>5 DEF Parts
  <2>4. CASE i # s /\ i + 1 # s /\ i # s + 1
    <3>1. i \in 1..N + 1 /\ i + 1 \in 1..N + 1 /\ i \notin {s, s + 1} /\ i + 1 \notin {s, s + 1}
      BY <1>1, <1>2, <2>4
    <3>2. m.keys[i] = ks[i] /\ rt[kids[i]] = seen[kids[i]] /\ rt[kids[i + 1]] = seen[kids[i + 1]]
      BY <1>4, <1>7, <2>4, <3>1
    <3> QED BY <1>5, <3>2
  <2> QED BY <2>1, <2>2, <2>3, <2>4
<1> QED BY <1>3, <1>4, <1>10, <1>11 DEF Routes

LEMMA Removes ==
    ASSUME NEW s, s \in Seq(Index), NEW i, i \in 1..Len(s)
    PROVE  /\ Len(RemoveAt(s, i)) = Len(s) - 1
           /\ \A j \in 1..Len(s) - 1 : RemoveAt(s, i)[j] = IF j < i THEN s[j] ELSE s[j + 1]
BY RemoveAtFacts

(* The right one of two neighbours goes, and the left one gets its keys.   *)
LEMMA DroppedRoutes ==
    ASSUME NEW n, NodeOK(n), NEW S, S \subseteq Nat, NEW seen, Routes(n, S, seen),
           NEW s, s \in Occupied(n), NEW l, l = n.kids[s], NEW r, r = n.kids[s + 1],
           NEW rt, rt[l] = seen[l] \cup seen[r],
           \A d \in ToSet(n.kids) : d \notin {l, r} => rt[d] = seen[d]
    PROVE  Routes(InternalRemoveAt(n, s), S, rt)
<1> DEFINE ks == n.keys
           kids == n.kids
           N == Len(n.keys)
           m == InternalRemoveAt(n, s)
           ks2 == m.keys
           kids2 == m.kids
           w == s + 1
<1>1. /\ ks \in Seq(Index) /\ kids \in Seq(Index) /\ N \in Nat /\ DOMAIN kids = 1..N + 1 /\ Len(ks) = N /\ Len(kids) = N + 1
      /\ \A i \in 1..N : ks[i] \in Nat
      /\ \A i, j \in 1..N + 1 : kids[i] = kids[j] => i = j
  BY NodeLists DEF Index
<1>2. s \in 1..N /\ s \in 1..N + 1 /\ w \in 1..N + 1
  BY <1>1 DEF Occupied
<1>3. ks2 = RemoveAt(ks, s) /\ kids2 = RemoveAt(kids, w)
  BY DEF InternalRemoveAt
<1>4. Routes(n, S, seen) /\ Bounded(n, seen) /\ \A x \in 1..N + 1 : seen[kids[x]] \subseteq Nat
  BY RoutesBounded, RoutesIn
<1>5. ToSet(kids2) = ToSet(kids) \ {r}
  BY RemovedOK
<1>6. l = kids[s] /\ r = kids[w]
  OBVIOUS
<1> HIDE DEF ks2, kids2, ks, N, kids, m, w
<1>7. Len(ks2) = N - 1 /\ \A x \in 1..N - 1 : ks2[x] = IF x < s THEN ks[x] ELSE ks[x + 1]
  <2>1. ks \in Seq(Index) /\ s \in 1..Len(ks)
    BY <1>1, <1>2
  <2>2. /\ Len(RemoveAt(ks, s)) = Len(ks) - 1
        /\ \A j \in 1..Len(ks) - 1 : RemoveAt(ks, s)[j] = IF j < s THEN ks[j] ELSE ks[j + 1]
    BY ONLY <2>1, Removes
  <2> QED BY <1>1, <1>3, <2>2
<1>8. \A x \in 1..N : kids2[x] = IF x < w THEN kids[x] ELSE kids[x + 1]
  <2>1. kids \in Seq(Index) /\ w \in 1..Len(kids)
    BY <1>1, <1>2
  <2>2. /\ Len(RemoveAt(kids, w)) = Len(kids) - 1
        /\ \A j \in 1..Len(kids) - 1 : RemoveAt(kids, w)[j] = IF j < w THEN kids[j] ELSE kids[j + 1]
    BY ONLY <2>1, Removes
  <2>3. Len(kids) - 1 = N
    BY <1>1
  <2> QED BY <1>3, <2>2, <2>3
<1>9. w = s + 1
  BY DEF w
<1>10. /\ \A i \in 1..N : Parts(seen[kids[i]], seen[kids[i + 1]], ks[i])
       /\ \A k : k \in S <=> \E c \in ToSet(kids) : k \in seen[c]
  BY DEF Routes, ks, kids, N
<1>11. \A x \in 1..N + 1 : kids[x] \in ToSet(kids) /\ (x \notin {s, w} => rt[kids[x]] = seen[kids[x]])
  <2> SUFFICES ASSUME NEW x \in 1..N + 1
               PROVE  kids[x] \in ToSet(kids) /\ (x \notin {s, w} => rt[kids[x]] = seen[kids[x]])
    OBVIOUS
  <2>1. kids[x] \in ToSet(kids) /\ (x \notin {s, w} => kids[x] \notin {l, r})
    BY <1>1, <1>2, <1>6 DEF ToSet
  <2> QED BY <2>1 DEF kids
<1>12. \A k : k \in S <=> \E c \in ToSet(kids2) : k \in rt[c]
  <2>1. l \in ToSet(kids) /\ r \in ToSet(kids) /\ l # r /\ \A d \in ToSet(kids) : d \notin {l, r} => rt[d] = seen[d]
    BY <1>1, <1>2, <1>6, <1>9, <1>11 DEF kids
  <2> SUFFICES ASSUME NEW k PROVE k \in S <=> \E c \in ToSet(kids2) : k \in rt[c]
    OBVIOUS
  <2>2. k \in rt[l] <=> k \in seen[l] \/ k \in seen[r]
    OBVIOUS
  <2>3. (\E c \in ToSet(kids2) : k \in rt[c]) <=> (\E c \in ToSet(kids) : k \in seen[c])
    BY <1>5, <2>1, <2>2
  <2> QED BY <1>10, <2>3
<1>13. ASSUME NEW i \in 1..N - 1 PROVE Parts(rt[kids2[i]], rt[kids2[i + 1]], ks2[i])
  <2>0. i \in 1..N /\ i + 1 \in 1..N /\ i \in 1..N + 1 /\ i + 1 \in 1..N + 1 /\ (i + 1) + 1 \in 1..N + 1
    BY <1>1
  <2>1. CASE i + 1 < s
    <3>1. i < s /\ i < w /\ i + 1 < w /\ i \notin {s, w} /\ i + 1 \notin {s, w}
      BY <1>1, <1>2, <1>9, <2>1
    <3>2. kids2[i] = kids[i] /\ kids2[i + 1] = kids[i + 1] /\ ks2[i] = ks[i]
      BY <1>7, <1>8, <2>0, <3>1
    <3>3. rt[kids[i]] = seen[kids[i]] /\ rt[kids[i + 1]] = seen[kids[i + 1]]
      BY <1>11, <2>0, <3>1
    <3> QED BY <1>10, <2>0, <3>2, <3>3
  <2>2. CASE i + 1 = s
    <3>1. i < s /\ i < w /\ i + 1 < w /\ i \notin {s, w} /\ s \in i + 1..N + 1 /\ w \in i + 1..N + 1
      BY <1>1, <1>2, <1>9, <2>2
    <3>2. kids2[i] = kids[i] /\ kids2[i + 1] = l /\ ks2[i] = ks[i] /\ kids[i + 1] = l
      BY <1>6, <1>7, <1>8, <2>0, <2>2, <3>1
    <3>3. rt[kids[i]] = seen[kids[i]]
      BY <1>11, <2>0, <3>1
    <3>4. \A k \in seen[l] \cup seen[r] : ks[i] <= k
      BY <1>4, <1>6, <2>0, <3>1 DEF Bounded, N, ks, kids
    <3>5. Parts(seen[kids[i]], seen[l], ks[i])
      BY <1>10, <2>0, <3>2
    <3> QED BY <3>2, <3>3, <3>4, <3>5 DEF Parts
  <2>3. CASE i = s
    <3>1. i < w /\ ~(i < s) /\ ~(i + 1 < w) /\ s \in 1..i + 1 /\ w \in 1..i + 1 /\ i + 1 = w /\ (i + 1) + 1 \notin {s, w}
      BY <1>1, <1>2, <1>9, <2>3
    <3>2. kids2[i] = l /\ kids2[i + 1] = kids[(i + 1) + 1] /\ ks2[i] = ks[i + 1]
      BY <1>6, <1>7, <1>8, <2>0, <2>3, <3>1
    <3>3. rt[kids[(i + 1) + 1]] = seen[kids[(i + 1) + 1]]
      BY <1>11, <2>0, <3>1
    <3>4. \A k \in seen[l] \cup seen[r] : k < ks[i + 1]
      BY <1>4, <1>6, <2>0, <3>1 DEF Bounded, N, ks, kids
    <3>5. Parts(seen[r], seen[kids[(i + 1) + 1]], ks[i + 1])
      BY <1>6, <1>10, <2>0, <3>1
    <3> QED BY <3>2, <3>3, <3>4, <3>5 DEF Parts
  <2>4. CASE i > s
    <3>1. ~(i < w) /\ ~(i < s) /\ ~(i + 1 < w) /\ i + 1 \notin {s, w} /\ (i + 1) + 1 \notin {s, w}
      BY <1>1, <1>2, <1>9, <2>4
    <3>2. kids2[i] = kids[i + 1] /\ kids2[i + 1] = kids[(i + 1) + 1] /\ ks2[i] = ks[i + 1]
      BY <1>7, <1>8, <2>0, <3>1
    <3>3. rt[kids[i + 1]] = seen[kids[i + 1]] /\ rt[kids[(i + 1) + 1]] = seen[kids[(i + 1) + 1]]
      BY <1>11, <2>0, <3>1
    <3> QED BY <1>10, <2>0, <3>2, <3>3
  <2>5. i + 1 < s \/ i + 1 = s \/ i = s \/ i > s
    BY <1>1, <1>2
  <2> QED BY <2>1, <2>2, <2>3, <2>4, <2>5
<1> QED BY <1>7, <1>12, <1>13 DEF Routes, ks2, kids2, m

LEMMA Tails ==
    ASSUME NEW s, s \in Seq(Index), Len(s) > 0
    PROVE  Len(Tail(s)) = Len(s) - 1 /\ \A j \in 1..Len(s) - 1 : Tail(s)[j] = s[j + 1]
BY TailFacts

(* The first kid goes, and the second gets its keys. *)
LEMMA DroppedFirstRoutes ==
    ASSUME NEW n, NodeOK(n), NEW S, S \subseteq Nat, NEW seen, Routes(n, S, seen), Len(n.keys) > 0,
           NEW l, l = n.kids[1], NEW r, r = n.kids[2],
           NEW rt, rt[r] = seen[l] \cup seen[r],
           \A d \in ToSet(n.kids) : d \notin {l, r} => rt[d] = seen[d]
    PROVE  Routes(InternalRemoveFirst(n), S, rt)
<1> DEFINE ks == n.keys
           kids == n.kids
           N == Len(n.keys)
           m == InternalRemoveFirst(n)
           ks2 == m.keys
           kids2 == m.kids
<1>1. /\ ks \in Seq(Index) /\ kids \in Seq(Index) /\ N \in Nat /\ DOMAIN kids = 1..N + 1 /\ Len(ks) = N /\ Len(kids) = N + 1
      /\ \A i, j \in 1..N + 1 : kids[i] = kids[j] => i = j
  BY NodeLists DEF Index
<1>2. N > 0 /\ 1 \in 1..N + 1 /\ 2 \in 1..N + 1
  BY <1>1
<1>3. ks2 = Tail(ks) /\ kids2 = Tail(kids)
  BY DEF InternalRemoveFirst
<1>4. Bounded(n, seen)
  BY RoutesBounded
<1>5. ToSet(kids2) = ToSet(kids) \ {l}
  BY RemovedFirstOK
<1>6. l = kids[1] /\ r = kids[2]
  OBVIOUS
<1> HIDE DEF ks2, kids2, ks, N, kids, m
<1>7. Len(ks2) = N - 1 /\ \A x \in 1..N - 1 : ks2[x] = ks[x + 1]
  <2>1. ks \in Seq(Index) /\ Len(ks) > 0
    BY <1>1, <1>2
  <2>2. Len(Tail(ks)) = Len(ks) - 1 /\ \A j \in 1..Len(ks) - 1 : Tail(ks)[j] = ks[j + 1]
    BY ONLY <2>1, Tails
  <2> QED BY <1>1, <1>3, <2>2
<1>8. \A x \in 1..N : kids2[x] = kids[x + 1]
  <2>1. kids \in Seq(Index) /\ Len(kids) > 0
    BY <1>1, <1>2
  <2>2. Len(Tail(kids)) = Len(kids) - 1 /\ \A j \in 1..Len(kids) - 1 : Tail(kids)[j] = kids[j + 1]
    BY ONLY <2>1, Tails
  <2>3. Len(kids) - 1 = N
    BY <1>1
  <2> QED BY <1>3, <2>2, <2>3
<1>9. /\ \A i \in 1..N : Parts(seen[kids[i]], seen[kids[i + 1]], ks[i])
      /\ \A k : k \in S <=> \E c \in ToSet(kids) : k \in seen[c]
  BY DEF Routes, ks, kids, N
<1>10. \A x \in 1..N + 1 : kids[x] \in ToSet(kids) /\ (x \notin {1, 2} => rt[kids[x]] = seen[kids[x]])
  <2> SUFFICES ASSUME NEW x \in 1..N + 1
               PROVE  kids[x] \in ToSet(kids) /\ (x \notin {1, 2} => rt[kids[x]] = seen[kids[x]])
    OBVIOUS
  <2>1. kids[x] \in ToSet(kids) /\ (x \notin {1, 2} => kids[x] \notin {l, r})
    BY <1>1, <1>2, <1>6 DEF ToSet
  <2> QED BY <2>1 DEF kids
<1>11. \A k : k \in S <=> \E c \in ToSet(kids2) : k \in rt[c]
  <2>1. l \in ToSet(kids) /\ r \in ToSet(kids) /\ l # r /\ \A d \in ToSet(kids) : d \notin {l, r} => rt[d] = seen[d]
    BY <1>1, <1>2, <1>6, <1>10 DEF kids
  <2> SUFFICES ASSUME NEW k PROVE k \in S <=> \E c \in ToSet(kids2) : k \in rt[c]
    OBVIOUS
  <2>2. k \in rt[r] <=> k \in seen[l] \/ k \in seen[r]
    OBVIOUS
  <2>3. (\E c \in ToSet(kids2) : k \in rt[c]) <=> (\E c \in ToSet(kids) : k \in seen[c])
    BY <1>5, <2>1, <2>2
  <2> QED BY <1>9, <2>3
<1>12. ASSUME NEW i \in 1..N - 1 PROVE Parts(rt[kids2[i]], rt[kids2[i + 1]], ks2[i])
  <2>0. i \in 1..N /\ i + 1 \in 1..N /\ i + 1 \in 1..N + 1 /\ (i + 1) + 1 \in 1..N + 1 /\ (i + 1) + 1 \notin {1, 2}
    BY <1>1
  <2>1. kids2[i] = kids[i + 1] /\ kids2[i + 1] = kids[(i + 1) + 1] /\ ks2[i] = ks[i + 1]
    BY <1>7, <1>8, <2>0
  <2>2. rt[kids[(i + 1) + 1]] = seen[kids[(i + 1) + 1]]
    BY <1>10, <2>0
  <2>3. Parts(seen[kids[i + 1]], seen[kids[(i + 1) + 1]], ks[i + 1])
    BY <1>9, <2>0
  <2>4. CASE i = 1
    <3>1. 1 \in 1..i + 1 /\ 2 \in 1..i + 1 /\ kids[i + 1] = r
      BY <1>6, <2>4
    <3>2. \A k \in seen[l] \cup seen[r] : k < ks[i + 1]
      BY <1>4, <1>6, <2>0, <3>1 DEF Bounded, N, ks, kids
    <3> QED BY <2>1, <2>2, <2>3, <3>1, <3>2 DEF Parts
  <2>5. CASE i # 1
    <3>1. i + 1 \notin {1, 2}
      BY <1>1, <2>5
    <3>2. rt[kids[i + 1]] = seen[kids[i + 1]]
      BY <1>10, <2>0, <3>1
    <3> QED BY <2>1, <2>2, <2>3, <3>2
  <2> QED BY <2>4, <2>5
<1> QED BY <1>7, <1>11, <1>12 DEF Routes, ks2, kids2, m

---------------------------------------------------------------------------
(* Two neighbours and their separator, read as one node *)

LEMMA Concats ==
    ASSUME NEW s, s \in Seq(Index), NEW t, t \in Seq(Index)
    PROVE  /\ s \o t \in Seq(Index) /\ Len(s \o t) = Len(s) + Len(t)
           /\ \A j \in 1..Len(s) + Len(t) : (s \o t)[j] = IF j <= Len(s) THEN s[j] ELSE t[j - Len(s)]
BY ConcatFacts

LEMMA Appends ==
    ASSUME NEW s, s \in Seq(Index), NEW e, e \in Index
    PROVE  /\ Append(s, e) \in Seq(Index) /\ Len(Append(s, e)) = Len(s) + 1
           /\ \A j \in 1..Len(s) + 1 : Append(s, e)[j] = IF j <= Len(s) THEN s[j] ELSE e
BY AppendFacts

(* What stands where in the one node. *)
Lined(m, left, right, sep) ==
    /\ Len(m.keys) = Len(left.keys) + Len(right.keys) + 1
    /\ \A i \in 1..Len(left.keys) : m.keys[i] = left.keys[i]
    /\ m.keys[Len(left.keys) + 1] = sep
    /\ \A i \in 1..Len(right.keys) : m.keys[Len(left.keys) + 1 + i] = right.keys[i]
    /\ \A i \in 1..Len(left.keys) + 1 : m.kids[i] = left.kids[i]
    /\ \A i \in 1..Len(right.keys) + 1 : m.kids[Len(left.keys) + 1 + i] = right.kids[i]
    /\ ToSet(m.kids) = ToSet(left.kids) \cup ToSet(right.kids)

LEMMA MergeLines ==
    ASSUME NEW left, NodeOK(left), NEW right, NodeOK(right), NEW sep, sep \in Index
    PROVE  Lined(InternalMergeRight(left, right, sep), left, right, sep)
<1> DEFINE lk == left.keys
           rk == right.keys
           lc == left.kids
           rc == right.kids
           m == InternalMergeRight(left, right, sep)
           A == Len(lk)
           B == Len(rk)
           ls == Append(lk, sep)
<1>1. /\ lk \in Seq(Index) /\ rk \in Seq(Index) /\ lc \in Seq(Index) /\ rc \in Seq(Index)
      /\ A \in Nat /\ B \in Nat /\ Len(lk) = A /\ Len(rk) = B /\ Len(lc) = A + 1 /\ Len(rc) = B + 1
  BY NodeLists DEF Index
<1>2. m.keys = ls \o rk /\ m.kids = lc \o rc /\ ls = Append(lk, sep)
  BY DEF InternalMergeRight
<1> HIDE DEF lk, rk, lc, rc, m, A, B, ls
<1>3. ls \in Seq(Index) /\ Len(ls) = A + 1 /\ \A j \in 1..A + 1 : ls[j] = IF j <= A THEN lk[j] ELSE sep
  <2>1. /\ Append(lk, sep) \in Seq(Index) /\ Len(Append(lk, sep)) = Len(lk) + 1
        /\ \A j \in 1..Len(lk) + 1 : Append(lk, sep)[j] = IF j <= Len(lk) THEN lk[j] ELSE sep
    BY <1>1, Appends
  <2> QED BY <1>1, <1>2, <2>1
<1>4. /\ Len(ls \o rk) = A + B + 1
      /\ \A j \in 1..A + B + 1 : (ls \o rk)[j] = IF j <= A + 1 THEN ls[j] ELSE rk[j - (A + 1)]
  <2>1. /\ ls \o rk \in Seq(Index) /\ Len(ls \o rk) = Len(ls) + Len(rk)
        /\ \A j \in 1..Len(ls) + Len(rk) : (ls \o rk)[j] = IF j <= Len(ls) THEN ls[j] ELSE rk[j - Len(ls)]
    BY <1>1, <1>3, Concats
  <2>2. Len(ls) = A + 1 /\ Len(rk) = B /\ Len(ls) + Len(rk) = A + B + 1
    BY <1>1, <1>3
  <2> QED BY <2>1, <2>2
<1>5. \A j \in 1..A + B + 2 : (lc \o rc)[j] = IF j <= A + 1 THEN lc[j] ELSE rc[j - (A + 1)]
  <2>1. /\ lc \o rc \in Seq(Index) /\ Len(lc \o rc) = Len(lc) + Len(rc)
        /\ \A j \in 1..Len(lc) + Len(rc) : (lc \o rc)[j] = IF j <= Len(lc) THEN lc[j] ELSE rc[j - Len(lc)]
    BY <1>1, Concats
  <2>2. Len(lc) = A + 1 /\ Len(lc) + Len(rc) = A + B + 2
    BY <1>1
  <2> QED BY <2>1, <2>2
<1>6. ToSet(lc \o rc) = ToSet(lc) \cup ToSet(rc)
  BY <1>1, ConcatHolds
<1>7. ASSUME NEW i \in 1..A PROVE m.keys[i] = lk[i]
  <2>1. i \in 1..A + 1 /\ i \in 1..A + B + 1 /\ i <= A /\ i <= A + 1
    BY <1>1
  <2> QED BY <1>2, <1>3, <1>4, <2>1
<1>8. m.keys[A + 1] = sep
  <2>1. A + 1 \in 1..A + 1 /\ A + 1 \in 1..A + B + 1 /\ ~(A + 1 <= A) /\ A + 1 <= A + 1
    BY <1>1
  <2> QED BY <1>2, <1>3, <1>4, <2>1
<1>9. ASSUME NEW i \in 1..B PROVE m.keys[A + 1 + i] = rk[i]
  <2>1. A + 1 + i \in 1..A + B + 1 /\ ~(A + 1 + i <= A + 1) /\ (A + 1 + i) - (A + 1) = i
    BY <1>1
  <2> QED BY <1>2, <1>4, <2>1
<1>10. ASSUME NEW i \in 1..A + 1 PROVE m.kids[i] = lc[i]
  <2>1. i \in 1..A + B + 2 /\ i <= A + 1
    BY <1>1
  <2> QED BY <1>2, <1>5, <2>1
<1>11. ASSUME NEW i \in 1..B + 1 PROVE m.kids[A + 1 + i] = rc[i]
  <2>1. A + 1 + i \in 1..A + B + 2 /\ ~(A + 1 + i <= A + 1) /\ (A + 1 + i) - (A + 1) = i
    BY <1>1
  <2> QED BY <1>2, <1>5, <2>1
<1> QED BY <1>2, <1>4, <1>6, <1>7, <1>8, <1>9, <1>10, <1>11 DEF Lined, lk, rk, lc, rc, m, A, B

LEMMA KidsSee ==
    ASSUME NEW n, NodeOK(n), NEW S, S # {}, NEW seen, Routes(n, S, seen)
    PROVE  \A x \in 1..Len(n.keys) + 1 : n.kids[x] \in ToSet(n.kids) /\ seen[n.kids[x]] \subseteq S /\ seen[n.kids[x]] # {}
<1>1. Len(n.keys) \in Nat /\ DOMAIN n.kids = 1..Len(n.keys) + 1
  BY NodeLists
<1> SUFFICES ASSUME NEW x \in 1..Len(n.keys) + 1
             PROVE  n.kids[x] \in ToSet(n.kids) /\ seen[n.kids[x]] \subseteq S /\ seen[n.kids[x]] # {}
  OBVIOUS
<1>2. n.kids[x] \in ToSet(n.kids)
  BY <1>1 DEF ToSet
<1>3. \A k : k \in S <=> \E c \in ToSet(n.kids) : k \in seen[c]
  BY DEF Routes
<1>4. CASE x \in 1..Len(n.keys)
  BY <1>2, <1>3, <1>4 DEF Routes, Parts
<1>5. CASE x # 1
  <2>1. x - 1 \in 1..Len(n.keys) /\ (x - 1) + 1 = x
    BY <1>1, <1>5
  <2> QED BY <1>2, <1>3, <2>1 DEF Routes, Parts
<1>6. CASE x = 1 /\ x \notin 1..Len(n.keys)
  <2>1. Len(n.keys) = 0 /\ 1..Len(n.keys) + 1 = {1}
    BY <1>1, <1>6
  <2>2. ToSet(n.kids) = {n.kids[x]}
    BY <1>1, <1>6, <2>1 DEF ToSet
  <2> QED BY <1>2, <1>3, <2>2
<1> QED BY <1>4, <1>5, <1>6

LEMMA JoinedRoutes ==
    ASSUME NEW left, NodeOK(left), NEW right, NodeOK(right), NEW sep, sep \in Index,
           NEW A, NEW B, NEW seen, Routes(left, A, seen), Routes(right, B, seen), Parts(A, B, sep)
    PROVE  Routes(InternalMergeRight(left, right, sep), A \cup B, seen)
<1> DEFINE m == InternalMergeRight(left, right, sep)
           a == Len(left.keys)
           b == Len(right.keys)
<1>1. a \in Nat /\ b \in Nat
  BY NodeLists
<1>2. Lined(m, left, right, sep)
  BY MergeLines
<1>3. A # {} /\ B # {}
  BY DEF Parts
<1>4. \A x \in 1..a + 1 : seen[left.kids[x]] \subseteq A /\ seen[left.kids[x]] # {}
  BY <1>3, KidsSee
<1>5. \A x \in 1..b + 1 : seen[right.kids[x]] \subseteq B /\ seen[right.kids[x]] # {}
  BY <1>3, KidsSee
<1>6. /\ \A i \in 1..a : Parts(seen[left.kids[i]], seen[left.kids[i + 1]], left.keys[i])
      /\ \A i \in 1..b : Parts(seen[right.kids[i]], seen[right.kids[i + 1]], right.keys[i])
  BY DEF Routes
<1>7. /\ Len(m.keys) = a + b + 1 /\ m.keys[a + 1] = sep
      /\ \A i \in 1..a : m.keys[i] = left.keys[i]
      /\ \A i \in 1..b : m.keys[a + 1 + i] = right.keys[i]
      /\ \A i \in 1..a + 1 : m.kids[i] = left.kids[i]
      /\ \A i \in 1..b + 1 : m.kids[a + 1 + i] = right.kids[i]
      /\ ToSet(m.kids) = ToSet(left.kids) \cup ToSet(right.kids)
  BY <1>2 DEF Lined
<1>8. \A k : k \in A \cup B <=> \E c \in ToSet(m.kids) : k \in seen[c]
  BY <1>7 DEF Routes
<1> HIDE DEF m, a, b
<1>9. ASSUME NEW i \in 1..a + b + 1 PROVE Parts(seen[m.kids[i]], seen[m.kids[i + 1]], m.keys[i])
  <2>1. CASE i <= a
    <3>1. i \in 1..a /\ i \in 1..a + 1 /\ i + 1 \in 1..a + 1
      BY <1>1, <2>1
    <3> QED BY <1>6, <1>7, <3>1
  <2>2. CASE i = a + 1
    <3>1. a + 1 \in 1..a + 1 /\ 1 \in 1..b + 1 /\ i + 1 = a + 1 + 1
      BY <1>1, <2>2
    <3>2. m.kids[i] = left.kids[a + 1] /\ m.kids[i + 1] = right.kids[1] /\ m.keys[i] = sep
      BY <1>7, <2>2, <3>1
    <3>3. Parts(seen[left.kids[a + 1]], seen[right.kids[1]], sep)
      BY <1>4, <1>5, <3>1 DEF Parts
    <3> QED BY <3>2, <3>3
  <2>3. CASE i > a + 1
    <3> DEFINE x == i - (a + 1)
    <3>1. x \in 1..b /\ x \in 1..b + 1 /\ x + 1 \in 1..b + 1 /\ i = a + 1 + x /\ i + 1 = a + 1 + (x + 1)
      BY <1>1, <2>3
    <3> HIDE DEF x
    <3>2. m.kids[i] = right.kids[x] /\ m.kids[i + 1] = right.kids[x + 1] /\ m.keys[i] = right.keys[x]
      BY <1>7, <3>1
    <3> QED BY <1>6, <3>1, <3>2
  <2> QED BY <1>1, <2>1, <2>2, <2>3
<1> QED BY <1>7, <1>8, <1>9 DEF Routes, m

(* Two nodes that share the keys W at sep. *)
Shares(left, right, sep, W, seen) ==
    \E A, B : Routes(left, A, seen) /\ Routes(right, B, seen) /\ Parts(A, B, sep) /\ A \cup B = W

LEMMA PartedRoutes ==
    ASSUME NEW left, NodeOK(left), NEW right, NodeOK(right), NEW sep, sep \in Index,
           ToSet(left.kids) \cap ToSet(right.kids) = {},
           NEW W, W \subseteq Nat, NEW seen, Routes(InternalMergeRight(left, right, sep), W, seen)
    PROVE  Shares(left, right, sep, W, seen)
<1> DEFINE m == InternalMergeRight(left, right, sep)
           a == Len(left.keys)
           b == Len(right.keys)
           A == UNION {seen[c] : c \in ToSet(left.kids)}
           B == UNION {seen[c] : c \in ToSet(right.kids)}
<1>1. a \in Nat /\ b \in Nat /\ DOMAIN left.kids = 1..a + 1 /\ DOMAIN right.kids = 1..b + 1
  BY NodeLists
<1>2. Lined(m, left, right, sep)
  BY MergeLines
<1>3. NodeOK(m)
  BY MergedOK
<1>4. Bounded(m, seen)
  BY <1>3, RoutesBounded
<1>5. /\ Len(m.keys) = a + b + 1 /\ m.keys[a + 1] = sep
      /\ \A i \in 1..a : m.keys[i] = left.keys[i]
      /\ \A i \in 1..b : m.keys[a + 1 + i] = right.keys[i]
      /\ \A i \in 1..a + 1 : m.kids[i] = left.kids[i]
      /\ \A i \in 1..b + 1 : m.kids[a + 1 + i] = right.kids[i]
      /\ ToSet(m.kids) = ToSet(left.kids) \cup ToSet(right.kids)
  BY <1>2 DEF Lined
<1>6. /\ \A i \in 1..a + b + 1 : Parts(seen[m.kids[i]], seen[m.kids[i + 1]], m.keys[i])
      /\ \A k : k \in W <=> \E c \in ToSet(m.kids) : k \in seen[c]
  BY <1>5 DEF Routes
<1>7. /\ \A k : k \in A <=> \E c \in ToSet(left.kids) : k \in seen[c]
      /\ \A k : k \in B <=> \E c \in ToSet(right.kids) : k \in seen[c]
  OBVIOUS
<1>8. /\ \A k \in A : \E x \in 1..a + 1 : k \in seen[left.kids[x]]
      /\ \A k \in B : \E x \in 1..b + 1 : k \in seen[right.kids[x]]
      /\ \A x \in 1..a + 1 : left.kids[x] \in ToSet(left.kids)
      /\ \A x \in 1..b + 1 : right.kids[x] \in ToSet(right.kids)
  BY <1>1, <1>7 DEF ToSet
<1> HIDE DEF m, a, b, A, B
<1>9. A \cup B = W
  BY <1>5, <1>6, <1>7
<1>10. Routes(left, A, seen)
  <2>1. ASSUME NEW i \in 1..a PROVE Parts(seen[left.kids[i]], seen[left.kids[i + 1]], left.keys[i])
    <3>1. i \in 1..a + b + 1 /\ i \in 1..a + 1 /\ i + 1 \in 1..a + 1
      BY <1>1
    <3>2. m.kids[i] = left.kids[i] /\ m.kids[i + 1] = left.kids[i + 1] /\ m.keys[i] = left.keys[i]
      BY <1>5, <3>1
    <3> QED BY <1>6, <3>1, <3>2
  <2> QED BY <1>7, <2>1 DEF Routes, a
<1>11. Routes(right, B, seen)
  <2>1. ASSUME NEW i \in 1..b PROVE Parts(seen[right.kids[i]], seen[right.kids[i + 1]], right.keys[i])
    <3>1. a + 1 + i \in 1..a + b + 1 /\ i \in 1..b + 1 /\ i + 1 \in 1..b + 1 /\ (a + 1 + i) + 1 = a + 1 + (i + 1)
      BY <1>1
    <3>2. /\ m.kids[a + 1 + i] = right.kids[i] /\ m.kids[(a + 1 + i) + 1] = right.kids[i + 1]
          /\ m.keys[a + 1 + i] = right.keys[i]
      BY <1>5, <3>1
    <3>3. Parts(seen[m.kids[a + 1 + i]], seen[m.kids[(a + 1 + i) + 1]], m.keys[a + 1 + i])
      BY <1>6, <3>1
    <3> QED BY <3>2, <3>3
  <2> QED BY <1>7, <2>1 DEF Routes, b
<1>12. Parts(A, B, sep)
  <2>1. a + 1 \in 1..Len(m.keys) /\ a + 1 \in 1..a + b + 1 /\ (a + 1) + 1 = a + 1 + 1
    BY <1>1, <1>5
  <2>2. ASSUME NEW k \in A PROVE k < sep
    <3>1. PICK x \in 1..a + 1 : k \in seen[left.kids[x]]
      BY <1>8
    <3>2. m.kids[x] = left.kids[x]
      BY <1>5
    <3>3. k < m.keys[a + 1]
      BY <1>4, <2>1, <3>1, <3>2 DEF Bounded
    <3> QED BY <1>5, <3>3
  <2>3. ASSUME NEW k \in B PROVE sep <= k
    <3>1. PICK x \in 1..b + 1 : k \in seen[right.kids[x]]
      BY <1>8
    <3>2. m.kids[a + 1 + x] = right.kids[x] /\ a + 1 + x \in (a + 1) + 1..Len(m.keys) + 1
      BY <1>1, <1>5
    <3>3. m.keys[a + 1] <= k
      BY <1>4, <2>1, <3>1, <3>2 DEF Bounded
    <3> QED BY <1>5, <3>3
  <2>4. A # {} /\ B # {}
    <3>1. Parts(seen[m.kids[a + 1]], seen[m.kids[(a + 1) + 1]], m.keys[a + 1])
      BY <1>6, <2>1
    <3>2. a + 1 \in 1..a + 1 /\ 1 \in 1..b + 1
      BY <1>1
    <3>3. m.kids[a + 1] = left.kids[a + 1] /\ m.kids[(a + 1) + 1] = right.kids[1]
      BY <1>5, <2>1, <3>2
    <3>4. seen[left.kids[a + 1]] # {} /\ seen[right.kids[1]] # {}
      BY <3>1, <3>3 DEF Parts
    <3> QED BY <1>7, <1>8, <3>2, <3>4
  <2> QED BY <2>2, <2>3, <2>4 DEF Parts
<1> QED BY <1>9, <1>10, <1>11, <1>12 DEF Shares

---------------------------------------------------------------------------
(* Splits and rotations do not change what the two nodes are as one *)

LEMMA MoveOver ==
    ASSUME NEW s, s \in Seq(Index), NEW t, t \in Seq(Index), Len(t) > 0
    PROVE  Append(s, Head(t)) \o Tail(t) = s \o t
<1> DEFINE h == Head(t)
           u == Tail(t)
           a == Append(s, h)
<1>1. Len(s) \in Nat /\ Len(t) \in Nat
  BY Positions
<1>2. h = t[1] /\ h \in Index /\ u \in Seq(Index) /\ Len(u) = Len(t) - 1 /\ \A j \in 1..Len(t) - 1 : u[j] = t[j + 1]
  BY TailFacts
<1> HIDE DEF h, u
<1>3. a \in Seq(Index) /\ Len(a) = Len(s) + 1 /\ \A j \in 1..Len(s) + 1 : a[j] = IF j <= Len(s) THEN s[j] ELSE h
  BY <1>2, Appends
<1> HIDE DEF a
<1>4. /\ a \o u \in Seq(Index) /\ Len(a \o u) = Len(a) + Len(u)
      /\ \A j \in 1..Len(a) + Len(u) : (a \o u)[j] = IF j <= Len(a) THEN a[j] ELSE u[j - Len(a)]
  BY <1>2, <1>3, Concats
<1>5. /\ s \o t \in Seq(Index) /\ Len(s \o t) = Len(s) + Len(t)
      /\ \A j \in 1..Len(s) + Len(t) : (s \o t)[j] = IF j <= Len(s) THEN s[j] ELSE t[j - Len(s)]
  BY Concats
<1>6. Len(a) + Len(u) = Len(s) + Len(t)
  BY <1>1, <1>2, <1>3
<1>7. ASSUME NEW j \in 1..Len(s) + Len(t) PROVE (a \o u)[j] = (s \o t)[j]
  <2>1. (a \o u)[j] = IF j <= Len(a) THEN a[j] ELSE u[j - Len(a)]
    BY <1>4, <1>6
  <2>2. (s \o t)[j] = IF j <= Len(s) THEN s[j] ELSE t[j - Len(s)]
    BY <1>5
  <2>3. CASE j <= Len(s)
    <3>1. j <= Len(a) /\ j \in 1..Len(s) + 1
      BY <1>1, <1>3, <2>3
    <3> QED BY <1>3, <2>1, <2>2, <2>3, <3>1
  <2>4. CASE j = Len(s) + 1
    <3>1. j <= Len(a) /\ j \in 1..Len(s) + 1 /\ ~(j <= Len(s)) /\ j - Len(s) = 1
      BY <1>1, <1>3, <2>4
    <3> QED BY <1>2, <1>3, <2>1, <2>2, <3>1
  <2>5. CASE j > Len(s) + 1
    <3> DEFINE x == j - Len(a)
    <3>1. ~(j <= Len(a)) /\ ~(j <= Len(s)) /\ x \in 1..Len(t) - 1 /\ j - Len(s) = x + 1
      BY <1>1, <1>3, <2>5
    <3> QED BY <1>2, <2>1, <2>2, <3>1
  <2>6. j <= Len(s) \/ j = Len(s) + 1 \/ j > Len(s) + 1
    BY <1>1
  <2> QED BY <2>3, <2>4, <2>5, <2>6
<1>8. a \o u = s \o t
  BY <1>4, <1>5, <1>6, <1>7, SeqEqual
<1> QED BY <1>8 DEF a, h, u

LEMMA FrontLast ==
    ASSUME NEW s, s \in Seq(Index), Len(s) > 0
    PROVE  Append(Front(s), Last(s)) = s
<1> DEFINE f == Front(s)
           e == Last(s)
<1>1. Len(s) \in Nat
  BY Positions
<1>2. /\ e = s[Len(s)] /\ e \in Index /\ f \in Seq(Index) /\ Len(f) = Len(s) - 1
      /\ \A j \in 1..Len(s) - 1 : f[j] = s[j]
  BY FrontFacts
<1> HIDE DEF f, e
<1>3. /\ Append(f, e) \in Seq(Index) /\ Len(Append(f, e)) = Len(f) + 1
      /\ \A j \in 1..Len(f) + 1 : Append(f, e)[j] = IF j <= Len(f) THEN f[j] ELSE e
  BY <1>2, Appends
<1>4. Len(Append(f, e)) = Len(s)
  BY <1>1, <1>2, <1>3
<1>5. ASSUME NEW j \in 1..Len(s) PROVE Append(f, e)[j] = s[j]
  <2>1. j \in 1..Len(f) + 1 /\ (j <= Len(f) => j \in 1..Len(s) - 1) /\ (~(j <= Len(f)) => j = Len(s))
    BY <1>1, <1>2
  <2> QED BY <1>2, <1>3, <2>1
<1>6. Append(f, e) = s
  BY <1>3, <1>4, <1>5, SeqEqual
<1> QED BY <1>6 DEF f, e

LEMMA ConsOver ==
    ASSUME NEW s, s \in Seq(Index), NEW t, t \in Seq(Index), NEW e, e \in Index
    PROVE  s \o (<<e>> \o t) = Append(s, e) \o t
<1> DEFINE u == <<e>> \o t
<1>1. u \in Seq(Index) /\ Len(u) = Len(t) + 1 /\ \A j \in 1..Len(t) + 1 : u[j] = IF j = 1 THEN e ELSE t[j - 1]
  BY ConsFacts
<1> HIDE DEF u
<1>2. Len(t) \in Nat /\ Len(u) > 0 /\ 1 \in 1..Len(t) + 1
  <2>1. Len(t) \in Nat
    BY Positions
  <2> QED BY <1>1, <2>1
<1>3. /\ Head(u) = u[1] /\ Tail(u) \in Seq(Index) /\ Len(Tail(u)) = Len(u) - 1
      /\ \A j \in 1..Len(u) - 1 : Tail(u)[j] = u[j + 1]
  BY <1>1, <1>2, TailFacts
<1>4. Head(u) = e
  BY <1>1, <1>2, <1>3
<1>5. Len(Tail(u)) = Len(t)
  BY <1>1, <1>2, <1>3
<1>6. ASSUME NEW j \in 1..Len(t) PROVE Tail(u)[j] = t[j]
  <2>1. j \in 1..Len(u) - 1 /\ j + 1 \in 1..Len(t) + 1 /\ j + 1 # 1 /\ (j + 1) - 1 = j
    BY <1>1, <1>2
  <2> QED BY <1>1, <1>3, <2>1
<1>7. Tail(u) = t
  BY <1>3, <1>5, <1>6, SeqEqual
<1>8. Append(s, Head(u)) \o Tail(u) = s \o u
  BY <1>1, <1>2, MoveOver
<1> QED BY <1>4, <1>7, <1>8 DEF u

LEMMA CutRejoins ==
    ASSUME NEW s, s \in Seq(Index), NEW n, n \in 0..Len(s)
    PROVE  UpTo(s, n) \o From(s, n + 1) = s
<1> DEFINE a == UpTo(s, n)
           b == From(s, n + 1)
           m == n + 1
<1>1. Len(s) \in Nat /\ n \in Nat /\ n <= Len(s) /\ m \in 1..Len(s) + 1
  BY Positions
<1>2. a \in Seq(Index) /\ Len(a) = n /\ \A j \in 1..n : a[j] = s[j]
  BY UpToFacts
<1>3. b \in Seq(Index) /\ Len(b) = Len(s) - n /\ \A j \in 1..Len(s) - n : b[j] = s[n + j]
  <2> HIDE DEF m
  <2>1. /\ From(s, m) \in Seq(Index) /\ Len(From(s, m)) = Len(s) - m + 1
        /\ \A j \in 1..Len(s) - m + 1 : From(s, m)[j] = s[m + j - 1]
    BY <1>1, FromFacts
  <2>2. Len(s) - m + 1 = Len(s) - n /\ \A j \in Nat : m + j - 1 = n + j
    BY <1>1 DEF m
  <2>3. b = From(s, m)
    BY DEF m
  <2> QED BY <2>1, <2>2, <2>3
<1> HIDE DEF a, b, m
<1>4. /\ a \o b \in Seq(Index) /\ Len(a \o b) = Len(a) + Len(b)
      /\ \A j \in 1..Len(a) + Len(b) : (a \o b)[j] = IF j <= Len(a) THEN a[j] ELSE b[j - Len(a)]
  BY <1>2, <1>3, Concats
<1>5. Len(a) + Len(b) = Len(s)
  BY <1>1, <1>2, <1>3
<1>6. ASSUME NEW j \in 1..Len(s) PROVE (a \o b)[j] = s[j]
  <2>1. (j <= Len(a) => j \in 1..n) /\ (~(j <= Len(a)) => j - Len(a) \in 1..Len(s) - n /\ n + (j - Len(a)) = j)
    BY <1>1, <1>2
  <2>2. (a \o b)[j] = IF j <= Len(a) THEN a[j] ELSE b[j - Len(a)]
    BY <1>4, <1>5
  <2> QED BY <1>2, <1>3, <2>1, <2>2
<1>7. a \o b = s
  BY <1>4, <1>5, <1>6, SeqEqual
<1> QED BY <1>7 DEF a, b

LEMMA UpToGrows ==
    ASSUME NEW s, s \in Seq(Index), NEW n, n \in 0..Len(s) - 1
    PROVE  Append(UpTo(s, n), s[n + 1]) = UpTo(s, n + 1)
<1> DEFINE a == UpTo(s, n)
           m == n + 1
           e == s[m]
<1>1. Len(s) \in Nat /\ n \in Nat /\ n \in 0..Len(s) /\ m \in 0..Len(s) /\ m \in 1..Len(s) /\ m = n + 1
  BY Positions
<1>2. a \in Seq(Index) /\ Len(a) = n /\ \A j \in 1..n : a[j] = s[j]
  BY <1>1, UpToFacts
<1>3. e \in Index
  BY <1>1, Positions
<1> HIDE DEF a, m, e
<1>4. /\ Append(a, e) \in Seq(Index) /\ Len(Append(a, e)) = Len(a) + 1
      /\ \A j \in 1..Len(a) + 1 : Append(a, e)[j] = IF j <= Len(a) THEN a[j] ELSE e
  BY <1>2, <1>3, Appends
<1>5. UpTo(s, m) \in Seq(Index) /\ Len(UpTo(s, m)) = m /\ \A j \in 1..m : UpTo(s, m)[j] = s[j]
  BY <1>1, UpToFacts
<1>6. ASSUME NEW j \in 1..m PROVE Append(a, e)[j] = UpTo(s, m)[j]
  <2>1. j \in 1..Len(a) + 1 /\ (j <= Len(a) => j \in 1..n) /\ (~(j <= Len(a)) => j = m)
    BY <1>1, <1>2
  <2> QED BY <1>2, <1>4, <1>5, <2>1 DEF e
<1>7. Len(Append(a, e)) = m
  BY <1>1, <1>2, <1>4
<1>8. Append(a, e) = UpTo(s, m)
  BY <1>4, <1>5, <1>6, <1>7, SeqEqual
<1> QED BY <1>8 DEF a, e, m

(* h, the halves of a split or the ends of a rotation, reads as m. *)
ReadsAs(h, m) == InternalMergeRight(h.left, h.right, h.sep) = m

LEMMA SplitReads ==
    ASSUME NEW n, NodeOK(n), Len(n.keys) > 0
    PROVE  ReadsAs(InternalSplit(n), n)
<1> DEFINE ks == n.keys
           kids == n.kids
           mid == Len(n.keys) \div 2
           h == InternalSplit(n)
<1>1. ks \in Seq(Index) /\ kids \in Seq(Index) /\ Len(ks) \in Nat /\ Len(kids) = Len(ks) + 1 /\ n = [keys |-> ks, kids |-> kids]
  BY NodeLists DEF NodeOK, Index
<1>2. mid \in Nat /\ mid < Len(ks)
  BY <1>1, HalfOf
<1>3. /\ h.left = [keys |-> UpTo(ks, mid), kids |-> UpTo(kids, mid + 1)] /\ h.sep = ks[mid + 1]
      /\ h.right = [keys |-> From(ks, mid + 2), kids |-> From(kids, mid + 2)]
  BY DEF InternalSplit, KeyCount
<1> HIDE DEF ks, kids, mid, h
<1>4. Append(UpTo(ks, mid), ks[mid + 1]) \o From(ks, mid + 2) = ks
  <2>1. mid \in 0..Len(ks) - 1 /\ mid + 1 \in 0..Len(ks) /\ (mid + 1) + 1 = mid + 2
    BY <1>1, <1>2
  <2>2. Append(UpTo(ks, mid), ks[mid + 1]) = UpTo(ks, mid + 1)
    BY <1>1, <2>1, UpToGrows
  <2>3. UpTo(ks, mid + 1) \o From(ks, (mid + 1) + 1) = ks
    BY <1>1, <2>1, CutRejoins
  <2> QED BY <2>1, <2>2, <2>3
<1>5. UpTo(kids, mid + 1) \o From(kids, mid + 2) = kids
  <2>1. mid + 1 \in 0..Len(kids) /\ (mid + 1) + 1 = mid + 2
    BY <1>1, <1>2
  <2>2. UpTo(kids, mid + 1) \o From(kids, (mid + 1) + 1) = kids
    BY <1>1, <2>1, CutRejoins
  <2> QED BY <2>1, <2>2
<1>6. InternalMergeRight(h.left, h.right, h.sep) = [keys |-> ks, kids |-> kids]
  <2>1. /\ h.left.keys = UpTo(ks, mid) /\ h.left.kids = UpTo(kids, mid + 1)
        /\ h.right.keys = From(ks, mid + 2) /\ h.right.kids = From(kids, mid + 2)
    BY <1>3
  <2>2. InternalMergeRight(h.left, h.right, h.sep)
          = [keys |-> Append(h.left.keys, h.sep) \o h.right.keys, kids |-> h.left.kids \o h.right.kids]
    BY DEF InternalMergeRight
  <2>3. Append(h.left.keys, h.sep) \o h.right.keys = ks /\ h.left.kids \o h.right.kids = kids
    BY <1>3, <1>4, <1>5, <2>1
  <2> QED BY <2>2, <2>3
<1> QED BY <1>1, <1>6 DEF ReadsAs, h

LEMMA RightRotationReads ==
    ASSUME NEW left, NodeOK(left), NEW right, NodeOK(right), NEW sep, sep \in Index, Len(right.keys) > 0
    PROVE  ReadsAs(InternalBorrowFromRight(left, right, sep), InternalMergeRight(left, right, sep))
<1> DEFINE h == InternalBorrowFromRight(left, right, sep)
           lk == left.keys
           rk == right.keys
           lc == left.kids
           rc == right.kids
<1>1. lk \in Seq(Index) /\ rk \in Seq(Index) /\ lc \in Seq(Index) /\ rc \in Seq(Index) /\ Len(rk) > 0 /\ Len(rc) > 0
  <2>1. Len(rk) \in Nat /\ Len(rc) = Len(rk) + 1
    BY NodeLists
  <2> QED BY <2>1 DEF NodeOK
<1>2. /\ h.left = [keys |-> Append(lk, sep), kids |-> Append(lc, Head(rc))]
      /\ h.right = [keys |-> Tail(rk), kids |-> Tail(rc)] /\ h.sep = Head(rk)
  BY DEF InternalBorrowFromRight, InternalRemoveFirst
<1> HIDE DEF lk, rk, lc, rc, h
<1>3. Append(lk, sep) \in Seq(Index)
  BY <1>1, Appends
<1>4. Append(Append(lk, sep), Head(rk)) \o Tail(rk) = Append(lk, sep) \o rk
  BY <1>1, <1>3, MoveOver
<1>5. Append(lc, Head(rc)) \o Tail(rc) = lc \o rc
  BY <1>1, MoveOver
<1>6. InternalMergeRight(h.left, h.right, h.sep) = [keys |-> Append(lk, sep) \o rk, kids |-> lc \o rc]
  <2>1. /\ h.left.keys = Append(lk, sep) /\ h.left.kids = Append(lc, Head(rc))
        /\ h.right.keys = Tail(rk) /\ h.right.kids = Tail(rc)
    BY <1>2
  <2>2. InternalMergeRight(h.left, h.right, h.sep)
          = [keys |-> Append(h.left.keys, h.sep) \o h.right.keys, kids |-> h.left.kids \o h.right.kids]
    BY DEF InternalMergeRight
  <2>3. Append(h.left.keys, h.sep) \o h.right.keys = Append(lk, sep) \o rk /\ h.left.kids \o h.right.kids = lc \o rc
    BY <1>2, <1>4, <1>5, <2>1
  <2> QED BY <2>2, <2>3
<1> QED BY <1>6 DEF ReadsAs, InternalMergeRight, lk, rk, lc, rc, h

LEMMA LeftRotationReads ==
    ASSUME NEW left, NodeOK(left), NEW right, NodeOK(right), NEW sep, sep \in Index, Len(left.keys) > 0
    PROVE  ReadsAs(InternalBorrowFromLeft(left, right, sep), InternalMergeRight(left, right, sep))
<1> DEFINE h == InternalBorrowFromLeft(left, right, sep)
           lk == left.keys
           rk == right.keys
           lc == left.kids
           rc == right.kids
<1>1. lk \in Seq(Index) /\ rk \in Seq(Index) /\ lc \in Seq(Index) /\ rc \in Seq(Index) /\ Len(lk) > 0 /\ Len(lc) > 0
  <2>1. Len(lk) \in Nat /\ Len(lc) = Len(lk) + 1
    BY NodeLists
  <2> QED BY <2>1 DEF NodeOK
<1>2. /\ h.left = [keys |-> Front(lk), kids |-> Front(lc)] /\ h.sep = Last(lk)
      /\ h.right = [keys |-> <<sep>> \o rk, kids |-> <<Last(lc)>> \o rc]
  BY DEF InternalBorrowFromLeft
<1> HIDE DEF lk, rk, lc, rc, h
<1>3. Append(Front(lk), Last(lk)) = lk /\ Append(Front(lc), Last(lc)) = lc
  BY <1>1, FrontLast
<1>4. Append(Front(lk), Last(lk)) \o (<<sep>> \o rk) = Append(lk, sep) \o rk
  <2>1. lk \in Seq(Index) /\ rk \in Seq(Index) /\ sep \in Index
    BY <1>1
  <2>2. lk \o (<<sep>> \o rk) = Append(lk, sep) \o rk
    BY ONLY <2>1, ConsOver
  <2> QED BY ONLY <1>3, <2>2
<1>5. Front(lc) \in Seq(Index) /\ Last(lc) \in Index
  BY <1>1, FrontFacts
<1>6. Front(lc) \o (<<Last(lc)>> \o rc) = Append(Front(lc), Last(lc)) \o rc
  BY <1>1, <1>5, ConsOver
<1>7. InternalMergeRight(h.left, h.right, h.sep) = [keys |-> Append(lk, sep) \o rk, kids |-> lc \o rc]
  <2>1. /\ h.left.keys = Front(lk) /\ h.left.kids = Front(lc)
        /\ h.right.keys = <<sep>> \o rk /\ h.right.kids = <<Last(lc)>> \o rc
    BY <1>2
  <2>2. InternalMergeRight(h.left, h.right, h.sep)
          = [keys |-> Append(h.left.keys, h.sep) \o h.right.keys, kids |-> h.left.kids \o h.right.kids]
    BY DEF InternalMergeRight
  <2>3. Append(h.left.keys, h.sep) \o h.right.keys = Append(lk, sep) \o rk
    BY <1>2, <1>3, <1>4, <2>1
  <2>4. h.left.kids \o h.right.kids = lc \o rc
    BY <1>3, <1>6, <2>1
  <2> QED BY <2>2, <2>3, <2>4
<1> QED BY <1>7 DEF ReadsAs, InternalMergeRight, lk, rk, lc, rc, h

(* Splits, rotations and merges leave each kid its keys. *)
LEMMA SplitShares ==
    ASSUME NEW n, NodeOK(n), Len(n.keys) > 0, NEW W, W \subseteq Nat, NEW seen, Routes(n, W, seen),
           NEW h, h = InternalSplit(n)
    PROVE  Shares(h.left, h.right, h.sep, W, seen)
<1>1. /\ NodeOK(InternalSplit(n).left) /\ NodeOK(InternalSplit(n).right) /\ InternalSplit(n).sep \in Index
      /\ ToSet(InternalSplit(n).left.kids) \cap ToSet(InternalSplit(n).right.kids) = {}
  BY SplitOK
<1>2. NodeOK(h.left) /\ NodeOK(h.right) /\ h.sep \in Index /\ ToSet(h.left.kids) \cap ToSet(h.right.kids) = {}
  BY <1>1
<1>3. ReadsAs(InternalSplit(n), n)
  BY SplitReads
<1>4. Routes(InternalMergeRight(h.left, h.right, h.sep), W, seen)
  BY <1>3 DEF ReadsAs
<1> QED BY <1>2, <1>4, PartedRoutes

LEMMA SharesJoin ==
    ASSUME NEW left, NodeOK(left), NEW right, NodeOK(right), NEW sep, sep \in Index,
           NEW W, NEW seen, Shares(left, right, sep, W, seen)
    PROVE  Routes(InternalMergeRight(left, right, sep), W, seen)
<1>1. PICK A, B : Routes(left, A, seen) /\ Routes(right, B, seen) /\ Parts(A, B, sep) /\ A \cup B = W
  BY DEF Shares
<1>2. Routes(InternalMergeRight(left, right, sep), A \cup B, seen)
  BY <1>1, JoinedRoutes
<1> QED BY <1>1, <1>2

(* Both rotations. *)
Rotated(h, left, right, sep) ==
    \/ Len(right.keys) > 0 /\ h = InternalBorrowFromRight(left, right, sep)
    \/ Len(left.keys) > 0 /\ h = InternalBorrowFromLeft(left, right, sep)

LEMMA RotationShares ==
    ASSUME NEW left, NodeOK(left), NEW right, NodeOK(right), NEW sep, sep \in Index,
           ToSet(left.kids) \cap ToSet(right.kids) = {},
           NEW W, W \subseteq Nat, NEW seen, Shares(left, right, sep, W, seen), NEW h, Rotated(h, left, right, sep)
    PROVE  Shares(h.left, h.right, h.sep, W, seen)
<1> DEFINE m == InternalMergeRight(left, right, sep)
<1>1. Routes(m, W, seen)
  BY SharesJoin
<1>2. Len(left.keys) \in Nat /\ Len(left.kids) = Len(left.keys) + 1 /\ DOMAIN left.kids = 1..Len(left.keys) + 1
  BY NodeLists
<1>3. Len(right.keys) \in Nat /\ DOMAIN right.kids = 1..Len(right.keys) + 1
  BY NodeLists
<1>4. left.kids[Len(left.kids)] \in ToSet(left.kids) /\ right.kids[1] \in ToSet(right.kids)
  BY <1>2, <1>3 DEF ToSet
<1>5. left.kids[Len(left.kids)] \notin ToSet(right.kids) /\ right.kids[1] \notin ToSet(left.kids)
  BY <1>4
<1>6. ReadsAs(h, m) /\ NodeOK(h.left) /\ NodeOK(h.right) /\ h.sep \in Index /\ ToSet(h.left.kids) \cap ToSet(h.right.kids) = {}
  <2>1. CASE Len(right.keys) > 0 /\ h = InternalBorrowFromRight(left, right, sep)
    <3>1. TakenFirst(h, left, right)
      BY <1>5, <2>1, BorrowedFromRightOK
    <3>2. ReadsAs(h, m)
      BY <2>1, RightRotationReads
    <3> QED BY <3>1, <3>2 DEF TakenFirst
  <2>2. CASE Len(left.keys) > 0 /\ h = InternalBorrowFromLeft(left, right, sep)
    <3>1. GivenLast(h, left, right)
      BY <1>5, <2>2, BorrowedFromLeftOK
    <3>2. ReadsAs(h, m)
      BY <2>2, LeftRotationReads
    <3> QED BY <3>1, <3>2 DEF GivenLast
  <2> QED BY <2>1, <2>2 DEF Rotated
<1>7. Routes(InternalMergeRight(h.left, h.right, h.sep), W, seen)
  BY <1>1, <1>6 DEF ReadsAs
<1> QED BY <1>6, <1>7, PartedRoutes

---------------------------------------------------------------------------
(* Leaves *)

(* The leaf's keys ascend and are among those it may hold. *)
Stores(ks, S) == Ascending(ks) /\ \A i \in 1..Len(ks) : ks[i] \in S

(* Two leaves that share the keys W at sep. *)
KeptApart(s, t, sep, W) == \E A, B : Stores(s, A) /\ Stores(t, B) /\ Parts(A, B, sep) /\ A \cup B = W

LEMMA StoresJoin ==
    ASSUME NEW s, s \in Seq(Index), NEW t, t \in Seq(Index), NEW sep, sep \in Index,
           NEW W, W \subseteq Nat, KeptApart(s, t, sep, W)
    PROVE  Stores(s \o t, W)
<1>1. PICK A, B : Stores(s, A) /\ Stores(t, B) /\ Parts(A, B, sep) /\ A \cup B = W
  BY DEF KeptApart
<1> DEFINE u == s \o t
<1>2. Len(s) \in Nat /\ Len(t) \in Nat
  BY Positions
<1>3. /\ u \in Seq(Index) /\ Len(u) = Len(s) + Len(t)
      /\ \A j \in 1..Len(s) + Len(t) : u[j] = IF j <= Len(s) THEN s[j] ELSE t[j - Len(s)]
  BY Concats
<1>4. sep \in Nat /\ A \subseteq Nat /\ B \subseteq Nat
  BY <1>1 DEF Index
<1> HIDE DEF u
<1>5. ASSUME NEW j \in 1..Len(u) PROVE u[j] \in W
  <2>1. CASE j <= Len(s)
    <3>1. j \in 1..Len(s) /\ j \in 1..Len(s) + Len(t)
      BY <1>2, <1>3, <2>1
    <3> QED BY <1>1, <1>3, <2>1, <3>1 DEF Stores
  <2>2. CASE ~(j <= Len(s))
    <3>1. j - Len(s) \in 1..Len(t) /\ j \in 1..Len(s) + Len(t)
      BY <1>2, <1>3, <2>2
    <3> QED BY <1>1, <1>3, <2>2, <3>1 DEF Stores
  <2> QED BY <2>1, <2>2
<1>6. ASSUME NEW j \in 1..Len(u) - 1 PROVE u[j] < u[j + 1]
  <2>0. j \in 1..Len(s) + Len(t) /\ j + 1 \in 1..Len(s) + Len(t)
    BY <1>2, <1>3
  <2>1. CASE j + 1 <= Len(s)
    <3>1. j \in 1..Len(s) - 1 /\ j <= Len(s)
      BY <1>2, <1>3, <2>1
    <3>2. u[j] = s[j] /\ u[j + 1] = s[j + 1]
      BY <1>3, <2>0, <2>1, <3>1
    <3> QED BY <1>1, <3>1, <3>2 DEF Stores, Ascending
  <2>2. CASE j = Len(s)
    <3>1. j <= Len(s) /\ ~(j + 1 <= Len(s)) /\ (j + 1) - Len(s) = 1 /\ j \in 1..Len(s) /\ 1 \in 1..Len(t)
      BY <1>2, <1>3, <2>2
    <3>2. u[j] = s[j] /\ u[j + 1] = t[1]
      BY <1>3, <2>0, <3>1
    <3>3. s[j] \in A /\ t[1] \in B
      BY <1>1, <3>1 DEF Stores
    <3>4. s[j] < sep /\ sep <= t[1]
      BY <1>1, <3>3 DEF Parts
    <3>5. s[j] \in Nat /\ t[1] \in Nat /\ sep \in Nat
      BY <1>4, <3>3
    <3> QED BY <3>2, <3>4, <3>5
  <2>3. CASE j > Len(s)
    <3> DEFINE x == j - Len(s)
    <3>1. ~(j <= Len(s)) /\ ~(j + 1 <= Len(s)) /\ x \in 1..Len(t) - 1 /\ (j + 1) - Len(s) = x + 1
      BY <1>2, <1>3, <2>3
    <3>2. u[j] = t[x] /\ u[j + 1] = t[x + 1]
      BY <1>3, <2>0, <3>1
    <3> HIDE DEF x
    <3> QED BY <1>1, <3>1, <3>2 DEF Stores, Ascending
  <2>4. j + 1 <= Len(s) \/ j = Len(s) \/ j > Len(s)
    BY <1>2, <1>3
  <2> QED BY <2>1, <2>2, <2>3, <2>4
<1> QED BY <1>5, <1>6 DEF Stores, Ascending, u

LEMMA StoresPart ==
    ASSUME NEW s, s \in Seq(Index), NEW t, t \in Seq(Index), Len(s) > 0, Len(t) > 0,
           NEW W, W \subseteq Nat, Stores(s \o t, W), NEW sep, sep = t[1]
    PROVE  KeptApart(s, t, sep, W)
<1> DEFINE u == s \o t
           A == {k \in W : k < sep}
           B == {k \in W : sep <= k}
<1>1. Len(s) \in Nat /\ Len(t) \in Nat
  BY Positions
<1>2. /\ u \in Seq(Index) /\ Len(u) = Len(s) + Len(t)
      /\ \A j \in 1..Len(s) + Len(t) : u[j] = IF j <= Len(s) THEN s[j] ELSE t[j - Len(s)]
  BY Concats
<1>3. Ascending(u) /\ \A i \in 1..Len(u) : u[i] \in W
  BY DEF Stores
<1>4. \A j \in 1..Len(u) : \A i \in 1..j - 1 : u[i] < u[j]
  BY <1>2, <1>3, AscendingPairs DEF Index
<1> HIDE DEF u
<1>5. ASSUME NEW i \in 1..Len(s) PROVE i \in 1..Len(u) /\ u[i] = s[i]
  <2>1. i \in 1..Len(s) + Len(t) /\ i <= Len(s) /\ i \in 1..Len(u)
    BY <1>1, <1>2
  <2> QED BY <1>2, <2>1
<1>6. ASSUME NEW i \in 1..Len(t) PROVE Len(s) + i \in 1..Len(u) /\ u[Len(s) + i] = t[i]
  <2>1. Len(s) + i \in 1..Len(s) + Len(t) /\ ~(Len(s) + i <= Len(s)) /\ (Len(s) + i) - Len(s) = i
    BY <1>1, <1>2
  <2> QED BY <1>2, <2>1
<1>7. 1 \in 1..Len(t) /\ 1 \in 1..Len(s) /\ u[Len(s) + 1] = sep /\ Len(s) + 1 \in 1..Len(u) /\ sep \in W
  <2>1. 1 \in 1..Len(t) /\ 1 \in 1..Len(s)
    BY <1>1
  <2> QED BY <1>3, <1>6, <2>1
<1>8. ASSUME NEW i \in 1..Len(s) PROVE s[i] \in A
  <2>1. i \in 1..(Len(s) + 1) - 1
    BY <1>1
  <2>2. u[i] < u[Len(s) + 1]
    BY <1>4, <1>7, <2>1
  <2> QED BY <1>3, <1>5, <1>7, <2>2
<1>9. ASSUME NEW i \in 1..Len(t) PROVE t[i] \in B
  <2>1. CASE i = 1
    BY <1>7, <2>1
  <2>2. CASE i # 1
    <3>1. Len(s) + 1 \in 1..(Len(s) + i) - 1
      BY <1>1, <2>2
    <3>2. u[Len(s) + 1] < u[Len(s) + i]
      BY <1>4, <1>6, <3>1
    <3>3. sep < t[i] /\ t[i] \in W
      BY <1>3, <1>6, <1>7, <3>2
    <3>4. sep \in Nat /\ t[i] \in Nat
      BY <1>7, <3>3
    <3> QED BY <3>3, <3>4
  <2> QED BY <2>1, <2>2
<1>10. Ascending(s)
  <2> SUFFICES ASSUME NEW i \in 1..Len(s) - 1 PROVE s[i] < s[i + 1]
    BY DEF Ascending
  <2>1. i \in 1..Len(s) /\ i + 1 \in 1..Len(s) /\ i \in 1..(i + 1) - 1
    BY <1>1
  <2> QED BY <1>4, <1>5, <2>1
<1>11. Ascending(t)
  <2> SUFFICES ASSUME NEW i \in 1..Len(t) - 1 PROVE t[i] < t[i + 1]
    BY DEF Ascending
  <2>1. i \in 1..Len(t) /\ i + 1 \in 1..Len(t) /\ Len(s) + i \in 1..(Len(s) + (i + 1)) - 1
    BY <1>1
  <2>2. Len(s) + (i + 1) \in 1..Len(u) /\ u[Len(s) + (i + 1)] = t[i + 1] /\ u[Len(s) + i] = t[i]
    BY <1>6, <2>1
  <2>3. u[Len(s) + i] < u[Len(s) + (i + 1)]
    BY <1>4, <2>1, <2>2
  <2> QED BY <2>2, <2>3
<1>12. Parts(A, B, sep) /\ A \cup B = W
  <2>1. s[1] \in A /\ t[1] \in B
    BY <1>7, <1>8, <1>9
  <2>2. A \cup B = W
    <3>1. sep \in Nat /\ \A k \in W : k \in Nat
      BY <1>7
    <3>2. \A k \in W : k < sep \/ sep <= k
      BY <3>1
    <3> QED BY <3>2
  <2> QED BY <2>1, <2>2 DEF Parts
<1>13. Stores(s, A) /\ Stores(t, B)
  BY <1>8, <1>9, <1>10, <1>11 DEF Stores
<1> HIDE DEF A, B
<1> QED BY <1>12, <1>13 DEF KeptApart

LEMMA InsertStores ==
    ASSUME NEW ks, ks \in Seq(Index), NEW S, S \subseteq Nat, Stores(ks, S), NEW k, k \in S,
           \A i \in 1..Len(ks) : ks[i] # k
    PROVE  Stores(InsertAt(ks, LowerBound(ks, k), k), S)
<1> DEFINE i == LowerBound(ks, k)
           N == Len(ks)
           u == InsertAt(ks, i, k)
<1>1. N \in Nat /\ k \in Nat /\ \A x \in 1..N : ks[x] \in Nat /\ ks[x] \in S
  BY Positions DEF Stores, Index
<1>2. i \in 1..N + 1 /\ \A x \in 1..N : ks[x] < k <=> x < i
  <2>1. ks \in Seq(Nat) /\ Ascending(ks)
    BY DEF Stores, Index
  <2> QED BY <1>1, <2>1, LowerBoundCuts
<1>3. Ascending(ks)
  BY DEF Stores
<1>n. N = Len(ks) /\ u = InsertAt(ks, i, k)
  OBVIOUS
<1> HIDE DEF i, N, u
<1>4. Len(u) = N + 1 /\ \A x \in 1..N + 1 : u[x] = IF x < i THEN ks[x] ELSE IF x = i THEN k ELSE ks[x - 1]
  <2>1. ks \in Seq(Index) /\ i \in 1..Len(ks) + 1 /\ k \in Index
    BY <1>1, <1>2, <1>n DEF Index
  <2>2. InsertedAt(u, ks, i, k)
    BY <1>n, <2>1, Inserts
  <2> QED BY <1>n, <2>2 DEF InsertedAt
<1>5. ASSUME NEW x \in 1..N + 1 PROVE u[x] \in S
  <2>1. x < i => x \in 1..N
    BY <1>1, <1>2
  <2>2. ~(x < i) /\ x # i => x - 1 \in 1..N
    BY <1>1, <1>2
  <2> QED BY <1>1, <1>4, <2>1, <2>2
<1>6. ASSUME NEW x \in 1..N PROVE u[x] < u[x + 1]
  <2>0. x \in 1..N + 1 /\ x + 1 \in 1..N + 1 /\ (x + 1) - 1 = x
    BY <1>1
  <2>1. CASE x + 1 < i
    <3>1. x < i /\ x \in 1..N - 1
      BY <1>1, <1>2, <2>1
    <3>2. ks[x] < ks[x + 1]
      BY <1>3, <3>1 DEF Ascending, N
    <3> QED BY <1>4, <2>0, <2>1, <3>1, <3>2
  <2>2. CASE x + 1 = i
    <3>1. x < i /\ ~(x + 1 < i)
      BY <1>1, <1>2, <2>2
    <3>2. ks[x] < k
      BY <1>2, <3>1
    <3> QED BY <1>4, <2>0, <2>2, <3>1, <3>2
  <2>3. CASE x = i
    <3>1. ~(x < i) /\ ~(x + 1 < i) /\ x + 1 # i
      BY <1>1, <1>2, <2>3
    <3>2. ~(ks[x] < k) /\ ks[x] # k /\ ks[x] \in Nat
      BY <1>1, <1>2, <3>1 DEF N
    <3>3. k < ks[x]
      BY <1>1, <3>2
    <3> QED BY <1>4, <2>0, <2>3, <3>1, <3>3
  <2>4. CASE x > i
    <3>1. ~(x < i) /\ ~(x + 1 < i) /\ x + 1 # i /\ x # i /\ x - 1 \in 1..N - 1 /\ (x - 1) + 1 = x
      BY <1>1, <1>2, <2>4
    <3>2. ks[x - 1] < ks[x]
      BY <1>3, <3>1 DEF Ascending, N
    <3> QED BY <1>4, <2>0, <3>1, <3>2
  <2>5. x + 1 < i \/ x + 1 = i \/ x = i \/ x > i
    BY <1>1, <1>2
  <2> QED BY <2>1, <2>2, <2>3, <2>4, <2>5
<1>7. Len(u) - 1 = N
  BY <1>1, <1>4
<1>8. Ascending(u)
  BY <1>6, <1>7 DEF Ascending
<1>9. Stores(u, S)
  BY <1>4, <1>5, <1>8 DEF Stores
<1> QED BY <1>9 DEF u, i

LEMMA RemoveStores ==
    ASSUME NEW ks, ks \in Seq(Index), NEW S, Stores(ks, S), NEW i, i \in 1..Len(ks)
    PROVE  Stores(RemoveAt(ks, i), S)
<1> DEFINE N == Len(ks)
           u == RemoveAt(ks, i)
<1>1. N \in Nat /\ ks \in Seq(Nat) /\ \A x \in 1..N : ks[x] \in Nat
  BY Positions DEF Index
<1>2. Ascending(ks) /\ \A x \in 1..N : ks[x] \in S
  BY DEF Stores
<1>3. \A y \in 1..N : \A x \in 1..y - 1 : ks[x] < ks[y]
  BY <1>1, <1>2, AscendingPairs
<1>4. Len(u) = N - 1 /\ \A x \in 1..N - 1 : u[x] = IF x < i THEN ks[x] ELSE ks[x + 1]
  BY Removes
<1> HIDE DEF N, u
<1>5. ASSUME NEW x \in 1..N - 1 PROVE u[x] \in S
  <2>1. x \in 1..N /\ x + 1 \in 1..N
    BY <1>1
  <2> QED BY <1>2, <1>4, <2>1
<1>6. ASSUME NEW x \in 1..(N - 1) - 1 PROVE u[x] < u[x + 1]
  <2>1. x \in 1..N - 1 /\ x + 1 \in 1..N - 1 /\ x + 1 \in 1..N /\ (x + 1) + 1 \in 1..N
    BY <1>1
  <2>2. x \in 1..(x + 1) - 1 /\ x + 1 \in 1..((x + 1) + 1) - 1 /\ x \in 1..((x + 1) + 1) - 1
    BY <1>1
  <2>3. ks[x] < ks[x + 1] /\ ks[x + 1] < ks[(x + 1) + 1] /\ ks[x] < ks[(x + 1) + 1]
    BY <1>3, <2>1, <2>2
  <2>4. x + 1 < i => x < i
    BY <1>1, i \in 1..N DEF N
  <2> QED BY <1>4, <2>1, <2>3, <2>4
<1> QED BY <1>4, <1>5, <1>6 DEF Stores, Ascending, u

LEMMA LeafInsertStores ==
    ASSUME NEW n, LeafOK(n), NEW S, S \subseteq Nat, Stores(n.keys, S), NEW k, k \in S, ~HasKey(n, k), NEW v
    PROVE  Stores(LeafInsert(n, k, v).keys, S)
<1>1. n.keys \in Seq(Index) /\ n = [keys |-> n.keys, vals |-> n.vals, next |-> n.next]
  BY DEF LeafOK
<1>2. \A i \in 1..Len(n.keys) : n.keys[i] # k
  BY <1>1, HasKeyFinds DEF Stores, Index
<1>3. LeafInsert(n, k, v).keys = InsertAt(n.keys, LowerBound(n.keys, k), k)
  BY <1>1, LeafEdit DEF LeafInsert
<1> QED BY <1>1, <1>2, <1>3, InsertStores

LEMMA LeafDeleteStores ==
    ASSUME NEW n, LeafOK(n), NEW S, Stores(n.keys, S), NEW k, HasKey(n, k)
    PROVE  Stores(LeafDelete(n, k).keys, S)
<1>1. n.keys \in Seq(Index) /\ n = [keys |-> n.keys, vals |-> n.vals, next |-> n.next]
  BY DEF LeafOK
<1>2. LowerBound(n.keys, k) \in 1..Len(n.keys)
  <2>1. LowerBound(n.keys, k) \in 1..Len(n.keys) + 1 /\ LowerBound(n.keys, k) <= Len(n.keys) /\ Len(n.keys) \in Nat
    BY <1>1, LowerBoundIsPosition, Positions DEF HasKey, KeyCount
  <2> QED BY <2>1
<1>3. LeafDelete(n, k).keys = RemoveAt(n.keys, LowerBound(n.keys, k))
  BY <1>1, LeafEdit DEF LeafDelete
<1> QED BY <1>1, <1>2, <1>3, RemoveStores

LEMMA LeafSplitStores ==
    ASSUME NEW n, LeafOK(n), Len(n.keys) > 1, NEW W, W \subseteq Nat, Stores(n.keys, W), NEW h, h = LeafSplit(n)
    PROVE  KeptApart(h.left.keys, h.right.keys, h.sep, W)
<1> DEFINE ks == n.keys
           half == Len(n.keys) \div 2
           s == UpTo(ks, half)
           t == From(ks, half + 1)
<1>1. ks \in Seq(Index) /\ Len(ks) \in Nat /\ n = [keys |-> n.keys, vals |-> n.vals, next |-> n.next]
  BY Positions DEF LeafOK
<1>2. half \in 0..Len(ks) /\ half > 0 /\ half < Len(ks) /\ half + 1 \in 1..Len(ks) + 1
  BY <1>1
<1>3. h.left.keys = s /\ h.right.keys = t /\ h.sep = ks[half + 1]
  <2>1. h.left = [n EXCEPT !.keys = UpTo(ks, half), !.vals = UpTo(n.vals, half)] /\ h.right.keys = t /\ h.sep = ks[half + 1]
    BY <1>1 DEF LeafSplit, KeyCount
  <2> QED BY <1>1, <2>1
<1> HIDE DEF ks, half
<1>4. s \o t = ks
  BY <1>1, <1>2, CutRejoins
<1>5. s \in Seq(Index) /\ Len(s) = half
  BY <1>1, <1>2, UpToFacts
<1>6. t \in Seq(Index) /\ Len(t) > 0 /\ t[1] = ks[half + 1]
  <2> DEFINE m == half + 1
  <2>1. m \in 1..Len(ks) + 1 /\ m = half + 1
    BY <1>2
  <2> HIDE DEF m
  <2>2. /\ From(ks, m) \in Seq(Index) /\ Len(From(ks, m)) = Len(ks) - m + 1
        /\ \A j \in 1..Len(ks) - m + 1 : From(ks, m)[j] = ks[m + j - 1]
    BY <1>1, <2>1, FromFacts
  <2>3. 1 \in 1..Len(ks) - m + 1 /\ m + 1 - 1 = m /\ Len(ks) - m + 1 > 0
    BY <1>1, <1>2, <2>1
  <2>4. From(ks, m)[1] = ks[m] /\ Len(From(ks, m)) > 0
    BY <2>2, <2>3
  <2> QED BY <2>1, <2>2, <2>4
<1> HIDE DEF s, t
<1>7. KeptApart(s, t, ks[half + 1], W)
  <2>1. Stores(s \o t, W) /\ Len(s) > 0
    BY <1>2, <1>4, <1>5 DEF ks
  <2> QED BY <1>5, <1>6, <2>1, StoresPart
<1> QED BY <1>3, <1>7

LEMMA RightLeafLends ==
    ASSUME NEW a, NEW b, LeafOK(a), LeafOK(b), Len(b.keys) > 1, NEW sep, sep \in Index,
           NEW W, W \subseteq Nat, KeptApart(a.keys, b.keys, sep, W), NEW h, h = LeafBorrowFromRight(a, b)
    PROVE  KeptApart(h.left.keys, h.right.keys, h.sep, W)
<1> DEFINE lk == a.keys
           rk == b.keys
           s == Append(lk, Head(rk))
           t == Tail(rk)
<1>1. /\ lk \in Seq(Index) /\ rk \in Seq(Index) /\ Len(rk) \in Nat /\ Len(lk) \in Nat
      /\ a = [keys |-> a.keys, vals |-> a.vals, next |-> a.next]
      /\ b = [keys |-> b.keys, vals |-> b.vals, next |-> b.next]
  BY Positions DEF LeafOK
<1>2. h.left.keys = s /\ h.right.keys = t /\ h.sep = rk[2]
  <2>1. /\ h.left = [a EXCEPT !.keys = Append(lk, Head(rk)), !.vals = Append(a.vals, Head(b.vals))]
        /\ h.right = [b EXCEPT !.keys = Tail(rk), !.vals = Tail(b.vals)] /\ h.sep = rk[2]
    BY <1>1 DEF LeafBorrowFromRight
  <2> QED BY <1>1, <2>1
<1>3. Stores(lk \o rk, W)
  BY <1>1, StoresJoin
<1>4. Len(rk) > 0 /\ Len(rk) > 1
  BY <1>1
<1> HIDE DEF lk, rk
<1>5. s \o t = lk \o rk
  BY <1>1, <1>4, MoveOver
<1>6. /\ Head(rk) = rk[1] /\ rk[1] \in Index /\ t \in Seq(Index) /\ Len(t) = Len(rk) - 1
      /\ \A j \in 1..Len(rk) - 1 : t[j] = rk[j + 1]
  BY <1>1, <1>4, TailFacts
<1>7. s \in Seq(Index) /\ Len(s) = Len(lk) + 1
  BY <1>1, <1>6, Appends
<1>8. Len(s) > 0 /\ Len(t) > 0 /\ t[1] = rk[2]
  <2>1. 1 \in 1..Len(rk) - 1
    BY <1>1, <1>4
  <2> QED BY <1>1, <1>4, <1>6, <1>7, <2>1
<1> HIDE DEF s, t
<1>9. KeptApart(s, t, rk[2], W)
  BY <1>3, <1>5, <1>6, <1>7, <1>8, StoresPart
<1> QED BY <1>2, <1>9

LEMMA LeftLeafLends ==
    ASSUME NEW a, NEW b, LeafOK(a), LeafOK(b), Len(a.keys) > 1, NEW sep, sep \in Index,
           NEW W, W \subseteq Nat, KeptApart(a.keys, b.keys, sep, W), NEW h, h = LeafBorrowFromLeft(a, b)
    PROVE  KeptApart(h.left.keys, h.right.keys, h.sep, W)
<1> DEFINE lk == a.keys
           rk == b.keys
           e == Last(lk)
           s == Front(lk)
           t == <<e>> \o rk
<1>1. /\ lk \in Seq(Index) /\ rk \in Seq(Index) /\ Len(rk) \in Nat /\ Len(lk) \in Nat
      /\ a = [keys |-> a.keys, vals |-> a.vals, next |-> a.next]
      /\ b = [keys |-> b.keys, vals |-> b.vals, next |-> b.next]
  BY Positions DEF LeafOK
<1>2. h.left.keys = s /\ h.right.keys = t /\ h.sep = e
  <2>1. /\ h.left = [a EXCEPT !.keys = Front(lk), !.vals = Front(a.vals)]
        /\ h.right = [b EXCEPT !.keys = <<Last(lk)>> \o rk, !.vals = <<Last(a.vals)>> \o b.vals] /\ h.sep = Last(lk)
    BY <1>1 DEF LeafBorrowFromLeft
  <2> QED BY <1>1, <2>1
<1>3. Stores(lk \o rk, W)
  BY <1>1, StoresJoin
<1>4. Len(lk) > 0 /\ Len(lk) > 1
  BY <1>1
<1> HIDE DEF lk, rk
<1>5. e \in Index /\ s \in Seq(Index) /\ Len(s) = Len(lk) - 1
  BY <1>1, <1>4, FrontFacts
<1>6. Append(s, e) = lk
  BY <1>1, <1>4, FrontLast
<1> HIDE DEF s, e
<1>7. t \in Seq(Index) /\ Len(t) = Len(rk) + 1 /\ \A j \in 1..Len(rk) + 1 : t[j] = IF j = 1 THEN e ELSE rk[j - 1]
  BY <1>1, <1>5, ConsFacts
<1>8. s \o t = lk \o rk
  BY <1>1, <1>5, <1>6, ConsOver
<1>9. Len(s) > 0 /\ Len(t) > 0 /\ t[1] = e
  <2>1. 1 \in 1..Len(rk) + 1
    BY <1>1
  <2> QED BY <1>1, <1>4, <1>5, <1>7, <2>1
<1> HIDE DEF t
<1>10. KeptApart(s, t, e, W)
  BY <1>3, <1>5, <1>7, <1>8, <1>9, StoresPart
<1> QED BY <1>2, <1>10

LEMMA LeafMergeStores ==
    ASSUME NEW a, NEW b, LeafOK(a), LeafOK(b), NEW sep, sep \in Index,
           NEW W, W \subseteq Nat, KeptApart(a.keys, b.keys, sep, W)
    PROVE  Stores(LeafMerge(a, b).keys, W)
<1>1. /\ a.keys \in Seq(Index) /\ b.keys \in Seq(Index)
      /\ a = [keys |-> a.keys, vals |-> a.vals, next |-> a.next]
  BY DEF LeafOK
<1>2. Stores(a.keys \o b.keys, W)
  BY <1>1, StoresJoin
<1>3. LeafMerge(a, b).keys = a.keys \o b.keys
  BY <1>1 DEF LeafMerge
<1> QED BY <1>2, <1>3

---------------------------------------------------------------------------
(* Sets of keys without a gap, and one that ends where the next begins. *)
Intervals == {S \in SUBSET Nat : \A a, b \in S : \A k \in Nat : a <= k /\ k <= b => k \in S}
Abut(A, B) == \E e \in A : e + 1 \in B

(* Seen from a set beside both, two abutting sets are as one: it touches   *)
(* the lower one from below and the upper one from above.                  *)
Edged(V, A, B) ==
    /\ ~Abut(A, V) /\ ~Abut(V, B) /\ V \cap A = {} /\ V \cap B = {}
    /\ Abut(V, A \cup B) <=> Abut(V, A)
    /\ Abut(A \cup B, V) <=> Abut(B, V)

LEMMA HalvesAbut ==
    ASSUME NEW W, W \in Intervals, NEW A, NEW B, A \cup B = W, NEW sep, sep \in Nat, Parts(A, B, sep)
    PROVE  /\ A \in Intervals /\ B \in Intervals /\ Abut(A, B) /\ ~Abut(B, A) /\ A \cap B = {}
           /\ \A V : V \subseteq Nat /\ V \cap W = {} => Edged(V, A, B)
<1>1. /\ W \subseteq Nat /\ A \subseteq Nat /\ B \subseteq Nat
      /\ \A a, b \in W : \A k \in Nat : a <= k /\ k <= b => k \in W
  BY DEF Intervals
<1>2. /\ \A a \in A : a < sep
      /\ \A b \in B : sep <= b
  BY DEF Parts
<1>3. PICK a0 \in A, b0 \in B : a0 < sep /\ sep <= b0 /\ a0 \in Nat /\ b0 \in Nat
  BY <1>1 DEF Parts
<1>4. A \in Intervals
  BY <1>1, <1>2 DEF Intervals
<1>5. B \in Intervals
  BY <1>1, <1>2 DEF Intervals
<1>6. sep - 1 \in A /\ (sep - 1) + 1 \in B
  <2>1. sep - 1 \in Nat /\ a0 <= sep - 1 /\ sep - 1 <= b0 /\ (sep - 1) + 1 = sep /\ ~(sep <= sep - 1) /\ ~(sep < sep)
    BY <1>3
  <2>2. sep - 1 \in W /\ sep \in W
    BY <1>1, <1>3, <2>1
  <2> QED BY <1>2, <2>1, <2>2
<1>7. Abut(A, B)
  BY <1>6 DEF Abut
<1>8. ~Abut(B, A)
  BY <1>1, <1>2 DEF Abut
<1>9. A \cap B = {}
  BY <1>1, <1>2
<1>10. ASSUME NEW V, V \subseteq Nat, V \cap W = {} PROVE Edged(V, A, B)
  <2>1. ~Abut(A, V)
    <3> SUFFICES ASSUME NEW e \in A, e + 1 \in V PROVE FALSE
      BY DEF Abut
    <3>1. e \in Nat /\ e < sep /\ e <= e + 1 /\ e + 1 <= b0 /\ e + 1 \in Nat
      BY <1>1, <1>2, <1>3
    <3>2. e + 1 \in W
      BY <1>1, <1>3, <3>1
    <3> QED BY <1>10, <3>2
  <2>2. ~Abut(V, B)
    <3> SUFFICES ASSUME NEW e \in V, e + 1 \in B PROVE FALSE
      BY DEF Abut
    <3>1. e \in Nat /\ sep <= e + 1 /\ a0 <= e /\ e <= e + 1
      BY <1>2, <1>3, <1>10
    <3>2. e \in W
      BY <1>1, <1>3, <3>1
    <3> QED BY <1>10, <3>2
  <2>3. V \cap A = {} /\ V \cap B = {}
    BY <1>10
  <2>4. Abut(V, A \cup B) <=> Abut(V, A)
    BY <2>2 DEF Abut
  <2>5. Abut(A \cup B, V) <=> Abut(B, V)
    BY <2>1 DEF Abut
  <2> QED BY <2>1, <2>2, <2>3, <2>4, <2>5 DEF Edged
<1> QED BY <1>4, <1>5, <1>7, <1>8, <1>9, <1>10

(* What two neighbouring kids see has no gap if what their parent gets has *)
(* none, and the one's ends where the other's begins.                      *)
LEMMA KidsAbut ==
    ASSUME NEW n, NodeOK(n), NEW S, S \in Intervals, NEW seen, Routes(n, S, seen), NEW s, s \in 1..Len(n.keys)
    PROVE  /\ seen[n.kids[s]] \cup seen[n.kids[s + 1]] \in Intervals
           /\ Abut(seen[n.kids[s]], seen[n.kids[s + 1]])
<1> DEFINE A == seen[n.kids[s]]
           B == seen[n.kids[s + 1]]
<1>1. S \subseteq Nat /\ \A a, b \in S : \A k \in Nat : a <= k /\ k <= b => k \in S
  BY DEF Intervals
<1>2. /\ Len(n.keys) \in Nat /\ \A i \in 1..Len(n.keys) : n.keys[i] \in Nat
      /\ DOMAIN n.kids = 1..Len(n.keys) + 1
  BY NodeLists
<1>3. Bounded(n, seen)
  BY <1>1, RoutesBounded
<1>4. s \in 1..Len(n.keys) + 1 /\ s + 1 \in 1..Len(n.keys) + 1 /\ s \in Nat
  BY <1>2
<1>5. A \subseteq S /\ B \subseteq S /\ A \subseteq Nat /\ B \subseteq Nat
  BY <1>1, <1>4, RoutesIn
<1>6. Parts(A, B, n.keys[s]) /\ n.keys[s] \in Nat
  BY <1>2 DEF Routes
<1>7. A \cup B \in Intervals
  <2> SUFFICES ASSUME NEW a \in A \cup B, NEW b \in A \cup B, NEW k \in Nat, a <= k, k <= b
               PROVE  k \in A \cup B
    BY <1>5 DEF Intervals
  <2>1. k \in S /\ a \in Nat /\ b \in Nat
    BY <1>1, <1>5
  <2>2. PICK x \in 1..Len(n.keys) + 1 : k \in seen[n.kids[x]]
    BY <1>2, <2>1 DEF Routes, ToSet
  <2>3. CASE x = s \/ x = s + 1
    BY <2>2, <2>3
  <2>4. CASE x < s
    <3>1. s - 1 \in 1..Len(n.keys) /\ x \in 1..s - 1 /\ s \in (s - 1) + 1..Len(n.keys) + 1 /\ s + 1 \in (s - 1) + 1..Len(n.keys) + 1
      BY <1>2, <1>4, <2>4
    <3>2. k < n.keys[s - 1] /\ n.keys[s - 1] <= a /\ n.keys[s - 1] \in Nat
      BY <1>2, <1>3, <2>2, <3>1 DEF Bounded
    <3> QED BY <2>1, <3>2
  <2>5. CASE s + 1 < x
    <3>1. s + 1 \in 1..Len(n.keys) /\ x \in (s + 1) + 1..Len(n.keys) + 1 /\ s \in 1..s + 1 /\ s + 1 \in 1..s + 1
      BY <1>2, <1>4, <2>5
    <3>2. n.keys[s + 1] <= k /\ b < n.keys[s + 1] /\ n.keys[s + 1] \in Nat
      BY <1>2, <1>3, <2>2, <3>1 DEF Bounded
    <3> QED BY <2>1, <3>2
  <2> QED BY <1>4, <2>3, <2>4, <2>5
<1>8. Abut(A, B)
  <2> HIDE DEF A, B
  <2>1. \E W \in Intervals : A \cup B = W
    BY <1>7
  <2> QED BY ONLY <1>6, <2>1, HalvesAbut
<1> QED BY <1>7, <1>8

---------------------------------------------------------------------------
(* The leaf chain: each leaf names the one whose keys follow its own, and  *)
(* no other.                                                               *)
Shared(lf, rt) == \A x, y \in DOMAIN lf : x # y => rt[x] \cap rt[y] = {}
Linked(lf, rt) == \A x, y \in DOMAIN lf : x # y /\ Abut(rt[x], rt[y]) => lf[x].next = y
Onward(lf, rt) ==
    \A x \in DOMAIN lf : lf[x].next # 0 =>
        lf[x].next \in DOMAIN lf /\ lf[x].next # x /\ Abut(rt[x], rt[lf[x].next])
Chained(lf, rt) == Shared(lf, rt) /\ Linked(lf, rt) /\ Onward(lf, rt)

LEMMA ChainedSame ==
    ASSUME NEW lf, NEW rt, Chained(lf, rt), NEW lf2, NEW rt2, DOMAIN lf2 = DOMAIN lf,
           \A x \in DOMAIN lf : lf2[x].next = lf[x].next /\ rt2[x] = rt[x]
    PROVE  Chained(lf2, rt2)
BY DEF Chained, Shared, Linked, Onward

(* The facts about two neighbours that share W, and all other leaves. *)
Flanked(lf, rt, W, l, r, A, B) ==
    /\ Abut(A, B) /\ ~Abut(B, A) /\ A \cap B = {}
    /\ \A x \in DOMAIN lf : x # l /\ x # r => rt[x] \cap W = {} /\ Edged(rt[x], A, B)

LEMMA NeighboursAre ==
    ASSUME NEW lf, NEW rt, \A x \in DOMAIN lf : rt[x] \subseteq Nat, NEW l, NEW r,
           NEW W, W \in Intervals, \A x \in DOMAIN lf : x # l /\ x # r => rt[x] \cap W = {},
           NEW A, NEW B, A \cup B = W, NEW sep, sep \in Nat, Parts(A, B, sep)
    PROVE  Flanked(lf, rt, W, l, r, A, B) /\ A \in Intervals /\ B \in Intervals
<1>1. /\ A \in Intervals /\ B \in Intervals /\ Abut(A, B) /\ ~Abut(B, A) /\ A \cap B = {}
      /\ \A V : V \subseteq Nat /\ V \cap W = {} => Edged(V, A, B)
  BY HalvesAbut
<1> QED BY <1>1 DEF Flanked

(* A leaf gives its upper keys to a new one. *)
LEMMA ChainSplits ==
    ASSUME NEW lf, NEW rt, Chained(lf, rt), \A x \in DOMAIN lf : rt[x] \subseteq Nat,
           NEW l, l \in DOMAIN lf, rt[l] \in Intervals, NEW m, m \notin DOMAIN lf,
           NEW rt2, NEW sep, sep \in Nat, Parts(rt2[l], rt2[m], sep), rt2[l] \cup rt2[m] = rt[l],
           \A x \in DOMAIN lf : x # l => rt2[x] = rt[x],
           NEW lf2, DOMAIN lf2 = DOMAIN lf \cup {m}, lf2[l].next = m, lf2[m].next = lf[l].next,
           \A x \in DOMAIN lf : x # l => lf2[x].next = lf[x].next
    PROVE  Chained(lf2, rt2)
<1> DEFINE A == rt2[l]
           B == rt2[m]
           W == rt[l]
<1>0. Shared(lf, rt) /\ Linked(lf, rt) /\ Onward(lf, rt) /\ l # m
  BY DEF Chained
<1>1. \A x \in DOMAIN lf : x # l /\ x # m => rt[x] \cap W = {}
  BY <1>0 DEF Shared
<1>2. Flanked(lf, rt, W, l, m, A, B)
  <2>1. W \in Intervals /\ A \cup B = W /\ Parts(A, B, sep)
    OBVIOUS
  <2> HIDE DEF A, B, W
  <2> QED BY ONLY <2>1, <1>1, sep \in Nat, \A x \in DOMAIN lf : rt[x] \subseteq Nat, NeighboursAre
<1>3. Abut(A, B) /\ ~Abut(B, A) /\ A \cap B = {}
  BY <1>2 DEF Flanked
<1>4. ASSUME NEW x \in DOMAIN lf, x # l
      PROVE  /\ x # m /\ rt2[x] = rt[x] /\ lf2[x].next = lf[x].next /\ rt2[x] \cap A = {} /\ rt2[x] \cap B = {}
             /\ ~Abut(A, rt2[x]) /\ ~Abut(rt2[x], B)
             /\ Abut(rt2[x], W) <=> Abut(rt2[x], A)
             /\ Abut(W, rt2[x]) <=> Abut(B, rt2[x])
  <2>1. x # m /\ rt2[x] = rt[x] /\ lf2[x].next = lf[x].next /\ A \cup B = W
    BY <1>4
  <2>2. Edged(rt[x], A, B)
    BY <1>2, <1>4, <2>1 DEF Flanked
  <2> HIDE DEF A, B, W
  <2> QED BY <2>1, <2>2 DEF Edged
<1> HIDE DEF A, B, W
<1>5. Shared(lf2, rt2)
  <2> SUFFICES ASSUME NEW x \in DOMAIN lf2, NEW y \in DOMAIN lf2, x # y PROVE rt2[x] \cap rt2[y] = {}
    BY DEF Shared
  <2>1. CASE x # l /\ x # m
    <3>1. CASE y # l /\ y # m
      BY <1>0, <1>4, <2>1, <3>1 DEF Shared
    <3>2. CASE y = l \/ y = m
      BY <1>4, <2>1, <3>2 DEF A, B
    <3> QED BY <3>1, <3>2
  <2>2. CASE y # l /\ y # m /\ (x = l \/ x = m)
    BY <1>4, <2>2 DEF A, B
  <2>3. CASE (x = l \/ x = m) /\ (y = l \/ y = m)
    BY <1>3, <2>3 DEF A, B
  <2> QED BY <2>1, <2>2, <2>3
<1>6. Linked(lf2, rt2)
  <2> SUFFICES ASSUME NEW x \in DOMAIN lf2, NEW y \in DOMAIN lf2, x # y, Abut(rt2[x], rt2[y]) PROVE lf2[x].next = y
    BY DEF Linked
  <2>1. CASE x # l /\ x # m
    <3>1. CASE y # l /\ y # m
      BY <1>0, <1>4, <2>1, <3>1 DEF Linked
    <3>2. CASE y = l
      <4>1. Abut(rt[x], W) /\ x \in DOMAIN lf
        BY <1>4, <2>1, <3>2 DEF A
      <4> QED BY <1>0, <1>4, <2>1, <3>2, <4>1 DEF Linked, W
    <3>3. CASE y = m
      BY <1>4, <2>1, <3>3 DEF B
    <3> QED BY <3>1, <3>2, <3>3
  <2>2. CASE x = l
    BY <1>4, <2>2 DEF A
  <2>3. CASE x = m
    <3>1. CASE y = l
      BY <1>3, <2>3, <3>1 DEF A, B
    <3>2. CASE y # l
      <4>1. Abut(W, rt[y]) /\ y \in DOMAIN lf
        BY <1>4, <2>3, <3>2 DEF B
      <4> QED BY <1>0, <2>3, <3>2, <4>1 DEF Linked, W
    <3> QED BY <3>1, <3>2
  <2> QED BY <2>1, <2>2, <2>3
<1>7. Onward(lf2, rt2)
  <2> SUFFICES ASSUME NEW x \in DOMAIN lf2, NEW y, y = lf2[x].next, y # 0
               PROVE  y \in DOMAIN lf2 /\ y # x /\ Abut(rt2[x], rt2[y])
    BY DEF Onward
  <2>1. CASE x # l /\ x # m
    <3>1. y \in DOMAIN lf /\ y # x /\ Abut(rt[x], rt[y]) /\ rt2[x] = rt[x]
      BY <1>0, <1>4, <2>1 DEF Onward
    <3>2. Abut(rt2[x], rt2[y])
      <4>1. CASE y = l
        BY <1>4, <2>1, <3>1, <4>1 DEF A, W
      <4>2. CASE y # l
        BY <1>4, <3>1, <4>2
      <4> QED BY <4>1, <4>2
    <3> QED BY <3>1, <3>2
  <2>2. CASE x = l
    BY <1>0, <1>3, <2>2 DEF A, B
  <2>3. CASE x = m
    <3>1. y \in DOMAIN lf /\ y # l /\ Abut(W, rt[y]) /\ y # m
      BY <1>0, <2>3 DEF Onward, W
    <3> QED BY <1>4, <2>3, <3>1 DEF B
  <2> QED BY <2>1, <2>2, <2>3
<1> QED BY <1>5, <1>6, <1>7 DEF Chained

(* Two neighbours share their keys anew. *)
LEMMA ChainShares ==
    ASSUME NEW lf, NEW rt, Chained(lf, rt), \A x \in DOMAIN lf : rt[x] \subseteq Nat,
           NEW l, l \in DOMAIN lf, NEW r, r \in DOMAIN lf, l # r, rt[l] \cup rt[r] \in Intervals,
           NEW d, d \in Nat, Parts(rt[l], rt[r], d),
           NEW rt2, NEW sep, sep \in Nat, Parts(rt2[l], rt2[r], sep), rt2[l] \cup rt2[r] = rt[l] \cup rt[r],
           \A x \in DOMAIN lf : x # l /\ x # r => rt2[x] = rt[x],
           NEW lf2, DOMAIN lf2 = DOMAIN lf, \A x \in DOMAIN lf : lf2[x].next = lf[x].next
    PROVE  Chained(lf2, rt2)
<1> DEFINE A == rt2[l]
           B == rt2[r]
           C == rt[l]
           D == rt[r]
           W == rt[l] \cup rt[r]
<1>0. Shared(lf, rt) /\ Linked(lf, rt) /\ Onward(lf, rt)
  BY DEF Chained
<1>1. \A x \in DOMAIN lf : x # l /\ x # r => rt[x] \cap W = {}
  BY <1>0 DEF Shared
<1>2. Flanked(lf, rt, W, l, r, A, B) /\ Flanked(lf, rt, W, l, r, C, D)
  <2>1. W \in Intervals /\ A \cup B = W /\ Parts(A, B, sep) /\ C \cup D = W /\ Parts(C, D, d) /\ sep \in Nat /\ d \in Nat
    OBVIOUS
  <2> HIDE DEF A, B, C, D, W
  <2>2. \A x \in DOMAIN lf : rt[x] \subseteq Nat
    OBVIOUS
  <2>3. Flanked(lf, rt, W, l, r, A, B)
    BY ONLY <2>1, <2>2, <1>1, NeighboursAre
  <2>4. Flanked(lf, rt, W, l, r, C, D)
    BY ONLY <2>1, <2>2, <1>1, NeighboursAre
  <2> QED BY <2>3, <2>4
<1>3. Abut(A, B) /\ ~Abut(B, A) /\ A \cap B = {} /\ Abut(C, D) /\ ~Abut(D, C)
  BY <1>2 DEF Flanked
<1>4. ASSUME NEW x \in DOMAIN lf, x # l, x # r
      PROVE  /\ rt2[x] = rt[x] /\ rt2[x] \cap A = {} /\ rt2[x] \cap B = {}
             /\ ~Abut(A, rt2[x]) /\ ~Abut(rt2[x], B) /\ ~Abut(C, rt2[x]) /\ ~Abut(rt2[x], D)
             /\ Abut(rt2[x], C) <=> Abut(rt2[x], A)
             /\ Abut(D, rt2[x]) <=> Abut(B, rt2[x])
  <2>1. rt2[x] = rt[x] /\ A \cup B = W /\ C \cup D = W
    BY <1>4
  <2>2. Edged(rt[x], A, B) /\ Edged(rt[x], C, D)
    BY <1>2, <1>4, <2>1 DEF Flanked
  <2> HIDE DEF A, B, C, D, W
  <2> QED BY <2>1, <2>2 DEF Edged
<1>5. lf[l].next = r
  BY <1>0, <1>3 DEF Linked
<1> HIDE DEF A, B, C, D, W
<1>6. Shared(lf2, rt2)
  <2> SUFFICES ASSUME NEW x \in DOMAIN lf2, NEW y \in DOMAIN lf2, x # y PROVE rt2[x] \cap rt2[y] = {}
    BY DEF Shared
  <2>1. CASE x # l /\ x # r
    <3>1. CASE y # l /\ y # r
      BY <1>0, <1>4, <2>1, <3>1 DEF Shared
    <3>2. CASE y = l \/ y = r
      BY <1>4, <2>1, <3>2 DEF A, B
    <3> QED BY <3>1, <3>2
  <2>2. CASE y # l /\ y # r /\ (x = l \/ x = r)
    BY <1>4, <2>2 DEF A, B
  <2>3. CASE (x = l \/ x = r) /\ (y = l \/ y = r)
    BY <1>3, <2>3 DEF A, B
  <2> QED BY <2>1, <2>2, <2>3
<1>7. Linked(lf2, rt2)
  <2> SUFFICES ASSUME NEW x \in DOMAIN lf2, NEW y \in DOMAIN lf2, x # y, Abut(rt2[x], rt2[y]) PROVE lf2[x].next = y
    BY DEF Linked
  <2>1. CASE x # l /\ x # r
    <3>1. CASE y # l /\ y # r
      BY <1>0, <1>4, <2>1, <3>1 DEF Linked
    <3>2. CASE y = l
      BY <1>0, <1>4, <2>1, <3>2 DEF Linked, A, C
    <3>3. CASE y = r
      BY <1>4, <2>1, <3>3 DEF B
    <3> QED BY <3>1, <3>2, <3>3
  <2>2. CASE x = l
    <3>1. CASE y = r
      BY <1>5, <2>2, <3>1
    <3>2. CASE y # r
      BY <1>4, <2>2, <3>2 DEF A
    <3> QED BY <3>1, <3>2
  <2>3. CASE x = r
    <3>1. CASE y = l
      BY <1>3, <2>3, <3>1 DEF A, B
    <3>2. CASE y # l
      BY <1>0, <1>4, <2>3, <3>2 DEF Linked, B, D
    <3> QED BY <3>1, <3>2
  <2> QED BY <2>1, <2>2, <2>3
<1>8. Onward(lf2, rt2)
  <2> SUFFICES ASSUME NEW x \in DOMAIN lf2, NEW y, y = lf2[x].next, y # 0
               PROVE  y \in DOMAIN lf2 /\ y # x /\ Abut(rt2[x], rt2[y])
    BY DEF Onward
  <2>0. y \in DOMAIN lf /\ y # x /\ Abut(rt[x], rt[y])
    BY <1>0 DEF Onward
  <2>1. CASE x # l /\ x # r
    <3>1. CASE y # l /\ y # r
      BY <1>4, <2>0, <2>1, <3>1
    <3>2. CASE y = l
      BY <1>4, <2>0, <2>1, <3>2 DEF A, C
    <3>3. CASE y = r
      BY <1>4, <2>0, <2>1, <3>3 DEF D
    <3> QED BY <2>0, <3>1, <3>2, <3>3
  <2>2. CASE x = l
    BY <1>3, <1>5, <2>0, <2>2 DEF A, B
  <2>3. CASE x = r
    <3>1. y # l
      BY <1>3, <2>0, <2>3 DEF C, D
    <3> QED BY <1>4, <2>0, <2>3, <3>1 DEF B, D
  <2> QED BY <2>1, <2>2, <2>3
<1> QED BY <1>6, <1>7, <1>8 DEF Chained

(* The right one of two neighbours is folded into the left one. *)
LEMMA ChainMerges ==
    ASSUME NEW lf, NEW rt, Chained(lf, rt), \A x \in DOMAIN lf : rt[x] \subseteq Nat,
           NEW l, l \in DOMAIN lf, NEW r, r \in DOMAIN lf, l # r, rt[l] \cup rt[r] \in Intervals,
           NEW d, d \in Nat, Parts(rt[l], rt[r], d),
           NEW rt2, rt2[l] = rt[l] \cup rt[r], \A x \in DOMAIN lf : x # l /\ x # r => rt2[x] = rt[x],
           NEW lf2, DOMAIN lf2 = DOMAIN lf \ {r}, lf2[l].next = lf[r].next,
           \A x \in DOMAIN lf : x # l /\ x # r => lf2[x].next = lf[x].next
    PROVE  Chained(lf2, rt2)
<1> DEFINE C == rt[l]
           D == rt[r]
           W == rt[l] \cup rt[r]
<1>0. Shared(lf, rt) /\ Linked(lf, rt) /\ Onward(lf, rt)
  BY DEF Chained
<1>1. \A x \in DOMAIN lf : x # l /\ x # r => rt[x] \cap W = {}
  BY <1>0 DEF Shared
<1>2. Flanked(lf, rt, W, l, r, C, D)
  <2>1. W \in Intervals /\ C \cup D = W /\ Parts(C, D, d) /\ d \in Nat
    OBVIOUS
  <2> HIDE DEF C, D, W
  <2>2. \A x \in DOMAIN lf : rt[x] \subseteq Nat
    OBVIOUS
  <2> QED BY ONLY <2>1, <2>2, <1>1, NeighboursAre
<1>3. Abut(C, D) /\ ~Abut(D, C)
  BY <1>2 DEF Flanked
<1>4. ASSUME NEW x \in DOMAIN lf, x # l, x # r
      PROVE  /\ rt2[x] = rt[x] /\ lf2[x].next = lf[x].next /\ rt[x] \cap W = {}
             /\ ~Abut(C, rt[x]) /\ ~Abut(rt[x], D)
             /\ Abut(rt[x], W) <=> Abut(rt[x], C)
             /\ Abut(W, rt[x]) <=> Abut(D, rt[x])
  <2>1. rt2[x] = rt[x] /\ lf2[x].next = lf[x].next /\ C \cup D = W /\ rt[x] \cap W = {}
    BY <1>1, <1>4
  <2>2. Edged(rt[x], C, D)
    BY <1>2, <1>4, <2>1 DEF Flanked
  <2> HIDE DEF C, D, W
  <2> QED BY <2>1, <2>2 DEF Edged
<1>5. rt2[l] = W /\ l \in DOMAIN lf2 /\ \A x \in DOMAIN lf2 : x \in DOMAIN lf /\ x # r
  OBVIOUS
<1> HIDE DEF C, D, W
<1>6. Shared(lf2, rt2)
  <2> SUFFICES ASSUME NEW x \in DOMAIN lf2, NEW y \in DOMAIN lf2, x # y PROVE rt2[x] \cap rt2[y] = {}
    BY DEF Shared
  <2>1. CASE x # l /\ y # l
    BY <1>0, <1>4, <1>5, <2>1 DEF Shared
  <2>2. CASE x = l
    BY <1>4, <1>5, <2>2
  <2>3. CASE y = l
    BY <1>4, <1>5, <2>3
  <2> QED BY <2>1, <2>2, <2>3
<1>7. Linked(lf2, rt2)
  <2> SUFFICES ASSUME NEW x \in DOMAIN lf2, NEW y \in DOMAIN lf2, x # y, Abut(rt2[x], rt2[y]) PROVE lf2[x].next = y
    BY DEF Linked
  <2>1. CASE x # l /\ y # l
    BY <1>0, <1>4, <1>5, <2>1 DEF Linked
  <2>2. CASE x = l
    <3>1. Abut(D, rt[y]) /\ y # r /\ y \in DOMAIN lf
      BY <1>4, <1>5, <2>2
    <3> QED BY <1>0, <2>2, <3>1 DEF Linked, D
  <2>3. CASE y = l
    <3>1. Abut(rt[x], C) /\ x \in DOMAIN lf /\ lf2[x].next = lf[x].next
      BY <1>4, <1>5, <2>3
    <3> QED BY <1>0, <2>3, <3>1 DEF Linked, C
  <2> QED BY <2>1, <2>2, <2>3
<1>8. Onward(lf2, rt2)
  <2> SUFFICES ASSUME NEW x \in DOMAIN lf2, NEW y, y = lf2[x].next, y # 0
               PROVE  y \in DOMAIN lf2 /\ y # x /\ Abut(rt2[x], rt2[y])
    BY DEF Onward
  <2>1. CASE x # l
    <3>1. y \in DOMAIN lf /\ y # x /\ Abut(rt[x], rt[y]) /\ rt2[x] = rt[x] /\ x \in DOMAIN lf /\ x # r
      BY <1>0, <1>4, <1>5, <2>1 DEF Onward
    <3>2. y # r
      BY <1>4, <2>1, <3>1 DEF D
    <3>3. Abut(rt2[x], rt2[y])
      <4>1. CASE y = l
        BY <1>4, <1>5, <2>1, <3>1, <4>1 DEF C
      <4>2. CASE y # l
        BY <1>4, <3>1, <3>2, <4>2
      <4> QED BY <4>1, <4>2
    <3> QED BY <3>1, <3>2, <3>3
  <2>2. CASE x = l
    <3>1. y \in DOMAIN lf /\ y # r /\ Abut(D, rt[y])
      BY <1>0, <2>2 DEF Onward, D
    <3>2. y # l
      BY <1>3, <3>1 DEF C
    <3> QED BY <1>4, <1>5, <2>2, <3>1, <3>2
  <2> QED BY <2>1, <2>2
<1> QED BY <1>6, <1>7, <1>8 DEF Chained

LEMMA NeighbourIsNext ==
    ASSUME NEW lf, NEW rt, Chained(lf, rt),
           NEW l, l \in DOMAIN lf, NEW r, r \in DOMAIN lf, l # r, rt[l] \cup rt[r] \in Intervals,
           NEW d, d \in Nat, Parts(rt[l], rt[r], d)
    PROVE  lf[l].next = r
<1>1. Abut(rt[l], rt[r])
  BY HalvesAbut
<1> QED BY <1>1 DEF Chained, Linked

(* The first leaf is closed, and its neighbour gets its keys. *)
LosesFirst(lf, rt, l, r, d, lf2, rt2) ==
    /\ \A x \in DOMAIN lf : rt[x] \subseteq Nat
    /\ l \in DOMAIN lf /\ r \in DOMAIN lf /\ l # r /\ rt[l] \cup rt[r] \in Intervals
    /\ d \in Nat /\ Parts(rt[l], rt[r], d)
    /\ \A x \in DOMAIN lf : lf[x].next # l
    /\ rt2[r] = rt[l] \cup rt[r] /\ \A x \in DOMAIN lf : x # l /\ x # r => rt2[x] = rt[x]
    /\ DOMAIN lf2 = DOMAIN lf \ {l} /\ \A x \in DOMAIN lf : x # l => lf2[x].next = lf[x].next

LEMMA ChainLosesFirst ==
    ASSUME NEW lf, NEW rt, Chained(lf, rt), NEW l, NEW r, NEW d, NEW lf2, NEW rt2,
           LosesFirst(lf, rt, l, r, d, lf2, rt2)
    PROVE  Chained(lf2, rt2)
<1> USE DEF LosesFirst
<1> DEFINE C == rt[l]
           D == rt[r]
           W == rt[l] \cup rt[r]
<1>0. Shared(lf, rt) /\ Linked(lf, rt) /\ Onward(lf, rt)
  BY DEF Chained
<1>1. \A x \in DOMAIN lf : x # l /\ x # r => rt[x] \cap W = {}
  BY <1>0 DEF Shared
<1>2. Flanked(lf, rt, W, l, r, C, D)
  <2>1. W \in Intervals /\ C \cup D = W /\ Parts(C, D, d) /\ d \in Nat
    OBVIOUS
  <2> HIDE DEF C, D, W
  <2>2. \A x \in DOMAIN lf : rt[x] \subseteq Nat
    OBVIOUS
  <2> QED BY ONLY <2>1, <2>2, <1>1, NeighboursAre
<1>3. Abut(C, D) /\ lf[l].next = r
  BY <1>0, <1>2 DEF Flanked, Linked
<1>4. ASSUME NEW x \in DOMAIN lf, x # l, x # r
      PROVE  /\ rt2[x] = rt[x] /\ lf2[x].next = lf[x].next /\ rt[x] \cap W = {}
             /\ ~Abut(rt[x], D) /\ ~Abut(rt[x], C)
             /\ Abut(rt[x], W) <=> Abut(rt[x], C)
             /\ Abut(W, rt[x]) <=> Abut(D, rt[x])
  <2>1. rt2[x] = rt[x] /\ lf2[x].next = lf[x].next /\ C \cup D = W /\ rt[x] \cap W = {}
    BY <1>1, <1>4
  <2>2. Edged(rt[x], C, D)
    BY <1>2, <1>4, <2>1 DEF Flanked
  <2>3. ~Abut(rt[x], C)
    BY <1>0, <1>4 DEF Linked
  <2> HIDE DEF C, D, W
  <2> QED BY <2>1, <2>2, <2>3 DEF Edged
<1>5. rt2[r] = W /\ r \in DOMAIN lf2 /\ \A x \in DOMAIN lf2 : x \in DOMAIN lf /\ x # l
  OBVIOUS
<1> HIDE DEF C, D, W
<1>6. Shared(lf2, rt2)
  <2> SUFFICES ASSUME NEW x \in DOMAIN lf2, NEW y \in DOMAIN lf2, x # y PROVE rt2[x] \cap rt2[y] = {}
    BY DEF Shared
  <2>1. CASE x # r /\ y # r
    BY <1>0, <1>4, <1>5, <2>1 DEF Shared
  <2>2. CASE x = r
    BY <1>4, <1>5, <2>2
  <2>3. CASE y = r
    BY <1>4, <1>5, <2>3
  <2> QED BY <2>1, <2>2, <2>3
<1>7. Linked(lf2, rt2)
  <2> SUFFICES ASSUME NEW x \in DOMAIN lf2, NEW y \in DOMAIN lf2, x # y, Abut(rt2[x], rt2[y]) PROVE lf2[x].next = y
    BY DEF Linked
  <2>1. CASE x # r /\ y # r
    BY <1>0, <1>4, <1>5, <2>1 DEF Linked
  <2>2. CASE x = r
    <3>1. Abut(D, rt[y]) /\ y # l /\ y \in DOMAIN lf /\ lf2[r].next = lf[r].next
      BY <1>4, <1>5, <2>2
    <3> QED BY <1>0, <2>2, <3>1 DEF Linked, D
  <2>3. CASE y = r
    BY <1>4, <1>5, <2>3
  <2> QED BY <2>1, <2>2, <2>3
<1>8. Onward(lf2, rt2)
  <2> SUFFICES ASSUME NEW x \in DOMAIN lf2, NEW y, y = lf2[x].next, y # 0
               PROVE  y \in DOMAIN lf2 /\ y # x /\ Abut(rt2[x], rt2[y])
    BY DEF Onward
  <2>0. y = lf[x].next /\ x \in DOMAIN lf /\ x # l
    BY <1>5
  <2>1. y \in DOMAIN lf /\ y # x /\ y # l /\ Abut(rt[x], rt[y])
    BY <1>0, <2>0 DEF Onward
  <2>2. CASE x # r
    <3>1. y # r
      BY <1>4, <2>0, <2>1, <2>2 DEF D
    <3> QED BY <1>4, <2>0, <2>1, <2>2, <3>1
  <2>3. CASE x = r
    BY <1>4, <1>5, <2>1, <2>3 DEF D
  <2> QED BY <2>2, <2>3
<1> QED BY <1>3, <1>6, <1>7, <1>8 DEF Chained

---------------------------------------------------------------------------
(* The tree *)

LEMMA RoutesAgree ==
    ASSUME NEW n, NodeOK(n), NEW S, NEW seen, Routes(n, S, seen),
           NEW see2, \A d \in ToSet(n.kids) : see2[d] = seen[d]
    PROVE  Routes(n, S, see2)
<1>1. \A x \in 1..Len(n.keys) + 1 : n.kids[x] \in ToSet(n.kids)
  BY NodeLists DEF ToSet
<1>2. \A i \in 1..Len(n.keys) : i \in 1..Len(n.keys) + 1 /\ i + 1 \in 1..Len(n.keys) + 1
  BY NodeLists
<1>3. \A i \in 1..Len(n.keys) : see2[n.kids[i]] = seen[n.kids[i]] /\ see2[n.kids[i + 1]] = seen[n.kids[i + 1]]
  BY <1>1, <1>2
<1>4. \A k : (\E c \in ToSet(n.kids) : k \in seen[c]) <=> (\E c \in ToSet(n.kids) : k \in see2[c])
  OBVIOUS
<1> QED BY <1>3, <1>4 DEF Routes

Reach == [Nat -> Intervals]

(* The nodes route what reaches them by rt, each kid being seen to get     *)
(* `seen', and the leaves, chained in order, store such keys only.         *)
Sorted(in, lf, rt, seen) ==
    /\ rt \in Reach /\ seen \in Reach
    /\ \A n \in DOMAIN in : Routes(in[n], rt[n], seen)
    /\ \A l \in DOMAIN lf : Stores(lf[l].keys, rt[l])
    /\ Chained(lf, rt)

(* At rest, the tree under r takes every key. *)
AtRest(in, lf, r) == \E rt : Sorted(in, lf, rt, rt) /\ rt[r] = Nat

(* While the new node q hovers beside c, the parent of c sees both as one. *)
SeenAsOne(in, lf, r, c, q, sep, rt, seen) ==
    /\ Sorted(in, lf, rt, seen) /\ seen[r] = Nat
    /\ Parts(rt[c], rt[q], sep) /\ seen[c] = rt[c] \cup rt[q]
    /\ \A d \in Nat : d # c => seen[d] = rt[d]
Beside(in, lf, r, c, q, sep) == \E rt, seen : SeenAsOne(in, lf, r, c, q, sep, rt, seen)

(* What the arguments below need of a forest: a live node is the kid of at *)
(* most one node, not of itself, and an unhung one of none.                *)
Tidy(in, L, R) ==
    /\ \A x \in DOMAIN in \cup L : x \in Nat
    /\ \A x \in DOMAIN in : x \notin L
    /\ \A x \in DOMAIN in : NodeOK(in[x])
    /\ \A x \in DOMAIN in : \A c \in KidsOf(in, x) : c \in DOMAIN in \cup L /\ c \notin R /\ c # x
    /\ \A x, y \in DOMAIN in : \A c \in KidsOf(in, x) : c \in KidsOf(in, y) => x = y

LEMMA ForestTidy ==
    ASSUME NEW in, NEW L, NEW R, NEW h, NEW lv, NEW up, Forest(in, L, R, h, lv, up),
           \A x \in DOMAIN in : NodeOK(in[x])
    PROVE  Tidy(in, L, R)
<1>1. /\ \A c \in DOMAIN in \cup L : c \in Nat
      /\ DOMAIN in \cap L = {}
      /\ \A n \in DOMAIN in : \A c \in KidsOf(in, n) : c \in DOMAIN in \cup L /\ c \notin R /\ up[c] = n /\ c # n
  BY ForestFacts
<1> QED BY <1>1 DEF Tidy

LEMMA ReachFacts ==
    ASSUME NEW rt, rt \in Reach
    PROVE  \A x \in Nat : rt[x] \in Intervals /\ rt[x] \subseteq Nat
BY DEF Reach, Intervals

(* Node x is given other keys. *)
Given(w, rt, x, A) == w \in Reach /\ w[x] = A /\ \A y \in Nat : y # x => w[y] = rt[y]

LEMMA GivenOther ==
    ASSUME NEW rt, rt \in Reach, NEW x, x \in Nat, NEW A, A \in Intervals
    PROVE  Given([rt EXCEPT ![x] = A], rt, x, A)
BY DEF Reach, Given

LEMMA NatIsInterval == Nat \in Intervals
BY DEF Intervals

(* The chain is of the leaves' own sets. *)
LEMMA ChainKept ==
    ASSUME NEW in, NEW lf, NEW rt, NEW seen, Sorted(in, lf, rt, seen),
           NEW rt2, \A x \in DOMAIN lf : rt2[x] = rt[x]
    PROVE  Chained(lf, rt2)
<1>1. Chained(lf, rt)
  BY DEF Sorted
<1> QED BY <1>1, ChainedSame

(* The separator and q are hung on the parent n of c ... *)
LEMMA HangSettles ==
    ASSUME NEW in, NEW lf, NEW R, Tidy(in, DOMAIN lf, R), NEW r, r \in R, r \in Nat, NEW q, q \in R, q \in Nat,
           NEW n, n \in DOMAIN in, NEW c, c \in KidsOf(in, n), NEW sep, sep \in Index, Beside(in, lf, r, c, q, sep),
           NEW node, node = InternalInsertAt(in[n], LowerBound(in[n].keys, sep), sep, q),
           NEW in2, in2 = [in EXCEPT ![n] = node]
    PROVE  AtRest(in2, lf, r)
<1>1. PICK rt, seen : SeenAsOne(in, lf, r, c, q, sep, rt, seen)
  BY DEF Beside
<1>2. /\ NodeOK(in[n]) /\ c \in ToSet(in[n].kids) /\ q \notin ToSet(in[n].kids) /\ n \in Nat /\ c # r
      /\ \A d \in ToSet(in[n].kids) : d \in Nat
  BY DEF Tidy, KidsOf
<1>3. /\ rt \in Reach /\ Routes(in[n], rt[n], seen) /\ Parts(rt[c], rt[q], sep) /\ rt[c] \cup rt[q] = seen[c]
      /\ \A d \in ToSet(in[n].kids) : d # c => rt[d] = seen[d]
  BY <1>1, <1>2 DEF SeenAsOne, Sorted
<1>4. rt[n] \subseteq Nat /\ sep \in Nat
  BY <1>2, <1>3, ReachFacts DEF Index
<1>5. Routes(node, rt[n], rt)
  BY <1>2, <1>3, <1>4, HungRoutes
<1>6. ASSUME NEW x \in DOMAIN in2, x # n
      PROVE  Routes(in2[x], rt[x], rt)
  <2>1. x \in DOMAIN in /\ in2[x] = in[x]
    BY <1>6
  <2>2. NodeOK(in[x]) /\ \A d \in ToSet(in[x].kids) : d \in Nat /\ d # c
    BY <2>1, <1>6 DEF Tidy, KidsOf
  <2>3. Routes(in[x], rt[x], seen) /\ \A d \in ToSet(in[x].kids) : rt[d] = seen[d]
    BY <1>1, <2>1, <2>2 DEF SeenAsOne, Sorted
  <2> QED BY <2>1, <2>2, <2>3, RoutesAgree
<1>7. in2[n] = node
  OBVIOUS
<1>8. \A x \in DOMAIN in2 : Routes(in2[x], rt[x], rt)
  BY <1>5, <1>6, <1>7
<1>9. Sorted(in2, lf, rt, rt) /\ rt[r] = Nat
  BY <1>1, <1>2, <1>3, <1>8 DEF SeenAsOne, Sorted
<1> QED BY <1>9 DEF AtRest

(* ... and a node that is then too full is split. *)
LEMMA SplitsBeside ==
    ASSUME NEW in, NEW lf, NEW R, Tidy(in, DOMAIN lf, R), NEW r, r \in Nat, AtRest(in, lf, r),
           NEW n, n \in DOMAIN in, Len(in[n].keys) > 0, NEW m, m \in Nat, m \notin DOMAIN in \cup DOMAIN lf, m # r,
           NEW h, h = InternalSplit(in[n]), NEW in2, in2 = With([in EXCEPT ![n] = h.left], m, h.right)
    PROVE  Beside(in2, lf, r, n, m, h.sep)
<1>1. PICK rt : Sorted(in, lf, rt, rt) /\ rt[r] = Nat
  BY DEF AtRest
<1>2. /\ NodeOK(in[n]) /\ n \in Nat /\ n # m /\ n \notin DOMAIN lf
      /\ \A x \in DOMAIN in : x \in Nat /\ NodeOK(in[x]) /\ m \notin ToSet(in[x].kids)
      /\ \A x \in DOMAIN in : \A d \in ToSet(in[x].kids) : d \in Nat
      /\ \A l \in DOMAIN lf : l \in Nat
  BY DEF Tidy, KidsOf
<1>3. rt \in Reach /\ rt[n] \subseteq Nat /\ rt[n] \in Intervals /\ Routes(in[n], rt[n], rt)
  BY <1>1, <1>2, ReachFacts DEF Sorted
<1>a. Shares(h.left, h.right, h.sep, rt[n], rt)
  BY <1>2, <1>3, SplitShares
<1>4. PICK A, B : Routes(h.left, A, rt) /\ Routes(h.right, B, rt) /\ Parts(A, B, h.sep) /\ A \cup B = rt[n]
  BY <1>a DEF Shares
<1>5. /\ NodeOK(h.left) /\ NodeOK(h.right) /\ ToSet(h.left.kids) \cup ToSet(h.right.kids) = ToSet(in[n].kids)
      /\ h.sep \in Index
  BY <1>2, SplitOK
<1> DEFINE rt1 == [rt EXCEPT ![n] = A]
           rt2 == [rt1 EXCEPT ![m] = B]
           see2 == [rt2 EXCEPT ![n] = rt[n]]
<1>6. /\ rt2 \in Reach /\ see2 \in Reach /\ rt2[n] = A /\ rt2[m] = B /\ see2[n] = rt[n]
      /\ \A x \in Nat : x # n /\ x # m => rt2[x] = rt[x] /\ see2[x] = rt[x]
      /\ \A d \in Nat : d # n => see2[d] = rt2[d]
  <2>1. A \in Intervals /\ B \in Intervals
    <3> DEFINE W == rt[n]
               sep == h.sep
    <3>1. W \in Intervals /\ sep \in Nat
      BY <1>3, <1>5 DEF Index
    <3>2. Parts(A, B, sep) /\ A \cup B = W
      BY <1>4
    <3> HIDE DEF W, sep
    <3> QED BY ONLY <3>1, <3>2, HalvesAbut
  <2>2. Given(rt1, rt, n, A)
    BY <1>2, <1>3, <2>1, GivenOther
  <2> HIDE DEF rt1
  <2>b. rt1 \in Reach
    BY <2>2 DEF Given
  <2>3. Given(rt2, rt1, m, B)
    BY <2>1, <2>b, GivenOther
  <2> HIDE DEF rt2
  <2>c. rt2 \in Reach
    BY <2>3 DEF Given
  <2>4. Given(see2, rt2, n, rt[n])
    BY <1>2, <1>3, <2>c, GivenOther
  <2> QED BY <1>2, <2>2, <2>3, <2>4 DEF Given
<1> HIDE DEF rt2, see2
<1>7. \A x \in Nat : x # m => see2[x] = rt[x]
  BY <1>6
<1>8. /\ DOMAIN in2 = DOMAIN in \cup {m} /\ in2[m] = h.right /\ in2[n] = h.left
      /\ \A x \in DOMAIN in : x # n => in2[x] = in[x]
  <2> DEFINE in1 == [in EXCEPT ![n] = h.left]
  <2>1. DOMAIN in1 = DOMAIN in /\ in1[n] = h.left /\ \A x \in DOMAIN in : x # n => in1[x] = in[x]
    OBVIOUS
  <2> HIDE DEF in1
  <2>2. /\ DOMAIN With(in1, m, h.right) = DOMAIN in1 \cup {m} /\ With(in1, m, h.right)[m] = h.right
        /\ \A x \in DOMAIN in1 : x # m => With(in1, m, h.right)[x] = in1[x]
    BY DEF With
  <2>3. in2 = With(in1, m, h.right)
    BY DEF in1
  <2> QED BY <2>1, <2>2, <2>3, <1>2
<1>9. ASSUME NEW x \in DOMAIN in2
      PROVE  Routes(in2[x], rt2[x], see2)
  <2>1. CASE x = n
    <3>1. \A d \in ToSet(h.left.kids) : see2[d] = rt[d]
      BY <1>2, <1>5, <1>7
    <3> QED BY <2>1, <3>1, <1>4, <1>5, <1>6, <1>8, RoutesAgree
  <2>2. CASE x = m
    <3>1. \A d \in ToSet(h.right.kids) : see2[d] = rt[d]
      BY <1>2, <1>5, <1>7
    <3> QED BY <2>2, <3>1, <1>4, <1>5, <1>6, <1>8, RoutesAgree
  <2>3. CASE x # n /\ x # m
    <3>1. x \in DOMAIN in /\ in2[x] = in[x] /\ rt2[x] = rt[x]
      BY <2>3, <1>2, <1>6, <1>8
    <3>2. NodeOK(in[x]) /\ Routes(in[x], rt[x], rt) /\ \A d \in ToSet(in[x].kids) : see2[d] = rt[d]
      BY <3>1, <1>1, <1>2, <1>7 DEF Sorted
    <3> QED BY <3>1, <3>2, RoutesAgree
  <2> QED BY <2>1, <2>2, <2>3
<1>10. \A l \in DOMAIN lf : Stores(lf[l].keys, rt2[l])
  BY <1>1, <1>2, <1>6 DEF Sorted
<1>d. Chained(lf, rt2)
  <2>1. \A x \in DOMAIN lf : rt2[x] = rt[x]
    BY <1>2, <1>6
  <2> QED BY <1>1, <2>1, ChainKept
<1>11. Sorted(in2, lf, rt2, see2)
  BY <1>6, <1>9, <1>10, <1>d DEF Sorted
<1>12. see2[r] = Nat
  BY <1>1, <1>7
<1>13. Parts(rt2[n], rt2[m], h.sep) /\ see2[n] = rt2[n] \cup rt2[m] /\ (\A d \in Nat : d # n => see2[d] = rt2[d])
  BY <1>4, <1>6
<1>14. SeenAsOne(in2, lf, r, n, m, h.sep, rt2, see2)
  BY <1>11, <1>12, <1>13 DEF SeenAsOne
<1> QED BY <1>14 DEF Beside

(* One level of the separator's way up. *)
LEMMA Mends ==
    ASSUME NEW lf, NEW h, NEW lv, NEW up, NEW r, NEW in, NEW q, NEW sep, NEW n, NEW node, NEW in1, NEW c,
           Forest(in, DOMAIN lf, {r, q}, h, lv, up), Sized(in, r), q # r, sep \in Index,
           n \in DOMAIN in, lv[n] = lv[q] + 1,
           node = InternalInsertAt(in[n], LowerBound(in[n].keys, sep), sep, q),
           in1 = [in EXCEPT ![n] = node],
           c \in KidsOf(in, n), Beside(in, lf, r, c, q, sep)
    PROVE  AtRest(in1, lf, r) /\ Grown(node, n, r) /\ Tidy(in1, DOMAIN lf, {r}) /\ r \in Index
<1> DEFINE L == DOMAIN lf
<1> HIDE DEF L
<1>0. Forest(in, L, {r, q}, h, lv, up) /\ L = DOMAIN lf
  BY DEF L
<1>1. Grown(node, n, r) /\ Rooted(in1, L, {r}, h, lv)
  BY <1>0, Hangs
<1>2. \A x \in DOMAIN in : NodeOK(in[x])
  BY DEF Sized
<1>3. Tidy(in, L, {r, q})
  BY <1>0, <1>2, ForestTidy
<1>4. r \in Nat /\ q \in Nat
  BY <1>0, ForestFacts
<1>5. AtRest(in1, lf, r)
  <2>1. Tidy(in, DOMAIN lf, {r, q}) /\ r \in {r, q} /\ q \in {r, q}
    BY <1>0, <1>3
  <2> QED BY <2>1, <1>4, HangSettles
<1>6. \A x \in DOMAIN in1 : NodeOK(in1[x])
  BY <1>1, <1>2 DEF Grown
<1>7. PICK up1 : Forest(in1, L, {r}, h, lv, up1)
  BY <1>1 DEF Rooted
<1>8. Tidy(in1, L, {r})
  BY <1>6, <1>7, ForestTidy
<1> QED BY <1>0, <1>1, <1>4, <1>5, <1>8 DEF Index

(* What the loop's state is about, beside Climbing. *)
Routing(u, i, p, in0, lf) ==
    /\ u.rising = TRUE => Beside(u.inner, lf, p[1], p[i], u.right, u.sep)
    /\ u.rising = FALSE => AtRest(u.inner, lf, p[1])
    /\ \A j \in 1..i - 1 : u.inner[p[j]] = in0[p[j]]

LEMMA ClimbRoutes ==
    ASSUME NEW hw \in Nat, NEW h \in Nat, NEW in0, NEW L, DOMAIN in0 \cup L \subseteq 1..hw + 1,
           NEW p, \A j \in 1..h - 1 : p[j] \in DOMAIN in0, p[h] \in L,
           NEW i \in 1..h - 1, NEW u, Climbing(u, i + 1, p, in0, L, hw, h),
           NEW lf, L = DOMAIN lf, \A j \in 1..h - 1 : p[j + 1] \in KidsOf(in0, p[j]),
           Routing(u, i + 1, p, in0, lf)
    PROVE  Routing(HangSeparator(p[i], u), i, p, in0, lf)
<1> DEFINE in == u.inner
           n == p[i]
           node == InternalInsertAt(in[n], LowerBound(in[n].keys, u.sep), u.sep, u.right)
           in1 == [in EXCEPT ![n] = node]
           halves == InternalSplit(node)
           m == u.used + 1
           in2 == With([in EXCEPT ![n] = halves.left], m, halves.right)
           w == HangSeparator(p[i], u)
<1>1. CASE u.rising = FALSE
  <2>1. w = u
    BY <1>1 DEF HangSeparator
  <2>2. \A j \in 1..i - 1 : j \in 1..(i + 1) - 1
    OBVIOUS
  <2> QED BY <1>1, <2>1, <2>2 DEF Routing
<1>2. CASE u.rising = TRUE
  <2>1. /\ u = [rising |-> u.rising, sep |-> u.sep, right |-> u.right, used |-> u.used, inner |-> u.inner]
        /\ u.sep \in Index /\ u.right # p[1] /\ u.used \in Nat /\ u.used > hw /\ Sized(in, p[1])
        /\ DOMAIN in0 \subseteq DOMAIN in /\ DOMAIN in \subseteq DOMAIN in0 \cup hw + 2..u.used
        /\ Hovering(in, L, u.right, h, p, i + 1)
    BY <1>2 DEF Climbing
  <2>2. PICK lv, up : Forest(in, L, {p[1], u.right}, h, lv, up) /\ PathLevels(p, lv, h)
                      /\ lv[u.right] = h - (i + 1) + 1
    BY <2>1 DEF Hovering
  <2>3. n \in DOMAIN in /\ p[i + 1] \in KidsOf(in, n) /\ Beside(in, lf, p[1], p[i + 1], u.right, u.sep)
    <3>1. i \in 1..(i + 1) - 1
      OBVIOUS
    <3>2. in[n] = in0[n]
      BY <3>1 DEF Routing
    <3>3. KidsOf(in, n) = KidsOf(in0, n)
      BY <3>2 DEF KidsOf
    <3> QED BY <1>2, <2>1, <3>3 DEF Routing
  <2>4. lv[n] = lv[u.right] + 1
    <3>1. lv[n] = h - i + 1
      BY <2>2 DEF PathLevels
    <3> QED BY <2>2, <3>1
  <2>5. \A j \in 1..i - 1 : p[j] # n /\ in[p[j]] = in0[p[j]] /\ p[j] \in DOMAIN in
    <3>1. ASSUME NEW j \in 1..i - 1
          PROVE  p[j] # n /\ in[p[j]] = in0[p[j]] /\ p[j] \in DOMAIN in
      <4>1. lv[p[j]] = h - j + 1 /\ lv[p[i]] = h - i + 1
        BY <2>2 DEF PathLevels
      <4>2. j \in 1..(i + 1) - 1 /\ j \in 1..h - 1 /\ h - j + 1 # h - i + 1
        OBVIOUS
      <4> QED BY <4>1, <4>2, <2>1 DEF Routing
    <3> QED BY <3>1
  <2> DEFINE q == u.right
             sep == u.sep
             r == p[1]
             c == p[i + 1]
  <2> HIDE DEF in, n, node, in1, q, sep, r, c
  <2>6. AtRest(in1, lf, r) /\ Grown(node, n, r) /\ Tidy(in1, DOMAIN lf, {r}) /\ r \in Index
    <3>1. Forest(in, DOMAIN lf, {r, q}, h, lv, up) /\ Sized(in, r) /\ q # r /\ sep \in Index /\ n \in DOMAIN in
      BY <2>1, <2>2, <2>3 DEF q, sep, r, in, n
    <3>2. node = InternalInsertAt(in[n], LowerBound(in[n].keys, sep), sep, q) /\ in1 = [in EXCEPT ![n] = node]
      BY DEF node, in1, q, sep
    <3>3. lv[n] = lv[q] + 1 /\ c \in KidsOf(in, n) /\ Beside(in, lf, r, c, q, sep)
      BY <2>3, <2>4 DEF q, n, c, in, r, sep
    <3> QED BY <3>1, <3>2, <3>3, Mends
  <2>7. /\ in = u.inner /\ u.sep = sep /\ u.right = q /\ n = p[i] /\ r = p[1]
        /\ node = InternalInsertAt(u.inner[p[i]], LowerBound(u.inner[p[i]].keys, u.sep), u.sep, u.right)
        /\ in1 = [u.inner EXCEPT ![p[i]] = node] /\ n \in DOMAIN in
    BY <2>3 DEF in, n, q, sep, node, in1, r
  <2>8. DOMAIN in1 = DOMAIN in /\ in1[n] = node /\ \A x \in DOMAIN in \ {n} : in1[x] = in[x]
    BY <2>7
  <2>9. CASE KeyCount(node) <= F
    <3>1. w = [rising |-> FALSE, sep |-> u.sep, right |-> u.right, used |-> u.used, inner |-> in1]
      BY <1>2, <2>1, <2>7, <2>9 DEF HangSeparator
    <3> HIDE DEF w
    <3>2. w.rising = FALSE /\ w.inner = in1
      BY <3>1
    <3>3. \A j \in 1..i - 1 : w.inner[p[j]] = in0[p[j]]
      BY <2>5, <2>8, <3>2
    <3>4. Routing(w, i, p, in0, lf)
      BY <2>6, <2>7, <3>2, <3>3 DEF Routing
    <3> QED BY <3>4 DEF w
  <2>10. CASE ~(KeyCount(node) <= F)
    <3> HIDE DEF halves, m, in2
    <3>1. w = [rising |-> TRUE, sep |-> halves.sep, right |-> m, used |-> m, inner |-> in2]
      <4>1. halves = InternalSplit(node) /\ m = u.used + 1
            /\ in2 = With([u.inner EXCEPT ![p[i]] = halves.left], u.used + 1, halves.right)
        BY <2>7 DEF halves, m, in2
      <4> QED BY <1>2, <2>7, <2>10, <4>1 DEF HangSeparator
    <3>2. m \in Nat /\ m = u.used + 1 /\ m \notin DOMAIN in \cup L
      BY <2>1, <2>7 DEF m
    <3>3. m # r
      <4>1. r \in DOMAIN in \cup L
        BY <2>2, <2>7, ForestFacts
      <4> QED BY <3>2, <4>1
    <3>4. in2 = With([in1 EXCEPT ![n] = halves.left], m, halves.right) /\ halves = InternalSplit(in1[n])
      <4>1. in2 = With([in EXCEPT ![n] = halves.left], m, halves.right)
        BY DEF in2
      <4>2. [in EXCEPT ![n] = halves.left] = [in1 EXCEPT ![n] = halves.left]
        BY <2>7
      <4> QED BY <2>8, <4>1, <4>2 DEF halves
    <3>5. Len(in1[n].keys) > 0
      BY <2>6, <2>8, FanoutFacts DEF Grown
    <3>6. Beside(in2, lf, r, n, m, halves.sep)
      <4>1. Tidy(in1, DOMAIN lf, {r}) /\ r \in Nat /\ AtRest(in1, lf, r) /\ n \in DOMAIN in1
            /\ m \notin DOMAIN in1 \cup DOMAIN lf
        BY <2>6, <2>7, <2>8, <3>2 DEF Index
      <4> QED BY <3>2, <3>3, <3>4, <3>5, <4>1, SplitsBeside
    <3> HIDE DEF w
    <3>7. w.rising = TRUE /\ w.inner = in2 /\ w.right = m /\ w.sep = halves.sep
      BY <3>1
    <3>8. \A j \in 1..i - 1 : w.inner[p[j]] = in0[p[j]]
      <4>1. \A x \in DOMAIN in : x # n => in2[x] = in[x]
        BY <2>7, <2>8, <3>2 DEF in2, With
      <4> QED BY <2>5, <3>7, <4>1
    <3>9. Routing(w, i, p, in0, lf)
      BY <2>7, <3>6, <3>7, <3>8 DEF Routing
    <3> QED BY <3>9 DEF w
  <2> QED BY <2>9, <2>10
<1>3. u.rising \in {TRUE, FALSE}
  BY DEF Climbing
<1> QED BY <1>1, <1>2, <1>3

LEMMA ClimbRouted ==
    ASSUME NEW p, NEW sep, NEW L, height \in Nat, height > 0, highWater \in Nat,
           DOMAIN inner \cup L \subseteq 1..highWater + 1,
           \A j \in 1..height - 1 : p[j] \in DOMAIN inner, p[height] \in L,
           Climbing(Bottom(sep), height, p, inner, L, highWater, height),
           NEW lf, L = DOMAIN lf, \A j \in 1..height - 1 : p[j + 1] \in KidsOf(inner, p[j]),
           Routing(Bottom(sep), height, p, inner, lf)
    PROVE  /\ Climbing(Propagate(p, sep), 1, p, inner, L, highWater, height)
           /\ Routing(Propagate(p, sep), 1, p, inner, lf)
<1>1. PICK s : Climb(s, p, sep) /\ Propagate(p, sep) = s[1]
  BY ClimbRuns
<1> DEFINE Good(i) == Climbing(s[i], i, p, inner, L, highWater, height) /\ Routing(s[i], i, p, inner, lf)
           A == {d \in Nat : d < height => Good(height - d)}
<1>2. s[height] = Bottom(sep) /\ \A i \in 1..height - 1 : s[i] = HangSeparator(p[i], s[i + 1])
  <2>1. s = [i \in 1..height |-> IF i = height THEN Bottom(sep) ELSE HangSeparator(p[i], s[i + 1])]
    BY <1>1 DEF Climb, Bottom
  <2>2. height \in 1..height /\ \A i \in 1..height - 1 : i \in 1..height /\ i # height
    OBVIOUS
  <2>3. \A i \in 1..height : s[i] = IF i = height THEN Bottom(sep) ELSE HangSeparator(p[i], s[i + 1])
    BY <2>1
  <2> QED BY <2>2, <2>3
<1>3. 0 \in A
  BY <1>2
<1>4. ASSUME NEW d \in Nat, d \in A PROVE d + 1 \in A
  <2> SUFFICES ASSUME d + 1 < height PROVE Good(height - (d + 1))
    OBVIOUS
  <2> DEFINE i == height - (d + 1)
  <2>1. i \in 1..height - 1 /\ height - d = i + 1
    OBVIOUS
  <2>2. Climbing(s[i + 1], i + 1, p, inner, L, highWater, height) /\ Routing(s[i + 1], i + 1, p, inner, lf)
    BY <1>4, <2>1
  <2> HIDE DEF i
  <2>3. Climbing(HangSeparator(p[i], s[i + 1]), i, p, inner, L, highWater, height)
    BY <2>1, <2>2, ClimbStep
  <2>4. Routing(HangSeparator(p[i], s[i + 1]), i, p, inner, lf)
    BY <2>1, <2>2, ClimbRoutes
  <2>5. Good(i)
    BY <1>2, <2>1, <2>3, <2>4
  <2> QED BY <2>5 DEF i
<1> HIDE DEF A
<1>5. height - 1 \in A
  <2>1. height - 1 \in Nat
    OBVIOUS
  <2> QED BY <1>3, <1>4, <2>1, NatInductionOn
<1>6. height - 1 < height /\ height - (height - 1) = 1
  OBVIOUS
<1> QED BY <1>1, <1>5, <1>6 DEF A

(* A new root over the old one and the node beside it. *)
LEMMA CrownRests ==
    ASSUME NEW in, NEW lf, NEW r, NEW q, Tidy(in, DOMAIN lf, {r, q}), r \in Nat, q \in Nat, r # q,
           NEW sep, Beside(in, lf, r, r, q, sep),
           NEW m, m \in Nat, m \notin DOMAIN in \cup DOMAIN lf, m # r, m # q,
           NEW in2, in2 = With(in, m, [keys |-> <<sep>>, kids |-> <<r, q>>])
    PROVE  AtRest(in2, lf, m)
<1>1. PICK rt, seen : SeenAsOne(in, lf, r, r, q, sep, rt, seen)
  BY DEF Beside
<1> DEFINE node == [keys |-> <<sep>>, kids |-> <<r, q>>]
           rt2 == [rt EXCEPT ![m] = Nat]
<1>2. rt \in Reach /\ Given(rt2, rt, m, Nat)
  <2>1. rt \in Reach
    BY <1>1 DEF SeenAsOne, Sorted
  <2> QED BY <2>1, NatIsInterval, GivenOther
<1>3. rt2 \in Reach /\ rt2[m] = Nat /\ \A y \in Nat : y # m => rt2[y] = rt[y]
  BY <1>2 DEF Given
<1> HIDE DEF rt2
<1>4. DOMAIN in2 = DOMAIN in \cup {m} /\ in2[m] = node /\ \A x \in DOMAIN in : in2[x] = in[x]
  BY DEF With
<1>5. Routes(node, Nat, rt2)
  <2>1. ToSet(node.kids) = {r, q} /\ Len(node.keys) = 1 /\ node.kids[1] = r /\ node.kids[1 + 1] = q /\ node.keys[1] = sep
    BY DEF ToSet
  <2>2. rt2[r] = rt[r] /\ rt2[q] = rt[q] /\ rt[r] \cup rt[q] = Nat /\ Parts(rt[r], rt[q], sep)
    BY <1>1, <1>3 DEF SeenAsOne
  <2> HIDE DEF node
  <2>3. \A k : k \in Nat <=> \E c \in ToSet(node.kids) : k \in rt2[c]
    BY <2>1, <2>2
  <2>4. \A i \in 1..Len(node.keys) : i = 1
    BY <2>1
  <2>5. \A i \in 1..Len(node.keys) : Parts(rt2[node.kids[i]], rt2[node.kids[i + 1]], node.keys[i])
    BY <2>1, <2>2, <2>4
  <2> QED BY <2>3, <2>5 DEF Routes
<1> HIDE DEF node
<1>6. ASSUME NEW x \in DOMAIN in
      PROVE  Routes(in[x], rt2[x], rt2)
  <2>1. NodeOK(in[x]) /\ x \in Nat /\ x # m /\ \A d \in ToSet(in[x].kids) : d \in Nat /\ d # r /\ d # m
    BY DEF Tidy, KidsOf
  <2>2. Routes(in[x], rt[x], seen) /\ \A d \in ToSet(in[x].kids) : rt2[d] = seen[d]
    BY <1>1, <1>3, <2>1 DEF SeenAsOne, Sorted
  <2>3. rt2[x] = rt[x]
    BY <1>3, <2>1
  <2> QED BY <2>1, <2>2, <2>3, RoutesAgree
<1>7. \A x \in DOMAIN in2 : Routes(in2[x], rt2[x], rt2)
  BY <1>3, <1>4, <1>5, <1>6
<1>8. \A l \in DOMAIN lf : Stores(lf[l].keys, rt2[l])
  BY <1>1, <1>3 DEF SeenAsOne, Sorted, Tidy
<1>a. Chained(lf, rt2)
  <2>1. Sorted(in, lf, rt, seen) /\ \A x \in DOMAIN lf : rt2[x] = rt[x]
    BY <1>1, <1>3 DEF SeenAsOne, Tidy
  <2> QED BY <2>1, ChainKept
<1>9. Sorted(in2, lf, rt2, rt2) /\ rt2[m] = Nat
  BY <1>3, <1>7, <1>8, <1>a DEF Sorted
<1> QED BY <1>9 DEF AtRest

(* The leaf l has given some of its keys to a new leaf m beside it. *)
LEMMA LeafBeside ==
    ASSUME NEW in, NEW lf, NEW r, Tidy(in, DOMAIN lf, {r}), r \in Nat,
           NEW rt, Sorted(in, lf, rt, rt), rt[r] = Nat,
           NEW l, l \in DOMAIN lf, NEW m, m \in Nat, m \notin DOMAIN in \cup DOMAIN lf, m # r,
           NEW lf2, DOMAIN lf2 = DOMAIN lf \cup {m},
           \A x \in DOMAIN lf : x # l => lf2[x].keys = lf[x].keys /\ lf2[x].next = lf[x].next,
           lf2[l].next = m, lf2[m].next = lf[l].next,
           NEW sep, sep \in Nat, KeptApart(lf2[l].keys, lf2[m].keys, sep, rt[l])
    PROVE  Beside(in, lf2, r, l, m, sep)
<1>1. l \in Nat /\ l # m /\ l \notin DOMAIN in /\ \A x \in DOMAIN lf : x \in Nat
  BY DEF Tidy
<1>2. rt \in Reach /\ rt[l] \subseteq Nat /\ rt[l] \in Intervals
  BY <1>1, ReachFacts DEF Sorted
<1>3. PICK A, B : Stores(lf2[l].keys, A) /\ Stores(lf2[m].keys, B) /\ Parts(A, B, sep) /\ A \cup B = rt[l]
  BY DEF KeptApart
<1> DEFINE rt1 == [rt EXCEPT ![l] = A]
           rt2 == [rt1 EXCEPT ![m] = B]
           see2 == [rt2 EXCEPT ![l] = rt[l]]
<1>4. /\ rt2 \in Reach /\ see2 \in Reach /\ rt2[l] = A /\ rt2[m] = B /\ see2[l] = rt[l]
      /\ \A x \in Nat : x # l /\ x # m => rt2[x] = rt[x] /\ see2[x] = rt[x]
      /\ \A d \in Nat : d # l => see2[d] = rt2[d]
  <2>1. A \in Intervals /\ B \in Intervals
    BY <1>2, <1>3, HalvesAbut
  <2>2. Given(rt1, rt, l, A)
    BY <1>1, <1>2, <2>1, GivenOther
  <2> HIDE DEF rt1
  <2>3. rt1 \in Reach
    BY <2>2 DEF Given
  <2>4. Given(rt2, rt1, m, B)
    BY <2>1, <2>3, GivenOther
  <2> HIDE DEF rt2
  <2>5. rt2 \in Reach
    BY <2>4 DEF Given
  <2>6. Given(see2, rt2, l, rt[l])
    BY <1>1, <1>2, <2>5, GivenOther
  <2> QED BY <1>1, <2>2, <2>4, <2>6 DEF Given
<1> HIDE DEF rt2, see2
<1>5. ASSUME NEW x \in DOMAIN in
      PROVE  Routes(in[x], rt2[x], see2)
  <2>1. NodeOK(in[x]) /\ x \in Nat /\ x # m /\ x # l /\ \A d \in ToSet(in[x].kids) : d \in Nat /\ d # m
    BY <1>1 DEF Tidy, KidsOf
  <2>2. Routes(in[x], rt[x], rt) /\ rt2[x] = rt[x] /\ \A d \in ToSet(in[x].kids) : see2[d] = rt[d]
    BY <1>4, <2>1 DEF Sorted
  <2> QED BY <2>1, <2>2, RoutesAgree
<1>6. ASSUME NEW x \in DOMAIN lf2
      PROVE  Stores(lf2[x].keys, rt2[x])
  <2>1. CASE x = l
    BY <1>3, <1>4, <2>1
  <2>2. CASE x = m
    BY <1>3, <1>4, <2>2
  <2>3. CASE x # l /\ x # m
    <3>1. x \in DOMAIN lf /\ x \in Nat /\ lf2[x].keys = lf[x].keys /\ rt2[x] = rt[x]
      BY <1>1, <1>4, <2>3
    <3> QED BY <3>1 DEF Sorted
  <2> QED BY <2>1, <2>2, <2>3
<1>a. Chained(lf2, rt2)
  <2>1. Chained(lf, rt) /\ \A x \in DOMAIN lf : rt[x] \subseteq Nat
    BY <1>1, <1>2, ReachFacts DEF Sorted
  <2>2. Parts(rt2[l], rt2[m], sep) /\ rt2[l] \cup rt2[m] = rt[l] /\ m \notin DOMAIN lf
    BY <1>3, <1>4
  <2>3. (\A x \in DOMAIN lf : x # l => rt2[x] = rt[x]) /\ \A x \in DOMAIN lf : x # l => lf2[x].next = lf[x].next
    BY <1>1, <1>4
  <2>4. /\ rt[l] \in Intervals /\ l \in DOMAIN lf /\ DOMAIN lf2 = DOMAIN lf \cup {m} /\ sep \in Nat
        /\ lf2[l].next = m /\ lf2[m].next = lf[l].next
    BY <1>2
  <2> QED BY ONLY <2>1, <2>2, <2>3, <2>4, ChainSplits
<1>7. Sorted(in, lf2, rt2, see2)
  BY <1>4, <1>5, <1>6, <1>a DEF Sorted
<1>8. see2[r] = Nat
  BY <1>4
<1>9. Parts(rt2[l], rt2[m], sep) /\ see2[l] = rt2[l] \cup rt2[m] /\ (\A d \in Nat : d # l => see2[d] = rt2[d])
  BY <1>3, <1>4
<1>10. SeenAsOne(in, lf2, r, l, m, sep, rt2, see2)
  BY <1>7, <1>8, <1>9 DEF SeenAsOne
<1> QED BY <1>10 DEF Beside

(* Each node on a key's way down is reached by it. *)
LEMMA ReachedDown ==
    ASSUME NEW in, NEW lf, NEW rt, Sorted(in, lf, rt, rt), NEW h, h \in Nat, NEW p, NEW k, k \in rt[p[1]],
           \A i \in 1..h - 1 : p[i] \in DOMAIN in /\ p[i] \in Nat /\ NodeOK(in[p[i]]) /\ p[i + 1] = ChildFor(in[p[i]], k)
    PROVE  \A i \in 1..h : k \in rt[p[i]]
<1> DEFINE A == {d \in Nat : d + 1 <= h => k \in rt[p[d + 1]]}
<1>1. 0 \in A
  OBVIOUS
<1>2. ASSUME NEW d \in Nat, d \in A PROVE d + 1 \in A
  <2> SUFFICES ASSUME (d + 1) + 1 <= h PROVE k \in rt[p[(d + 1) + 1]]
    OBVIOUS
  <2> DEFINE i == d + 1
  <2>1. i \in 1..h - 1 /\ k \in rt[p[i]]
    BY <1>2
  <2> HIDE DEF i
  <2>2. NodeOK(in[p[i]]) /\ p[i] \in DOMAIN in /\ p[i] \in Nat /\ p[i + 1] = ChildFor(in[p[i]], k)
    BY <2>1
  <2>3. Routes(in[p[i]], rt[p[i]], rt) /\ rt[p[i]] \subseteq Nat
    BY <2>2, ReachFacts DEF Sorted
  <2>4. k \in rt[p[i + 1]]
    BY <2>1, <2>2, <2>3, GoesTo
  <2> QED BY <2>4 DEF i
<1>3. \A d \in Nat : d \in A
  <2> HIDE DEF A
  <2> QED BY <1>1, <1>2, NatInductionOn
<1>4. ASSUME NEW i \in 1..h PROVE k \in rt[p[i]]
  <2>1. i - 1 \in Nat /\ (i - 1) + 1 = i /\ (i - 1) + 1 <= h
    OBVIOUS
  <2>2. i - 1 \in A
    BY <1>3, <2>1
  <2> QED BY <2>1, <2>2
<1> QED BY <1>4

---------------------------------------------------------------------------
(* A cold Insert leaves every key where a descent for it ends *)

LEMMA RestTidy ==
    ASSUME Structure, height # 0
    PROVE  Tidy(inner, DOMAIN leaf, {root}) /\ root \in Index
<1>1. PICK lv, up : Forest(inner, DOMAIN leaf, {root}, height, lv, up)
  BY DEF Structure, Settled
<1>2. \A x \in DOMAIN inner : NodeOK(inner[x])
  BY DEF Structure, Sized
<1>3. Tidy(inner, DOMAIN leaf, {root})
  BY <1>1, <1>2, ForestTidy
<1>4. root \in Index
  BY <1>1, ForestFacts DEF Index
<1> QED BY <1>3, <1>4

(* What a handler knows of the path it has descended. *)
Descended(p, k) ==
    /\ height \in Nat /\ height > 0 /\ p[1] = root
    /\ \A i \in 1..height - 1 :
        /\ p[i] \in DOMAIN inner /\ p[i] \in Nat /\ NodeOK(inner[p[i]])
        /\ p[i + 1] = ChildFor(inner[p[i]], k) /\ p[i + 1] \in KidsOf(inner, p[i])
    /\ p[height] \in DOMAIN leaf /\ LeafOK(leaf[p[height]]) /\ p[height] \in Nat

LEMMA DescentFacts ==
    ASSUME Structure, NEW p, NEW k, Descends(p, k)
    PROVE  Descended(p, k)
<1>1. /\ height \in Nat /\ Sized(inner, root) /\ DOMAIN inner \cup DOMAIN leaf \subseteq 1..highWater
      /\ highWater \in Nat /\ \A n \in DOMAIN leaf : LeafOK(leaf[n])
  BY DEF Structure
<1>2. Steps(p) /\ height > 0 /\ p[1] = root /\ \A i \in 1..height - 1 : p[i + 1] = ChildFor(inner[p[i]], k)
  BY <1>1, DescentsStep DEF Descends
<1>3. PICK lv, up : Forest(inner, DOMAIN leaf, {root}, height, lv, up) /\ lv[root] = height
  BY <1>1, <1>2 DEF Structure, Settled
<1>4. /\ \A i \in 1..height - 1 : p[i] \in DOMAIN inner /\ p[i + 1] \in KidsOf(inner, p[i])
      /\ p[height] \in DOMAIN leaf
  BY <1>1, <1>2, <1>3, PathsGoDown
<1>5. \A x \in DOMAIN inner \cup DOMAIN leaf : x \in Nat
  BY <1>1
<1>6. \A x \in DOMAIN inner : NodeOK(inner[x])
  BY <1>1 DEF Sized
<1> QED BY <1>1, <1>2, <1>4, <1>5, <1>6 DEF Descended

LEMMA KeyReachesLeaf ==
    ASSUME NEW p, NEW k, Descended(p, k), k \in Index, NEW rt, Sorted(inner, leaf, rt, rt), rt[root] = Nat
    PROVE  k \in rt[p[height]] /\ rt[p[height]] \subseteq Nat /\ Stores(leaf[p[height]].keys, rt[p[height]])
<1>1. k \in rt[p[1]]
  BY DEF Descended, Index
<1>2. \A i \in 1..height : k \in rt[p[i]]
  <2>1. \A i \in 1..height - 1 : p[i] \in DOMAIN inner /\ p[i] \in Nat /\ NodeOK(inner[p[i]]) /\ p[i + 1] = ChildFor(inner[p[i]], k)
    BY DEF Descended
  <2>2. height \in Nat
    BY DEF Descended
  <2> QED BY <1>1, <2>1, <2>2, ReachedDown
<1>3. height \in 1..height /\ p[height] \in Nat /\ p[height] \in DOMAIN leaf
  BY DEF Descended
<1>4. rt[p[height]] \subseteq Nat
  BY <1>3, ReachFacts DEF Sorted
<1> QED BY <1>2, <1>3, <1>4 DEF Sorted

LEMMA InsertSplitRests ==
    ASSUME Structure, AtRest(inner, leaf, root), NEW p, NEW k, k \in Index, NEW v, NEW from, NEW spares,
           InsertSplit(p, k, v, from, spares)
    PROVE  AtRest(inner', leaf', root')
<1> DEFINE l == p[height]
           halves == LeafSplit(LeafInsert(LeafOf(p), k, v))
           sep == halves.sep
           u == Propagate(p, halves.sep)
           used == SlotsOf(u)
           m == highWater + 1
           L == DOMAIN leaf \cup {m}
           lf == SplitChain(l, halves)
<1>1. Descends(p, k) /\ KeyCount(leaf[l]) = F /\ ~HasKey(leaf[l], k)
  BY DEF InsertSplit, LeafOf
<1>2. highWater \in Nat /\ DOMAIN inner \cup DOMAIN leaf \subseteq 1..highWater
  BY DEF Structure
<1>3. Descended(p, k)
  BY <1>1, DescentFacts
<1>4. /\ height \in Nat /\ height > 0 /\ height # 0 /\ p[1] = root /\ l \in DOMAIN leaf /\ LeafOK(leaf[l])
      /\ (\A j \in 1..height - 1 : p[j] \in DOMAIN inner) /\ (\A j \in 1..height - 1 : p[j + 1] \in KidsOf(inner, p[j]))
  BY <1>3 DEF Descended
<1>5. Tidy(inner, DOMAIN leaf, {root}) /\ root \in Index
  BY <1>4, RestTidy
<1>6. PICK rt : Sorted(inner, leaf, rt, rt) /\ rt[root] = Nat
  BY DEF AtRest
<1>7. k \in rt[l] /\ rt[l] \subseteq Nat /\ Stores(leaf[l].keys, rt[l])
  BY <1>3, <1>6, KeyReachesLeaf
<1>8. LeafOK(halves.left) /\ LeafOK(halves.right) /\ sep \in Index /\ KeptApart(halves.left.keys, halves.right.keys, sep, rt[l])
  <2> DEFINE n == LeafInsert(leaf[l], k, v)
  <2>1. LeafOK(n) /\ Len(n.keys) = Len(leaf[l].keys) + 1 /\ Stores(n.keys, rt[l])
    BY <1>1, <1>4, <1>7, LeafInsertOK, LeafInsertStores
  <2>2. Len(n.keys) > 1 /\ Len(n.keys) > 0
    BY <1>1, <2>1, FanoutFacts DEF KeyCount
  <2>3. halves = LeafSplit(n)
    BY DEF LeafOf
  <2> HIDE DEF n, halves
  <2> QED BY <1>7, <2>1, <2>2, <2>3, LeafSplitOK, LeafSplitStores
<1>9. /\ leaf' = lf
      /\ inner' = IF u.rising THEN With(u.inner, used, [keys |-> <<u.sep>>, kids |-> <<root, u.right>>])
                  ELSE u.inner
      /\ root' = IF u.rising THEN used ELSE root
  BY DEF InsertSplit
<1> HIDE DEF halves, u, sep
<1>10. /\ DOMAIN lf = L /\ lf[l].keys = halves.left.keys /\ lf[m].keys = halves.right.keys
       /\ lf[l].next = m /\ lf[m].next = leaf[l].next
       /\ \A x \in DOMAIN leaf : x # l => lf[x].keys = leaf[x].keys /\ lf[x].next = leaf[x].next
  <2>1. /\ [halves.left EXCEPT !.next = m].keys = halves.left.keys
        /\ [halves.right EXCEPT !.next = leaf[l].next].keys = halves.right.keys
        /\ [halves.left EXCEPT !.next = m].next = m
        /\ [halves.right EXCEPT !.next = leaf[l].next].next = leaf[l].next
    BY <1>8 DEF LeafOK
  <2>2. lf = With([leaf EXCEPT ![l] = [halves.left EXCEPT !.next = m]], m, [halves.right EXCEPT !.next = leaf[l].next])
    BY DEF SplitChain
  <2>3. m \notin DOMAIN leaf /\ l # m
    BY <1>2, <1>4
  <2> HIDE DEF lf, m
  <2> QED BY <1>4, <2>1, <2>2, <2>3 DEF With
<1> HIDE DEF lf
<1>11. m \in Nat /\ m \notin DOMAIN inner \cup DOMAIN leaf /\ m # root
  <2>1. root \in DOMAIN inner \cup DOMAIN leaf
    BY <1>4, ForestFacts DEF Structure, Settled
  <2> QED BY <1>2, <2>1
<1>12. Beside(inner, lf, root, l, m, sep)
  <2>1. KeptApart(lf[l].keys, lf[m].keys, sep, rt[l]) /\ DOMAIN lf = DOMAIN leaf \cup {m} /\ root \in Nat /\ sep \in Nat
    BY <1>5, <1>8, <1>10 DEF Index
  <2> HIDE DEF l, m
  <2> QED BY <1>4, <1>5, <1>6, <1>10, <1>11, <2>1, LeafBeside
<1>13. Climbing(Bottom(sep), height, p, inner, L, highWater, height)
  BY <1>1, <1>8, BottomClimbs
<1>14. Routing(Bottom(sep), height, p, inner, lf)
  <2> DEFINE b == Bottom(sep)
  <2>1. b.rising = TRUE /\ b.inner = inner /\ b.right = m /\ b.sep = sep
    BY DEF Bottom
  <2> HIDE DEF b, m
  <2>2. Routing(b, height, p, inner, lf)
    BY <1>4, <1>12, <2>1 DEF Routing
  <2> QED BY <2>2 DEF b
<1>15. Climbing(u, 1, p, inner, L, highWater, height) /\ Routing(u, 1, p, inner, lf)
  <2>1. DOMAIN inner \cup L \subseteq 1..highWater + 1 /\ p[height] \in L /\ L = DOMAIN lf /\ u = Propagate(p, sep)
    BY <1>2, <1>4, <1>10 DEF u, sep
  <2> HIDE DEF L
  <2> QED BY <1>2, <1>4, <1>13, <1>14, <2>1, ClimbRouted
<1>16. CASE u.rising = FALSE
  BY <1>4, <1>9, <1>15, <1>16 DEF Routing
<1>17. CASE u.rising = TRUE
  <2>1. /\ root' = u.used + 1
        /\ inner' = With(u.inner, u.used + 1, [keys |-> <<u.sep>>, kids |-> <<p[1], u.right>>])
    BY <1>4, <1>9, <1>17 DEF SlotsOf
  <2>2. /\ Hovering(u.inner, L, u.right, height, p, 1) /\ u.right # p[1]
        /\ Sized(u.inner, p[1]) /\ u.used \in Nat /\ u.used > highWater
        /\ DOMAIN u.inner \subseteq DOMAIN inner \cup highWater + 2..u.used
    BY <1>15, <1>17 DEF Climbing
  <2>3. PICK lv, up : Forest(u.inner, L, {p[1], u.right}, height, lv, up)
    BY <2>2 DEF Hovering
  <2>4. Tidy(u.inner, DOMAIN lf, {p[1], u.right})
    <3>1. \A x \in DOMAIN u.inner : NodeOK(u.inner[x])
      BY <2>2 DEF Sized
    <3>2. Tidy(u.inner, L, {p[1], u.right})
      BY <2>3, <3>1, ForestTidy
    <3> QED BY <1>10, <3>2
  <2>5. p[1] \in Nat /\ u.right \in Nat /\ p[1] \in DOMAIN u.inner \cup L /\ u.right \in DOMAIN u.inner \cup L
    <3> HIDE DEF L
    <3>1. {p[1], u.right} \subseteq DOMAIN u.inner \cup L /\ \A c \in DOMAIN u.inner \cup L : c \in Nat
      BY <2>3, ForestFacts
    <3> QED BY <3>1
  <2>6. u.used + 1 \in Nat /\ u.used + 1 \notin DOMAIN u.inner \cup L /\ u.used + 1 # p[1] /\ u.used + 1 # u.right
    <3>1. u.used + 1 \notin DOMAIN u.inner \cup L
      BY <1>2, <2>2
    <3> QED BY <2>2, <2>5, <3>1
  <2>7. Beside(u.inner, lf, p[1], p[1], u.right, u.sep)
    BY <1>15, <1>17 DEF Routing
  <2> DEFINE in == u.inner
             r == p[1]
             q == u.right
             s == u.sep
             t == u.used + 1
  <2>8. /\ Tidy(in, DOMAIN lf, {r, q}) /\ r \in Nat /\ q \in Nat /\ r # q /\ Beside(in, lf, r, r, q, s)
        /\ t \in Nat /\ t \notin DOMAIN in \cup DOMAIN lf /\ t # r /\ t # q
        /\ inner' = With(in, t, [keys |-> <<s>>, kids |-> <<r, q>>]) /\ root' = t
    BY <1>10, <2>1, <2>2, <2>4, <2>5, <2>6, <2>7
  <2> HIDE DEF in, r, q, s, t
  <2>9. AtRest(inner', lf, t)
    BY <2>8, CrownRests
  <2> QED BY <1>9, <2>8, <2>9
<1> QED BY <1>15, <1>16, <1>17 DEF Climbing

---------------------------------------------------------------------------
(* Rebalancing: two neighbours share their keys anew, or become one *)

(* The kids on the two sides of a separator of n. *)
Twins(in, L, R, n, l, r) ==
    /\ l \in KidsOf(in, n) /\ r \in KidsOf(in, n) /\ l # r /\ l # n /\ r # n
    /\ l \notin R /\ r \notin R /\ l \in Nat /\ r \in Nat /\ n \in Nat /\ NodeOK(in[n])
    /\ l \in DOMAIN in \cup L /\ r \in DOMAIN in \cup L
    /\ \A y \in DOMAIN in : y # n => l \notin KidsOf(in, y) /\ r \notin KidsOf(in, y)
    /\ l \in DOMAIN in /\ r \in DOMAIN in => KidsOf(in, l) \cap KidsOf(in, r) = {}

LEMMA TwinFacts ==
    ASSUME NEW in, NEW L, NEW R, Tidy(in, L, R), NEW n, n \in DOMAIN in, NEW s, s \in Occupied(in[n]),
           NEW l, l = in[n].kids[s], NEW r, r = in[n].kids[s + 1]
    PROVE  Twins(in, L, R, n, l, r)
<1>1. NodeOK(in[n]) /\ n \in Nat
  BY DEF Tidy
<1>2. s \in 1..Len(in[n].keys) + 1 /\ s + 1 \in 1..Len(in[n].keys) + 1 /\ s # s + 1
  <2>1. Len(in[n].keys) \in Nat
    BY <1>1, NodeLists
  <2>2. s \in 1..Len(in[n].keys)
    BY DEF Occupied
  <2> QED BY <2>1, <2>2
<1>3. l # r
  BY <1>1, <1>2, NodeLists
<1>4. l \in KidsOf(in, n) /\ r \in KidsOf(in, n)
  BY <1>1, <1>2, NodeLists DEF KidsOf, ToSet
<1>5. /\ l # n /\ r # n /\ l \notin R /\ r \notin R /\ l \in DOMAIN in \cup L /\ r \in DOMAIN in \cup L
      /\ l \in Nat /\ r \in Nat
  BY <1>4 DEF Tidy
<1>6. \A y \in DOMAIN in : y # n => l \notin KidsOf(in, y) /\ r \notin KidsOf(in, y)
  BY <1>4 DEF Tidy
<1>7. l \in DOMAIN in /\ r \in DOMAIN in => KidsOf(in, l) \cap KidsOf(in, r) = {}
  BY <1>3 DEF Tidy
<1> QED BY <1>1, <1>3, <1>4, <1>5, <1>6, <1>7 DEF Twins

Rests(in, rt) == rt \in Reach /\ \A y \in DOMAIN in : Routes(in[y], rt[y], rt)

(* What stands between the two before the step. *)
Halved(rt, l, r, sep) ==
    /\ sep \in Index /\ sep \in Nat /\ Parts(rt[l], rt[r], sep)
    /\ rt[l] \cup rt[r] \subseteq Nat /\ rt[l] \cup rt[r] \in Intervals

LEMMA TwinsShare ==
    ASSUME NEW in, NEW L, NEW R, NEW n, n \in DOMAIN in, NEW l, NEW r, Twins(in, L, R, n, l, r),
           NEW s, s \in Occupied(in[n]), l = in[n].kids[s], r = in[n].kids[s + 1], NEW rt, Rests(in, rt)
    PROVE  Halved(rt, l, r, in[n].keys[s])
<1> DEFINE sep == in[n].keys[s]
<1>1. s \in 1..Len(in[n].keys) /\ n \in Nat /\ NodeOK(in[n]) /\ l \in Nat /\ r \in Nat
  BY DEF Occupied, Twins
<1>2. sep \in Index /\ sep \in Nat
  BY <1>1, NodeLists DEF Index
<1>3. Parts(rt[l], rt[r], sep)
  BY <1>1 DEF Rests, Routes
<1>4. rt[l] \subseteq Nat /\ rt[r] \subseteq Nat /\ rt[n] \in Intervals /\ Routes(in[n], rt[n], rt)
  BY <1>1, ReachFacts DEF Rests
<1>5. rt[l] \cup rt[r] \in Intervals
  BY <1>1, <1>4, KidsAbut
<1> QED BY <1>2, <1>3, <1>4, <1>5 DEF Halved

(* l and r are given A and B for what they had. *)
Retold(in, n, l, r, node, A, B, rt, rt2) ==
    /\ rt2 \in Reach /\ rt2[l] = A /\ rt2[r] = B
    /\ \A y \in Nat : y # l /\ y # r => rt2[y] = rt[y]
    /\ Routes(node, rt2[n], rt2)
    /\ \A y \in DOMAIN in : y # n /\ y # l /\ y # r => Routes(in[y], rt2[y], rt2)

Resepped(node, n, s, sep) == node = [n EXCEPT !.keys[s] = sep]

LEMMA Retells ==
    ASSUME NEW in, NEW L, NEW R, Tidy(in, L, R), NEW n, n \in DOMAIN in, NEW s, s \in Occupied(in[n]),
           NEW l, l = in[n].kids[s], NEW r, r = in[n].kids[s + 1], NEW rt, Rests(in, rt),
           NEW A, NEW B, A \cup B = rt[l] \cup rt[r], NEW sep, sep \in Index, Parts(A, B, sep),
           NEW node, Resepped(node, in[n], s, sep)
    PROVE  \E rt2 : Retold(in, n, l, r, node, A, B, rt, rt2)
<1>1. Twins(in, L, R, n, l, r)
  BY TwinFacts
<1>2. l # r /\ l # n /\ r # n /\ l \in Nat /\ r \in Nat /\ n \in Nat /\ NodeOK(in[n])
  BY <1>1 DEF Twins
<1>3. rt \in Reach /\ Routes(in[n], rt[n], rt) /\ rt[n] \subseteq Nat /\ A \in Intervals /\ B \in Intervals
  <2>1. rt \in Reach /\ Routes(in[n], rt[n], rt) /\ rt[n] \subseteq Nat
    BY <1>2, ReachFacts DEF Rests
  <2>2. A \cup B \in Intervals
    <3>1. Halved(rt, l, r, in[n].keys[s])
      BY <1>1, TwinsShare
    <3> QED BY <3>1 DEF Halved
  <2>3. sep \in Nat
    BY DEF Index
  <2> DEFINE W == A \cup B
  <2>4. W \in Intervals /\ A \cup B = W /\ sep \in Nat /\ Parts(A, B, sep)
    BY <2>2, <2>3
  <2> HIDE DEF W
  <2>5. A \in Intervals /\ B \in Intervals
    BY ONLY <2>4, HalvesAbut
  <2> QED BY <2>1, <2>5
<1> DEFINE rt1 == [rt EXCEPT ![l] = A]
           rt2 == [rt1 EXCEPT ![r] = B]
<1>4. Given(rt1, rt, l, A)
  BY <1>2, <1>3, GivenOther
<1> HIDE DEF rt1
<1>5. rt1 \in Reach
  BY <1>4 DEF Given
<1>6. Given(rt2, rt1, r, B)
  BY <1>2, <1>3, <1>5, GivenOther
<1> HIDE DEF rt2
<1>7. /\ rt2 \in Reach /\ rt2[l] = A /\ rt2[r] = B
      /\ \A y \in Nat : y # l /\ y # r => rt2[y] = rt[y]
  BY <1>2, <1>4, <1>6 DEF Given
<1>8. Routes(node, rt2[n], rt2)
  <2>1. Parts(rt2[l], rt2[r], sep) /\ rt2[l] \cup rt2[r] = rt[l] \cup rt[r] /\ rt2[n] = rt[n] /\ sep \in Nat
    BY <1>2, <1>7 DEF Index
  <2>2. \A d \in ToSet(in[n].kids) : d \notin {l, r} => rt2[d] = rt[d]
    BY <1>7 DEF Tidy, KidsOf
  <2>3. node = [in[n] EXCEPT !.keys[s] = sep]
    BY DEF Resepped
  <2> QED BY <1>2, <1>3, <2>1, <2>2, <2>3, ResepRoutes
<1>9. ASSUME NEW y \in DOMAIN in, y # n, y # l, y # r
      PROVE  Routes(in[y], rt2[y], rt2)
  <2>1. NodeOK(in[y]) /\ y \in Nat /\ \A d \in ToSet(in[y].kids) : d \in Nat
    BY DEF Tidy, KidsOf
  <2>2. \A d \in ToSet(in[y].kids) : rt2[d] = rt[d]
    BY <1>1, <1>7, <1>9, <2>1 DEF Twins, KidsOf
  <2>3. Routes(in[y], rt[y], rt) /\ rt2[y] = rt[y]
    BY <1>7, <1>9, <2>1 DEF Rests
  <2> QED BY <2>1, <2>2, <2>3, RoutesAgree
<1>10. Retold(in, n, l, r, node, A, B, rt, rt2)
  BY <1>7, <1>8, <1>9 DEF Retold
<1> QED BY <1>10

(* r is folded into l. *)
Refolded(in, n, l, r, node, rt, rt2) ==
    /\ rt2 \in Reach /\ rt2[l] = rt[l] \cup rt[r]
    /\ \A y \in Nat : y # l => rt2[y] = rt[y]
    /\ Routes(node, rt2[n], rt2)
    /\ \A y \in DOMAIN in : y # n /\ y # l /\ y # r => Routes(in[y], rt2[y], rt2)

LEMMA Refolds ==
    ASSUME NEW in, NEW L, NEW R, Tidy(in, L, R), NEW n, n \in DOMAIN in, NEW s, s \in Occupied(in[n]),
           NEW l, l = in[n].kids[s], NEW r, r = in[n].kids[s + 1], NEW rt, Rests(in, rt),
           NEW node, node = InternalRemoveAt(in[n], s)
    PROVE  \E rt2 : Refolded(in, n, l, r, node, rt, rt2)
<1>1. Twins(in, L, R, n, l, r)
  BY TwinFacts
<1>2. l # r /\ l # n /\ r # n /\ l \in Nat /\ r \in Nat /\ n \in Nat /\ NodeOK(in[n])
  BY <1>1 DEF Twins
<1>3. /\ rt \in Reach /\ Routes(in[n], rt[n], rt) /\ rt[n] \subseteq Nat /\ rt[l] \subseteq Nat /\ rt[r] \subseteq Nat
      /\ rt[l] \cup rt[r] \subseteq Nat
  BY <1>2, ReachFacts DEF Rests
<1> DEFINE W == rt[l] \cup rt[r]
           rt2 == [rt EXCEPT ![l] = W]
<1>4. Given(rt2, rt, l, W)
  <2>1. W \in Intervals
    <3>1. Halved(rt, l, r, in[n].keys[s])
      BY <1>1, TwinsShare
    <3> QED BY <3>1 DEF Halved
  <2> HIDE DEF W
  <2> QED BY <1>2, <1>3, <2>1, GivenOther
<1> HIDE DEF rt2
<1>5. /\ rt2 \in Reach /\ rt2[l] = rt[l] \cup rt[r]
      /\ \A y \in Nat : y # l => rt2[y] = rt[y]
  BY <1>4 DEF Given
<1>6. Routes(node, rt2[n], rt2)
  <2>1. rt2[n] = rt[n] /\ \A d \in ToSet(in[n].kids) : d \notin {l, r} => rt2[d] = rt[d]
    BY <1>2, <1>5 DEF Tidy, KidsOf
  <2> QED BY <1>2, <1>3, <1>5, <2>1, DroppedRoutes
<1>7. ASSUME NEW y \in DOMAIN in, y # n, y # l, y # r
      PROVE  Routes(in[y], rt2[y], rt2)
  <2>1. NodeOK(in[y]) /\ y \in Nat /\ \A d \in ToSet(in[y].kids) : d \in Nat
    BY DEF Tidy, KidsOf
  <2>2. \A d \in ToSet(in[y].kids) : rt2[d] = rt[d]
    BY <1>1, <1>5, <1>7, <2>1 DEF Twins, KidsOf
  <2>3. Routes(in[y], rt[y], rt) /\ rt2[y] = rt[y]
    BY <1>5, <1>7, <2>1 DEF Rests
  <2> QED BY <2>1, <2>2, <2>3, RoutesAgree
<1>8. Refolded(in, n, l, r, node, rt, rt2)
  BY <1>5, <1>6, <1>7 DEF Refolded
<1> QED BY <1>8

(* What leaf operations do to the chain. *)
LEMMA NextKept ==
    ASSUME NEW n, LeafOK(n), NEW k, NEW v
    PROVE  LeafInsert(n, k, v).next = n.next /\ LeafDelete(n, k).next = n.next /\ LeafUpdate(n, k, v).next = n.next
<1> DEFINE i == LowerBound(n.keys, k)
           a == InsertAt(n.keys, i, k)
           b == InsertAt(n.vals, i, v)
           c == RemoveAt(n.keys, i)
           d == RemoveAt(n.vals, i)
<1>1. n = [keys |-> n.keys, vals |-> n.vals, next |-> n.next]
  BY DEF LeafOK
<1>2. LeafInsert(n, k, v) = [n EXCEPT !.keys = a, !.vals = b]
  BY DEF LeafInsert
<1>3. LeafDelete(n, k) = [n EXCEPT !.keys = c, !.vals = d]
  BY DEF LeafDelete
<1>4. LeafUpdate(n, k, v).next = n.next
  BY <1>1 DEF LeafUpdate
<1> HIDE DEF a, b, c, d
<1>5. LeafInsert(n, k, v) = [keys |-> a, vals |-> b, next |-> n.next]
  BY <1>1, <1>2, LeafEdit
<1>6. LeafDelete(n, k) = [keys |-> c, vals |-> d, next |-> n.next]
  BY <1>1, <1>3, LeafEdit
<1> QED BY <1>4, <1>5, <1>6

LEMMA NextsKept ==
    ASSUME NEW a, NEW b, LeafOK(a), LeafOK(b)
    PROVE  /\ LeafBorrowFromRight(a, b).left.next = a.next /\ LeafBorrowFromRight(a, b).right.next = b.next
           /\ LeafBorrowFromLeft(a, b).left.next = a.next /\ LeafBorrowFromLeft(a, b).right.next = b.next
           /\ LeafMerge(a, b).next = b.next
<1>1. /\ a = [keys |-> a.keys, vals |-> a.vals, next |-> a.next]
      /\ b = [keys |-> b.keys, vals |-> b.vals, next |-> b.next]
  BY DEF LeafOK
<1>2. \A x, y : [a EXCEPT !.keys = x, !.vals = y].next = a.next /\ [b EXCEPT !.keys = x, !.vals = y].next = b.next
  BY <1>1
<1>3. \A x, y, z : [a EXCEPT !.keys = x, !.vals = y, !.next = z].next = z
  BY <1>1
<1>4. LeafBorrowFromRight(a, b).left.next = a.next /\ LeafBorrowFromRight(a, b).right.next = b.next
  BY <1>2 DEF LeafBorrowFromRight
<1>5. LeafBorrowFromLeft(a, b).left.next = a.next /\ LeafBorrowFromLeft(a, b).right.next = b.next
  BY <1>2 DEF LeafBorrowFromLeft
<1>6. LeafMerge(a, b).next = b.next
  BY <1>3 DEF LeafMerge
<1> QED BY <1>4, <1>5, <1>6

(* A leaf lends its neighbour an entry. *)
LeafLent(b, lf, l, r) ==
    \/ Len(lf[r].keys) > 1 /\ b = LeafBorrowFromRight(lf[l], lf[r])
    \/ Len(lf[l].keys) > 1 /\ b = LeafBorrowFromLeft(lf[l], lf[r])

LEMMA LeafBorrowRests ==
    ASSUME NEW in, NEW lf, NEW R, Tidy(in, DOMAIN lf, R), NEW x, x \in R, x \in Nat, AtRest(in, lf, x), LeavesOK(lf),
           NEW n, n \in DOMAIN in, NEW s, s \in Occupied(in[n]),
           NEW l, l = in[n].kids[s], NEW r, r = in[n].kids[s + 1], l \in DOMAIN lf, r \in DOMAIN lf,
           NEW b, LeafLent(b, lf, l, r), b.sep \in Index,
           NEW in3, DOMAIN in3 = DOMAIN in, Resepped(in3[n], in[n], s, b.sep),
           \A y \in DOMAIN in : y # n => in3[y] = in[y],
           NEW lf3, DOMAIN lf3 = DOMAIN lf, lf3[l] = b.left, lf3[r] = b.right,
           \A y \in DOMAIN lf : y # l /\ y # r => lf3[y] = lf[y]
    PROVE  AtRest(in3, lf3, x)
<1>1. PICK rt : Sorted(in, lf, rt, rt) /\ rt[x] = Nat
  BY DEF AtRest
<1>2. Twins(in, DOMAIN lf, R, n, l, r) /\ Rests(in, rt)
  BY <1>1, TwinFacts DEF Rests, Sorted
<1>3. /\ l # r /\ l # n /\ r # n /\ l \in Nat /\ r \in Nat /\ n \in Nat /\ NodeOK(in[n]) /\ x # l /\ x # r
      /\ l \notin DOMAIN in /\ r \notin DOMAIN in
  BY <1>2 DEF Twins, Tidy
<1> DEFINE sep == in[n].keys[s]
           W == rt[l] \cup rt[r]
<1>4. sep \in Index /\ Parts(rt[l], rt[r], sep) /\ W \subseteq Nat /\ W \in Intervals
  <2>1. Halved(rt, l, r, in[n].keys[s])
    BY <1>2, TwinsShare
  <2> QED BY <2>1 DEF Halved
<1>5. LeafOK(lf[l]) /\ LeafOK(lf[r])
  BY DEF LeavesOK
<1>6. KeptApart(lf[l].keys, lf[r].keys, sep, W)
  BY <1>1, <1>4 DEF Sorted, KeptApart
<1> HIDE DEF sep, W
<1>7. KeptApart(b.left.keys, b.right.keys, b.sep, W)
  <2> DEFINE u == lf[l]
             z == lf[r]
  <2>1. /\ LeafOK(u) /\ LeafOK(z) /\ sep \in Index /\ W \subseteq Nat /\ KeptApart(u.keys, z.keys, sep, W)
        /\ \/ Len(z.keys) > 1 /\ b = LeafBorrowFromRight(u, z)
           \/ Len(u.keys) > 1 /\ b = LeafBorrowFromLeft(u, z)
    BY <1>4, <1>5, <1>6 DEF LeafLent
  <2> HIDE DEF u, z
  <2>2. CASE Len(z.keys) > 1 /\ b = LeafBorrowFromRight(u, z)
    BY ONLY <2>1, <2>2, RightLeafLends
  <2>3. CASE Len(u.keys) > 1 /\ b = LeafBorrowFromLeft(u, z)
    BY ONLY <2>1, <2>3, LeftLeafLends
  <2> QED BY <2>1, <2>2, <2>3
<1>8. PICK A, B : Stores(b.left.keys, A) /\ Stores(b.right.keys, B) /\ Parts(A, B, b.sep) /\ A \cup B = W
  BY <1>7 DEF KeptApart
<1>9. PICK rt2 : Retold(in, n, l, r, in3[n], A, B, rt, rt2)
  <2>1. A \cup B = rt[l] \cup rt[r]
    BY <1>8 DEF W
  <2> QED BY <1>2, <1>8, <2>1, Retells
<1>10. \A y \in DOMAIN in3 : Routes(in3[y], rt2[y], rt2)
  BY <1>3, <1>9 DEF Retold
<1>11. \A y \in DOMAIN lf3 : Stores(lf3[y].keys, rt2[y])
  <2>1. \A y \in DOMAIN lf : y # l /\ y # r => lf3[y] = lf[y] /\ rt2[y] = rt[y]
    BY <1>9 DEF Retold, Tidy
  <2>2. lf3[l] = b.left /\ lf3[r] = b.right /\ DOMAIN lf3 = DOMAIN lf
    BY <1>3
  <2> HIDE DEF W
  <2> QED BY <1>1, <1>8, <1>9, <2>1, <2>2 DEF Retold, Sorted
<1>a. \A y \in DOMAIN lf : lf3[y].next = lf[y].next
  <2> DEFINE u == lf[l]
             z == lf[r]
  <2>1. /\ LeafOK(u) /\ LeafOK(z) /\ lf3[l] = b.left /\ lf3[r] = b.right
        /\ b = LeafBorrowFromRight(u, z) \/ b = LeafBorrowFromLeft(u, z)
    BY <1>5 DEF LeafLent
  <2> HIDE DEF u, z
  <2>2. lf3[l].next = u.next /\ lf3[r].next = z.next
    BY <2>1, NextsKept
  <2> QED BY <2>2 DEF u, z
<1>b. Chained(lf3, rt2)
  <2>1. Chained(lf, rt) /\ (\A y \in DOMAIN lf : rt[y] \subseteq Nat)
    BY <1>1, ReachFacts DEF Sorted, Tidy
  <2>2. l \in DOMAIN lf /\ r \in DOMAIN lf /\ l # r /\ rt[l] \cup rt[r] \in Intervals /\ sep \in Nat /\ Parts(rt[l], rt[r], sep)
    BY <1>3, <1>4 DEF W, Index
  <2>3. b.sep \in Nat /\ Parts(rt2[l], rt2[r], b.sep) /\ rt2[l] \cup rt2[r] = rt[l] \cup rt[r]
    BY <1>8, <1>9 DEF Retold, W, Index
  <2>4. \A y \in DOMAIN lf : y # l /\ y # r => rt2[y] = rt[y]
    BY <1>9 DEF Retold, Tidy
  <2>5. DOMAIN lf3 = DOMAIN lf /\ \A y \in DOMAIN lf : lf3[y].next = lf[y].next
    BY <1>a
  <2> QED BY ONLY <2>1, <2>2, <2>3, <2>4, <2>5, ChainShares
<1>12. Sorted(in3, lf3, rt2, rt2) /\ rt2[x] = Nat
  BY <1>1, <1>3, <1>9, <1>10, <1>11, <1>b DEF Sorted, Retold
<1> QED BY <1>12 DEF AtRest

(* An internal node lends its neighbour a kid. *)
LEMMA InnerBorrowRests ==
    ASSUME NEW in, NEW lf, NEW R, Tidy(in, DOMAIN lf, R), NEW x, x \in R, x \in Nat, AtRest(in, lf, x),
           NEW n, n \in DOMAIN in, NEW s, s \in Occupied(in[n]),
           NEW l, l = in[n].kids[s], NEW r, r = in[n].kids[s + 1], l \in DOMAIN in, r \in DOMAIN in,
           NEW b, Rotated(b, in[l], in[r], in[n].keys[s]), b.sep \in Index, NodeOK(b.left), NodeOK(b.right),
           NEW in3, DOMAIN in3 = DOMAIN in, Resepped(in3[n], in[n], s, b.sep), in3[l] = b.left, in3[r] = b.right,
           ToSet(b.left.kids) \cup ToSet(b.right.kids) \subseteq ToSet(in[l].kids) \cup ToSet(in[r].kids),
           \A y \in DOMAIN in : y # n /\ y # l /\ y # r => in3[y] = in[y]
    PROVE  AtRest(in3, lf, x)
<1>1. PICK rt : Sorted(in, lf, rt, rt) /\ rt[x] = Nat
  BY DEF AtRest
<1>2. Twins(in, DOMAIN lf, R, n, l, r) /\ Rests(in, rt)
  BY <1>1, TwinFacts DEF Rests, Sorted
<1>3. /\ l # r /\ l # n /\ r # n /\ l \in Nat /\ r \in Nat /\ n \in Nat /\ NodeOK(in[n]) /\ x # l /\ x # r
      /\ NodeOK(in[l]) /\ NodeOK(in[r]) /\ ToSet(in[l].kids) \cap ToSet(in[r].kids) = {}
  BY <1>2 DEF Twins, Tidy, KidsOf
<1> DEFINE sep == in[n].keys[s]
           W == rt[l] \cup rt[r]
<1>4. sep \in Index /\ Parts(rt[l], rt[r], sep) /\ W \subseteq Nat
  <2>1. Halved(rt, l, r, in[n].keys[s])
    BY <1>2, TwinsShare
  <2> QED BY <2>1 DEF Halved
<1>5. Shares(in[l], in[r], sep, W, rt)
  BY <1>2, <1>4 DEF Shares, Rests
<1>6. Rotated(b, in[l], in[r], sep)
  OBVIOUS
<1> HIDE DEF sep, W
<1>7. Shares(b.left, b.right, b.sep, W, rt)
  BY <1>3, <1>4, <1>5, <1>6, RotationShares
<1>8. PICK A, B : Routes(b.left, A, rt) /\ Routes(b.right, B, rt) /\ Parts(A, B, b.sep) /\ A \cup B = W
  BY <1>7 DEF Shares
<1>9. PICK rt2 : Retold(in, n, l, r, in3[n], A, B, rt, rt2)
  <2>1. A \cup B = rt[l] \cup rt[r]
    BY <1>8 DEF W
  <2> QED BY <1>2, <1>8, <2>1, Retells
<1>10. \A d \in ToSet(in[l].kids) \cup ToSet(in[r].kids) : rt2[d] = rt[d]
  <2>1. \A d \in ToSet(in[l].kids) \cup ToSet(in[r].kids) : d \in Nat /\ d # l /\ d # r
    BY <1>2, <1>3 DEF Twins, Tidy, KidsOf
  <2> QED BY <1>9, <2>1 DEF Retold
<1>11. Routes(in3[l], rt2[l], rt2) /\ Routes(in3[r], rt2[r], rt2)
  <2>1. (\A d \in ToSet(b.left.kids) : rt2[d] = rt[d]) /\ (\A d \in ToSet(b.right.kids) : rt2[d] = rt[d])
    BY <1>10
  <2>2. Routes(b.left, A, rt2) /\ Routes(b.right, B, rt2)
    BY <1>8, <2>1, RoutesAgree
  <2> QED BY <1>9, <2>2 DEF Retold
<1>12. \A y \in DOMAIN in3 : Routes(in3[y], rt2[y], rt2)
  BY <1>9, <1>11 DEF Retold
<1>13. \A y \in DOMAIN lf : Stores(lf[y].keys, rt2[y])
  <2>1. \A y \in DOMAIN lf : y \in Nat /\ y # l /\ y # r
    BY DEF Tidy
  <2> QED BY <1>1, <1>9, <2>1 DEF Retold, Sorted
<1>a. Chained(lf, rt2)
  <2>1. \A y \in DOMAIN lf : y \in Nat /\ y # l /\ y # r
    BY DEF Tidy
  <2>2. \A y \in DOMAIN lf : rt2[y] = rt[y]
    BY <1>9, <2>1 DEF Retold
  <2> QED BY <1>1, <2>2, ChainKept
<1>14. Sorted(in3, lf, rt2, rt2) /\ rt2[x] = Nat
  BY <1>1, <1>3, <1>9, <1>12, <1>13, <1>a DEF Sorted, Retold
<1> QED BY <1>14 DEF AtRest

(* Two leaves become one. *)
LEMMA LeafMergeRests ==
    ASSUME NEW in, NEW lf, NEW R, Tidy(in, DOMAIN lf, R), NEW x, x \in R, x \in Nat, AtRest(in, lf, x), LeavesOK(lf),
           NEW n, n \in DOMAIN in, NEW s, s \in Occupied(in[n]),
           NEW l, l = in[n].kids[s], NEW r, r = in[n].kids[s + 1], l \in DOMAIN lf, r \in DOMAIN lf,
           NEW in3, DOMAIN in3 = DOMAIN in, in3[n] = InternalRemoveAt(in[n], s),
           \A y \in DOMAIN in : y # n => in3[y] = in[y],
           NEW lf3, DOMAIN lf3 = DOMAIN lf \ {r}, lf3[l] = LeafMerge(lf[l], lf[r]),
           \A y \in DOMAIN lf : y # l /\ y # r => lf3[y] = lf[y]
    PROVE  AtRest(in3, lf3, x)
<1>1. PICK rt : Sorted(in, lf, rt, rt) /\ rt[x] = Nat
  BY DEF AtRest
<1>2. Twins(in, DOMAIN lf, R, n, l, r) /\ Rests(in, rt)
  BY <1>1, TwinFacts DEF Rests, Sorted
<1>3. /\ l # r /\ l # n /\ r # n /\ l \in Nat /\ r \in Nat /\ n \in Nat /\ NodeOK(in[n]) /\ x # l /\ x # r
      /\ l \notin DOMAIN in /\ r \notin DOMAIN in /\ LeafOK(lf[l]) /\ LeafOK(lf[r])
  BY <1>2 DEF Twins, Tidy, LeavesOK
<1> DEFINE sep == in[n].keys[s]
           W == rt[l] \cup rt[r]
           node == InternalRemoveAt(in[n], s)
<1>4. sep \in Index /\ Parts(rt[l], rt[r], sep) /\ W \subseteq Nat /\ W \in Intervals
  <2>1. Halved(rt, l, r, in[n].keys[s])
    BY <1>2, TwinsShare
  <2> QED BY <2>1 DEF Halved
<1>5. KeptApart(lf[l].keys, lf[r].keys, sep, W)
  BY <1>1, <1>4 DEF Sorted, KeptApart
<1> HIDE DEF sep, W
<1>6. Stores(LeafMerge(lf[l], lf[r]).keys, W)
  BY <1>3, <1>4, <1>5, LeafMergeStores
<1>7. PICK rt2 : Refolded(in, n, l, r, node, rt, rt2)
  BY <1>2, Refolds
<1>8. \A y \in DOMAIN in3 : Routes(in3[y], rt2[y], rt2)
  <2>1. in3[n] = node /\ DOMAIN in3 = DOMAIN in /\ \A y \in DOMAIN in : y # n => in3[y] = in[y]
    OBVIOUS
  <2> HIDE DEF node
  <2> QED BY <1>3, <1>7, <2>1 DEF Refolded
<1>9. \A y \in DOMAIN lf3 : Stores(lf3[y].keys, rt2[y])
  <2>1. \A y \in DOMAIN lf : y # l /\ y # r => lf3[y] = lf[y] /\ rt2[y] = rt[y]
    BY <1>7 DEF Refolded, Tidy
  <2>2. rt2[l] = W
    BY <1>7 DEF Refolded, W
  <2> QED BY <1>1, <1>6, <2>1, <2>2 DEF Sorted
<1>a. Chained(lf3, rt2)
  <2>1. Chained(lf, rt) /\ (\A y \in DOMAIN lf : rt[y] \subseteq Nat)
    BY <1>1, ReachFacts DEF Sorted, Tidy
  <2>2. l \in DOMAIN lf /\ r \in DOMAIN lf /\ l # r /\ rt[l] \cup rt[r] \in Intervals /\ sep \in Nat /\ Parts(rt[l], rt[r], sep)
    BY <1>3, <1>4 DEF W, Index
  <2>3. rt2[l] = rt[l] \cup rt[r] /\ \A y \in DOMAIN lf : y # l /\ y # r => rt2[y] = rt[y]
    BY <1>7 DEF Refolded, Tidy
  <2>4. lf3[l].next = lf[r].next
    BY <1>3, NextsKept
  <2>5. DOMAIN lf3 = DOMAIN lf \ {r} /\ \A y \in DOMAIN lf : y # l /\ y # r => lf3[y].next = lf[y].next
    OBVIOUS
  <2> QED BY ONLY <2>1, <2>2, <2>3, <2>4, <2>5, ChainMerges
<1>10. Sorted(in3, lf3, rt2, rt2) /\ rt2[x] = Nat
  BY <1>1, <1>3, <1>7, <1>8, <1>9, <1>a DEF Sorted, Refolded
<1> QED BY <1>10 DEF AtRest

(* Two internal nodes become one. *)
LEMMA InnerMergeRests ==
    ASSUME NEW in, NEW lf, NEW R, Tidy(in, DOMAIN lf, R), NEW x, x \in R, x \in Nat, AtRest(in, lf, x),
           NEW n, n \in DOMAIN in, NEW s, s \in Occupied(in[n]),
           NEW l, l = in[n].kids[s], NEW r, r = in[n].kids[s + 1], l \in DOMAIN in, r \in DOMAIN in,
           NEW in3, DOMAIN in3 = DOMAIN in \ {r}, in3[n] = InternalRemoveAt(in[n], s),
           in3[l] = InternalMergeRight(in[l], in[r], in[n].keys[s]),
           \A y \in DOMAIN in : y # n /\ y # l /\ y # r => in3[y] = in[y]
    PROVE  AtRest(in3, lf, x)
<1>1. PICK rt : Sorted(in, lf, rt, rt) /\ rt[x] = Nat
  BY DEF AtRest
<1>2. Twins(in, DOMAIN lf, R, n, l, r) /\ Rests(in, rt)
  BY <1>1, TwinFacts DEF Rests, Sorted
<1>3. /\ l # r /\ l # n /\ r # n /\ l \in Nat /\ r \in Nat /\ n \in Nat /\ NodeOK(in[n]) /\ x # l /\ x # r
      /\ NodeOK(in[l]) /\ NodeOK(in[r]) /\ ToSet(in[l].kids) \cap ToSet(in[r].kids) = {}
  BY <1>2 DEF Twins, Tidy, KidsOf
<1> DEFINE sep == in[n].keys[s]
           W == rt[l] \cup rt[r]
           node == InternalRemoveAt(in[n], s)
           m == InternalMergeRight(in[l], in[r], sep)
<1>4. sep \in Index /\ Parts(rt[l], rt[r], sep) /\ W \subseteq Nat
  <2>1. Halved(rt, l, r, in[n].keys[s])
    BY <1>2, TwinsShare
  <2> QED BY <2>1 DEF Halved
<1>5. Shares(in[l], in[r], sep, W, rt)
  BY <1>2, <1>4 DEF Shares, Rests
<1>a. in3[l] = m /\ in3[n] = node
  OBVIOUS
<1> HIDE DEF sep, W
<1>6. Routes(m, W, rt) /\ NodeOK(m) /\ ToSet(m.kids) = ToSet(in[l].kids) \cup ToSet(in[r].kids)
  <2>1. Routes(m, W, rt)
    BY <1>3, <1>4, <1>5, SharesJoin
  <2>2. NodeOK(m) /\ ToSet(m.kids) = ToSet(in[l].kids) \cup ToSet(in[r].kids)
    <3> DEFINE a == in[l]
               c == in[r]
    <3>1. NodeOK(a) /\ NodeOK(c) /\ sep \in Index /\ ToSet(a.kids) \cap ToSet(c.kids) = {}
      BY <1>3, <1>4
    <3> HIDE DEF a, c
    <3>2. LET w == InternalMergeRight(a, c, sep)
          IN  /\ NodeOK(w) /\ ToSet(w.kids) = ToSet(a.kids) \cup ToSet(c.kids)
              /\ Len(w.keys) = Len(a.keys) + Len(c.keys) + 1
      BY <3>1, MergedOK
    <3> QED BY <3>2 DEF a, c
  <2> QED BY <2>1, <2>2
<1> HIDE DEF m
<1>7. PICK rt2 : Refolded(in, n, l, r, node, rt, rt2)
  BY <1>2, Refolds
<1> HIDE DEF node
<1>8. Routes(in3[l], rt2[l], rt2)
  <2>1. \A d \in ToSet(m.kids) : d \in Nat /\ d # l
    BY <1>2, <1>3, <1>6 DEF Twins, Tidy, KidsOf
  <2>2. \A d \in ToSet(m.kids) : rt2[d] = rt[d]
    BY <1>7, <2>1 DEF Refolded
  <2>3. Routes(m, W, rt2)
    BY <1>6, <2>2, RoutesAgree
  <2>4. rt2[l] = W
    BY <1>7 DEF Refolded, W
  <2> QED BY <1>a, <2>3, <2>4
<1>9. \A y \in DOMAIN in3 : Routes(in3[y], rt2[y], rt2)
  BY <1>a, <1>3, <1>7, <1>8 DEF Refolded
<1>10. \A y \in DOMAIN lf : Stores(lf[y].keys, rt2[y])
  <2>1. \A y \in DOMAIN lf : y \in Nat /\ y # l
    BY DEF Tidy
  <2> QED BY <1>1, <1>7, <2>1 DEF Refolded, Sorted
<1>b. Chained(lf, rt2)
  <2>1. \A y \in DOMAIN lf : y \in Nat /\ y # l
    BY DEF Tidy
  <2>2. \A y \in DOMAIN lf : rt2[y] = rt[y]
    BY <1>7, <2>1 DEF Refolded
  <2> QED BY <1>1, <2>2, ChainKept
<1>11. Sorted(in3, lf, rt2, rt2) /\ rt2[x] = Nat
  BY <1>1, <1>3, <1>7, <1>9, <1>10, <1>b DEF Sorted, Refolded
<1> QED BY <1>11 DEF AtRest

LEMMA RotatedFacts ==
    ASSUME NEW left, NodeOK(left), NEW right, NodeOK(right), NEW sep, sep \in Index,
           ToSet(left.kids) \cap ToSet(right.kids) = {}, NEW b, Rotated(b, left, right, sep)
    PROVE  /\ b.sep \in Index /\ NodeOK(b.left) /\ NodeOK(b.right)
           /\ ToSet(b.left.kids) \cup ToSet(b.right.kids) \subseteq ToSet(left.kids) \cup ToSet(right.kids)
<1>1. left.kids[Len(left.kids)] \in ToSet(left.kids) /\ right.kids[1] \in ToSet(right.kids)
  <2>1. Len(left.keys) \in Nat /\ Len(left.kids) = Len(left.keys) + 1 /\ DOMAIN left.kids = 1..Len(left.keys) + 1
    BY NodeLists
  <2>2. Len(right.keys) \in Nat /\ DOMAIN right.kids = 1..Len(right.keys) + 1
    BY NodeLists
  <2>3. Len(left.kids) \in DOMAIN left.kids /\ 1 \in DOMAIN right.kids
    BY <2>1, <2>2
  <2> QED BY <2>3 DEF ToSet
<1>2. left.kids[Len(left.kids)] \notin ToSet(right.kids) /\ right.kids[1] \notin ToSet(left.kids)
  BY <1>1
<1>3. CASE Len(right.keys) > 0 /\ b = InternalBorrowFromRight(left, right, sep)
  <2>1. TakenFirst(b, left, right)
    BY <1>2, <1>3, BorrowedFromRightOK
  <2> QED BY <1>1, <2>1 DEF TakenFirst
<1>4. CASE Len(left.keys) > 0 /\ b = InternalBorrowFromLeft(left, right, sep)
  <2>1. GivenLast(b, left, right)
    BY <1>2, <1>4, BorrowedFromLeftOK
  <2> QED BY <1>1, <2>1 DEF GivenLast
<1> QED BY <1>3, <1>4 DEF Rotated

LEMMA PoisedTidy ==
    ASSUME NEW in, NEW L, NEW h, NEW p, NEW i, NEW lv, NEW up, NEW s, NEW l, NEW r,
           Poised(in, L, h, p, i, lv, up, s, l, r)
    PROVE  /\ Tidy(in, L, {p[1]}) /\ p[1] \in Nat /\ p[i - 1] \in DOMAIN in /\ NodeOK(in[p[i - 1]])
           /\ Brothers(in, L, p[i - 1], l, r, lv)
<1>1. Paired(in, L, h, p, i, lv, up, l, r)
  BY PoisedFacts
<1>2. Forest(in, L, {p[1]}, h, lv, up) /\ \A x \in DOMAIN in : NodeOK(in[x])
  BY DEF Poised, Nearly
<1>3. Tidy(in, L, {p[1]})
  BY <1>2, ForestTidy
<1>4. {p[1]} \subseteq DOMAIN in \cup L /\ \A c \in DOMAIN in \cup L : c \in Nat
  BY <1>2, ForestFacts
<1> QED BY <1>1, <1>3, <1>4 DEF Paired

LEMMA BorrowRests ==
    ASSUME NEW t, NEW in, NEW lf, NEW st, NEW h, NEW p, NEW i, NEW lv, NEW up, NEW s, NEW l, NEW r, NEW side,
           Are(t, in, lf, st), LeavesOK(lf), Poised(in, DOMAIN lf, h, p, i, lv, up, s, l, r),
           Lends(t, p, i, l, r, side), AtRest(in, lf, p[1]), NEW w, w = Borrow(t, p[i - 1], s, side)
    PROVE  AtRest(w.inner, w.leaf, p[1])
<1> DEFINE n == p[i - 1]
           L == DOMAIN lf
<1>1. t.inner = in /\ t.leaf = lf /\ DOMAIN t = Fields
  BY DEF Are
<1>2. /\ n \in DOMAIN in /\ Brothers(in, L, n, l, r, lv) /\ s \in Occupied(in[n]) /\ l = in[n].kids[s] /\ r = in[n].kids[s + 1]
      /\ NodeOK(in[n]) /\ Tidy(in, DOMAIN lf, {p[1]}) /\ p[1] \in Nat /\ p[1] \in {p[1]}
  <2>1. s \in Occupied(in[n]) /\ l = in[n].kids[s] /\ r = in[n].kids[s + 1]
    BY DEF Poised
  <2> QED BY <2>1, PoisedTidy
<1>3. CASE l \in L
  <2> DEFINE b == IF side = 1 THEN LeafBorrowFromRight(lf[l], lf[r]) ELSE LeafBorrowFromLeft(lf[l], lf[r])
             in3 == [in EXCEPT ![n].keys[s] = b.sep]
             lf3 == [lf EXCEPT ![l] = b.left, ![r] = b.right]
  <2>1. l \in L /\ r \in L /\ l # r
    BY <1>2, <1>3 DEF Brothers
  <2>2. LeafLent(b, lf, l, r) /\ b.sep \in Index
    <3>1. LeafOK(lf[l]) /\ LeafOK(lf[r])
      BY <2>1 DEF LeavesOK
    <3>2. Len(lf[l].keys) \in Nat /\ Len(lf[r].keys) \in Nat
      BY <3>1, Positions DEF LeafOK
    <3>3. CASE side = 1
      <4>1. Len(lf[r].keys) >= 2 /\ Len(lf[r].keys) > 1
        BY <1>1, <2>1, <3>2, <3>3, FanoutFacts DEF Lends, CountAt, KeyCount
      <4>2. b = LeafBorrowFromRight(lf[l], lf[r])
        BY <3>3
      <4> HIDE DEF b
      <4> QED BY <3>1, <4>1, <4>2, LeafBorrowFromRightOK DEF LeafLent
    <3>4. CASE side # 1
      <4>1. Len(lf[l].keys) > 0 /\ Len(lf[l].keys) > 1
        BY <1>1, <2>1, <3>2, <3>4, FanoutFacts DEF Lends, CountAt, KeyCount
      <4>2. b = LeafBorrowFromLeft(lf[l], lf[r])
        BY <3>4
      <4> HIDE DEF b
      <4> QED BY <3>1, <4>1, <4>2, LeafBorrowFromLeftOK DEF LeafLent
    <3> QED BY <3>3, <3>4
  <2>3. w = [t EXCEPT !.leaf[l] = b.left, !.leaf[r] = b.right, !.inner[n].keys[s] = b.sep]
    BY <1>1, <1>2, <2>1 DEF Borrow
  <2> HIDE DEF b, n
  <2>4. Are(w, in3, lf3, st)
    <3> DEFINE c == b.sep
               bl == b.left
               br == b.right
    <3> HIDE DEF c, bl, br
    <3>1. Are([t EXCEPT !.leaf[l] = bl, !.leaf[r] = br, !.inner[n].keys[s] = c],
              [in EXCEPT ![n].keys[s] = c], [lf EXCEPT ![l] = bl, ![r] = br], st)
      BY LeafBorrowEdits
    <3> QED BY <2>3, <3>1 DEF c, bl, br
  <2>5. /\ DOMAIN in3 = DOMAIN in /\ in3[n] = [in[n] EXCEPT !.keys[s] = b.sep]
        /\ \A y \in DOMAIN in : y # n => in3[y] = in[y]
    <3>1. /\ DOMAIN in3 = DOMAIN in /\ IsMap(in3) /\ in3[n] = [in[n] EXCEPT !.keys[s] = b.sep]
          /\ \A y \in DOMAIN in \ {n} : in3[y] = in[y]
      BY <1>2, Reseparated
    <3> QED BY <3>1
  <2>6. /\ DOMAIN lf3 = DOMAIN lf /\ lf3[l] = b.left /\ lf3[r] = b.right
        /\ \A y \in DOMAIN lf : y # l /\ y # r => lf3[y] = lf[y]
    BY <2>1
  <2>b. Resepped(in3[n], in[n], s, b.sep)
    BY <2>5 DEF Resepped
  <2> HIDE DEF in3, lf3
  <2>7. AtRest(in3, lf3, p[1])
    BY <1>2, <2>1, <2>2, <2>5, <2>6, <2>b, LeafBorrowRests
  <2> QED BY <2>4, <2>7 DEF Are
<1>4. CASE l \notin L
  <2> DEFINE sep == in[n].keys[s]
             b == IF side = 1 THEN InternalBorrowFromRight(in[l], in[r], sep)
                              ELSE InternalBorrowFromLeft(in[l], in[r], sep)
             in3 == [in EXCEPT ![l] = b.left, ![r] = b.right, ![n].keys[s] = b.sep]
  <2>1. /\ l \in DOMAIN in /\ r \in DOMAIN in /\ l # r /\ n # l /\ n # r /\ r \notin L /\ l \notin L
        /\ ToSet(in[l].kids) \cap ToSet(in[r].kids) = {} /\ NodeOK(in[l]) /\ NodeOK(in[r])
    BY <1>2, <1>4 DEF Brothers, KidsOf, Tidy
  <2>2. sep \in Index
    <3>1. in[n].keys \in Seq(Index) /\ s \in 1..Len(in[n].keys)
      BY <1>2 DEF NodeOK, Occupied
    <3> QED BY <3>1, Positions
  <2>3. w = [t EXCEPT !.inner[l] = b.left, !.inner[r] = b.right, !.inner[n].keys[s] = b.sep]
    BY <1>1, <1>2, <2>1 DEF Borrow
  <2>4. Rotated(b, in[l], in[r], sep)
    <3>1. CASE side = 1
      <4>1. Len(in[r].keys) > 0
        BY <1>1, <2>1, <3>1, NodeLists, FanoutFacts DEF Lends, CountAt, KeyCount
      <4> QED BY <3>1, <4>1 DEF Rotated
    <3>2. CASE side # 1
      <4>1. Len(in[l].keys) > 0
        BY <1>1, <2>1, <3>2, NodeLists, FanoutFacts DEF Lends, CountAt, KeyCount
      <4> QED BY <3>2, <4>1 DEF Rotated
    <3> QED BY <3>1, <3>2
  <2> HIDE DEF b, n
  <2>a. Rotated(b, in[l], in[r], in[n].keys[s])
    BY <2>4
  <2> HIDE DEF sep
  <2>5. /\ b.sep \in Index /\ NodeOK(b.left) /\ NodeOK(b.right)
        /\ ToSet(b.left.kids) \cup ToSet(b.right.kids) \subseteq ToSet(in[l].kids) \cup ToSet(in[r].kids)
    BY <2>1, <2>2, <2>4, RotatedFacts
  <2>6. Are(w, in3, lf, st)
    <3> DEFINE c == b.sep
               bl == b.left
               br == b.right
    <3> HIDE DEF c, bl, br
    <3>1. Are([t EXCEPT !.inner[l] = bl, !.inner[r] = br, !.inner[n].keys[s] = c],
              [in EXCEPT ![l] = bl, ![r] = br, ![n].keys[s] = c], lf, st)
      BY InnerBorrowEdits
    <3> QED BY <2>3, <3>1 DEF c, bl, br
  <2>7. /\ DOMAIN in3 = DOMAIN in /\ in3[l] = b.left /\ in3[r] = b.right
        /\ in3[n] = [in[n] EXCEPT !.keys[s] = b.sep]
        /\ \A y \in DOMAIN in : y # n /\ y # l /\ y # r => in3[y] = in[y]
    <3>1. in3 = [in EXCEPT ![l] = b.left, ![r] = b.right, ![n].keys[s] = b.sep]
      OBVIOUS
    <3> HIDE DEF in3
    <3>2. l # r /\ n # l /\ n # r /\ l \in DOMAIN in /\ r \in DOMAIN in /\ n \in DOMAIN in
      BY <1>2, <2>1
    <3> QED BY ONLY <3>1, <3>2
  <2> HIDE DEF in3
  <2>8. Resepped(in3[n], in[n], s, b.sep)
    BY <2>7 DEF Resepped
  <2>9. AtRest(in3, lf, p[1])
    BY <1>2, <2>1, <2>a, <2>5, <2>7, <2>8, InnerBorrowRests
  <2> QED BY <2>6, <2>9 DEF Are
<1> QED BY <1>3, <1>4

LEMMA MergeRests ==
    ASSUME NEW t, NEW in, NEW lf, NEW st, NEW h, NEW p, NEW i, NEW lv, NEW up, NEW s, NEW l, NEW r,
           Are(t, in, lf, st), LeavesOK(lf), Poised(in, DOMAIN lf, h, p, i, lv, up, s, l, r),
           AtRest(in, lf, p[1]), NEW w, w = Merge(t, p[i - 1], s)
    PROVE  AtRest(w.inner, w.leaf, p[1])
<1> DEFINE n == p[i - 1]
           L == DOMAIN lf
           shrunk == [in EXCEPT ![n] = InternalRemoveAt(in[n], s)]
<1>1. t.inner = in /\ t.leaf = lf /\ DOMAIN t = Fields
  BY DEF Are
<1>2. /\ n \in DOMAIN in /\ Brothers(in, L, n, l, r, lv) /\ s \in Occupied(in[n]) /\ l = in[n].kids[s] /\ r = in[n].kids[s + 1]
      /\ NodeOK(in[n]) /\ Tidy(in, DOMAIN lf, {p[1]}) /\ p[1] \in Nat /\ p[1] \in {p[1]}
  <2>1. s \in Occupied(in[n]) /\ l = in[n].kids[s] /\ r = in[n].kids[s + 1]
    BY DEF Poised
  <2> QED BY <2>1, PoisedTidy
<1>3. CASE l \in L
  <2> DEFINE merged == LeafMerge(lf[l], lf[r])
             both == [lf EXCEPT ![l] = merged]
             lf3 == Closed(both, r)
  <2>1. l \in L /\ r \in L /\ l # r
    BY <1>2, <1>3 DEF Brothers
  <2>2. w = [t EXCEPT !.leaf = Closed([@ EXCEPT ![l] = merged], r),
                      !.rightmost = IF merged.next = 0 THEN l ELSE @, !.inner = shrunk]
    BY <1>1, <1>2, <2>1 DEF Merge
  <2>3. Are(w, shrunk, lf3, st)
    <3> DEFINE c == merged.next
    <3>1. Are([t EXCEPT !.leaf = Closed([@ EXCEPT ![l] = merged], r),
                        !.rightmost = IF c = 0 THEN l ELSE @, !.inner = shrunk],
              shrunk, Closed([lf EXCEPT ![l] = merged], r), st)
      <4> HIDE DEF c, merged, shrunk
      <4> QED BY LeafMergeEdits
    <3> HIDE DEF merged, shrunk
    <3> QED BY <2>2, <3>1
  <2>4. DOMAIN both = L /\ both[l] = merged /\ \A y \in DOMAIN lf : y # l => both[y] = lf[y]
    BY <2>1
  <2> HIDE DEF both
  <2>5. DOMAIN Closed(both, r) = DOMAIN both \ {r} /\ \A x \in DOMAIN both \ {r} : Closed(both, r)[x] = both[x]
    BY ClosedFacts
  <2>6. DOMAIN lf3 = L \ {r} /\ lf3[l] = LeafMerge(lf[l], lf[r]) /\ \A y \in DOMAIN lf : y # l /\ y # r => lf3[y] = lf[y]
    BY <2>1, <2>4, <2>5
  <2>7. /\ DOMAIN shrunk = DOMAIN in /\ shrunk[n] = InternalRemoveAt(in[n], s)
        /\ \A y \in DOMAIN in : y # n => shrunk[y] = in[y]
    BY <1>2
  <2> HIDE DEF lf3, shrunk, n
  <2>8. AtRest(shrunk, lf3, p[1])
    <3> DEFINE x == p[1]
               R == {x}
    <3>1. /\ Tidy(in, DOMAIN lf, R) /\ x \in R /\ x \in Nat /\ AtRest(in, lf, x) /\ LeavesOK(lf)
          /\ n \in DOMAIN in /\ s \in Occupied(in[n]) /\ l = in[n].kids[s] /\ r = in[n].kids[s + 1]
          /\ l \in DOMAIN lf /\ r \in DOMAIN lf
      BY <1>2, <2>1
    <3>2. DOMAIN lf3 = DOMAIN lf \ {r}
      BY <2>6
    <3> HIDE DEF R, x
    <3>3. AtRest(shrunk, lf3, x)
      BY ONLY <2>6, <2>7, <3>1, <3>2, LeafMergeRests
    <3> QED BY <3>3 DEF x
  <2> QED BY <2>3, <2>8 DEF Are
<1>4. CASE l \notin L
  <2> DEFINE m == InternalMergeRight(in[l], in[r], in[n].keys[s])
             both == [shrunk EXCEPT ![l] = m]
             in3 == Closed(both, r)
  <2>1. l \in DOMAIN in /\ r \in DOMAIN in /\ l # r /\ r \notin L /\ l \notin L /\ l # n /\ r # n
    BY <1>2, <1>4 DEF Brothers
  <2>2. w = [t EXCEPT !.inner = in3]
    BY <1>1, <1>2, <2>1 DEF Merge
  <2>3. Are(w, in3, lf, st)
    <3> HIDE DEF in3
    <3>1. Are([t EXCEPT !.inner = in3], in3, lf, st)
      BY Edits
    <3> QED BY <2>2, <3>1
  <2>4. DOMAIN both = DOMAIN in /\ both[l] = m /\ both[n] = InternalRemoveAt(in[n], s)
        /\ \A y \in DOMAIN in : y # l /\ y # n => both[y] = in[y]
    <3> HIDE DEF m
    <3> QED BY <1>2, <2>1
  <2> HIDE DEF both
  <2>5. DOMAIN Closed(both, r) = DOMAIN both \ {r} /\ \A x \in DOMAIN both \ {r} : Closed(both, r)[x] = both[x]
    BY ClosedFacts
  <2>6. /\ DOMAIN in3 = DOMAIN in \ {r} /\ in3[l] = InternalMergeRight(in[l], in[r], in[n].keys[s])
        /\ in3[n] = InternalRemoveAt(in[n], s) /\ \A y \in DOMAIN in : y # n /\ y # l /\ y # r => in3[y] = in[y]
    BY <1>2, <2>1, <2>4, <2>5
  <2> HIDE DEF in3, n
  <2>7. AtRest(in3, lf, p[1])
    <3> DEFINE x == p[1]
               R == {x}
    <3>1. /\ Tidy(in, DOMAIN lf, R) /\ x \in R /\ x \in Nat /\ AtRest(in, lf, x)
          /\ n \in DOMAIN in /\ s \in Occupied(in[n]) /\ l = in[n].kids[s] /\ r = in[n].kids[s + 1]
          /\ l \in DOMAIN in /\ r \in DOMAIN in
      BY <1>2, <2>1
    <3> HIDE DEF R, x
    <3>3. AtRest(in3, lf, x)
      BY ONLY <2>6, <3>1, InnerMergeRests
    <3> QED BY <3>3 DEF x
  <2> QED BY <2>3, <2>7 DEF Are
<1> QED BY <1>3, <1>4

(* The cascade, unless it is refused. *)
Resting(t, p) == t.state # "refused" => AtRest(t.inner, t.leaf, p[1])

LEMMA RestsMarked ==
    ASSUME NEW t, DOMAIN t = Fields, NEW r, AtRest(t.inner, t.leaf, r), NEW st, NEW w, w = [t EXCEPT !.state = st]
    PROVE  AtRest(w.inner, w.leaf, r)
<1>1. w.inner = t.inner /\ w.leaf = t.leaf
  BY DEF Fields
<1> QED BY <1>1

LEMMA RebalanceRests ==
    ASSUME NEW t, NEW i, NEW p, NEW I0, NEW L0, NEW h, NEW sides, NEW sibs,
           Falling(t, i, p, I0, L0, h), i \in 2..h, h \in Nat, Resting(t, p)
    PROVE  Resting(Rebalance(p, sides, sibs, i, t), p)
<1> DEFINE in == t.inner
           lf == t.leaf
           n == p[i - 1]
           kids == in[n].kids
           our == IndexOf(kids, p[i])
           sib == IF sides[i] = 1 THEN our + 1 ELSE our - 1
           s == IF sides[i] = 1 THEN our ELSE sib
           w == Rebalance(p, sides, sibs, i, t)
<1>1. CASE t.state # "rising"
  <2>1. w = t
    BY <1>1 DEF Rebalance
  <2> QED BY <2>1
<1>2. CASE t.state = "rising"
  <2>1. /\ DOMAIN t = Fields /\ LeavesOK(lf) /\ AtRest(in, lf, p[1])
        /\ Nearly(in, p[1], p[i]) /\ Standing(in, DOMAIN lf, h, p, i)
    BY <1>2 DEF Falling, Resting
  <2>2. PICK lv, up : Forest(in, DOMAIN lf, {p[1]}, h, lv, up) /\ OnPath(in, DOMAIN lf, lv, h, p, i)
    BY <2>1 DEF Standing
  <2>3. n \in DOMAIN in /\ p[i] \in KidsOf(in, n) /\ NodeOK(in[n])
    <3>1. Above(in, DOMAIN lf, lv, h, p, i)
      BY <2>2, ParentAbove
    <3> QED BY <2>1, <3>1 DEF Above, Nearly
  <2>4. /\ kids[our] = p[i]
        /\ our + 1 \in DOMAIN kids => our \in Occupied(in[n])
        /\ our - 1 \in DOMAIN kids => our - 1 \in Occupied(in[n]) /\ (our - 1) + 1 = our
    <3> HIDE DEF n, in
    <3>1. NodeOK(in[n]) /\ p[i] \in ToSet(in[n].kids)
      BY <2>3 DEF KidsOf
    <3> QED BY <3>1, PlaceOf
  <2>5. w = IF CountAt(t, p[i]) >= MINK THEN [t EXCEPT !.state = "done"]
            ELSE IF sides[i] = 0 \/ sib \notin DOMAIN kids THEN [t EXCEPT !.state = "refused"]
            ELSE IF kids[sib] # sibs[i] THEN [t EXCEPT !.state = "refused"]
            ELSE IF CountAt(t, sibs[i]) > MINK THEN [Borrow(t, n, s, sides[i]) EXCEPT !.state = "done"]
            ELSE Merge(t, n, s)
    BY <1>2 DEF Rebalance
  <2>6. CASE CountAt(t, p[i]) >= MINK
    <3>1. w = [t EXCEPT !.state = "done"]
      BY <2>5, <2>6
    <3> HIDE DEF w
    <3>2. AtRest(w.inner, w.leaf, p[1])
      BY <2>1, <3>1, RestsMarked
    <3> QED BY <3>2 DEF Resting, w
  <2>7. CASE ~(CountAt(t, p[i]) >= MINK) /\ (sides[i] = 0 \/ sib \notin DOMAIN kids \/ kids[sib] # sibs[i])
    <3>1. w = [t EXCEPT !.state = "refused"]
      BY <2>5, <2>7
    <3> HIDE DEF w
    <3>2. w.state = "refused"
      BY <2>1, <3>1 DEF Fields
    <3> QED BY <3>2 DEF Resting, w
  <2>8. CASE ~(CountAt(t, p[i]) >= MINK) /\ ~(sides[i] = 0 \/ sib \notin DOMAIN kids \/ kids[sib] # sibs[i])
    <3> DEFINE l == kids[s]
               r == kids[s + 1]
    <3>1. s \in Occupied(in[n]) /\ (sides[i] = 1 => l = p[i] /\ r = sibs[i]) /\ (sides[i] # 1 => l = sibs[i] /\ r = p[i])
      BY <2>4, <2>8
    <3>2. l = in[n].kids[s] /\ r = in[n].kids[s + 1] /\ p[i] \in {l, r}
      BY <3>1
    <3>3. Poised(in, DOMAIN lf, h, p, i, lv, up, s, l, r)
      BY <2>1, <2>2, <3>1, <3>2 DEF Poised
    <3>4. Are(t, in, lf, "rising")
      BY <1>2, <2>1 DEF Are
    <3> HIDE DEF in, lf, kids, our, s, l, r, w, sib
    <3>5. CASE CountAt(t, sibs[i]) > MINK
      <4> DEFINE b == Borrow(t, n, s, sides[i])
      <4>1. w = [b EXCEPT !.state = "done"]
        BY <2>5, <2>8, <3>5
      <4>2. Lends(t, p, i, l, r, sides[i])
        BY <2>8, <3>1, <3>5 DEF Lends
      <4>3. Whole(b, in, lf, p[1], h)
        BY <2>1, <3>3, <3>4, <4>2, BorrowKeeps
      <4>4. b = Borrow(t, p[i - 1], s, sides[i])
        OBVIOUS
      <4> HIDE DEF b
      <4>5. AtRest(b.inner, b.leaf, p[1])
        BY <2>1, <3>3, <3>4, <4>2, <4>4, BorrowRests
      <4>6. AtRest(w.inner, w.leaf, p[1])
        BY <4>1, <4>3, <4>5, RestsMarked DEF Whole
      <4> QED BY <4>6 DEF Resting, w
    <3>6. CASE ~(CountAt(t, sibs[i]) > MINK)
      <4>1. w = Merge(t, p[i - 1], s)
        BY <2>5, <2>8, <3>6
      <4>2. AtRest(w.inner, w.leaf, p[1])
        BY <2>1, <3>3, <3>4, <4>1, MergeRests
      <4> QED BY <4>2 DEF Resting, w
    <3> QED BY <3>5, <3>6
  <2> QED BY <2>6, <2>7, <2>8
<1> QED BY <1>1, <1>2

LEMMA CascadeRests ==
    ASSUME NEW p, NEW sides, NEW sibs, NEW k, NEW I0, NEW L0, height \in Nat, height > 0,
           Falling(Emptied(p, k), height, p, I0, L0, height), Resting(Emptied(p, k), p)
    PROVE  Falling(Cascade(p, sides, sibs, k), 1, p, I0, L0, height) /\ Resting(Cascade(p, sides, sibs, k), p)
<1>1. PICK s : Falls(s, p, sides, sibs, k) /\ Cascade(p, sides, sibs, k) = s[2]
  BY CascadeRuns
<1> DEFINE Good(i) == Falling(s[i + 1], i, p, I0, L0, height) /\ Resting(s[i + 1], p)
           A == {d \in Nat : d < height => Good(height - d)}
<1>2. s[height + 1] = Emptied(p, k) /\ \A i \in 2..height : s[i] = Rebalance(p, sides, sibs, i, s[i + 1])
  <2>1. s = [i \in 2..height + 1 |-> IF i = height + 1 THEN Emptied(p, k) ELSE Rebalance(p, sides, sibs, i, s[i + 1])]
    BY <1>1 DEF Falls, Emptied
  <2>2. height + 1 \in 2..height + 1 /\ \A i \in 2..height : i \in 2..height + 1 /\ i # height + 1
    OBVIOUS
  <2>3. \A i \in 2..height + 1 : s[i] = IF i = height + 1 THEN Emptied(p, k) ELSE Rebalance(p, sides, sibs, i, s[i + 1])
    BY <2>1
  <2> QED BY <2>2, <2>3
<1>3. 0 \in A
  BY <1>2
<1>4. ASSUME NEW d \in Nat, d \in A PROVE d + 1 \in A
  <2> SUFFICES ASSUME d + 1 < height PROVE Good(height - (d + 1))
    OBVIOUS
  <2> DEFINE i == height - d
  <2>1. i \in 2..height /\ height - (d + 1) = i - 1 /\ (i - 1) + 1 = i
    OBVIOUS
  <2>2. Falling(s[i + 1], i, p, I0, L0, height) /\ Resting(s[i + 1], p)
    BY <1>4, <2>1
  <2> HIDE DEF i
  <2>3. Falling(Rebalance(p, sides, sibs, i, s[i + 1]), i - 1, p, I0, L0, height)
    BY <2>1, <2>2, RebalanceStep
  <2>4. Resting(Rebalance(p, sides, sibs, i, s[i + 1]), p)
    BY <2>1, <2>2, RebalanceRests
  <2>5. Good(i - 1)
    BY <1>2, <2>1, <2>3, <2>4
  <2> QED BY <2>1, <2>5
<1> HIDE DEF A
<1>5. height - 1 \in A
  <2>1. height - 1 \in Nat
    OBVIOUS
  <2> QED BY <1>3, <1>4, <2>1, NatInductionOn
<1>6. height - 1 < height /\ height - (height - 1) = 1 /\ 1 + 1 = 2
  OBVIOUS
<1> QED BY <1>1, <1>5, <1>6 DEF A

---------------------------------------------------------------------------
(* Delete *)

(* Leaves may come to store other keys of their own, in the same chain. *)
LEMMA RewriteRests ==
    ASSUME NEW in, NEW lf, NEW r, NEW rt, Sorted(in, lf, rt, rt), rt[r] = Nat,
           NEW lf2, DOMAIN lf2 = DOMAIN lf, \A l \in DOMAIN lf : Stores(lf2[l].keys, rt[l]),
           \A l \in DOMAIN lf : lf2[l].next = lf[l].next
    PROVE  AtRest(in, lf2, r)
<1>a. Chained(lf2, rt)
  BY ChainedSame DEF Sorted
<1>1. Sorted(in, lf2, rt, rt)
  BY <1>a DEF Sorted
<1> QED BY <1>1 DEF AtRest

(* A root without keys gives way to its only kid. *)
LEMMA CollapseRests ==
    ASSUME NEW in, NEW lf, NEW r, AtRest(in, lf, r), r \in DOMAIN in, NodeOK(in[r]), in[r].keys = <<>>,
           NEW c, c = in[r].kids[1], NEW in2, in2 = Closed(in, r)
    PROVE  AtRest(in2, lf, c)
<1>1. PICK rt : Sorted(in, lf, rt, rt) /\ rt[r] = Nat
  BY DEF AtRest
<1>2. ToSet(in[r].kids) = {c} /\ c \in Nat
  <2>1. Len(in[r].keys) = 0
    OBVIOUS
  <2>2. DOMAIN in[r].kids = 1..1 /\ c \in Nat
    BY <2>1, NodeLists
  <2> QED BY <2>2 DEF ToSet
<1>3. rt[c] = Nat
  <2>1. Routes(in[r], rt[r], rt) /\ rt \in Reach
    BY <1>1 DEF Sorted
  <2>2. \A k : k \in Nat <=> k \in rt[c]
    BY <1>1, <1>2, <2>1 DEF Routes
  <2>3. rt[c] \subseteq Nat
    BY <2>2
  <2> QED BY <2>2, <2>3
<1>4. DOMAIN in2 = DOMAIN in \ {r} /\ \A x \in DOMAIN in2 : in2[x] = in[x]
  <2>1. DOMAIN Closed(in, r) = DOMAIN in \ {r} /\ \A x \in DOMAIN in \ {r} : Closed(in, r)[x] = in[x]
    BY ClosedFacts
  <2> QED BY <2>1
<1>5. Sorted(in2, lf, rt, rt)
  BY <1>1, <1>4 DEF Sorted
<1> QED BY <1>3, <1>5 DEF AtRest

LEMMA EmptiedRests ==
    ASSUME Structure, AtRest(inner, leaf, root), NEW p, NEW k, Descends(p, k), HasKey(leaf[p[height]], k)
    PROVE  Resting(Emptied(p, k), p)
<1> DEFINE l == p[height]
           e == Emptied(p, k)
           lf1 == [leaf EXCEPT ![l] = LeafDelete(leaf[l], k)]
<1>1. p[1] = root /\ l \in DOMAIN leaf /\ LeafOK(leaf[l])
  <2>1. Descended(p, k)
    BY DescentFacts
  <2> QED BY <2>1 DEF Descended
<1>2. e.inner = inner /\ e.leaf = lf1
  BY DEF Emptied
<1>3. PICK rt : Sorted(inner, leaf, rt, rt) /\ rt[root] = Nat
  BY DEF AtRest
<1>4. Stores(LeafDelete(leaf[l], k).keys, rt[l])
  <2>1. Stores(leaf[l].keys, rt[l])
    BY <1>1, <1>3 DEF Sorted
  <2> QED BY <1>1, <2>1, LeafDeleteStores
<1>5. DOMAIN lf1 = DOMAIN leaf /\ \A x \in DOMAIN leaf : Stores(lf1[x].keys, rt[x])
  BY <1>3, <1>4 DEF Sorted
<1>6. \A x \in DOMAIN leaf : lf1[x].next = leaf[x].next
  BY <1>1, NextKept
<1> HIDE DEF lf1, e
<1>7. AtRest(inner, lf1, root)
  BY <1>3, <1>5, <1>6, RewriteRests
<1> QED BY <1>1, <1>2, <1>7 DEF Resting, e

LEMMA DeleteRests ==
    ASSUME Structure, AtRest(inner, leaf, root), NEW p, NEW k, k \in Index, NEW sides, NEW sibs,
           Delete(p, k, sides, sibs)
    PROVE  height' # 0 => AtRest(inner', leaf', root')
<1> DEFINE l == p[height]
           t == Cascade(p, sides, sibs, k)
           in == t.inner
           lf == t.leaf
           collapses == height > 1 /\ in[root].keys = <<>>
           empties == height = 1 /\ KeyCount(lf[root]) = 0
<1>1. Descends(p, k) /\ HasKey(leaf[l], k)
  BY DEF Delete, LeafOf
<1>2. Descended(p, k)
  BY <1>1, DescentFacts
<1>3. height \in Nat /\ height > 0 /\ height # 0 /\ p[1] = root /\ l \in DOMAIN leaf /\ LeafOK(leaf[l])
  BY <1>2 DEF Descended
<1>4. Falling(Emptied(p, k), height, p, DOMAIN inner, DOMAIN leaf, height)
  BY <1>1, EmptiedFalls
<1>5. Resting(Emptied(p, k), p)
  BY <1>1, EmptiedRests
<1>6. Falling(t, 1, p, DOMAIN inner, DOMAIN leaf, height) /\ Resting(t, p)
  BY <1>3, <1>4, <1>5, CascadeRests
<1>7. /\ t.state # "refused"
      /\ root' = IF collapses THEN in[root].kids[1] ELSE IF empties THEN 0 ELSE root
      /\ height' = IF collapses \/ empties THEN height - 1 ELSE height
      /\ inner' = IF collapses THEN Closed(in, root) ELSE in
      /\ leaf' = IF empties THEN Closed(lf, root) ELSE lf
  BY DEF Delete
<1> HIDE DEF t
<1>8. Nearly(in, root, root) /\ Settled(in, DOMAIN lf, root, height)
  BY <1>1, <1>6, <1>7, CascadeSettles
<1>9. AtRest(in, lf, root)
  BY <1>3, <1>6, <1>7 DEF Resting
<1>10. CASE collapses
  <2>1. root' = in[root].kids[1] /\ inner' = Closed(in, root) /\ leaf' = lf /\ in[root].keys = <<>> /\ height > 1
    BY <1>7, <1>10
  <2>2. root \in DOMAIN in /\ NodeOK(in[root])
    <3>1. PICK lv, up : Forest(in, DOMAIN lf, {root}, height, lv, up) /\ lv[root] = height
      BY <1>8 DEF Settled
    <3>2. {root} \subseteq DOMAIN in \cup DOMAIN lf
      BY <3>1, ForestFacts
    <3>3. root \notin DOMAIN lf
      BY <2>1, <3>1 DEF Forest, Levels
    <3> QED BY <1>8, <3>2, <3>3 DEF Nearly
  <2> HIDE DEF in, lf
  <2>3. AtRest(inner', lf, root')
    BY <1>9, <2>1, <2>2, CollapseRests
  <2> QED BY <2>1, <2>3
<1>11. CASE empties
  BY <1>3, <1>7, <1>11
<1>12. CASE ~collapses /\ ~empties
  BY <1>7, <1>9, <1>12
<1> QED BY <1>10, <1>11, <1>12

(* What TornaTree's handlers find: the tree, and at rest if it is not empty. *)
SearchRests == height # 0 => AtRest(inner, leaf, root)

(* One leaf comes to store other keys of its own. *)
LEMMA LeafRewriteRests ==
    ASSUME NEW in, NEW lf, NEW r, NEW rt, Sorted(in, lf, rt, rt), rt[r] = Nat,
           NEW l, l \in DOMAIN lf, NEW node, Stores(node.keys, rt[l]), node.next = lf[l].next,
           NEW lf2, lf2 = [lf EXCEPT ![l] = node]
    PROVE  AtRest(in, lf2, r)
<1>1. DOMAIN lf2 = DOMAIN lf /\ \A x \in DOMAIN lf : Stores(lf2[x].keys, rt[x])
  BY DEF Sorted
<1>2. \A x \in DOMAIN lf : lf2[x].next = lf[x].next
  OBVIOUS
<1> QED BY <1>1, <1>2, RewriteRests

LEMMA FastStepsRest ==
    ASSUME Structure, SearchRests, NEW p, NEW k \in Key, NEW v,
           InsertFast(p, k, v) \/ UpdateFast(p, k, v) \/ DeleteFast(p, k) \/ InsertRoom(p, k, v)
    PROVE  SearchRests'
<1> DEFINE l == p[height]
<1> k \in Index
  BY KeyIsIndex
<1>1. Descends(p, k) /\ inner' = inner /\ root' = root
  BY DEF InsertFast, UpdateFast, DeleteFast, InsertRoom, header
<1>2. Descended(p, k)
  BY <1>1, DescentFacts
<1>3. height # 0 /\ l \in DOMAIN leaf /\ LeafOK(leaf[l])
  BY <1>2 DEF Descended
<1>4. PICK rt : Sorted(inner, leaf, rt, rt) /\ rt[root] = Nat
  BY <1>3 DEF SearchRests, AtRest
<1>5. k \in rt[l] /\ rt[l] \subseteq Nat /\ Stores(leaf[l].keys, rt[l])
  BY <1>2, <1>4, KeyReachesLeaf
<1>6. \E node : Stores(node.keys, rt[l]) /\ node.next = leaf[l].next /\ leaf' = [leaf EXCEPT ![l] = node]
  <2>1. CASE InsertFast(p, k, v) \/ InsertRoom(p, k, v)
    <3>1. ~HasKey(leaf[l], k) /\ leaf' = [leaf EXCEPT ![l] = LeafInsert(leaf[l], k, v)]
      BY <2>1 DEF InsertFast, InsertRoom, LeafOf
    <3>2. Stores(LeafInsert(leaf[l], k, v).keys, rt[l])
      BY <1>3, <1>5, <3>1, LeafInsertStores
    <3>3. LeafInsert(leaf[l], k, v).next = leaf[l].next
      BY <1>3, NextKept
    <3> QED BY <3>1, <3>2, <3>3
  <2>2. CASE UpdateFast(p, k, v)
    <3>1. leaf' = [leaf EXCEPT ![l] = LeafUpdate(leaf[l], k, v)]
      BY <2>2 DEF UpdateFast
    <3>2. Stores(LeafUpdate(leaf[l], k, v).keys, rt[l])
      BY <1>3, <1>5, LeafUpdateOK
    <3>3. LeafUpdate(leaf[l], k, v).next = leaf[l].next
      BY <1>3, NextKept
    <3> QED BY <3>1, <3>2, <3>3
  <2>3. CASE DeleteFast(p, k)
    <3>1. HasKey(leaf[l], k) /\ leaf' = [leaf EXCEPT ![l] = LeafDelete(leaf[l], k)]
      BY <2>3 DEF DeleteFast, LeafOf
    <3>2. Stores(LeafDelete(leaf[l], k).keys, rt[l])
      BY <1>3, <1>5, <3>1, LeafDeleteStores
    <3>3. LeafDelete(leaf[l], k).next = leaf[l].next
      BY <1>3, NextKept
    <3> QED BY <3>1, <3>2, <3>3
  <2> QED BY <2>1, <2>2, <2>3
<1> HIDE DEF l
<1>7. AtRest(inner, leaf', root)
  BY <1>3, <1>4, <1>6, LeafRewriteRests
<1> QED BY <1>1, <1>7 DEF SearchRests

LEMMA InsertFirstRests ==
    ASSUME Structure, NEW k, k \in Index, NEW v, NEW from, NEW spares, InsertFirst(k, v, from, spares)
    PROVE  SearchRests'
<1> DEFINE m == highWater + 1
           node == [keys |-> <<k>>, vals |-> <<v>>, next |-> 0]
           rt == [x \in Nat |-> Nat]
<1>1. height = 0 /\ leaf' = With(leaf, m, node) /\ root' = m /\ inner' = inner
  BY DEF InsertFirst
<1>2. DOMAIN inner = {} /\ DOMAIN leaf = {} /\ m \in Nat
  BY <1>1 DEF Structure, NoNodes
<1>3. DOMAIN leaf' = {m} /\ leaf'[m] = node
  BY <1>1, <1>2 DEF With
<1>4. Stores(node.keys, Nat)
  <2>1. node.keys = <<k>> /\ Len(<<k>>) = 1 /\ <<k>>[1] = k
    OBVIOUS
  <2>2. \A i \in 1..0 : FALSE
    OBVIOUS
  <2> QED BY <2>1, <2>2 DEF Stores, Ascending, Index
<1>5. rt \in Reach /\ \A x \in Nat : rt[x] = Nat
  BY NatIsInterval DEF Reach
<1>a. node.next = 0
  OBVIOUS
<1> HIDE DEF rt, node, m
<1>b. Chained(leaf', rt)
  BY <1>3, <1>a DEF Chained, Shared, Linked, Onward
<1>6. Sorted(inner', leaf', rt, rt) /\ rt[root'] = Nat
  BY <1>1, <1>2, <1>3, <1>4, <1>5, <1>b DEF Sorted
<1> QED BY <1>6 DEF SearchRests, AtRest

LEMMA StoresMore ==
    ASSUME NEW ks, NEW S, Stores(ks, S), NEW T, S \subseteq T
    PROVE  Stores(ks, T)
BY DEF Stores

(* The least key goes down the left edge of the tree, so no set of keys    *)
(* ends where a leaf's there begins.                                       *)
LEMMA ZeroGoesFirst ==
    ASSUME NEW n, NodeOK(n), NEW S, S \subseteq Nat, NEW seen, Routes(n, S, seen), 0 \in S
    PROVE  0 \in seen[n.kids[1]]
<1>1. PICK c \in ToSet(n.kids) : 0 \in seen[c]
  BY DEF Routes
<1>2. PICK x \in 1..Len(n.keys) + 1 : c = n.kids[x]
  BY NodeLists DEF ToSet
<1>3. CASE x = 1
  BY <1>1, <1>2, <1>3
<1>4. CASE x # 1
  <2>1. x - 1 \in 1..Len(n.keys) /\ x - 1 \in 1..Len(n.keys) + 1 /\ x = (x - 1) + 1 /\ Len(n.keys) \in Nat
    BY <1>2, <1>4, NodeLists
  <2>2. Parts(seen[n.kids[x - 1]], seen[n.kids[x]], n.keys[x - 1])
    BY <2>1 DEF Routes
  <2>3. PICK a \in seen[n.kids[x - 1]] : a < n.keys[x - 1]
    BY <2>2 DEF Parts
  <2>4. a \in Nat /\ n.keys[x - 1] \in Nat
    BY <2>1, <2>3, RoutesIn, NodeLists
  <2>5. n.keys[x - 1] <= 0
    BY <1>1, <1>2, <2>2 DEF Parts
  <2> QED BY <2>3, <2>4, <2>5
<1> QED BY <1>3, <1>4

LEMMA NonePrecedes ==
    ASSUME NEW lf, NEW rt, Chained(lf, rt), \A x \in DOMAIN lf : rt[x] \in Intervals,
           NEW l, l \in DOMAIN lf, 0 \in rt[l], l # 0
    PROVE  \A x \in DOMAIN lf : lf[x].next # l
<1> SUFFICES ASSUME NEW x \in DOMAIN lf, lf[x].next = l
             PROVE  FALSE
  OBVIOUS
<1>1. l # x /\ Abut(rt[x], rt[l])
  BY DEF Chained, Onward
<1>2. PICK e \in rt[x] : e + 1 \in rt[l]
  BY <1>1 DEF Abut
<1>3. e \in Nat /\ 0 <= e /\ e <= e + 1
  BY <1>2 DEF Intervals
<1>4. e \in rt[l]
  BY <1>2, <1>3 DEF Intervals
<1> QED BY <1>1, <1>2, <1>4 DEF Chained, Shared

(* The leaf l is one to which no leaf leads. *)
Heads(lf, l) == l \in DOMAIN lf /\ l # 0 /\ \A x \in DOMAIN lf : lf[x].next # l

(* Compaction leaves the neighbour of the closed leaf at the head. *)
LEMMA CompactRests ==
    ASSUME Structure, SearchRests, NEW p, CompactLeaf(p)
    PROVE  SearchRests' /\ Heads(leaf', leftmost')
<1> DEFINE l == p[height]
           n == p[height - 1]
           node == InternalRemoveFirst(inner[n])
           r == inner[n].kids[2]
           L == DOMAIN leaf
<1>1. /\ height >= 2 /\ p[1] = root /\ \A i \in 1..height - 1 : p[i + 1] = Head(inner[p[i]].kids)
      /\ KeyCount(inner[n]) > MINK /\ inner' = [inner EXCEPT ![n] = node] /\ leaf' = Closed(leaf, l)
      /\ root' = root /\ height' = height
  BY DEF CompactLeaf
<1>2. height \in Nat /\ Sized(inner, root)
  BY DEF Structure
<1> height > 0 /\ height # 0
  BY <1>1, <1>2
<1>3. ASSUME NEW m \in DOMAIN inner
      PROVE  Head(inner[m].kids) = inner[m].kids[1] /\ inner[m].kids[1] \in KidsOf(inner, m)
  <2>1. inner[m].keys \in Seq(Index) /\ inner[m].kids \in Seq(Index) /\ Len(inner[m].kids) = Len(inner[m].keys) + 1
    BY <1>2 DEF Sized, NodeOK
  <2>2. 1 \in 1..Len(inner[m].kids) /\ DOMAIN inner[m].kids = 1..Len(inner[m].kids)
    BY <2>1, Positions
  <2>3. Head(inner[m].kids) = inner[m].kids[1]
    BY <2>1
  <2> QED BY <2>2, <2>3 DEF KidsOf, ToSet
<1>4. Steps(p)
  BY <1>1, <1>3 DEF Steps
<1>5. PICK lv, up : Forest(inner, L, {root}, height, lv, up) /\ lv[root] = height
  BY DEF Structure, Settled
<1>6. /\ \A i \in 1..height - 1 : p[i] \in DOMAIN inner /\ p[i + 1] \in KidsOf(inner, p[i])
      /\ l \in L
  BY <1>2, <1>4, <1>5, PathsGoDown
<1>7. height - 1 \in 1..height - 1 /\ (height - 1) + 1 = height
  BY <1>1, <1>2
<1>8. n \in DOMAIN inner /\ l \in KidsOf(inner, n) /\ l = inner[n].kids[1]
  BY <1>1, <1>3, <1>6, <1>7
<1>9. NodeOK(inner[n]) /\ Len(inner[n].keys) > 0 /\ 1 \in Occupied(inner[n])
  <2>1. Len(inner[n].keys) \in Nat /\ Len(inner[n].keys) > MINK
    BY <1>1, <1>2, <1>8, Positions DEF Sized, NodeOK, KeyCount
  <2> QED BY <1>2, <1>8, <2>1, FanoutFacts DEF Sized, Occupied
<1>10. Tidy(inner, L, {root}) /\ root \in Index
  BY RestTidy
<1>11. Twins(inner, L, {root}, n, l, r)
  <2>1. r = inner[n].kids[1 + 1]
    OBVIOUS
  <2> HIDE DEF r, n, l
  <2> QED BY <1>8, <1>9, <1>10, <2>1, TwinFacts
<1>12. PICK rt : Sorted(inner, leaf, rt, rt) /\ rt[root] = Nat
  BY DEF SearchRests, AtRest
<1> DEFINE W == rt[l] \cup rt[r]
           w == [rt EXCEPT ![r] = W]
<1> HIDE DEF l, r, n, node
<1>13. /\ l # r /\ l # n /\ r # n /\ l \in Nat /\ r \in Nat /\ n \in Nat /\ r # root
  BY <1>11 DEF Twins
<1>14. rt \in Reach /\ Routes(inner[n], rt[n], rt) /\ rt[n] \subseteq Nat /\ rt[l] \subseteq Nat /\ rt[r] \subseteq Nat
  BY <1>8, <1>12, <1>13, ReachFacts DEF Sorted
<1>a. W \in Intervals /\ inner[n].keys[1] \in Nat /\ Parts(rt[l], rt[r], inner[n].keys[1])
  <2> DEFINE o == 1
  <2>1. Rests(inner, rt)
    BY <1>12 DEF Sorted, Rests
  <2>2. l = inner[n].kids[o] /\ r = inner[n].kids[o + 1] /\ o \in Occupied(inner[n])
    BY <1>8, <1>9 DEF r
  <2> HIDE DEF o, L
  <2>3. Halved(rt, l, r, inner[n].keys[o])
    BY <1>8, <1>11, <2>1, <2>2, TwinsShare
  <2> QED BY <2>3 DEF o, Halved
<1>15. Given(w, rt, r, W)
  <2>1. W \in Intervals
    BY <1>a
  <2> HIDE DEF W
  <2> QED BY <1>13, <1>14, <2>1, GivenOther
<1> HIDE DEF w
<1>16. w \in Reach /\ w[r] = rt[l] \cup rt[r] /\ \A y \in Nat : y # r => w[y] = rt[y]
  BY <1>15 DEF Given
<1>17. r \in L /\ r \notin DOMAIN inner
  <2>1. r \in KidsOf(inner, n) /\ r \in DOMAIN inner \cup L
    BY <1>11 DEF Twins
  <2>2. lv[n] = lv[l] + 1 /\ lv[n] = lv[r] + 1 /\ lv[r] \in Nat /\ lv[l] = 1
    <3>1. \A c \in KidsOf(inner, n) : lv[n] = lv[c] + 1
      BY <1>5, <1>8, ForestFacts
    <3>2. lv[l] = 1 /\ lv[r] \in Nat
      BY <1>5, <1>6, <1>13 DEF Forest, Accounts, Levels
    <3> QED BY <1>8, <2>1, <3>1, <3>2
  <2>3. \A x \in DOMAIN inner : lv[x] \in 2..height
    BY <1>5 DEF Forest, Levels
  <2> QED BY <2>1, <2>2, <2>3
<1>18. Routes(node, w[n], w)
  <2>1. w[n] = rt[n] /\ \A d \in ToSet(inner[n].kids) : d \notin {l, r} => w[d] = rt[d]
    BY <1>8, <1>10, <1>13, <1>16 DEF Tidy, KidsOf
  <2>2. r = inner[n].kids[2] /\ node = InternalRemoveFirst(inner[n])
    BY DEF r, node
  <2> QED BY <1>8, <1>9, <1>14, <1>16, <2>1, <2>2, DroppedFirstRoutes
<1>19. ASSUME NEW y \in DOMAIN inner, y # n
       PROVE  Routes(inner[y], w[y], w)
  <2>1. NodeOK(inner[y]) /\ y \in Nat /\ \A d \in ToSet(inner[y].kids) : d \in Nat
    BY <1>10 DEF Tidy, KidsOf
  <2>2. \A d \in ToSet(inner[y].kids) : w[d] = rt[d]
    BY <1>11, <1>16, <1>19, <2>1 DEF Twins, KidsOf
  <2>3. Routes(inner[y], rt[y], rt) /\ w[y] = rt[y]
    BY <1>12, <1>16, <1>17, <2>1 DEF Sorted
  <2> QED BY <2>1, <2>2, <2>3, RoutesAgree
<1>20. DOMAIN inner' = DOMAIN inner /\ inner'[n] = node /\ \A y \in DOMAIN inner : y # n => inner'[y] = inner[y]
  BY <1>1, <1>8
<1>21. DOMAIN leaf' = L \ {l} /\ \A x \in DOMAIN leaf' : leaf'[x] = leaf[x]
  BY <1>1, ClosedFacts
<1>22. \A x \in L : Stores(leaf[x].keys, w[x])
  <2> TAKE x \in L
  <2>1. Stores(leaf[x].keys, rt[x]) /\ x \in Nat
    BY <1>10, <1>12 DEF Sorted, Tidy
  <2>2. rt[x] \subseteq w[x]
    BY <1>16, <2>1
  <2> QED BY <2>1, <2>2, StoresMore
<1>23. \A y \in DOMAIN inner' : Routes(inner'[y], w[y], w)
  BY <1>18, <1>19, <1>20
<1>b. 0 \in rt[l] /\ l # 0
  <2> DEFINE Z == {i \in Nat : i + 1 \in 1..height => 0 \in rt[p[i + 1]]}
  <2>1. 0 \in Z
    BY <1>1, <1>12
  <2>2. ASSUME NEW i \in Nat, i \in Z
        PROVE  i + 1 \in Z
    <3> SUFFICES ASSUME (i + 1) + 1 \in 1..height
                 PROVE  0 \in rt[p[(i + 1) + 1]]
      OBVIOUS
    <3> DEFINE m == p[i + 1]
    <3>1. i + 1 \in 1..height - 1 /\ i + 1 \in 1..height
      BY <1>2
    <3>2. m \in DOMAIN inner /\ p[(i + 1) + 1] = inner[m].kids[1] /\ 0 \in rt[m]
      BY <1>1, <1>3, <1>6, <2>2, <3>1
    <3> HIDE DEF m
    <3>3. NodeOK(inner[m]) /\ Routes(inner[m], rt[m], rt) /\ rt[m] \subseteq Nat
      BY <1>10, <1>12, <3>2, ReachFacts DEF Tidy, Sorted
    <3> QED BY <3>2, <3>3, ZeroGoesFirst
  <2> HIDE DEF Z
  <2>3. height - 1 \in Z
    <3>1. height - 1 \in Nat
      BY <1>2
    <3> QED BY <2>1, <2>2, <3>1, NatInductionOn
  <2>4. (height - 1) + 1 \in 1..height /\ p[(height - 1) + 1] = l
    BY <1>2 DEF l
  <2>5. l # 0
    BY <1>6 DEF Structure
  <2> QED BY <2>3, <2>4, <2>5 DEF Z
<1>c. Chained(leaf', w)
  <2>1. Chained(leaf, rt) /\ (\A x \in DOMAIN leaf : rt[x] \subseteq Nat) /\ \A x \in DOMAIN leaf : rt[x] \in Intervals
    BY <1>10, <1>12, ReachFacts DEF Sorted, Tidy
  <2>2. \A x \in DOMAIN leaf : leaf[x].next # l
    BY <1>6, <1>b, <2>1, NonePrecedes
  <2> DEFINE d == inner[n].keys[1]
  <2>3. /\ l \in DOMAIN leaf /\ r \in DOMAIN leaf /\ l # r /\ rt[l] \cup rt[r] \in Intervals
        /\ d \in Nat /\ Parts(rt[l], rt[r], d)
    BY <1>6, <1>13, <1>17, <1>a DEF W
  <2>4. w[r] = rt[l] \cup rt[r] /\ \A x \in DOMAIN leaf : x # l /\ x # r => w[x] = rt[x]
    BY <1>10, <1>16 DEF Tidy
  <2>5. DOMAIN leaf' = DOMAIN leaf \ {l} /\ \A x \in DOMAIN leaf : x # l => leaf'[x].next = leaf[x].next
    BY <1>21
  <2> HIDE DEF d
  <2> DEFINE lf2 == leaf'
  <2>6. DOMAIN lf2 = DOMAIN leaf \ {l} /\ \A x \in DOMAIN leaf : x # l => lf2[x].next = leaf[x].next
    BY <2>5
  <2> HIDE DEF lf2
  <2> HIDE DEF w
  <2> DEFINE lf == leaf
  <2>9. Chained(lf, rt)
    BY <2>1
  <2>8. /\ \A x \in DOMAIN lf : rt[x] \subseteq Nat
        /\ l \in DOMAIN lf /\ r \in DOMAIN lf /\ l # r /\ rt[l] \cup rt[r] \in Intervals
        /\ d \in Nat /\ Parts(rt[l], rt[r], d) /\ (\A x \in DOMAIN lf : lf[x].next # l)
        /\ w[r] = rt[l] \cup rt[r] /\ (\A x \in DOMAIN lf : x # l /\ x # r => w[x] = rt[x])
        /\ DOMAIN lf2 = DOMAIN lf \ {l} /\ (\A x \in DOMAIN lf : x # l => lf2[x].next = lf[x].next)
    BY <2>1, <2>2, <2>3, <2>4, <2>6
  <2> HIDE DEF lf
  <2>10. LosesFirst(lf, rt, l, r, d, lf2, w)
    BY ONLY <2>8 DEF LosesFirst
  <2>7. Chained(lf2, w)
    BY ONLY <2>9, <2>10, ChainLosesFirst
  <2> QED BY <2>7 DEF lf2
<1>24. Sorted(inner', leaf', w, w)
  BY <1>16, <1>21, <1>22, <1>23, <1>c DEF Sorted
<1>25. w[root'] = Nat
  BY <1>1, <1>10, <1>12, <1>13, <1>16 DEF Index
<1>26. leftmost' = r
  <2> DEFINE d == inner[n].keys[1]
  <2>1. Chained(leaf, rt) /\ l \in DOMAIN leaf /\ r \in DOMAIN leaf
    BY <1>6, <1>12, <1>17 DEF Sorted
  <2>2. d \in Nat /\ Parts(rt[l], rt[r], d) /\ rt[l] \cup rt[r] \in Intervals
    BY <1>a DEF W
  <2> HIDE DEF d
  <2>3. leaf[l].next = r
    BY <1>13, <2>1, <2>2, NeighbourIsNext
  <2> QED BY <2>3 DEF CompactLeaf, LeafOf, l
<1>27. Heads(leaf', r)
  <2> DEFINE lf2 == leaf'
  <2>1. \A x \in DOMAIN lf2 : w[x] \in Intervals
    BY <1>10, <1>16, <1>21, ReachFacts DEF Tidy
  <2>2. r \in DOMAIN lf2 /\ 0 \in w[r]
    BY <1>13, <1>16, <1>17, <1>21, <1>b
  <2>3. r # 0
    BY <1>17 DEF Structure
  <2>4. Chained(lf2, w)
    BY <1>c
  <2> HIDE DEF lf2
  <2>5. \A x \in DOMAIN lf2 : lf2[x].next # r
    BY <2>1, <2>2, <2>3, <2>4, NonePrecedes
  <2>6. Heads(lf2, r)
    BY <2>2, <2>3, <2>5 DEF Heads
  <2> QED BY <2>6 DEF lf2
<1> QED BY <1>24, <1>25, <1>26, <1>27 DEF SearchRests, AtRest

---------------------------------------------------------------------------
(* Batches *)

Keeper(n, S) == LeafOK(n) /\ Stores(n.keys, S)
Clear(n, k) == \A i \in 1..Len(n.keys) : n.keys[i] # k

LEMMA ClearMeans ==
    ASSUME NEW n, NEW S, Keeper(n, S), NEW k, k \in Nat
    PROVE  Clear(n, k) <=> ~HasKey(n, k)
<1>1. n.keys \in Seq(Nat) /\ Ascending(n.keys)
  BY DEF Keeper, LeafOK, Stores, Index
<1> QED BY <1>1, HasKeyFinds DEF Clear

LEMMA OneInserted ==
    ASSUME NEW n, NEW S, Keeper(n, S), S \subseteq Nat, NEW k, k \in S, Clear(n, k), NEW v
    PROVE  /\ Keeper(LeafInsert(n, k, v), S)
           /\ \A x : Clear(n, x) /\ x # k => Clear(LeafInsert(n, k, v), x)
<1> DEFINE i == LowerBound(n.keys, k)
           m == LeafInsert(n, k, v)
<1>1. LeafOK(n) /\ Stores(n.keys, S) /\ k \in Index /\ k \in Nat
  BY DEF Keeper, Index
<1>2. n.keys \in Seq(Index) /\ n = [keys |-> n.keys, vals |-> n.vals, next |-> n.next]
  BY <1>1 DEF LeafOK
<1>3. ~HasKey(n, k)
  BY <1>1, ClearMeans
<1>4. Keeper(m, S)
  BY <1>1, <1>3, LeafInsertOK, LeafInsertStores DEF Keeper
<1>5. m.keys = InsertAt(n.keys, i, k)
  BY <1>2, LeafEdit DEF LeafInsert
<1>6. i \in 1..Len(n.keys) + 1 /\ Len(n.keys) \in Nat
  BY <1>2, LowerBoundIsPosition, Positions
<1> HIDE DEF i
<1>7. InsertedAt(m.keys, n.keys, i, k)
  BY <1>1, <1>2, <1>5, <1>6, Inserts
<1>8. ASSUME NEW x, Clear(n, x), x # k PROVE Clear(m, x)
  <2> SUFFICES ASSUME NEW j \in 1..Len(m.keys) PROVE m.keys[j] # x
    BY DEF Clear
  <2>1. j \in 1..Len(n.keys) + 1 /\ m.keys[j] = IF j < i THEN n.keys[j] ELSE IF j = i THEN k ELSE n.keys[j - 1]
    BY <1>7 DEF InsertedAt
  <2>2. j < i => j \in 1..Len(n.keys)
    BY <1>6, <2>1
  <2>3. ~(j < i) /\ j # i => j - 1 \in 1..Len(n.keys)
    BY <1>6, <2>1
  <2> QED BY <1>8, <2>1, <2>2, <2>3 DEF Clear
<1> QED BY <1>4, <1>8

LEMMA AllInserted ==
    ASSUME NEW n, NEW S, Keeper(n, S), S \subseteq Nat, NEW ks, ks \in Seq(Index), Ascending(ks),
           \A i \in 1..Len(ks) : ks[i] \in S /\ Clear(n, ks[i]), NEW v
    PROVE  /\ Keeper(InsertAll(n, ks, v), S)
           /\ \A x : Clear(n, x) /\ (\A i \in 1..Len(ks) : ks[i] # x) => Clear(InsertAll(n, ks, v), x)
<1>0. Len(ks) \in Nat /\ \A i \in 1..Len(ks) : ks[i] \in Nat
  BY Positions DEF Index
<1>1. PICK s : InsertsUpto(s, n, ks, v) /\ InsertAll(n, ks, v) = s[Len(ks)]
  BY <1>0, InsertAllRuns
<1> DEFINE N == Len(ks)
           After(i) == Keeper(s[i], S) /\ \A x : Clear(n, x) /\ (\A j \in 1..i : ks[j] # x) => Clear(s[i], x)
           A == {i \in Nat : i <= N => After(i)}
<1>2. s[0] = n /\ \A i \in 1..N : s[i] = LeafInsert(s[i - 1], ks[i], v)
  <2>1. \A i \in 0..N : s[i] = IF i = 0 THEN n ELSE LeafInsert(s[i - 1], ks[i], v)
    BY <1>1 DEF InsertsUpto
  <2>2. 0 \in 0..N /\ \A i \in 1..N : i \in 0..N /\ i # 0
    BY <1>0
  <2> QED BY <2>1, <2>2
<1>3. 0 \in A
  BY <1>2
<1>4. ASSUME NEW i \in Nat, i \in A PROVE i + 1 \in A
  <2> SUFFICES ASSUME i + 1 <= N PROVE After(i + 1)
    OBVIOUS
  <2> DEFINE k == ks[i + 1]
             m == LeafInsert(s[i], k, v)
  <2>1. i <= N /\ i + 1 \in 1..N /\ (i + 1) - 1 = i /\ \A j \in 1..i : j \in 1..(i + 1) - 1
    BY <1>0
  <2>2. s[i + 1] = m /\ k \in S /\ Clear(n, k) /\ k \in Nat
    BY <1>0, <1>2, <2>1
  <2>3. Keeper(s[i], S) /\ \A x : Clear(n, x) /\ (\A j \in 1..i : ks[j] # x) => Clear(s[i], x)
    BY <1>4, <2>1
  <2>4. \A j \in 1..i : ks[j] # k
    <3>1. \A j \in 1..(i + 1) - 1 : ks[j] < ks[i + 1]
      <4>1. ks \in Seq(Nat)
        BY DEF Index
      <4> QED BY <2>1, <4>1, AscendingPairs
    <3>2. \A j \in 1..i : ks[j] < k /\ ks[j] \in Nat
      <4>1. \A j \in 1..i : j \in 1..N
        BY <2>1
      <4> QED BY <1>0, <2>1, <3>1, <4>1
    <3> QED BY <2>2, <3>2
  <2> HIDE DEF k
  <2>5. Clear(s[i], k)
    BY <2>2, <2>3, <2>4
  <2>6. Keeper(m, S) /\ \A x : Clear(s[i], x) /\ x # k => Clear(m, x)
    BY <2>2, <2>3, <2>5, OneInserted
  <2>7. i + 1 \in 1..i + 1 /\ \A j \in 1..i : j \in 1..i + 1
    OBVIOUS
  <2>8. ASSUME NEW x, Clear(n, x), \A j \in 1..i + 1 : ks[j] # x PROVE Clear(m, x)
    BY <2>3, <2>6, <2>7, <2>8 DEF k
  <2> QED BY <2>2, <2>6, <2>8
<1> HIDE DEF A
<1>5. N \in A
  BY <1>0, <1>3, <1>4, NatInductionOn
<1> QED BY <1>0, <1>1, <1>5 DEF A

(* A batch leaves the leaf where it is in the chain, longer by its entries. *)
LEMMA InsertAllGrows ==
    ASSUME NEW n, NEW ks, NEW v, LeafOK(n), ks \in Seq(Index)
    PROVE  InsertAll(n, ks, v).next = n.next /\ Len(InsertAll(n, ks, v).keys) = Len(n.keys) + Len(ks)
<1>0. Len(ks) \in Nat /\ (\A i \in 1..Len(ks) : ks[i] \in Index) /\ Len(n.keys) \in Nat
  BY Positions DEF LeafOK
<1>1. PICK s : InsertsUpto(s, n, ks, v) /\ InsertAll(n, ks, v) = s[Len(ks)]
  BY <1>0, InsertAllRuns
<1> DEFINE N == Len(ks)
           After(i) == LeafOK(s[i]) /\ s[i].next = n.next /\ Len(s[i].keys) = Len(n.keys) + i
           A == {i \in Nat : i <= N => After(i)}
<1>2. s[0] = n /\ \A i \in 1..N : s[i] = LeafInsert(s[i - 1], ks[i], v)
  <2>1. \A i \in 0..N : s[i] = IF i = 0 THEN n ELSE LeafInsert(s[i - 1], ks[i], v)
    BY <1>1 DEF InsertsUpto
  <2>2. 0 \in 0..N /\ \A i \in 1..N : i \in 0..N /\ i # 0
    BY <1>0
  <2> QED BY <2>1, <2>2
<1>3. 0 \in A
  BY <1>0, <1>2
<1>4. ASSUME NEW i \in Nat, i \in A PROVE i + 1 \in A
  <2>0. ASSUME i + 1 <= N PROVE LeafOK(s[i + 1]) /\ s[i + 1].next = n.next /\ Len(s[i + 1].keys) = Len(n.keys) + (i + 1)
    <3>1. i <= N /\ i + 1 \in 1..N /\ (i + 1) - 1 = i
      BY <1>0, <2>0
    <3>2. s[i + 1] = LeafInsert(s[i], ks[i + 1], v) /\ LeafOK(s[i]) /\ ks[i + 1] \in Index
      BY <1>0, <1>2, <1>4, <3>1
    <3>3. s[i].next = n.next /\ Len(s[i].keys) = Len(n.keys) + i
      BY <1>4, <3>1
    <3>4. LeafOK(s[i + 1]) /\ Len(s[i + 1].keys) = Len(s[i].keys) + 1 /\ s[i + 1].next = s[i].next
      BY <3>2, LeafInsertOK, NextKept
    <3>5. Len(s[i + 1].keys) = Len(n.keys) + (i + 1)
      <4> DEFINE a == Len(s[i + 1].keys)
                 b == Len(s[i].keys)
                 c == Len(n.keys)
      <4>1. b = c + i /\ a = b + 1 /\ c \in Nat /\ i \in Nat
        BY <1>0, <3>3, <3>4
      <4> HIDE DEF a, b, c
      <4>2. a = c + (i + 1)
        BY ONLY <4>1
      <4> QED BY <4>2 DEF a, c
    <3> QED BY <3>3, <3>4, <3>5
  <2>1. i + 1 \in Nat
    OBVIOUS
  <2>2. i + 1 <= N => After(i + 1)
    BY <2>0
  <2> QED BY <2>1, <2>2
<1> HIDE DEF A
<1>5. N \in A
  BY <1>0, <1>3, <1>4, NatInductionOn
<1> QED BY <1>0, <1>1, <1>5 DEF A

(* What the handlers know of a batch, beside what they check of its leaf.  *)
Batch(ks) ==
    /\ ks \in Seq(Index) /\ Ascending(ks)
    /\ Head(ks) \in Nat /\ Last(ks) \in Nat /\ Head(ks) <= Last(ks)
    /\ \A i \in 1..Len(ks) : ks[i] \in Nat /\ Head(ks) <= ks[i] /\ ks[i] <= Last(ks)

LEMMA BatchFacts ==
    ASSUME NEW ks, ks \in Seq(Index), Ascending(ks), ks # <<>>
    PROVE  Batch(ks)
<1> DEFINE N == Len(ks)
<1>1. N \in Nat /\ N > 0 /\ 1 \in 1..N /\ N \in 1..N /\ \A i \in 1..N : ks[i] \in Nat
  BY Positions DEF Index
<1>2. Head(ks) = ks[1] /\ Last(ks) = ks[N]
  BY <1>1, TailFacts, FrontFacts
<1>3. ASSUME NEW j \in 1..N, NEW i \in 1..N, i <= j PROVE ks[i] <= ks[j]
  <2>1. CASE i = j
    BY <1>1, <2>1
  <2>2. CASE i # j
    <3>1. i \in 1..j - 1
      BY <1>1, <1>3, <2>2
    <3>2. ks \in Seq(Nat)
      BY DEF Index
    <3> QED BY <1>1, <3>1, <3>2, AscendingPairs
  <2> QED BY <2>1, <2>2
<1>4. \A i \in 1..N : 1 <= i /\ i <= N
  BY <1>1
<1>5. \A i \in 1..N : ks[1] <= ks[i] /\ ks[i] <= ks[N]
  BY <1>1, <1>3, <1>4
<1> QED BY <1>1, <1>2, <1>5 DEF Batch

(* All keys between two that a path leads to the leaf do belong there. *)
LEMMA BetweenReach ==
    ASSUME NEW p, NEW a, Descended(p, a), a \in Index, NEW b, b \in Index, RoutesAlong(p, b),
           NEW rt, Sorted(inner, leaf, rt, rt), rt[root] = Nat, NEW k, k \in Nat, a <= k, k <= b
    PROVE  k \in rt[p[height]]
<1>1. /\ height \in Nat /\ height > 0 /\ p[1] = root
      /\ \A i \in 1..height - 1 : /\ p[i] \in DOMAIN inner /\ p[i] \in Nat /\ NodeOK(inner[p[i]])
                                  /\ p[i + 1] \in KidsOf(inner, p[i])
  BY DEF Descended
<1>2. \A i \in 1..height : a \in rt[p[i]]
  <2>1. \A i \in 1..height - 1 : p[i] \in DOMAIN inner /\ p[i] \in Nat /\ NodeOK(inner[p[i]]) /\ p[i + 1] = ChildFor(inner[p[i]], a)
    BY DEF Descended
  <2>2. a \in rt[p[1]]
    BY <1>1 DEF Index
  <2> QED BY <1>1, <2>1, <2>2, ReachedDown
<1>3. \A i \in 1..height : b \in rt[p[i]]
  <2>1. \A i \in 1..height - 1 : p[i] \in DOMAIN inner /\ p[i] \in Nat /\ NodeOK(inner[p[i]]) /\ p[i + 1] = ChildFor(inner[p[i]], b)
    BY <1>1 DEF RoutesAlong
  <2>2. b \in rt[p[1]]
    BY <1>1 DEF Index
  <2> QED BY <1>1, <2>1, <2>2, ReachedDown
<1> DEFINE A == {d \in Nat : d + 1 <= height => k \in rt[p[d + 1]]}
<1>4. 0 \in A
  BY <1>1
<1>5. ASSUME NEW d \in Nat, d \in A PROVE d + 1 \in A
  <2> SUFFICES ASSUME (d + 1) + 1 <= height PROVE k \in rt[p[(d + 1) + 1]]
    OBVIOUS
  <2> DEFINE i == d + 1
  <2>1. i \in 1..height - 1 /\ i \in 1..height /\ i + 1 \in 1..height /\ k \in rt[p[i]]
    BY <1>1, <1>5
  <2> HIDE DEF i
  <2>2. NodeOK(inner[p[i]]) /\ p[i] \in DOMAIN inner /\ p[i] \in Nat /\ p[i + 1] \in ToSet(inner[p[i]].kids)
    BY <1>1, <2>1 DEF KidsOf
  <2>3. Routes(inner[p[i]], rt[p[i]], rt) /\ rt[p[i]] \subseteq Nat
    BY <2>2, ReachFacts DEF Sorted
  <2>4. a \in rt[p[i + 1]] /\ b \in rt[p[i + 1]]
    BY <1>2, <1>3, <2>1
  <2>5. k \in rt[p[i + 1]]
    BY <2>1, <2>2, <2>3, <2>4, Convex
  <2> QED BY <2>5 DEF i
<1>6. \A d \in Nat : d \in A
  <2> HIDE DEF A
  <2> QED BY <1>4, <1>5, NatInductionOn
<1>7. height - 1 \in Nat /\ (height - 1) + 1 = height /\ (height - 1) + 1 <= height
  BY <1>1
<1>8. height - 1 \in A
  BY <1>6, <1>7
<1> QED BY <1>7, <1>8

(* A batch that fits a leaf belongs there. *)
Belongs(l, ks, rt) ==
    /\ l \in DOMAIN leaf /\ rt[l] \subseteq Nat
    /\ \A i \in 1..Len(ks) : ks[i] \in rt[l] /\ Clear(leaf[l], ks[i])

LEMMA FitsBelongs ==
    ASSUME Structure, NEW p, NEW ks, ks \in Seq(Index), ks # <<>>, Fits(p, ks),
           NEW rt, Sorted(inner, leaf, rt, rt), rt[root] = Nat
    PROVE  Batch(ks) /\ Belongs(p[height], ks, rt)
<1> DEFINE l == p[height]
<1>1. /\ Descends(p, Head(ks)) /\ RoutesAlong(p, Last(ks)) /\ Ascending(ks)
      /\ \A i \in DOMAIN ks : ~HasKey(leaf[l], ks[i])
  BY DEF Fits, LeafOf
<1>2. Batch(ks) /\ DOMAIN ks = 1..Len(ks)
  BY <1>1, BatchFacts, Positions
<1>3. Descended(p, Head(ks)) /\ Head(ks) \in Index /\ Last(ks) \in Index
  BY <1>1, <1>2, DescentFacts DEF Batch, Index
<1>4. l \in DOMAIN leaf /\ rt[l] \subseteq Nat /\ Keeper(leaf[l], rt[l])
  BY <1>3, KeyReachesLeaf DEF Descended, Keeper
<1>5. ASSUME NEW i \in 1..Len(ks) PROVE ks[i] \in rt[l] /\ Clear(leaf[l], ks[i])
  <2>1. ks[i] \in Nat /\ Head(ks) <= ks[i] /\ ks[i] <= Last(ks)
    BY <1>2 DEF Batch
  <2>2. ~HasKey(leaf[l], ks[i])
    BY <1>1, <1>2
  <2> HIDE DEF l
  <2>3. Clear(leaf[l], ks[i])
    BY <1>4, <2>1, <2>2, ClearMeans
  <2>4. ks[i] \in rt[p[height]]
    BY <1>1, <1>3, <2>1, BetweenReach
  <2> QED BY <2>3, <2>4 DEF l
<1> QED BY <1>2, <1>4, <1>5 DEF Belongs

LEMMA BulkRests ==
    ASSUME Structure, SearchRests, NEW p, NEW ks, ks \in Seq(Index), ks # <<>>, NEW v, BulkInsertFast(p, ks, v)
    PROVE  SearchRests'
<1> DEFINE l == p[height]
           node == InsertAll(leaf[l], ks, v)
<1>1. Fits(p, ks) /\ leaf' = [leaf EXCEPT ![l] = node] /\ inner' = inner /\ root' = root
  BY DEF BulkInsertFast, header
<1>2. height # 0
  BY <1>1 DEF Fits, Descends, Structure
<1>3. PICK rt : Sorted(inner, leaf, rt, rt) /\ rt[root] = Nat
  BY <1>2 DEF SearchRests, AtRest
<1>4. Batch(ks) /\ Belongs(l, ks, rt)
  BY <1>1, <1>3, FitsBelongs
<1>5. l \in DOMAIN leaf /\ Keeper(leaf[l], rt[l])
  BY <1>3, <1>4 DEF Belongs, Keeper, Sorted, Structure
<1>6. Keeper(node, rt[l])
  <2> HIDE DEF l
  <2>1. rt[l] \subseteq Nat /\ Ascending(ks) /\ \A i \in 1..Len(ks) : ks[i] \in rt[l] /\ Clear(leaf[l], ks[i])
    BY <1>4 DEF Belongs, Batch
  <2> QED BY <1>5, <2>1, AllInserted
<1>a. node.next = leaf[l].next
  BY <1>5, InsertAllGrows DEF Keeper
<1> HIDE DEF node, l
<1>7. AtRest(inner, leaf', root)
  BY <1>1, <1>3, <1>5, <1>6, <1>a, LeafRewriteRests DEF Keeper
<1> QED BY <1>1, <1>7 DEF SearchRests

(* The batches for several leaves, each past the one before. *)
LEMMA MultiRests ==
    ASSUME Structure, SearchRests, NEW ps, NEW batches, NEW v, MultiLeafInsertFast(ps, batches, v),
           DOMAIN batches = 1..Len(batches), Len(batches) \in Nat,
           \A b \in 1..Len(batches) : batches[b] \in Seq(Index) /\ batches[b] # <<>>
    PROVE  SearchRests'
<1> DEFINE N == Len(batches)
           at(b) == ps[b][height]
<1>1. /\ \A b \in 1..N : Fits(ps[b], batches[b])
      /\ \A b \in 1..N : b > 1 => Last(batches[b - 1]) < Head(batches[b])
      /\ leaf' = WriteBatches(ps, batches, v) /\ inner' = inner /\ root' = root /\ height' = height
  BY DEF MultiLeafInsertFast, header
<1>2. CASE height = 0
  BY <1>1, <1>2 DEF SearchRests
<1>3. CASE height # 0
  <2>1. PICK rt : Sorted(inner, leaf, rt, rt) /\ rt[root] = Nat
    BY <1>3 DEF SearchRests, AtRest
  <2>2. \A b \in 1..N : Batch(batches[b]) /\ Belongs(at(b), batches[b], rt)
    BY <1>1, <2>1, FitsBelongs
  <2>3. PICK s : Writes(s, ps, batches, v) /\ WriteBatches(ps, batches, v) = s[N]
    BY WriteBatchesRuns
  <2>4. s[0] = leaf /\ \A b \in 1..N : s[b] = [s[b - 1] EXCEPT ![at(b)] = InsertAll(s[b - 1][at(b)], batches[b], v)]
    <3>1. \A b \in 0..N : s[b] = IF b = 0 THEN leaf
                                 ELSE [s[b - 1] EXCEPT ![at(b)] = InsertAll(s[b - 1][at(b)], batches[b], v)]
      BY <2>3 DEF Writes
    <3>2. 0 \in 0..N /\ \A b \in 1..N : b \in 0..N /\ b # 0
      OBVIOUS
    <3> QED BY <3>1, <3>2
  <2> DEFINE Beyond(b, x) == b > 0 => Last(batches[b]) < x
             After(b) ==
               /\ DOMAIN s[b] = DOMAIN leaf
               /\ \A l \in DOMAIN leaf : Keeper(s[b][l], rt[l])
               /\ \A l \in DOMAIN leaf : s[b][l].next = leaf[l].next
               /\ \A l \in DOMAIN leaf : \A x \in Nat : Clear(leaf[l], x) /\ Beyond(b, x) => Clear(s[b][l], x)
             A == {b \in Nat : b <= N => After(b)}
  <2>5. 0 \in A
    <3>1. \A l \in DOMAIN leaf : Keeper(leaf[l], rt[l])
      BY <2>1 DEF Keeper, Sorted, Structure
    <3> QED BY <2>4, <3>1
  <2>6. ASSUME NEW d \in Nat, d \in A PROVE d + 1 \in A
    <3> SUFFICES ASSUME d + 1 <= N PROVE After(d + 1)
      OBVIOUS
    <3> DEFINE b == d + 1
               l == at(b)
               ks == batches[b]
               L == s[d]
               node == InsertAll(L[l], ks, v)
    <3>1. b \in 1..N /\ b - 1 = d /\ d <= N /\ (d > 0 => d \in 1..N /\ b > 1)
      OBVIOUS
    <3>2. /\ DOMAIN L = DOMAIN leaf
          /\ \A m \in DOMAIN leaf : Keeper(L[m], rt[m])
          /\ \A m \in DOMAIN leaf : L[m].next = leaf[m].next
          /\ \A m \in DOMAIN leaf : \A x \in Nat : Clear(leaf[m], x) /\ Beyond(d, x) => Clear(L[m], x)
      BY <2>6, <3>1
    <3>3. Batch(ks) /\ Belongs(l, ks, rt) /\ s[b] = [L EXCEPT ![l] = node]
      BY <2>2, <2>4, <3>1
    <3>4. \A x \in Nat : Head(ks) <= x => Beyond(d, x)
      <4>1. d > 0 => Last(batches[d]) < Head(ks) /\ Last(batches[d]) \in Nat
        BY <1>1, <2>2, <3>1 DEF Batch
      <4>2. Head(ks) \in Nat
        BY <3>3 DEF Batch
      <4> HIDE DEF ks
      <4> QED BY <4>1, <4>2
    <3> HIDE DEF l, ks, L, b, Beyond
    <3>5. l \in DOMAIN leaf /\ Keeper(L[l], rt[l]) /\ rt[l] \subseteq Nat /\ ks \in Seq(Index) /\ Ascending(ks)
      BY <3>2, <3>3 DEF Belongs, Batch
    <3>6. \A i \in 1..Len(ks) : ks[i] \in rt[l] /\ Clear(L[l], ks[i])
      BY <3>2, <3>3, <3>4 DEF Belongs, Batch
    <3>7. Keeper(node, rt[l]) /\ \A x : Clear(L[l], x) /\ (\A i \in 1..Len(ks) : ks[i] # x) => Clear(node, x)
      BY <3>5, <3>6, AllInserted
    <3>a. node.next = L[l].next
      BY <3>5, InsertAllGrows DEF Keeper
    <3> HIDE DEF node
    <3>8. /\ DOMAIN s[b] = DOMAIN leaf /\ s[b][l] = node
          /\ \A m \in DOMAIN leaf : m # l => s[b][m] = L[m]
      BY <3>2, <3>3, <3>5
    <3>9. ASSUME NEW m \in DOMAIN leaf PROVE Keeper(s[b][m], rt[m])
      BY <3>2, <3>7, <3>8
    <3>10. ASSUME NEW m \in DOMAIN leaf, NEW x \in Nat, Clear(leaf[m], x), Beyond(b, x) PROVE Clear(s[b][m], x)
      <4>1. Last(ks) < x
        BY <3>1, <3>10 DEF Beyond, ks
      <4>2. Head(ks) <= x /\ \A i \in 1..Len(ks) : ks[i] # x
        BY <3>3, <4>1 DEF Batch
      <4>3. Clear(L[m], x)
        BY <3>2, <3>4, <3>10, <4>2
      <4> QED BY <3>7, <3>8, <4>2, <4>3
    <3>b. \A m \in DOMAIN leaf : s[b][m].next = leaf[m].next
      BY <3>2, <3>8, <3>a
    <3>11. After(b)
      BY <3>8, <3>9, <3>10, <3>b
    <3> QED BY <3>11 DEF b
  <2> HIDE DEF A
  <2>7. N \in A
    BY <2>5, <2>6, NatInductionOn
  <2>8. DOMAIN leaf' = DOMAIN leaf /\ \A l \in DOMAIN leaf : Stores(leaf'[l].keys, rt[l])
    BY <1>1, <2>3, <2>7 DEF A, Keeper
  <2>10. \A l \in DOMAIN leaf : leaf'[l].next = leaf[l].next
    BY <1>1, <2>3, <2>7 DEF A
  <2>9. AtRest(inner, leaf', root)
    BY <2>1, <2>8, <2>10, RewriteRests
  <2> QED BY <1>1, <2>9 DEF SearchRests
<1> QED BY <1>2, <1>3

---------------------------------------------------------------------------
(* Every instruction leaves a search tree *)

LEMMA NextRests ==
    ASSUME Structure, SearchRests, [Next]_vars
    PROVE  SearchRests'
<1>1. CASE UNCHANGED vars
  BY <1>1 DEF vars, SearchRests
<1>2. ASSUME NEW k \in Key, NEW v, InsertFast(Path(k), k, v) \/ UpdateFast(Path(k), k, v) \/ DeleteFast(Path(k), k)
      PROVE  SearchRests'
  BY <1>2, FastStepsRest
<1>3. ASSUME NEW k \in Key, NEW v, NEW p, NEW from, NEW spares, Insert(p, k, v, from, spares)
      PROVE  SearchRests'
  <2> k \in Index
    BY KeyIsIndex
  <2>1. CASE InsertFirst(k, v, from, spares)
    BY <2>1, InsertFirstRests
  <2>2. CASE InsertRoom(p, k, v)
    BY <2>2, FastStepsRest
  <2>3. CASE InsertSplit(p, k, v, from, spares)
    <3>1. height # 0
      BY <2>3 DEF InsertSplit, Descends, Structure
    <3> QED BY <2>3, <3>1, InsertSplitRests DEF SearchRests
  <2> QED BY <1>3, <2>1, <2>2, <2>3 DEF Insert
<1>4. ASSUME NEW p, NEW k \in Key, NEW sides, NEW sibs, Delete(p, k, sides, sibs)
      PROVE  SearchRests'
  <2>1. height # 0 /\ k \in Index
    BY <1>4, KeyIsIndex DEF Delete, Descends, Structure
  <2> QED BY <1>4, <2>1, DeleteRests DEF SearchRests
<1>5. ASSUME NEW p, CompactLeaf(p)
      PROVE  SearchRests'
  BY <1>5, CompactRests
<1>6. ASSUME NEW ks, ks \in Batches, NEW p, NEW v, BulkInsertFast(p, ks, v)
      PROVE  SearchRests'
  BY <1>6, BatchIsSeq, BulkRests
<1>7. ASSUME NEW ks, ks \in Batches, NEW v, NEW cut \in 1..Len(ks) - 1, NEW ps,
             MultiLeafInsertFast(ps, <<UpTo(ks, cut), From(ks, cut + 1)>>, v)
      PROVE  SearchRests'
  <2>1. ks \in Seq(Index) /\ Len(ks) \in Nat
    BY <1>7, BatchIsSeq
  <2> DEFINE batches == <<UpTo(ks, cut), From(ks, cut + 1)>>
  <2>2. /\ UpTo(ks, cut) \in Seq(Index) /\ From(ks, cut + 1) \in Seq(Index)
        /\ UpTo(ks, cut) # <<>> /\ From(ks, cut + 1) # <<>>
    <3>1. cut \in 0..Len(ks) /\ cut + 1 \in 1..Len(ks) + 1 /\ cut > 0 /\ Len(ks) - (cut + 1) + 1 > 0
      BY <2>1
    <3>2. /\ UpTo(ks, cut) \in Seq(Index) /\ Len(UpTo(ks, cut)) = cut
          /\ From(ks, cut + 1) \in Seq(Index) /\ Len(From(ks, cut + 1)) = Len(ks) - (cut + 1) + 1
      BY <2>1, <3>1, UpToFacts, FromFacts
    <3> QED BY <3>1, <3>2
  <2>3. /\ Len(batches) = 2 /\ DOMAIN batches = 1..Len(batches)
        /\ \A b \in 1..Len(batches) : batches[b] \in Seq(Index) /\ batches[b] # <<>>
    BY <2>2
  <2>4. MultiLeafInsertFast(ps, batches, v)
    BY <1>7
  <2> HIDE DEF batches
  <2> QED BY <2>3, <2>4, MultiRests
<1>8. CASE Next
  BY <1>2, <1>3, <1>4, <1>5, <1>6, <1>7, <1>8 DEF Next
<1> QED BY <1>1, <1>8

SearchInv == Structure /\ SearchRests

LEMMA SearchInvHolds == Spec => []SearchInv
<1>1. Init => SearchInv
  BY InitStructured DEF Init, SearchInv, SearchRests
<1>2. SearchInv /\ [Next]_vars => SearchInv'
  BY NextKeeps, NextRests DEF SearchInv
<1> QED BY <1>1, <1>2, PTL DEF Spec

---------------------------------------------------------------------------
(* Each key in the leaf a descent for it ends at *)

PathRun(s, k) == s = [i \in 1..height |-> IF i = 1 THEN root ELSE ChildFor(inner[s[i - 1]], k)]

LEMMA PathRuns ==
    ASSUME NEW k, height \in Nat
    PROVE  \E s : PathRun(s, k) /\ Path(k) = [i \in 1..height |-> s[i]]
<1> DEFINE N == height
           Step(s, i) == IF i = 1 THEN root ELSE ChildFor(inner[s[i - 1]], k)
           Upto(s, d) == s = [i \in 1..N |-> s[i]] /\ \A i \in 1..N : i <= d => s[i] = Step(s, i)
           A == {d \in Nat : \E s : Upto(s, d)}
<1> HIDE DEF N
<1>0. N \in Nat
  BY DEF N
<1>1. 0 \in A
  <2> DEFINE s == [i \in 1..N |-> root]
  <2>1. s = [i \in 1..N |-> s[i]] /\ \A i \in 1..N : ~(i <= 0)
    BY <1>0
  <2> HIDE DEF s
  <2>2. Upto(s, 0)
    BY <2>1
  <2> QED BY <2>2
<1>2. ASSUME NEW d \in Nat, d \in A PROVE d + 1 \in A
  <2>1. PICK s : Upto(s, d)
    BY <1>2
  <2> DEFINE t == [i \in 1..N |-> IF i = d + 1 THEN Step(s, i) ELSE s[i]]
  <2>2. t = [i \in 1..N |-> t[i]] /\ \A i \in 1..N : t[i] = IF i = d + 1 THEN Step(s, i) ELSE s[i]
    OBVIOUS
  <2> HIDE DEF t
  <2>3. ASSUME NEW i \in 1..N, i <= d + 1 PROVE t[i] = Step(t, i)
    <3>1. i # 1 => i - 1 \in 1..N /\ i - 1 # d + 1
      BY <1>0, <2>3
    <3>2. i # 1 => t[i - 1] = s[i - 1]
      BY <2>2, <3>1
    <3>3. Step(t, i) = Step(s, i)
      BY <3>2
    <3>4. t[i] = Step(s, i)
      <4>1. i # d + 1 => i <= d
        BY <1>0, <2>3
      <4> HIDE DEF Step
      <4> QED BY <2>1, <2>2, <4>1
    <3> QED BY <3>3, <3>4
  <2>4. Upto(t, d + 1)
    BY <2>2, <2>3
  <2> HIDE DEF Upto
  <2> QED BY <2>4
<1> HIDE DEF A
<1>3. N \in A
  BY <1>0, <1>1, <1>2, NatInductionOn
<1>4. PICK s : Upto(s, N)
  BY <1>3 DEF A
<1>5. PathRun(s, k)
  <2>1. \A i \in 1..N : i <= N
    BY <1>0
  <2>2. \A i \in 1..N : s[i] = Step(s, i)
    <3> HIDE DEF Step
    <3> QED BY <1>4, <2>1
  <2> QED BY <1>4, <2>2 DEF PathRun, N
<1> DEFINE c == CHOOSE c : PathRun(c, k)
<1>6. PathRun(c, k)
  BY <1>5
<1>7. Path(k) = [i \in 1..height |-> c[i]]
  BY Zenon DEF Path, PathRun
<1> QED BY <1>6, <1>7

LEMMA PathDescends ==
    ASSUME NEW k, height \in Nat, height > 0
    PROVE  Descends(Path(k), k)
<1>1. PICK s : PathRun(s, k) /\ Path(k) = [i \in 1..height |-> s[i]]
  BY PathRuns
<1>2. \A i \in 1..height : s[i] = IF i = 1 THEN root ELSE ChildFor(inner[s[i - 1]], k)
  BY <1>1 DEF PathRun
<1>3. Len(Path(k)) = height /\ \A i \in 1..height : Path(k)[i] = s[i]
  BY <1>1
<1>4. 1 \in 1..height /\ \A i \in 1..height - 1 : i \in 1..height /\ i + 1 \in 1..height /\ i + 1 # 1 /\ (i + 1) - 1 = i
  OBVIOUS
<1>5. Path(k)[1] = root
  BY <1>2, <1>3, <1>4
<1>6. \A i \in 1..height - 1 : Path(k)[i + 1] = ChildFor(inner[Path(k)[i]], k)
  <2> TAKE i \in 1..height - 1
  <2>1. i \in 1..height /\ i + 1 \in 1..height /\ i + 1 # 1 /\ (i + 1) - 1 = i
    BY <1>4
  <2>2. s[i + 1] = ChildFor(inner[s[(i + 1) - 1]], k)
    BY <1>2, <2>1
  <2>3. s[i + 1] = ChildFor(inner[s[i]], k)
    BY <2>1, <2>2
  <2> QED BY <1>3, <2>1, <2>3
<1> QED BY <1>3, <1>5, <1>6 DEF Descends

(* The only node of its level that a key reaches is on the key's path. *)
LEMMA OnThePath ==
    ASSUME Structure, height # 0, NEW rt, Sorted(inner, leaf, rt, rt), rt[root] = Nat, NEW k, k \in Index,
           NEW n, n \in DOMAIN leaf, k \in rt[n]
    PROVE  Path(k)[height] = n
<1> DEFINE P == Path(k)
           L == DOMAIN leaf
<1>1. height \in Nat /\ height > 0
  BY DEF Structure
<1>2. PICK lv, up : Forest(inner, L, {root}, height, lv, up) /\ lv[root] = height
  BY DEF Structure, Settled
<1>3. Descended(P, k)
  BY <1>1, PathDescends, DescentFacts
<1> HIDE DEF P
<1>4. /\ \A x \in DOMAIN inner \cup L : lv[x] \in Nat
      /\ \A x \in DOMAIN inner : lv[x] <= height
      /\ \A x \in DOMAIN inner : \A c \in KidsOf(inner, x) : lv[x] = lv[c] + 1
      /\ \A x \in L : lv[x] = 1
      /\ \A c \in (DOMAIN inner \cup L) : c # root => up[c] \in DOMAIN inner /\ c \in KidsOf(inner, up[c])
  <2>1. Levels(inner, L, height, lv) /\ NoOrphan(inner, L, {root}, up)
    BY <1>2 DEF Forest
  <2>2. \A c \in (DOMAIN inner \cup L) : c # root => up[c] \in DOMAIN inner /\ c \in KidsOf(inner, up[c])
    BY <2>1 DEF NoOrphan
  <2>3. \A x \in DOMAIN inner : lv[x] <= height
    BY <2>1 DEF Levels
  <2>4. \A x \in L : lv[x] = 1
    BY <2>1 DEF Levels
  <2>5. \A x \in DOMAIN inner : \A c \in KidsOf(inner, x) : lv[x] = lv[c] + 1
    BY <1>2, ForestFacts
  <2>6. \A x \in DOMAIN inner \cup L : lv[x] \in Nat
    BY <1>2, ForestFacts
  <2> QED BY <2>2, <2>3, <2>4, <2>5, <2>6
<1>5. Tidy(inner, L, {root})
  BY RestTidy
<1> DEFINE A == {d \in Nat : d < height =>
                    \A x \in DOMAIN inner \cup L : lv[x] = height - d /\ k \in rt[x] => x = P[d + 1]}
<1>6. 0 \in A
  <2> SUFFICES ASSUME NEW x \in DOMAIN inner \cup L, lv[x] = height, x # root PROVE FALSE
    <3>1. P[1] = root /\ height - 0 = height
      BY <1>1, <1>3 DEF Descended
    <3> QED BY <3>1
  <2>1. up[x] \in DOMAIN inner /\ x \in KidsOf(inner, up[x])
    BY <1>4
  <2>2. lv[up[x]] = height + 1 /\ lv[up[x]] <= height
    BY <1>4, <2>1
  <2> QED BY <1>1, <2>2
<1>7. ASSUME NEW d \in Nat, d \in A PROVE d + 1 \in A
  <2> SUFFICES ASSUME d + 1 < height,
                      NEW x \in DOMAIN inner \cup L, lv[x] = height - (d + 1), k \in rt[x]
               PROVE  x = P[(d + 1) + 1]
    OBVIOUS
  <2> DEFINE i == d + 1
             y == up[x]
  <2>1. i \in 1..height - 1 /\ d < height /\ (height - (d + 1)) + 1 = height - d /\ height - (d + 1) # height
    BY <1>1
  <2>2. x # root
    BY <1>2, <2>1
  <2>3. y \in DOMAIN inner /\ x \in KidsOf(inner, y)
    BY <1>4, <2>2
  <2>4. lv[y] = height - d
    BY <1>4, <2>1, <2>3
  <2> HIDE DEF y
  <2>5. NodeOK(inner[y]) /\ Routes(inner[y], rt[y], rt) /\ rt[y] \subseteq Nat
    <3>1. y \in Nat /\ NodeOK(inner[y])
      BY <1>5, <2>3 DEF Tidy
    <3>2. Routes(inner[y], rt[y], rt) /\ rt \in Reach
      BY <2>3 DEF Sorted
    <3> QED BY <3>1, <3>2, ReachFacts
  <2>6. k \in rt[y]
    BY <2>3, <2>5 DEF Routes, KidsOf
  <2>7. y = P[i]
    BY <1>7, <2>1, <2>3, <2>4, <2>6
  <2> HIDE DEF i, A
  <2>8. P[i + 1] = ChildFor(inner[y], k) /\ P[i + 1] \in KidsOf(inner, y)
    BY <1>3, <2>1, <2>7 DEF Descended
  <2>9. k \in rt[P[i + 1]]
    BY <2>5, <2>6, <2>8, GoesTo
  <2>10. x = P[i + 1]
    <3> DEFINE z == P[i + 1]
               node == inner[y]
               S == rt[y]
    <3>1. x \in ToSet(node.kids) /\ z \in ToSet(node.kids) /\ k \in rt[x] /\ k \in rt[z]
      BY <2>3, <2>8, <2>9 DEF KidsOf
    <3>2. NodeOK(node) /\ Routes(node, S, rt) /\ S \subseteq Nat
      BY <2>5
    <3> HIDE DEF z, node, S
    <3>3. x = z
      BY <3>1, <3>2, Apart
    <3> QED BY <3>3 DEF z
  <2> QED BY <2>10 DEF i
<1> HIDE DEF A
<1>8. \A d \in Nat : d \in A
  BY <1>6, <1>7, NatInductionOn
<1>9. height - 1 \in Nat /\ height - 1 < height /\ height - (height - 1) = 1 /\ (height - 1) + 1 = height
  BY <1>1
<1>10. \A x \in DOMAIN inner \cup L : lv[x] = 1 /\ k \in rt[x] => x = P[height]
  <2>1. height - 1 \in A
    BY <1>8, <1>9
  <2> QED BY <1>9, <2>1 DEF A
<1>11. n = P[height]
  BY <1>4, <1>10
<1> QED BY <1>11 DEF P

LEMMA NodesAscend ==
    ASSUME SearchInv
    PROVE  /\ \A n \in DOMAIN inner : Ascending(inner[n].keys) /\ inner[n].keys \in Seq(Nat)
           /\ \A n \in DOMAIN leaf : Ascending(leaf[n].keys) /\ leaf[n].keys \in Seq(Nat)
<1>1. CASE height = 0
  BY <1>1 DEF SearchInv, Structure, NoNodes
<1>2. CASE height # 0
  <2>1. PICK rt : Sorted(inner, leaf, rt, rt) /\ rt[root] = Nat
    BY <1>2 DEF SearchInv, SearchRests, AtRest
  <2>2. Tidy(inner, DOMAIN leaf, {root})
    BY <1>2, RestTidy DEF SearchInv
  <2>3. ASSUME NEW n \in DOMAIN inner PROVE Ascending(inner[n].keys) /\ inner[n].keys \in Seq(Nat)
    <3>1. n \in Nat /\ NodeOK(inner[n])
      BY <2>2 DEF Tidy
    <3>2. Routes(inner[n], rt[n], rt) /\ rt \in Reach
      BY <2>1 DEF Sorted
    <3>3. rt[n] \subseteq Nat
      BY <3>1, <3>2, ReachFacts
    <3> QED BY <3>1, <3>2, <3>3, RoutesBounded, NodeLists
  <2>4. ASSUME NEW n \in DOMAIN leaf PROVE Ascending(leaf[n].keys) /\ leaf[n].keys \in Seq(Nat)
    BY <2>1 DEF Sorted, Stores, SearchInv, Structure, LeafOK, Index
  <2> QED BY <2>3, <2>4
<1> QED BY <1>1, <1>2

LEMMA KeysWhereSought ==
    ASSUME SearchInv, NEW n \in DOMAIN leaf, NEW k \in Range(leaf[n].keys)
    PROVE  Path(k)[height] = n
<1>1. height # 0
  BY DEF SearchInv, Structure, NoNodes
<1>2. PICK rt : Sorted(inner, leaf, rt, rt) /\ rt[root] = Nat
  BY <1>1 DEF SearchInv, SearchRests, AtRest
<1>3. leaf[n].keys \in Seq(Index)
  BY DEF SearchInv, Structure, LeafOK
<1>4. PICK i \in 1..Len(leaf[n].keys) : k = leaf[n].keys[i]
  BY <1>3 DEF Range
<1>5. k \in rt[n] /\ k \in Index
  BY <1>2, <1>3, <1>4, Positions DEF Sorted, Stores
<1> QED BY <1>1, <1>2, <1>5, OnThePath DEF SearchInv

(* Whatever instructions run, every stored key is in the leaf that a       *)
(* descent for it ends at: no split, rotation, merge, collapse, compaction *)
(* or batch ever hides one.                                                *)
THEOREM SearchTreeEver == Spec => []SearchTree
<1>1. SearchInv => SearchTree
  BY NodesAscend, KeysWhereSought DEF SearchTree
<1> QED BY <1>1, SearchInvHolds, PTL

(* The bisection that every descent and lookup runs is right in every node *)
(* of every reachable tree, for every key.                                 *)
THEOREM BisectionServesEveryNode == Spec => []BisectionIsLowerBound
<1>1. SearchInv => BisectionIsLowerBound
  <2> SUFFICES ASSUME SearchInv, NEW n \in Range(inner) \cup Range(leaf), NEW k \in Key
               PROVE  Bisect(n.keys, k) = LowerBound(n.keys, k)
    BY DEF BisectionIsLowerBound
  <2>1. Ascending(n.keys) /\ n.keys \in Seq(Nat)
    BY NodesAscend DEF Range
  <2>2. k \in Nat
    BY KeyIsIndex DEF Index
  <2> QED BY <2>1, <2>2, BisectionFindsLowerBound
<1> QED BY <1>1, SearchInvHolds, PTL
=============================================================================
