--------------------------- MODULE TornaMapProofs ---------------------------
(***************************************************************************)
(* Proofs about TornaTree: it implements OrderedMap, no node overflows,    *)
(* the leaf chain is the lowest row of the tree, and a scan along it lists *)
(* what the tree stores between two keys.                                  *)
(*                                                                         *)
(* The stock of a tree is the set of the entries, key and value, that its  *)
(* leaves store.  An operation of node.h moves entries or trades one;      *)
(* that a reader sees the stock follows from the tree being a search tree. *)
(*                                                                         *)
(* The chain is local as well: a leaf leads to the one whose keys follow   *)
(* its own (Chained).  A row is what the nodes of the row above have as    *)
(* kids, each node's after the former node's, and so their keys follow one *)
(* another too (Abreast).  So a run of leaves lists its entries in order   *)
(* (Batched), and the descent for a scan's start finds the leaf from which *)
(* on the row can hold the range (Home).                                   *)
(***************************************************************************)
EXTENDS TornaSearchProofs

---------------------------------------------------------------------------
(* The entries of a leaf *)

EntriesOf(ks, vs) == {<<ks[i], vs[i]>> : i \in 1..Len(ks)}
Holds(n) == EntriesOf(n.keys, n.vals)

(* Keys and values, position by position. *)
Aligned(ks, vs) == ks \in Seq(Index) /\ vs \in Seq(Val) /\ Len(vs) = Len(ks)
Matched(n) == LeafOK(n) /\ Aligned(n.keys, n.vals)

LEMMA EntriesInsert ==
    ASSUME NEW ks, NEW vs, Aligned(ks, vs), NEW i, i \in 1..Len(ks) + 1, NEW k, k \in Index, NEW v, v \in Val
    PROVE  /\ Aligned(InsertAt(ks, i, k), InsertAt(vs, i, v))
           /\ EntriesOf(InsertAt(ks, i, k), InsertAt(vs, i, v)) = EntriesOf(ks, vs) \cup {<<k, v>>}
<1> DEFINE N == Len(ks)
           a == InsertAt(ks, i, k)
           b == InsertAt(vs, i, v)
<1>1. ks \in Seq(Index) /\ vs \in Seq(Val) /\ Len(vs) = N /\ N \in Nat /\ i \in 1..N + 1
  BY Positions DEF Aligned
<1>2. a \in Seq(Index) /\ Len(a) = N + 1 /\ \A j \in 1..N + 1 : a[j] = IF j < i THEN ks[j] ELSE IF j = i THEN k ELSE ks[j - 1]
  <2>1. ks \in Seq(Index) /\ i \in 1..Len(ks) + 1 /\ k \in Index
    BY <1>1
  <2>2. /\ InsertAt(ks, i, k) \in Seq(Index) /\ Len(InsertAt(ks, i, k)) = Len(ks) + 1
        /\ \A j \in 1..Len(ks) + 1 : InsertAt(ks, i, k)[j] = IF j < i THEN ks[j] ELSE IF j = i THEN k ELSE ks[j - 1]
    BY ONLY <2>1, InsertAtFacts
  <2> QED BY <2>2
<1>3. b \in Seq(Val) /\ Len(b) = N + 1 /\ \A j \in 1..N + 1 : b[j] = IF j < i THEN vs[j] ELSE IF j = i THEN v ELSE vs[j - 1]
  <2>1. i \in 1..Len(vs) + 1
    BY <1>1
  <2>2. /\ b \in Seq(Val) /\ Len(b) = Len(vs) + 1
        /\ \A j \in 1..Len(vs) + 1 : b[j] = IF j < i THEN vs[j] ELSE IF j = i THEN v ELSE vs[j - 1]
    BY <1>1, <2>1, InsertAtFacts
  <2> QED BY <1>1, <2>2
<1>n. N = Len(ks)
  OBVIOUS
<1> HIDE DEF a, b, N
<1>4. ASSUME NEW e, e \in EntriesOf(a, b) PROVE e \in EntriesOf(ks, vs) \cup {<<k, v>>}
  <2>1. PICK j \in 1..N + 1 : e = <<a[j], b[j]>>
    BY <1>2, <1>4 DEF EntriesOf
  <2>2. CASE j = i
    BY <1>2, <1>3, <2>1, <2>2
  <2>3. CASE j < i
    <3>1. j \in 1..N
      BY <1>1, <2>3
    <3> QED BY <1>2, <1>3, <1>n, <2>1, <2>3, <3>1 DEF EntriesOf
  <2>4. CASE j > i
    <3>1. j - 1 \in 1..N /\ ~(j < i) /\ j # i
      BY <1>1, <2>4
    <3>2. e = <<ks[j - 1], vs[j - 1]>>
      BY <1>2, <1>3, <2>1, <3>1
    <3> QED BY <1>n, <3>1, <3>2 DEF EntriesOf
  <2>5. j = i \/ j < i \/ j > i
    BY <1>1
  <2> QED BY <2>2, <2>3, <2>4, <2>5
<1>5. ASSUME NEW e, e \in EntriesOf(ks, vs) PROVE e \in EntriesOf(a, b)
  <2>1. PICK j \in 1..N : e = <<ks[j], vs[j]>>
    BY <1>5, <1>n DEF EntriesOf
  <2>2. CASE j < i
    <3>1. j \in 1..N + 1 /\ e = <<a[j], b[j]>>
      BY <1>1, <1>2, <1>3, <2>1, <2>2
    <3> QED BY <1>2, <3>1 DEF EntriesOf
  <2>3. CASE ~(j < i)
    <3>1. j + 1 \in 1..N + 1 /\ ~(j + 1 < i) /\ j + 1 # i /\ (j + 1) - 1 = j
      BY <1>1, <2>3
    <3>2. e = <<a[j + 1], b[j + 1]>>
      BY <1>2, <1>3, <2>1, <3>1
    <3> QED BY <1>2, <3>1, <3>2 DEF EntriesOf
  <2> QED BY <2>2, <2>3
<1>6. <<k, v>> \in EntriesOf(a, b)
  <2>1. i \in 1..N + 1 /\ ~(i < i) /\ a[i] = k /\ b[i] = v
    BY <1>1, <1>2, <1>3
  <2> QED BY <1>2, <2>1 DEF EntriesOf
<1>7. EntriesOf(a, b) = EntriesOf(ks, vs) \cup {<<k, v>>}
  BY <1>4, <1>5, <1>6
<1>8. Aligned(a, b)
  BY <1>2, <1>3 DEF Aligned
<1> QED BY <1>7, <1>8 DEF a, b

LEMMA EntriesRemove ==
    ASSUME NEW ks, NEW vs, Aligned(ks, vs), NEW i, i \in 1..Len(ks)
    PROVE  /\ Aligned(RemoveAt(ks, i), RemoveAt(vs, i))
           /\ EntriesOf(RemoveAt(ks, i), RemoveAt(vs, i)) \cup {<<ks[i], vs[i]>>} = EntriesOf(ks, vs)
           /\ Ascending(ks) =>
                EntriesOf(RemoveAt(ks, i), RemoveAt(vs, i)) = {e \in EntriesOf(ks, vs) : e[1] # ks[i]}
<1> DEFINE N == Len(ks)
           a == RemoveAt(ks, i)
           b == RemoveAt(vs, i)
<1>1. ks \in Seq(Index) /\ vs \in Seq(Val) /\ Len(vs) = N /\ N \in Nat /\ i \in 1..N
  BY Positions DEF Aligned
<1>2. a \in Seq(Index) /\ Len(a) = N - 1 /\ \A j \in 1..N - 1 : a[j] = IF j < i THEN ks[j] ELSE ks[j + 1]
  BY <1>1, RemoveAtFacts
<1>3. b \in Seq(Val) /\ Len(b) = N - 1 /\ \A j \in 1..N - 1 : b[j] = IF j < i THEN vs[j] ELSE vs[j + 1]
  <2>1. i \in 1..Len(vs)
    BY <1>1
  <2>2. b \in Seq(Val) /\ Len(b) = Len(vs) - 1 /\ \A j \in 1..Len(vs) - 1 : b[j] = IF j < i THEN vs[j] ELSE vs[j + 1]
    BY <1>1, <2>1, RemoveAtFacts
  <2> QED BY <1>1, <2>2
<1>n. N = Len(ks)
  OBVIOUS
<1> HIDE DEF a, b, N
(* The others stay, and nothing else comes. *)
<1>4. ASSUME NEW e, e \in EntriesOf(a, b) PROVE \E j \in 1..N : j # i /\ e = <<ks[j], vs[j]>>
  <2>1. PICK j \in 1..N - 1 : e = <<a[j], b[j]>>
    BY <1>2, <1>4 DEF EntriesOf
  <2>2. CASE j < i
    <3>1. j \in 1..N /\ j # i /\ e = <<ks[j], vs[j]>>
      BY <1>1, <1>2, <1>3, <2>1, <2>2
    <3> QED BY <3>1
  <2>3. CASE ~(j < i)
    <3>1. j + 1 \in 1..N /\ j + 1 # i /\ e = <<ks[j + 1], vs[j + 1]>>
      BY <1>1, <1>2, <1>3, <2>1, <2>3
    <3> QED BY <3>1
  <2> QED BY <2>2, <2>3
<1>5. ASSUME NEW j \in 1..N, j # i PROVE <<ks[j], vs[j]>> \in EntriesOf(a, b)
  <2>1. CASE j < i
    <3>1. j \in 1..N - 1 /\ a[j] = ks[j] /\ b[j] = vs[j]
      BY <1>1, <1>2, <1>3, <2>1
    <3> QED BY <1>2, <3>1 DEF EntriesOf
  <2>2. CASE ~(j < i)
    <3>1. j - 1 \in 1..N - 1 /\ ~(j - 1 < i) /\ (j - 1) + 1 = j
      BY <1>1, <1>5, <2>2
    <3>2. a[j - 1] = ks[j] /\ b[j - 1] = vs[j]
      BY <1>2, <1>3, <3>1
    <3> QED BY <1>2, <3>1, <3>2 DEF EntriesOf
  <2> QED BY <2>1, <2>2
<1>6. EntriesOf(a, b) \cup {<<ks[i], vs[i]>>} = EntriesOf(ks, vs)
  <2>1. ASSUME NEW e, e \in EntriesOf(ks, vs) PROVE e \in EntriesOf(a, b) \cup {<<ks[i], vs[i]>>}
    <3>1. PICK j \in 1..N : e = <<ks[j], vs[j]>>
      BY <1>n, <2>1 DEF EntriesOf
    <3> QED BY <1>5, <3>1
  <2>2. <<ks[i], vs[i]>> \in EntriesOf(ks, vs)
    BY <1>1, <1>n DEF EntriesOf
  <2>3. ASSUME NEW e, e \in EntriesOf(a, b) PROVE e \in EntriesOf(ks, vs)
    <3>1. PICK j \in 1..N : e = <<ks[j], vs[j]>>
      BY <1>4, <2>3
    <3> QED BY <1>n, <3>1 DEF EntriesOf
  <2> QED BY <2>1, <2>2, <2>3
<1>7. ASSUME Ascending(ks) PROVE EntriesOf(a, b) = {e \in EntriesOf(ks, vs) : e[1] # ks[i]}
  <2>1. ASSUME NEW j \in 1..N, j # i PROVE ks[j] # ks[i]
    <3>1. ks \in Seq(Nat) /\ ks[j] \in Nat /\ ks[i] \in Nat
      BY <1>1, <1>n, Positions DEF Index
    <3>2. CASE j < i
      <4>1. j \in 1..i - 1
        BY <1>1, <3>2
      <4>2. ks[j] < ks[i]
        BY <1>1, <1>7, <1>n, <3>1, <4>1, AscendingPairs
      <4> QED BY <3>1, <4>2
    <3>3. CASE i < j
      <4>1. i \in 1..j - 1
        BY <1>1, <3>3
      <4>2. ks[i] < ks[j]
        BY <1>1, <1>7, <1>n, <3>1, <4>1, AscendingPairs
      <4> QED BY <3>1, <4>2
    <3>4. j < i \/ i < j
      BY <1>1, <2>1
    <3> QED BY <3>2, <3>3, <3>4
  <2>2. ASSUME NEW e, e \in EntriesOf(a, b) PROVE e \in EntriesOf(ks, vs) /\ e[1] # ks[i]
    <3>1. PICK j \in 1..N : j # i /\ e = <<ks[j], vs[j]>>
      BY <1>4, <2>2
    <3> QED BY <1>n, <2>1, <3>1 DEF EntriesOf
  <2>3. ASSUME NEW e, e \in EntriesOf(ks, vs), e[1] # ks[i] PROVE e \in EntriesOf(a, b)
    <3>1. PICK j \in 1..N : e = <<ks[j], vs[j]>>
      BY <1>n, <2>3 DEF EntriesOf
    <3>2. j # i
      BY <2>3, <3>1
    <3> QED BY <1>5, <3>1, <3>2
  <2> QED BY <2>2, <2>3
<1>8. Aligned(a, b)
  BY <1>2, <1>3 DEF Aligned
<1> QED BY <1>6, <1>7, <1>8 DEF a, b

LEMMA EntriesConcat ==
    ASSUME NEW ks, NEW vs, Aligned(ks, vs), NEW ls, NEW ws, Aligned(ls, ws)
    PROVE  /\ Aligned(ks \o ls, vs \o ws)
           /\ EntriesOf(ks \o ls, vs \o ws) = EntriesOf(ks, vs) \cup EntriesOf(ls, ws)
<1> DEFINE M == Len(ks)
           N == Len(ls)
           a == ks \o ls
           b == vs \o ws
<1>1. /\ ks \in Seq(Index) /\ vs \in Seq(Val) /\ Len(vs) = M /\ M \in Nat
      /\ ls \in Seq(Index) /\ ws \in Seq(Val) /\ Len(ws) = N /\ N \in Nat
  BY Positions DEF Aligned
<1>2. a \in Seq(Index) /\ Len(a) = M + N /\ \A j \in 1..M + N : a[j] = IF j <= M THEN ks[j] ELSE ls[j - M]
  BY <1>1, ConcatFacts
<1>3. b \in Seq(Val) /\ Len(b) = M + N /\ \A j \in 1..M + N : b[j] = IF j <= M THEN vs[j] ELSE ws[j - M]
  <2>1. /\ b \in Seq(Val) /\ Len(b) = Len(vs) + Len(ws)
        /\ \A j \in 1..Len(vs) + Len(ws) : b[j] = IF j <= Len(vs) THEN vs[j] ELSE ws[j - Len(vs)]
    BY <1>1, ConcatFacts
  <2> QED BY <1>1, <2>1
<1>n. M = Len(ks) /\ N = Len(ls)
  OBVIOUS
<1> HIDE DEF a, b, M, N
<1>4. ASSUME NEW e, e \in EntriesOf(a, b) PROVE e \in EntriesOf(ks, vs) \cup EntriesOf(ls, ws)
  <2>1. PICK j \in 1..M + N : e = <<a[j], b[j]>>
    BY <1>2, <1>4 DEF EntriesOf
  <2>2. CASE j <= M
    <3>1. j \in 1..M /\ e = <<ks[j], vs[j]>>
      BY <1>1, <1>2, <1>3, <2>1, <2>2
    <3> QED BY <1>n, <3>1 DEF EntriesOf
  <2>3. CASE ~(j <= M)
    <3>1. j - M \in 1..N /\ e = <<ls[j - M], ws[j - M]>>
      BY <1>1, <1>2, <1>3, <2>1, <2>3
    <3> QED BY <1>n, <3>1 DEF EntriesOf
  <2> QED BY <2>2, <2>3
<1>5. ASSUME NEW e, e \in EntriesOf(ks, vs) PROVE e \in EntriesOf(a, b)
  <2>1. PICK j \in 1..M : e = <<ks[j], vs[j]>>
    BY <1>n, <1>5 DEF EntriesOf
  <2>2. j \in 1..M + N /\ a[j] = ks[j] /\ b[j] = vs[j]
    BY <1>1, <1>2, <1>3
  <2> QED BY <1>2, <2>1, <2>2 DEF EntriesOf
<1>6. ASSUME NEW e, e \in EntriesOf(ls, ws) PROVE e \in EntriesOf(a, b)
  <2>1. PICK j \in 1..N : e = <<ls[j], ws[j]>>
    BY <1>n, <1>6 DEF EntriesOf
  <2>2. M + j \in 1..M + N /\ ~(M + j <= M) /\ (M + j) - M = j
    BY <1>1
  <2>3. a[M + j] = ls[j] /\ b[M + j] = ws[j]
    BY <1>2, <1>3, <2>2
  <2> QED BY <1>2, <2>1, <2>2, <2>3 DEF EntriesOf
<1>7. EntriesOf(a, b) = EntriesOf(ks, vs) \cup EntriesOf(ls, ws)
  BY <1>4, <1>5, <1>6
<1>8. Aligned(a, b)
  BY <1>2, <1>3 DEF Aligned
<1> QED BY <1>7, <1>8 DEF a, b

LEMMA EntriesCut ==
    ASSUME NEW ks, NEW vs, Aligned(ks, vs), NEW n, n \in 0..Len(ks)
    PROVE  /\ Aligned(UpTo(ks, n), UpTo(vs, n)) /\ Aligned(From(ks, n + 1), From(vs, n + 1))
           /\ EntriesOf(UpTo(ks, n), UpTo(vs, n)) \cup EntriesOf(From(ks, n + 1), From(vs, n + 1)) = EntriesOf(ks, vs)
<1> DEFINE N == Len(ks)
           m == n + 1
           a == UpTo(ks, n)
           b == UpTo(vs, n)
           c == From(ks, m)
           d == From(vs, m)
<1>1. ks \in Seq(Index) /\ vs \in Seq(Val) /\ Len(vs) = N /\ N \in Nat /\ n \in 0..N /\ m \in 1..N + 1
  BY Positions DEF Aligned
<1>n. N = Len(ks) /\ m = n + 1
  OBVIOUS
<1> HIDE DEF m
<1>2. a \in Seq(Index) /\ Len(a) = n /\ \A j \in 1..n : a[j] = ks[j]
  BY UpToFacts, <1>1
<1>3. b \in Seq(Val) /\ Len(b) = n /\ \A j \in 1..n : b[j] = vs[j]
  <2>1. n \in 0..Len(vs)
    BY <1>1
  <2> QED BY <1>1, <2>1, UpToFacts
<1>4. c \in Seq(Index) /\ Len(c) = N - m + 1 /\ \A j \in 1..N - m + 1 : c[j] = ks[m + j - 1]
  BY FromFacts, <1>1
<1>5. d \in Seq(Val) /\ Len(d) = N - m + 1 /\ \A j \in 1..N - m + 1 : d[j] = vs[m + j - 1]
  <2>1. m \in 1..Len(vs) + 1
    BY <1>1
  <2>2. d \in Seq(Val) /\ Len(d) = Len(vs) - m + 1 /\ \A j \in 1..Len(vs) - m + 1 : d[j] = vs[m + j - 1]
    BY <1>1, <2>1, FromFacts
  <2> QED BY <1>1, <2>2
<1> HIDE DEF a, b, c, d, N
<1>6. ASSUME NEW e, e \in EntriesOf(a, b) PROVE e \in EntriesOf(ks, vs)
  <2>1. PICK j \in 1..n : e = <<a[j], b[j]>>
    BY <1>2, <1>6 DEF EntriesOf
  <2>2. j \in 1..N /\ e = <<ks[j], vs[j]>>
    BY <1>1, <1>2, <1>3, <2>1
  <2> QED BY <1>n, <2>2 DEF EntriesOf
<1>7. ASSUME NEW e, e \in EntriesOf(c, d) PROVE e \in EntriesOf(ks, vs)
  <2>1. PICK j \in 1..N - m + 1 : e = <<c[j], d[j]>>
    BY <1>4, <1>7 DEF EntriesOf
  <2>2. m + j - 1 \in 1..N
    BY <1>1
  <2>3. e = <<ks[m + j - 1], vs[m + j - 1]>>
    BY <1>4, <1>5, <2>1
  <2> QED BY <1>n, <2>2, <2>3 DEF EntriesOf
<1>8. ASSUME NEW e, e \in EntriesOf(ks, vs) PROVE e \in EntriesOf(a, b) \cup EntriesOf(c, d)
  <2>1. PICK j \in 1..N : e = <<ks[j], vs[j]>>
    BY <1>n, <1>8 DEF EntriesOf
  <2>2. CASE j <= n
    <3>1. j \in 1..n /\ a[j] = ks[j] /\ b[j] = vs[j]
      BY <1>1, <1>2, <1>3, <2>2
    <3> QED BY <1>2, <2>1, <3>1 DEF EntriesOf
  <2>3. CASE ~(j <= n)
    <3> DEFINE x == j - n
    <3>1. x \in 1..N - m + 1 /\ m + x - 1 = j
      BY <1>1, <1>n, <2>3
    <3> HIDE DEF x
    <3>2. c[x] = ks[j] /\ d[x] = vs[j]
      BY <1>4, <1>5, <3>1
    <3> QED BY <1>4, <2>1, <3>1, <3>2 DEF EntriesOf
  <2> QED BY <2>2, <2>3
<1>9. EntriesOf(a, b) \cup EntriesOf(c, d) = EntriesOf(ks, vs)
  BY <1>6, <1>7, <1>8
<1>10. Aligned(a, b) /\ Aligned(c, d)
  BY <1>2, <1>3, <1>4, <1>5 DEF Aligned
<1> QED BY <1>9, <1>10 DEF a, b, c, d, m

LEMMA LeafInsertMatches ==
    ASSUME NEW n, Matched(n), NEW k, k \in Index, NEW v, v \in Val, NEW m, m = LeafInsert(n, k, v)
    PROVE  Matched(m) /\ Holds(m) = Holds(n) \cup {<<k, v>>}
<1> DEFINE i == LowerBound(n.keys, k)
<1>1. LeafOK(n) /\ Aligned(n.keys, n.vals) /\ n = [keys |-> n.keys, vals |-> n.vals, next |-> n.next]
  BY DEF Matched, LeafOK
<1>2. i \in 1..Len(n.keys) + 1
  BY <1>1, LowerBoundIsPosition DEF LeafOK
<1>3. m = [keys |-> InsertAt(n.keys, i, k), vals |-> InsertAt(n.vals, i, v), next |-> n.next]
  BY <1>1, LeafEdit DEF LeafInsert
<1>4. m.keys = InsertAt(n.keys, i, k) /\ m.vals = InsertAt(n.vals, i, v)
  BY <1>3
<1> HIDE DEF i
<1>5. Aligned(m.keys, m.vals) /\ EntriesOf(m.keys, m.vals) = EntriesOf(n.keys, n.vals) \cup {<<k, v>>}
  BY <1>1, <1>2, <1>4, EntriesInsert
<1>6. LeafOK(m)
  BY <1>1, LeafInsertOK
<1> QED BY <1>5, <1>6 DEF Matched, Holds

(* The key's entry goes, and no other one. *)
LEMMA LeafDeleteMatches ==
    ASSUME NEW n, Matched(n), Ascending(n.keys), NEW k, HasKey(n, k), NEW m, m = LeafDelete(n, k)
    PROVE  Matched(m) /\ Holds(m) = {e \in Holds(n) : e[1] # k}
<1> DEFINE i == LowerBound(n.keys, k)
<1>1. LeafOK(n) /\ Aligned(n.keys, n.vals) /\ n = [keys |-> n.keys, vals |-> n.vals, next |-> n.next]
  BY DEF Matched, LeafOK
<1>2. i \in 1..Len(n.keys) /\ n.keys[i] = k
  <2>1. i \in 1..Len(n.keys) + 1 /\ Len(n.keys) \in Nat
    BY <1>1, LowerBoundIsPosition, Positions DEF LeafOK
  <2>2. i <= Len(n.keys) /\ n.keys[i] = k
    BY DEF HasKey, KeyCount
  <2> QED BY <2>1, <2>2
<1>3. m = [keys |-> RemoveAt(n.keys, i), vals |-> RemoveAt(n.vals, i), next |-> n.next]
  BY <1>1, LeafEdit DEF LeafDelete
<1>4. m.keys = RemoveAt(n.keys, i) /\ m.vals = RemoveAt(n.vals, i)
  BY <1>3
<1> HIDE DEF i
<1>5. Aligned(m.keys, m.vals) /\ EntriesOf(m.keys, m.vals) = {e \in EntriesOf(n.keys, n.vals) : e[1] # n.keys[i]}
  BY <1>1, <1>2, <1>4, EntriesRemove
<1>6. LeafOK(m)
  BY <1>1, LeafDeleteOK
<1> QED BY <1>2, <1>5, <1>6 DEF Matched, Holds

LEMMA EntriesUpdate ==
    ASSUME NEW ks, NEW vs, Aligned(ks, vs), NEW i, i \in 1..Len(ks), NEW v, v \in Val, NEW ws, ws = [vs EXCEPT ![i] = v]
    PROVE  /\ Aligned(ks, ws)
           /\ \A e : e[1] # ks[i] => (e \in EntriesOf(ks, ws) <=> e \in EntriesOf(ks, vs))
<1>1. ks \in Seq(Index) /\ vs \in Seq(Val) /\ Len(vs) = Len(ks) /\ Len(ks) \in Nat
  BY Positions DEF Aligned
<1>2. ws \in Seq(Val) /\ Len(ws) = Len(ks) /\ \A j \in 1..Len(ks) : ws[j] = IF j = i THEN v ELSE vs[j]
  BY <1>1
<1>3. ASSUME NEW e, e[1] # ks[i] PROVE e \in EntriesOf(ks, ws) <=> e \in EntriesOf(ks, vs)
  <2>1. \A j \in 1..Len(ks) : e = <<ks[j], ws[j]>> <=> e = <<ks[j], vs[j]>>
    <3> TAKE j \in 1..Len(ks)
    <3>1. CASE j = i
      BY <1>3, <3>1
    <3>2. CASE j # i
      BY <1>2, <3>2
    <3> QED BY <3>1, <3>2
  <2> QED BY <2>1 DEF EntriesOf
<1> QED BY <1>1, <1>2, <1>3 DEF Aligned

LEMMA LeafUpdateMatches ==
    ASSUME NEW n, Matched(n), NEW k, HasKey(n, k), NEW v, v \in Val, NEW m, m = LeafUpdate(n, k, v)
    PROVE  /\ Matched(m) /\ m.keys = n.keys
           /\ \A e : e[1] # k => (e \in Holds(m) <=> e \in Holds(n))
<1> DEFINE i == LowerBound(n.keys, k)
<1>1. LeafOK(n) /\ Aligned(n.keys, n.vals) /\ n = [keys |-> n.keys, vals |-> n.vals, next |-> n.next]
  BY DEF Matched, LeafOK
<1>2. i \in 1..Len(n.keys) /\ n.keys[i] = k
  <2>1. i \in 1..Len(n.keys) + 1 /\ Len(n.keys) \in Nat
    BY <1>1, LowerBoundIsPosition, Positions DEF LeafOK
  <2>2. i <= Len(n.keys) /\ n.keys[i] = k
    BY DEF HasKey, KeyCount
  <2> QED BY <2>1, <2>2
<1>3. m = [n EXCEPT !.vals[i] = v]
  BY DEF LeafUpdate
<1>4. m.keys = n.keys /\ m.vals = [n.vals EXCEPT ![i] = v]
  BY <1>1, <1>3
<1> HIDE DEF i
<1>5. /\ Aligned(n.keys, m.vals)
      /\ \A e : e[1] # n.keys[i] => (e \in EntriesOf(n.keys, m.vals) <=> e \in EntriesOf(n.keys, n.vals))
  BY <1>1, <1>2, <1>4, EntriesUpdate
<1>6. LeafOK(m)
  BY <1>1, LeafUpdateOK
<1> QED BY <1>2, <1>4, <1>5, <1>6 DEF Matched, Holds

(* Both halves, wherever their chain then leads. *)
LEMMA LeafSplitMatches ==
    ASSUME NEW n, Matched(n), Len(n.keys) > 0, NEW h, h = LeafSplit(n)
    PROVE  Matched(h.left) /\ Matched(h.right) /\ Holds(h.left) \cup Holds(h.right) = Holds(n)
<1> DEFINE half == Len(n.keys) \div 2
           a == [n EXCEPT !.keys = UpTo(@, half), !.vals = UpTo(@, half)]
           b == [keys |-> From(n.keys, half + 1), vals |-> From(n.vals, half + 1), next |-> 0]
<1>1. LeafOK(n) /\ Aligned(n.keys, n.vals) /\ n = [keys |-> n.keys, vals |-> n.vals, next |-> n.next]
  BY DEF Matched, LeafOK
<1>2. h = [left |-> a, right |-> b, sep |-> n.keys[half + 1]]
  BY DEF LeafSplit, KeyCount
<1>3. half \in 0..Len(n.keys)
  <2>1. Len(n.keys) \in Nat
    BY <1>1, Positions DEF LeafOK
  <2>2. half \in Nat /\ half < Len(n.keys)
    BY <2>1, HalfOf
  <2> HIDE DEF half
  <2> QED BY <2>1, <2>2
<1>4. a = [keys |-> UpTo(n.keys, half), vals |-> UpTo(n.vals, half), next |-> n.next]
  BY <1>1, LeafEdit
<1> HIDE DEF half, a
<1>5. /\ h.left.keys = UpTo(n.keys, half) /\ h.left.vals = UpTo(n.vals, half)
      /\ h.right.keys = From(n.keys, half + 1) /\ h.right.vals = From(n.vals, half + 1)
  BY <1>2, <1>4
<1> HIDE DEF b
<1>6. /\ Aligned(h.left.keys, h.left.vals) /\ Aligned(h.right.keys, h.right.vals)
      /\ EntriesOf(h.left.keys, h.left.vals) \cup EntriesOf(h.right.keys, h.right.vals) = EntriesOf(n.keys, n.vals)
  BY <1>1, <1>3, <1>5, EntriesCut
<1>7. LeafOK(h.left) /\ LeafOK(h.right)
  BY <1>1, LeafSplitOK
<1> QED BY <1>6, <1>7 DEF Matched, Holds

(* The first entry of one list becomes the last of another ... *)
LEMMA EntriesForward ==
    ASSUME NEW ks, NEW vs, Aligned(ks, vs), NEW ls, NEW ws, Aligned(ls, ws), Len(ls) > 0
    PROVE  /\ Aligned(Append(ks, Head(ls)), Append(vs, Head(ws))) /\ Aligned(Tail(ls), Tail(ws))
           /\ EntriesOf(Append(ks, Head(ls)), Append(vs, Head(ws))) \cup EntriesOf(Tail(ls), Tail(ws))
                = EntriesOf(ks, vs) \cup EntriesOf(ls, ws)
<1> DEFINE N == Len(ks)
           k == Head(ls)
           v == Head(ws)
           j == 1
<1>1. /\ ks \in Seq(Index) /\ vs \in Seq(Val) /\ Len(vs) = N /\ N \in Nat
      /\ ls \in Seq(Index) /\ ws \in Seq(Val) /\ Len(ws) = Len(ls) /\ Len(ws) > 0
  BY Positions DEF Aligned
<1>2. k = ls[1] /\ k \in Index /\ v = ws[1] /\ v \in Val
  BY <1>1, TailFacts
<1>3. Append(ks, k) = InsertAt(ks, N + 1, k) /\ Append(vs, v) = InsertAt(vs, N + 1, v)
  <2>1. Append(vs, v) = InsertAt(vs, Len(vs) + 1, v)
    BY <1>1, <1>2, EndsAreEdits
  <2> QED BY <1>1, <1>2, <2>1, EndsAreEdits
<1>4. Tail(ls) = RemoveAt(ls, j) /\ Tail(ws) = RemoveAt(ws, j)
  BY <1>1, EndIsEdit
<1>5. N + 1 \in 1..N + 1 /\ j \in 1..Len(ls)
  <2>1. Len(ls) \in Nat
    BY <1>1, Positions
  <2> QED BY <1>1, <2>1
<1> HIDE DEF k, v, j
<1>6. Aligned(Append(ks, k), Append(vs, v)) /\ EntriesOf(Append(ks, k), Append(vs, v)) = EntriesOf(ks, vs) \cup {<<k, v>>}
  BY <1>2, <1>3, <1>5, EntriesInsert
<1>7. Aligned(Tail(ls), Tail(ws)) /\ EntriesOf(Tail(ls), Tail(ws)) \cup {<<ls[j], ws[j]>>} = EntriesOf(ls, ws)
  <2>1. /\ Aligned(RemoveAt(ls, j), RemoveAt(ws, j))
        /\ EntriesOf(RemoveAt(ls, j), RemoveAt(ws, j)) \cup {<<ls[j], ws[j]>>} = EntriesOf(ls, ws)
    BY <1>5, EntriesRemove
  <2> QED BY <1>4, <2>1
<1> QED BY <1>2, <1>6, <1>7 DEF k, v, j

(* ... and the last one the first. *)
LEMMA EntriesBackward ==
    ASSUME NEW ks, NEW vs, Aligned(ks, vs), NEW ls, NEW ws, Aligned(ls, ws), Len(ks) > 0
    PROVE  /\ Aligned(Front(ks), Front(vs)) /\ Aligned(<<Last(ks)>> \o ls, <<Last(vs)>> \o ws)
           /\ EntriesOf(Front(ks), Front(vs)) \cup EntriesOf(<<Last(ks)>> \o ls, <<Last(vs)>> \o ws)
                = EntriesOf(ks, vs) \cup EntriesOf(ls, ws)
<1> DEFINE N == Len(ks)
           k == Last(ks)
           v == Last(vs)
<1>1. /\ ks \in Seq(Index) /\ vs \in Seq(Val) /\ Len(vs) = N /\ N \in Nat /\ N > 0 /\ Len(vs) > 0
      /\ ls \in Seq(Index) /\ ws \in Seq(Val) /\ Len(ls) \in Nat
  BY Positions DEF Aligned
<1>2. k = ks[N] /\ k \in Index /\ v = vs[N] /\ v \in Val
  <2>1. v = vs[Len(vs)] /\ v \in Val
    BY <1>1, FrontFacts
  <2> QED BY <1>1, <2>1, FrontFacts
<1>3. Front(ks) = RemoveAt(ks, N) /\ Front(vs) = RemoveAt(vs, N)
  <2>1. Front(vs) = RemoveAt(vs, Len(vs))
    BY <1>1, EndIsEdit
  <2> QED BY <1>1, <2>1, EndIsEdit
<1>4. N \in 1..N
  BY <1>1
<1> HIDE DEF k, v
<1>5. Aligned(<<k>> \o ls, <<v>> \o ws) /\ EntriesOf(<<k>> \o ls, <<v>> \o ws) = EntriesOf(ls, ws) \cup {<<k, v>>}
  <2> DEFINE a == <<k>>
             b == <<v>>
  <2>1. Aligned(a, b)
    BY <1>2 DEF Aligned
  <2>2. EntriesOf(a, b) = {<<k, v>>}
    BY DEF EntriesOf
  <2> HIDE DEF a, b
  <2>3. Aligned(a \o ls, b \o ws) /\ EntriesOf(a \o ls, b \o ws) = EntriesOf(a, b) \cup EntriesOf(ls, ws)
    BY <2>1, EntriesConcat
  <2>4. EntriesOf(a \o ls, b \o ws) = EntriesOf(ls, ws) \cup {<<k, v>>}
    BY <2>2, <2>3
  <2> QED BY <2>3, <2>4 DEF a, b
<1>6. Aligned(Front(ks), Front(vs)) /\ EntriesOf(Front(ks), Front(vs)) \cup {<<ks[N], vs[N]>>} = EntriesOf(ks, vs)
  BY <1>3, <1>4, EntriesRemove
<1> QED BY <1>2, <1>5, <1>6 DEF k, v

(* A lender gives what the borrower gets. *)
LEMMA LeafBorrowMatches ==
    ASSUME NEW lf, NEW l, NEW r, Matched(lf[l]), Matched(lf[r]), NEW b, LeafLent(b, lf, l, r)
    PROVE  Matched(b.left) /\ Matched(b.right) /\ Holds(b.left) \cup Holds(b.right) = Holds(lf[l]) \cup Holds(lf[r])
<1> DEFINE x == lf[l]
           y == lf[r]
<1>1. /\ LeafOK(x) /\ Aligned(x.keys, x.vals) /\ x = [keys |-> x.keys, vals |-> x.vals, next |-> x.next]
      /\ LeafOK(y) /\ Aligned(y.keys, y.vals) /\ y = [keys |-> y.keys, vals |-> y.vals, next |-> y.next]
  BY DEF Matched, LeafOK
<1>2. Len(x.keys) \in Nat /\ Len(y.keys) \in Nat
  BY <1>1, Positions DEF LeafOK
<1>3. CASE Len(y.keys) > 1 /\ b = LeafBorrowFromRight(x, y)
  <2> HIDE DEF x, y
  <2>1. LeafOK(b.left) /\ LeafOK(b.right)
    BY <1>1, <1>2, <1>3, LeafBorrowFromRightOK
  <2>2. /\ b.left = [keys |-> Append(x.keys, Head(y.keys)), vals |-> Append(x.vals, Head(y.vals)), next |-> x.next]
        /\ b.right = [keys |-> Tail(y.keys), vals |-> Tail(y.vals), next |-> y.next]
    BY <1>1, <1>3, LeafEdit DEF LeafBorrowFromRight
  <2>3. /\ b.left.keys = Append(x.keys, Head(y.keys)) /\ b.left.vals = Append(x.vals, Head(y.vals))
        /\ b.right.keys = Tail(y.keys) /\ b.right.vals = Tail(y.vals)
    BY <2>2
  <2>4. Len(y.keys) > 0
    BY <1>2, <1>3
  <2>5. /\ Aligned(b.left.keys, b.left.vals) /\ Aligned(b.right.keys, b.right.vals)
        /\ EntriesOf(b.left.keys, b.left.vals) \cup EntriesOf(b.right.keys, b.right.vals)
             = EntriesOf(x.keys, x.vals) \cup EntriesOf(y.keys, y.vals)
    <3> DEFINE ks == x.keys
               vs == x.vals
               ls == y.keys
               ws == y.vals
    <3>1. Aligned(ks, vs) /\ Aligned(ls, ws) /\ Len(ls) > 0
      BY <1>1, <2>4
    <3> HIDE DEF ks, vs, ls, ws
    <3>2. /\ Aligned(Append(ks, Head(ls)), Append(vs, Head(ws))) /\ Aligned(Tail(ls), Tail(ws))
          /\ EntriesOf(Append(ks, Head(ls)), Append(vs, Head(ws))) \cup EntriesOf(Tail(ls), Tail(ws))
               = EntriesOf(ks, vs) \cup EntriesOf(ls, ws)
      BY <3>1, EntriesForward
    <3> QED BY <2>3, <3>2 DEF ks, vs, ls, ws
  <2> QED BY <2>1, <2>5 DEF Matched, Holds, x, y
<1>4. CASE Len(x.keys) > 1 /\ b = LeafBorrowFromLeft(x, y)
  <2> HIDE DEF x, y
  <2>1. LeafOK(b.left) /\ LeafOK(b.right)
    BY <1>1, <1>2, <1>4, LeafBorrowFromLeftOK
  <2>2. /\ b.left = [keys |-> Front(x.keys), vals |-> Front(x.vals), next |-> x.next]
        /\ b.right = [keys |-> <<Last(x.keys)>> \o y.keys, vals |-> <<Last(x.vals)>> \o y.vals, next |-> y.next]
    BY <1>1, <1>4, LeafEdit DEF LeafBorrowFromLeft
  <2>3. /\ b.left.keys = Front(x.keys) /\ b.left.vals = Front(x.vals)
        /\ b.right.keys = <<Last(x.keys)>> \o y.keys /\ b.right.vals = <<Last(x.vals)>> \o y.vals
    BY <2>2
  <2>4. Len(x.keys) > 0
    BY <1>2, <1>4
  <2>5. /\ Aligned(b.left.keys, b.left.vals) /\ Aligned(b.right.keys, b.right.vals)
        /\ EntriesOf(b.left.keys, b.left.vals) \cup EntriesOf(b.right.keys, b.right.vals)
             = EntriesOf(x.keys, x.vals) \cup EntriesOf(y.keys, y.vals)
    <3> DEFINE ks == x.keys
               vs == x.vals
               ls == y.keys
               ws == y.vals
    <3>1. Aligned(ks, vs) /\ Aligned(ls, ws) /\ Len(ks) > 0
      BY <1>1, <2>4
    <3> HIDE DEF ks, vs, ls, ws
    <3>2. /\ Aligned(Front(ks), Front(vs)) /\ Aligned(<<Last(ks)>> \o ls, <<Last(vs)>> \o ws)
          /\ EntriesOf(Front(ks), Front(vs)) \cup EntriesOf(<<Last(ks)>> \o ls, <<Last(vs)>> \o ws)
               = EntriesOf(ks, vs) \cup EntriesOf(ls, ws)
      BY <3>1, EntriesBackward
    <3> QED BY <2>3, <3>2 DEF ks, vs, ls, ws
  <2> QED BY <2>1, <2>5 DEF Matched, Holds, x, y
<1> QED BY <1>3, <1>4 DEF LeafLent

LEMMA LeafMergeMatches ==
    ASSUME NEW a, NEW b, Matched(a), Matched(b), NEW m, m = LeafMerge(a, b)
    PROVE  Matched(m) /\ Holds(m) = Holds(a) \cup Holds(b)
<1>1. /\ LeafOK(a) /\ Aligned(a.keys, a.vals) /\ a = [keys |-> a.keys, vals |-> a.vals, next |-> a.next]
      /\ LeafOK(b) /\ Aligned(b.keys, b.vals)
  BY DEF Matched, LeafOK
<1>2. m.keys = a.keys \o b.keys /\ m.vals = a.vals \o b.vals
  BY <1>1 DEF LeafMerge
<1>3. Aligned(m.keys, m.vals) /\ EntriesOf(m.keys, m.vals) = EntriesOf(a.keys, a.vals) \cup EntriesOf(b.keys, b.vals)
  BY <1>1, <1>2, EntriesConcat
<1>4. LeafOK(m)
  BY <1>1, LeafMergeOK
<1> QED BY <1>3, <1>4 DEF Matched, Holds

---------------------------------------------------------------------------
(* The entries of all leaves *)

AllMatched(lf) == \A l \in DOMAIN lf : Matched(lf[l])
Stock(lf) == UNION {Holds(lf[l]) : l \in DOMAIN lf}

LEMMA StockFacts ==
    ASSUME NEW lf
    PROVE  /\ \A e : e \in Stock(lf) <=> \E l \in DOMAIN lf : e \in Holds(lf[l])
           /\ \A l \in DOMAIN lf : Holds(lf[l]) \subseteq Stock(lf)
BY DEF Stock

(* Two leaves share their entries anew, ... *)
LEMMA SharedAnew ==
    ASSUME NEW lf, AllMatched(lf), NEW l, l \in DOMAIN lf, NEW r, r \in DOMAIN lf,
           NEW lf2, DOMAIN lf2 = DOMAIN lf, Matched(lf2[l]), Matched(lf2[r]),
           Holds(lf2[l]) \cup Holds(lf2[r]) = Holds(lf[l]) \cup Holds(lf[r]),
           \A y \in DOMAIN lf : y # l /\ y # r => lf2[y] = lf[y]
    PROVE  AllMatched(lf2) /\ Stock(lf2) = Stock(lf)
<1>1. AllMatched(lf2)
  BY DEF AllMatched
<1>2. ASSUME NEW e PROVE (\E y \in DOMAIN lf2 : e \in Holds(lf2[y])) <=> (\E y \in DOMAIN lf : e \in Holds(lf[y]))
  OBVIOUS
<1>3. \A e : e \in Stock(lf2) <=> e \in Stock(lf)
  BY <1>2, StockFacts
<1> QED BY <1>1, <1>3

(* ... one takes those of both, ... *)
LEMMA PutTogether ==
    ASSUME NEW lf, AllMatched(lf), NEW l, l \in DOMAIN lf, NEW r, r \in DOMAIN lf, l # r,
           NEW lf2, DOMAIN lf2 = DOMAIN lf \ {r}, Matched(lf2[l]), Holds(lf2[l]) = Holds(lf[l]) \cup Holds(lf[r]),
           \A y \in DOMAIN lf : y # l /\ y # r => lf2[y] = lf[y]
    PROVE  AllMatched(lf2) /\ Stock(lf2) = Stock(lf)
<1>1. AllMatched(lf2)
  BY DEF AllMatched
<1>2. ASSUME NEW e PROVE (\E y \in DOMAIN lf2 : e \in Holds(lf2[y])) <=> (\E y \in DOMAIN lf : e \in Holds(lf[y]))
  OBVIOUS
<1>3. \A e : e \in Stock(lf2) <=> e \in Stock(lf)
  BY <1>2, StockFacts
<1> QED BY <1>1, <1>3

(* The entry of k comes, and nothing else happens. *)
Gains(lf, lf2, k, v) == AllMatched(lf2) /\ Stock(lf2) = Stock(lf) \cup {<<k, v>>}

(* ... one shares with a new leaf and another entry, ... *)
LEMMA SharedOut ==
    ASSUME NEW lf, AllMatched(lf), NEW l, l \in DOMAIN lf, NEW m, m \notin DOMAIN lf,
           NEW lf2, DOMAIN lf2 = DOMAIN lf \cup {m}, Matched(lf2[l]), Matched(lf2[m]),
           NEW k, NEW v, Holds(lf2[l]) \cup Holds(lf2[m]) = Holds(lf[l]) \cup {<<k, v>>},
           \A y \in DOMAIN lf : y # l => lf2[y] = lf[y]
    PROVE  Gains(lf, lf2, k, v)
<1>1. AllMatched(lf2)
  BY DEF AllMatched
<1>2. ASSUME NEW e
      PROVE  (\E y \in DOMAIN lf2 : e \in Holds(lf2[y])) <=> (\E y \in DOMAIN lf : e \in Holds(lf[y])) \/ e = <<k, v>>
  <2>1. e \in Holds(lf2[l]) \/ e \in Holds(lf2[m]) <=> e \in Holds(lf[l]) \/ e = <<k, v>>
    OBVIOUS
  <2> QED BY <2>1
<1>3. \A e : e \in Stock(lf2) <=> e \in Stock(lf) \/ e = <<k, v>>
  BY <1>2, StockFacts
<1>4. Stock(lf2) = Stock(lf) \cup {<<k, v>>}
  BY <1>3
<1> QED BY <1>1, <1>4 DEF Gains

(* ... one gets entries of keys, ... *)
AddsKeys(E, E2) == E \subseteq E2 /\ \A e \in E2 : e \in E \/ e[1] \in Key

LEMMA Added ==
    ASSUME NEW lf, AllMatched(lf), NEW l, l \in DOMAIN lf, NEW node, Matched(node), AddsKeys(Holds(lf[l]), Holds(node)),
           NEW lf2, lf2 = [lf EXCEPT ![l] = node]
    PROVE  AllMatched(lf2) /\ AddsKeys(Stock(lf), Stock(lf2))
<1>1. DOMAIN lf2 = DOMAIN lf /\ lf2[l] = node /\ \A y \in DOMAIN lf : y # l => lf2[y] = lf[y]
  OBVIOUS
<1>2. AllMatched(lf2)
  BY <1>1 DEF AllMatched
<1>3. ASSUME NEW e, \E y \in DOMAIN lf : e \in Holds(lf[y]) PROVE \E y \in DOMAIN lf2 : e \in Holds(lf2[y])
  BY <1>1, <1>3 DEF AddsKeys
<1>4. \A e : e \in Stock(lf) => e \in Stock(lf2)
  BY <1>3, StockFacts
<1>5. ASSUME NEW e, \E y \in DOMAIN lf2 : e \in Holds(lf2[y])
      PROVE  (\E y \in DOMAIN lf : e \in Holds(lf[y])) \/ e[1] \in Key
  <2>1. PICK y \in DOMAIN lf : e \in Holds(lf2[y])
    BY <1>1, <1>5
  <2>2. CASE y = l
    BY <1>1, <2>1, <2>2 DEF AddsKeys
  <2>3. CASE y # l
    BY <1>1, <2>1, <2>3
  <2> QED BY <2>2, <2>3
<1>6. \A e : e \in Stock(lf2) => e \in Stock(lf) \/ e[1] \in Key
  BY <1>5, StockFacts
<1> QED BY <1>2, <1>4, <1>6 DEF AddsKeys

(* ... one gets an entry, ... *)
LEMMA Gained ==
    ASSUME NEW lf, AllMatched(lf), NEW l, l \in DOMAIN lf, NEW node, Matched(node),
           NEW k, NEW v, Holds(node) = Holds(lf[l]) \cup {<<k, v>>}, NEW lf2, lf2 = [lf EXCEPT ![l] = node]
    PROVE  Gains(lf, lf2, k, v)
<1>1. DOMAIN lf2 = DOMAIN lf /\ lf2[l] = node /\ \A y \in DOMAIN lf : y # l => lf2[y] = lf[y]
  OBVIOUS
<1>2. AllMatched(lf2)
  BY <1>1 DEF AllMatched
<1>3. ASSUME NEW e
      PROVE  (\E y \in DOMAIN lf2 : e \in Holds(lf2[y])) <=> (\E y \in DOMAIN lf : e \in Holds(lf[y])) \/ e = <<k, v>>
  BY <1>1
<1>4. \A e : e \in Stock(lf2) <=> e \in Stock(lf) \/ e = <<k, v>>
  BY <1>3, StockFacts
<1>5. Stock(lf2) = Stock(lf) \cup {<<k, v>>}
  BY <1>4
<1> QED BY <1>2, <1>5 DEF Gains

(* ... and an empty one is closed. *)
LEMMA EmptyClosed ==
    ASSUME NEW lf, AllMatched(lf), NEW r, r \in DOMAIN lf, Len(lf[r].keys) = 0, NEW lf2, lf2 = Closed(lf, r)
    PROVE  AllMatched(lf2) /\ Stock(lf2) = Stock(lf)
<1>1. DOMAIN lf2 = DOMAIN lf \ {r} /\ \A x \in DOMAIN lf \ {r} : lf2[x] = lf[x]
  BY ClosedFacts
<1>2. AllMatched(lf2)
  BY <1>1 DEF AllMatched
<1>3. Holds(lf[r]) = {}
  BY DEF Holds, EntriesOf
<1>4. ASSUME NEW e PROVE (\E y \in DOMAIN lf2 : e \in Holds(lf2[y])) <=> (\E y \in DOMAIN lf : e \in Holds(lf[y]))
  BY <1>1, <1>3
<1>5. \A e : e \in Stock(lf2) <=> e \in Stock(lf)
  BY <1>4, StockFacts
<1> QED BY <1>2, <1>5

---------------------------------------------------------------------------
(* The cascade moves entries, and neither loses nor adds one *)

LEMMA BorrowMatches ==
    ASSUME NEW t, NEW in, NEW lf, NEW st, NEW h, NEW p, NEW i, NEW lv, NEW up, NEW s, NEW l, NEW r, NEW side,
           Are(t, in, lf, st), AllMatched(lf), Poised(in, DOMAIN lf, h, p, i, lv, up, s, l, r),
           Lends(t, p, i, l, r, side), NEW w, w = Borrow(t, p[i - 1], s, side)
    PROVE  AllMatched(w.leaf) /\ Stock(w.leaf) = Stock(lf)
<1> DEFINE n == p[i - 1]
           L == DOMAIN lf
<1>1. t.inner = in /\ t.leaf = lf /\ DOMAIN t = Fields
  BY DEF Are
<1>2. /\ n \in DOMAIN in /\ Brothers(in, L, n, l, r, lv) /\ l = in[n].kids[s] /\ r = in[n].kids[s + 1]
  <2>1. l = in[n].kids[s] /\ r = in[n].kids[s + 1]
    BY DEF Poised
  <2> QED BY <2>1, PoisedTidy
<1>3. CASE l \in L
  <2> DEFINE b == IF side = 1 THEN LeafBorrowFromRight(lf[l], lf[r]) ELSE LeafBorrowFromLeft(lf[l], lf[r])
             in3 == [in EXCEPT ![n].keys[s] = b.sep]
             lf3 == [lf EXCEPT ![l] = b.left, ![r] = b.right]
  <2>1. l \in L /\ r \in L /\ l # r
    BY <1>2, <1>3 DEF Brothers
  <2>2. Matched(lf[l]) /\ Matched(lf[r])
    BY <2>1 DEF AllMatched
  <2>3. LeafLent(b, lf, l, r)
    <3>1. Len(lf[l].keys) \in Nat /\ Len(lf[r].keys) \in Nat
      BY <2>2, Positions DEF Matched, Aligned
    <3>2. CASE side = 1
      BY <1>1, <2>1, <3>1, <3>2, FanoutFacts DEF Lends, CountAt, KeyCount, LeafLent
    <3>3. CASE side # 1
      BY <1>1, <2>1, <3>1, <3>3, FanoutFacts DEF Lends, CountAt, KeyCount, LeafLent
    <3> QED BY <3>2, <3>3
  <2>4. w = [t EXCEPT !.leaf[l] = b.left, !.leaf[r] = b.right, !.inner[n].keys[s] = b.sep]
    BY <1>1, <1>2, <2>1 DEF Borrow
  <2> HIDE DEF b, n
  <2>5. Are(w, in3, lf3, st)
    <3> DEFINE c == b.sep
               bl == b.left
               br == b.right
    <3> HIDE DEF c, bl, br
    <3>1. Are([t EXCEPT !.leaf[l] = bl, !.leaf[r] = br, !.inner[n].keys[s] = c],
              [in EXCEPT ![n].keys[s] = c], [lf EXCEPT ![l] = bl, ![r] = br], st)
      BY LeafBorrowEdits
    <3> QED BY <2>4, <3>1 DEF c, bl, br
  <2>6. /\ DOMAIN lf3 = DOMAIN lf /\ lf3[l] = b.left /\ lf3[r] = b.right
        /\ \A y \in DOMAIN lf : y # l /\ y # r => lf3[y] = lf[y]
    BY <2>1
  <2>7. Matched(b.left) /\ Matched(b.right) /\ Holds(b.left) \cup Holds(b.right) = Holds(lf[l]) \cup Holds(lf[r])
    BY <2>2, <2>3, LeafBorrowMatches
  <2> HIDE DEF lf3, in3
  <2>8. AllMatched(lf3) /\ Stock(lf3) = Stock(lf)
    BY <2>1, <2>6, <2>7, SharedAnew
  <2> QED BY <2>5, <2>8 DEF Are
<1>4. CASE l \notin L
  <2> DEFINE sep == in[n].keys[s]
             b == IF side = 1 THEN InternalBorrowFromRight(in[l], in[r], sep)
                              ELSE InternalBorrowFromLeft(in[l], in[r], sep)
             in3 == [in EXCEPT ![l] = b.left, ![r] = b.right, ![n].keys[s] = b.sep]
  <2>1. w = [t EXCEPT !.inner[l] = b.left, !.inner[r] = b.right, !.inner[n].keys[s] = b.sep]
    BY <1>1, <1>2, <1>4 DEF Borrow
  <2> HIDE DEF b, n
  <2>2. Are(w, in3, lf, st)
    <3> DEFINE c == b.sep
               bl == b.left
               br == b.right
    <3> HIDE DEF c, bl, br
    <3>1. Are([t EXCEPT !.inner[l] = bl, !.inner[r] = br, !.inner[n].keys[s] = c],
              [in EXCEPT ![l] = bl, ![r] = br, ![n].keys[s] = c], lf, st)
      BY InnerBorrowEdits
    <3> QED BY <2>1, <3>1 DEF c, bl, br
  <2> QED BY <2>2 DEF Are
<1> QED BY <1>3, <1>4

LEMMA MergeMatches ==
    ASSUME NEW t, NEW in, NEW lf, NEW st, NEW h, NEW p, NEW i, NEW lv, NEW up, NEW s, NEW l, NEW r,
           Are(t, in, lf, st), AllMatched(lf), Poised(in, DOMAIN lf, h, p, i, lv, up, s, l, r),
           NEW w, w = Merge(t, p[i - 1], s)
    PROVE  AllMatched(w.leaf) /\ Stock(w.leaf) = Stock(lf)
<1> DEFINE n == p[i - 1]
           L == DOMAIN lf
           shrunk == [in EXCEPT ![n] = InternalRemoveAt(in[n], s)]
<1>1. t.inner = in /\ t.leaf = lf /\ DOMAIN t = Fields
  BY DEF Are
<1>2. /\ n \in DOMAIN in /\ Brothers(in, L, n, l, r, lv) /\ l = in[n].kids[s] /\ r = in[n].kids[s + 1]
  <2>1. l = in[n].kids[s] /\ r = in[n].kids[s + 1]
    BY DEF Poised
  <2> QED BY <2>1, PoisedTidy
<1>3. CASE l \in L
  <2> DEFINE merged == LeafMerge(lf[l], lf[r])
             both == [lf EXCEPT ![l] = merged]
             lf3 == Closed(both, r)
  <2>1. l \in L /\ r \in L /\ l # r
    BY <1>2, <1>3 DEF Brothers
  <2>2. w = [t EXCEPT !.leaf = Closed([@ EXCEPT ![l] = merged], r),
                      !.rightmost = IF merged.next = 0 THEN l ELSE @, !.inner = shrunk]
    BY <1>1, <1>2, <2>1 DEF Merge
  <2>3. Are(w, shrunk, lf3, st)
    <3> DEFINE c == merged.next
    <3>1. Are([t EXCEPT !.leaf = Closed([@ EXCEPT ![l] = merged], r),
                        !.rightmost = IF c = 0 THEN l ELSE @, !.inner = shrunk],
              shrunk, Closed([lf EXCEPT ![l] = merged], r), st)
      <4> HIDE DEF c, merged, shrunk
      <4> QED BY LeafMergeEdits
    <3> HIDE DEF merged, shrunk
    <3> QED BY <2>2, <3>1
  <2>4. DOMAIN both = L /\ both[l] = merged /\ \A y \in DOMAIN lf : y # l => both[y] = lf[y]
    BY <2>1
  <2>5. Matched(merged) /\ Holds(merged) = Holds(lf[l]) \cup Holds(lf[r])
    <3>1. Matched(lf[l]) /\ Matched(lf[r])
      BY <2>1 DEF AllMatched
    <3> QED BY <3>1, LeafMergeMatches
  <2> HIDE DEF both, merged
  <2>6. DOMAIN Closed(both, r) = DOMAIN both \ {r} /\ \A x \in DOMAIN both \ {r} : Closed(both, r)[x] = both[x]
    BY ClosedFacts
  <2>7. DOMAIN lf3 = L \ {r} /\ lf3[l] = merged /\ \A y \in DOMAIN lf : y # l /\ y # r => lf3[y] = lf[y]
    BY <2>1, <2>4, <2>6
  <2> HIDE DEF lf3, shrunk
  <2>8. AllMatched(lf3) /\ Stock(lf3) = Stock(lf)
    BY <2>1, <2>5, <2>7, PutTogether
  <2> QED BY <2>3, <2>8 DEF Are
<1>4. CASE l \notin L
  <2> DEFINE m == InternalMergeRight(in[l], in[r], in[n].keys[s])
             in3 == Closed([shrunk EXCEPT ![l] = m], r)
  <2>1. w = [t EXCEPT !.inner = in3]
    BY <1>1, <1>2, <1>4 DEF Merge
  <2> HIDE DEF in3
  <2>2. Are([t EXCEPT !.inner = in3], in3, lf, st)
    BY Edits
  <2> QED BY <2>1, <2>2 DEF Are
<1> QED BY <1>3, <1>4

(* What the cascade keeps, unless it is refused. *)
Stocked(t, E) == t.state # "refused" => AllMatched(t.leaf) /\ Stock(t.leaf) = E

LEMMA StockedMarked ==
    ASSUME NEW t, DOMAIN t = Fields, NEW E, AllMatched(t.leaf), Stock(t.leaf) = E, NEW st, NEW w, w = [t EXCEPT !.state = st]
    PROVE  Stocked(w, E)
<1>1. w.leaf = t.leaf
  BY DEF Fields
<1> QED BY <1>1 DEF Stocked

LEMMA RebalanceMatches ==
    ASSUME NEW t, NEW i, NEW p, NEW I0, NEW L0, NEW h, NEW sides, NEW sibs,
           Falling(t, i, p, I0, L0, h), i \in 2..h, h \in Nat, NEW E, Stocked(t, E)
    PROVE  Stocked(Rebalance(p, sides, sibs, i, t), E)
<1> DEFINE in == t.inner
           lf == t.leaf
           n == p[i - 1]
           kids == in[n].kids
           our == IndexOf(kids, p[i])
           sib == IF sides[i] = 1 THEN our + 1 ELSE our - 1
           s == IF sides[i] = 1 THEN our ELSE sib
           w == Rebalance(p, sides, sibs, i, t)
<1>1. CASE t.state # "rising"
  <2>1. w = t
    BY <1>1 DEF Rebalance
  <2> QED BY <2>1
<1>2. CASE t.state = "rising"
  <2>1. /\ DOMAIN t = Fields /\ AllMatched(lf) /\ Stock(lf) = E /\ LeavesOK(lf)
        /\ Nearly(in, p[1], p[i]) /\ Standing(in, DOMAIN lf, h, p, i)
    BY <1>2 DEF Falling, Stocked
  <2>2. PICK lv, up : Forest(in, DOMAIN lf, {p[1]}, h, lv, up) /\ OnPath(in, DOMAIN lf, lv, h, p, i)
    BY <2>1 DEF Standing
  <2>3. n \in DOMAIN in /\ p[i] \in KidsOf(in, n) /\ NodeOK(in[n])
    <3>1. Above(in, DOMAIN lf, lv, h, p, i)
      BY <2>2, ParentAbove
    <3> QED BY <2>1, <3>1 DEF Above, Nearly
  <2>4. /\ kids[our] = p[i]
        /\ our + 1 \in DOMAIN kids => our \in Occupied(in[n])
        /\ our - 1 \in DOMAIN kids => our - 1 \in Occupied(in[n]) /\ (our - 1) + 1 = our
    <3> HIDE DEF n, in
    <3>1. NodeOK(in[n]) /\ p[i] \in ToSet(in[n].kids)
      BY <2>3 DEF KidsOf
    <3> QED BY <3>1, PlaceOf
  <2>5. w = IF CountAt(t, p[i]) >= MINK THEN [t EXCEPT !.state = "done"]
            ELSE IF sides[i] = 0 \/ sib \notin DOMAIN kids THEN [t EXCEPT !.state = "refused"]
            ELSE IF kids[sib] # sibs[i] THEN [t EXCEPT !.state = "refused"]
            ELSE IF CountAt(t, sibs[i]) > MINK THEN [Borrow(t, n, s, sides[i]) EXCEPT !.state = "done"]
            ELSE Merge(t, n, s)
    BY <1>2 DEF Rebalance
  <2>6. CASE CountAt(t, p[i]) >= MINK
    <3>1. w = [t EXCEPT !.state = "done"]
      BY <2>5, <2>6
    <3> HIDE DEF w
    <3> QED BY <2>1, <3>1, StockedMarked DEF w
  <2>7. CASE ~(CountAt(t, p[i]) >= MINK) /\ (sides[i] = 0 \/ sib \notin DOMAIN kids \/ kids[sib] # sibs[i])
    <3>1. w = [t EXCEPT !.state = "refused"]
      BY <2>5, <2>7
    <3> HIDE DEF w
    <3>2. w.state = "refused"
      BY <2>1, <3>1 DEF Fields
    <3> QED BY <3>2 DEF Stocked, w
  <2>8. CASE ~(CountAt(t, p[i]) >= MINK) /\ ~(sides[i] = 0 \/ sib \notin DOMAIN kids \/ kids[sib] # sibs[i])
    <3> DEFINE l == kids[s]
               r == kids[s + 1]
    <3>1. s \in Occupied(in[n]) /\ (sides[i] = 1 => l = p[i] /\ r = sibs[i]) /\ (sides[i] # 1 => l = sibs[i] /\ r = p[i])
      BY <2>4, <2>8
    <3>2. l = in[n].kids[s] /\ r = in[n].kids[s + 1] /\ p[i] \in {l, r}
      BY <3>1
    <3>3. Poised(in, DOMAIN lf, h, p, i, lv, up, s, l, r)
      BY <2>1, <2>2, <3>1, <3>2 DEF Poised
    <3>4. Are(t, in, lf, "rising")
      BY <1>2, <2>1 DEF Are
    <3> HIDE DEF in, lf, kids, our, s, l, r, w, sib
    <3>5. CASE CountAt(t, sibs[i]) > MINK
      <4> DEFINE b == Borrow(t, n, s, sides[i])
      <4>1. w = [b EXCEPT !.state = "done"]
        BY <2>5, <2>8, <3>5
      <4>2. Lends(t, p, i, l, r, sides[i])
        BY <2>8, <3>1, <3>5 DEF Lends
      <4>3. Whole(b, in, lf, p[1], h)
        BY <2>1, <3>3, <3>4, <4>2, BorrowKeeps
      <4>4. b = Borrow(t, p[i - 1], s, sides[i])
        OBVIOUS
      <4> HIDE DEF b
      <4>5. AllMatched(b.leaf) /\ Stock(b.leaf) = E
        BY <2>1, <3>3, <3>4, <4>2, <4>4, BorrowMatches
      <4>6. DOMAIN b = Fields
        BY <4>3 DEF Whole
      <4>7. Stocked(w, E)
        BY <4>1, <4>5, <4>6, StockedMarked
      <4> QED BY <4>7 DEF w
    <3>6. CASE ~(CountAt(t, sibs[i]) > MINK)
      <4>1. w = Merge(t, p[i - 1], s)
        BY <2>5, <2>8, <3>6
      <4>2. AllMatched(w.leaf) /\ Stock(w.leaf) = E
        BY <2>1, <3>3, <3>4, <4>1, MergeMatches
      <4> QED BY <4>2 DEF Stocked, w
    <3> QED BY <3>5, <3>6
  <2> QED BY <2>6, <2>7, <2>8
<1> QED BY <1>1, <1>2

LEMMA CascadeMatches ==
    ASSUME NEW p, NEW sides, NEW sibs, NEW k, NEW I0, NEW L0, height \in Nat, height > 0,
           Falling(Emptied(p, k), height, p, I0, L0, height), NEW E, Stocked(Emptied(p, k), E)
    PROVE  Falling(Cascade(p, sides, sibs, k), 1, p, I0, L0, height) /\ Stocked(Cascade(p, sides, sibs, k), E)
<1>1. PICK s : Falls(s, p, sides, sibs, k) /\ Cascade(p, sides, sibs, k) = s[2]
  BY CascadeRuns
<1> DEFINE Good(i) == Falling(s[i + 1], i, p, I0, L0, height) /\ Stocked(s[i + 1], E)
           A == {d \in Nat : d < height => Good(height - d)}
<1>2. s[height + 1] = Emptied(p, k) /\ \A i \in 2..height : s[i] = Rebalance(p, sides, sibs, i, s[i + 1])
  <2>1. s = [i \in 2..height + 1 |-> IF i = height + 1 THEN Emptied(p, k) ELSE Rebalance(p, sides, sibs, i, s[i + 1])]
    BY <1>1 DEF Falls, Emptied
  <2>2. height + 1 \in 2..height + 1 /\ \A i \in 2..height : i \in 2..height + 1 /\ i # height + 1
    OBVIOUS
  <2>3. \A i \in 2..height + 1 : s[i] = IF i = height + 1 THEN Emptied(p, k) ELSE Rebalance(p, sides, sibs, i, s[i + 1])
    BY <2>1
  <2> QED BY <2>2, <2>3
<1>3. 0 \in A
  BY <1>2
<1>4. ASSUME NEW d \in Nat, d \in A PROVE d + 1 \in A
  <2> SUFFICES ASSUME d + 1 < height PROVE Good(height - (d + 1))
    OBVIOUS
  <2> DEFINE i == height - d
  <2>1. i \in 2..height /\ height - (d + 1) = i - 1 /\ (i - 1) + 1 = i
    OBVIOUS
  <2>2. Falling(s[i + 1], i, p, I0, L0, height) /\ Stocked(s[i + 1], E)
    BY <1>4, <2>1
  <2> HIDE DEF i
  <2>3. Falling(Rebalance(p, sides, sibs, i, s[i + 1]), i - 1, p, I0, L0, height)
    BY <2>1, <2>2, RebalanceStep
  <2>4. Stocked(Rebalance(p, sides, sibs, i, s[i + 1]), E)
    BY <2>1, <2>2, RebalanceMatches
  <2>5. Good(i - 1)
    BY <1>2, <2>1, <2>3, <2>4
  <2> QED BY <2>1, <2>5
<1> HIDE DEF A
<1>5. height - 1 \in A
  <2>1. height - 1 \in Nat
    OBVIOUS
  <2> QED BY <1>3, <1>4, <2>1, NatInductionOn
<1>6. height - 1 < height /\ height - (height - 1) = 1 /\ 1 + 1 = 2
  OBVIOUS
<1> QED BY <1>1, <1>5, <1>6 DEF A

---------------------------------------------------------------------------
(* What an instruction does to the stock *)

MapInv == SearchInv /\ AllMatched(leaf)

Revalues(lf, lf2, k) ==
    /\ (\E v : <<k, v>> \in Stock(lf)) /\ (\E v : <<k, v>> \in Stock(lf2))
    /\ \A e : e[1] # k => (e \in Stock(lf2) <=> e \in Stock(lf))
Loses(lf, lf2, k) ==
    /\ \E v : <<k, v>> \in Stock(lf)
    /\ \A e : e \in Stock(lf2) <=> e \in Stock(lf) /\ e[1] # k
(* All goes on as a map: entries of keys are added, or one key's entry     *)
(* changes or goes.                                                        *)
Trades(lf, lf2) ==
    /\ AllMatched(lf2)
    /\ \/ AddsKeys(Stock(lf), Stock(lf2))
       \/ \E k \in Key : Revalues(lf, lf2, k) \/ Loses(lf, lf2, k)

LEMMA EndsAtLeaf ==
    ASSUME MapInv, NEW p, NEW k, Descends(p, k)
    PROVE  /\ height \in Nat /\ height > 0 /\ p[height] \in DOMAIN leaf /\ Matched(leaf[p[height]])
           /\ Ascending(leaf[p[height]].keys) /\ leaf[p[height]].keys \in Seq(Nat)
<1>1. Descended(p, k)
  BY DescentFacts DEF MapInv, SearchInv
<1>2. height \in Nat /\ height > 0 /\ p[height] \in DOMAIN leaf
  BY <1>1 DEF Descended
<1> QED BY <1>2, NodesAscend DEF MapInv, AllMatched

LEMMA InsertGains ==
    ASSUME MapInv, NEW p, NEW k \in Key, NEW v \in Val, InsertFast(p, k, v) \/ InsertRoom(p, k, v)
    PROVE  Gains(leaf, leaf', k, v)
<1> DEFINE l == p[height]
           node == LeafInsert(leaf[l], k, v)
<1>1. Descends(p, k) /\ leaf' = [leaf EXCEPT ![l] = node]
  BY DEF InsertFast, InsertRoom
<1>2. l \in DOMAIN leaf /\ Matched(leaf[l])
  BY <1>1, EndsAtLeaf
<1>3. Matched(node) /\ Holds(node) = Holds(leaf[l]) \cup {<<k, v>>}
  BY <1>2, KeyIsIndex, LeafInsertMatches
<1> HIDE DEF l, node
<1>4. AllMatched(leaf)
  BY DEF MapInv
<1> QED BY <1>1, <1>2, <1>3, <1>4, Gained

LEMMA InsertFirstGains ==
    ASSUME MapInv, NEW k \in Key, NEW v \in Val, NEW from, NEW spares, InsertFirst(k, v, from, spares)
    PROVE  Gains(leaf, leaf', k, v)
<1> DEFINE m == highWater + 1
           node == [keys |-> <<k>>, vals |-> <<v>>, next |-> 0]
<1>1. height = 0 /\ leaf' = With(leaf, m, node)
  BY DEF InsertFirst
<1>2. DOMAIN leaf = {}
  BY <1>1 DEF MapInv, SearchInv, Structure, NoNodes
<1>3. Matched(node)
  <2>1. <<k>> \in Seq(Index) /\ <<v>> \in Seq(Val) /\ Len(<<k>>) = Len(<<v>>)
    BY KeyIsIndex
  <2> QED BY <2>1 DEF Matched, LeafOK, Aligned
<1>4. Holds(node) = {<<k, v>>}
  BY DEF Holds, EntriesOf
<1> HIDE DEF node
<1>5. DOMAIN leaf' = {m} /\ leaf'[m] = node
  BY <1>1, <1>2 DEF With
<1>6. AllMatched(leaf')
  BY <1>3, <1>5 DEF AllMatched
<1>7. Stock(leaf) = {}
  BY <1>2 DEF Stock
<1>8. Stock(leaf') = {<<k, v>>}
  BY <1>4, <1>5 DEF Stock
<1> QED BY <1>6, <1>7, <1>8 DEF Gains

(* The leaf's chain is no entry of it. *)
LEMMA Relinked ==
    ASSUME NEW n, Matched(n), NEW x, NEW m, m = [n EXCEPT !.next = x]
    PROVE  Matched(m) /\ Holds(m) = Holds(n)
<1>1. n = [keys |-> n.keys, vals |-> n.vals, next |-> n.next]
  BY DEF Matched, LeafOK
<1>2. m = [keys |-> n.keys, vals |-> n.vals, next |-> x]
  BY <1>1
<1>3. m.keys = n.keys /\ m.vals = n.vals /\ m = [keys |-> m.keys, vals |-> m.vals, next |-> m.next]
  BY <1>2
<1> QED BY <1>3 DEF Matched, LeafOK, Holds

LEMMA InsertSplitGains ==
    ASSUME MapInv, NEW p, NEW k \in Key, NEW v \in Val, NEW from, NEW spares, InsertSplit(p, k, v, from, spares)
    PROVE  Gains(leaf, leaf', k, v)
<1> DEFINE l == p[height]
           n == LeafInsert(leaf[l], k, v)
           halves == LeafSplit(n)
           m == highWater + 1
           a == [halves.left EXCEPT !.next = m]
           b == [halves.right EXCEPT !.next = leaf[l].next]
<1>1. Descends(p, k) /\ leaf' = With([leaf EXCEPT ![l] = a], m, b)
  BY DEF InsertSplit, SplitChain, LeafOf
<1>2. l \in DOMAIN leaf /\ Matched(leaf[l])
  BY <1>1, EndsAtLeaf
<1>3. Matched(n) /\ Holds(n) = Holds(leaf[l]) \cup {<<k, v>>} /\ Len(n.keys) > 0
  <2>1. Matched(n) /\ Holds(n) = Holds(leaf[l]) \cup {<<k, v>>}
    BY <1>2, KeyIsIndex, LeafInsertMatches
  <2>2. Len(n.keys) = Len(leaf[l].keys) + 1 /\ Len(leaf[l].keys) \in Nat
    BY <1>2, KeyIsIndex, LeafInsertOK, Positions DEF Matched, Aligned
  <2> QED BY <2>1, <2>2
<1> HIDE DEF n
<1>4. Matched(halves.left) /\ Matched(halves.right) /\ Holds(halves.left) \cup Holds(halves.right) = Holds(n)
  BY <1>3, LeafSplitMatches
<1> HIDE DEF halves
<1>5. Matched(a) /\ Matched(b) /\ Holds(a) = Holds(halves.left) /\ Holds(b) = Holds(halves.right)
  BY <1>4, Relinked
<1>6. m \notin DOMAIN leaf
  BY DEF MapInv, SearchInv, Structure
<1> HIDE DEF a, b, m, l
<1>7. /\ DOMAIN leaf' = DOMAIN leaf \cup {m} /\ leaf'[l] = a /\ leaf'[m] = b
      /\ \A y \in DOMAIN leaf : y # l => leaf'[y] = leaf[y]
  BY <1>1, <1>2, <1>6 DEF With
<1>8. Matched(leaf'[l]) /\ Matched(leaf'[m]) /\ Holds(leaf'[l]) \cup Holds(leaf'[m]) = Holds(leaf[l]) \cup {<<k, v>>}
  BY <1>3, <1>4, <1>5, <1>7
<1>9. AllMatched(leaf)
  BY DEF MapInv
<1> QED BY <1>2, <1>6, <1>7, <1>8, <1>9, SharedOut

LEMMA InsertsGain ==
    ASSUME MapInv, NEW p, NEW k \in Key, NEW v \in Val, NEW from, NEW spares,
           InsertFast(p, k, v) \/ Insert(p, k, v, from, spares)
    PROVE  Gains(leaf, leaf', k, v)
<1> QED BY InsertGains, InsertFirstGains, InsertSplitGains DEF Insert

LEMMA CompactTrades ==
    ASSUME MapInv, NEW p, CompactLeaf(p)
    PROVE  Trades(leaf, leaf')
<1> DEFINE l == p[height]
<1>1. leaf' = Closed(leaf, l) /\ Len(leaf[l].keys) = 0
  BY DEF CompactLeaf, LeafOf, KeyCount
<1>2. AllMatched(leaf)
  BY DEF MapInv
<1>3. CASE l \in DOMAIN leaf
  <2>1. AllMatched(leaf') /\ Stock(leaf') = Stock(leaf)
    BY <1>1, <1>2, <1>3, EmptyClosed
  <2> QED BY <2>1 DEF Trades, AddsKeys
<1>4. CASE l \notin DOMAIN leaf
  <2>1. DOMAIN leaf' = DOMAIN leaf /\ \A x \in DOMAIN leaf : leaf'[x] = leaf[x]
    <3>1. DOMAIN leaf \ {l} = DOMAIN leaf
      BY <1>4
    <3> HIDE DEF l
    <3> QED BY <1>1, <3>1, ClosedFacts
  <2>2. AllMatched(leaf')
    BY <1>2, <2>1 DEF AllMatched
  <2>3. \A e : e \in Stock(leaf) <=> e \in Stock(leaf')
    BY <2>1, StockFacts
  <2> QED BY <2>2, <2>3 DEF Trades, AddsKeys
<1> QED BY <1>3, <1>4

LEMMA InsertAllMatches ==
    ASSUME NEW n, Matched(n), NEW ks, ks \in Seq(Key), NEW v, v \in Val
    PROVE  Matched(InsertAll(n, ks, v)) /\ AddsKeys(Holds(n), Holds(InsertAll(n, ks, v)))
<1>0. Len(ks) \in Nat /\ \A i \in 1..Len(ks) : ks[i] \in Key /\ ks[i] \in Index
  BY Positions, KeyIsIndex
<1>1. PICK s : InsertsUpto(s, n, ks, v) /\ InsertAll(n, ks, v) = s[Len(ks)]
  BY <1>0, InsertAllRuns
<1> DEFINE N == Len(ks)
           After(i) == Matched(s[i]) /\ AddsKeys(Holds(n), Holds(s[i]))
           A == {i \in Nat : i <= N => After(i)}
<1>2. s[0] = n /\ \A i \in 1..N : s[i] = LeafInsert(s[i - 1], ks[i], v)
  <2>1. \A i \in 0..N : s[i] = IF i = 0 THEN n ELSE LeafInsert(s[i - 1], ks[i], v)
    BY <1>1 DEF InsertsUpto
  <2>2. 0 \in 0..N /\ \A i \in 1..N : i \in 0..N /\ i # 0
    BY <1>0
  <2> QED BY <2>1, <2>2
<1>3. 0 \in A
  BY <1>2 DEF AddsKeys
<1>4. ASSUME NEW i \in Nat, i \in A PROVE i + 1 \in A
  <2> SUFFICES ASSUME i + 1 <= N PROVE After(i + 1)
    OBVIOUS
  <2> DEFINE k == ks[i + 1]
             a == s[i]
             m == s[i + 1]
  <2>1. i <= N /\ i + 1 \in 1..N /\ (i + 1) - 1 = i
    BY <1>0
  <2>2. m = LeafInsert(a, k, v) /\ k \in Index /\ k \in Key
    BY <1>0, <1>2, <2>1
  <2>3. Matched(a) /\ AddsKeys(Holds(n), Holds(a))
    BY <1>4, <2>1
  <2> HIDE DEF k, a, m
  <2>4. Matched(m) /\ Holds(m) = Holds(a) \cup {<<k, v>>}
    BY <2>2, <2>3, LeafInsertMatches
  <2>5. AddsKeys(Holds(n), Holds(m))
    BY <2>2, <2>3, <2>4 DEF AddsKeys
  <2> QED BY <2>4, <2>5 DEF m
<1> HIDE DEF A
<1>5. N \in A
  BY <1>0, <1>3, <1>4, NatInductionOn
<1> QED BY <1>0, <1>1, <1>5 DEF A

LEMMA FitsLeaf ==
    ASSUME MapInv, NEW p, NEW ks, Fits(p, ks)
    PROVE  p[height] \in DOMAIN leaf
BY EndsAtLeaf DEF Fits

LEMMA BulkTrades ==
    ASSUME MapInv, NEW p, NEW ks, ks \in Seq(Key), NEW v \in Val, BulkInsertFast(p, ks, v)
    PROVE  Trades(leaf, leaf')
<1> DEFINE l == p[height]
           node == InsertAll(leaf[l], ks, v)
<1>1. Fits(p, ks) /\ leaf' = [leaf EXCEPT ![l] = node]
  BY DEF BulkInsertFast
<1>2. AllMatched(leaf) /\ l \in DOMAIN leaf /\ Matched(leaf[l])
  BY <1>1, FitsLeaf DEF MapInv, AllMatched
<1>3. Matched(node) /\ AddsKeys(Holds(leaf[l]), Holds(node))
  BY <1>2, InsertAllMatches
<1> HIDE DEF l, node
<1>4. AllMatched(leaf') /\ AddsKeys(Stock(leaf), Stock(leaf'))
  BY <1>1, <1>2, <1>3, Added
<1> QED BY <1>4 DEF Trades

LEMMA MultiTrades ==
    ASSUME MapInv, NEW ps, NEW batches, NEW v \in Val, MultiLeafInsertFast(ps, batches, v),
           DOMAIN batches = 1..Len(batches), Len(batches) \in Nat,
           \A b \in 1..Len(batches) : batches[b] \in Seq(Key)
    PROVE  Trades(leaf, leaf')
<1> DEFINE N == Len(batches)
           at(b) == ps[b][height]
<1>1. leaf' = WriteBatches(ps, batches, v) /\ \A b \in 1..N : Fits(ps[b], batches[b])
  BY DEF MultiLeafInsertFast
<1>2. AllMatched(leaf) /\ \A b \in 1..N : at(b) \in DOMAIN leaf
  BY <1>1, FitsLeaf DEF MapInv
<1>3. PICK s : Writes(s, ps, batches, v) /\ WriteBatches(ps, batches, v) = s[N]
  BY WriteBatchesRuns
<1>4. s[0] = leaf /\ \A b \in 1..N : s[b] = [s[b - 1] EXCEPT ![at(b)] = InsertAll(s[b - 1][at(b)], batches[b], v)]
  <2>1. \A b \in 0..N : s[b] = IF b = 0 THEN leaf
                               ELSE [s[b - 1] EXCEPT ![at(b)] = InsertAll(s[b - 1][at(b)], batches[b], v)]
    BY <1>3 DEF Writes
  <2>2. 0 \in 0..N /\ \A b \in 1..N : b \in 0..N /\ b # 0
    OBVIOUS
  <2> QED BY <2>1, <2>2
<1> DEFINE After(b) == DOMAIN s[b] = DOMAIN leaf /\ AllMatched(s[b]) /\ AddsKeys(Stock(leaf), Stock(s[b]))
           A == {b \in Nat : b <= N => After(b)}
<1>5. 0 \in A
  BY <1>2, <1>4 DEF AddsKeys
<1>6. ASSUME NEW d \in Nat, d \in A PROVE d + 1 \in A
  <2> SUFFICES ASSUME d + 1 <= N PROVE After(d + 1)
    OBVIOUS
  <2> DEFINE b == d + 1
             l == at(b)
             ks == batches[b]
             L == s[d]
             M == s[b]
             node == InsertAll(L[l], ks, v)
  <2>1. b \in 1..N /\ b - 1 = d /\ d <= N
    OBVIOUS
  <2>2. DOMAIN L = DOMAIN leaf /\ AllMatched(L) /\ AddsKeys(Stock(leaf), Stock(L))
    BY <1>6, <2>1
  <2>3. ks \in Seq(Key) /\ M = [L EXCEPT ![l] = node] /\ l \in DOMAIN leaf
    BY <1>2, <1>4, <2>1
  <2> HIDE DEF l, ks, L, M, b
  <2>4. Matched(L[l])
    BY <2>2, <2>3 DEF AllMatched
  <2>5. Matched(node) /\ AddsKeys(Holds(L[l]), Holds(node))
    BY <2>3, <2>4, InsertAllMatches
  <2> HIDE DEF node
  <2>6. AllMatched(M) /\ AddsKeys(Stock(L), Stock(M))
    BY <2>2, <2>3, <2>5, Added
  <2>7. DOMAIN M = DOMAIN leaf
    BY <2>2, <2>3
  <2>8. AddsKeys(Stock(leaf), Stock(M))
    BY <2>2, <2>6 DEF AddsKeys
  <2> QED BY <2>6, <2>7, <2>8 DEF M, b
<1> HIDE DEF A
<1>7. N \in A
  BY <1>5, <1>6, NatInductionOn
<1>8. AllMatched(leaf') /\ AddsKeys(Stock(leaf), Stock(leaf'))
  BY <1>1, <1>3, <1>7 DEF A
<1> QED BY <1>8 DEF Trades

(* The leaf a descent for k ends at is the only one that can hold k. *)
Alone(k, l) == \A m \in DOMAIN leaf : \A e \in Holds(leaf[m]) : e[1] = k => m = l

LEMMA SoughtAlone ==
    ASSUME MapInv, NEW k
    PROVE  Alone(k, Path(k)[height])
<1> SUFFICES ASSUME NEW m \in DOMAIN leaf, NEW e \in Holds(leaf[m]), e[1] = k
             PROVE  m = Path(k)[height]
  BY DEF Alone
<1>1. leaf[m].keys \in Seq(Index)
  BY DEF MapInv, AllMatched, Matched, LeafOK
<1>2. PICK i \in 1..Len(leaf[m].keys) : e = <<leaf[m].keys[i], leaf[m].vals[i]>>
  BY DEF Holds, EntriesOf
<1>3. k \in Range(leaf[m].keys)
  BY <1>1, <1>2, Positions DEF Range
<1> QED BY <1>3, KeysWhereSought DEF MapInv

(* A key that HasKey has an entry. *)
LEMMA EntryOf ==
    ASSUME NEW n, Matched(n), NEW k, HasKey(n, k)
    PROVE  <<k, ValueOf(n, k)>> \in Holds(n)
<1> DEFINE i == LowerBound(n.keys, k)
<1>1. n.keys \in Seq(Index) /\ i \in 1..Len(n.keys) + 1 /\ Len(n.keys) \in Nat
  BY LowerBoundIsPosition, Positions DEF Matched, LeafOK
<1>2. i <= Len(n.keys) /\ n.keys[i] = k /\ ValueOf(n, k) = n.vals[i]
  BY DEF HasKey, KeyCount, ValueOf
<1> HIDE DEF i
<1> QED BY <1>1, <1>2 DEF Holds, EntriesOf

LEMMA UpdateTrades ==
    ASSUME MapInv, NEW k \in Key, NEW v \in Val, UpdateFast(Path(k), k, v)
    PROVE  Trades(leaf, leaf')
<1> DEFINE l == Path(k)[height]
           node == LeafUpdate(leaf[l], k, v)
<1>1. Descends(Path(k), k) /\ HasKey(leaf[l], k) /\ leaf' = [leaf EXCEPT ![l] = node]
  BY DEF UpdateFast, LeafOf
<1>2. l \in DOMAIN leaf /\ Matched(leaf[l]) /\ AllMatched(leaf)
  BY <1>1, EndsAtLeaf DEF MapInv
<1>3. Alone(k, l)
  BY SoughtAlone
<1> HIDE DEF l
<1>4. Matched(node) /\ node.keys = leaf[l].keys /\ \A e : e[1] # k => (e \in Holds(node) <=> e \in Holds(leaf[l]))
  BY <1>1, <1>2, LeafUpdateMatches
<1>5. <<k, ValueOf(leaf[l], k)>> \in Holds(leaf[l])
  BY <1>1, <1>2, EntryOf
<1>6. <<k, ValueOf(node, k)>> \in Holds(node)
  <2>1. HasKey(node, k)
    BY <1>1, <1>4 DEF HasKey, KeyCount
  <2> QED BY <1>4, <2>1, EntryOf
<1> HIDE DEF node
<1>7. DOMAIN leaf' = DOMAIN leaf /\ leaf'[l] = node /\ \A y \in DOMAIN leaf : y # l => leaf'[y] = leaf[y]
  BY <1>1, <1>2
<1>8. AllMatched(leaf')
  BY <1>2, <1>4, <1>7 DEF AllMatched
<1>9. ASSUME NEW e, e[1] # k PROVE e \in Stock(leaf') <=> e \in Stock(leaf)
  <2>1. (\E y \in DOMAIN leaf' : e \in Holds(leaf'[y])) <=> (\E y \in DOMAIN leaf : e \in Holds(leaf[y]))
    BY <1>2, <1>4, <1>7, <1>9
  <2> QED BY <2>1, StockFacts
<1>10. (\E w : <<k, w>> \in Stock(leaf)) /\ (\E w : <<k, w>> \in Stock(leaf'))
  BY <1>2, <1>5, <1>6, <1>7, StockFacts
<1> QED BY <1>8, <1>9, <1>10 DEF Trades, Revalues

(* The leaves without k's entry. *)
LEMMA EmptiedMatches ==
    ASSUME MapInv, NEW k, NEW l, l \in DOMAIN leaf, HasKey(leaf[l], k), Alone(k, l),
           NEW lf, lf = [leaf EXCEPT ![l] = LeafDelete(leaf[l], k)]
    PROVE  AllMatched(lf) /\ Loses(leaf, lf, k)
<1> DEFINE node == LeafDelete(leaf[l], k)
<1>1. AllMatched(leaf) /\ Matched(leaf[l]) /\ Ascending(leaf[l].keys)
  BY NodesAscend DEF MapInv, AllMatched
<1>2. Matched(node) /\ Holds(node) = {e \in Holds(leaf[l]) : e[1] # k}
  BY <1>1, LeafDeleteMatches
<1>3. <<k, ValueOf(leaf[l], k)>> \in Holds(leaf[l])
  BY <1>1, EntryOf
<1> HIDE DEF node
<1>4. DOMAIN lf = DOMAIN leaf /\ lf[l] = node /\ \A y \in DOMAIN leaf : y # l => lf[y] = leaf[y]
  BY DEF node
<1>5. AllMatched(lf)
  BY <1>1, <1>2, <1>4 DEF AllMatched
<1>6. ASSUME NEW e PROVE e \in Stock(lf) <=> e \in Stock(leaf) /\ e[1] # k
  <2>1. ASSUME NEW y \in DOMAIN leaf PROVE e \in Holds(lf[y]) <=> e \in Holds(leaf[y]) /\ e[1] # k
    <3>1. CASE y = l
      BY <1>2, <1>4, <3>1
    <3>2. CASE y # l
      BY <1>4, <3>2 DEF Alone
    <3> QED BY <3>1, <3>2
  <2>2. (\E y \in DOMAIN lf : e \in Holds(lf[y])) <=> (\E y \in DOMAIN leaf : e \in Holds(leaf[y]) /\ e[1] # k)
    BY <1>4, <2>1
  <2> QED BY <2>2, StockFacts
<1>7. \E w : <<k, w>> \in Stock(leaf)
  BY <1>3, StockFacts
<1> QED BY <1>5, <1>6, <1>7 DEF Loses

LEMMA DeleteFastTrades ==
    ASSUME MapInv, NEW k \in Key, DeleteFast(Path(k), k)
    PROVE  Trades(leaf, leaf')
<1> DEFINE l == Path(k)[height]
<1>1. Descends(Path(k), k) /\ HasKey(leaf[l], k) /\ leaf' = [leaf EXCEPT ![l] = LeafDelete(leaf[l], k)]
  BY DEF DeleteFast, LeafOf
<1>2. l \in DOMAIN leaf /\ Alone(k, l)
  BY <1>1, EndsAtLeaf, SoughtAlone
<1> HIDE DEF l
<1>3. AllMatched(leaf') /\ Loses(leaf, leaf', k)
  BY <1>1, <1>2, EmptiedMatches
<1> QED BY <1>3 DEF Trades

LEMMA DeleteTrades ==
    ASSUME MapInv, NEW k \in Key, NEW sides, NEW sibs, Delete(Path(k), k, sides, sibs)
    PROVE  Trades(leaf, leaf')
<1> DEFINE p == Path(k)
           l == p[height]
           lf1 == [leaf EXCEPT ![l] = LeafDelete(leaf[l], k)]
           t == Cascade(p, sides, sibs, k)
           lf == t.leaf
           empties == height = 1 /\ KeyCount(lf[root]) = 0
<1>1. Descends(p, k) /\ HasKey(leaf[l], k) /\ Structure
  BY DEF Delete, LeafOf, MapInv, SearchInv
<1>2. height \in Nat /\ height > 0 /\ l \in DOMAIN leaf /\ Alone(k, l)
  BY <1>1, EndsAtLeaf, SoughtAlone
<1>3. AllMatched(lf1) /\ Loses(leaf, lf1, k)
  BY <1>1, <1>2, EmptiedMatches
<1>4. Falling(Emptied(p, k), height, p, DOMAIN inner, DOMAIN leaf, height)
  BY <1>1, EmptiedFalls
<1>5. Stocked(Emptied(p, k), Stock(lf1))
  <2>1. Emptied(p, k).leaf = lf1
    BY DEF Emptied
  <2> QED BY <1>3, <2>1 DEF Stocked
<1>6. Falling(t, 1, p, DOMAIN inner, DOMAIN leaf, height) /\ Stocked(t, Stock(lf1))
  BY <1>2, <1>4, <1>5, CascadeMatches
<1>7. t.state # "refused" /\ leaf' = IF empties THEN Closed(lf, root) ELSE lf
  BY DEF Delete
<1> HIDE DEF t, lf1
<1>8. AllMatched(lf) /\ Stock(lf) = Stock(lf1)
  BY <1>6, <1>7 DEF Stocked
<1>9. AllMatched(leaf') /\ Stock(leaf') = Stock(lf1)
  <2>1. CASE empties
    <3>1. Settled(t.inner, DOMAIN lf, root, height)
      BY <1>1, <1>6, <1>7, CascadeSettles
    <3>2. root \in DOMAIN lf
      BY <2>1, <3>1, LoneLeaf
    <3>3. leaf' = Closed(lf, root) /\ Len(lf[root].keys) = 0
      BY <1>7, <2>1 DEF KeyCount
    <3> HIDE DEF lf
    <3>4. AllMatched(leaf') /\ Stock(leaf') = Stock(lf)
      BY <1>8, <3>2, <3>3, EmptyClosed
    <3> QED BY <1>8, <3>4
  <2>2. CASE ~empties
    BY <1>7, <1>8, <2>2
  <2> QED BY <2>1, <2>2
<1>10. Loses(leaf, leaf', k)
  BY <1>3, <1>9 DEF Loses
<1> QED BY <1>9, <1>10 DEF Trades

LEMMA KeysInBatch ==
    ASSUME NEW ks, ks \in Batches
    PROVE  ks \in Seq(Key) /\ Len(ks) \in Nat
<1>1. PICK n \in 0..MaxBatch : ks \in [1..n -> Key]
  BY DEF Batches, BoundedSeq, SeqOf
<1> QED BY <1>1

LEMMA NextTrades ==
    ASSUME MapInv, [Next]_vars
    PROVE  Trades(leaf, leaf')
<1>1. CASE UNCHANGED vars
  BY <1>1 DEF vars, MapInv, Trades, AddsKeys
<1>2. ASSUME NEW k \in Key, NEW v \in Val, InsertFast(Path(k), k, v) \/ UpdateFast(Path(k), k, v)
      PROVE  Trades(leaf, leaf')
  <2>1. CASE InsertFast(Path(k), k, v)
    <3>1. Gains(leaf, leaf', k, v)
      BY <2>1, InsertGains
    <3> QED BY <3>1 DEF Gains, AddsKeys, Trades
  <2>2. CASE UpdateFast(Path(k), k, v)
    BY <2>2, UpdateTrades
  <2> QED BY <1>2, <2>1, <2>2
<1>3. ASSUME NEW k \in Key, NEW v \in Val, NEW p, NEW from, NEW spares, Insert(p, k, v, from, spares)
      PROVE  Trades(leaf, leaf')
  <2>1. Gains(leaf, leaf', k, v)
    BY <1>3, InsertsGain
  <2> QED BY <2>1 DEF Gains, AddsKeys, Trades
<1>4. ASSUME NEW k \in Key, DeleteFast(Path(k), k)
      PROVE  Trades(leaf, leaf')
  BY <1>4, DeleteFastTrades
<1>5. ASSUME NEW k \in Key, NEW sides, NEW sibs, Delete(Path(k), k, sides, sibs)
      PROVE  Trades(leaf, leaf')
  BY <1>5, DeleteTrades
<1>6. ASSUME NEW p, CompactLeaf(p)
      PROVE  Trades(leaf, leaf')
  BY <1>6, CompactTrades
<1>7. ASSUME NEW ks, ks \in Batches, NEW p, NEW v \in Val, BulkInsertFast(p, ks, v)
      PROVE  Trades(leaf, leaf')
  BY <1>7, KeysInBatch, BulkTrades
<1>8. ASSUME NEW ks, ks \in Batches, NEW v \in Val, NEW cut \in 1..Len(ks) - 1, NEW ps,
             MultiLeafInsertFast(ps, <<UpTo(ks, cut), From(ks, cut + 1)>>, v)
      PROVE  Trades(leaf, leaf')
  <2>1. ks \in Seq(Key) /\ Len(ks) \in Nat
    BY <1>8, KeysInBatch
  <2> DEFINE batches == <<UpTo(ks, cut), From(ks, cut + 1)>>
  <2>2. UpTo(ks, cut) \in Seq(Key) /\ From(ks, cut + 1) \in Seq(Key)
    <3>1. cut \in 0..Len(ks) /\ cut + 1 \in 1..Len(ks) + 1
      BY <2>1
    <3> QED BY <2>1, <3>1, UpToFacts, FromFacts
  <2>3. Len(batches) = 2 /\ DOMAIN batches = 1..Len(batches) /\ \A b \in 1..Len(batches) : batches[b] \in Seq(Key)
    BY <2>2
  <2>4. MultiLeafInsertFast(ps, batches, v)
    BY <1>8
  <2> HIDE DEF batches
  <2> QED BY <2>3, <2>4, MultiTrades
<1>9. CASE Next
  BY <1>2, <1>3, <1>4, <1>5, <1>6, <1>7, <1>8, <1>9 DEF Next
<1> QED BY <1>1, <1>9

LEMMA MapInvHolds == Spec => []MapInv
<1>1. Init => AllMatched(leaf)
  BY DEF Init, AllMatched, NoNodes
<1>2. MapInv /\ [Next]_vars => AllMatched(leaf)'
  BY NextTrades DEF Trades, AllMatched
<1> QED BY <1>1, <1>2, SearchInvHolds, PTL DEF Spec, MapInv

---------------------------------------------------------------------------
(* The map a reader sees is the stock *)

Graph(f, E) ==
    /\ f = [k \in DOMAIN f |-> f[k]]
    /\ DOMAIN f = {k \in Key : \E v : <<k, v>> \in E}
    /\ \A k \in DOMAIN f : \A v : <<k, v>> \in E <=> f[k] = v

LEMMA AdditionPuts ==
    ASSUME NEW f, NEW g, NEW D, NEW E, Graph(f, D), Graph(g, E), D \subseteq E
    PROVE  Map!Puts(f, g)
<1>1. DOMAIN f \subseteq DOMAIN g /\ \A k \in DOMAIN f : g[k] = f[k]
  BY DEF Graph
<1>2. Restrict(g, DOMAIN f) = f
  BY <1>1 DEF Graph, Restrict
<1> QED BY <1>1, <1>2 DEF Map!Puts, Map!Restrict, Restrict

LEMMA RevaluingUpdates ==
    ASSUME NEW f, NEW g, NEW D, NEW E, Graph(f, D), Graph(g, E), NEW k \in Key,
           \E v : <<k, v>> \in D, \E v : <<k, v>> \in E, \A e : e[1] # k => (e \in E <=> e \in D)
    PROVE  Map!Puts(f, g) \/ Map!Updates(f, g)
<1>1. k \in DOMAIN f /\ k \in DOMAIN g
  BY DEF Graph
<1>2. ASSUME NEW x, x # k PROVE \A v : <<x, v>> \in E <=> <<x, v>> \in D
  BY <1>2
<1>3. DOMAIN g = DOMAIN f
  BY <1>1, <1>2 DEF Graph
<1>4. ASSUME NEW x \in DOMAIN f, x # k PROVE g[x] = f[x]
  BY <1>2, <1>3, <1>4 DEF Graph
<1>5. CASE g[k] = f[k]
  <2>1. \A x \in DOMAIN f : g[x] = f[x]
    BY <1>4, <1>5
  <2>2. Restrict(g, DOMAIN f) = f
    BY <2>1 DEF Graph, Restrict
  <2> QED BY <1>3, <2>2 DEF Map!Puts, Map!Restrict, Restrict
<1>6. CASE g[k] # f[k]
  <2>1. {x \in DOMAIN f : g[x] # f[x]} = {k}
    BY <1>1, <1>4, <1>6
  <2> DEFINE C == {x \in DOMAIN f : g[x] # f[x]}
  <2>2. Map!Cardinality(C) = Cardinality(C)
    BY DEF Map!Cardinality, Cardinality
  <2>3. Cardinality(C) = 1
    BY <2>1, FS_Singleton
  <2> QED BY <1>3, <2>2, <2>3 DEF Map!Updates
<1> QED BY <1>5, <1>6

LEMMA LosingRemoves ==
    ASSUME NEW f, NEW g, NEW D, NEW E, Graph(f, D), Graph(g, E), NEW k \in Key,
           \E v : <<k, v>> \in D, \A e : e \in E <=> e \in D /\ e[1] # k
    PROVE  Map!Removes(f, g)
<1>1. k \in DOMAIN f
  BY DEF Graph
<1>2. ASSUME NEW x PROVE \A v : <<x, v>> \in E <=> <<x, v>> \in D /\ x # k
  OBVIOUS
<1>3. DOMAIN g = DOMAIN f \ {k}
  BY <1>2 DEF Graph
<1>4. \A x \in DOMAIN g : g[x] = f[x]
  BY <1>2, <1>3 DEF Graph
<1>5. g = Restrict(f, DOMAIN f \ {k})
  BY <1>3, <1>4 DEF Graph, Restrict
<1> QED BY <1>1, <1>5 DEF Map!Removes, Map!Restrict, Restrict

LEMMA FoundIsHeld ==
    ASSUME MapInv, height # 0, NEW k \in Key, NEW v
    PROVE  <<k, v>> \in Stock(leaf) <=> HasKey(LeafOf(Path(k)), k) /\ v = ValueOf(LeafOf(Path(k)), k)
<1> DEFINE l == Path(k)[height]
           n == leaf[l]
<1>1. height \in Nat /\ height > 0
  BY DEF MapInv, SearchInv, Structure
<1>2. Descends(Path(k), k)
  BY <1>1, PathDescends
<1>3. l \in DOMAIN leaf /\ Matched(n) /\ Ascending(n.keys) /\ n.keys \in Seq(Nat) /\ k \in Nat
  BY <1>2, EndsAtLeaf, KeyIsIndex DEF Index
<1>4. Alone(k, l)
  BY SoughtAlone
<1>5. ASSUME HasKey(n, k), v = ValueOf(n, k) PROVE <<k, v>> \in Stock(leaf)
  BY <1>3, <1>5, EntryOf, StockFacts
<1>6. ASSUME <<k, v>> \in Stock(leaf) PROVE HasKey(n, k) /\ v = ValueOf(n, k)
  <2>1. <<k, v>> \in Holds(n)
    BY <1>4, <1>6, StockFacts DEF Alone
  <2>2. PICK i \in 1..Len(n.keys) : n.keys[i] = k /\ n.vals[i] = v
    BY <2>1 DEF Holds, EntriesOf
  <2> DEFINE j == LowerBound(n.keys, k)
             ks == n.keys
  <2>3. HasKey(n, k)
    BY <1>3, <2>2, HasKeyFinds
  <2>4. j \in 1..Len(n.keys) + 1 /\ j <= Len(n.keys) /\ ks[j] = k /\ ValueOf(n, k) = n.vals[j] /\ Len(n.keys) \in Nat
    BY <1>3, <2>3, LowerBoundIsPosition, Positions DEF HasKey, KeyCount, ValueOf
  <2> HIDE DEF j
  <2>5. ~(i < j) /\ ~(j < i)
    <3>1. \A y \in 1..Len(ks) : \A x \in 1..y - 1 : ks[x] < ks[y]
      BY <1>3, AscendingPairs
    <3>2. i \in 1..Len(ks) /\ j \in 1..Len(ks) /\ (i < j => i \in 1..j - 1) /\ (j < i => j \in 1..i - 1)
      BY <2>2, <2>4
    <3>3. ks[i] = ks[j] /\ ks[i] \in Nat
      BY <1>3, <2>2, <2>4, <3>2
    <3>4. ASSUME i < j PROVE FALSE
      <4>1. ks[i] < ks[j]
        BY <3>1, <3>2, <3>4
      <4> QED BY <3>3, <4>1
    <3>5. ASSUME j < i PROVE FALSE
      <4>1. ks[j] < ks[i]
        BY <3>1, <3>2, <3>5
      <4> QED BY <3>3, <4>1
    <3> QED BY <3>4, <3>5
  <2>6. i = j
    BY <2>4, <2>5
  <2> QED BY <2>2, <2>3, <2>4, <2>6
<1> QED BY <1>5, <1>6 DEF LeafOf

LEMMA ContentsAreHeld == MapInv => Graph(Contents, Stock(leaf))
<1> SUFFICES ASSUME MapInv PROVE Graph(Contents, Stock(leaf))
  OBVIOUS
<1> DEFINE seen == [k \in Key |-> Find(Path(k), k)]
           D == {k \in Key : seen[k] # <<>>}
<1>1. Contents = [k \in D |-> Head(seen[k])]
  BY DEF Contents
<1>2. ASSUME NEW k \in Key PROVE (\E v : <<k, v>> \in Stock(leaf)) <=> seen[k] # <<>>
  <2>1. CASE height = 0
    <3>1. seen[k] = <<>>
      BY <2>1 DEF Find
    <3>2. DOMAIN leaf = {}
      BY <2>1 DEF MapInv, SearchInv, Structure, NoNodes
    <3> QED BY <3>1, <3>2, StockFacts
  <2>2. CASE height # 0
    <3>1. height > 0
      BY <2>2 DEF MapInv, SearchInv, Structure
    <3>2. seen[k] = IF HasKey(LeafOf(Path(k)), k) THEN <<ValueOf(LeafOf(Path(k)), k)>> ELSE <<>>
      BY <3>1 DEF Find
    <3>3. seen[k] # <<>> <=> HasKey(LeafOf(Path(k)), k)
      BY <3>2
    <3> QED BY <2>2, <3>3, FoundIsHeld
  <2> QED BY <2>1, <2>2
<1>3. ASSUME NEW k \in Key, seen[k] # <<>>, NEW v PROVE <<k, v>> \in Stock(leaf) <=> Head(seen[k]) = v
  <2>1. height # 0 /\ seen[k] = <<ValueOf(LeafOf(Path(k)), k)>> /\ HasKey(LeafOf(Path(k)), k)
    BY <1>3 DEF Find
  <2>2. Head(seen[k]) = ValueOf(LeafOf(Path(k)), k)
    BY <2>1
  <2> QED BY <2>1, <2>2, FoundIsHeld
<1> HIDE DEF seen
<1> QED BY <1>1, <1>2, <1>3 DEF Graph

(* To everyone who reads through Find, the tree is a map: every            *)
(* instruction adds entries, changes one or removes one, and no split,     *)
(* rotation, merge, collapse or compaction is seen at all.                 *)
THEOREM TreeIsAMap == Spec => ImplementsMap
<1>1. Init => Map!Init
  <2> SUFFICES ASSUME Init PROVE Contents = [k \in {} |-> 0]
    BY DEF Map!Init
  <2> DEFINE seen == [k \in Key |-> Find(Path(k), k)]
             D == {k \in Key : seen[k] # <<>>}
  <2>1. \A k \in Key : seen[k] = <<>>
    BY DEF Init, Find
  <2>2. D = {}
    BY <2>1
  <2>3. Contents = [k \in D |-> Head(seen[k])]
    BY DEF Contents
  <2> QED BY <2>2, <2>3
<1>2. MapInv /\ MapInv' /\ [Next]_vars => Map!Next
  <2>1. MapInv' => Graph(Contents', Stock(leaf'))
    <3>1. MapInv' => Graph(Contents, Stock(leaf))'
      BY ContentsAreHeld, PTL
    <3>2. Graph(Contents, Stock(leaf))' => Graph(Contents', Stock(leaf'))
      BY DEF Graph, Stock, Holds, EntriesOf
    <3> QED BY <3>1, <3>2
  <2> SUFFICES ASSUME MapInv, MapInv', [Next]_vars PROVE Map!Next
    OBVIOUS
  <2>2. Graph(Contents, Stock(leaf)) /\ Graph(Contents', Stock(leaf'))
    BY <2>1, ContentsAreHeld
  <2>3. Trades(leaf, leaf')
    BY NextTrades
  <2>4. DOMAIN Contents' \subseteq Key
    BY <2>2 DEF Graph
  <2>5. Map!Puts(Contents, Contents') \/ Map!Updates(Contents, Contents') \/ Map!Removes(Contents, Contents')
    <3>1. CASE AddsKeys(Stock(leaf), Stock(leaf'))
      BY <2>2, <3>1, AdditionPuts DEF AddsKeys
    <3>2. ASSUME NEW k \in Key, Revalues(leaf, leaf', k) PROVE Map!Puts(Contents, Contents') \/ Map!Updates(Contents, Contents')
      BY <2>2, <3>2, RevaluingUpdates DEF Revalues
    <3>3. ASSUME NEW k \in Key, Loses(leaf, leaf', k) PROVE Map!Removes(Contents, Contents')
      BY <2>2, <3>3, LosingRemoves DEF Loses
    <3> QED BY <2>3, <3>1, <3>2, <3>3 DEF Trades
  <2> QED BY <2>4, <2>5 DEF Map!Next
<1> QED BY <1>1, <1>2, MapInvHolds, PTL DEF Spec, ImplementsMap, Map!Spec

---------------------------------------------------------------------------
(* The ends of the leaf chain, and how full leaves are *)

(* The chain starts at lm, to which no leaf leads, and ends at rm. *)
Ends(lf, lm, rm) == Heads(lf, lm) /\ rm \in DOMAIN lf /\ lf[rm].next = 0

Filled(lf) == \A x \in DOMAIN lf : Len(lf[x].keys) <= F

LEMMA EndsStay ==
    ASSUME NEW lf, NEW lm, NEW rm, Ends(lf, lm, rm),
           NEW lf2, DOMAIN lf2 = DOMAIN lf, \A x \in DOMAIN lf : lf2[x].next = lf[x].next
    PROVE  Ends(lf2, lm, rm)
BY DEF Ends, Heads

(* The leaf l has given way to l and a new leaf m beside it. *)
Parted(lf, lf2, l, m) ==
    /\ DOMAIN lf2 = DOMAIN lf \cup {m} /\ lf2[l].next = m /\ lf2[m].next = lf[l].next
    /\ \A x \in DOMAIN lf : x # l => lf2[x].next = lf[x].next

LEMMA EndsSplit ==
    ASSUME NEW lf, NEW lm, NEW rm, Ends(lf, lm, rm), NEW l, l \in DOMAIN lf, NEW m, m \notin DOMAIN lf,
           NEW lf2, Parted(lf, lf2, l, m), NEW rm2, rm2 = IF lf[l].next = 0 THEN m ELSE rm
    PROVE  Ends(lf2, lm, rm2)
<1>1. l # m /\ lm # m /\ rm # m
  BY DEF Ends, Heads
<1>2. Heads(lf2, lm)
  BY <1>1 DEF Ends, Heads, Parted
<1>3. rm2 \in DOMAIN lf2 /\ lf2[rm2].next = 0
  <2>1. CASE lf[l].next = 0
    BY <2>1 DEF Parted
  <2>2. CASE lf[l].next # 0
    <3>1. rm # l /\ rm2 = rm
      BY <2>2 DEF Ends
    <3> QED BY <3>1 DEF Ends, Parted
  <2> QED BY <2>1, <2>2
<1> QED BY <1>2, <1>3 DEF Ends

(* The leaf r is folded into l, the leaf that led to it. *)
Joined(lf, lf2, l, r) ==
    /\ l \in DOMAIN lf /\ r \in DOMAIN lf /\ l # r /\ lf[l].next = r
    /\ DOMAIN lf2 = DOMAIN lf \ {r} /\ lf2[l].next = lf[r].next
    /\ \A x \in DOMAIN lf : x # l /\ x # r => lf2[x].next = lf[x].next

LEMMA EndsMerge ==
    ASSUME NEW lf, NEW lm, NEW rm, Ends(lf, lm, rm), 0 \notin DOMAIN lf, NEW l, NEW r,
           NEW lf2, Joined(lf, lf2, l, r), NEW rm2, rm2 = IF lf[r].next = 0 THEN l ELSE rm
    PROVE  Ends(lf2, lm, rm2)
<1>1. lm # r /\ r # 0 /\ rm # l
  BY DEF Ends, Heads, Joined
<1>2. Heads(lf2, lm)
  BY <1>1 DEF Ends, Heads, Joined
<1>3. rm2 \in DOMAIN lf2 /\ lf2[rm2].next = 0
  <2>1. CASE lf[r].next = 0
    BY <2>1 DEF Joined
  <2>2. CASE lf[r].next # 0
    <3>1. rm # r /\ rm2 = rm
      BY <2>2 DEF Ends
    <3> QED BY <1>1, <3>1 DEF Ends, Joined
  <2> QED BY <2>1, <2>2
<1> QED BY <1>2, <1>3 DEF Ends

(* How much two leaves hold that share their entries, or one that is cut. *)
LEMMA RightLends ==
    ASSUME NEW a, NEW b, LeafOK(a), LeafOK(b), Len(b.keys) > 0, NEW h, h = LeafBorrowFromRight(a, b)
    PROVE  Len(h.left.keys) = Len(a.keys) + 1 /\ Len(h.right.keys) = Len(b.keys) - 1
<1>1. a.keys \in Seq(Index) /\ b.keys \in Seq(Index) /\ Head(b.keys) \in Index
  BY TailFacts DEF LeafOK
<1>2. Len(Append(a.keys, Head(b.keys))) = Len(a.keys) + 1 /\ Len(Tail(b.keys)) = Len(b.keys) - 1
  BY <1>1, Appends, Tails
<1>3. /\ a = [keys |-> a.keys, vals |-> a.vals, next |-> a.next]
      /\ b = [keys |-> b.keys, vals |-> b.vals, next |-> b.next]
  BY DEF LeafOK
<1>4. \A x, y : [a EXCEPT !.keys = x, !.vals = y].keys = x /\ [b EXCEPT !.keys = x, !.vals = y].keys = x
  BY <1>3
<1>5. h.left.keys = Append(a.keys, Head(b.keys)) /\ h.right.keys = Tail(b.keys)
  BY <1>4 DEF LeafBorrowFromRight
<1> QED BY <1>2, <1>5

LEMMA LeftLends ==
    ASSUME NEW a, NEW b, LeafOK(a), LeafOK(b), Len(a.keys) > 0, NEW h, h = LeafBorrowFromLeft(a, b)
    PROVE  Len(h.left.keys) = Len(a.keys) - 1 /\ Len(h.right.keys) = Len(b.keys) + 1
<1> DEFINE e == Last(a.keys)
<1>1. a.keys \in Seq(Index) /\ b.keys \in Seq(Index) /\ e \in Index
  BY FrontFacts DEF LeafOK
<1>2. Len(Front(a.keys)) = Len(a.keys) - 1 /\ Len(<<e>> \o b.keys) = Len(b.keys) + 1
  <2>1. <<e>> \in Seq(Index) /\ Len(<<e>>) = 1
    BY <1>1
  <2>2. Len(b.keys) \in Nat
    BY <1>1, Positions
  <2> HIDE DEF e
  <2>3. Len(<<e>> \o b.keys) = Len(<<e>>) + Len(b.keys)
    BY <1>1, <2>1, Concats
  <2> QED BY <1>1, <2>1, <2>2, <2>3, FrontFacts
<1>3. /\ a = [keys |-> a.keys, vals |-> a.vals, next |-> a.next]
      /\ b = [keys |-> b.keys, vals |-> b.vals, next |-> b.next]
  BY DEF LeafOK
<1>4. \A x, y : [a EXCEPT !.keys = x, !.vals = y].keys = x /\ [b EXCEPT !.keys = x, !.vals = y].keys = x
  BY <1>3
<1>5. h.left.keys = Front(a.keys) /\ h.right.keys = <<e>> \o b.keys
  BY <1>4 DEF LeafBorrowFromLeft
<1> QED BY <1>2, <1>5

LEMMA MergeHolds ==
    ASSUME NEW a, NEW b, LeafOK(a), LeafOK(b)
    PROVE  Len(LeafMerge(a, b).keys) = Len(a.keys) + Len(b.keys)
<1>1. a.keys \in Seq(Index) /\ b.keys \in Seq(Index) /\ a = [keys |-> a.keys, vals |-> a.vals, next |-> a.next]
  BY DEF LeafOK
<1>2. \A x, y, z : [a EXCEPT !.keys = x, !.vals = y, !.next = z].keys = x
  BY <1>1
<1>3. LeafMerge(a, b).keys = a.keys \o b.keys
  BY <1>2 DEF LeafMerge
<1> QED BY <1>1, <1>3, Concats

LEMMA SplitHolds ==
    ASSUME NEW n, LeafOK(n), Len(n.keys) = F + 1, NEW h, h = LeafSplit(n)
    PROVE  Len(h.left.keys) <= F /\ Len(h.right.keys) <= F
<1> DEFINE half == Len(n.keys) \div 2
<1>1. n.keys \in Seq(Index) /\ n = [keys |-> n.keys, vals |-> n.vals, next |-> n.next]
  BY DEF LeafOK
<1>2. half \in 1..F /\ F \in Nat
  BY HalvesOfOverfull, FanoutFacts
<1>3. h.left.keys = UpTo(n.keys, half) /\ h.right.keys = From(n.keys, half + 1)
  <2>1. \A x, y : [n EXCEPT !.keys = x, !.vals = y].keys = x
    BY <1>1
  <2> QED BY <2>1 DEF LeafSplit, KeyCount
<1> HIDE DEF half
<1>4. half \in 0..Len(n.keys) /\ half + 1 \in 1..Len(n.keys) + 1
  BY <1>2
<1>5. Len(UpTo(n.keys, half)) = half /\ Len(From(n.keys, half + 1)) = Len(n.keys) - (half + 1) + 1
  BY <1>1, <1>4, UpToFacts, FromFacts
<1> QED BY <1>2, <1>3, <1>5

---------------------------------------------------------------------------
(* The cascade *)

(* What a borrow does to the leaves and the chain's end. *)
LEMMA BorrowSteady ==
    ASSUME NEW t, NEW in, NEW lf, NEW st, NEW h, NEW p, NEW i, NEW lv, NEW up, NEW s, NEW l, NEW r, NEW side,
           Are(t, in, lf, st), LeavesOK(lf), Poised(in, DOMAIN lf, h, p, i, lv, up, s, l, r),
           Lends(t, p, i, l, r, side), Filled(lf), NEW w, w = Borrow(t, p[i - 1], s, side)
    PROVE  /\ DOMAIN w.leaf = DOMAIN lf /\ w.rightmost = t.rightmost /\ Filled(w.leaf)
           /\ \A x \in DOMAIN lf : w.leaf[x].next = lf[x].next
<1> DEFINE n == p[i - 1]
           L == DOMAIN lf
<1>1. t.inner = in /\ t.leaf = lf /\ DOMAIN t = Fields
  BY DEF Are
<1>2. n \in DOMAIN in /\ Brothers(in, L, n, l, r, lv) /\ l = in[n].kids[s] /\ r = in[n].kids[s + 1]
  <2>1. l = in[n].kids[s] /\ r = in[n].kids[s + 1]
    BY DEF Poised
  <2> QED BY <2>1, PoisedTidy
<1>3. CASE l \in L
  <2> DEFINE b == IF side = 1 THEN LeafBorrowFromRight(lf[l], lf[r]) ELSE LeafBorrowFromLeft(lf[l], lf[r])
             lf3 == [lf EXCEPT ![l] = b.left, ![r] = b.right]
             bl == b.left
             br == b.right
             c == b.sep
  <2>1. l \in L /\ r \in L /\ l # r
    BY <1>2, <1>3 DEF Brothers
  <2>2. LeafOK(lf[l]) /\ LeafOK(lf[r]) /\ Len(lf[l].keys) \in Nat /\ Len(lf[r].keys) \in Nat
    <3>1. LeafOK(lf[l]) /\ LeafOK(lf[r])
      BY <2>1 DEF LeavesOK
    <3> QED BY <3>1, Positions DEF LeafOK
  <2>3. w = [t EXCEPT !.leaf[l] = bl, !.leaf[r] = br, !.inner[n].keys[s] = c]
    BY <1>1, <1>2, <2>1 DEF Borrow
  <2>4. bl.next = lf[l].next /\ br.next = lf[r].next
    BY <2>2, NextsKept
  <2>5. Len(bl.keys) <= F /\ Len(br.keys) <= F
    <3>0. Len(lf[l].keys) <= F /\ Len(lf[r].keys) <= F /\ F \in Nat /\ MINK \in Nat /\ 2 * MINK <= F /\ MINK >= 2
      BY <2>1, FanoutFacts DEF Filled
    <3>1. CASE side = 1
      <4>1. Len(lf[r].keys) > MINK /\ ~(Len(lf[l].keys) >= MINK)
        BY <1>1, <2>1, <3>1 DEF Lends, CountAt, KeyCount
      <4>2. b = LeafBorrowFromRight(lf[l], lf[r]) /\ Len(lf[r].keys) > 0
        BY <2>2, <3>0, <3>1, <4>1
      <4>3. Len(bl.keys) = Len(lf[l].keys) + 1 /\ Len(br.keys) = Len(lf[r].keys) - 1
        BY <2>2, <4>2, RightLends
      <4> HIDE DEF bl, br
      <4> QED BY <2>2, <3>0, <4>1, <4>3
    <3>2. CASE side # 1
      <4>1. Len(lf[l].keys) > MINK /\ ~(Len(lf[r].keys) >= MINK)
        BY <1>1, <2>1, <3>2 DEF Lends, CountAt, KeyCount
      <4>2. b = LeafBorrowFromLeft(lf[l], lf[r]) /\ Len(lf[l].keys) > 0
        BY <2>2, <3>0, <3>2, <4>1
      <4>3. Len(bl.keys) = Len(lf[l].keys) - 1 /\ Len(br.keys) = Len(lf[r].keys) + 1
        BY <2>2, <4>2, LeftLends
      <4> HIDE DEF bl, br
      <4> QED BY <2>2, <3>0, <4>1, <4>3
    <3> QED BY <3>1, <3>2
  <2> HIDE DEF b, n, bl, br, c
  <2>6. w.leaf = [lf EXCEPT ![l] = bl, ![r] = br] /\ w.rightmost = t.rightmost
    BY <1>1, <2>3 DEF Fields
  <2>7. /\ DOMAIN w.leaf = DOMAIN lf /\ w.leaf[l] = bl /\ w.leaf[r] = br
        /\ \A y \in DOMAIN lf : y # l /\ y # r => w.leaf[y] = lf[y]
    BY <2>1, <2>6
  <2> QED BY <2>4, <2>5, <2>6, <2>7 DEF Filled
<1>4. CASE l \notin L
  <2> DEFINE sep == in[n].keys[s]
             b == IF side = 1 THEN InternalBorrowFromRight(in[l], in[r], sep)
                              ELSE InternalBorrowFromLeft(in[l], in[r], sep)
             bl == b.left
             br == b.right
             c == b.sep
  <2>1. w = [t EXCEPT !.inner[l] = bl, !.inner[r] = br, !.inner[n].keys[s] = c]
    BY <1>1, <1>2, <1>4 DEF Borrow
  <2> HIDE DEF b, n, bl, br, c
  <2>2. w.leaf = lf /\ w.rightmost = t.rightmost
    BY <1>1, <2>1 DEF Fields
  <2> QED BY <2>2
<1> QED BY <1>3, <1>4

LEMMA MergeSteady ==
    ASSUME NEW t, NEW in, NEW lf, NEW st, NEW h, NEW p, NEW i, NEW lv, NEW up, NEW s, NEW l, NEW r,
           Are(t, in, lf, st), LeavesOK(lf), Poised(in, DOMAIN lf, h, p, i, lv, up, s, l, r),
           AtRest(in, lf, p[1]), Filled(lf), ~(CountAt(t, p[i]) >= MINK),
           \A m \in {l, r} : m # p[i] => ~(CountAt(t, m) > MINK),
           0 \notin DOMAIN lf, NEW lm, Ends(lf, lm, t.rightmost), NEW w, w = Merge(t, p[i - 1], s)
    PROVE  Ends(w.leaf, lm, w.rightmost) /\ Filled(w.leaf)
<1> DEFINE n == p[i - 1]
           L == DOMAIN lf
           shrunk == [in EXCEPT ![n] = InternalRemoveAt(in[n], s)]
<1>1. t.inner = in /\ t.leaf = lf /\ DOMAIN t = Fields
  BY DEF Are
<1>2. /\ n \in DOMAIN in /\ Brothers(in, L, n, l, r, lv) /\ s \in Occupied(in[n]) /\ l = in[n].kids[s] /\ r = in[n].kids[s + 1]
      /\ Tidy(in, DOMAIN lf, {p[1]}) /\ p[i] \in {l, r}
  <2>1. s \in Occupied(in[n]) /\ l = in[n].kids[s] /\ r = in[n].kids[s + 1] /\ p[i] \in {l, r}
    BY DEF Poised
  <2> QED BY <2>1, PoisedTidy
<1>3. CASE l \in L
  <2> DEFINE merged == LeafMerge(lf[l], lf[r])
             both == [lf EXCEPT ![l] = merged]
             lf3 == Closed(both, r)
             rm2 == IF lf[r].next = 0 THEN l ELSE t.rightmost
  <2>1. l \in L /\ r \in L /\ l # r
    BY <1>2, <1>3 DEF Brothers
  <2>2. LeafOK(lf[l]) /\ LeafOK(lf[r]) /\ Len(lf[l].keys) \in Nat /\ Len(lf[r].keys) \in Nat
    <3>1. LeafOK(lf[l]) /\ LeafOK(lf[r])
      BY <2>1 DEF LeavesOK
    <3> QED BY <3>1, Positions DEF LeafOK
  <2>3. merged.next = lf[r].next /\ Len(merged.keys) = Len(lf[l].keys) + Len(lf[r].keys)
    <3>1. LeafMerge(lf[l], lf[r]).next = lf[r].next
      BY <2>2, NextsKept
    <3>2. Len(LeafMerge(lf[l], lf[r]).keys) = Len(lf[l].keys) + Len(lf[r].keys)
      BY <2>2, MergeHolds
    <3> QED BY <3>1, <3>2
  <2>4. Len(merged.keys) <= F
    <3>1. CountAt(t, l) = Len(lf[l].keys) /\ CountAt(t, r) = Len(lf[r].keys)
      BY <1>1, <2>1 DEF CountAt, KeyCount
    <3>2. F \in Nat /\ MINK \in Nat /\ 2 * MINK <= F
      BY FanoutFacts
    <3> DEFINE a == Len(lf[l].keys)
               b == Len(lf[r].keys)
    <3>3. (~(a >= MINK) /\ ~(b > MINK)) \/ (~(b >= MINK) /\ ~(a > MINK))
      <4>1. CASE p[i] = l
        BY ONLY <2>1, <3>1, <4>1, ~(CountAt(t, p[i]) >= MINK),
           \A m \in {l, r} : m # p[i] => ~(CountAt(t, m) > MINK)
      <4>2. CASE p[i] = r
        BY ONLY <2>1, <3>1, <4>2, ~(CountAt(t, p[i]) >= MINK),
           \A m \in {l, r} : m # p[i] => ~(CountAt(t, m) > MINK)
      <4>3. p[i] = l \/ p[i] = r
        BY <1>2
      <4> QED BY <4>1, <4>2, <4>3
    <3>5. a \in Nat /\ b \in Nat
      BY <2>2
    <3> HIDE DEF a, b, merged
    <3>4. a + b <= F
      <4>1. CASE ~(a >= MINK) /\ ~(b > MINK)
        BY ONLY <3>2, <3>5, <4>1
      <4>2. CASE ~(b >= MINK) /\ ~(a > MINK)
        BY ONLY <3>2, <3>5, <4>2
      <4> QED BY <3>3, <4>1, <4>2
    <3> QED BY <2>3, <3>4 DEF a, b
  <2>5. lf[l].next = r
    <3>1. PICK rt : Sorted(in, lf, rt, rt)
      BY DEF AtRest
    <3>2. Rests(in, rt) /\ Chained(lf, rt)
      BY <3>1 DEF Rests, Sorted
    <3> HIDE DEF n
    <3>3. Twins(in, DOMAIN lf, {p[1]}, n, l, r)
      BY <1>2, TwinFacts
    <3>4. Halved(rt, l, r, in[n].keys[s])
      BY <1>2, <3>2, <3>3, TwinsShare
    <3> DEFINE d == in[n].keys[s]
    <3>5. d \in Nat /\ Parts(rt[l], rt[r], d) /\ rt[l] \cup rt[r] \in Intervals
      BY <3>4 DEF Halved
    <3> HIDE DEF d
    <3> QED BY <2>1, <3>2, <3>5, NeighbourIsNext
  <2>6. w = [t EXCEPT !.leaf = Closed([@ EXCEPT ![l] = merged], r),
                      !.rightmost = IF merged.next = 0 THEN l ELSE @, !.inner = shrunk]
    BY <1>1, <1>2, <2>1 DEF Merge
  <2>7. DOMAIN both = L /\ both[l] = merged /\ \A y \in DOMAIN lf : y # l => both[y] = lf[y]
    BY <2>1
  <2>8. w.leaf = lf3 /\ w.rightmost = rm2
    <3> HIDE DEF merged, shrunk
    <3>1. w.leaf = Closed([t.leaf EXCEPT ![l] = merged], r) /\ w.rightmost = IF merged.next = 0 THEN l ELSE t.rightmost
      BY <1>1, <2>6 DEF Fields
    <3> QED BY <1>1, <2>3, <3>1
  <2> HIDE DEF both, merged
  <2>9. DOMAIN Closed(both, r) = DOMAIN both \ {r} /\ \A x \in DOMAIN both \ {r} : Closed(both, r)[x] = both[x]
    BY ClosedFacts
  <2>10. DOMAIN lf3 = L \ {r} /\ lf3[l] = merged /\ \A y \in DOMAIN lf : y # l /\ y # r => lf3[y] = lf[y]
    BY <2>1, <2>7, <2>9
  <2> HIDE DEF lf3, rm2
  <2>11. Joined(lf, lf3, l, r)
    BY <2>1, <2>3, <2>5, <2>10 DEF Joined
  <2>12. Ends(lf3, lm, rm2)
    BY <2>11, EndsMerge DEF rm2
  <2>13. Filled(lf3)
    BY <2>4, <2>10 DEF Filled
  <2> QED BY <2>8, <2>12, <2>13
<1>4. CASE l \notin L
  <2> DEFINE m == InternalMergeRight(in[l], in[r], in[n].keys[s])
             in3 == Closed([shrunk EXCEPT ![l] = m], r)
  <2>1. w = [t EXCEPT !.inner = in3]
    BY <1>1, <1>2, <1>4 DEF Merge
  <2> HIDE DEF in3
  <2>2. w.leaf = lf /\ w.rightmost = t.rightmost
    BY <1>1, <2>1 DEF Fields
  <2> QED BY <2>2
<1> QED BY <1>3, <1>4

(* The cascade, unless it is refused. *)
Steady(t, lm) == t.state # "refused" => Ends(t.leaf, lm, t.rightmost) /\ Filled(t.leaf)

LEMMA RebalanceSteady ==
    ASSUME NEW t, NEW i, NEW p, NEW I0, NEW L0, NEW h, NEW sides, NEW sibs,
           Falling(t, i, p, I0, L0, h), i \in 2..h, h \in Nat, Resting(t, p), 0 \notin L0, NEW lm, Steady(t, lm)
    PROVE  Steady(Rebalance(p, sides, sibs, i, t), lm)
<1> DEFINE in == t.inner
           lf == t.leaf
           n == p[i - 1]
           kids == in[n].kids
           our == IndexOf(kids, p[i])
           sib == IF sides[i] = 1 THEN our + 1 ELSE our - 1
           s == IF sides[i] = 1 THEN our ELSE sib
           w == Rebalance(p, sides, sibs, i, t)
<1>1. CASE t.state # "rising"
  <2>1. w = t
    BY <1>1 DEF Rebalance
  <2> QED BY <2>1
<1>2. CASE t.state = "rising"
  <2>1. /\ DOMAIN t = Fields /\ LeavesOK(lf) /\ AtRest(in, lf, p[1])
        /\ Nearly(in, p[1], p[i]) /\ Standing(in, DOMAIN lf, h, p, i)
    BY <1>2 DEF Falling, Resting
  <2>a. Ends(lf, lm, t.rightmost) /\ Filled(lf) /\ 0 \notin DOMAIN lf
    BY <1>2 DEF Falling, Steady
  <2>2. PICK lv, up : Forest(in, DOMAIN lf, {p[1]}, h, lv, up) /\ OnPath(in, DOMAIN lf, lv, h, p, i)
    BY <2>1 DEF Standing
  <2>3. n \in DOMAIN in /\ p[i] \in KidsOf(in, n) /\ NodeOK(in[n])
    <3>1. Above(in, DOMAIN lf, lv, h, p, i)
      BY <2>2, ParentAbove
    <3> QED BY <2>1, <3>1 DEF Above, Nearly
  <2>4. /\ kids[our] = p[i]
        /\ our + 1 \in DOMAIN kids => our \in Occupied(in[n])
        /\ our - 1 \in DOMAIN kids => our - 1 \in Occupied(in[n]) /\ (our - 1) + 1 = our
    <3> HIDE DEF n, in
    <3>1. NodeOK(in[n]) /\ p[i] \in ToSet(in[n].kids)
      BY <2>3 DEF KidsOf
    <3> QED BY <3>1, PlaceOf
  <2>5. w = IF CountAt(t, p[i]) >= MINK THEN [t EXCEPT !.state = "done"]
            ELSE IF sides[i] = 0 \/ sib \notin DOMAIN kids THEN [t EXCEPT !.state = "refused"]
            ELSE IF kids[sib] # sibs[i] THEN [t EXCEPT !.state = "refused"]
            ELSE IF CountAt(t, sibs[i]) > MINK THEN [Borrow(t, n, s, sides[i]) EXCEPT !.state = "done"]
            ELSE Merge(t, n, s)
    BY <1>2 DEF Rebalance
  <2>6. CASE CountAt(t, p[i]) >= MINK
    <3>1. w = [t EXCEPT !.state = "done"]
      BY <2>5, <2>6
    <3> HIDE DEF w
    <3>2. w.leaf = t.leaf /\ w.rightmost = t.rightmost
      BY <2>1, <3>1 DEF Fields
    <3> QED BY <2>a, <3>2 DEF Steady, w
  <2>7. CASE ~(CountAt(t, p[i]) >= MINK) /\ (sides[i] = 0 \/ sib \notin DOMAIN kids \/ kids[sib] # sibs[i])
    <3>1. w = [t EXCEPT !.state = "refused"]
      BY <2>5, <2>7
    <3> HIDE DEF w
    <3>2. w.state = "refused"
      BY <2>1, <3>1 DEF Fields
    <3> QED BY <3>2 DEF Steady, w
  <2>8. CASE ~(CountAt(t, p[i]) >= MINK) /\ ~(sides[i] = 0 \/ sib \notin DOMAIN kids \/ kids[sib] # sibs[i])
    <3> DEFINE l == kids[s]
               r == kids[s + 1]
    <3>1. s \in Occupied(in[n]) /\ (sides[i] = 1 => l = p[i] /\ r = sibs[i]) /\ (sides[i] # 1 => l = sibs[i] /\ r = p[i])
      BY <2>4, <2>8
    <3>2. l = in[n].kids[s] /\ r = in[n].kids[s + 1] /\ p[i] \in {l, r}
      BY <3>1
    <3>3. Poised(in, DOMAIN lf, h, p, i, lv, up, s, l, r)
      BY <2>1, <2>2, <3>1, <3>2 DEF Poised
    <3>4. Are(t, in, lf, "rising")
      BY <1>2, <2>1 DEF Are
    <3> HIDE DEF in, lf, kids, our, s, l, r, w, sib
    <3>5. CASE CountAt(t, sibs[i]) > MINK
      <4> DEFINE b == Borrow(t, n, s, sides[i])
      <4>1. w = [b EXCEPT !.state = "done"]
        BY <2>5, <2>8, <3>5
      <4>2. Lends(t, p, i, l, r, sides[i])
        BY <2>8, <3>1, <3>5 DEF Lends
      <4>3. Whole(b, in, lf, p[1], h)
        BY <2>1, <3>3, <3>4, <4>2, BorrowKeeps
      <4>4. b = Borrow(t, p[i - 1], s, sides[i])
        OBVIOUS
      <4> HIDE DEF b
      <4>5. /\ DOMAIN b.leaf = DOMAIN lf /\ b.rightmost = t.rightmost /\ Filled(b.leaf)
            /\ \A x \in DOMAIN lf : b.leaf[x].next = lf[x].next
        BY <2>1, <2>a, <3>3, <3>4, <4>2, <4>4, BorrowSteady
      <4>6. Ends(b.leaf, lm, t.rightmost)
        BY <2>a, <4>5, EndsStay
      <4>7. w.leaf = b.leaf /\ w.rightmost = b.rightmost
        BY <4>1, <4>3 DEF Whole, Fields
      <4> QED BY <4>5, <4>6, <4>7 DEF Steady, w
    <3>6. CASE ~(CountAt(t, sibs[i]) > MINK)
      <4>1. w = Merge(t, p[i - 1], s)
        BY <2>5, <2>8, <3>6
      <4>3. ~(CountAt(t, p[i]) >= MINK) /\ \A m \in {l, r} : m # p[i] => ~(CountAt(t, m) > MINK)
        BY <2>8, <3>1, <3>6
      <4>2. Ends(w.leaf, lm, w.rightmost) /\ Filled(w.leaf)
        BY <2>1, <2>a, <3>3, <3>4, <4>1, <4>3, MergeSteady
      <4> QED BY <4>2 DEF Steady, w
    <3> QED BY <3>5, <3>6
  <2> QED BY <2>6, <2>7, <2>8
<1> QED BY <1>1, <1>2

LEMMA CascadeSteady ==
    ASSUME NEW p, NEW sides, NEW sibs, NEW k, NEW I0, NEW L0, height \in Nat, height > 0,
           Falling(Emptied(p, k), height, p, I0, L0, height), Resting(Emptied(p, k), p),
           0 \notin L0, NEW lm, Steady(Emptied(p, k), lm)
    PROVE  Steady(Cascade(p, sides, sibs, k), lm)
<1>1. PICK s : Falls(s, p, sides, sibs, k) /\ Cascade(p, sides, sibs, k) = s[2]
  BY CascadeRuns
<1> DEFINE Good(i) == Falling(s[i + 1], i, p, I0, L0, height) /\ Resting(s[i + 1], p) /\ Steady(s[i + 1], lm)
           A == {d \in Nat : d < height => Good(height - d)}
<1>2. s[height + 1] = Emptied(p, k) /\ \A i \in 2..height : s[i] = Rebalance(p, sides, sibs, i, s[i + 1])
  <2>1. s = [i \in 2..height + 1 |-> IF i = height + 1 THEN Emptied(p, k) ELSE Rebalance(p, sides, sibs, i, s[i + 1])]
    BY <1>1 DEF Falls, Emptied
  <2>2. height + 1 \in 2..height + 1 /\ \A i \in 2..height : i \in 2..height + 1 /\ i # height + 1
    OBVIOUS
  <2>3. \A i \in 2..height + 1 : s[i] = IF i = height + 1 THEN Emptied(p, k) ELSE Rebalance(p, sides, sibs, i, s[i + 1])
    BY <2>1
  <2> QED BY <2>2, <2>3
<1>3. 0 \in A
  BY <1>2
<1>4. ASSUME NEW d \in Nat, d \in A PROVE d + 1 \in A
  <2> SUFFICES ASSUME d + 1 < height PROVE Good(height - (d + 1))
    OBVIOUS
  <2> DEFINE i == height - d
  <2>1. i \in 2..height /\ height - (d + 1) = i - 1 /\ (i - 1) + 1 = i
    OBVIOUS
  <2>2. Falling(s[i + 1], i, p, I0, L0, height) /\ Resting(s[i + 1], p) /\ Steady(s[i + 1], lm)
    BY <1>4, <2>1
  <2> HIDE DEF i
  <2>3. Falling(Rebalance(p, sides, sibs, i, s[i + 1]), i - 1, p, I0, L0, height)
    BY <2>1, <2>2, RebalanceStep
  <2>4. Resting(Rebalance(p, sides, sibs, i, s[i + 1]), p)
    BY <2>1, <2>2, RebalanceRests
  <2>6. Steady(Rebalance(p, sides, sibs, i, s[i + 1]), lm)
    BY <2>1, <2>2, RebalanceSteady
  <2>5. Good(i - 1)
    BY <1>2, <2>1, <2>3, <2>4, <2>6
  <2> QED BY <2>1, <2>5
<1> HIDE DEF A
<1>5. height - 1 \in A
  <2>1. height - 1 \in Nat
    OBVIOUS
  <2> QED BY <1>3, <1>4, <2>1, NatInductionOn
<1>6. height - 1 < height /\ height - (height - 1) = 1 /\ 1 + 1 = 2
  OBVIOUS
<1> QED BY <1>1, <1>5, <1>6 DEF A

---------------------------------------------------------------------------
(* Every instruction keeps the ends of the chain, and no leaf overflows *)

Tied == (height # 0 => Ends(leaf, leftmost, rightmost)) /\ Filled(leaf)

LEMMA RewriteSteady ==
    ASSUME NEW lf, NEW lm, NEW rm, Ends(lf, lm, rm), Filled(lf), NEW l, l \in DOMAIN lf,
           NEW node, node.next = lf[l].next, Len(node.keys) <= F, NEW lf2, lf2 = [lf EXCEPT ![l] = node]
    PROVE  Ends(lf2, lm, rm) /\ Filled(lf2)
<1>1. DOMAIN lf2 = DOMAIN lf /\ \A x \in DOMAIN lf : lf2[x].next = lf[x].next
  OBVIOUS
<1>2. lf2[l] = node /\ \A x \in DOMAIN lf : x # l => lf2[x] = lf[x]
  OBVIOUS
<1> QED BY <1>1, <1>2, EndsStay DEF Filled

LEMMA FastStepsTied ==
    ASSUME Structure, Tied, NEW p, NEW k \in Key, NEW v,
           InsertFast(p, k, v) \/ UpdateFast(p, k, v) \/ DeleteFast(p, k) \/ InsertRoom(p, k, v)
    PROVE  Tied'
<1> DEFINE l == p[height]
<1> k \in Index
  BY KeyIsIndex
<1>1. Descends(p, k) /\ height' = height /\ leftmost' = leftmost /\ rightmost' = rightmost
  BY DEF InsertFast, UpdateFast, DeleteFast, InsertRoom, header
<1>2. Descended(p, k)
  BY <1>1, DescentFacts
<1>3. height # 0 /\ l \in DOMAIN leaf /\ LeafOK(leaf[l]) /\ Len(leaf[l].keys) \in Nat /\ F \in Nat /\ Len(leaf[l].keys) <= F
  BY <1>2, Positions, FanoutFacts DEF Descended, LeafOK, Tied, Filled
<1>6. \E node : Len(node.keys) <= F /\ node.next = leaf[l].next /\ leaf' = [leaf EXCEPT ![l] = node]
  <2>1. CASE InsertFast(p, k, v) \/ InsertRoom(p, k, v)
    <3>1. Len(leaf[l].keys) < F /\ leaf' = [leaf EXCEPT ![l] = LeafInsert(leaf[l], k, v)]
      BY <2>1 DEF InsertFast, InsertRoom, LeafOf, KeyCount
    <3>2. Len(LeafInsert(leaf[l], k, v).keys) = Len(leaf[l].keys) + 1
      BY <1>3, LeafInsertOK
    <3>3. LeafInsert(leaf[l], k, v).next = leaf[l].next
      BY <1>3, NextKept
    <3>4. Len(leaf[l].keys) + 1 <= F
      BY <1>3, <3>1
    <3> QED BY <3>1, <3>2, <3>3, <3>4
  <2>2. CASE UpdateFast(p, k, v)
    <3>1. leaf' = [leaf EXCEPT ![l] = LeafUpdate(leaf[l], k, v)]
      BY <2>2 DEF UpdateFast
    <3>2. LeafUpdate(leaf[l], k, v).keys = leaf[l].keys
      BY <1>3, LeafUpdateOK
    <3>3. LeafUpdate(leaf[l], k, v).next = leaf[l].next
      BY <1>3, NextKept
    <3> QED BY <1>3, <3>1, <3>2, <3>3
  <2>3. CASE DeleteFast(p, k)
    <3>1. HasKey(leaf[l], k) /\ leaf' = [leaf EXCEPT ![l] = LeafDelete(leaf[l], k)]
      BY <2>3 DEF DeleteFast, LeafOf
    <3>2. Len(LeafDelete(leaf[l], k).keys) = Len(leaf[l].keys) - 1
      BY <1>3, <3>1, LeafDeleteOK
    <3>3. LeafDelete(leaf[l], k).next = leaf[l].next
      BY <1>3, NextKept
    <3>4. Len(leaf[l].keys) - 1 <= F
      BY <1>3
    <3> QED BY <3>1, <3>2, <3>3, <3>4
  <2> QED BY <2>1, <2>2, <2>3
<1> HIDE DEF l
<1>7. Ends(leaf', leftmost, rightmost) /\ Filled(leaf')
  BY <1>3, <1>6, RewriteSteady DEF Tied
<1> QED BY <1>1, <1>7 DEF Tied

LEMMA InsertFirstTied ==
    ASSUME Structure, NEW k, NEW v, NEW from, NEW spares, InsertFirst(k, v, from, spares)
    PROVE  Tied'
<1> DEFINE m == highWater + 1
           node == [keys |-> <<k>>, vals |-> <<v>>, next |-> 0]
<1>1. height = 0 /\ leaf' = With(leaf, m, node) /\ leftmost' = m /\ rightmost' = m
  BY DEF InsertFirst
<1>2. DOMAIN leaf = {} /\ m \in Nat /\ m # 0
  BY <1>1 DEF Structure, NoNodes
<1>3. DOMAIN leaf' = {m} /\ leaf'[m] = node
  BY <1>1, <1>2 DEF With
<1>4. node.next = 0 /\ Len(node.keys) <= F
  <2>1. node.next = 0 /\ node.keys = <<k>> /\ Len(<<k>>) = 1 /\ F \in Nat /\ F >= 4
    BY FanoutFacts
  <2> QED BY <2>1
<1> HIDE DEF node, m
<1>5. Ends(leaf', m, m) /\ Filled(leaf')
  BY <1>2, <1>3, <1>4 DEF Ends, Heads, Filled
<1> QED BY <1>1, <1>5 DEF Tied

LEMMA InsertSplitTied ==
    ASSUME Structure, Tied, NEW p, NEW k, k \in Index, NEW v, NEW from, NEW spares, InsertSplit(p, k, v, from, spares)
    PROVE  Tied'
<1> DEFINE l == p[height]
           halves == LeafSplit(LeafInsert(LeafOf(p), k, v))
           m == highWater + 1
           lf == SplitChain(l, halves)
<1>1. /\ Descends(p, k) /\ KeyCount(leaf[l]) = F /\ leaf' = lf /\ leftmost' = leftmost
      /\ rightmost' = IF leaf[l].next = 0 THEN m ELSE rightmost
  BY DEF InsertSplit, LeafOf
<1>2. highWater \in Nat /\ DOMAIN leaf \subseteq 1..highWater
  BY DEF Structure
<1>3. height # 0 /\ l \in DOMAIN leaf /\ LeafOK(leaf[l])
  <2>1. Descended(p, k)
    BY <1>1, DescentFacts
  <2> QED BY <2>1 DEF Descended
<1>4. LeafOK(halves.left) /\ LeafOK(halves.right) /\ Len(halves.left.keys) <= F /\ Len(halves.right.keys) <= F
  <2> DEFINE n == LeafInsert(leaf[l], k, v)
  <2>1. LeafOK(n) /\ Len(n.keys) = F + 1
    BY <1>1, <1>3, LeafInsertOK DEF KeyCount
  <2>2. Len(n.keys) > 0
    BY <2>1, FanoutFacts
  <2>3. halves = LeafSplit(n)
    BY DEF LeafOf
  <2> HIDE DEF n, halves
  <2> QED BY <2>1, <2>2, <2>3, LeafSplitOK, SplitHolds
<1> HIDE DEF halves
<1>5. /\ DOMAIN lf = DOMAIN leaf \cup {m} /\ lf[l].keys = halves.left.keys /\ lf[m].keys = halves.right.keys
      /\ lf[l].next = m /\ lf[m].next = leaf[l].next
      /\ \A x \in DOMAIN leaf : x # l => lf[x] = leaf[x]
  <2>1. /\ [halves.left EXCEPT !.next = m].keys = halves.left.keys
        /\ [halves.right EXCEPT !.next = leaf[l].next].keys = halves.right.keys
        /\ [halves.left EXCEPT !.next = m].next = m
        /\ [halves.right EXCEPT !.next = leaf[l].next].next = leaf[l].next
    BY <1>4 DEF LeafOK
  <2>2. lf = With([leaf EXCEPT ![l] = [halves.left EXCEPT !.next = m]], m, [halves.right EXCEPT !.next = leaf[l].next])
    BY DEF SplitChain
  <2>3. m \notin DOMAIN leaf /\ l # m
    BY <1>2, <1>3
  <2> HIDE DEF lf, m
  <2> QED BY <1>3, <2>1, <2>2, <2>3 DEF With
<1>6. m \notin DOMAIN leaf
  BY <1>2
<1> HIDE DEF lf, m, l
<1>7. Parted(leaf, lf, l, m)
  BY <1>5 DEF Parted
<1>8. Ends(lf, leftmost, rightmost')
  BY <1>1, <1>3, <1>6, <1>7, EndsSplit DEF Tied
<1>9. Filled(lf)
  BY <1>4, <1>5 DEF Tied, Filled
<1> QED BY <1>1, <1>8, <1>9 DEF Tied

LEMMA DeleteTied ==
    ASSUME Structure, Tied, AtRest(inner, leaf, root), NEW p, NEW k, k \in Index, NEW sides, NEW sibs,
           Delete(p, k, sides, sibs)
    PROVE  Tied'
<1> DEFINE l == p[height]
           t == Cascade(p, sides, sibs, k)
           collapses == height > 1 /\ t.inner[root].keys = <<>>
           empties == height = 1 /\ KeyCount(t.leaf[root]) = 0
<1>1. Descends(p, k) /\ HasKey(leaf[l], k)
  BY DEF Delete, LeafOf
<1>2. Descended(p, k)
  BY <1>1, DescentFacts
<1>3. height \in Nat /\ height > 0 /\ height # 0 /\ p[1] = root /\ l \in DOMAIN leaf /\ LeafOK(leaf[l])
  BY <1>2 DEF Descended
<1>4. Falling(Emptied(p, k), height, p, DOMAIN inner, DOMAIN leaf, height) /\ Resting(Emptied(p, k), p)
  BY <1>1, EmptiedFalls, EmptiedRests
<1>5. Steady(Emptied(p, k), leftmost)
  <2> DEFINE e == Emptied(p, k)
             node == LeafDelete(leaf[l], k)
             lf1 == [leaf EXCEPT ![l] = node]
  <2>1. e.leaf = lf1 /\ e.rightmost = rightmost
    BY DEF Emptied
  <2>2. node.next = leaf[l].next
    BY <1>3, NextKept
  <2>3. Len(node.keys) <= F
    <3>1. Len(node.keys) = Len(leaf[l].keys) - 1 /\ Len(leaf[l].keys) \in Nat /\ Len(leaf[l].keys) <= F /\ F \in Nat
      BY <1>1, <1>3, LeafDeleteOK, Positions, FanoutFacts DEF LeafOK, Tied, Filled
    <3> HIDE DEF node
    <3> QED BY <3>1
  <2> HIDE DEF e, node, l, lf1
  <2>4. Ends(lf1, leftmost, rightmost) /\ Filled(lf1)
    BY <1>3, <2>2, <2>3, RewriteSteady DEF Tied, lf1
  <2> QED BY <2>1, <2>4 DEF Steady, e
<1>6. Steady(t, leftmost)
  <2>1. 0 \notin DOMAIN leaf
    BY DEF Structure
  <2> QED BY <1>3, <1>4, <1>5, <2>1, CascadeSteady
<1>7. /\ t.state # "refused"
      /\ height' = IF collapses \/ empties THEN height - 1 ELSE height
      /\ leftmost' = IF empties THEN 0 ELSE leftmost
      /\ rightmost' = IF empties THEN 0 ELSE t.rightmost
      /\ leaf' = IF empties THEN Closed(t.leaf, root) ELSE t.leaf
  BY DEF Delete
<1> HIDE DEF t
<1>8. Ends(t.leaf, leftmost, t.rightmost) /\ Filled(t.leaf)
  BY <1>6, <1>7 DEF Steady
<1>9. CASE empties
  <2>1. height' = 0 /\ leaf' = Closed(t.leaf, root)
    BY <1>7, <1>9
  <2>2. DOMAIN leaf' = DOMAIN t.leaf \ {root} /\ \A x \in DOMAIN t.leaf \ {root} : leaf'[x] = t.leaf[x]
    <3> DEFINE lf == t.leaf
    <3> HIDE DEF lf
    <3>1. DOMAIN Closed(lf, root) = DOMAIN lf \ {root} /\ \A x \in DOMAIN lf \ {root} : Closed(lf, root)[x] = lf[x]
      BY ClosedFacts
    <3> QED BY <2>1, <3>1 DEF lf
  <2> QED BY <1>8, <2>1, <2>2 DEF Tied, Filled
<1>10. CASE ~empties
  <2>1. leaf' = t.leaf /\ leftmost' = leftmost /\ rightmost' = t.rightmost
    BY <1>7, <1>10
  <2> QED BY <1>8, <2>1 DEF Tied
<1> QED BY <1>9, <1>10

LEMMA CompactTied ==
    ASSUME Structure, SearchRests, Tied, NEW p, CompactLeaf(p)
    PROVE  Tied'
<1> DEFINE l == p[height]
<1>1. /\ height >= 2 /\ leaf' = Closed(leaf, l) /\ height' = height /\ rightmost' = rightmost
      /\ l = leftmost /\ leftmost' = leaf[l].next
  BY DEF CompactLeaf, LeafOf
<1>2. Ends(leaf, leftmost, rightmost) /\ Filled(leaf) /\ 0 \notin DOMAIN leaf
  BY <1>1 DEF Tied, Structure
<1>3. Heads(leaf', leftmost')
  BY CompactRests
<1>4. DOMAIN leaf' = DOMAIN leaf \ {l} /\ \A x \in DOMAIN leaf \ {l} : leaf'[x] = leaf[x]
  <2>1. DOMAIN Closed(leaf, l) = DOMAIN leaf \ {l} /\ \A x \in DOMAIN leaf \ {l} : Closed(leaf, l)[x] = leaf[x]
    BY ClosedFacts
  <2> QED BY <1>1, <2>1
<1>5. leaf[l].next # 0
  <2>1. leftmost' \in DOMAIN leaf
    BY <1>3, <1>4 DEF Heads
  <2> QED BY <1>1, <1>2, <2>1
<1>6. rightmost # l /\ rightmost \in DOMAIN leaf /\ leaf[rightmost].next = 0
  BY <1>2, <1>5 DEF Ends
<1>7. Ends(leaf', leftmost', rightmost')
  BY <1>1, <1>3, <1>4, <1>6 DEF Ends
<1>8. Filled(leaf')
  BY <1>2, <1>4 DEF Filled
<1> QED BY <1>7, <1>8 DEF Tied

(* A batch that fits leaves its leaf no fuller than it may be. *)
LEMMA BatchFills ==
    ASSUME Structure, NEW p, NEW ks, ks \in Seq(Index), Fits(p, ks), NEW v, NEW node, node = InsertAll(leaf[p[height]], ks, v)
    PROVE  /\ p[height] \in DOMAIN leaf /\ height # 0
           /\ node.next = leaf[p[height]].next /\ Len(node.keys) <= F
<1> DEFINE l == p[height]
<1>1. Descends(p, Head(ks)) /\ Len(leaf[l].keys) + Len(ks) <= F
  BY DEF Fits, LeafOf, KeyCount
<1>2. Descended(p, Head(ks))
  BY <1>1, DescentFacts
<1>3. l \in DOMAIN leaf /\ LeafOK(leaf[l]) /\ height # 0
  BY <1>2 DEF Descended
<1> HIDE DEF l
<1>4. InsertAll(leaf[l], ks, v).next = leaf[l].next /\ Len(InsertAll(leaf[l], ks, v).keys) = Len(leaf[l].keys) + Len(ks)
  BY <1>3, InsertAllGrows
<1>5. node = InsertAll(leaf[l], ks, v)
  BY DEF l
<1> QED BY <1>1, <1>3, <1>4, <1>5 DEF l

LEMMA BulkTied ==
    ASSUME Structure, Tied, NEW p, NEW ks, ks \in Seq(Index), NEW v, BulkInsertFast(p, ks, v)
    PROVE  Tied'
<1> DEFINE l == p[height]
           node == InsertAll(leaf[l], ks, v)
<1>1. /\ Fits(p, ks) /\ leaf' = [leaf EXCEPT ![l] = node]
      /\ height' = height /\ leftmost' = leftmost /\ rightmost' = rightmost
  BY DEF BulkInsertFast, header
<1>2. l \in DOMAIN leaf /\ height # 0 /\ node.next = leaf[l].next /\ Len(node.keys) <= F
  BY <1>1, BatchFills
<1> HIDE DEF node, l
<1>3. Ends(leaf', leftmost, rightmost) /\ Filled(leaf')
  BY <1>1, <1>2, RewriteSteady DEF Tied
<1> QED BY <1>1, <1>3 DEF Tied

(* Two batches go to two leaves, of which the first leads to the second. *)
LEMMA MultiTied ==
    ASSUME Structure, SearchRests, Tied, NEW ps, NEW batches, NEW v, MultiLeafInsertFast(ps, batches, v),
           DOMAIN batches = 1..2, Len(batches) = 2, batches[1] \in Seq(Index), batches[2] \in Seq(Index)
    PROVE  Tied'
<1> DEFINE a == ps[1][height]
           b == ps[2][height]
           node == InsertAll(leaf[a], batches[1], v)
           node2 == InsertAll(leaf[b], batches[2], v)
           lf1 == [leaf EXCEPT ![a] = node]
           lf2 == [lf1 EXCEPT ![b] = node2]
<1>1. /\ Fits(ps[1], batches[1]) /\ Fits(ps[2], batches[2]) /\ leaf[a].next = b
      /\ leaf' = WriteBatches(ps, batches, v)
      /\ height' = height /\ leftmost' = leftmost /\ rightmost' = rightmost
  <2>1. 1 \in DOMAIN batches /\ 2 \in DOMAIN batches /\ 2 > 1 /\ 2 - 1 = 1
    OBVIOUS
  <2>2. MultiLeafInsertFast(ps, batches, v)
    OBVIOUS
  <2>3. Fits(ps[1], batches[1]) /\ Fits(ps[2], batches[2]) /\ LeafOf(ps[2 - 1]).next = ps[2][height]
    BY <2>1, <2>2 DEF MultiLeafInsertFast
  <2> QED BY <2>1, <2>2, <2>3 DEF MultiLeafInsertFast, header, LeafOf
<1>2. a \in DOMAIN leaf /\ height # 0 /\ node.next = leaf[a].next /\ Len(node.keys) <= F
  BY <1>1, BatchFills
<1>3. b \in DOMAIN leaf /\ node2.next = leaf[b].next /\ Len(node2.keys) <= F
  BY <1>1, BatchFills
<1>4. a # b
  <2>1. PICK rt : Sorted(inner, leaf, rt, rt)
    BY <1>2 DEF SearchRests, AtRest
  <2>2. 0 \notin DOMAIN leaf
    BY DEF Structure
  <2> HIDE DEF a, b
  <2> QED BY <1>1, <1>2, <1>3, <2>1, <2>2 DEF Sorted, Chained, Onward
<1>5. leaf' = lf2
  <2>1. PICK s : Writes(s, ps, batches, v) /\ WriteBatches(ps, batches, v) = s[Len(batches)]
    <3>1. Len(batches) \in Nat
      OBVIOUS
    <3> QED BY <3>1, WriteBatchesRuns
  <2>2. 0 \in 0..2 /\ 1 \in 0..2 /\ 2 \in 0..2 /\ 1 # 0 /\ 2 # 0 /\ 1 - 1 = 0 /\ 2 - 1 = 1
    OBVIOUS
  <2>3. \A c \in 0..2 : s[c] = IF c = 0 THEN leaf
                               ELSE [s[c - 1] EXCEPT ![ps[c][height]] = InsertAll(s[c - 1][ps[c][height]], batches[c], v)]
    BY <2>1 DEF Writes
  <2>4. s[0] = leaf
    BY <2>2, <2>3
  <2>5. s[1] = lf1
    <3>1. s[1] = [s[1 - 1] EXCEPT ![ps[1][height]] = InsertAll(s[1 - 1][ps[1][height]], batches[1], v)]
      BY <2>2, <2>3
    <3> QED BY <2>2, <2>4, <3>1
  <2>6. s[2] = [lf1 EXCEPT ![b] = InsertAll(lf1[b], batches[2], v)]
    <3>1. s[2] = [s[2 - 1] EXCEPT ![ps[2][height]] = InsertAll(s[2 - 1][ps[2][height]], batches[2], v)]
      BY <2>2, <2>3
    <3> HIDE DEF lf1
    <3> QED BY <2>2, <2>5, <3>1
  <2>7. lf1[b] = leaf[b]
    <3> HIDE DEF a, b, node
    <3> QED BY <1>3, <1>4
  <2>8. WriteBatches(ps, batches, v) = s[2]
    BY <2>1
  <2> HIDE DEF lf1
  <2> QED BY <1>1, <2>6, <2>7, <2>8
<1> HIDE DEF a, b, node, node2
<1>6. DOMAIN lf1 = DOMAIN leaf /\ lf1[b] = leaf[b]
  BY <1>4
<1> HIDE DEF lf1, lf2
<1>7. Ends(lf1, leftmost, rightmost) /\ Filled(lf1)
  BY <1>2, RewriteSteady DEF Tied, lf1
<1>8. node2.next = lf1[b].next /\ b \in DOMAIN lf1
  BY <1>3, <1>6
<1>9. Ends(lf2, leftmost, rightmost) /\ Filled(lf2)
  BY <1>3, <1>7, <1>8, RewriteSteady DEF lf2
<1> QED BY <1>1, <1>5, <1>9 DEF Tied

LEMMA NextTied ==
    ASSUME Structure, SearchRests, Tied, [Next]_vars
    PROVE  Tied'
<1>1. CASE UNCHANGED vars
  BY <1>1 DEF vars, Tied
<1>2. ASSUME NEW k \in Key, NEW v, InsertFast(Path(k), k, v) \/ UpdateFast(Path(k), k, v) \/ DeleteFast(Path(k), k)
      PROVE  Tied'
  BY <1>2, FastStepsTied
<1>3. ASSUME NEW k \in Key, NEW v, NEW p, NEW from, NEW spares, Insert(p, k, v, from, spares)
      PROVE  Tied'
  <2> k \in Index
    BY KeyIsIndex
  <2>1. CASE InsertFirst(k, v, from, spares)
    BY <2>1, InsertFirstTied
  <2>2. CASE InsertRoom(p, k, v)
    BY <2>2, FastStepsTied
  <2>3. CASE InsertSplit(p, k, v, from, spares)
    BY <2>3, InsertSplitTied
  <2> QED BY <1>3, <2>1, <2>2, <2>3 DEF Insert
<1>4. ASSUME NEW p, NEW k \in Key, NEW sides, NEW sibs, Delete(p, k, sides, sibs)
      PROVE  Tied'
  <2>1. height # 0 /\ k \in Index
    BY <1>4, KeyIsIndex DEF Delete, Descends, Structure
  <2> QED BY <1>4, <2>1, DeleteTied DEF SearchRests
<1>5. ASSUME NEW p, CompactLeaf(p)
      PROVE  Tied'
  BY <1>5, CompactTied
<1>6. ASSUME NEW ks, ks \in Batches, NEW p, NEW v, BulkInsertFast(p, ks, v)
      PROVE  Tied'
  BY <1>6, BatchIsSeq, BulkTied
<1>7. ASSUME NEW ks, ks \in Batches, NEW v, NEW cut \in 1..Len(ks) - 1, NEW ps,
             MultiLeafInsertFast(ps, <<UpTo(ks, cut), From(ks, cut + 1)>>, v)
      PROVE  Tied'
  <2>1. ks \in Seq(Index) /\ Len(ks) \in Nat
    BY <1>7, BatchIsSeq
  <2> DEFINE batches == <<UpTo(ks, cut), From(ks, cut + 1)>>
  <2>2. UpTo(ks, cut) \in Seq(Index) /\ From(ks, cut + 1) \in Seq(Index)
    <3>1. cut \in 0..Len(ks) /\ cut + 1 \in 1..Len(ks) + 1
      BY <2>1
    <3> QED BY <2>1, <3>1, UpToFacts, FromFacts
  <2>3. Len(batches) = 2 /\ DOMAIN batches = 1..2 /\ batches[1] \in Seq(Index) /\ batches[2] \in Seq(Index)
    BY <2>2
  <2>4. MultiLeafInsertFast(ps, batches, v)
    BY <1>7
  <2> HIDE DEF batches
  <2> QED BY <2>3, <2>4, MultiTied
<1>8. CASE Next
  BY <1>2, <1>3, <1>4, <1>5, <1>6, <1>7, <1>8 DEF Next
<1> QED BY <1>1, <1>8

ChainInv == SearchInv /\ Tied

LEMMA ChainInvHolds == Spec => []ChainInv
<1>1. Init => ChainInv
  BY InitStructured DEF Init, ChainInv, SearchInv, SearchRests, Tied, Filled, NoNodes
<1>2. ChainInv /\ [Next]_vars => ChainInv'
  BY NextKeeps, NextRests, NextTied DEF ChainInv, SearchInv
<1> QED BY <1>1, <1>2, PTL DEF Spec

---------------------------------------------------------------------------
(* Occupancy: no node at rest holds more than its fanout, however it was   *)
(* filled, and merges, borrows and compaction leave no internal node but   *)
(* the root below half of it (torna.c, the MINK tests of Delete and        *)
(* CompactLeaf).                                                           *)
THEOREM OccupancyEver == Spec => []Occupancy
<1>1. ChainInv => Occupancy
  BY DEF ChainInv, SearchInv, Structure, Sized, NodeOK, Tied, Filled, Occupancy, KeyCount
<1> QED BY <1>1, ChainInvHolds, PTL

---------------------------------------------------------------------------
(* Rows: nodes side by side *)

(* The keys of B follow those of A: nothing lies between. *)
Meet(A, B) == \E e \in A : e \in Nat /\ e + 1 \in B /\ (\A a \in A : a <= e) /\ (\A b \in B : e + 1 <= b)

LEMMA MeetFacts ==
    ASSUME NEW A, NEW B, Meet(A, B)
    PROVE  Abut(A, B) /\ A # B
<1>1. PICK e \in A : e \in Nat /\ e + 1 \in B /\ (\A a \in A : a <= e)
  BY DEF Meet
<1>2. e + 1 \notin A
  BY <1>1
<1> QED BY <1>1, <1>2 DEF Abut

LEMMA HalvesMeet ==
    ASSUME NEW A, NEW B, NEW sep, sep \in Nat, A \subseteq Nat, B \subseteq Nat, Parts(A, B, sep), Abut(A, B)
    PROVE  Meet(A, B)
<1>1. PICK e \in A : e + 1 \in B
  BY DEF Abut
<1>2. e \in Nat /\ e < sep /\ sep <= e + 1 /\ (\A a \in A : a \in Nat /\ a < sep) /\ (\A b \in B : b \in Nat /\ sep <= b)
  BY <1>1 DEF Parts
<1>3. (\A a \in A : a <= e) /\ (\A b \in B : e + 1 <= b)
  BY <1>2
<1> QED BY <1>1, <1>2, <1>3 DEF Meet

(* The sets of keys that the nodes of s get follow one another. *)
Abreast(s, rt) ==
    /\ s \in Seq(Index) /\ Len(s) > 0
    /\ \A j \in 1..Len(s) : j < Len(s) => Meet(rt[s[j]], rt[s[j + 1]])

(* u is the row s and then the row t. *)
Joining(u, s, t, rt) == u = s \o t /\ Abreast(s, rt) /\ Abreast(t, rt) /\ Meet(rt[s[Len(s)]], rt[t[1]])

LEMMA AbreastJoin ==
    ASSUME NEW rt, NEW s, NEW t, NEW u, Joining(u, s, t, rt)
    PROVE  Abreast(u, rt) /\ u[Len(u)] = t[Len(t)] /\ ToSet(u) = ToSet(s) \cup ToSet(t)
<1>1. /\ s \in Seq(Index) /\ t \in Seq(Index) /\ Len(s) \in Nat /\ Len(t) \in Nat /\ Len(s) > 0 /\ Len(t) > 0
      /\ DOMAIN s = 1..Len(s) /\ DOMAIN t = 1..Len(t)
  BY Positions DEF Joining, Abreast
<1>2. /\ u \in Seq(Index) /\ Len(u) = Len(s) + Len(t)
      /\ \A j \in 1..Len(s) + Len(t) : u[j] = IF j <= Len(s) THEN s[j] ELSE t[j - Len(s)]
  BY <1>1, Concats DEF Joining
<1>3. DOMAIN u = 1..Len(s) + Len(t)
  BY <1>2, Positions
<1> DEFINE m == Len(s)
           n == Len(t)
<1>4. m \in Nat /\ n \in Nat /\ m > 0 /\ n > 0
  BY <1>1
<1> HIDE DEF m, n
<1>5. /\ Len(u) = m + n /\ DOMAIN u = 1..m + n /\ DOMAIN s = 1..m /\ DOMAIN t = 1..n
      /\ \A j \in 1..m + n : u[j] = IF j <= m THEN s[j] ELSE t[j - m]
      /\ \A j \in 1..m : j < m => Meet(rt[s[j]], rt[s[j + 1]])
      /\ \A j \in 1..n : j < n => Meet(rt[t[j]], rt[t[j + 1]])
      /\ Meet(rt[s[m]], rt[t[1]])
  BY <1>1, <1>2, <1>3 DEF m, n, Joining, Abreast
<1>6. \A j \in 1..m : j \in 1..m + n /\ u[j] = s[j]
  BY <1>4, <1>5
<1>7. \A j \in 1..n : m + j \in 1..m + n /\ u[m + j] = t[j]
  <2> SUFFICES ASSUME NEW j \in 1..n PROVE m + j \in 1..m + n /\ u[m + j] = t[j]
    OBVIOUS
  <2>1. m + j \in 1..m + n /\ ~(m + j <= m) /\ (m + j) - m = j
    BY <1>4
  <2> QED BY <1>5, <2>1
<1>8. ASSUME NEW j \in 1..m + n, j < m + n PROVE Meet(rt[u[j]], rt[u[j + 1]])
  <2>1. CASE j < m
    <3>1. j \in 1..m /\ j + 1 \in 1..m
      BY <1>4, <1>8, <2>1
    <3> QED BY <1>5, <1>6, <2>1, <3>1
  <2>2. CASE j = m
    <3>1. m \in 1..m /\ 1 \in 1..n
      BY <1>4
    <3>2. u[m] = s[m] /\ u[m + 1] = t[1]
      BY <1>6, <1>7, <3>1
    <3> QED BY <1>5, <2>2, <3>2
  <2>3. CASE j > m
    <3> DEFINE i == j - m
    <3>1. i \in 1..n /\ i + 1 \in 1..n /\ i < n /\ m + i = j /\ m + (i + 1) = j + 1
      BY <1>4, <1>8, <2>3
    <3> HIDE DEF i
    <3>2. u[j] = t[i] /\ u[j + 1] = t[i + 1]
      BY <1>7, <3>1
    <3> QED BY <1>5, <3>1, <3>2
  <2>4. j < m \/ j = m \/ j > m
    BY <1>4
  <2> QED BY <2>1, <2>2, <2>3, <2>4
<1>9. u[m + n] = t[n]
  <2>1. n \in 1..n
    BY <1>4
  <2> QED BY <1>7, <2>1
<1>10. ToSet(u) = ToSet(s) \cup ToSet(t)
  <2>1. ASSUME NEW x, x \in ToSet(u) PROVE x \in ToSet(s) \cup ToSet(t)
    <3>1. PICK j \in 1..m + n : u[j] = x
      BY <1>5, <2>1 DEF ToSet
    <3>2. CASE j <= m
      <4>1. j \in 1..m
        BY <1>4, <3>2
      <4> QED BY <1>5, <1>6, <3>1, <4>1 DEF ToSet
    <3>3. CASE ~(j <= m)
      <4>1. j - m \in 1..n /\ x = t[j - m]
        BY <1>4, <1>5, <3>1, <3>3
      <4> QED BY <1>5, <4>1 DEF ToSet
    <3> QED BY <3>2, <3>3
  <2>2. ASSUME NEW x, x \in ToSet(s) \cup ToSet(t) PROVE x \in ToSet(u)
    <3>1. CASE x \in ToSet(s)
      <4>1. PICK j \in 1..m : s[j] = x
        BY <1>5, <3>1 DEF ToSet
      <4> QED BY <1>5, <1>6, <4>1 DEF ToSet
    <3>2. CASE x \in ToSet(t)
      <4>1. PICK j \in 1..n : t[j] = x
        BY <1>5, <3>2 DEF ToSet
      <4> QED BY <1>5, <1>7, <4>1 DEF ToSet
    <3> QED BY <2>2, <3>1, <3>2
  <2> QED BY <2>1, <2>2
<1>11. Abreast(u, rt)
  BY <1>2, <1>4, <1>5, <1>8 DEF Abreast
<1> QED BY <1>5, <1>9, <1>10, <1>11 DEF n

(* The concatenation of all the sequences of ss, step by step. *)
Flattens(f, ss) == f = [i \in 1..Len(ss) |-> IF i = 1 THEN ss[i] ELSE f[i - 1] \o ss[i]]

LEMMA FlattenRuns ==
    ASSUME NEW ss, Len(ss) \in Nat, Len(ss) > 0
    PROVE  \E f : Flattens(f, ss) /\ FlattenSeq(ss) = f[Len(ss)]
<1> DEFINE N == Len(ss)
           Step(s, i) == IF i = 1 THEN ss[i] ELSE s[i - 1] \o ss[i]
           Upto(s, d) == s = [i \in 1..N |-> s[i]] /\ \A i \in 1..N : i <= d => s[i] = Step(s, i)
           A == {d \in Nat : \E s : Upto(s, d)}
<1> HIDE DEF N
<1>0. N \in Nat
  BY DEF N
<1>1. 0 \in A
  <2> DEFINE s == [i \in 1..N |-> ss]
  <2>1. s = [i \in 1..N |-> s[i]] /\ \A i \in 1..N : ~(i <= 0)
    BY <1>0
  <2> HIDE DEF s
  <2>2. Upto(s, 0)
    BY <2>1
  <2> QED BY <2>2
<1>2. ASSUME NEW d \in Nat, d \in A PROVE d + 1 \in A
  <2>1. PICK s : Upto(s, d)
    BY <1>2
  <2> DEFINE t == [i \in 1..N |-> IF i = d + 1 THEN Step(s, i) ELSE s[i]]
  <2>2. t = [i \in 1..N |-> t[i]] /\ \A i \in 1..N : t[i] = IF i = d + 1 THEN Step(s, i) ELSE s[i]
    OBVIOUS
  <2> HIDE DEF t
  <2>3. ASSUME NEW i \in 1..N, i <= d + 1 PROVE t[i] = Step(t, i)
    <3>1. i # 1 => i - 1 \in 1..N /\ i - 1 # d + 1
      BY <1>0, <2>3
    <3>2. i # 1 => t[i - 1] = s[i - 1]
      BY <2>2, <3>1
    <3>3. Step(t, i) = Step(s, i)
      BY <3>2
    <3>4. t[i] = Step(s, i)
      <4>1. i # d + 1 => i <= d
        BY <1>0, <2>3
      <4> HIDE DEF Step
      <4> QED BY <2>1, <2>2, <4>1
    <3> QED BY <3>3, <3>4
  <2>4. Upto(t, d + 1)
    BY <2>2, <2>3
  <2> HIDE DEF Upto
  <2> QED BY <2>4
<1> HIDE DEF A
<1>3. N \in A
  BY <1>0, <1>1, <1>2, NatInductionOn
<1>4. PICK s : Upto(s, N)
  BY <1>3 DEF A
<1>5. Flattens(s, ss)
  <2>1. \A i \in 1..N : i <= N
    BY <1>0
  <2>2. \A i \in 1..N : s[i] = Step(s, i)
    <3> HIDE DEF Step
    <3> QED BY <1>4, <2>1
  <2> QED BY <1>4, <2>2 DEF Flattens, N
<1> DEFINE c == CHOOSE c : Flattens(c, ss)
<1>6. Flattens(c, ss)
  BY <1>5
<1>7. FlattenSeq(ss) = c[Len(ss)]
  <2>1. Len(ss) # 0
    OBVIOUS
  <2> QED BY <2>1, Zenon DEF FlattenSeq, Flattens
<1> QED BY <1>6, <1>7

(* Rows side by side make one row of all their nodes. *)
SideBySide(ss, rt) ==
    /\ Len(ss) \in Nat /\ Len(ss) > 0
    /\ \A i \in 1..Len(ss) : Abreast(ss[i], rt)
    /\ \A i \in 1..Len(ss) : i < Len(ss) => Meet(rt[ss[i][Len(ss[i])]], rt[ss[i + 1][1]])

LEMMA AbreastFlat ==
    ASSUME NEW rt, NEW ss, SideBySide(ss, rt)
    PROVE  Abreast(FlattenSeq(ss), rt) /\ ToSet(FlattenSeq(ss)) = UNION {ToSet(ss[i]) : i \in 1..Len(ss)}
<1> DEFINE N == Len(ss)
<1>0. /\ N \in Nat /\ N > 0 /\ \A i \in 1..N : Abreast(ss[i], rt)
      /\ \A i \in 1..N : i < N => Meet(rt[ss[i][Len(ss[i])]], rt[ss[i + 1][1]])
  BY DEF SideBySide
<1>1. PICK f : Flattens(f, ss) /\ FlattenSeq(ss) = f[N]
  BY <1>0, FlattenRuns
<1>2. f = [i \in 1..N |-> IF i = 1 THEN ss[i] ELSE f[i - 1] \o ss[i]]
  BY <1>1 DEF Flattens
<1>3. \A i \in 1..N : f[i] = IF i = 1 THEN ss[i] ELSE f[i - 1] \o ss[i]
  BY <1>2
<1> HIDE DEF N
<1> DEFINE All(i) == UNION {ToSet(ss[j]) : j \in 1..i}
           Good(i) == Abreast(f[i], rt) /\ f[i][Len(f[i])] = ss[i][Len(ss[i])] /\ ToSet(f[i]) = All(i)
           A == {d \in Nat : d < N => Good(d + 1)}
<1>4. 0 \in A
  <2>1. 1 \in 1..N /\ 0 + 1 = 1 /\ 1..1 = {1}
    BY <1>0
  <2>2. f[1] = ss[1] /\ All(1) = ToSet(ss[1])
    BY <1>3, <2>1
  <2>3. Good(1)
    BY <1>0, <2>1, <2>2
  <2> HIDE DEF Good
  <2> QED BY <2>1, <2>3
<1>5. ASSUME NEW d \in Nat, d \in A PROVE d + 1 \in A
  <2>0. ASSUME d + 1 < N PROVE Good((d + 1) + 1)
    <3> DEFINE i == d + 1
    <3>1. i \in 1..N /\ i < N /\ i + 1 \in 1..N /\ i + 1 # 1 /\ (i + 1) - 1 = i /\ i \in Nat /\ d < N
      BY <1>0, <2>0
    <3>2. Abreast(f[i], rt) /\ f[i][Len(f[i])] = ss[i][Len(ss[i])] /\ ToSet(f[i]) = All(i)
      BY <1>5, <3>1
    <3> HIDE DEF i
    <3> DEFINE s == f[i]
               t == ss[i + 1]
               u == f[i + 1]
    <3>3. Abreast(t, rt) /\ Meet(rt[s[Len(s)]], rt[t[1]])
      BY <1>0, <3>1, <3>2
    <3>4. u = s \o t
      BY <1>3, <3>1
    <3>5. Abreast(s, rt)
      BY <3>2
    <3> HIDE DEF s, t, u
    <3>6. Abreast(u, rt) /\ u[Len(u)] = t[Len(t)] /\ ToSet(u) = ToSet(s) \cup ToSet(t)
      <4>1. Joining(u, s, t, rt)
        BY <3>3, <3>4, <3>5 DEF Joining
      <4> QED BY <4>1, AbreastJoin
    <3>7. ToSet(s) \cup ToSet(t) = All(i + 1)
      <4>1. 1..i + 1 = 1..i \cup {i + 1}
        BY <3>1
      <4>2. All(i + 1) = All(i) \cup ToSet(ss[i + 1])
        BY <4>1
      <4> QED BY <3>2, <4>2 DEF s, t
    <3>8. Good(i + 1)
      BY <3>6, <3>7 DEF t, u
    <3> QED BY <3>8 DEF i
  <2>1. d + 1 \in Nat
    OBVIOUS
  <2> HIDE DEF Good
  <2> QED BY <2>0, <2>1
<1> HIDE DEF A
<1>6. N - 1 \in A
  <2>1. N - 1 \in Nat
    BY <1>0
  <2> QED BY <1>4, <1>5, <2>1, NatInductionOn
<1>7. (N - 1) + 1 = N /\ N - 1 < N /\ N - 1 \in Nat
  BY <1>0
<1>8. Good(N)
  <2> HIDE DEF Good
  <2> QED BY <1>6, <1>7 DEF A
<1> QED BY <1>1, <1>8 DEF N

---------------------------------------------------------------------------
(* The nodes at one depth *)

LEMMA KidsAbreast ==
    ASSUME NEW n, NodeOK(n), NEW rt, rt \in Reach, NEW S, S \in Intervals, Routes(n, S, rt)
    PROVE  Abreast(n.kids, rt)
<1>1. /\ n.kids \in Seq(Index) /\ Len(n.keys) \in Nat /\ Len(n.kids) = Len(n.keys) + 1
      /\ \A i \in 1..Len(n.keys) : n.keys[i] \in Nat
      /\ \A i \in 1..Len(n.keys) + 1 : n.kids[i] \in Nat
  BY NodeLists DEF Index
<1>2. ASSUME NEW j \in 1..Len(n.kids), j < Len(n.kids) PROVE Meet(rt[n.kids[j]], rt[n.kids[j + 1]])
  <2>1. j \in 1..Len(n.keys) /\ j \in 1..Len(n.keys) + 1 /\ j + 1 \in 1..Len(n.keys) + 1
    BY <1>1, <1>2
  <2>2. rt[n.kids[j]] \subseteq Nat /\ rt[n.kids[j + 1]] \subseteq Nat
    BY <1>1, <2>1, ReachFacts
  <2>3. Parts(rt[n.kids[j]], rt[n.kids[j + 1]], n.keys[j])
    BY <2>1 DEF Routes
  <2>4. Abut(rt[n.kids[j]], rt[n.kids[j + 1]])
    BY <2>1, KidsAbut
  <2> QED BY <1>1, <2>1, <2>2, <2>3, <2>4, HalvesMeet
<1>3. Len(n.kids) > 0
  BY <1>1
<1> QED BY <1>1, <1>2, <1>3 DEF Abreast

(* The greatest key goes down the right edge, the least down the left one. *)
LEMMA GreatestGoesLast ==
    ASSUME NEW n, NodeOK(n), NEW S, S \subseteq Nat, NEW seen, Routes(n, S, seen),
           NEW e, e \in S, \A a \in S : a <= e
    PROVE  e \in seen[n.kids[Len(n.kids)]]
<1>1. PICK c \in ToSet(n.kids) : e \in seen[c]
  BY DEF Routes
<1>2. PICK x \in 1..Len(n.keys) + 1 : c = n.kids[x]
  BY <1>1, NodeLists DEF ToSet
<1>3. Len(n.keys) \in Nat /\ Len(n.kids) = Len(n.keys) + 1
  BY NodeLists
<1>4. CASE x = Len(n.keys) + 1
  BY <1>1, <1>2, <1>3, <1>4
<1>5. CASE x # Len(n.keys) + 1
  <2>1. x \in 1..Len(n.keys) /\ x + 1 \in 1..Len(n.keys) + 1
    BY <1>2, <1>3, <1>5
  <2>2. Parts(seen[n.kids[x]], seen[n.kids[x + 1]], n.keys[x])
    BY <2>1 DEF Routes
  <2>3. PICK b \in seen[n.kids[x + 1]] : n.keys[x] <= b
    BY <2>2 DEF Parts
  <2>4. b \in S /\ b \in Nat /\ n.keys[x] \in Nat /\ e \in Nat
    BY <2>1, <2>3, RoutesIn, NodeLists
  <2>5. e < n.keys[x] /\ b <= e
    BY <1>1, <1>2, <2>2, <2>4 DEF Parts
  <2> QED BY <2>3, <2>4, <2>5
<1> QED BY <1>4, <1>5

LEMMA LeastGoesFirst ==
    ASSUME NEW n, NodeOK(n), NEW S, S \subseteq Nat, NEW seen, Routes(n, S, seen),
           NEW e, e \in S, \A a \in S : e <= a
    PROVE  e \in seen[n.kids[1]]
<1>1. PICK c \in ToSet(n.kids) : e \in seen[c]
  BY DEF Routes
<1>2. PICK x \in 1..Len(n.keys) + 1 : c = n.kids[x]
  BY <1>1, NodeLists DEF ToSet
<1>3. CASE x = 1
  BY <1>1, <1>2, <1>3
<1>4. CASE x # 1
  <2>1. x - 1 \in 1..Len(n.keys) /\ x - 1 \in 1..Len(n.keys) + 1 /\ x = (x - 1) + 1 /\ Len(n.keys) \in Nat
    BY <1>2, <1>4, NodeLists
  <2>2. Parts(seen[n.kids[x - 1]], seen[n.kids[x]], n.keys[x - 1])
    BY <2>1 DEF Routes
  <2>3. PICK a \in seen[n.kids[x - 1]] : a < n.keys[x - 1]
    BY <2>2 DEF Parts
  <2>4. a \in S /\ a \in Nat /\ n.keys[x - 1] \in Nat /\ e \in Nat
    BY <2>1, <2>3, RoutesIn, NodeLists
  <2>5. n.keys[x - 1] <= e /\ e <= a
    BY <1>1, <1>2, <2>2, <2>4 DEF Parts
  <2> QED BY <2>3, <2>4, <2>5
<1> QED BY <1>3, <1>4

(* Across two parents. *)
LEMMA CousinsMeet ==
    ASSUME NEW m, NodeOK(m), NEW n, NodeOK(n), NEW rt, NEW A, NEW B, A \subseteq Nat, B \subseteq Nat,
           Routes(m, A, rt), Routes(n, B, rt), Meet(A, B)
    PROVE  Meet(rt[m.kids[Len(m.kids)]], rt[n.kids[1]])
<1>1. PICK e \in A : e \in Nat /\ e + 1 \in B /\ (\A a \in A : a <= e) /\ (\A b \in B : e + 1 <= b)
  BY DEF Meet
<1>2. e \in rt[m.kids[Len(m.kids)]]
  BY <1>1, GreatestGoesLast
<1>3. e + 1 \in rt[n.kids[1]]
  BY <1>1, LeastGoesFirst
<1>4. rt[m.kids[Len(m.kids)]] \subseteq A /\ rt[n.kids[1]] \subseteq B
  <2>1. Len(m.kids) \in 1..Len(m.keys) + 1 /\ 1 \in 1..Len(n.keys) + 1
    BY NodeLists
  <2> QED BY <2>1, RoutesIn
<1> QED BY <1>1, <1>2, <1>3, <1>4 DEF Meet

(* The kids of a row's nodes, in a row. *)
KidRows(in, s) == [m \in DOMAIN s |-> in[s[m]].kids]

LEMMA KidsInRow ==
    ASSUME NEW in, NEW lf, NEW rt, Sorted(in, lf, rt, rt), \A x \in DOMAIN in : x \in Nat /\ NodeOK(in[x]),
           NEW s, Abreast(s, rt), \A x \in ToSet(s) : x \in DOMAIN in
    PROVE  /\ Abreast(FlattenSeq(KidRows(in, s)), rt)
           /\ ToSet(FlattenSeq(KidRows(in, s))) = UNION {ToSet(in[x].kids) : x \in ToSet(s)}
<1> DEFINE ss == KidRows(in, s)
<1>1. s \in Seq(Index) /\ Len(s) \in Nat /\ Len(s) > 0 /\ DOMAIN s = 1..Len(s)
  BY Positions DEF Abreast
<1>2. ASSUME NEW i \in 1..Len(s)
      PROVE  /\ s[i] \in DOMAIN in /\ s[i] \in Nat /\ NodeOK(in[s[i]]) /\ Routes(in[s[i]], rt[s[i]], rt)
             /\ rt[s[i]] \in Intervals /\ rt[s[i]] \subseteq Nat
  <2>1. s[i] \in DOMAIN in /\ s[i] \in Nat /\ NodeOK(in[s[i]])
    BY <1>1 DEF ToSet
  <2> QED BY <2>1, ReachFacts DEF Sorted
<1>3. ss = [i \in 1..Len(s) |-> in[s[i]].kids] /\ \A i \in 1..Len(s) : ss[i] = in[s[i]].kids
  BY <1>1 DEF KidRows
<1> HIDE DEF ss
<1>4. Len(ss) = Len(s)
  <2>1. \A i \in 1..Len(s) : in[s[i]].kids \in Seq(Index)
    BY <1>2 DEF NodeOK
  <2>2. ss \in [1..Len(s) -> Seq(Index)]
    BY <1>3, <2>1
  <2>3. ss \in Seq(Seq(Index))
    BY <1>1, <2>2
  <2> QED BY <1>1, <2>2, <2>3, LenProperties
<1>5. ASSUME NEW i \in 1..Len(ss) PROVE Abreast(ss[i], rt)
  <2>1. Abreast(in[s[i]].kids, rt)
    BY <1>2, <1>4, KidsAbreast DEF Sorted
  <2> QED BY <1>3, <1>4, <2>1
<1>6. ASSUME NEW i \in 1..Len(ss), i < Len(ss) PROVE Meet(rt[ss[i][Len(ss[i])]], rt[ss[i + 1][1]])
  <2>1. i \in 1..Len(s) /\ i + 1 \in 1..Len(s) /\ i < Len(s)
    BY <1>1, <1>4, <1>6
  <2>2. Meet(rt[s[i]], rt[s[i + 1]])
    BY <2>1 DEF Abreast
  <2> DEFINE m == in[s[i]]
             n == in[s[i + 1]]
             A == rt[s[i]]
             B == rt[s[i + 1]]
  <2>3. NodeOK(m) /\ NodeOK(n) /\ A \subseteq Nat /\ B \subseteq Nat /\ Routes(m, A, rt) /\ Routes(n, B, rt) /\ Meet(A, B)
    BY <1>2, <2>1, <2>2
  <2>4. ss[i] = m.kids /\ ss[i + 1] = n.kids
    BY <1>3, <2>1
  <2> HIDE DEF m, n, A, B
  <2>5. Meet(rt[m.kids[Len(m.kids)]], rt[n.kids[1]])
    BY <2>3, CousinsMeet
  <2> QED BY <2>4, <2>5
<1>7. SideBySide(ss, rt)
  BY <1>1, <1>4, <1>5, <1>6 DEF SideBySide
<1>8. Abreast(FlattenSeq(ss), rt) /\ ToSet(FlattenSeq(ss)) = UNION {ToSet(ss[i]) : i \in 1..Len(ss)}
  BY <1>7, AbreastFlat
<1>9. UNION {ToSet(ss[i]) : i \in 1..Len(ss)} = UNION {ToSet(in[x].kids) : x \in ToSet(s)}
  <2>1. ToSet(s) = {s[i] : i \in 1..Len(s)}
    BY <1>1 DEF ToSet
  <2>2. \A i \in 1..Len(s) : ToSet(ss[i]) = ToSet(in[s[i]].kids)
    BY <1>3
  <2>3. \A z : (\E i \in 1..Len(s) : z \in ToSet(ss[i])) <=> (\E x \in ToSet(s) : z \in ToSet(in[x].kids))
    BY <2>1, <2>2
  <2> QED BY <1>4, <2>3
<1> QED BY <1>8, <1>9 DEF ss

(* The rows, from the root down. *)
RowRun(s, i) ==
    s = [j \in 1..i |-> IF j = 1 THEN <<root>> ELSE FlattenSeq([m \in DOMAIN s[j - 1] |-> inner[s[j - 1][m]].kids])]

LEMMA RowRuns ==
    ASSUME NEW i, i \in Nat
    PROVE  \E s : RowRun(s, i) /\ Row(i) = s[i]
<1> DEFINE Step(s, j) == IF j = 1 THEN <<root>> ELSE FlattenSeq([m \in DOMAIN s[j - 1] |-> inner[s[j - 1][m]].kids])
           Upto(s, d) == s = [j \in 1..i |-> s[j]] /\ \A j \in 1..i : j <= d => s[j] = Step(s, j)
           A == {d \in Nat : \E s : Upto(s, d)}
<1>1. 0 \in A
  <2> DEFINE s == [j \in 1..i |-> root]
  <2>1. s = [j \in 1..i |-> s[j]] /\ \A j \in 1..i : ~(j <= 0)
    OBVIOUS
  <2> HIDE DEF s
  <2>2. Upto(s, 0)
    BY <2>1
  <2> QED BY <2>2
<1>2. ASSUME NEW d \in Nat, d \in A PROVE d + 1 \in A
  <2>1. PICK s : Upto(s, d)
    BY <1>2
  <2> DEFINE t == [j \in 1..i |-> IF j = d + 1 THEN Step(s, j) ELSE s[j]]
  <2>2. t = [j \in 1..i |-> t[j]] /\ \A j \in 1..i : t[j] = IF j = d + 1 THEN Step(s, j) ELSE s[j]
    OBVIOUS
  <2> HIDE DEF t
  <2>3. ASSUME NEW j \in 1..i, j <= d + 1 PROVE t[j] = Step(t, j)
    <3>1. j # 1 => j - 1 \in 1..i /\ j - 1 # d + 1
      BY <2>3
    <3>2. j # 1 => t[j - 1] = s[j - 1]
      BY <2>2, <3>1
    <3>3. Step(t, j) = Step(s, j)
      BY <3>2
    <3>4. t[j] = Step(s, j)
      <4>1. j # d + 1 => j <= d
        BY <2>3
      <4> HIDE DEF Step
      <4> QED BY <2>1, <2>2, <4>1
    <3> QED BY <3>3, <3>4
  <2>4. Upto(t, d + 1)
    BY <2>2, <2>3
  <2> HIDE DEF Upto
  <2> QED BY <2>4
<1> HIDE DEF A
<1>3. i \in A
  BY <1>1, <1>2, NatInductionOn
<1>4. PICK s : Upto(s, i)
  BY <1>3 DEF A
<1>5. RowRun(s, i)
  <2>1. \A j \in 1..i : j <= i
    OBVIOUS
  <2>2. \A j \in 1..i : s[j] = Step(s, j)
    <3> HIDE DEF Step
    <3> QED BY <1>4, <2>1
  <2> QED BY <1>4, <2>2 DEF RowRun
<1> DEFINE c == CHOOSE c : RowRun(c, i)
<1>6. RowRun(c, i)
  BY <1>5
<1>7. Row(i) = c[i]
  BY Zenon DEF Row, RowRun
<1> QED BY <1>6, <1>7

LEMMA RowIsLevel ==
    ASSUME NEW lv, NEW up, Forest(inner, DOMAIN leaf, {root}, height, lv, up), lv[root] = height, height # 0,
           Structure, NEW rt, Sorted(inner, leaf, rt, rt)
    PROVE  Abreast(Row(height), rt) /\ ToSet(Row(height)) = DOMAIN leaf
<1>0. height \in Nat /\ height > 0 /\ root \in Nat /\ \A x \in DOMAIN inner : x \in Nat /\ NodeOK(inner[x])
  <2>1. root \in Nat
    BY ForestFacts
  <2> QED BY <2>1 DEF Structure, Sized
<1>1. PICK s : RowRun(s, height) /\ Row(height) = s[height]
  BY <1>0, RowRuns
<1>2. \A j \in 1..height : s[j] = IF j = 1 THEN <<root>> ELSE FlattenSeq(KidRows(inner, s[j - 1]))
  <2>1. s = [j \in 1..height |-> IF j = 1 THEN <<root>>
                                 ELSE FlattenSeq([m \in DOMAIN s[j - 1] |-> inner[s[j - 1][m]].kids])]
    BY <1>1 DEF RowRun
  <2> QED BY <2>1 DEF KidRows
<1> DEFINE Good(j) == Abreast(s[j], rt) /\ ToSet(s[j]) = AtDepth(lv, j)
           A == {d \in Nat : d < height => Good(d + 1)}
<1>3. 0 \in A
  <2>1. 1 \in 1..height /\ 0 + 1 = 1
    BY <1>0
  <2>2. s[1] = <<root>> /\ AtDepth(lv, 1) = {root}
    BY <1>2, <2>1, LevelBelow
  <2>3. <<root>> \in Seq(Index) /\ Len(<<root>>) = 1 /\ ToSet(<<root>>) = {root}
    BY <1>0 DEF ToSet, Index
  <2>4. Abreast(<<root>>, rt)
    <3>1. \A j \in 1..1 : ~(j < 1)
      OBVIOUS
    <3> QED BY <2>3, <3>1 DEF Abreast
  <2>5. Good(1)
    BY <2>2, <2>3, <2>4
  <2> HIDE DEF Good
  <2> QED BY <2>1, <2>5
<1>4. ASSUME NEW d \in Nat, d \in A PROVE d + 1 \in A
  <2>0. ASSUME d + 1 < height PROVE Good((d + 1) + 1)
    <3> DEFINE j == d + 1
    <3>1. /\ j \in 1..height /\ j + 1 \in 1..height /\ j + 1 # 1 /\ (j + 1) - 1 = j /\ j \in Nat /\ d < height
          /\ height - j + 1 >= 2
      BY <1>0, <2>0
    <3>2. Abreast(s[j], rt) /\ ToSet(s[j]) = AtDepth(lv, j)
      BY <1>4, <3>1
    <3> HIDE DEF j
    <3>3. s[j + 1] = FlattenSeq(KidRows(inner, s[j]))
      BY <1>2, <3>1
    <3>4. \A x \in AtDepth(lv, j) : x \in DOMAIN inner
      <4>1. \A n \in DOMAIN leaf : lv[n] = 1
        BY DEF Forest, Levels
      <4> QED BY <3>1, <4>1 DEF AtDepth, Live
    <3> DEFINE r == s[j]
    <3>5. Abreast(r, rt) /\ \A x \in ToSet(r) : x \in DOMAIN inner
      BY <3>2, <3>4
    <3> HIDE DEF r
    <3>6. /\ Abreast(FlattenSeq(KidRows(inner, r)), rt)
          /\ ToSet(FlattenSeq(KidRows(inner, r))) = UNION {ToSet(inner[x].kids) : x \in ToSet(r)}
      BY <1>0, <3>5, KidsInRow
    <3>7. AtDepth(lv, j + 1) = UNION {Range(inner[n].kids) : n \in AtDepth(lv, j)}
      BY <3>1, LevelBelow
    <3>8. \A n : Range(inner[n].kids) = ToSet(inner[n].kids)
      BY DEF Range, ToSet
    <3>9. UNION {ToSet(inner[x].kids) : x \in ToSet(r)} = AtDepth(lv, j + 1)
      BY <3>2, <3>7, <3>8 DEF r
    <3>10. Good(j + 1)
      BY <3>3, <3>6, <3>9 DEF r
    <3> QED BY <3>10 DEF j
  <2>1. d + 1 \in Nat
    OBVIOUS
  <2> HIDE DEF Good
  <2> QED BY <2>0, <2>1
<1> HIDE DEF A
<1>5. height - 1 \in A
  <2>1. height - 1 \in Nat
    BY <1>0
  <2> QED BY <1>3, <1>4, <2>1, NatInductionOn
<1>6. (height - 1) + 1 = height /\ height - 1 < height
  BY <1>0
<1>7. Good(height)
  <2> HIDE DEF Good
  <2> QED BY <1>5, <1>6 DEF A
<1>8. AtDepth(lv, height) = DOMAIN leaf
  <2>1. height - height + 1 = 1
    BY <1>0
  <2>2. \A n \in Live : lv[n] = 1 <=> n \in DOMAIN leaf
    BY ForestFacts DEF Forest, Levels, Live
  <2> QED BY <2>1, <2>2 DEF AtDepth, Live
<1> QED BY <1>1, <1>7, <1>8

---------------------------------------------------------------------------
(* In a row each node's keys lie below those of every later one. *)
LEMMA AbreastAscends ==
    ASSUME NEW rt, rt \in Reach, NEW s, Abreast(s, rt), NEW a \in 1..Len(s), NEW b \in 1..Len(s), a < b,
           NEW x \in rt[s[a]], NEW y \in rt[s[b]]
    PROVE  x < y
<1> DEFINE N == Len(s)
           Beneath(d) == \A z \in rt[s[a + d + 1]] : x < z
           A == {d \in Nat : a + d + 1 <= N => Beneath(d)}
<1>1. N \in Nat /\ s \in Seq(Index) /\ \A j \in 1..N : j < N => Meet(rt[s[j]], rt[s[j + 1]])
  BY Positions DEF Abreast
<1>2. \A j \in 1..N : rt[s[j]] \subseteq Nat
  <2> SUFFICES ASSUME NEW j \in 1..N PROVE rt[s[j]] \subseteq Nat
    OBVIOUS
  <2>1. s[j] \in Nat
    BY <1>1, Positions DEF Index
  <2> QED BY <2>1 DEF Reach, Intervals
<1> HIDE DEF N
<1>3. a \in 1..N /\ b \in 1..N
  BY DEF N
<1>4. 0 \in A
  <2> SUFFICES ASSUME a + 0 + 1 <= N, NEW z \in rt[s[a + 0 + 1]] PROVE x < z
    OBVIOUS
  <2>1. a < N /\ a + 0 + 1 = a + 1 /\ a + 1 \in 1..N
    BY <1>1, <1>3
  <2>2. PICK e \in rt[s[a]] : e \in Nat /\ (\A u \in rt[s[a]] : u <= e) /\ (\A u \in rt[s[a + 1]] : e + 1 <= u)
    BY <1>1, <1>3, <2>1 DEF Meet
  <2>3. x \in Nat /\ z \in Nat /\ x <= e /\ e + 1 <= z
    BY <1>2, <1>3, <2>1, <2>2
  <2> QED BY <2>2, <2>3
<1>5. ASSUME NEW d \in Nat, d \in A PROVE d + 1 \in A
  <2> SUFFICES ASSUME a + (d + 1) + 1 <= N, NEW z \in rt[s[a + (d + 1) + 1]] PROVE x < z
    OBVIOUS
  <2> DEFINE j == a + d + 1
  <2>1. j \in 1..N /\ j < N /\ a + (d + 1) + 1 = j + 1 /\ j + 1 \in 1..N /\ j <= N
    BY <1>1, <1>3
  <2>2. Beneath(d)
    BY <1>5, <2>1
  <2>3. \A u \in rt[s[j]] : x < u
    BY <2>2
  <2> HIDE DEF j
  <2>4. PICK e \in rt[s[j]] : e \in Nat /\ (\A u \in rt[s[j + 1]] : e + 1 <= u)
    BY <1>1, <2>1 DEF Meet
  <2>5. x \in Nat /\ z \in Nat /\ x < e /\ e + 1 <= z
    BY <1>2, <1>3, <2>1, <2>3, <2>4
  <2> QED BY <2>4, <2>5
<1> HIDE DEF A
<1>6. b - a - 1 \in A
  <2>1. b - a - 1 \in Nat
    BY <1>1, <1>3
  <2> QED BY <2>1, <1>4, <1>5, NatInductionOn
<1>7. a + (b - a - 1) + 1 = b /\ b <= N
  BY <1>1, <1>3
<1>8. Beneath(b - a - 1)
  BY <1>6, <1>7 DEF A
<1> QED BY <1>7, <1>8

(* The rows as the leaves see them. *)
InRow(row, rt) ==
    /\ row \in Seq(Index) /\ Len(row) \in Nat /\ Len(row) > 0 /\ DOMAIN row = 1..Len(row)
    /\ DOMAIN leaf = {row[i] : i \in 1..Len(row)}
    /\ rt \in Reach /\ Sorted(inner, leaf, rt, rt) /\ rt[root] = Nat /\ Abreast(row, rt)

LEMMA LeavesInRow ==
    ASSUME SearchInv, height > 0
    PROVE  \E rt : InRow(Row(height), rt)
<1> DEFINE row == Row(height)
           N == Len(row)
<1>1. Structure /\ height # 0 /\ AtRest(inner, leaf, root)
  BY DEF SearchInv, SearchRests, Structure
<1>2. PICK rt : Sorted(inner, leaf, rt, rt) /\ rt[root] = Nat
  BY <1>1 DEF AtRest
<1>3. PICK lv, up : Forest(inner, DOMAIN leaf, {root}, height, lv, up) /\ lv[root] = height
  BY <1>1 DEF Structure, Settled
<1>4. Abreast(row, rt) /\ ToSet(row) = DOMAIN leaf
  BY <1>1, <1>2, <1>3, RowIsLevel
<1> HIDE DEF row
<1>5. row \in Seq(Index) /\ N \in Nat /\ N > 0 /\ DOMAIN row = 1..N /\ DOMAIN leaf = {row[i] : i \in 1..N}
  BY <1>4, Positions DEF Abreast, ToSet
<1>6. rt \in Reach
  BY <1>2 DEF Sorted
<1> QED BY <1>2, <1>4, <1>5, <1>6 DEF InRow, row

LEMMA ChainIsRow ==
    ASSUME ChainInv
    PROVE  ChainIsLeafRow
<1> SUFFICES ASSUME height > 0 PROVE ChainIsLeafRow
  BY DEF ChainIsLeafRow
<1> DEFINE row == Row(height)
           N == Len(row)
<1>1. height # 0 /\ Ends(leaf, leftmost, rightmost) /\ 0 \notin DOMAIN leaf
  BY DEF ChainInv, SearchInv, Tied, Structure
<1>2. PICK rt : InRow(row, rt)
  BY LeavesInRow DEF ChainInv
<1> HIDE DEF row
<1>5. row \in Seq(Index) /\ N \in Nat /\ N > 0 /\ DOMAIN row = 1..N /\ DOMAIN leaf = {row[i] : i \in 1..N}
  BY <1>2 DEF InRow
<1> HIDE DEF N
<1>6. ASSUME NEW i \in 1..N, i < N PROVE leaf[row[i]].next = row[i + 1]
  <2>1. i + 1 \in 1..N
    BY <1>5, <1>6
  <2>2. row[i] \in DOMAIN leaf /\ row[i + 1] \in DOMAIN leaf
    BY <1>5, <2>1
  <2>3. Meet(rt[row[i]], rt[row[i + 1]])
    BY <1>2, <1>6 DEF InRow, Abreast, N
  <2>4. Abut(rt[row[i]], rt[row[i + 1]]) /\ row[i] # row[i + 1]
    BY <2>3, MeetFacts
  <2>5. Linked(leaf, rt)
    BY <1>2 DEF InRow, Sorted, Chained
  <2> QED BY <2>2, <2>4, <2>5 DEF Linked
<1>7. leftmost = row[1]
  <2>1. PICK i \in 1..N : leftmost = row[i]
    BY <1>1, <1>5 DEF Ends, Heads
  <2>2. CASE i # 1
    <3>1. i - 1 \in 1..N /\ i - 1 < N /\ (i - 1) + 1 = i
      BY <1>5, <2>2
    <3>2. leaf[row[i - 1]].next = leftmost /\ row[i - 1] \in DOMAIN leaf
      BY <1>5, <1>6, <2>1, <3>1
    <3> QED BY <1>1, <3>2 DEF Ends, Heads
  <2> QED BY <2>1, <2>2
<1>8. rightmost = row[N] /\ leaf[row[N]].next = 0
  <2>1. PICK i \in 1..N : rightmost = row[i]
    BY <1>1, <1>5 DEF Ends
  <2>2. CASE i # N
    <3>1. i < N /\ i + 1 \in 1..N
      BY <1>5, <2>2
    <3>2. leaf[rightmost].next = row[i + 1] /\ row[i + 1] \in DOMAIN leaf
      <4>1. leaf[row[i]].next = row[i + 1]
        BY <1>6, <3>1
      <4> QED BY <1>5, <2>1, <3>1, <4>1
    <3>3. row[i + 1] = 0
      BY <1>1, <3>2 DEF Ends
    <3> QED BY <1>1, <3>2, <3>3
  <2> QED BY <1>1, <2>1, <2>2 DEF Ends
<1>9. Head(row) = row[1] /\ Last(row) = row[N]
  BY <1>5, TailFacts, FrontFacts DEF N
<1>10. \A i \in DOMAIN row : leaf[row[i]].next = IF i = Len(row) THEN 0 ELSE row[i + 1]
  <2>1. ASSUME NEW i \in 1..N PROVE leaf[row[i]].next = IF i = N THEN 0 ELSE row[i + 1]
    <3>1. i # N => i < N
      BY <1>5
    <3>2. i # N => leaf[row[i]].next = row[i + 1]
      BY <1>6, <3>1
    <3> QED BY <1>8, <3>2
  <2>2. N = Len(row) /\ DOMAIN row = 1..N
    BY <1>5 DEF N
  <2> QED BY <2>1, <2>2
<1> QED BY <1>7, <1>8, <1>9, <1>10 DEF ChainIsLeafRow, row

(* The keys of a leaf lie below those of every later one in the row. *)
LEMMA RowAscends ==
    ASSUME SearchInv, height > 0, NEW a \in 1..Len(Row(height)), NEW b \in 1..Len(Row(height)), a < b,
           NEW x \in ToSet(leaf[Row(height)[a]].keys), NEW y \in ToSet(leaf[Row(height)[b]].keys)
    PROVE  x < y
<1> DEFINE row == Row(height)
<1>1. PICK rt : InRow(row, rt)
  BY LeavesInRow
<1>2. a \in 1..Len(row) /\ b \in 1..Len(row) /\ x \in ToSet(leaf[row[a]].keys) /\ y \in ToSet(leaf[row[b]].keys)
  OBVIOUS
<1> HIDE DEF row
<1>3. \A l \in DOMAIN leaf : \A k \in ToSet(leaf[l].keys) : k \in rt[l]
  <2> SUFFICES ASSUME NEW l \in DOMAIN leaf PROVE \A k \in ToSet(leaf[l].keys) : k \in rt[l]
    OBVIOUS
  <2>1. Stores(leaf[l].keys, rt[l])
    BY <1>1 DEF InRow, Sorted
  <2> QED BY <2>1 DEF Stores, ToSet
<1>4. x \in rt[row[a]] /\ y \in rt[row[b]]
  BY <1>1, <1>2, <1>3 DEF InRow
<1> QED BY <1>1, <1>2, <1>4, AbreastAscends DEF InRow

(* Whatever splits, merges, collapses and compaction did to the forward    *)
(* chain, which matching and scans walk, it starts at the leftmost leaf of *)
(* the tree, ends at the rightmost one and skips none (torna.c, the `next' *)
(* links and the header's leftmost and rightmost).                         *)
THEOREM ChainIsLeafRowEver == Spec => []ChainIsLeafRow
<1> QED BY ChainIsRow, ChainInvHolds, PTL

---------------------------------------------------------------------------
(* Scans return the stock between their ends, in order *)

(* Entries in the order of a direction. *)
Listed(s, up) ==
    /\ s \in Seq(Nat \X Val)
    /\ \A i, j \in 1..Len(s) : i < j => Before(s[i][1], s[j][1], up)

(* What s holds at the positions of I. *)
Picked(s, I) == {s[i] : i \in I}

LEMMA ListFacts ==
    ASSUME NEW up, NEW s, Listed(s, up)
    PROVE  /\ Len(s) \in Nat /\ DOMAIN s = 1..Len(s)
           /\ \A i \in 1..Len(s) : s[i] \in Nat \X Val /\ s[i][1] \in Nat
           /\ \A e : e \in ToSet(s) <=> \E i \in 1..Len(s) : s[i] = e
           /\ ToSet(s) = Picked(s, 1..Len(s))
<1>1. /\ Len(s) \in Nat /\ DOMAIN s = 1..Len(s)
      /\ \A i \in 1..Len(s) : s[i] \in Nat \X Val
  BY Positions DEF Listed
<1> QED BY <1>1 DEF ToSet, Picked

LEMMA BeforeOrders ==
    ASSUME NEW up \in BOOLEAN, NEW x \in Nat, NEW y \in Nat
    PROVE  /\ ~Before(x, x, up) /\ (Before(x, y, up) => ~Before(y, x, up))
           /\ \A z \in Nat : Before(x, y, up) /\ Before(y, z, up) => Before(x, z, up)
           /\ \A z \in Nat : Before(x, y, up) => Before(x, z, up) \/ Before(z, y, up)
<1>1. CASE up
  BY <1>1 DEF Before
<1>2. CASE ~up
  BY <1>2 DEF Before
<1> QED BY <1>1, <1>2

(* All entries of t come after those of s. *)
Follows(t, s, up) == \A x \in ToSet(s), y \in ToSet(t) : Before(x[1], y[1], up)

(* u is the list s and then the list t. *)
Joins(u, s, t, up) == u = s \o t /\ Listed(s, up) /\ Listed(t, up) /\ Follows(t, s, up)

LEMMA ListJoin ==
    ASSUME NEW up, NEW s, NEW t, NEW u, Joins(u, s, t, up)
    PROVE  Listed(u, up) /\ ToSet(u) = ToSet(s) \cup ToSet(t)
<1>0. u = s \o t /\ Listed(s, up) /\ Listed(t, up) /\ Follows(t, s, up)
  BY DEF Joins
<1> DEFINE m == Len(s)
           n == Len(t)
           S == Nat \X Val
<1>1. s \in Seq(S) /\ t \in Seq(S)
  BY <1>0 DEF Listed
<1>2. m \in Nat /\ n \in Nat
  BY <1>0, ListFacts
<1>3. /\ u \in Seq(S) /\ Len(u) = m + n
      /\ \A j \in 1..m + n : u[j] = IF j <= m THEN s[j] ELSE t[j - m]
  BY <1>0, <1>1, ConcatFacts
<1>4. ToSet(u) = ToSet(s) \cup ToSet(t)
  BY <1>0, <1>1, ConcatHolds
<1>5. /\ \A i, j \in 1..m : i < j => Before(s[i][1], s[j][1], up)
      /\ \A i, j \in 1..n : i < j => Before(t[i][1], t[j][1], up)
  BY <1>0 DEF Listed
<1>6. \A i \in 1..m, j \in 1..n : Before(s[i][1], t[j][1], up)
  BY <1>0, ListFacts DEF Follows
<1> HIDE DEF m, n, S
<1>7. ASSUME NEW i \in 1..m + n, NEW j \in 1..m + n, i < j PROVE Before(u[i][1], u[j][1], up)
  <2>1. CASE j <= m
    <3>1. i \in 1..m /\ j \in 1..m /\ i <= m
      BY <1>2, <1>7, <2>1
    <3> QED BY <1>3, <1>5, <1>7, <2>1, <3>1
  <2>2. CASE ~(j <= m) /\ i <= m
    <3>1. i \in 1..m /\ j - m \in 1..n
      BY <1>2, <2>2
    <3> QED BY <1>3, <1>6, <2>2, <3>1
  <2>3. CASE ~(i <= m)
    <3>1. i - m \in 1..n /\ j - m \in 1..n /\ i - m < j - m /\ ~(j <= m)
      BY <1>2, <1>7, <2>3
    <3> QED BY <1>3, <1>5, <2>3, <3>1
  <2> QED BY <2>1, <2>2, <2>3
<1>8. u \in Seq(Nat \X Val) /\ Len(u) = m + n
  BY <1>3 DEF S
<1> QED BY <1>4, <1>7, <1>8 DEF Listed

(* Lists each of which comes after the former ones. *)
Batched(ss, up) ==
    /\ Len(ss) \in Nat /\ ss \in Seq(Seq(Nat \X Val))
    /\ \A i \in 1..Len(ss) : Listed(ss[i], up)
    /\ \A i, j \in 1..Len(ss) : i < j => Follows(ss[j], ss[i], up)

LEMMA ListNone ==
    ASSUME NEW up
    PROVE  Listed(<<>>, up) /\ ToSet(<<>>) = {}
<1>1. <<>> \in Seq(Nat \X Val) /\ Len(<<>>) = 0
  OBVIOUS
<1>2. \A i \in 1..0 : FALSE
  OBVIOUS
<1>3. DOMAIN <<>> = 1..0
  OBVIOUS
<1> QED BY <1>1, <1>2, <1>3 DEF Listed, ToSet

LEMMA ListFlat ==
    ASSUME NEW up, NEW ss, Batched(ss, up)
    PROVE  Listed(FlattenSeq(ss), up) /\ ToSet(FlattenSeq(ss)) = UNION {ToSet(ss[i]) : i \in 1..Len(ss)}
<1> DEFINE N == Len(ss)
<1>0. /\ N \in Nat /\ \A i \in 1..N : Listed(ss[i], up)
      /\ \A i, j \in 1..N : i < j => Follows(ss[j], ss[i], up)
  BY DEF Batched
<1>1. CASE N = 0
  <2>1. ss = <<>>
    BY <1>1, EmptySeq DEF Batched
  <2>2. FlattenSeq(ss) = <<>>
    BY <1>1, <2>1 DEF FlattenSeq
  <2>3. {ToSet(ss[i]) : i \in 1..N} = {}
    BY <1>1
  <2> QED BY <2>2, <2>3, ListNone
<1>2. CASE N > 0
  <2>1. PICK f : Flattens(f, ss) /\ FlattenSeq(ss) = f[N]
    BY <1>0, <1>2, FlattenRuns
  <2>2. f = [i \in 1..N |-> IF i = 1 THEN ss[i] ELSE f[i - 1] \o ss[i]]
    BY <2>1 DEF Flattens
  <2>3. \A i \in 1..N : f[i] = IF i = 1 THEN ss[i] ELSE f[i - 1] \o ss[i]
    BY <2>2
  <2> HIDE DEF N
  <2> DEFINE All(i) == UNION {ToSet(ss[j]) : j \in 1..i}
             Good(i) == Listed(f[i], up) /\ ToSet(f[i]) = All(i)
             A == {d \in Nat : d < N => Good(d + 1)}
  <2>4. 0 \in A
    <3>1. 1 \in 1..N /\ 0 + 1 = 1 /\ 1..1 = {1}
      BY <1>0, <1>2
    <3>2. f[1] = ss[1] /\ All(1) = ToSet(ss[1])
      BY <2>3, <3>1
    <3>3. Good(1)
      BY <1>0, <3>1, <3>2
    <3> HIDE DEF Good
    <3> QED BY <3>1, <3>3
  <2>5. ASSUME NEW d \in Nat, d \in A PROVE d + 1 \in A
    <3>0. ASSUME d + 1 < N PROVE Good((d + 1) + 1)
      <4> DEFINE i == d + 1
      <4>1. i \in 1..N /\ i < N /\ i + 1 \in 1..N /\ i + 1 # 1 /\ (i + 1) - 1 = i /\ i \in Nat /\ d < N
        BY <1>0, <3>0
      <4>2. Listed(f[i], up) /\ ToSet(f[i]) = All(i)
        BY <2>5, <4>1
      <4> HIDE DEF i
      <4> DEFINE s == f[i]
                 t == ss[i + 1]
                 u == f[i + 1]
      <4>3. Listed(t, up) /\ u = s \o t
        BY <1>0, <2>3, <4>1
      <4>4. Follows(t, s, up)
        <5>1. \A j \in 1..i : j \in 1..N /\ j < i + 1
          BY <1>0, <4>1
        <5>2. \A j \in 1..i : Follows(t, ss[j], up)
          BY <1>0, <4>1, <5>1
        <5> QED BY <4>2, <5>2 DEF Follows
      <4>5. Listed(s, up)
        BY <4>2
      <4> HIDE DEF s, t, u
      <4>6. Listed(u, up) /\ ToSet(u) = ToSet(s) \cup ToSet(t)
        <5>1. Joins(u, s, t, up)
          BY <4>3, <4>4, <4>5 DEF Joins
        <5> QED BY <5>1, ListJoin
      <4>7. ToSet(s) \cup ToSet(t) = All(i + 1)
        <5>1. 1..i + 1 = 1..i \cup {i + 1}
          BY <4>1
        <5>2. All(i + 1) = All(i) \cup ToSet(ss[i + 1])
          BY <5>1
        <5> QED BY <4>2, <5>2 DEF s, t
      <4>8. Good(i + 1)
        BY <4>6, <4>7 DEF u
      <4> QED BY <4>8 DEF i
    <3>1. d + 1 \in Nat
      OBVIOUS
    <3> HIDE DEF Good
    <3> QED BY <3>0, <3>1
  <2> HIDE DEF A
  <2>6. N - 1 \in A
    <3>1. N - 1 \in Nat
      BY <1>0, <1>2
    <3> QED BY <2>4, <2>5, <3>1, NatInductionOn
  <2>7. (N - 1) + 1 = N /\ N - 1 < N /\ N - 1 \in Nat
    BY <1>0, <1>2
  <2>8. Good(N)
    <3> HIDE DEF Good
    <3> QED BY <2>6, <2>7 DEF A
  <2> QED BY <2>1, <2>8 DEF N
<1> QED BY <1>0, <1>1, <1>2

LEMMA ListReverse ==
    ASSUME NEW s, Listed(s, TRUE)
    PROVE  Listed(Reverse(s), FALSE) /\ ToSet(Reverse(s)) = ToSet(s)
<1> DEFINE N == Len(s)
           r == Reverse(s)
<1>1. /\ N \in Nat /\ \A i \in 1..N : s[i] \in Nat \X Val /\ s[i][1] \in Nat
      /\ ToSet(s) = Picked(s, 1..N)
  BY ListFacts
<1>2. r = [i \in 1..N |-> s[(N - i) + 1]]
  BY DEF Reverse
<1>3. \A i, j \in 1..N : i < j => s[i][1] < s[j][1]
  BY DEF Listed, Before
<1> HIDE DEF N, r
<1>4. \A i \in 1..N : (N - i) + 1 \in 1..N /\ (N - ((N - i) + 1)) + 1 = i
  BY <1>1
<1>5. r \in Seq(Nat \X Val) /\ Len(r) = N /\ DOMAIN r = 1..N
  <2>1. r \in [1..N -> Nat \X Val]
    BY <1>1, <1>2, <1>4
  <2> QED BY <1>1, <2>1, LenProperties, SeqDef
<1>6. \A i \in 1..N : r[i] = s[(N - i) + 1]
  BY <1>2
<1>7. ASSUME NEW i \in 1..N, NEW j \in 1..N, i < j PROVE Before(r[i][1], r[j][1], FALSE)
  <2> DEFINE x == (N - i) + 1
             y == (N - j) + 1
  <2>1. x \in 1..N /\ y \in 1..N /\ y < x
    BY <1>1, <1>7
  <2>2. r[i] = s[x] /\ r[j] = s[y]
    BY <1>6
  <2> HIDE DEF x, y
  <2> QED BY <1>3, <2>1, <2>2 DEF Before
<1>8. ToSet(r) = ToSet(s)
  <2>1. ASSUME NEW e PROVE e \in ToSet(r) <=> \E i \in 1..N : r[i] = e
    BY <1>5 DEF ToSet
  <2>2. ASSUME NEW e PROVE (\E i \in 1..N : r[i] = e) <=> (\E i \in 1..N : s[i] = e)
    <3>1. ASSUME NEW i \in 1..N, r[i] = e PROVE \E j \in 1..N : s[j] = e
      BY <1>4, <1>6, <3>1
    <3>2. ASSUME NEW i \in 1..N, s[i] = e PROVE \E j \in 1..N : r[j] = e
      <4>1. (N - i) + 1 \in 1..N /\ r[(N - i) + 1] = s[(N - ((N - i) + 1)) + 1]
        BY <1>4, <1>6
      <4> QED BY <1>4, <3>2, <4>1
    <3> QED BY <3>1, <3>2
  <2> QED BY <1>1, <2>1, <2>2 DEF Picked
<1> QED BY <1>5, <1>7, <1>8 DEF Listed, r

LEMMA ListPrefix ==
    ASSUME NEW up, NEW s, Listed(s, up), NEW n, n \in 0..Len(s), NEW r, r = UpTo(s, n)
    PROVE  Listed(r, up) /\ Len(r) = n /\ ToSet(r) = Picked(s, 1..n) /\ \A i \in 1..n : r[i] = s[i]
<1>1. Len(s) \in Nat /\ s \in Seq(Nat \X Val)
  BY ListFacts DEF Listed
<1>2. r \in Seq(Nat \X Val) /\ Len(r) = n /\ \A i \in 1..n : r[i] = s[i]
  BY <1>1, UpToFacts
<1>3. \A i \in 1..n : i \in 1..Len(s)
  BY <1>1
<1>4. Listed(r, up)
  BY <1>2, <1>3 DEF Listed
<1>5. \A e : e \in ToSet(r) <=> \E i \in 1..n : r[i] = e
  <2>1. \A e : e \in ToSet(r) <=> \E i \in 1..Len(r) : r[i] = e
    BY ONLY <1>4, ListFacts
  <2> QED BY <1>2, <2>1
<1>6. ToSet(r) = Picked(s, 1..n)
  BY <1>2, <1>5 DEF Picked
<1> QED BY <1>2, <1>4, <1>6

LEMMA ListSuffix ==
    ASSUME NEW up, NEW s, Listed(s, up), NEW n, n \in 1..Len(s) + 1, NEW r, r = From(s, n)
    PROVE  Listed(r, up) /\ ToSet(r) = Picked(s, n..Len(s))
<1> DEFINE N == Len(s)
           M == N - n + 1
<1>1. N \in Nat /\ s \in Seq(Nat \X Val) /\ n \in 1..N + 1
  BY ListFacts DEF Listed
<1>2. r \in Seq(Nat \X Val) /\ Len(r) = M /\ \A i \in 1..M : r[i] = s[n + i - 1]
  BY <1>1, FromFacts
<1>3. \A i, j \in 1..N : i < j => Before(s[i][1], s[j][1], up)
  BY DEF Listed
<1> HIDE DEF N
<1>4. \A i \in 1..M : n + i - 1 \in n..N /\ n + i - 1 \in 1..N
  BY <1>1
<1>5. ASSUME NEW i \in 1..M, NEW j \in 1..M, i < j PROVE Before(r[i][1], r[j][1], up)
  <2>1. n + i - 1 < n + j - 1
    BY <1>1, <1>5
  <2> QED BY <1>2, <1>3, <1>4, <2>1
<1>6. Listed(r, up)
  BY <1>2, <1>5 DEF Listed
<1>7. \A e : e \in ToSet(r) <=> \E i \in 1..M : r[i] = e
  <2>1. \A e : e \in ToSet(r) <=> \E i \in 1..Len(r) : r[i] = e
    BY ONLY <1>6, ListFacts
  <2> QED BY <1>2, <2>1
<1>8. ASSUME NEW e PROVE (\E i \in 1..M : r[i] = e) <=> \E i \in n..N : s[i] = e
  <2>1. ASSUME NEW i \in 1..M, r[i] = e PROVE \E j \in n..N : s[j] = e
    BY <1>2, <1>4, <2>1
  <2>2. ASSUME NEW i \in n..N, s[i] = e PROVE \E j \in 1..M : r[j] = e
    <3> DEFINE j == i - n + 1
    <3>1. j \in 1..M /\ n + j - 1 = i
      BY <1>1
    <3> HIDE DEF j, M
    <3>2. r[j] = e
      BY <1>2, <2>2, <3>1
    <3> QED BY <3>1, <3>2
  <2> QED BY <2>1, <2>2
<1> HIDE DEF M
<1>9. ToSet(r) = Picked(s, n..N)
  BY <1>7, <1>8 DEF Picked
<1> QED BY <1>6, <1>9 DEF N

LEMMA LeastFirst ==
    ASSUME NEW S \in SUBSET Nat, S # {}
    PROVE  Min(S) \in S /\ \A x \in S : Min(S) <= x
<1> SUFFICES ASSUME \A x \in S : \E y \in S : ~(x <= y) PROVE FALSE
  BY DEF Min
<1> DEFINE A == {n \in Nat : \A m \in 0..n : m \notin S}
<1>1. 0 \in A
  <2> SUFFICES ASSUME 0 \in S PROVE FALSE
    OBVIOUS
  <2> QED OBVIOUS
<1>2. ASSUME NEW n \in Nat, n \in A PROVE n + 1 \in A
  <2>1. \A m \in 0..n : m \notin S
    BY <1>2
  <2>2. n + 1 \notin S
    <3> SUFFICES ASSUME n + 1 \in S PROVE FALSE
      OBVIOUS
    <3>1. PICK y \in S : ~(n + 1 <= y)
      OBVIOUS
    <3>2. y \in 0..n
      BY <3>1
    <3> QED BY <2>1, <3>2
  <2>3. \A m \in 0..(n + 1) : m \in 0..n \/ m = n + 1
    OBVIOUS
  <2> QED BY <2>1, <2>2, <2>3
<1> HIDE DEF A
<1>3. \A n \in Nat : n \in A
  BY <1>1, <1>2, NatInductionOn
<1>4. PICK x \in S : TRUE
  OBVIOUS
<1>5. x \in Nat /\ x \in 0..x
  OBVIOUS
<1> QED BY <1>3, <1>4, <1>5 DEF A

(* The entries past b go. *)
Past(s, b, up) == {i \in 1..Len(s) : Before(b, s[i][1], up)}
FirstPast(s, b, up) == IF Past(s, b, up) # {} THEN Min(Past(s, b, up)) ELSE 0

LEMMA ListCut ==
    ASSUME NEW up \in BOOLEAN, NEW s, Listed(s, up), NEW b \in Nat, NEW stop, stop = FirstPast(s, b, up),
           NEW r, r = IF stop = 0 THEN s ELSE UpTo(s, stop - 1)
    PROVE  Listed(r, up) /\ ToSet(r) = {e \in ToSet(s) : ~Before(b, e[1], up)}
<1> DEFINE N == Len(s)
           I == Past(s, b, up)
<1>1. /\ N \in Nat /\ \A i \in 1..N : s[i] \in Nat \X Val /\ s[i][1] \in Nat
      /\ \A e : e \in ToSet(s) <=> \E i \in 1..N : s[i] = e
  BY ListFacts
<1>2. \A i : i \in I <=> i \in 1..N /\ Before(b, s[i][1], up)
  BY DEF Past
<1>3. stop = IF I # {} THEN Min(I) ELSE 0
  BY DEF FirstPast
<1> HIDE DEF N, I
<1>4. CASE I = {}
  <2>1. r = s
    BY <1>3, <1>4
  <2> QED BY <1>1, <1>2, <1>4, <2>1
<1>5. CASE I # {}
  <2>1. I \in SUBSET Nat
    BY <1>1, <1>2
  <2>2. stop \in I /\ \A i \in I : stop <= i
    BY <1>3, <1>5, <2>1, LeastFirst
  <2>3. stop \in 1..N /\ Before(b, s[stop][1], up) /\ stop - 1 \in 0..N
    BY <1>1, <1>2, <2>2
  <2>4. r = UpTo(s, stop - 1)
    BY <2>3
  <2>5. Listed(r, up) /\ ToSet(r) = Picked(s, 1..stop - 1)
    BY <2>3, <2>4, ListPrefix DEF N
  <2>6. ASSUME NEW i \in 1..N PROVE i \in 1..stop - 1 <=> ~Before(b, s[i][1], up)
    <3>1. CASE i < stop
      <4>1. i \notin I /\ i \in 1..stop - 1
        BY <2>1, <2>2, <2>3, <3>1
      <4> QED BY <1>2, <4>1
    <3>2. CASE i = stop
      <4>1. i \notin 1..stop - 1
        BY <2>3, <3>2
      <4> QED BY <2>3, <3>2, <4>1
    <3>3. CASE i > stop
      <4>1. i \notin 1..stop - 1
        BY <2>3, <3>3
      <4>2. Before(s[stop][1], s[i][1], up)
        BY <2>3, <3>3 DEF Listed, N
      <4>3. s[stop][1] \in Nat /\ s[i][1] \in Nat
        BY <1>1, <2>3
      <4>4. Before(b, s[i][1], up)
        BY <2>3, <4>2, <4>3, BeforeOrders
      <4> QED BY <4>1, <4>4
    <3>4. i < stop \/ i = stop \/ i > stop
      BY <2>3
    <3> QED BY <3>1, <3>2, <3>3, <3>4
  <2>7. \A i \in 1..stop - 1 : i \in 1..N
    BY <1>1, <2>3
  <2>8. ASSUME NEW e PROVE e \in ToSet(r) <=> e \in ToSet(s) /\ ~Before(b, e[1], up)
    BY <1>1, <2>5, <2>6, <2>7 DEF Picked
  <2> QED BY <2>5, <2>8
<1> QED BY <1>4, <1>5

(* A cut list lists the first of its entries. *)
LEMMA ListTake ==
    ASSUME NEW up, NEW s, Listed(s, up), NEW max \in Nat
    PROVE  Lists(Take(s, max), ToSet(s), up, max)
<1> DEFINE N == Len(s)
           n == IF N < max THEN N ELSE max
           r == Take(s, max)
<1>1. /\ N \in Nat /\ \A e : e \in ToSet(s) <=> \E i \in 1..N : s[i] = e
  BY ListFacts
<1>2. n \in 0..N /\ n <= max /\ (n < N => n = max)
  BY <1>1
<1>3. r = UpTo(s, n)
  BY DEF Take, UpTo
<1>4. \A i, j \in 1..N : i < j => Before(s[i][1], s[j][1], up)
  BY DEF Listed
<1> HIDE DEF n, r
<1>5. /\ Listed(r, up) /\ Len(r) = n /\ \A i \in 1..n : r[i] = s[i]
      /\ \A e : e \in ToSet(r) <=> \E i \in 1..n : s[i] = e
  <2>1. n \in 0..Len(s)
    BY <1>2
  <2>2. Listed(s, up)
    OBVIOUS
  <2>3. Listed(r, up) /\ Len(r) = n
    BY ONLY <1>3, <2>1, <2>2, ListPrefix
  <2>4. \A i \in 1..n : r[i] = s[i]
    BY ONLY <1>3, <2>1, <2>2, ListPrefix
  <2>5. ToSet(r) = Picked(s, 1..n)
    BY ONLY <1>3, <2>1, <2>2, ListPrefix
  <2> QED BY <2>3, <2>4, <2>5 DEF Picked
<1>6. DOMAIN r = 1..n /\ Range(r) = ToSet(r)
  BY <1>5, ListFacts DEF ToSet, Range
<1> HIDE DEF N
<1>7. \A i \in 1..n : i \in 1..N
  BY <1>1, <1>2
<1>8. ToSet(r) \subseteq ToSet(s)
  BY <1>1, <1>5, <1>7
<1>9. ASSUME NEW e \in ToSet(s), e \notin ToSet(r) PROVE n = max /\ \A i \in 1..n : Before(r[i][1], e[1], up)
  <2>1. PICK j \in 1..N : s[j] = e
    BY <1>1
  <2>2. ~(j \in 1..n)
    BY <1>5, <1>9, <2>1
  <2>3. n < j /\ n < N
    BY <1>1, <1>2, <2>2
  <2>4. ASSUME NEW i \in 1..n PROVE Before(r[i][1], e[1], up)
    <3>1. i \in 1..N /\ i < j
      BY <1>1, <1>2, <2>3
    <3> QED BY <1>4, <1>5, <2>1, <3>1
  <2> QED BY <1>2, <2>3, <2>4
<1>10. \A i, j \in 1..n : i < j => Before(r[i][1], r[j][1], up)
  BY <1>5 DEF Listed
<1> QED BY <1>2, <1>5, <1>6, <1>8, <1>9, <1>10 DEF Lists, r

(* A scan's entries: those of its first leaf, then those of the others. *)
Gathers(u, f, ss, up) ==
    /\ u = f \o FlattenSeq(ss) /\ Listed(f, up) /\ Batched(ss, up)
    /\ \A i \in 1..Len(ss) : Follows(ss[i], f, up)

LEMMA ListGathers ==
    ASSUME NEW up, NEW f, NEW ss, NEW u, Gathers(u, f, ss, up)
    PROVE  Listed(u, up) /\ ToSet(u) = ToSet(f) \cup UNION {ToSet(ss[i]) : i \in 1..Len(ss)}
<1> DEFINE g == FlattenSeq(ss)
<1>0. /\ u = f \o g /\ Listed(f, up) /\ Batched(ss, up)
      /\ \A i \in 1..Len(ss) : Follows(ss[i], f, up)
  BY DEF Gathers
<1>1. Listed(g, up) /\ ToSet(g) = UNION {ToSet(ss[i]) : i \in 1..Len(ss)}
  BY <1>0, ListFlat
<1>2. Follows(g, f, up)
  BY <1>0, <1>1 DEF Follows
<1> HIDE DEF g
<1>4. Joins(u, f, g, up)
  BY <1>0, <1>1, <1>2 DEF Joins
<1> QED BY <1>1, <1>4, ListJoin

(* They end at the first key past b or at max entries. *)
LEMMA ListEnds ==
    ASSUME NEW up \in BOOLEAN, NEW s, Listed(s, up), NEW b \in Nat, NEW max \in Nat,
           NEW stop, stop = FirstPast(s, b, up),
           NEW E, E = {e \in ToSet(s) : ~Before(b, e[1], up)}
    PROVE  Lists(Take(IF stop = 0 THEN s ELSE UpTo(s, stop - 1), max), E, up, max)
<1> DEFINE r == IF stop = 0 THEN s ELSE UpTo(s, stop - 1)
<1>1. Listed(r, up) /\ ToSet(r) = E
  BY ListCut
<1> HIDE DEF r
<1>2. Lists(Take(r, max), ToSet(r), up, max)
  BY <1>1, ListTake
<1> QED BY <1>1, <1>2 DEF r

LEMMA LeafListed ==
    ASSUME NEW n, Matched(n), Ascending(n.keys)
    PROVE  /\ Listed(Entries(n), TRUE) /\ ToSet(Entries(n)) = Holds(n)
           /\ n.keys \in Seq(Nat) /\ Len(Entries(n)) = Len(n.keys)
           /\ \A i \in 1..Len(n.keys) : Entries(n)[i] = <<n.keys[i], n.vals[i]>>
           /\ \A e \in Holds(n) : e[1] \in Nat
<1> DEFINE N == Len(n.keys)
           s == Entries(n)
<1>1. n.keys \in Seq(Nat) /\ n.vals \in Seq(Val) /\ Len(n.vals) = N
  BY DEF Matched, Aligned, Index
<1>2. /\ N \in Nat /\ DOMAIN n.keys = 1..N
      /\ \A i \in 1..N : n.keys[i] \in Nat /\ n.vals[i] \in Val
  BY <1>1, Positions
<1>3. \A i, j \in 1..N : i < j => n.keys[i] < n.keys[j]
  <2>1. \A j \in 1..N : \A i \in 1..j - 1 : n.keys[i] < n.keys[j]
    BY <1>1, AscendingPairs
  <2>2. \A i, j \in 1..N : i < j => i \in 1..j - 1
    BY <1>2
  <2> QED BY <2>1, <2>2
<1>n. N = Len(n.keys)
  OBVIOUS
<1> HIDE DEF N
<1>4. s = [i \in 1..N |-> <<n.keys[i], n.vals[i]>>]
  BY <1>2 DEF Entries
<1> HIDE DEF s
<1>5. s \in Seq(Nat \X Val) /\ Len(s) = N /\ DOMAIN s = 1..N
  <2>1. s \in [1..N -> Nat \X Val]
    BY <1>2, <1>4
  <2> QED BY <1>2, <2>1, LenProperties, SeqDef
<1>6. \A i \in 1..N : s[i] = <<n.keys[i], n.vals[i]>>
  BY <1>4
<1>7. \A i \in 1..N : s[i][1] = n.keys[i]
  BY <1>6
<1>8. Listed(s, TRUE)
  BY <1>3, <1>5, <1>7 DEF Listed, Before
<1>9. ToSet(s) = Holds(n)
  BY <1>n, <1>5, <1>6 DEF ToSet, Holds, EntriesOf
<1>10. \A e \in Holds(n) : e[1] \in Nat
  BY <1>n, <1>2 DEF Holds, EntriesOf
<1> QED BY <1>n, <1>1, <1>5, <1>6, <1>8, <1>9, <1>10 DEF s

LEMMA LeafFrom ==
    ASSUME NEW n, Matched(n), Ascending(n.keys), NEW k \in Nat,
           NEW s, s = From(Entries(n), LowerBound(n.keys, k))
    PROVE  Listed(s, TRUE) /\ ToSet(s) = {e \in Holds(n) : k <= e[1]}
<1> DEFINE N == Len(n.keys)
           b == LowerBound(n.keys, k)
           t == Entries(n)
<1>1. /\ Listed(t, TRUE) /\ ToSet(t) = Holds(n) /\ n.keys \in Seq(Nat) /\ Len(t) = N
      /\ \A i \in 1..N : t[i] = <<n.keys[i], n.vals[i]>>
  BY LeafListed
<1>2. N \in Nat /\ \A i \in 1..N : n.keys[i] \in Nat
  BY <1>1, Positions
<1>3. b \in 1..N + 1 /\ \A i \in 1..N : n.keys[i] < k <=> i < b
  BY <1>1, LowerBoundCuts
<1>4. s = From(t, b)
  OBVIOUS
<1> HIDE DEF N, b, t
<1>5. b \in 1..Len(t) + 1
  BY <1>1, <1>3
<1>6. Listed(s, TRUE)
  BY ONLY <1>1, <1>4, <1>5, ListSuffix
<1>7. ToSet(s) = Picked(t, b..Len(t))
  BY ONLY <1>1, <1>4, <1>5, ListSuffix
<1>8. Holds(n) = Picked(t, 1..N)
  BY <1>1, ListFacts
<1>9. \A i \in 1..N : i \in b..N <=> k <= t[i][1]
  <2> TAKE i \in 1..N
  <2>1. t[i][1] = n.keys[i] /\ n.keys[i] \in Nat
    BY <1>1, <1>2
  <2>2. n.keys[i] < k <=> i < b
    BY <1>3
  <2> QED BY <1>2, <1>3, <2>1, <2>2
<1>10. \A i \in b..N : i \in 1..N
  BY <1>2, <1>3
<1>11. ASSUME NEW e PROVE e \in ToSet(s) <=> e \in Holds(n) /\ k <= e[1]
  BY <1>1, <1>7, <1>8, <1>9, <1>10 DEF Picked
<1> QED BY <1>6, <1>11

(* The entries of n from k down. *)
DownFrom(n, k) ==
    Reverse(UpTo(Entries(n), IF HasKey(n, k) THEN LowerBound(n.keys, k) ELSE LowerBound(n.keys, k) - 1))

LEMMA LeafDown ==
    ASSUME NEW n, Matched(n), Ascending(n.keys), NEW k \in Nat, NEW s, s = DownFrom(n, k)
    PROVE  Listed(s, FALSE) /\ ToSet(s) = {e \in Holds(n) : e[1] <= k}
<1> DEFINE N == Len(n.keys)
           b == LowerBound(n.keys, k)
           t == Entries(n)
           at == IF HasKey(n, k) THEN b ELSE b - 1
           r == UpTo(t, at)
<1>1. /\ Listed(t, TRUE) /\ ToSet(t) = Holds(n) /\ n.keys \in Seq(Nat) /\ Len(t) = N
      /\ \A i \in 1..N : t[i] = <<n.keys[i], n.vals[i]>>
  BY LeafListed
<1>2. N \in Nat /\ \A i \in 1..N : n.keys[i] \in Nat
  BY <1>1, Positions
<1>3. b \in 1..N + 1 /\ \A i \in 1..N : n.keys[i] < k <=> i < b
  BY <1>1, LowerBoundCuts
<1>4. HasKey(n, k) <=> b <= N /\ n.keys[b] = k
  BY DEF HasKey, KeyCount
<1>5. \A i, j \in 1..N : i < j => n.keys[i] < n.keys[j]
  <2>1. \A j \in 1..N : \A i \in 1..j - 1 : n.keys[i] < n.keys[j]
    BY <1>1, AscendingPairs
  <2>2. \A i, j \in 1..N : i < j => i \in 1..j - 1
    BY <1>2
  <2> QED BY <2>1, <2>2
<1>6. at = IF HasKey(n, k) THEN b ELSE b - 1
  OBVIOUS
<1>7. s = Reverse(r) /\ r = UpTo(t, at)
  BY DEF DownFrom
<1> HIDE DEF N, b, t, at, r
<1>8. at \in 0..N
  BY <1>2, <1>3, <1>4, <1>6
<1>9. \A i \in 1..N : i \in 1..at <=> n.keys[i] <= k
  <2> TAKE i \in 1..N
  <2>1. n.keys[i] \in Nat /\ (n.keys[i] < k <=> i < b)
    BY <1>2, <1>3
  <2>2. CASE HasKey(n, k)
    <3>1. b \in 1..N /\ n.keys[b] = k /\ at = b
      BY <1>2, <1>3, <1>4, <1>6, <2>2
    <3>2. b < i => k < n.keys[i]
      BY <1>5, <3>1
    <3> QED BY <1>2, <2>1, <3>1, <3>2
  <2>3. CASE ~HasKey(n, k)
    <3>1. at = b - 1 /\ (i = b => n.keys[i] # k)
      BY <1>2, <1>3, <1>4, <1>6, <2>3
    <3>2. b \in 1..N => n.keys[b] # k /\ ~(n.keys[b] < k) /\ n.keys[b] \in Nat
      BY <1>2, <1>3, <1>4, <2>3
    <3>3. b < i => n.keys[b] < n.keys[i] /\ b \in 1..N
      BY <1>2, <1>3, <1>5
    <3> QED BY <1>2, <1>3, <2>1, <3>1, <3>2, <3>3
  <2> QED BY <2>2, <2>3
<1>10. at \in 0..Len(t)
  BY <1>1, <1>8
<1>11. Listed(r, TRUE)
  BY ONLY <1>1, <1>7, <1>10, ListPrefix
<1>12. ToSet(r) = Picked(t, 1..at)
  BY ONLY <1>1, <1>7, <1>10, ListPrefix
<1>13. Listed(s, FALSE) /\ ToSet(s) = ToSet(r)
  BY <1>7, <1>11, ListReverse
<1>14. Holds(n) = Picked(t, 1..N)
  BY <1>1, ListFacts
<1>15. \A i \in 1..N : t[i][1] = n.keys[i]
  BY <1>1
<1>16. \A i \in 1..at : i \in 1..N
  BY <1>2, <1>8
<1>17. ASSUME NEW e PROVE e \in ToSet(r) <=> e \in Holds(n) /\ e[1] <= k
  BY <1>9, <1>12, <1>14, <1>15, <1>16 DEF Picked
<1> QED BY <1>13, <1>17

(* The row of leaves around the a-th, whose leaf a descent for k ends at. *)
Home(row, a, k) ==
    /\ row \in Seq(Index) /\ Len(row) \in Nat /\ a \in 1..Len(row)
    /\ DOMAIN leaf = {row[i] : i \in 1..Len(row)}
    /\ \A i \in 1..Len(row) : Matched(leaf[row[i]]) /\ Ascending(leaf[row[i]].keys)
    /\ \A i \in 1..Len(row) : i < Len(row) => leaf[row[i]].next = row[i + 1]
    /\ \A i, j \in 1..Len(row) : i < j =>
            \A e \in Holds(leaf[row[i]]), g \in Holds(leaf[row[j]]) : e[1] < g[1]
    /\ \A i \in 1..Len(row) : i < a => \A e \in Holds(leaf[row[i]]) : e[1] < k
    /\ \A i \in 1..Len(row) : a < i => \A e \in Holds(leaf[row[i]]) : k < e[1]

LEMMA ForwardIsExact ==
    ASSUME NEW row, NEW a, NEW lo \in Nat, Home(row, a, lo), NEW hi \in Nat, NEW max \in Nat,
           NEW chain, chain = From(row, a),
           NEW E, E = {e \in Stock(leaf) : lo <= e[1] /\ e[1] <= hi}
    PROVE  ForwardChain(chain) /\ Lists(ScanForward(chain, lo, hi, max), E, TRUE, max)
<1> DEFINE N == Len(row)
           M == N - a
           n(i) == leaf[row[i]]
           ss == [i \in 1..Len(chain) - 1 |-> Entries(leaf[chain[i + 1]])]
           f == From(Entries(leaf[chain[1]]), LowerBound(leaf[chain[1]].keys, lo))
           all == f \o FlattenSeq(ss)
           stop == SelectInSeq(all, LAMBDA e : e[1] > hi)
<1>1. /\ row \in Seq(Index) /\ N \in Nat /\ a \in 1..N /\ M \in Nat
      /\ \A i \in 1..N : Matched(n(i)) /\ Ascending(n(i).keys)
      /\ \A i \in 1..N : i < N => n(i).next = row[i + 1]
      /\ \A i, j \in 1..N : i < j => \A e \in Holds(n(i)), g \in Holds(n(j)) : e[1] < g[1]
      /\ \A i \in 1..N : i < a => \A e \in Holds(n(i)) : e[1] < lo
      /\ \A i \in 1..N : a < i => \A e \in Holds(n(i)) : lo < e[1]
  <2>1. row \in Seq(Index) /\ N \in Nat /\ a \in 1..N
    BY DEF Home
  <2>2. /\ \A i \in 1..N : Matched(n(i)) /\ Ascending(n(i).keys)
        /\ \A i \in 1..N : i < N => n(i).next = row[i + 1]
    BY DEF Home
  <2>3. \A i, j \in 1..N : i < j => \A e \in Holds(n(i)), g \in Holds(n(j)) : e[1] < g[1]
    BY DEF Home
  <2>4. /\ \A i \in 1..N : i < a => \A e \in Holds(n(i)) : e[1] < lo
        /\ \A i \in 1..N : a < i => \A e \in Holds(n(i)) : lo < e[1]
    BY DEF Home
  <2>5. M \in Nat
    BY <2>1
  <2> QED BY <2>1, <2>2, <2>3, <2>4, <2>5
<1>2. \A e : e \in Stock(leaf) <=> \E i \in 1..N : e \in Holds(n(i))
  <2>1. DOMAIN leaf = {row[i] : i \in 1..N}
    BY DEF Home
  <2> QED BY <2>1, StockFacts
<1> HIDE DEF N
<1>3. Len(chain) = M + 1 /\ \A i \in 1..M + 1 : chain[i] = row[a + i - 1]
  <2>1. a \in 1..Len(row) + 1
    BY <1>1 DEF N
  <2>2. Len(chain) = N - a + 1 /\ \A j \in 1..N - a + 1 : chain[j] = row[a + j - 1]
    BY <1>1, <2>1, FromFacts DEF N
  <2> QED BY <1>1, <2>2
<1>n. M = N - a
  OBVIOUS
<1> HIDE DEF M
<1>4. /\ chain[1] = row[a]
      /\ \A i \in 1..M : a + i \in 1..N /\ a < a + i /\ chain[i + 1] = row[a + i]
      /\ \A i \in 1..M : i \in 1..M + 1 /\ a + i - 1 \in 1..N /\ a + i - 1 < N /\ (a + i - 1) + 1 = a + i
  BY <1>1, <1>3, <1>n
<1>5. ForwardChain(chain)
  <2> SUFFICES ASSUME NEW i \in 1..M PROVE leaf[chain[i]].next = chain[i + 1]
    BY <1>1, <1>3 DEF ForwardChain
  <2>1. chain[i] = row[a + i - 1]
    BY <1>3, <1>4
  <2>2. n(a + i - 1).next = row[(a + i - 1) + 1]
    BY <1>1, <1>4
  <2> QED BY <1>4, <2>1, <2>2
<1>6. Len(ss) = M /\ \A i \in 1..M : ss[i] = Entries(n(a + i))
  <2>1. Len(chain) - 1 = M
    BY <1>1, <1>3
  <2> QED BY <1>1, <1>4, <2>1
<1>7. f = From(Entries(n(a)), LowerBound(n(a).keys, lo))
  BY <1>4
<1>s. /\ stop = SelectInSeq(all, LAMBDA e : e[1] > hi) /\ all = f \o FlattenSeq(ss)
      /\ ScanForward(chain, lo, hi, max) = Take(IF stop = 0 THEN all ELSE UpTo(all, stop - 1), max)
      /\ ss = [i \in 1..Len(chain) - 1 |-> ss[i]]
  BY DEF ScanForward
<1> HIDE DEF ss, f, all, stop
<1>8. Listed(f, TRUE) /\ ToSet(f) = {e \in Holds(n(a)) : lo <= e[1]}
  <2>1. Matched(n(a)) /\ Ascending(n(a).keys)
    BY <1>1
  <2> HIDE DEF n
  <2> QED BY <1>7, <2>1, LeafFrom
<1>9. ASSUME NEW i \in 1..M PROVE Listed(ss[i], TRUE) /\ ToSet(ss[i]) = Holds(n(a + i))
  <2>1. Matched(n(a + i)) /\ Ascending(n(a + i).keys)
    BY <1>1, <1>4
  <2>2. ss[i] = Entries(n(a + i))
    BY <1>6
  <2> HIDE DEF n
  <2> QED BY <2>1, <2>2, LeafListed
<1>10. Batched(ss, TRUE)
  <2>1. ASSUME NEW i \in 1..M, NEW j \in 1..M, i < j PROVE Follows(ss[j], ss[i], TRUE)
    <3>1. a + i \in 1..N /\ a + j \in 1..N /\ a + i < a + j
      BY <1>1, <1>4, <2>1
    <3>2. \A e \in Holds(n(a + i)), g \in Holds(n(a + j)) : e[1] < g[1]
      BY <1>1, <3>1
    <3> QED BY <1>9, <3>2 DEF Follows, Before
  <2>2. ss \in Seq(Seq(Nat \X Val))
    <3>1. \A i \in 1..M : ss[i] \in Seq(Nat \X Val)
      BY <1>9 DEF Listed
    <3>2. ss \in [1..M -> Seq(Nat \X Val)]
      <4>1. Len(chain) - 1 = M
        BY <1>1, <1>3
      <4> QED BY <1>s, <3>1, <4>1
    <3> QED BY <1>1, <3>2, SeqDef
  <2> QED BY <1>1, <1>6, <1>9, <2>1, <2>2 DEF Batched
<1>11. \A i \in 1..Len(ss) : Follows(ss[i], f, TRUE)
  <2> SUFFICES ASSUME NEW i \in 1..M PROVE Follows(ss[i], f, TRUE)
    BY <1>6
  <2>1. \A e \in Holds(n(a)), g \in Holds(n(a + i)) : e[1] < g[1]
    BY <1>1, <1>4
  <2> QED BY <1>8, <1>9, <2>1 DEF Follows, Before
<1>12. Listed(all, TRUE) /\ ToSet(all) = ToSet(f) \cup UNION {ToSet(ss[i]) : i \in 1..Len(ss)}
  <2>1. Gathers(all, f, ss, TRUE)
    BY <1>8, <1>10, <1>11, <1>s DEF Gathers
  <2> QED BY <2>1, ListGathers
<1>13. ASSUME NEW e PROVE e \in ToSet(all) <=> e \in Stock(leaf) /\ lo <= e[1]
  <2>1. e \in ToSet(all) <=> e \in ToSet(f) \/ \E i \in 1..M : e \in ToSet(ss[i])
    BY <1>6, <1>12
  <2>2. e \in ToSet(all) <=> (e \in Holds(n(a)) /\ lo <= e[1]) \/ \E i \in 1..M : e \in Holds(n(a + i))
    BY <1>8, <1>9, <2>1
  <2>3. ASSUME NEW i \in 1..M, e \in Holds(n(a + i)) PROVE e \in Stock(leaf) /\ lo <= e[1]
    <3>1. lo < e[1] /\ e[1] \in Nat
      <4>1. Matched(n(a + i)) /\ Ascending(n(a + i).keys) /\ lo < e[1]
        BY <1>1, <1>4, <2>3
      <4> HIDE DEF n
      <4> QED BY <2>3, <4>1, LeafListed
    <3> QED BY <1>2, <1>4, <2>3, <3>1
  <2>4. ASSUME e \in Stock(leaf), lo <= e[1]
        PROVE  (e \in Holds(n(a)) /\ lo <= e[1]) \/ \E i \in 1..M : e \in Holds(n(a + i))
    <3>1. PICK i \in 1..N : e \in Holds(n(i))
      BY <1>2, <2>4
    <3>2. e[1] \in Nat
      <4>1. Matched(n(i)) /\ Ascending(n(i).keys)
        BY <1>1
      <4> HIDE DEF n
      <4> QED BY <3>1, <4>1, LeafListed
    <3>3. ~(i < a)
      BY <1>1, <2>4, <3>1, <3>2
    <3>4. CASE i = a
      BY <2>4, <3>1, <3>4
    <3>5. CASE i > a
      <4> DEFINE j == i - a
      <4>1. j \in 1..M /\ a + j = i
        BY <1>1, <1>n, <3>5
      <4> HIDE DEF j
      <4> QED BY <3>1, <4>1
    <3> QED BY <1>1, <3>3, <3>4, <3>5
  <2> QED BY <1>1, <1>2, <2>2, <2>3, <2>4
<1>14. stop = FirstPast(all, hi, TRUE)
  <2>1. {i \in 1..Len(all) : all[i][1] > hi} = Past(all, hi, TRUE)
    <3>1. \A i \in 1..Len(all) : all[i][1] \in Nat
      BY <1>12, ListFacts
    <3> QED BY <3>1 DEF Past, Before
  <2> QED BY <1>s, <2>1 DEF SelectInSeq, FirstPast
<1>15. E = {e \in ToSet(all) : ~Before(hi, e[1], TRUE)}
  <2>1. \A e \in ToSet(all) : e[1] \in Nat
    BY <1>12, ListFacts
  <2> QED BY <1>13, <2>1 DEF Before
<1>16. Lists(Take(IF stop = 0 THEN all ELSE UpTo(all, stop - 1), max), E, TRUE, max)
  BY <1>12, <1>14, <1>15, ListEnds
<1> QED BY <1>5, <1>16, <1>s

LEMMA ReverseIsExact ==
    ASSUME NEW row, NEW a, NEW hi \in Nat, Home(row, a, hi), NEW lo \in Nat, NEW max \in Nat,
           NEW chain, chain = Reverse(UpTo(row, a)),
           NEW E, E = {e \in Stock(leaf) : lo <= e[1] /\ e[1] <= hi}
    PROVE  ReverseChain(chain) /\ Lists(ScanReverse(chain, hi, lo, max), E, FALSE, max)
<1> DEFINE N == Len(row)
           M == a - 1
           n(i) == leaf[row[i]]
           first == leaf[chain[1]]
           ss == [i \in 1..Len(chain) - 1 |-> Reverse(Entries(leaf[chain[i + 1]]))]
           f == DownFrom(first, hi)
           all == f \o FlattenSeq(ss)
           stop == SelectInSeq(all, LAMBDA e : e[1] < lo)
<1>1. /\ row \in Seq(Index) /\ N \in Nat /\ a \in 1..N /\ M \in Nat
      /\ \A i \in 1..N : Matched(n(i)) /\ Ascending(n(i).keys)
      /\ \A i \in 1..N : i < N => n(i).next = row[i + 1]
      /\ \A i, j \in 1..N : i < j => \A e \in Holds(n(i)), g \in Holds(n(j)) : e[1] < g[1]
      /\ \A i \in 1..N : i < a => \A e \in Holds(n(i)) : e[1] < hi
      /\ \A i \in 1..N : a < i => \A e \in Holds(n(i)) : hi < e[1]
  <2>1. row \in Seq(Index) /\ N \in Nat /\ a \in 1..N
    BY DEF Home
  <2>2. /\ \A i \in 1..N : Matched(n(i)) /\ Ascending(n(i).keys)
        /\ \A i \in 1..N : i < N => n(i).next = row[i + 1]
    BY DEF Home
  <2>3. \A i, j \in 1..N : i < j => \A e \in Holds(n(i)), g \in Holds(n(j)) : e[1] < g[1]
    BY DEF Home
  <2>4. /\ \A i \in 1..N : i < a => \A e \in Holds(n(i)) : e[1] < hi
        /\ \A i \in 1..N : a < i => \A e \in Holds(n(i)) : hi < e[1]
    BY DEF Home
  <2>5. M \in Nat
    BY <2>1
  <2> QED BY <2>1, <2>2, <2>3, <2>4, <2>5
<1>2. \A e : e \in Stock(leaf) <=> \E i \in 1..N : e \in Holds(n(i))
  <2>1. DOMAIN leaf = {row[i] : i \in 1..N}
    BY DEF Home
  <2> QED BY <2>1, StockFacts
<1> HIDE DEF N
<1>3. Len(chain) = M + 1 /\ \A i \in 1..M + 1 : chain[i] = row[a - i + 1]
  <2> DEFINE t == UpTo(row, a)
  <2>1. a \in 0..Len(row)
    BY <1>1 DEF N
  <2>2. t \in Seq(Index) /\ Len(t) = a /\ \A j \in 1..a : t[j] = row[j]
    BY <1>1, <2>1, UpToFacts
  <2>3. chain = [i \in 1..Len(t) |-> t[(Len(t) - i) + 1]]
    BY DEF Reverse
  <2> HIDE DEF t
  <2>4. Len(chain) = a /\ \A i \in 1..a : chain[i] = t[(a - i) + 1]
    BY <1>1, <2>2, <2>3
  <2>5. \A i \in 1..a : (a - i) + 1 \in 1..a
    BY <1>1
  <2> QED BY <1>1, <2>2, <2>4, <2>5
<1>n. M = a - 1
  OBVIOUS
<1> HIDE DEF M
<1>4. /\ chain[1] = row[a]
      /\ \A i \in 1..M : a - i \in 1..N /\ a - i < a /\ chain[i + 1] = row[a - i]
      /\ \A i \in 1..M : i \in 1..M + 1 /\ a - i < N /\ (a - i) + 1 = a - i + 1
  BY <1>1, <1>3, <1>n
<1>5. ReverseChain(chain)
  <2> SUFFICES ASSUME NEW i \in 1..M PROVE leaf[chain[i + 1]].next = chain[i]
    BY <1>1, <1>3 DEF ReverseChain
  <2>1. chain[i] = row[a - i + 1]
    BY <1>3, <1>4
  <2>2. n(a - i).next = row[(a - i) + 1]
    BY <1>1, <1>4
  <2> QED BY <1>4, <2>1, <2>2
<1>6. Len(ss) = M /\ \A i \in 1..M : ss[i] = Reverse(Entries(n(a - i)))
  <2>1. Len(chain) - 1 = M
    BY <1>1, <1>3
  <2> QED BY <1>1, <1>4, <2>1
<1>7. first = n(a) /\ f = DownFrom(first, hi)
  BY <1>4
<1>s. /\ stop = SelectInSeq(all, LAMBDA e : e[1] < lo) /\ all = f \o FlattenSeq(ss)
      /\ ScanReverse(chain, hi, lo, max) = Take(IF stop = 0 THEN all ELSE UpTo(all, stop - 1), max)
      /\ ss = [i \in 1..Len(chain) - 1 |-> ss[i]]
  BY DEF ScanReverse, DownFrom
<1> HIDE DEF ss, f, all, stop, first
<1>8. Listed(f, FALSE) /\ ToSet(f) = {e \in Holds(n(a)) : e[1] <= hi}
  <2>1. Matched(first) /\ Ascending(first.keys)
    BY <1>1, <1>7
  <2>2. Listed(f, FALSE) /\ ToSet(f) = {e \in Holds(first) : e[1] <= hi}
    BY <1>7, <2>1, LeafDown
  <2> QED BY <1>7, <2>2
<1>9. ASSUME NEW i \in 1..M PROVE Listed(ss[i], FALSE) /\ ToSet(ss[i]) = Holds(n(a - i))
  <2>1. Matched(n(a - i)) /\ Ascending(n(a - i).keys)
    BY <1>1, <1>4
  <2>2. ss[i] = Reverse(Entries(n(a - i)))
    BY <1>6
  <2> HIDE DEF n
  <2>3. Listed(Entries(n(a - i)), TRUE) /\ ToSet(Entries(n(a - i))) = Holds(n(a - i))
    BY <2>1, LeafListed
  <2> QED BY <2>2, <2>3, ListReverse
<1>10. Batched(ss, FALSE)
  <2>1. ASSUME NEW i \in 1..M, NEW j \in 1..M, i < j PROVE Follows(ss[j], ss[i], FALSE)
    <3>1. a - i \in 1..N /\ a - j \in 1..N /\ a - j < a - i
      BY <1>1, <1>4, <2>1
    <3>2. \A e \in Holds(n(a - j)), g \in Holds(n(a - i)) : e[1] < g[1]
      BY <1>1, <3>1
    <3> QED BY <1>9, <3>2 DEF Follows, Before
  <2>2. ss \in Seq(Seq(Nat \X Val))
    <3>1. \A i \in 1..M : ss[i] \in Seq(Nat \X Val)
      BY <1>9 DEF Listed
    <3>2. ss \in [1..M -> Seq(Nat \X Val)]
      <4>1. Len(chain) - 1 = M
        BY <1>1, <1>3
      <4> QED BY <1>s, <3>1, <4>1
    <3> QED BY <1>1, <3>2, SeqDef
  <2> QED BY <1>1, <1>6, <1>9, <2>1, <2>2 DEF Batched
<1>11. \A i \in 1..Len(ss) : Follows(ss[i], f, FALSE)
  <2> SUFFICES ASSUME NEW i \in 1..M PROVE Follows(ss[i], f, FALSE)
    BY <1>6
  <2>1. \A e \in Holds(n(a - i)), g \in Holds(n(a)) : e[1] < g[1]
    BY <1>1, <1>4
  <2> QED BY <1>8, <1>9, <2>1 DEF Follows, Before
<1>12. Listed(all, FALSE) /\ ToSet(all) = ToSet(f) \cup UNION {ToSet(ss[i]) : i \in 1..Len(ss)}
  <2>1. Gathers(all, f, ss, FALSE)
    BY <1>8, <1>10, <1>11, <1>s DEF Gathers
  <2> QED BY <2>1, ListGathers
<1>13. ASSUME NEW e PROVE e \in ToSet(all) <=> e \in Stock(leaf) /\ e[1] <= hi
  <2>1. e \in ToSet(all) <=> e \in ToSet(f) \/ \E i \in 1..M : e \in ToSet(ss[i])
    BY <1>6, <1>12
  <2>2. e \in ToSet(all) <=> (e \in Holds(n(a)) /\ e[1] <= hi) \/ \E i \in 1..M : e \in Holds(n(a - i))
    BY <1>8, <1>9, <2>1
  <2>3. ASSUME NEW i \in 1..M, e \in Holds(n(a - i)) PROVE e \in Stock(leaf) /\ e[1] <= hi
    <3>1. e[1] < hi /\ e[1] \in Nat
      <4>1. Matched(n(a - i)) /\ Ascending(n(a - i).keys) /\ e[1] < hi
        BY <1>1, <1>4, <2>3
      <4> HIDE DEF n
      <4> QED BY <2>3, <4>1, LeafListed
    <3> QED BY <1>2, <1>4, <2>3, <3>1
  <2>4. ASSUME e \in Stock(leaf), e[1] <= hi
        PROVE  (e \in Holds(n(a)) /\ e[1] <= hi) \/ \E i \in 1..M : e \in Holds(n(a - i))
    <3>1. PICK i \in 1..N : e \in Holds(n(i))
      BY <1>2, <2>4
    <3>2. e[1] \in Nat
      <4>1. Matched(n(i)) /\ Ascending(n(i).keys)
        BY <1>1
      <4> HIDE DEF n
      <4> QED BY <3>1, <4>1, LeafListed
    <3>3. ~(a < i)
      BY <1>1, <2>4, <3>1, <3>2
    <3>4. CASE i = a
      BY <2>4, <3>1, <3>4
    <3>5. CASE i < a
      <4> DEFINE j == a - i
      <4>1. j \in 1..M /\ a - j = i
        BY <1>1, <1>n, <3>5
      <4> HIDE DEF j
      <4> QED BY <3>1, <4>1
    <3> QED BY <1>1, <3>3, <3>4, <3>5
  <2> QED BY <1>1, <1>2, <2>2, <2>3, <2>4
<1>14. stop = FirstPast(all, lo, FALSE)
  <2>1. {i \in 1..Len(all) : all[i][1] < lo} = Past(all, lo, FALSE)
    BY DEF Past, Before
  <2> QED BY <1>s, <2>1 DEF SelectInSeq, FirstPast
<1>15. E = {e \in ToSet(all) : ~Before(lo, e[1], FALSE)}
  <2>1. \A e \in ToSet(all) : e[1] \in Nat
    BY <1>12, ListFacts
  <2> QED BY <1>13, <2>1 DEF Before
<1>16. Lists(Take(IF stop = 0 THEN all ELSE UpTo(all, stop - 1), max), E, FALSE, max)
  BY <1>12, <1>14, <1>15, ListEnds
<1> QED BY <1>5, <1>16, <1>s

Keyed(lf) == \A e \in Stock(lf) : e[1] \in Key

LEMMA FindsHome ==
    ASSUME MapInv, Tied, height > 0, NEW k \in Key, NEW row, row = Row(height),
           NEW a, a = CHOOSE i \in DOMAIN row : row[i] = Path(k)[height]
    PROVE  Home(row, a, k)
<1> DEFINE N == Len(row)
<1>1. SearchInv /\ ChainInv /\ AllMatched(leaf) /\ Structure /\ height \in Nat
  BY DEF MapInv, ChainInv, SearchInv, Structure
<1>2. PICK rt : InRow(row, rt)
  BY <1>1, LeavesInRow
<1>3. /\ row \in Seq(Index) /\ N \in Nat /\ N > 0 /\ DOMAIN row = 1..N
      /\ DOMAIN leaf = {row[i] : i \in 1..N}
  BY <1>2 DEF InRow
<1>4. k \in Nat
  BY KeyIsIndex DEF Index
<1>5. Descended(Path(k), k)
  BY <1>1, PathDescends, DescentFacts
<1>6. Path(k)[height] \in DOMAIN leaf
  BY <1>5 DEF Descended
<1>7. a \in 1..N /\ row[a] = Path(k)[height]
  BY <1>3, <1>6
<1>8. k \in rt[row[a]]
  BY <1>2, <1>4, <1>5, <1>7, KeyReachesLeaf DEF InRow, Index
<1>9. ASSUME NEW i \in 1..N
      PROVE  /\ Matched(leaf[row[i]]) /\ Ascending(leaf[row[i]].keys)
             /\ \A e \in Holds(leaf[row[i]]) : e[1] \in rt[row[i]]
  <2> DEFINE l == row[i]
  <2>1. l \in DOMAIN leaf
    BY <1>3
  <2>2. Matched(leaf[l]) /\ Stores(leaf[l].keys, rt[l])
    BY <1>1, <1>2, <2>1 DEF AllMatched, InRow, Sorted
  <2>3. \A e \in Holds(leaf[l]) : e[1] \in rt[l]
    BY <2>2 DEF Stores, Holds, EntriesOf
  <2> QED BY <2>2, <2>3 DEF Stores
<1>10. rt \in Reach /\ Abreast(row, rt)
  BY <1>2 DEF InRow
<1>11. ASSUME NEW i \in 1..N, NEW j \in 1..N, i < j, NEW x \in rt[row[i]], NEW y \in rt[row[j]] PROVE x < y
  BY <1>10, <1>11, AbreastAscends
<1>12. \A i \in 1..N : i < N => leaf[row[i]].next = row[i + 1]
  <2>1. ChainIsLeafRow
    BY <1>1, ChainIsRow
  <2>2. \A i \in DOMAIN row : leaf[row[i]].next = IF i = Len(row) THEN 0 ELSE row[i + 1]
    BY <2>1 DEF ChainIsLeafRow
  <2> QED BY <1>3, <2>2
<1> HIDE DEF N
<1>13. \A i, j \in 1..N : i < j => \A e \in Holds(leaf[row[i]]), g \in Holds(leaf[row[j]]) : e[1] < g[1]
  BY <1>9, <1>11
<1>14. \A i \in 1..N : i < a => \A e \in Holds(leaf[row[i]]) : e[1] < k
  BY <1>7, <1>8, <1>9, <1>11
<1>15. \A i \in 1..N : a < i => \A e \in Holds(leaf[row[i]]) : k < e[1]
  BY <1>7, <1>8, <1>9, <1>11
<1> QED BY <1>3, <1>7, <1>9, <1>12, <1>13, <1>14, <1>15 DEF Home, N

(* The stock between two keys. *)
Within(lo, hi) == {e \in Stock(leaf) : lo <= e[1] /\ e[1] <= hi}

LEMMA BetweenIsStock ==
    ASSUME MapInv, Keyed(leaf), NEW lo, NEW hi
    PROVE  Between(Contents, lo, hi) = Within(lo, hi)
<1> DEFINE map == Contents
<1>1. /\ DOMAIN map = {k \in Key : \E v : <<k, v>> \in Stock(leaf)}
      /\ \A k \in DOMAIN map : \A v : <<k, v>> \in Stock(leaf) <=> map[k] = v
  BY ContentsAreHeld DEF Graph
<1> HIDE DEF map
<1>2. \A e \in Stock(leaf) : e = <<e[1], e[2]>> /\ e[1] \in Key
  <2> SUFFICES ASSUME NEW e \in Stock(leaf) PROVE e = <<e[1], e[2]>>
    BY DEF Keyed
  <2>1. PICK l \in DOMAIN leaf : e \in Holds(leaf[l])
    BY StockFacts
  <2> QED BY <2>1 DEF Holds, EntriesOf
<1>3. ASSUME NEW e PROVE e \in Between(map, lo, hi) <=> e \in Within(lo, hi)
  <2>1. ASSUME e \in Between(map, lo, hi) PROVE e \in Within(lo, hi)
    <3>1. PICK k \in DOMAIN map : lo <= k /\ k <= hi /\ e = <<k, map[k]>>
      BY <2>1 DEF Between
    <3>2. e \in Stock(leaf) /\ e[1] = k
      BY <1>1, <3>1
    <3> QED BY <3>1, <3>2 DEF Within
  <2>2. ASSUME e \in Within(lo, hi) PROVE e \in Between(map, lo, hi)
    <3>1. e \in Stock(leaf) /\ lo <= e[1] /\ e[1] <= hi
      BY <2>2 DEF Within
    <3>2. e = <<e[1], e[2]>> /\ e[1] \in Key
      BY <1>2, <3>1
    <3>3. e[1] \in DOMAIN map /\ <<e[1], e[2]>> \in Stock(leaf)
      <4>1. <<e[1], e[2]>> \in Stock(leaf)
        BY <3>1, <3>2
      <4>2. e[1] \in {k \in Key : \E v : <<k, v>> \in Stock(leaf)}
        BY <3>2, <4>1
      <4> QED BY <1>1, <4>1, <4>2
    <3>4. map[e[1]] = e[2]
      <4> DEFINE k == e[1]
                 v == e[2]
      <4>1. k \in DOMAIN map /\ <<k, v>> \in Stock(leaf)
        BY <3>3
      <4> HIDE DEF k, v
      <4>2. map[k] = v
        BY <1>1, <4>1
      <4> QED BY <4>2 DEF k, v
    <3> QED BY <3>1, <3>2, <3>3, <3>4 DEF Between
  <2> QED BY <2>1, <2>2
<1> QED BY <1>3 DEF map

ScanInv == MapInv /\ Tied /\ Keyed(leaf)

(* Where in the row of leaves a descent for k ends. *)
Spot(k) == CHOOSE i \in DOMAIN Row(height) : Row(height)[i] = Path(k)[height]

(* Two chains on which a scan of [lo, hi] with the limit max is exact. *)
Exact(ahead, back, lo, hi, max) ==
    /\ ForwardChain(ahead) /\ ReverseChain(back)
    /\ Lists(ScanForward(ahead, lo, hi, max), Between(Contents, lo, hi), TRUE, max)
    /\ Lists(ScanReverse(back, hi, lo, max), Between(Contents, lo, hi), FALSE, max)

(* A scan with any limit, given every leaf from the one a descent for its  *)
(* start ends at, is exact.                                                *)
LEMMA ScanIsExact ==
    ASSUME ScanInv, height > 0, NEW lo \in Key, NEW hi \in Key, NEW max \in Nat
    PROVE  Exact(From(Row(height), Spot(lo)), Reverse(UpTo(Row(height), Spot(hi))), lo, hi, max)
<1> DEFINE row == Row(height)
           a == Spot(lo)
           b == Spot(hi)
           ahead == From(row, a)
           back == Reverse(UpTo(row, b))
           E == Within(lo, hi)
<1>1. MapInv /\ Tied /\ Keyed(leaf)
  BY DEF ScanInv
<1>2. row = Row(height) /\ ahead = From(row, a) /\ back = Reverse(UpTo(row, b))
  OBVIOUS
<1>3. /\ a = CHOOSE i \in DOMAIN row : row[i] = Path(lo)[height]
      /\ b = CHOOSE i \in DOMAIN row : row[i] = Path(hi)[height]
  BY DEF Spot
<1>4. Between(Contents, lo, hi) = E /\ E = {e \in Stock(leaf) : lo <= e[1] /\ e[1] <= hi}
  BY <1>1, BetweenIsStock DEF Within
<1>5. lo \in Nat /\ hi \in Nat
  BY KeyIsIndex DEF Index
<1> HIDE DEF row, a, b, ahead, back, E
<1>6. Home(row, a, lo) /\ Home(row, b, hi)
  BY <1>1, <1>2, <1>3, FindsHome
<1>7. ForwardChain(ahead) /\ Lists(ScanForward(ahead, lo, hi, max), E, TRUE, max)
  BY <1>2, <1>4, <1>5, <1>6, ForwardIsExact
<1>8. ReverseChain(back) /\ Lists(ScanReverse(back, hi, lo, max), E, FALSE, max)
  BY <1>2, <1>4, <1>5, <1>6, ReverseIsExact
<1>9. Exact(ahead, back, lo, hi, max)
  BY <1>4, <1>7, <1>8 DEF Exact
<1> QED BY <1>9 DEF row, a, b, ahead, back

LEMMA ScansExact ==
    ASSUME ScanInv
    PROVE  ScansAreExact
<1> DEFINE row == Row(height)
           at == [k \in Key |-> CHOOSE i \in DOMAIN row : row[i] = Path(k)[height]]
<1> SUFFICES ASSUME height > 0, NEW lo \in Key, NEW hi \in Key, NEW max \in {2, 100}, lo <= hi
             PROVE  Exact(From(row, at[lo]), Reverse(UpTo(row, at[hi])), lo, hi, max)
  BY DEF ScansAreExact, Exact
<1>1. max \in Nat
  OBVIOUS
<1>2. at[lo] = Spot(lo) /\ at[hi] = Spot(hi)
  BY DEF Spot
<1>3. Exact(From(row, Spot(lo)), Reverse(UpTo(row, Spot(hi))), lo, hi, max)
  BY <1>1, ScanIsExact
<1> HIDE DEF row, at
<1> QED BY <1>2, <1>3

LEMMA KeysStay ==
    ASSUME MapInv, Keyed(leaf), [Next]_vars
    PROVE  Keyed(leaf')
<1>1. Trades(leaf, leaf')
  BY NextTrades
<1> SUFFICES ASSUME NEW e \in Stock(leaf') PROVE e[1] \in Key
  BY DEF Keyed
<1>2. CASE AddsKeys(Stock(leaf), Stock(leaf'))
  BY <1>2 DEF AddsKeys, Keyed
<1>3. ASSUME NEW k \in Key, Revalues(leaf, leaf', k) PROVE e[1] \in Key
  BY <1>3 DEF Revalues, Keyed
<1>4. ASSUME NEW k \in Key, Loses(leaf, leaf', k) PROVE e[1] \in Key
  BY <1>4 DEF Loses, Keyed
<1> QED BY <1>1, <1>2, <1>3, <1>4 DEF Trades

LEMMA ScanInvHolds == Spec => []ScanInv
<1>1. Init => Keyed(leaf)
  <2> SUFFICES ASSUME Init PROVE Keyed(leaf)
    OBVIOUS
  <2>1. DOMAIN leaf = {}
    BY DEF Init, NoNodes
  <2>2. \A e : e \notin Stock(leaf)
    BY <2>1, StockFacts
  <2> QED BY <2>2 DEF Keyed
<1>2. MapInv /\ Keyed(leaf) /\ [Next]_vars => Keyed(leaf')
  BY KeysStay
<1>3. Keyed(leaf') => Keyed(leaf)'
  BY DEF Keyed, Stock, Holds, EntriesOf
<1>4. MapInv /\ Keyed(leaf) /\ [Next]_vars => Keyed(leaf)'
  BY <1>2, <1>3
<1>5. Spec => []MapInv
  BY MapInvHolds
<1>6. Spec => []Tied
  BY ChainInvHolds, PTL DEF ChainInv
<1> QED BY <1>1, <1>4, <1>5, <1>6, PTL DEF Spec, ScanInv

(* A scan of the keys between two, started at the leaf a descent for its  *)
(* first key ends at and given the leaves from there in chain order       *)
(* (torna-sdk's scan_chain and the program's range_scan and its reverse), *)
(* returns the entries stored between them, each once, in order and up to *)
(* the limit, whatever splits, merges and borrows built the tree: the row *)
(* of leaves ascends, and the separators above it send both descents to   *)
(* the ends of the run that holds the range.                              *)
THEOREM ScansAreExactEver == Spec => []ScansAreExact
<1>1. ScanInv => ScansAreExact
  BY ScansExact
<1> QED BY <1>1, ScanInvHolds, PTL
=============================================================================
