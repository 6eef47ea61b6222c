--------------------------- MODULE TornaNodeProofs ---------------------------
(***************************************************************************)
(* Facts about the node operations of TornaNode, for nodes of any size.    *)
(*                                                                         *)
(* Induction is by a set: a set of naturals that holds 0 and, with each    *)
(* number, the next one holds them all.  It is proved here from the        *)
(* pigeonhole principle, and a fact is then proved for every n by proving  *)
(* that the set of the n it holds of is such a set.                        *)
(***************************************************************************)
EXTENDS TornaNode, FiniteSetTheorems, SequenceTheorems, TLAPS

LEMMA NatInductionOn ==
    ASSUME NEW A, 0 \in A, \A n \in Nat : n \in A => n + 1 \in A
    PROVE  \A n \in Nat : n \in A
<1> SUFFICES ASSUME NEW m \in Nat, m \notin A PROVE FALSE
  OBVIOUS
<1> DEFINE B == {n \in 0..m : n \in A}
           f == [n \in B |-> n + 1]
<1>1. IsFiniteSet(B)
  <2>1. IsFiniteSet(0..m)
    BY FS_Interval
  <2> QED BY <2>1, FS_Subset
<1>2. \A n \in B : n + 1 \in B
  OBVIOUS
<1>3. f \in [B -> B] /\ \A x, y \in B : f[x] = f[y] => x = y
  BY <1>2
<1>4. f \in Injection(B, B)
  BY <1>3 DEF Injection, IsInjective
<1>5. f \in Surjection(B, B)
  BY <1>1, <1>4, FS_Injection
<1>6. 0 \in B
  OBVIOUS
<1>7. PICK n \in B : f[n] = 0
  BY <1>5, <1>6 DEF Surjection
<1> QED BY <1>7

---------------------------------------------------------------------------
(* Order within a node *)

LEMMA AscendingPairs ==
    ASSUME NEW ks \in Seq(Nat), Ascending(ks)
    PROVE  \A j \in 1..Len(ks) : \A i \in 1..j - 1 : ks[i] < ks[j]
<1> DEFINE N == Len(ks)
           A == {j \in Nat : j \in 1..N => \A i \in 1..j - 1 : ks[i] < ks[j]}
<1>1. N \in Nat /\ \A i \in 1..N : ks[i] \in Nat
  BY ElementOfSeq, LenProperties
<1>2. \A i \in 1..N - 1 : ks[i] < ks[i + 1]
  BY DEF Ascending
<1> HIDE DEF N
<1>3. 0 \in A
  OBVIOUS
<1>4. ASSUME NEW n \in Nat, n \in A PROVE n + 1 \in A
  <2>1. SUFFICES ASSUME n + 1 \in 1..N, NEW i \in 1..n PROVE ks[i] < ks[n + 1]
    OBVIOUS
  <2>2. n \in 1..N - 1 /\ ks[n] < ks[n + 1] /\ ks[n + 1] \in Nat /\ ks[n] \in Nat /\ ks[i] \in Nat
    BY <1>1, <1>2, <2>1
  <2>3. i < n => ks[i] < ks[n]
    BY <1>1, <1>4, <2>2
  <2> QED BY <2>2, <2>3
<1>5. \A n \in Nat : n \in A
  <2> HIDE DEF A
  <2> QED BY <1>3, <1>4, NatInductionOn
<1> QED BY <1>1, <1>5 DEF N

(* The keys below k are the first so many. *)
LEMMA LowerBoundCuts ==
    ASSUME NEW ks \in Seq(Nat), Ascending(ks), NEW k \in Nat
    PROVE  /\ LowerBound(ks, k) \in 1..Len(ks) + 1
           /\ \A i \in 1..Len(ks) : ks[i] < k <=> i < LowerBound(ks, k)
<1> DEFINE N == Len(ks)
           D == {i \in DOMAIN ks : ks[i] < k}
           A == {n \in Nat : n <= N => \E m \in 0..n : \A i \in 1..n : ks[i] < k <=> i <= m}
<1>1. /\ N \in Nat /\ DOMAIN ks = 1..N /\ \A i \in 1..N : ks[i] \in Nat
      /\ \A j \in 1..N : \A i \in 1..j - 1 : ks[i] < ks[j]
  BY AscendingPairs, ElementOfSeq, LenProperties
<1> HIDE DEF N
<1>2. 0 \in A
  OBVIOUS
<1>3. ASSUME NEW n \in Nat, n \in A PROVE n + 1 \in A
  <2>1. SUFFICES ASSUME n + 1 <= N
                 PROVE  \E m \in 0..n + 1 : \A i \in 1..n + 1 : ks[i] < k <=> i <= m
    OBVIOUS
  <2>2. PICK m \in 0..n : \A i \in 1..n : ks[i] < k <=> i <= m
    BY <1>1, <1>3, <2>1
  <2>3. CASE ks[n + 1] < k
    <3>1. \A i \in 1..n + 1 : ks[i] < k
      <4>1. SUFFICES ASSUME NEW i \in 1..n + 1 PROVE ks[i] < k
        OBVIOUS
      <4>2. n + 1 \in 1..N /\ i \in 1..N /\ (i = n + 1 \/ i \in 1..n + 1 - 1)
        BY <1>1, <2>1
      <4>3. ks[i] \in Nat /\ ks[n + 1] \in Nat /\ (i = n + 1 \/ ks[i] < ks[n + 1])
        BY <1>1, <4>2
      <4> QED BY <2>3, <4>3
    <3> QED BY <3>1
  <2>4. CASE ~(ks[n + 1] < k)
    <3>1. m \in 0..n + 1 /\ \A i \in 1..n + 1 : ks[i] < k <=> i <= m
      BY <2>2, <2>4
    <3> QED BY <3>1
  <2> QED BY <2>3, <2>4
<1>4. N \in A
  <2> HIDE DEF A
  <2> QED BY <1>1, <1>2, <1>3, NatInductionOn
<1>5. PICK m \in 0..N : \A i \in 1..N : ks[i] < k <=> i <= m
  BY <1>1, <1>4
<1>6. D = 1..m
  BY <1>1, <1>5
<1>7. Cardinality(D) = m
  <2>1. m \in Nat
    BY <1>1, <1>5
  <2>2. Cardinality(1..m) = IF 1 > m THEN 0 ELSE m - 1 + 1
    BY <2>1, FS_Interval
  <2>3. Cardinality(1..m) = m
    BY <2>1, <2>2
  <2> QED BY <1>6, <2>3
<1>8. LowerBound(ks, k) = m + 1
  BY <1>7 DEF LowerBound
<1>9. \A i \in 1..N : ks[i] < k <=> i < m + 1
  BY <1>1, <1>5
<1> QED BY <1>1, <1>5, <1>8, <1>9 DEF N

(* A lower bound is a position, whatever the order of the keys. *)
LEMMA LowerBoundIsPosition ==
    ASSUME NEW S, NEW ks \in Seq(S), NEW k
    PROVE  LowerBound(ks, k) \in 1..Len(ks) + 1
<1> DEFINE D == {i \in DOMAIN ks : ks[i] < k}
<1>1. Len(ks) \in Nat /\ D \subseteq 1..Len(ks)
  BY LenProperties
<1>2. IsFiniteSet(1..Len(ks)) /\ Cardinality(1..Len(ks)) = Len(ks)
  <2> DEFINE N == Len(ks)
  <2>1. N \in Int /\ 1 \in Int /\ ~(1 > N) => N - 1 + 1 = N
    BY <1>1
  <2>2. N \in Nat
    BY <1>1
  <2> HIDE DEF N
  <2>3. IsFiniteSet(1..N) /\ Cardinality(1..N) = IF 1 > N THEN 0 ELSE N - 1 + 1
    BY ONLY <2>2, FS_Interval
  <2>4. Cardinality(1..N) = N
    BY <2>2, <2>3
  <2> QED BY <2>3, <2>4 DEF N
<1>3. IsFiniteSet(D) /\ Cardinality(D) <= Len(ks)
  BY <1>1, <1>2, FS_Subset
<1>4. Cardinality(D) \in Nat
  BY <1>3, FS_CardinalityType
<1> QED BY <1>1, <1>3, <1>4 DEF LowerBound

(* HasKey finds what is there. *)
LEMMA HasKeyFinds ==
    ASSUME NEW n, n.keys \in Seq(Nat), Ascending(n.keys), NEW k \in Nat
    PROVE  HasKey(n, k) <=> \E i \in 1..Len(n.keys) : n.keys[i] = k
<1> DEFINE ks == n.keys
           b == LowerBound(ks, k)
<1>1. /\ b \in 1..Len(ks) + 1 /\ \A i \in 1..Len(ks) : ks[i] < k <=> i < b
      /\ \A j \in 1..Len(ks) : \A i \in 1..j - 1 : ks[i] < ks[j]
      /\ \A i \in 1..Len(ks) : ks[i] \in Nat
      /\ Len(ks) \in Nat
  BY LowerBoundCuts, AscendingPairs, ElementOfSeq, LenProperties
<1>2. HasKey(n, k) <=> b <= Len(ks) /\ ks[b] = k
  BY DEF HasKey, KeyCount
<1> HIDE DEF b, ks
<1>3. ASSUME NEW i \in 1..Len(ks), ks[i] = k PROVE b = i
  <2>1. i >= b /\ b \in 1..Len(ks) /\ ks[b] >= k
    BY <1>1, <1>3
  <2>2. b < i => ks[b] < ks[i]
    BY <1>1, <2>1
  <2> QED BY <1>1, <1>3, <2>1, <2>2
<1>4. HasKey(n, k) <=> \E i \in 1..Len(ks) : ks[i] = k
  BY <1>1, <1>2, <1>3
<1> QED BY <1>4 DEF ks

---------------------------------------------------------------------------
(* The bisection *)

(* What the loop computes, as a function of where it stands. *)
Halves(s, keys, k) ==
    s = [r \in (0..Len(keys)) \X (0..Len(keys)) |->
            LET mid == (r[1] + r[2]) \div 2
            IN  IF r[1] >= r[2] THEN r[1]
                ELSE IF keys[mid + 1] < k THEN s[<<mid + 1, r[2]>>] ELSE s[<<r[1], mid>>]]

LEMMA BisectHalves ==
    ASSUME NEW keys, NEW k, \E s : Halves(s, keys, k)
    PROVE  \E s : Halves(s, keys, k) /\ Bisect(keys, k) = s[<<0, Len(keys)>>] + 1
<1> DEFINE s == CHOOSE s : Halves(s, keys, k)
<1>1. Halves(s, keys, k)
  OBVIOUS
<1>2. Bisect(keys, k) = s[<<0, Len(keys)>>] + 1
  BY Zenon DEF Bisect, Halves
<1> QED BY <1>1, <1>2

LEMMA Middle ==
    ASSUME NEW a \in Nat, NEW b \in Nat, a < b
    PROVE  (a + b) \div 2 \in Nat /\ a <= (a + b) \div 2 /\ (a + b) \div 2 < b
OBVIOUS

(* On every ascending array the bisection returns the lower bound of every *)
(* key, in the middle of the array, below it and above it.                 *)
THEOREM BisectionFindsLowerBound ==
    ASSUME NEW keys \in Seq(Nat), Ascending(keys), NEW k \in Nat
    PROVE  Bisect(keys, k) = LowerBound(keys, k)
<1> DEFINE N == Len(keys)
           c == LowerBound(keys, k) - 1
           Sq == (0..N) \X (0..N)
           Clamp(lo, hi) == IF lo >= hi THEN lo ELSE IF c < lo THEN lo ELSE IF c > hi THEN hi ELSE c
           w == [r \in Sq |-> Clamp(r[1], r[2])]
<1>1. N \in Nat /\ c \in 0..N /\ \A i \in 0..N - 1 : keys[i + 1] < k <=> i < c
  <2>1. N \in Nat
    BY LenProperties
  <2>2. /\ LowerBound(keys, k) \in 1..N + 1
        /\ \A i \in 1..N : keys[i] < k <=> i < LowerBound(keys, k)
    BY LowerBoundCuts
  <2> QED BY <2>1, <2>2
<1> HIDE DEF c, N
<1>2. ASSUME NEW lo \in 0..N, NEW hi \in 0..N, lo < hi
      PROVE  LET mid == (lo + hi) \div 2
             IN  /\ mid \in lo..hi - 1 /\ mid \in 0..N /\ mid + 1 \in 0..N
                 /\ Clamp(lo, hi) = IF keys[mid + 1] < k THEN Clamp(mid + 1, hi) ELSE Clamp(lo, mid)
  <2> DEFINE mid == (lo + hi) \div 2
  <2>1. mid \in Nat /\ lo <= mid /\ mid < hi
    BY <1>1, <1>2, Middle
  <2>2. mid \in 0..N - 1 /\ (keys[mid + 1] < k <=> mid < c)
    BY <1>1, <2>1
  <2> HIDE DEF mid
  <2>3. /\ mid \in lo..hi - 1 /\ mid \in 0..N /\ mid + 1 \in 0..N
        /\ Clamp(lo, hi) = IF keys[mid + 1] < k THEN Clamp(mid + 1, hi) ELSE Clamp(lo, mid)
    BY <1>1, <1>2, <2>1, <2>2
  <2> QED BY <2>3 DEF mid
<1>3. Clamp(0, N) = c /\ \A lo, hi \in 0..N : lo >= hi => Clamp(lo, hi) = lo
  BY <1>1
<1> HIDE DEF Clamp
(* The clamped bound solves the loop's equation ... *)
<1>4. Halves(w, keys, k)
  <2>1. \A lo, hi \in 0..N : w[<<lo, hi>>] = Clamp(lo, hi)
    OBVIOUS
  <2>2. ASSUME NEW r \in Sq
        PROVE  w[r] = LET mid == (r[1] + r[2]) \div 2
                      IN  IF r[1] >= r[2] THEN r[1]
                          ELSE IF keys[mid + 1] < k THEN w[<<mid + 1, r[2]>>] ELSE w[<<r[1], mid>>]
    <3>1. /\ r[1] \in 0..N /\ r[2] \in 0..N /\ r = <<r[1], r[2]>>
      OBVIOUS
    <3>2. CASE r[1] >= r[2]
      BY <1>3, <2>1, <3>1, <3>2
    <3>3. CASE r[1] < r[2]
      <4> DEFINE mid == (r[1] + r[2]) \div 2
      <4>1. /\ mid \in 0..N /\ mid + 1 \in 0..N
            /\ Clamp(r[1], r[2]) = IF keys[mid + 1] < k THEN Clamp(mid + 1, r[2]) ELSE Clamp(r[1], mid)
        BY <1>2, <3>1, <3>3
      <4> HIDE DEF mid
      <4>2. w[r] = IF keys[mid + 1] < k THEN w[<<mid + 1, r[2]>>] ELSE w[<<r[1], mid>>]
        BY <2>1, <3>1, <4>1
      <4>3. ~(r[1] >= r[2])
        BY <1>1, <3>1, <3>3
      <4> QED BY <4>2, <4>3 DEF mid
    <3> QED BY <1>1, <3>1, <3>2, <3>3
  <2> HIDE DEF w
  <2>3. w = [r \in Sq |-> w[r]]
    BY DEF w
  <2> QED BY <2>2, <2>3 DEF Halves, N
<1>5. PICK s : Halves(s, keys, k) /\ Bisect(keys, k) = s[<<0, N>>] + 1
  BY <1>4, BisectHalves DEF N
(* ... and nothing else does, by induction on the width of the interval.   *)
<1>6. ASSUME NEW lo \in 0..N, NEW hi \in 0..N
      PROVE  LET mid == (lo + hi) \div 2
             IN  s[<<lo, hi>>] = IF lo >= hi THEN lo
                                 ELSE IF keys[mid + 1] < k THEN s[<<mid + 1, hi>>] ELSE s[<<lo, mid>>]
  <2>1. <<lo, hi>> \in Sq
    OBVIOUS
  <2> QED BY <1>5, <2>1 DEF Halves, N
<1> DEFINE A == {d \in Nat : \A lo, hi \in 0..N : hi - lo <= d => s[<<lo, hi>>] = Clamp(lo, hi)}
<1>7. 0 \in A
  <2>1. SUFFICES ASSUME NEW lo \in 0..N, NEW hi \in 0..N, hi - lo <= 0 PROVE s[<<lo, hi>>] = Clamp(lo, hi)
    OBVIOUS
  <2>2. lo >= hi
    BY <1>1, <2>1
  <2> QED BY <1>3, <1>6, <2>2
<1>8. ASSUME NEW d \in Nat, d \in A PROVE d + 1 \in A
  <2>1. SUFFICES ASSUME NEW lo \in 0..N, NEW hi \in 0..N, hi - lo <= d + 1
                 PROVE  s[<<lo, hi>>] = Clamp(lo, hi)
    OBVIOUS
  <2>2. CASE lo >= hi
    BY <1>3, <1>6, <2>2
  <2>3. CASE lo < hi
    <3> DEFINE mid == (lo + hi) \div 2
    <3>1. /\ mid \in lo..hi - 1 /\ mid \in 0..N /\ mid + 1 \in 0..N
          /\ Clamp(lo, hi) = IF keys[mid + 1] < k THEN Clamp(mid + 1, hi) ELSE Clamp(lo, mid)
      BY <1>2, <2>3
    <3>2. s[<<lo, hi>>] = IF lo >= hi THEN lo
                          ELSE IF keys[mid + 1] < k THEN s[<<mid + 1, hi>>] ELSE s[<<lo, mid>>]
      BY <1>6
    <3> HIDE DEF mid
    <3>3. hi - (mid + 1) <= d /\ mid - lo <= d /\ ~(lo >= hi)
      BY <1>1, <2>1, <2>3, <3>1
    <3>4. s[<<mid + 1, hi>>] = Clamp(mid + 1, hi) /\ s[<<lo, mid>>] = Clamp(lo, mid)
      BY <1>8, <3>1, <3>3
    <3> QED BY <3>1, <3>2, <3>3, <3>4
  <2> QED BY <1>1, <2>2, <2>3
<1>9. N \in A
  <2> HIDE DEF A
  <2> QED BY <1>1, <1>7, <1>8, NatInductionOn
<1>10. s[<<0, N>>] = c
  <2>1. 0 \in 0..N /\ N \in 0..N /\ N - 0 <= N
    BY <1>1
  <2> QED BY <1>3, <1>9, <2>1
<1>11. LowerBound(keys, k) = c + 1
  <2>1. LowerBound(keys, k) \in Int
    BY <1>1, LowerBoundIsPosition
  <2> QED BY <2>1 DEF c
<1> QED BY <1>5, <1>10, <1>11

---------------------------------------------------------------------------
(* Sequences: what the edits of a node do to its entries, by position ... *)

LEMMA Positions ==
    ASSUME NEW S, NEW s \in Seq(S)
    PROVE  /\ Len(s) \in Nat /\ DOMAIN s = 1..Len(s)
           /\ \A i \in 1..Len(s) : s[i] \in S
BY LenProperties, ElementOfSeq

LEMMA UpToFacts ==
    ASSUME NEW S, NEW s \in Seq(S), NEW n \in 0..Len(s)
    PROVE  /\ UpTo(s, n) \in Seq(S) /\ Len(UpTo(s, n)) = n
           /\ \A j \in 1..n : UpTo(s, n)[j] = s[j]
<1>1. Len(s) \in Nat /\ \A i \in 1..n : s[i] \in S
  BY Positions
<1>2. /\ SubSeq(s, 1, n) \in Seq(S)
      /\ Len(SubSeq(s, 1, n)) = IF 1 <= n THEN n - 1 + 1 ELSE 0
      /\ \A i \in 1..n - 1 + 1 : SubSeq(s, 1, n)[i] = s[1 + i - 1]
  BY <1>1, SubSeqProperties
<1>3. n - 1 + 1 = n /\ (~(1 <= n) => n = 0) /\ \A i \in 1..n : 1 + i - 1 = i
  BY <1>1
<1> QED BY <1>2, <1>3 DEF UpTo

LEMMA FromFacts ==
    ASSUME NEW S, NEW s \in Seq(S), NEW n \in 1..Len(s) + 1
    PROVE  /\ From(s, n) \in Seq(S) /\ Len(From(s, n)) = Len(s) - n + 1
           /\ \A j \in 1..Len(s) - n + 1 : From(s, n)[j] = s[n + j - 1]
<1> DEFINE N == Len(s)
<1>1. N \in Nat /\ \A i \in n..N : s[i] \in S
  BY Positions
<1>2. /\ SubSeq(s, n, N) \in Seq(S)
      /\ Len(SubSeq(s, n, N)) = IF n <= N THEN N - n + 1 ELSE 0
      /\ \A i \in 1..N - n + 1 : SubSeq(s, n, N)[i] = s[n + i - 1]
  BY <1>1, SubSeqProperties
<1> HIDE DEF N
<1>3. ~(n <= N) => N - n + 1 = 0
  BY <1>1 DEF N
<1> QED BY <1>2, <1>3 DEF From, N

LEMMA InsertAtFacts ==
    ASSUME NEW S, NEW s \in Seq(S), NEW i \in 1..Len(s) + 1, NEW e \in S
    PROVE  /\ InsertAt(s, i, e) \in Seq(S) /\ Len(InsertAt(s, i, e)) = Len(s) + 1
           /\ \A j \in 1..Len(s) + 1 :
                InsertAt(s, i, e)[j] = IF j < i THEN s[j] ELSE IF j = i THEN e ELSE s[j - 1]
<1> DEFINE N == Len(s)
           a == UpTo(s, i - 1)
           b == From(s, i)
           ae == a \o <<e>>
<1>1. N \in Nat /\ i \in 1..N + 1
  BY Positions
<1>2. /\ a \in Seq(S) /\ Len(a) = i - 1 /\ \A j \in 1..i - 1 : a[j] = s[j]
  <2>1. i - 1 \in 0..N
    BY <1>1
  <2> QED BY <2>1, UpToFacts
<1>3. /\ b \in Seq(S) /\ Len(b) = N - i + 1 /\ \A j \in 1..N - i + 1 : b[j] = s[i + j - 1]
  BY FromFacts
<1>4. InsertAt(s, i, e) = ae \o b
  BY DEF InsertAt, UpTo, From
<1> HIDE DEF N, a, b
<1>5. /\ ae \in Seq(S) /\ Len(ae) = i
      /\ \A j \in 1..i : ae[j] = IF j < i THEN s[j] ELSE e
  <2>1. <<e>> \in Seq(S) /\ Len(<<e>>) = 1 /\ <<e>>[1] = e
    OBVIOUS
  <2>2. /\ ae \in Seq(S) /\ Len(ae) = Len(a) + 1
        /\ \A j \in 1..Len(a) + 1 : ae[j] = IF j <= Len(a) THEN a[j] ELSE <<e>>[j - Len(a)]
    BY <1>2, <2>1, ConcatProperties
  <2> QED BY <1>1, <1>2, <2>1, <2>2
<1> HIDE DEF ae
<1>6. /\ ae \o b \in Seq(S) /\ Len(ae \o b) = Len(ae) + Len(b)
      /\ \A j \in 1..Len(ae) + Len(b) : (ae \o b)[j] = IF j <= Len(ae) THEN ae[j] ELSE b[j - Len(ae)]
  BY <1>3, <1>5, ConcatProperties
<1>7. Len(ae) + Len(b) = N + 1
  BY <1>1, <1>3, <1>5
<1>8. ASSUME NEW j \in 1..N + 1
      PROVE  (ae \o b)[j] = IF j < i THEN s[j] ELSE IF j = i THEN e ELSE s[j - 1]
  <2>1. CASE j <= i
    BY <1>1, <1>5, <1>6, <1>7, <2>1
  <2>2. CASE j > i
    <3>1. j - i \in 1..N - i + 1 /\ i + (j - i) - 1 = j - 1 /\ ~(j <= i)
      BY <1>1, <2>2
    <3>2. b[j - i] = s[j - 1]
      BY <1>3, <3>1
    <3> QED BY <1>1, <1>5, <1>6, <1>7, <2>2, <3>1, <3>2
  <2>3. j <= i \/ j > i
    BY <1>1
  <2> QED BY <2>1, <2>2, <2>3
<1> QED BY <1>4, <1>6, <1>7, <1>8 DEF N

LEMMA RemoveAtFacts ==
    ASSUME NEW S, NEW s \in Seq(S), NEW i \in 1..Len(s)
    PROVE  /\ RemoveAt(s, i) \in Seq(S) /\ Len(RemoveAt(s, i)) = Len(s) - 1
           /\ \A j \in 1..Len(s) - 1 : RemoveAt(s, i)[j] = IF j < i THEN s[j] ELSE s[j + 1]
<1> DEFINE N == Len(s)
           a == UpTo(s, i - 1)
           b == From(s, i + 1)
<1>1. N \in Nat /\ i \in 1..N
  BY Positions
<1>2. /\ a \in Seq(S) /\ Len(a) = i - 1 /\ \A j \in 1..i - 1 : a[j] = s[j]
  <2>1. i - 1 \in 0..N
    BY <1>1
  <2> QED BY <2>1, UpToFacts
<1>3. /\ b \in Seq(S) /\ Len(b) = N - i /\ \A j \in 1..N - i : b[j] = s[i + j]
  <2>1. i + 1 \in 1..N + 1 /\ N - (i + 1) + 1 = N - i /\ \A j \in 1..N - i : i + 1 + j - 1 = i + j
    BY <1>1
  <2>2. /\ b \in Seq(S) /\ Len(b) = N - (i + 1) + 1
        /\ \A j \in 1..N - (i + 1) + 1 : b[j] = s[i + 1 + j - 1]
    BY <2>1, FromFacts
  <2> HIDE DEF b, N
  <2> QED BY <2>1, <2>2
<1>4. RemoveAt(s, i) = a \o b
  BY DEF RemoveAt, UpTo, From
<1> HIDE DEF N, a, b
<1>5. /\ a \o b \in Seq(S) /\ Len(a \o b) = Len(a) + Len(b)
      /\ \A j \in 1..Len(a) + Len(b) : (a \o b)[j] = IF j <= Len(a) THEN a[j] ELSE b[j - Len(a)]
  BY <1>2, <1>3, ConcatProperties
<1>6. Len(a) + Len(b) = N - 1
  BY <1>1, <1>2, <1>3
<1>7. ASSUME NEW j \in 1..N - 1
      PROVE  (a \o b)[j] = IF j < i THEN s[j] ELSE s[j + 1]
  <2>1. CASE j < i
    BY <1>1, <1>2, <1>5, <1>6, <2>1
  <2>2. CASE ~(j < i)
    <3>1. j - (i - 1) \in 1..N - i /\ i + (j - (i - 1)) = j + 1 /\ ~(j <= i - 1)
      BY <1>1, <2>2
    <3>2. b[j - (i - 1)] = s[j + 1]
      BY <1>3, <3>1
    <3> QED BY <1>1, <1>2, <1>5, <1>6, <2>2, <3>1, <3>2
  <2> QED BY <2>1, <2>2
<1> QED BY <1>4, <1>5, <1>6, <1>7 DEF N

LEMMA AppendFacts ==
    ASSUME NEW S, NEW s \in Seq(S), NEW e \in S
    PROVE  /\ Append(s, e) \in Seq(S) /\ Len(Append(s, e)) = Len(s) + 1
           /\ \A j \in 1..Len(s) + 1 : Append(s, e)[j] = IF j <= Len(s) THEN s[j] ELSE e
<1>1. /\ Append(s, e) \in Seq(S) /\ Len(Append(s, e)) = Len(s) + 1
      /\ \A j \in 1..Len(s) : Append(s, e)[j] = s[j]
      /\ Append(s, e)[Len(s) + 1] = e
  BY AppendProperties
<1>2. Len(s) \in Nat
  BY Positions
<1> QED BY <1>1, <1>2

LEMMA ConsFacts ==
    ASSUME NEW S, NEW s \in Seq(S), NEW e \in S
    PROVE  /\ <<e>> \o s \in Seq(S) /\ Len(<<e>> \o s) = Len(s) + 1
           /\ \A j \in 1..Len(s) + 1 : (<<e>> \o s)[j] = IF j = 1 THEN e ELSE s[j - 1]
<1>1. <<e>> \in Seq(S) /\ Len(<<e>>) = 1 /\ <<e>>[1] = e
  OBVIOUS
<1>2. /\ <<e>> \o s \in Seq(S) /\ Len(<<e>> \o s) = Len(<<e>>) + Len(s)
      /\ \A j \in 1..Len(<<e>>) + Len(s) :
            (<<e>> \o s)[j] = IF j <= Len(<<e>>) THEN <<e>>[j] ELSE s[j - Len(<<e>>)]
  BY <1>1, ConcatProperties
<1>3. Len(s) \in Nat
  BY Positions
<1> DEFINE t == <<e>> \o s
<1>4. /\ Len(t) = Len(s) + 1
      /\ \A j \in 1..Len(s) + 1 : t[j] = IF j <= 1 THEN <<e>>[j] ELSE s[j - 1]
  BY <1>1, <1>2, <1>3
<1> HIDE DEF t
<1>5. \A j \in 1..Len(s) + 1 : t[j] = IF j = 1 THEN e ELSE s[j - 1]
  BY <1>1, <1>3, <1>4
<1> QED BY <1>2, <1>4, <1>5 DEF t

LEMMA TailFacts ==
    ASSUME NEW S, NEW s \in Seq(S), Len(s) > 0
    PROVE  /\ Head(s) = s[1] /\ s[1] \in S
           /\ Tail(s) \in Seq(S) /\ Len(Tail(s)) = Len(s) - 1
           /\ \A j \in 1..Len(s) - 1 : Tail(s)[j] = s[j + 1]
<1>1. Len(s) \in Nat /\ s # <<>> /\ \A i \in 1..Len(s) : s[i] \in S
  BY Positions
<1>2. 1 \in 1..Len(s)
  BY <1>1
<1> QED BY <1>1, <1>2, HeadTailProperties

LEMMA FrontFacts ==
    ASSUME NEW S, NEW s \in Seq(S), Len(s) > 0
    PROVE  /\ Last(s) = s[Len(s)] /\ s[Len(s)] \in S
           /\ Front(s) \in Seq(S) /\ Len(Front(s)) = Len(s) - 1
           /\ \A j \in 1..Len(s) - 1 : Front(s)[j] = s[j]
<1>1. Len(s) \in Nat /\ \A i \in 1..Len(s) : s[i] \in S
  BY Positions
<1>2. Len(s) \in 1..Len(s) /\ Len(s) - 1 \in 0..Len(s)
  BY <1>1
<1>3. Front(s) = UpTo(s, Len(s) - 1)
  BY DEF Front, UpTo
<1> QED BY <1>1, <1>2, <1>3, UpToFacts DEF Last

LEMMA ConcatFacts ==
    ASSUME NEW S, NEW s \in Seq(S), NEW t \in Seq(S)
    PROVE  /\ s \o t \in Seq(S) /\ Len(s \o t) = Len(s) + Len(t)
           /\ \A j \in 1..Len(s) + Len(t) :
                (s \o t)[j] = IF j <= Len(s) THEN s[j] ELSE t[j - Len(s)]
BY ConcatProperties

(* ... and by what it holds: entries are added, removed and parted, and no *)
(* entry doubles.                                                          *)
LEMMA InsertAtHolds ==
    ASSUME NEW S, NEW s \in Seq(S), NEW i \in 1..Len(s) + 1, NEW e \in S,
           IsInjective(s), e \notin ToSet(s)
    PROVE  ToSet(InsertAt(s, i, e)) = ToSet(s) \cup {e} /\ IsInjective(InsertAt(s, i, e))
<1> DEFINE t == InsertAt(s, i, e)
           N == Len(s)
<1>1. N \in Nat /\ DOMAIN s = 1..N
  BY Positions
<1>2. /\ DOMAIN t = 1..N + 1
      /\ \A j \in 1..N + 1 : t[j] = IF j < i THEN s[j] ELSE IF j = i THEN e ELSE s[j - 1]
  <2>1. /\ t \in Seq(S) /\ Len(t) = N + 1
        /\ \A j \in 1..N + 1 : t[j] = IF j < i THEN s[j] ELSE IF j = i THEN e ELSE s[j - 1]
    BY InsertAtFacts
  <2> QED BY <2>1, Positions
<1>3. i \in 1..N + 1
  OBVIOUS
<1> HIDE DEF t, N
<1>4. ToSet(t) \subseteq ToSet(s) \cup {e}
  <2>1. ASSUME NEW j \in 1..N + 1 PROVE t[j] \in ToSet(s) \cup {e}
    <3>1. j < i => j \in 1..N
      BY <1>1, <1>3
    <3>2. j > i => j - 1 \in 1..N
      BY <1>1, <1>3
    <3>3. j < i \/ j = i \/ j > i
      BY <1>1, <1>3
    <3>4. j < i => t[j] \in ToSet(s)
      BY <1>1, <1>2, <3>1 DEF ToSet
    <3>5. j > i => t[j] \in ToSet(s)
      <4>1. j > i => t[j] = s[j - 1]
        BY <1>1, <1>2, <1>3
      <4> QED BY <1>1, <3>2, <4>1 DEF ToSet
    <3> QED BY <1>2, <3>3, <3>4, <3>5
  <2> QED BY <1>2, <2>1 DEF ToSet
<1>5. ToSet(s) \cup {e} \subseteq ToSet(t)
  <2>1. e \in ToSet(t)
    BY <1>2, <1>3 DEF ToSet
  <2>2. ASSUME NEW j \in 1..N PROVE s[j] \in ToSet(t)
    <3>1. CASE j < i
      <4>1. j \in 1..N + 1 /\ t[j] = s[j]
        BY <1>1, <1>2, <3>1
      <4> QED BY <1>2, <4>1 DEF ToSet
    <3>2. CASE ~(j < i)
      <4>1. j + 1 \in 1..N + 1 /\ ~(j + 1 < i) /\ j + 1 # i /\ j + 1 - 1 = j
        BY <1>1, <1>3, <3>2
      <4>2. t[j + 1] = s[j]
        BY <1>2, <4>1
      <4> QED BY <1>2, <4>1, <4>2 DEF ToSet
    <3> QED BY <3>1, <3>2
  <2> QED BY <1>1, <2>1, <2>2 DEF ToSet
<1>6. IsInjective(t)
  <2>1. \A a, b \in 1..N : s[a] = s[b] => a = b
    BY <1>1 DEF IsInjective
  <2>2. \A a \in 1..N : s[a] # e
    BY <1>1 DEF ToSet
  <2>3. ASSUME NEW a \in 1..N + 1, NEW b \in 1..N + 1, t[a] = t[b] PROVE a = b
    <3>1. \A j \in 1..N + 1 : /\ j < i => j \in 1..N /\ t[j] = s[j]
                              /\ j > i => j - 1 \in 1..N /\ t[j] = s[j - 1]
                              /\ j = i => t[j] = e
      BY <1>1, <1>2, <1>3
    <3>2. /\ a < i \/ a = i \/ a > i
          /\ b < i \/ b = i \/ b > i
      BY <1>1, <1>3
    <3>3. ASSUME a = i \/ b = i PROVE a = b
      BY <1>1, <1>3, <2>2, <2>3, <3>1, <3>2, <3>3
    <3>4. ASSUME a < i, b < i PROVE a = b
      BY <1>1, <1>3, <2>1, <2>3, <3>1, <3>4
    <3>5. ASSUME a > i, b > i PROVE a = b
      <4>1. a - 1 = b - 1
        BY <1>1, <1>3, <2>1, <2>3, <3>1, <3>5
      <4> QED BY <1>1, <4>1
    <3>6. ASSUME a < i, b > i PROVE FALSE
      <4>1. a = b - 1
        BY <1>1, <1>3, <2>1, <2>3, <3>1, <3>6
      <4> QED BY <1>1, <1>3, <3>6, <4>1
    <3>7. ASSUME a > i, b < i PROVE FALSE
      <4>1. a - 1 = b
        BY <1>1, <1>3, <2>1, <2>3, <3>1, <3>7
      <4> QED BY <1>1, <1>3, <3>7, <4>1
    <3> QED BY <3>2, <3>3, <3>4, <3>5, <3>6, <3>7
  <2> QED BY <1>2, <2>3 DEF IsInjective
<1> QED BY <1>4, <1>5, <1>6 DEF t

LEMMA RemoveAtHolds ==
    ASSUME NEW S, NEW s \in Seq(S), NEW i \in 1..Len(s), IsInjective(s)
    PROVE  ToSet(RemoveAt(s, i)) = ToSet(s) \ {s[i]} /\ IsInjective(RemoveAt(s, i))
<1> DEFINE t == RemoveAt(s, i)
           N == Len(s)
<1>1. N \in Nat /\ DOMAIN s = 1..N /\ i \in 1..N
  BY Positions
<1>2. DOMAIN t = 1..N - 1 /\ \A j \in 1..N - 1 : t[j] = IF j < i THEN s[j] ELSE s[j + 1]
  <2>1. t \in Seq(S) /\ Len(t) = N - 1 /\ \A j \in 1..N - 1 : t[j] = IF j < i THEN s[j] ELSE s[j + 1]
    BY RemoveAtFacts
  <2> QED BY <2>1, Positions
<1>3. \A a, b \in 1..N : s[a] = s[b] => a = b
  BY <1>1 DEF IsInjective
<1> HIDE DEF t, N
<1>4. \A j \in 1..N - 1 : /\ j < i => j \in 1..N /\ t[j] = s[j]
                          /\ ~(j < i) => j + 1 \in 1..N /\ j + 1 # i /\ t[j] = s[j + 1]
  BY <1>1, <1>2
<1>5. ToSet(t) \subseteq ToSet(s) \ {s[i]}
  <2>1. ASSUME NEW j \in 1..N - 1 PROVE t[j] \in ToSet(s) \ {s[i]}
    <3>1. j < i => j # i
      BY <1>1
    <3>2. PICK a \in 1..N : t[j] = s[a] /\ a # i
      BY <1>1, <1>3, <1>4, <3>1
    <3> QED BY <1>1, <1>3, <3>2 DEF ToSet
  <2> QED BY <1>2, <2>1 DEF ToSet
<1>6. ToSet(s) \ {s[i]} \subseteq ToSet(t)
  <2>1. ASSUME NEW a \in 1..N, a # i PROVE s[a] \in ToSet(t)
    <3>1. CASE a < i
      <4>1. a \in 1..N - 1 /\ t[a] = s[a]
        BY <1>1, <1>2, <3>1
      <4> QED BY <1>2, <4>1 DEF ToSet
    <3>2. CASE a > i
      <4>1. a - 1 \in 1..N - 1 /\ ~(a - 1 < i) /\ a - 1 + 1 = a
        BY <1>1, <3>2
      <4>2. t[a - 1] = s[a]
        BY <1>2, <4>1
      <4> QED BY <1>2, <4>1, <4>2 DEF ToSet
    <3> QED BY <1>1, <2>1, <3>1, <3>2
  <2> QED BY <1>1, <2>1 DEF ToSet
<1>7. IsInjective(t)
  <2>1. ASSUME NEW a \in 1..N - 1, NEW b \in 1..N - 1, t[a] = t[b] PROVE a = b
    <3>1. CASE a < i /\ b < i
      BY <1>1, <1>3, <1>4, <2>1, <3>1
    <3>2. CASE ~(a < i) /\ ~(b < i)
      <4>1. a + 1 = b + 1
        BY <1>3, <1>4, <2>1, <3>2
      <4> QED BY <1>1, <4>1
    <3>3. CASE a < i /\ ~(b < i)
      <4>1. a = b + 1
        BY <1>1, <1>3, <1>4, <2>1, <3>3
      <4> QED BY <1>1, <3>3, <4>1
    <3>4. CASE ~(a < i) /\ b < i
      <4>1. a + 1 = b
        BY <1>1, <1>3, <1>4, <2>1, <3>4
      <4> QED BY <1>1, <3>4, <4>1
    <3> QED BY <3>1, <3>2, <3>3, <3>4
  <2> QED BY <1>2, <2>1 DEF IsInjective
<1> QED BY <1>5, <1>6, <1>7 DEF t

LEMMA Parting ==
    ASSUME NEW S, NEW s \in Seq(S), NEW n \in 0..Len(s), IsInjective(s)
    PROVE  /\ ToSet(UpTo(s, n)) \cup ToSet(From(s, n + 1)) = ToSet(s)
           /\ ToSet(UpTo(s, n)) \cap ToSet(From(s, n + 1)) = {}
           /\ IsInjective(UpTo(s, n)) /\ IsInjective(From(s, n + 1))
<1> DEFINE a == UpTo(s, n)
           b == From(s, n + 1)
           N == Len(s)
<1>1. N \in Nat /\ DOMAIN s = 1..N /\ n \in 0..N /\ \A i, j \in 1..N : s[i] = s[j] => i = j
  BY Positions DEF IsInjective
<1>2. DOMAIN a = 1..n /\ \A j \in 1..n : a[j] = s[j]
  BY UpToFacts, Positions
<1>3. DOMAIN b = 1..N - n /\ \A j \in 1..N - n : b[j] = s[n + j]
  <2>1. n + 1 \in 1..N + 1
    BY <1>1
  <2>2. /\ b \in Seq(S) /\ Len(b) = N - (n + 1) + 1
        /\ \A j \in 1..N - (n + 1) + 1 : b[j] = s[n + 1 + j - 1]
    BY <2>1, FromFacts
  <2>3. DOMAIN b = 1..Len(b)
    BY <2>2, Positions
  <2> HIDE DEF b, N
  <2>4. N - (n + 1) + 1 = N - n /\ \A j \in 1..N - n : n + 1 + j - 1 = n + j
    BY <1>1
  <2> QED BY <2>2, <2>3, <2>4
<1> HIDE DEF a, b, N
<1>4. \A j \in 1..n : j \in 1..N
  BY <1>1
<1>5. \A j \in 1..N - n : n + j \in 1..N /\ n + j > n
  BY <1>1
<1>6. \A j \in 1..N : j \in 1..n \/ (j - n \in 1..N - n /\ n + (j - n) = j)
  BY <1>1
<1>7. ToSet(a) \cup ToSet(b) \subseteq ToSet(s)
  BY <1>1, <1>2, <1>3, <1>4, <1>5 DEF ToSet
<1>8. ToSet(s) \subseteq ToSet(a) \cup ToSet(b)
  <2>1. ASSUME NEW j \in 1..N PROVE s[j] \in ToSet(a) \cup ToSet(b)
    <3>1. CASE j \in 1..n
      BY <1>2, <3>1 DEF ToSet
    <3>2. CASE j - n \in 1..N - n /\ n + (j - n) = j
      <4>1. b[j - n] = s[j]
        BY <1>3, <3>2
      <4> QED BY <1>3, <3>2, <4>1 DEF ToSet
    <3> QED BY <1>6, <3>1, <3>2
  <2> QED BY <1>1, <2>1 DEF ToSet
<1>9. ToSet(a) \cap ToSet(b) = {}
  <2>1. ASSUME NEW i \in 1..n, NEW j \in 1..N - n, a[i] = b[j] PROVE FALSE
    <3>1. s[i] = s[n + j] /\ i \in 1..N /\ n + j \in 1..N /\ i # n + j
      BY <1>1, <1>2, <1>3, <1>4, <1>5, <2>1
    <3> QED BY <1>1, <3>1
  <2> QED BY <1>2, <1>3, <2>1 DEF ToSet
<1>10. IsInjective(a)
  BY <1>1, <1>2, <1>4 DEF IsInjective
<1>11. IsInjective(b)
  <2>1. ASSUME NEW i \in 1..N - n, NEW j \in 1..N - n, b[i] = b[j] PROVE i = j
    <3>1. s[n + i] = s[n + j] /\ n + i \in 1..N /\ n + j \in 1..N
      BY <1>3, <1>5, <2>1
    <3>2. n + i = n + j
      BY <1>1, <3>1
    <3> QED BY <1>1, <3>2
  <2> QED BY <1>3, <2>1 DEF IsInjective
<1> QED BY <1>7, <1>8, <1>9, <1>10, <1>11 DEF a, b

LEMMA ConcatHolds ==
    ASSUME NEW S, NEW s \in Seq(S), NEW t \in Seq(S)
    PROVE  /\ ToSet(s \o t) = ToSet(s) \cup ToSet(t)
           /\ IsInjective(s) /\ IsInjective(t) /\ ToSet(s) \cap ToSet(t) = {} => IsInjective(s \o t)
<1> DEFINE u == s \o t
           M == Len(s)
           N == Len(t)
<1>1. M \in Nat /\ N \in Nat /\ DOMAIN s = 1..M /\ DOMAIN t = 1..N
  BY Positions
<1>2. DOMAIN u = 1..M + N /\ \A j \in 1..M + N : u[j] = IF j <= M THEN s[j] ELSE t[j - M]
  <2>1. /\ u \in Seq(S) /\ Len(u) = M + N
        /\ \A j \in 1..M + N : u[j] = IF j <= M THEN s[j] ELSE t[j - M]
    BY ConcatFacts
  <2> QED BY <2>1, Positions
<1> HIDE DEF u, M, N
<1>3. \A j \in 1..M + N : /\ j <= M => j \in 1..M /\ u[j] = s[j]
                          /\ j > M => j - M \in 1..N /\ u[j] = t[j - M]
  BY <1>1, <1>2
<1>4. ToSet(u) \subseteq ToSet(s) \cup ToSet(t)
  <2>1. \A j \in 1..M + N : j <= M \/ j > M
    BY <1>1
  <2>2. ASSUME NEW j \in 1..M + N PROVE u[j] \in ToSet(s) \cup ToSet(t)
    <3>1. CASE j <= M
      BY <1>1, <1>3, <3>1 DEF ToSet
    <3>2. CASE j > M
      <4>1. j - M \in 1..N /\ u[j] = t[j - M]
        BY <1>1, <1>3, <3>2
      <4> QED BY <1>1, <4>1 DEF ToSet
    <3> QED BY <2>1, <3>1, <3>2
  <2> QED BY <1>2, <2>2 DEF ToSet
<1>5. ToSet(s) \subseteq ToSet(u)
  <2>1. \A j \in 1..M : j \in 1..M + N /\ u[j] = s[j]
    BY <1>1, <1>2
  <2> QED BY <1>1, <1>2, <2>1 DEF ToSet
<1>6. ToSet(t) \subseteq ToSet(u)
  <2>1. ASSUME NEW j \in 1..N PROVE M + j \in 1..M + N /\ u[M + j] = t[j]
    <3>1. M + j \in 1..M + N /\ ~(M + j <= M) /\ M + j - M = j
      BY <1>1
    <3>2. u[M + j] = t[M + j - M]
      BY <1>1, <1>2, <3>1
    <3> QED BY <3>1, <3>2
  <2>2. DOMAIN t = 1..N /\ DOMAIN u = 1..M + N
    BY <1>1, <1>2
  <2> HIDE DEF u
  <2>3. \A j \in DOMAIN t : t[j] \in ToSet(u)
    BY <2>1, <2>2 DEF ToSet
  <2> QED BY <2>3 DEF ToSet
<1>7. ASSUME IsInjective(s), IsInjective(t), ToSet(s) \cap ToSet(t) = {} PROVE IsInjective(u)
  <2>1. /\ \A a, b \in 1..M : s[a] = s[b] => a = b
        /\ \A a, b \in 1..N : t[a] = t[b] => a = b
        /\ \A a \in 1..M, b \in 1..N : s[a] # t[b]
    <3>1. DOMAIN s = 1..M /\ DOMAIN t = 1..N
      BY <1>1
    <3>2. \A a \in 1..M, b \in 1..N : s[a] \in ToSet(s) /\ t[b] \in ToSet(t)
      BY <3>1 DEF ToSet
    <3> QED BY <1>7, <3>1, <3>2 DEF IsInjective
  <2>2. ASSUME NEW a \in 1..M + N, NEW b \in 1..M + N, u[a] = u[b] PROVE a = b
    <3>1. (a <= M \/ a > M) /\ (b <= M \/ b > M)
      BY <1>1
    <3>2. CASE a <= M /\ b <= M
      BY <1>1, <1>3, <2>1, <2>2, <3>2
    <3>3. CASE a > M /\ b > M
      <4>1. a - M = b - M
        BY <1>1, <1>3, <2>1, <2>2, <3>3
      <4> QED BY <1>1, <4>1
    <3>4. CASE a <= M /\ b > M
      BY <1>1, <1>3, <2>1, <2>2, <3>4
    <3>5. CASE a > M /\ b <= M
      BY <1>1, <1>3, <2>1, <2>2, <3>5
    <3> QED BY <3>1, <3>2, <3>3, <3>4, <3>5
  <2> QED BY <1>2, <2>2 DEF IsInjective
<1> QED BY <1>4, <1>5, <1>6, <1>7 DEF u

LEMMA EndsAreEdits ==
    ASSUME NEW S, NEW s \in Seq(S), NEW e \in S
    PROVE  /\ Append(s, e) = InsertAt(s, Len(s) + 1, e)
           /\ <<e>> \o s = InsertAt(s, 1, e)
           /\ Len(s) > 0 => Tail(s) = RemoveAt(s, 1) /\ Front(s) = RemoveAt(s, Len(s))
<1>1. Len(s) \in Nat /\ Len(s) + 1 \in 1..Len(s) + 1 /\ 1 \in 1..Len(s) + 1
  BY Positions
<1>2. Append(s, e) = InsertAt(s, Len(s) + 1, e)
  <2>1. /\ InsertAt(s, Len(s) + 1, e) \in Seq(S) /\ Len(InsertAt(s, Len(s) + 1, e)) = Len(s) + 1
        /\ \A j \in 1..Len(s) + 1 : InsertAt(s, Len(s) + 1, e)[j] =
              IF j < Len(s) + 1 THEN s[j] ELSE IF j = Len(s) + 1 THEN e ELSE s[j - 1]
    <3> DEFINE i == Len(s) + 1
    <3>1. i \in 1..Len(s) + 1
      BY <1>1
    <3> HIDE DEF i
    <3>2. /\ InsertAt(s, i, e) \in Seq(S) /\ Len(InsertAt(s, i, e)) = Len(s) + 1
          /\ \A j \in 1..Len(s) + 1 : InsertAt(s, i, e)[j] = IF j < i THEN s[j] ELSE IF j = i THEN e ELSE s[j - 1]
      BY <3>1, InsertAtFacts
    <3> QED BY <3>2 DEF i
  <2>2. /\ Append(s, e) \in Seq(S) /\ Len(Append(s, e)) = Len(s) + 1
        /\ \A j \in 1..Len(s) + 1 : Append(s, e)[j] = IF j <= Len(s) THEN s[j] ELSE e
    BY AppendFacts
  <2>3. \A j \in 1..Len(s) + 1 : Append(s, e)[j] = InsertAt(s, Len(s) + 1, e)[j]
    <3>1. \A j \in 1..Len(s) + 1 : (j <= Len(s) <=> j < Len(s) + 1) /\ (~(j <= Len(s)) => j = Len(s) + 1)
      BY <1>1
    <3> QED BY <2>1, <2>2, <3>1
  <2> QED BY <2>1, <2>2, <2>3, SeqEqual
<1>3. <<e>> \o s = InsertAt(s, 1, e)
  <2>1. /\ InsertAt(s, 1, e) \in Seq(S) /\ Len(InsertAt(s, 1, e)) = Len(s) + 1
        /\ \A j \in 1..Len(s) + 1 :
              InsertAt(s, 1, e)[j] = IF j < 1 THEN s[j] ELSE IF j = 1 THEN e ELSE s[j - 1]
    BY <1>1, InsertAtFacts
  <2>2. /\ <<e>> \o s \in Seq(S) /\ Len(<<e>> \o s) = Len(s) + 1
        /\ \A j \in 1..Len(s) + 1 : (<<e>> \o s)[j] = IF j = 1 THEN e ELSE s[j - 1]
    BY ConsFacts
  <2>3. \A j \in 1..Len(s) + 1 : ~(j < 1)
    BY <1>1
  <2>4. \A j \in 1..Len(s) + 1 : (<<e>> \o s)[j] = InsertAt(s, 1, e)[j]
    BY <2>1, <2>2, <2>3
  <2> QED BY <2>1, <2>2, <2>4, SeqEqual
<1>4. ASSUME Len(s) > 0 PROVE Tail(s) = RemoveAt(s, 1)
  <2>0. 1 \in 1..Len(s)
    BY <1>1, <1>4
  <2>1. /\ RemoveAt(s, 1) \in Seq(S) /\ Len(RemoveAt(s, 1)) = Len(s) - 1
        /\ \A j \in 1..Len(s) - 1 : RemoveAt(s, 1)[j] = IF j < 1 THEN s[j] ELSE s[j + 1]
    BY <2>0, RemoveAtFacts
  <2>2. /\ Tail(s) \in Seq(S) /\ Len(Tail(s)) = Len(s) - 1
        /\ \A j \in 1..Len(s) - 1 : Tail(s)[j] = s[j + 1]
    BY <1>4, TailFacts
  <2>3. \A j \in 1..Len(s) - 1 : ~(j < 1)
    BY <1>1
  <2>4. \A j \in 1..Len(s) - 1 : Tail(s)[j] = RemoveAt(s, 1)[j]
    BY <2>1, <2>2, <2>3
  <2> QED BY <2>1, <2>2, <2>4, SeqEqual
<1>5. ASSUME Len(s) > 0 PROVE Front(s) = RemoveAt(s, Len(s))
  <2>0. Len(s) \in 1..Len(s)
    BY <1>1, <1>5
  <2>1. /\ RemoveAt(s, Len(s)) \in Seq(S) /\ Len(RemoveAt(s, Len(s))) = Len(s) - 1
        /\ \A j \in 1..Len(s) - 1 : RemoveAt(s, Len(s))[j] = IF j < Len(s) THEN s[j] ELSE s[j + 1]
    BY <2>0, RemoveAtFacts
  <2>2. /\ Front(s) \in Seq(S) /\ Len(Front(s)) = Len(s) - 1
        /\ \A j \in 1..Len(s) - 1 : Front(s)[j] = s[j]
    BY <1>5, FrontFacts
  <2>3. \A j \in 1..Len(s) - 1 : j < Len(s)
    BY <1>1
  <2>4. \A j \in 1..Len(s) - 1 : Front(s)[j] = RemoveAt(s, Len(s))[j]
    BY <2>1, <2>2, <2>3
  <2> QED BY <2>1, <2>2, <2>4, SeqEqual
<1> QED BY <1>2, <1>3, <1>4, <1>5

LEMMA EndIsEdit ==
    ASSUME NEW S, NEW s \in Seq(S), Len(s) > 0
    PROVE  Tail(s) = RemoveAt(s, 1) /\ Front(s) = RemoveAt(s, Len(s))
<1>1. s[1] \in S
  BY Positions
<1> QED BY <1>1, EndsAreEdits

---------------------------------------------------------------------------
(* Internal nodes: one more child than keys, and no child twice. *)

Index == Nat   \* node indices and keys

NodeOK(node) ==
    /\ node = [keys |-> node.keys, kids |-> node.kids]
    /\ node.keys \in Seq(Index) /\ node.kids \in Seq(Index)
    /\ Len(node.kids) = Len(node.keys) + 1
    /\ IsInjective(node.kids)

(* Where a key may go, and where one is. *)
Slots(node) == 1..Len(node.keys) + 1
Occupied(node) == 1..Len(node.keys)

LEMMA InsertedOK ==
    ASSUME NEW n, NodeOK(n), NEW i \in Slots(n), NEW sep \in Index,
           NEW kid \in Index, kid \notin ToSet(n.kids)
    PROVE  LET m == InternalInsertAt(n, i, sep, kid)
           IN  NodeOK(m) /\ ToSet(m.kids) = ToSet(n.kids) \cup {kid} /\ Len(m.keys) = Len(n.keys) + 1
<1> DEFINE ks == n.keys
           cs == n.kids
           m == InternalInsertAt(n, i, sep, kid)
<1>1. ks \in Seq(Index) /\ cs \in Seq(Index) /\ Len(cs) = Len(ks) + 1 /\ IsInjective(cs)
  BY DEF NodeOK
<1>2. m.keys = InsertAt(ks, i, sep) /\ m.kids = InsertAt(cs, i + 1, kid) /\ m = [keys |-> m.keys, kids |-> m.kids]
  BY DEF InternalInsertAt
<1>3. i \in 1..Len(ks) + 1 /\ kid \notin ToSet(cs)
  BY DEF Slots
<1> HIDE DEF ks, cs, m
<1>4. i + 1 \in 1..Len(cs) + 1
  BY <1>1, <1>3, Positions
<1>5. InsertAt(ks, i, sep) \in Seq(Index) /\ Len(InsertAt(ks, i, sep)) = Len(ks) + 1
  BY <1>1, <1>3, InsertAtFacts
<1>6. InsertAt(cs, i + 1, kid) \in Seq(Index) /\ Len(InsertAt(cs, i + 1, kid)) = Len(cs) + 1
  BY <1>1, <1>4, InsertAtFacts
<1>7. ToSet(m.kids) = ToSet(cs) \cup {kid} /\ IsInjective(m.kids)
  BY <1>1, <1>2, <1>3, <1>4, InsertAtHolds
<1>8. NodeOK(m)
  BY <1>1, <1>2, <1>5, <1>6, <1>7 DEF NodeOK
<1> QED BY <1>2, <1>5, <1>7, <1>8 DEF m, ks, cs

LEMMA HalfOf ==
    ASSUME NEW x \in Nat, x > 0
    PROVE  x \div 2 \in Nat /\ x \div 2 < x
OBVIOUS

LEMMA SplitOK ==
    ASSUME NEW n, NodeOK(n), Len(n.keys) > 0
    PROVE  LET halves == InternalSplit(n)
               mid == Len(n.keys) \div 2
           IN  /\ NodeOK(halves.left) /\ NodeOK(halves.right) /\ halves.sep \in Index
               /\ Len(halves.left.keys) = mid /\ Len(halves.right.keys) = Len(n.keys) - mid - 1
               /\ ToSet(halves.left.kids) \cup ToSet(halves.right.kids) = ToSet(n.kids)
               /\ ToSet(halves.left.kids) \cap ToSet(halves.right.kids) = {}
<1> DEFINE mid == Len(n.keys) \div 2
           a == [keys |-> UpTo(n.keys, mid), kids |-> UpTo(n.kids, mid + 1)]
           b == [keys |-> From(n.keys, mid + 2), kids |-> From(n.kids, mid + 2)]
<1>1. n.keys \in Seq(Index) /\ n.kids \in Seq(Index) /\ Len(n.kids) = Len(n.keys) + 1 /\ IsInjective(n.kids)
  BY DEF NodeOK
<1>2. InternalSplit(n) = [left |-> a, right |-> b, sep |-> n.keys[mid + 1]]
  BY DEF InternalSplit, KeyCount
<1>3. Len(n.keys) \in Nat /\ mid \in Nat /\ mid < Len(n.keys)
  <2>1. Len(n.keys) \in Nat
    BY <1>1, Positions
  <2> QED BY <2>1, HalfOf
<1> HIDE DEF mid
<1>4. /\ mid \in 0..Len(n.keys) /\ mid + 1 \in 0..Len(n.kids) /\ mid + 1 \in 1..Len(n.keys)
      /\ mid + 2 \in 1..Len(n.keys) + 1 /\ mid + 2 \in 1..Len(n.kids) + 1 /\ mid + 1 + 1 = mid + 2
  BY <1>1, <1>3
<1>5. n.keys[mid + 1] \in Index
  BY <1>1, <1>4, Positions
<1>6. a.keys \in Seq(Index) /\ Len(a.keys) = mid /\ a.kids \in Seq(Index) /\ Len(a.kids) = mid + 1
  <2>1. UpTo(n.keys, mid) \in Seq(Index) /\ Len(UpTo(n.keys, mid)) = mid
    BY <1>1, <1>4, UpToFacts
  <2>2. UpTo(n.kids, mid + 1) \in Seq(Index) /\ Len(UpTo(n.kids, mid + 1)) = mid + 1
    BY <1>1, <1>4, UpToFacts
  <2> QED BY <2>1, <2>2
<1>7. b.keys \in Seq(Index) /\ Len(b.keys) = Len(n.keys) - (mid + 2) + 1
  BY <1>1, <1>4, FromFacts
<1>8. b.kids \in Seq(Index) /\ Len(b.kids) = Len(n.kids) - (mid + 2) + 1
  BY <1>1, <1>4, FromFacts
<1>9. /\ ToSet(a.kids) \cup ToSet(b.kids) = ToSet(n.kids) /\ ToSet(a.kids) \cap ToSet(b.kids) = {}
      /\ IsInjective(a.kids) /\ IsInjective(b.kids)
  BY <1>1, <1>4, Parting
<1>10. NodeOK(a)
  BY <1>6, <1>9 DEF NodeOK
<1>11. b = [keys |-> b.keys, kids |-> b.kids]
  OBVIOUS
<1> HIDE DEF a, b
<1>12. Len(b.keys) = Len(n.keys) - mid - 1 /\ Len(b.kids) = Len(b.keys) + 1
  BY <1>1, <1>3, <1>7, <1>8
<1>13. NodeOK(b)
  BY <1>7, <1>8, <1>9, <1>11, <1>12 DEF NodeOK
<1>14. LET halves == InternalSplit(n)
       IN  halves.left = a /\ halves.right = b /\ halves.sep \in Index
  BY <1>2, <1>5
<1> QED BY <1>6, <1>9, <1>10, <1>12, <1>13, <1>14 DEF mid

LEMMA RemovedOK ==
    ASSUME NEW n, NodeOK(n), NEW i \in Occupied(n)
    PROVE  LET m == InternalRemoveAt(n, i)
           IN  NodeOK(m) /\ ToSet(m.kids) = ToSet(n.kids) \ {n.kids[i + 1]} /\ Len(m.keys) = Len(n.keys) - 1
<1> DEFINE m == InternalRemoveAt(n, i)
<1>1. n.keys \in Seq(Index) /\ n.kids \in Seq(Index) /\ Len(n.kids) = Len(n.keys) + 1 /\ IsInjective(n.kids)
  BY DEF NodeOK
<1>2. Len(n.keys) \in Nat /\ i + 1 \in 1..Len(n.kids) /\ i \in 1..Len(n.keys)
  BY <1>1, Positions DEF Occupied
<1>3. m = [keys |-> RemoveAt(n.keys, i), kids |-> RemoveAt(n.kids, i + 1)]
  BY DEF InternalRemoveAt
<1>4. m.keys \in Seq(Index) /\ Len(m.keys) = Len(n.keys) - 1
  <2>1. RemoveAt(n.keys, i) \in Seq(Index) /\ Len(RemoveAt(n.keys, i)) = Len(n.keys) - 1
    BY <1>1, <1>2, RemoveAtFacts
  <2> QED BY <1>3, <2>1
<1>5. m.kids \in Seq(Index) /\ Len(m.kids) = Len(n.kids) - 1
  <2>1. RemoveAt(n.kids, i + 1) \in Seq(Index) /\ Len(RemoveAt(n.kids, i + 1)) = Len(n.kids) - 1
    BY <1>1, <1>2, RemoveAtFacts
  <2> QED BY <1>3, <2>1
<1>6. ToSet(m.kids) = ToSet(n.kids) \ {n.kids[i + 1]} /\ IsInjective(m.kids)
  BY <1>1, <1>2, <1>3, RemoveAtHolds
<1>7. m = [keys |-> m.keys, kids |-> m.kids] /\ Len(m.kids) = Len(m.keys) + 1
  BY <1>1, <1>2, <1>3, <1>4, <1>5
<1> QED BY <1>4, <1>5, <1>6, <1>7 DEF NodeOK

LEMMA RemovedFirstOK ==
    ASSUME NEW n, NodeOK(n), Len(n.keys) > 0
    PROVE  LET m == InternalRemoveFirst(n)
           IN  NodeOK(m) /\ ToSet(m.kids) = ToSet(n.kids) \ {n.kids[1]} /\ Len(m.keys) = Len(n.keys) - 1
<1> DEFINE m == InternalRemoveFirst(n)
<1>1. n.keys \in Seq(Index) /\ n.kids \in Seq(Index) /\ Len(n.kids) = Len(n.keys) + 1 /\ IsInjective(n.kids)
  BY DEF NodeOK
<1>2. Len(n.keys) \in Nat /\ 1 \in 1..Len(n.kids) /\ Len(n.kids) > 0 /\ 1 \in Nat
  BY <1>1, Positions
<1>3. m = [keys |-> Tail(n.keys), kids |-> Tail(n.kids)] /\ Tail(n.kids) = RemoveAt(n.kids, 1)
  <2>1. Tail(n.kids) = RemoveAt(n.kids, 1)
    BY <1>1, <1>2, EndIsEdit
  <2> QED BY <2>1 DEF InternalRemoveFirst
<1>4. m.keys \in Seq(Index) /\ Len(m.keys) = Len(n.keys) - 1
  BY <1>1, <1>3, TailFacts
<1>5. m.kids \in Seq(Index) /\ Len(m.kids) = Len(n.kids) - 1
  BY <1>1, <1>2, <1>3, TailFacts
<1>6. ToSet(m.kids) = ToSet(n.kids) \ {n.kids[1]} /\ IsInjective(m.kids)
  BY <1>1, <1>2, <1>3, RemoveAtHolds
<1>7. m = [keys |-> m.keys, kids |-> m.kids] /\ Len(m.kids) = Len(m.keys) + 1
  BY <1>1, <1>2, <1>3, <1>4, <1>5
<1> QED BY <1>4, <1>5, <1>6, <1>7 DEF NodeOK

(* One kid has moved across. *)
TakenFirst(h, left, right) ==
    /\ NodeOK(h.left) /\ NodeOK(h.right) /\ h.sep \in Index
    /\ ToSet(h.left.kids) = ToSet(left.kids) \cup {right.kids[1]}
    /\ ToSet(h.right.kids) = ToSet(right.kids) \ {right.kids[1]}
    /\ Len(h.left.keys) = Len(left.keys) + 1 /\ Len(h.right.keys) = Len(right.keys) - 1

GivenLast(h, left, right) ==
    /\ NodeOK(h.left) /\ NodeOK(h.right) /\ h.sep \in Index
    /\ ToSet(h.left.kids) = ToSet(left.kids) \ {left.kids[Len(left.kids)]}
    /\ ToSet(h.right.kids) = ToSet(right.kids) \cup {left.kids[Len(left.kids)]}
    /\ Len(h.left.keys) = Len(left.keys) - 1 /\ Len(h.right.keys) = Len(right.keys) + 1

LEMMA BorrowedFromRightOK ==
    ASSUME NEW left, NEW right, NEW sep, NodeOK(left), NodeOK(right), sep \in Index,
           Len(right.keys) > 0, right.kids[1] \notin ToSet(left.kids)
    PROVE  TakenFirst(InternalBorrowFromRight(left, right, sep), left, right)
<1> DEFINE a == [keys |-> Append(left.keys, sep), kids |-> Append(left.kids, Head(right.kids))]
           b == InternalRemoveFirst(right)
<1>1. /\ left.keys \in Seq(Index) /\ left.kids \in Seq(Index) /\ Len(left.kids) = Len(left.keys) + 1
      /\ IsInjective(left.kids)
      /\ right.keys \in Seq(Index) /\ right.kids \in Seq(Index) /\ Len(right.kids) = Len(right.keys) + 1
  BY DEF NodeOK
<1>2. /\ Head(right.kids) = right.kids[1] /\ right.kids[1] \in Index
      /\ Head(right.keys) \in Index
  <2>1. Len(right.keys) \in Nat /\ Len(right.kids) > 0
    BY <1>1, Positions
  <2> QED BY <1>1, <2>1, TailFacts
<1>3. a.keys \in Seq(Index) /\ Len(a.keys) = Len(left.keys) + 1
  BY <1>1, AppendFacts
<1>4. a.kids \in Seq(Index) /\ Len(a.kids) = Len(left.kids) + 1
  BY <1>1, <1>2, AppendFacts
<1>5. ToSet(a.kids) = ToSet(left.kids) \cup {right.kids[1]} /\ IsInjective(a.kids)
  <2>1. a.kids = InsertAt(left.kids, Len(left.kids) + 1, right.kids[1])
    BY <1>1, <1>2, EndsAreEdits
  <2>2. Len(left.kids) + 1 \in 1..Len(left.kids) + 1
    BY <1>1, Positions
  <2>3. right.kids[1] \notin ToSet(left.kids)
    OBVIOUS
  <2>4. /\ ToSet(InsertAt(left.kids, Len(left.kids) + 1, right.kids[1])) = ToSet(left.kids) \cup {right.kids[1]}
        /\ IsInjective(InsertAt(left.kids, Len(left.kids) + 1, right.kids[1]))
    <3> DEFINE s == left.kids
               e == right.kids[1]
    <3> HIDE DEF s, e
    <3> SUFFICES ToSet(InsertAt(s, Len(s) + 1, e)) = ToSet(s) \cup {e} /\ IsInjective(InsertAt(s, Len(s) + 1, e))
      BY DEF s, e
    <3>1. s \in Seq(Index) /\ e \in Index /\ IsInjective(s) /\ e \notin ToSet(s) /\ Len(s) + 1 \in 1..Len(s) + 1
      BY <1>1, <1>2, <2>2, <2>3 DEF s, e
    <3> QED BY <3>1, InsertAtHolds
  <2> QED BY <2>1, <2>4
<1>6. NodeOK(a)
  BY <1>1, <1>3, <1>4, <1>5 DEF NodeOK
<1>7. NodeOK(b) /\ ToSet(b.kids) = ToSet(right.kids) \ {right.kids[1]} /\ Len(b.keys) = Len(right.keys) - 1
  BY RemovedFirstOK
<1> DEFINE h == InternalBorrowFromRight(left, right, sep)
<1>8. h.left = a /\ h.right = b /\ h.sep = Head(right.keys)
  BY DEF InternalBorrowFromRight
<1> HIDE DEF a, b
<1> QED BY <1>2, <1>3, <1>5, <1>6, <1>7, <1>8 DEF TakenFirst

LEMMA BorrowedFromLeftOK ==
    ASSUME NEW left, NEW right, NEW sep, NodeOK(left), NodeOK(right), sep \in Index,
           Len(left.keys) > 0, left.kids[Len(left.kids)] \notin ToSet(right.kids)
    PROVE  GivenLast(InternalBorrowFromLeft(left, right, sep), left, right)
<1> DEFINE c == left.kids[Len(left.kids)]
           a == [keys |-> Front(left.keys), kids |-> Front(left.kids)]
           b == [keys |-> <<sep>> \o right.keys, kids |-> <<Last(left.kids)>> \o right.kids]
<1>1. /\ left.keys \in Seq(Index) /\ left.kids \in Seq(Index) /\ Len(left.kids) = Len(left.keys) + 1
      /\ IsInjective(left.kids)
      /\ right.keys \in Seq(Index) /\ right.kids \in Seq(Index) /\ Len(right.kids) = Len(right.keys) + 1
      /\ IsInjective(right.kids)
  BY DEF NodeOK
<1>2. Len(left.keys) \in Nat /\ Len(left.kids) > 0 /\ Len(left.kids) \in 1..Len(left.kids) /\ Len(right.kids) \in Nat
  BY <1>1, Positions
<1>3. Last(left.kids) = c /\ c \in Index /\ Last(left.keys) \in Index
  BY <1>1, <1>2, FrontFacts
<1>4. a.keys \in Seq(Index) /\ Len(a.keys) = Len(left.keys) - 1
  BY <1>1, FrontFacts
<1>5. a.kids \in Seq(Index) /\ Len(a.kids) = Len(left.kids) - 1
  BY <1>1, <1>2, FrontFacts
<1>6. ToSet(a.kids) = ToSet(left.kids) \ {c} /\ IsInjective(a.kids)
  <2>1. a.kids = RemoveAt(left.kids, Len(left.kids))
    BY <1>1, <1>2, <1>3, EndsAreEdits
  <2> QED BY <1>1, <1>2, <2>1, RemoveAtHolds
<1>7. b.keys \in Seq(Index) /\ Len(b.keys) = Len(right.keys) + 1
  BY <1>1, ConsFacts
<1>8. b.kids \in Seq(Index) /\ Len(b.kids) = Len(right.kids) + 1
  BY <1>1, <1>3, ConsFacts
<1>9. ToSet(b.kids) = ToSet(right.kids) \cup {c} /\ IsInjective(b.kids)
  <2>1. b.kids = InsertAt(right.kids, 1, c)
    BY <1>1, <1>3, EndsAreEdits
  <2>2. 1 \in 1..Len(right.kids) + 1
    BY <1>2
  <2>3. c \notin ToSet(right.kids)
    OBVIOUS
  <2>4. ToSet(InsertAt(right.kids, 1, c)) = ToSet(right.kids) \cup {c} /\ IsInjective(InsertAt(right.kids, 1, c))
    <3> DEFINE s == right.kids
    <3> HIDE DEF s, c
    <3> SUFFICES ToSet(InsertAt(s, 1, c)) = ToSet(s) \cup {c} /\ IsInjective(InsertAt(s, 1, c))
      BY DEF s
    <3>1. s \in Seq(Index) /\ c \in Index /\ IsInjective(s) /\ c \notin ToSet(s) /\ 1 \in 1..Len(s) + 1
      BY <1>1, <1>3, <2>2, <2>3 DEF s
    <3> QED BY <3>1, InsertAtHolds
  <2> QED BY <2>1, <2>4
<1>10. NodeOK(a)
  <2>1. Len(a.kids) = Len(a.keys) + 1
    BY <1>1, <1>2, <1>4, <1>5
  <2> QED BY <1>4, <1>5, <1>6, <2>1 DEF NodeOK
<1>11. NodeOK(b)
  BY <1>1, <1>7, <1>8, <1>9 DEF NodeOK
<1> DEFINE h == InternalBorrowFromLeft(left, right, sep)
<1>12. h.left = a /\ h.right = b /\ h.sep = Last(left.keys)
  BY DEF InternalBorrowFromLeft
<1> HIDE DEF a, b
<1> QED BY <1>3, <1>4, <1>6, <1>7, <1>9, <1>10, <1>11, <1>12 DEF GivenLast

LEMMA OneLast ==
    ASSUME NEW x \in Nat, NEW y \in Nat
    PROVE  x + 1 + y = x + y + 1 /\ (x + 1) + (y + 1) = x + y + 1 + 1
OBVIOUS

LEMMA MergedOK ==
    ASSUME NEW left, NEW right, NEW sep, NodeOK(left), NodeOK(right), sep \in Index,
           ToSet(left.kids) \cap ToSet(right.kids) = {}
    PROVE  LET m == InternalMergeRight(left, right, sep)
           IN  /\ NodeOK(m) /\ ToSet(m.kids) = ToSet(left.kids) \cup ToSet(right.kids)
               /\ Len(m.keys) = Len(left.keys) + Len(right.keys) + 1
<1> DEFINE m == InternalMergeRight(left, right, sep)
<1>1. /\ left.keys \in Seq(Index) /\ left.kids \in Seq(Index) /\ Len(left.kids) = Len(left.keys) + 1
      /\ IsInjective(left.kids)
      /\ right.keys \in Seq(Index) /\ right.kids \in Seq(Index) /\ Len(right.kids) = Len(right.keys) + 1
      /\ IsInjective(right.kids)
  BY DEF NodeOK
<1>2. m = [keys |-> Append(left.keys, sep) \o right.keys, kids |-> left.kids \o right.kids]
  BY DEF InternalMergeRight
<1>3. Append(left.keys, sep) \in Seq(Index) /\ Len(Append(left.keys, sep)) = Len(left.keys) + 1
  BY <1>1, AppendFacts
<1>4. m.keys \in Seq(Index) /\ Len(m.keys) = Len(left.keys) + 1 + Len(right.keys)
  BY <1>1, <1>2, <1>3, ConcatFacts
<1>5. m.kids \in Seq(Index) /\ Len(m.kids) = Len(left.kids) + Len(right.kids)
  <2>1. /\ left.kids \o right.kids \in Seq(Index)
        /\ Len(left.kids \o right.kids) = Len(left.kids) + Len(right.kids)
    BY <1>1, ConcatFacts
  <2> QED BY <1>2, <2>1
<1>6. ToSet(m.kids) = ToSet(left.kids) \cup ToSet(right.kids) /\ IsInjective(m.kids)
  BY <1>1, <1>2, ConcatHolds
<1>7. Len(left.keys) \in Nat /\ Len(right.keys) \in Nat
  BY <1>1, Positions
<1> HIDE DEF m
<1>8. Len(m.keys) = Len(left.keys) + Len(right.keys) + 1 /\ Len(m.kids) = Len(m.keys) + 1
  <2>1. Len(m.keys) = Len(left.keys) + 1 + Len(right.keys)
    BY <1>4
  <2>2. Len(m.kids) = (Len(left.keys) + 1) + (Len(right.keys) + 1)
    BY <1>1, <1>5
  <2>3. Len(m.keys) = Len(left.keys) + Len(right.keys) + 1
    BY <1>7, <2>1, OneLast
  <2>4. Len(m.kids) = Len(m.keys) + 1
    <3> DEFINE x == Len(left.keys)
               y == Len(right.keys)
    <3>1. x \in Nat /\ y \in Nat
      BY <1>7
    <3> HIDE DEF x, y
    <3>2. (x + 1) + (y + 1) = (x + y + 1) + 1
      BY <3>1
    <3> QED BY <2>2, <2>3, <3>2 DEF x, y
  <2> QED BY <2>3, <2>4
<1>9. m = [keys |-> m.keys, kids |-> m.kids]
  BY <1>2
<1>10. NodeOK(m)
  BY <1>1, <1>4, <1>5, <1>6, <1>8, <1>9 DEF NodeOK
<1> QED BY <1>6, <1>8, <1>10 DEF m
=============================================================================
