-------------------------- MODULE OrderbookProofs --------------------------
(***************************************************************************)
(* Proofs about Orderbook: the vault backs the resting orders, each of     *)
(* them can settle, a match takes the best ones first, and whatever is     *)
(* taken off an order is paid for or goes back to its maker.               *)
(*                                                                         *)
(* A set of entries is worth what its orders hold in the vault.  The stock *)
(* of the tree (TornaMapProofs) is such a set; each instruction changes    *)
(* what the stock is worth by what it transfers, a match fill by fill.     *)
(* A match sweeps the leaves in the order of the row TornaMapProofs finds  *)
(* them in, and what it leaves behind it has taken whole.                  *)
(* What traders have follows the same fills, summed over the keys filled.  *)
(***************************************************************************)
EXTENDS Orderbook, TornaMapProofs
---------------------------------------------------------------------------
(* Sums *)

SumRun(f, r) ==
    r = [s \in SUBSET DOMAIN f |-> IF s = {} THEN 0 ELSE LET x == CHOOSE x \in s : TRUE IN f[x] + r[s \ {x}]]

SumStep(f, r, s) == IF s = {} THEN 0 ELSE LET x == CHOOSE x \in s : TRUE IN f[x] + r[s \ {x}]

LEMMA SumRuns ==
    ASSUME NEW f, IsFiniteSet(DOMAIN f)
    PROVE  \E r : SumRun(f, r) /\ SumFunction(f) = r[DOMAIN f]
<1> DEFINE D == DOMAIN f
           Good(n) == \E r : \A s \in SUBSET D : Cardinality(s) <= n => r[s] = SumStep(f, r, s)
           N == {n \in Nat : Good(n)}
<1>0. \A s \in SUBSET D : IsFiniteSet(s) /\ Cardinality(s) \in Nat /\ Cardinality(s) <= Cardinality(D)
  BY FS_Subset, FS_CardinalityType
<1>1. Good(0)
  <2> DEFINE r == [s \in SUBSET D |-> 0]
  <2>1. \A s \in SUBSET D : Cardinality(s) <= 0 => s = {}
    BY <1>0, FS_EmptySet
  <2>2. \A s \in SUBSET D : Cardinality(s) <= 0 => r[s] = SumStep(f, r, s)
    BY <2>1 DEF SumStep
  <2> QED BY <2>2
<1>2. ASSUME NEW n \in Nat, Good(n) PROVE Good(n + 1)
  <2>1. PICK r : \A s \in SUBSET D : Cardinality(s) <= n => r[s] = SumStep(f, r, s)
    BY <1>2
  <2> DEFINE q == [s \in SUBSET D |-> SumStep(f, r, s)]
  <2>2. ASSUME NEW s \in SUBSET D, Cardinality(s) <= n + 1 PROVE q[s] = SumStep(f, q, s)
    <3>1. CASE s = {}
      BY <3>1 DEF SumStep
    <3>2. CASE s # {}
      <4> DEFINE x == CHOOSE y \in s : TRUE
                 t == s \ {x}
      <4>1. x \in s
        BY <3>2
      <4>2. t \in SUBSET D /\ Cardinality(t) = Cardinality(s) - 1
        BY <4>1, <1>0, FS_RemoveElement
      <4>3. Cardinality(t) <= n
        BY <4>2, <1>0, <2>2
      <4>4. q[t] = r[t]
        BY <4>2, <4>3, <2>1
      <4>5. q[s] = f[x] + r[t]
        BY <3>2 DEF SumStep
      <4>6. SumStep(f, q, s) = f[x] + q[t]
        BY <3>2 DEF SumStep
      <4> QED BY <4>4, <4>5, <4>6
    <3> QED BY <3>1, <3>2
  <2> QED BY <2>2
<1> HIDE DEF Good
<1>3. \A n \in Nat : Good(n)
  <2>1. N = Nat
    <3>1. 0 \in N /\ \A n \in N : n + 1 \in N
      BY <1>1, <1>2
    <3> QED BY <3>1, NatInductionOn
  <2> QED BY <2>1
<1>4. Good(Cardinality(D))
  BY <1>3, FS_CardinalityType
<1>5. PICK r : \A s \in SUBSET D : Cardinality(s) <= Cardinality(D) => r[s] = SumStep(f, r, s)
  BY <1>4 DEF Good
<1> DEFINE q == [s \in SUBSET D |-> r[s]]
<1>6. SumRun(f, q)
  <2>1. ASSUME NEW s \in SUBSET D PROVE q[s] = SumStep(f, q, s)
    <3>1. r[s] = SumStep(f, r, s)
      BY <1>5, <1>0
    <3>2. SumStep(f, r, s) = SumStep(f, q, s)
      BY DEF SumStep
    <3> QED BY <3>1, <3>2
  <2>2. q = [s \in SUBSET D |-> SumStep(f, q, s)]
    BY <2>1
  <2> QED BY <2>2 DEF SumStep, SumRun
<1> DEFINE c == CHOOSE r1 : SumRun(f, r1)
<1>7. SumRun(f, c)
  BY <1>6, Zenon
<1>8. SumFunction(f) = c[DOMAIN f]
  BY Zenon DEF SumFunction, SumFunctionOnSet, FoldFunctionOnSet, MapThenFoldSet, SumRun
<1> QED BY <1>7, <1>8
(* One run of the sum, step by step, and the order does not matter. *)
Sums(f, r) == \A s \in SUBSET DOMAIN f : r[s] = SumStep(f, r, s)

LEMMA RunSums ==
    ASSUME NEW f, NEW r, SumRun(f, r)
    PROVE  Sums(f, r)
<1> QED BY Zenon DEF SumRun, Sums, SumStep

Numbers(f, D) == DOMAIN f = D /\ \A x \in D : f[x] \in Int

LEMMA SumTakes ==
    ASSUME NEW f, NEW D, NEW r, IsFiniteSet(D), Numbers(f, D), Sums(f, r)
    PROVE  \A s \in SUBSET D : r[s] \in Int /\ \A x \in s : r[s] = f[x] + r[s \ {x}]
<1> DEFINE Good(s) == r[s] \in Int /\ \A x \in s : r[s] = f[x] + r[s \ {x}]
           N == {n \in Nat : \A s \in SUBSET D : Cardinality(s) <= n => Good(s)}
<1>1. \A s \in SUBSET D : IsFiniteSet(s) /\ Cardinality(s) \in Nat /\ Cardinality(s) <= Cardinality(D)
  BY FS_Subset, FS_CardinalityType
<1>2. /\ \A s \in SUBSET D : r[s] = SumStep(f, r, s)
       /\ \A x \in D : f[x] \in Int
  BY DEF Sums, Numbers
<1>3. 0 \in N
  <2>1. ASSUME NEW s \in SUBSET D, Cardinality(s) <= 0 PROVE Good(s)
    <3>1. s = {}
      BY <1>1, <2>1, FS_EmptySet
    <3>2. r[s] = 0
      BY <1>2, <3>1 DEF SumStep
    <3> QED BY <3>1, <3>2
  <2> QED BY <2>1
<1>4. ASSUME NEW n \in Nat, n \in N PROVE n + 1 \in N
  <2>0. \A s \in SUBSET D : Cardinality(s) <= n => Good(s)
    BY <1>4
  <2>1. ASSUME NEW s \in SUBSET D, Cardinality(s) <= n + 1 PROVE Good(s)
    <3>1. CASE s = {}
      <4>1. r[s] = 0
        BY <1>2, <3>1 DEF SumStep
      <4> QED BY <3>1, <4>1
    <3>2. CASE s # {}
      <4> DEFINE c == CHOOSE y \in s : TRUE
      <4>1. c \in s /\ c \in D
        BY <3>2
      <4>2. r[s] = f[c] + r[s \ {c}]
        BY <1>2, <3>2 DEF SumStep
      <4>3. \A x \in s : s \ {x} \in SUBSET D /\ Cardinality(s \ {x}) <= n
        <5> SUFFICES ASSUME NEW x \in s PROVE s \ {x} \in SUBSET D /\ Cardinality(s \ {x}) <= n
          OBVIOUS
        <5>1. Cardinality(s \ {x}) = Cardinality(s) - 1
          BY <1>1, FS_RemoveElement
        <5> QED BY <5>1, <1>1, <2>1
      <4>4. \A x \in s : Good(s \ {x})
        BY <4>3, <2>0
      <4> HIDE DEF c
      <4>5. r[s] \in Int
        <5>1. f[c] \in Int /\ r[s \ {c}] \in Int
          BY <1>2, <4>1, <4>4
        <5> QED BY <5>1, <4>2
      <4>6. ASSUME NEW x \in s PROVE r[s] = f[x] + r[s \ {x}]
        <5>1. CASE x = c
          BY <5>1, <4>2
        <5>2. CASE x # c
          <6> DEFINE t == (s \ {x}) \ {c}
          <6>1. (s \ {c}) \ {x} = t
            OBVIOUS
          <6>2. r[s \ {c}] = f[x] + r[t] /\ r[s \ {x}] = f[c] + r[t]
            BY <4>4, <4>1, <5>2, <6>1
          <6>3. t \in SUBSET D /\ Cardinality(t) <= n
            <7>1. t \in SUBSET (s \ {x})
              OBVIOUS
            <7>2. s \ {x} \in SUBSET D /\ IsFiniteSet(s \ {x})
              BY <1>1
            <7>3. Cardinality(t) <= Cardinality(s \ {x})
              BY <7>1, <7>2, FS_Subset
            <7>4. Cardinality(t) \in Nat /\ Cardinality(s \ {x}) \in Nat
              BY <1>1
            <7> QED BY <7>3, <7>4, <4>3
          <6>4. r[t] \in Int
            BY <6>3, <2>0
          <6> HIDE DEF t
          <6>5. f[x] \in Int /\ f[c] \in Int
            BY <1>2, <4>1
          <6> QED BY <4>2, <6>2, <6>4, <6>5
        <5> QED BY <5>1, <5>2
      <4> QED BY <4>5, <4>6
    <3> QED BY <3>1, <3>2
  <2> QED BY <2>1
<1>5. Cardinality(D) \in N
  BY <1>3, <1>4, FS_CardinalityType, NatInductionOn
<1> QED BY <1>1, <1>5

LEMMA SumsAgree ==
    ASSUME NEW f, NEW g, NEW r, NEW q, Sums(f, r), Sums(g, q),
           NEW S, IsFiniteSet(S), S \subseteq DOMAIN f, S \subseteq DOMAIN g, \A x \in S : f[x] = g[x]
    PROVE  r[S] = q[S]
<1> DEFINE N == {n \in Nat : \A s \in SUBSET S : Cardinality(s) <= n => r[s] = q[s]}
<1>0. \A s \in SUBSET S : IsFiniteSet(s) /\ Cardinality(s) \in Nat /\ Cardinality(s) <= Cardinality(S)
  BY FS_Subset, FS_CardinalityType
<1>1. 0 \in N
  <2>1. ASSUME NEW s \in SUBSET S, Cardinality(s) <= 0 PROVE r[s] = q[s]
    <3>1. s = {}
      BY <1>0, <2>1, FS_EmptySet
    <3> QED BY <3>1 DEF Sums, SumStep
  <2> QED BY <2>1
<1>2. ASSUME NEW n \in Nat, n \in N PROVE n + 1 \in N
  <2>1. ASSUME NEW s \in SUBSET S, Cardinality(s) <= n + 1 PROVE r[s] = q[s]
    <3>0. s \in SUBSET DOMAIN f /\ s \in SUBSET DOMAIN g
      OBVIOUS
    <3>1. CASE s = {}
      BY <3>0, <3>1 DEF Sums, SumStep
    <3>2. CASE s # {}
      <4> DEFINE c == CHOOSE y \in s : TRUE
                 t == s \ {c}
      <4>1. c \in s
        BY <3>2
      <4>2. r[s] = f[c] + r[t] /\ q[s] = g[c] + q[t]
        BY <3>0, <3>2 DEF Sums, SumStep
      <4>3. t \in SUBSET S /\ Cardinality(t) = Cardinality(s) - 1
        BY <4>1, <1>0, FS_RemoveElement
      <4>4. r[t] = q[t]
        BY <4>3, <1>0, <1>2, <2>1
      <4> QED BY <4>1, <4>2, <4>4
    <3> QED BY <3>1, <3>2
  <2> QED BY <2>1
<1>3. Cardinality(S) \in N
  BY <1>1, <1>2, FS_CardinalityType, NatInductionOn
<1> QED BY <1>0, <1>3

LEMMA SumAdds ==
    ASSUME NEW D, IsFiniteSet(D), NEW f, Numbers(f, D), NEW x, x \notin D, NEW E, E = D \cup {x},
           NEW g, Numbers(g, E), \A y \in D : g[y] = f[y]
    PROVE  SumFunction(f) \in Int /\ SumFunction(g) = SumFunction(f) + g[x]
<1>1. IsFiniteSet(DOMAIN f) /\ IsFiniteSet(DOMAIN g)
  BY FS_AddElement DEF Numbers
<1>0. DOMAIN g = E /\ \A y \in E : g[y] \in Int
  BY DEF Numbers
<1>2. PICK r : Sums(f, r) /\ SumFunction(f) = r[DOMAIN f]
  BY <1>1, SumRuns, RunSums
<1>3. PICK q : Sums(g, q) /\ SumFunction(g) = q[DOMAIN g]
  BY <1>1, SumRuns, RunSums
<1>4. r[D] = q[D]
  BY <1>2, <1>3, SumsAgree DEF Numbers
<1>5. \A s \in SUBSET E : q[s] \in Int /\ \A y \in s : q[s] = g[y] + q[s \ {y}]
  <2>1. IsFiniteSet(E)
    BY <1>0, <1>1
  <2>2. Numbers(g, E)
    OBVIOUS
  <2>3. Sums(g, q)
    BY <1>3
  <2> QED BY ONLY <2>1, <2>2, <2>3, SumTakes
<1>6. q[E] = g[x] + q[D] /\ q[D] \in Int /\ g[x] \in Int
  <2>1. E \ {x} = D /\ x \in E /\ D \in SUBSET E
    OBVIOUS
  <2>2. q[E] = g[x] + q[E \ {x}] /\ q[D] \in Int /\ g[x] \in Int
    BY <1>0, <1>5, <2>1
  <2> QED BY <2>1, <2>2
<1> QED BY <1>2, <1>3, <1>4, <1>6 DEF Numbers

LEMMA SumChanges ==
    ASSUME NEW D, IsFiniteSet(D), NEW f, Numbers(f, D), NEW g, Numbers(g, D), NEW x \in D,
           \A y \in D : y # x => g[y] = f[y]
    PROVE  /\ SumFunction(f) \in Int /\ SumFunction(g) \in Int /\ f[x] \in Int /\ g[x] \in Int
           /\ SumFunction(g) = SumFunction(f) - f[x] + g[x]
<1> DEFINE E == D \ {x}
           h == [y \in E |-> f[y]]
<1>1. IsFiniteSet(E) /\ D = E \cup {x} /\ x \notin E
  BY FS_Subset
<1>2. Numbers(h, E) /\ (\A y \in E : f[y] = h[y]) /\ (\A y \in E : g[y] = h[y])
  BY DEF Numbers
<1> HIDE DEF E, h
<1>4. SumFunction(h) \in Int /\ SumFunction(f) = SumFunction(h) + f[x]
  BY <1>1, <1>2, SumAdds
<1>5. SumFunction(g) = SumFunction(h) + g[x]
  BY <1>1, <1>2, SumAdds
<1>6. f[x] \in Int /\ g[x] \in Int
  BY DEF Numbers
<1> QED BY <1>4, <1>5, <1>6

(* A sum of zeros. *)
LEMMA SumOfZeros ==
    ASSUME NEW f, IsFiniteSet(DOMAIN f), \A x \in DOMAIN f : f[x] = 0
    PROVE  SumFunction(f) = 0
<1> DEFINE D == DOMAIN f
           z == [s \in SUBSET D |-> 0]
<1>1. Sums(f, z)
  <2>1. ASSUME NEW s \in SUBSET DOMAIN f PROVE z[s] = SumStep(f, z, s)
    <3>1. CASE s = {}
      BY <3>1 DEF SumStep
    <3>2. CASE s # {}
      <4> DEFINE c == CHOOSE y \in s : TRUE
      <4>1. c \in s
        BY <3>2
      <4>2. SumStep(f, z, s) = f[c] + z[s \ {c}]
        BY <3>2 DEF SumStep
      <4> QED BY <4>1, <4>2
    <3> QED BY <3>1, <3>2
  <2> QED BY <2>1 DEF Sums
<1>2. PICK r : Sums(f, r) /\ SumFunction(f) = r[DOMAIN f]
  BY SumRuns, RunSums
<1>3. r[D] = z[D]
  <2> HIDE DEF z
  <2> QED BY <1>1, <1>2, SumsAgree
<1> QED BY <1>2, <1>3
---------------------------------------------------------------------------
(* Prices out of keys *)

LEMMA DivBounds ==
    ASSUME NEW x \in Nat, NEW d \in Nat, d > 0
    PROVE  x \div d \in Nat /\ d * (x \div d) <= x /\ x < d * (x \div d) + d
  OBVIOUS

LEMMA Times ==
    ASSUME NEW a \in Int, NEW b \in Int, NEW d \in Int, d > 0, a < b
    PROVE  d * a + d <= d * b
<1>1. d * (b - a - 1) >= 0
  OBVIOUS
<1> QED BY <1>1

LEMMA DivGives ==
    ASSUME NEW q \in Nat, NEW d \in Nat, NEW r \in Nat, r < d
    PROVE  (d * q + r) \div d = q
<1> DEFINE x == d * q + r
           y == x \div d
<1>1. x \in Nat /\ d > 0
  OBVIOUS
<1>2. y \in Nat /\ d * y <= x /\ x < d * y + d
  BY <1>1, DivBounds
<1>3. x = d * q + r
  OBVIOUS
<1> HIDE DEF x, y
<1>4. ~(y < q)
  <2> SUFFICES ASSUME y < q PROVE FALSE
    OBVIOUS
  <2>1. d * y + d <= d * q
    BY <1>1, <1>2, Times
  <2>2. d * y \in Int /\ d * q \in Int
    BY <1>2
  <2> QED BY <1>2, <1>3, <2>1, <2>2
<1>5. ~(q < y)
  <2> SUFFICES ASSUME q < y PROVE FALSE
    OBVIOUS
  <2>1. d * q + d <= d * y
    BY <1>1, <1>2, Times
  <2>2. d * y \in Int /\ d * q \in Int
    BY <1>2
  <2> QED BY <1>2, <1>3, <2>1, <2>2
<1> QED BY <1>2, <1>4, <1>5 DEF y, x

(* One more digit. *)
LEMMA DigitFits ==
    ASSUME NEW r \in Nat, NEW x \in Nat, NEW d \in Nat, x < d, NEW c \in Nat, c < r
    PROVE  x * r + c \in Nat /\ x * r + c < d * r
<1>1. r * x + r <= r * d
  BY Times
<1>2. x * r = r * x /\ d * r = r * d /\ x * r \in Nat /\ d * r \in Nat
  OBVIOUS
<1> QED BY <1>1, <1>2

LEMMA PriceIsInt ==
    ASSUME NEW k \in Nat
    PROVE  PriceOf(k) \in Int
<1>1. Radix \in Nat /\ Radix > 0 /\ MaxU64 \in Nat
  BY FieldAssumption
<1> DEFINE d == Radix * Radix * Radix
<1>2. d \in Nat /\ d > 0
  BY <1>1
<1> HIDE DEF d
<1>3. k \div d \in Nat
  BY <1>2, DivBounds
<1> QED BY <1>1, <1>3 DEF PriceOf, d

LEMMA KeyKeepsPrice ==
    ASSUME NEW price \in Price, NEW s \in 0..MaxSlot, NEW m \in Trader, NEW nonce \in Nonce
    PROVE  PriceOf(OrderKey(price, s, m, nonce)) = price
<1> DEFINE R == Radix
           q == IF BookSide = "ask" THEN price ELSE MaxU64 - price
           a == s * R + Prefix[m]
           b == a * R + nonce
           d == R * R * R
<1>1. /\ R \in Nat /\ R > 0 /\ MaxU64 \in Nat /\ price \in 0..MaxU64 /\ q \in Nat
      /\ s \in Nat /\ s < R /\ Prefix[m] \in Nat /\ Prefix[m] < R /\ nonce \in Nat /\ nonce < R
  BY FieldAssumption
<1>2. a \in Nat /\ a < R * R
  BY <1>1, DigitFits
<1> HIDE DEF a
<1>3. b \in Nat /\ b < d
  <2>1. R * R \in Nat
    BY <1>1
  <2> QED BY <1>1, <1>2, <2>1, DigitFits
<1>4. OrderKey(price, s, m, nonce) = d * q + b
  <2>1. OrderKey(price, s, m, nonce) = ((q * R + s) * R + Prefix[m]) * R + nonce
    BY DEF OrderKey
  <2> HIDE DEF q
  <2>2. (q * R + s) * R = (q * R) * R + s * R /\ (q * R) * R \in Nat /\ s * R \in Nat
    BY <1>1
  <2>3. (q * R + s) * R + Prefix[m] = (q * R) * R + a
    BY <1>1, <2>2 DEF a
  <2>4. ((q * R) * R + a) * R = ((q * R) * R) * R + a * R /\ ((q * R) * R) * R \in Nat /\ a * R \in Nat
    BY <1>1, <1>2, <2>2
  <2>5. ((q * R) * R) * R = d * q
    BY <1>1
  <2> QED BY <1>1, <2>1, <2>3, <2>4, <2>5
<1> HIDE DEF b
<1>5. d \in Nat
  BY <1>1
<1> HIDE DEF d
<1>6. OrderKey(price, s, m, nonce) \div d = q
  BY <1>1, <1>3, <1>4, <1>5, DivGives
<1> QED BY <1>1, <1>6 DEF PriceOf, d

---------------------------------------------------------------------------
(* A set of entries, and what the vault holds for them *)

IsEntry(e) == e = <<e[1], e[2]>> /\ e[1] \in Nat /\ e[2] \in Val

(* One order for each key. *)
Ledger(E) ==
    /\ IsFiniteSet(E)
    /\ \A e \in E : IsEntry(e)
    /\ \A e, g \in E : e[1] = g[1] => e = g

KeysIn(E) == {e[1] : e \in E}
Backing(e) == Escrow(PriceOf(e[1]), e[2].size)
EscrowsIn(E) == [k \in KeysIn(E) |-> Backing(CHOOSE e \in E : e[1] = k)]
Worth(E) == SumFunction(EscrowsIn(E))

LEMMA BackingIsInt ==
    ASSUME NEW e, IsEntry(e)
    PROVE  Backing(e) \in Int
<1>1. PriceOf(e[1]) \in Int
  BY PriceIsInt DEF IsEntry
<1>2. e[2].size \in Int
  BY OrderAssumption, FieldAssumption DEF IsEntry
<1> HIDE DEF PriceOf
<1> QED BY <1>1, <1>2 DEF Backing, Escrow

LEMMA EscrowsAre ==
    ASSUME NEW E, Ledger(E)
    PROVE  /\ IsFiniteSet(KeysIn(E)) /\ Numbers(EscrowsIn(E), KeysIn(E))
           /\ \A e \in E : EscrowsIn(E)[e[1]] = Backing(e)
<1>1. IsFiniteSet(KeysIn(E))
  <2> DEFINE f == [e \in E |-> e[1]]
  <2>1. f \in Surjection(E, KeysIn(E))
    BY DEF Surjection, KeysIn
  <2> QED BY <2>1, FS_Surjection DEF Ledger
<1>2. \A e \in E : EscrowsIn(E)[e[1]] = Backing(e)
  <2> SUFFICES ASSUME NEW e \in E PROVE EscrowsIn(E)[e[1]] = Backing(e)
    OBVIOUS
  <2> DEFINE c == CHOOSE g \in E : g[1] = e[1]
  <2>1. c \in E /\ c[1] = e[1]
    OBVIOUS
  <2>2. c = e
    BY <2>1 DEF Ledger
  <2>3. EscrowsIn(E)[e[1]] = Backing(c)
    BY DEF EscrowsIn, KeysIn
  <2> HIDE DEF c
  <2> QED BY <2>2, <2>3
<1>3. DOMAIN EscrowsIn(E) = KeysIn(E)
  BY DEF EscrowsIn
<1>4. \A k \in KeysIn(E) : EscrowsIn(E)[k] \in Int
  BY <1>2, BackingIsInt DEF KeysIn, Ledger
<1> QED BY <1>1, <1>2, <1>3, <1>4 DEF Numbers

LEMMA WorthGains ==
    ASSUME NEW E, NEW e, NEW D, Ledger(E), IsEntry(e), e[1] \notin KeysIn(E), D = E \cup {e}
    PROVE  Ledger(D) /\ Worth(E) \in Int /\ Backing(e) \in Int /\ Worth(D) = Worth(E) + Backing(e)
<1>1. Ledger(D)
  BY FS_AddElement DEF Ledger, KeysIn
<1>2. KeysIn(D) = KeysIn(E) \cup {e[1]}
  BY DEF KeysIn
<1>3. \A k \in KeysIn(E) : EscrowsIn(D)[k] = EscrowsIn(E)[k]
  <2> SUFFICES ASSUME NEW g \in E PROVE EscrowsIn(D)[g[1]] = EscrowsIn(E)[g[1]]
    BY DEF KeysIn
  <2> QED BY <1>1, EscrowsAre
<1>4. EscrowsIn(D)[e[1]] = Backing(e)
  BY <1>1, EscrowsAre
<1>5. IsFiniteSet(KeysIn(E)) /\ Numbers(EscrowsIn(E), KeysIn(E)) /\ Numbers(EscrowsIn(D), KeysIn(D))
  BY <1>1, EscrowsAre
<1>6. SumFunction(EscrowsIn(E)) \in Int /\ SumFunction(EscrowsIn(D)) = SumFunction(EscrowsIn(E)) + EscrowsIn(D)[e[1]]
  <2> DEFINE f == EscrowsIn(E)
             g == EscrowsIn(D)
             C == KeysIn(E)
             G == KeysIn(D)
             x == e[1]
  <2>1. IsFiniteSet(C) /\ Numbers(f, C) /\ Numbers(g, G) /\ x \notin C /\ G = C \cup {x} /\ \A y \in C : g[y] = f[y]
    BY <1>2, <1>3, <1>5
  <2> HIDE DEF f, g, C, G, x
  <2>2. SumFunction(f) \in Int /\ SumFunction(g) = SumFunction(f) + g[x]
    BY ONLY <2>1, SumAdds
  <2> QED BY <2>2 DEF f, g, x
<1> QED BY <1>1, <1>4, <1>6, BackingIsInt DEF Worth

(* An order goes ... *)
LEMMA WorthLoses ==
    ASSUME NEW E, NEW e, NEW D, Ledger(E), e \in E, D = {g \in E : g[1] # e[1]}
    PROVE  /\ Ledger(D) /\ Worth(D) \in Int /\ Backing(e) \in Int /\ Worth(E) \in Int
           /\ Worth(E) = Worth(D) + Backing(e) /\ e[1] \notin KeysIn(D)
<1>1. Ledger(D)
  BY FS_Subset DEF Ledger
<1>2. e[1] \notin KeysIn(D) /\ E = D \cup {e} /\ IsEntry(e)
  BY DEF KeysIn, Ledger
<1> HIDE DEF IsEntry
<1>3. Worth(D) \in Int /\ Backing(e) \in Int /\ Worth(E) = Worth(D) + Backing(e)
  BY <1>1, <1>2, WorthGains
<1> QED BY <1>1, <1>2, <1>3

(* ... or changes. *)
Swapped(E, e, g) == {x \in E : x[1] # e[1]} \cup {g}

LEMMA WorthChanges ==
    ASSUME NEW E, NEW e, NEW g, NEW D, Ledger(E), e \in E, IsEntry(g), g[1] = e[1], D = Swapped(E, e, g)
    PROVE  /\ Ledger(D) /\ Worth(D) \in Int /\ Backing(e) \in Int /\ Backing(g) \in Int
           /\ Worth(E) \in Int /\ Worth(D) = Worth(E) - Backing(e) + Backing(g)
<1> DEFINE C == {x \in E : x[1] # e[1]}
<1>1. /\ Ledger(C) /\ Worth(C) \in Int /\ Backing(e) \in Int /\ Worth(E) \in Int
      /\ Worth(E) = Worth(C) + Backing(e) /\ e[1] \notin KeysIn(C)
  BY WorthLoses
<1>2. D = C \cup {g}
  BY DEF Swapped
<1> HIDE DEF C
<1>3. Ledger(D) /\ Backing(g) \in Int /\ Worth(D) = Worth(C) + Backing(g)
  BY <1>1, <1>2, WorthGains
<1> QED BY <1>1, <1>3

(* Orders of size 0 hold nothing. *)
LEMMA NothingWorth ==
    ASSUME NEW E, Ledger(E), \A e \in E : e[2].size = 0
    PROVE  Worth(E) = 0
<1>1. \A e \in E : Backing(e) = 0
  <2> SUFFICES ASSUME NEW e \in E PROVE Backing(e) = 0
    OBVIOUS
  <2>1. PriceOf(e[1]) \in Int
    BY PriceIsInt DEF Ledger, IsEntry
  <2> HIDE DEF PriceOf
  <2>2. PriceOf(e[1]) * 0 = 0
    BY <2>1
  <2> QED BY <2>2 DEF Backing, Escrow
<1>2. DOMAIN EscrowsIn(E) = KeysIn(E) /\ IsFiniteSet(KeysIn(E))
  BY EscrowsAre DEF Numbers
<1>3. \A k \in DOMAIN EscrowsIn(E) : EscrowsIn(E)[k] = 0
  BY <1>1, <1>2, EscrowsAre DEF KeysIn
<1> QED BY <1>2, <1>3, SumOfZeros DEF Worth
---------------------------------------------------------------------------
(* Leaves side by side, each key in one of them *)

OneLeafEach(lf) ==
    \A l, m \in DOMAIN lf : \A e \in Holds(lf[l]), g \in Holds(lf[m]) : e[1] = g[1] => l = m

Shelf(n) == Matched(n) /\ Ascending(n.keys)

Shelved(lf) ==
    /\ IsFiniteSet(DOMAIN lf)
    /\ \A l \in DOMAIN lf : Shelf(lf[l])
    /\ OneLeafEach(lf)

LEMMA ShelfFacts ==
    ASSUME NEW n, Shelf(n)
    PROVE  /\ IsFiniteSet(Holds(n)) /\ n.keys \in Seq(Nat) /\ LeafOK(n)
           /\ \A e \in Holds(n) : IsEntry(e) /\ HasKey(n, e[1])
           /\ \A e, g \in Holds(n) : e[1] = g[1] => e = g
<1>1. n.keys \in Seq(Nat) /\ n.vals \in Seq(Val) /\ Len(n.vals) = Len(n.keys) /\ LeafOK(n)
  BY DEF Shelf, Matched, Aligned, Index
<1>2. /\ Len(n.keys) \in Nat
      /\ \A i \in 1..Len(n.keys) : n.keys[i] \in Nat /\ n.vals[i] \in Val
  BY <1>1, Positions
<1>3. IsFiniteSet(Holds(n))
  <2> DEFINE f == [i \in 1..Len(n.keys) |-> <<n.keys[i], n.vals[i]>>]
  <2>1. f \in Surjection(1..Len(n.keys), Holds(n))
    BY DEF Surjection, Holds, EntriesOf
  <2>2. IsFiniteSet(1..Len(n.keys))
    BY <1>2, FS_Interval
  <2> QED BY <2>1, <2>2, FS_Surjection
<1>4. \A e \in Holds(n) : \E i \in 1..Len(n.keys) : e = <<n.keys[i], n.vals[i]>>
  BY DEF Holds, EntriesOf
<1>5. ASSUME NEW e \in Holds(n) PROVE IsEntry(e) /\ HasKey(n, e[1])
  <2>1. PICK i \in 1..Len(n.keys) : e = <<n.keys[i], n.vals[i]>>
    BY <1>4
  <2>2. IsEntry(e)
    BY <1>2, <2>1 DEF IsEntry
  <2>3. HasKey(n, e[1])
    BY <1>1, <1>2, <2>1, HasKeyFinds DEF Shelf
  <2> QED BY <2>2, <2>3
<1>6. ASSUME NEW e \in Holds(n), NEW g \in Holds(n), e[1] = g[1] PROVE e = g
  <2>1. PICK i \in 1..Len(n.keys) : e = <<n.keys[i], n.vals[i]>>
    BY <1>4
  <2>2. PICK j \in 1..Len(n.keys) : g = <<n.keys[j], n.vals[j]>>
    BY <1>4
  <2>3. n.keys[i] = n.keys[j]
    BY <1>6, <2>1, <2>2
  <2>4. \A y \in 1..Len(n.keys) : \A x \in 1..y - 1 : n.keys[x] < n.keys[y]
    BY <1>1, AscendingPairs DEF Shelf
  <2>5. ~(i < j)
    BY <1>2, <2>3, <2>4
  <2>6. ~(j < i)
    BY <1>2, <2>3, <2>4
  <2> QED BY <1>2, <2>1, <2>2, <2>5, <2>6
<1> QED BY <1>1, <1>3, <1>5, <1>6

LEMMA ShelvedLedger ==
    ASSUME NEW lf, Shelved(lf)
    PROVE  Ledger(Stock(lf))
<1>1. IsFiniteSet(Stock(lf))
  <2> DEFINE T == {Holds(lf[l]) : l \in DOMAIN lf}
             f == [l \in DOMAIN lf |-> Holds(lf[l])]
  <2>1. f \in Surjection(DOMAIN lf, T)
    BY DEF Surjection
  <2>2. IsFiniteSet(T)
    BY <2>1, FS_Surjection DEF Shelved
  <2>3. \A s \in T : IsFiniteSet(s)
    BY ShelfFacts DEF Shelved
  <2> HIDE DEF T
  <2>4. IsFiniteSet(UNION T)
    BY <2>2, <2>3, FS_UNION
  <2> QED BY <2>4 DEF Stock, T
<1>2. \A e \in Stock(lf) : IsEntry(e)
  BY StockFacts, ShelfFacts DEF Shelved
<1>3. ASSUME NEW e \in Stock(lf), NEW g \in Stock(lf), e[1] = g[1] PROVE e = g
  <2>1. PICK l \in DOMAIN lf : e \in Holds(lf[l])
    BY StockFacts
  <2>2. PICK m \in DOMAIN lf : g \in Holds(lf[m])
    BY StockFacts
  <2>3. l = m
    BY <1>3, <2>1, <2>2 DEF Shelved, OneLeafEach
  <2> QED BY <1>3, <2>1, <2>2, <2>3, ShelfFacts DEF Shelved
<1> QED BY <1>1, <1>2, <1>3 DEF Ledger

LEMMA MapShelved ==
    ASSUME MapInv
    PROVE  Shelved(leaf)
<1>1. IsFiniteSet(DOMAIN leaf)
  <2>1. highWater \in Nat /\ DOMAIN leaf \subseteq 1..highWater
    BY DEF MapInv, SearchInv, Structure
  <2>2. IsFiniteSet(1..highWater)
    BY <2>1, FS_Interval
  <2> QED BY <2>1, <2>2, FS_Subset
<1>2. \A l \in DOMAIN leaf : Shelf(leaf[l])
  BY NodesAscend DEF MapInv, AllMatched, Shelf
<1>3. OneLeafEach(leaf)
  BY SoughtAlone DEF OneLeafEach, Alone
<1> QED BY <1>1, <1>2, <1>3 DEF Shelved

(* What Book shows is the stock, and its escrow what the stock is worth. *)
LEMMA BookIsStock ==
    ASSUME MapInv
    PROVE  /\ DOMAIN Book = KeysIn(Stock(leaf))
           /\ \A k \in DOMAIN Book : <<k, Book[k]>> \in Stock(leaf)
           /\ EscrowOf(Book) = Worth(Stock(leaf))
<1> DEFINE E == Stock(leaf)
           holder(k) == CHOOSE n \in DOMAIN leaf : k \in Range(leaf[n].keys)
           D == UNION {Range(leaf[n].keys) : n \in DOMAIN leaf}
<1>1. Shelved(leaf) /\ Ledger(E)
  BY MapShelved, ShelvedLedger
<1>2. ASSUME NEW n \in DOMAIN leaf, NEW k PROVE k \in Range(leaf[n].keys) <=> \E v : <<k, v>> \in Holds(leaf[n])
  <2>1. leaf[n].keys \in Seq(Nat)
    BY <1>1, ShelfFacts DEF Shelved
  <2>2. DOMAIN leaf[n].keys = 1..Len(leaf[n].keys)
    BY <2>1
  <2> QED BY <2>2 DEF Range, Holds, EntriesOf
<1>3. \A n \in DOMAIN leaf : \A e \in Holds(leaf[n]) : e = <<e[1], e[2]>>
  BY <1>1, ShelfFacts DEF Shelved, IsEntry
<1>4. D = KeysIn(E)
  <2>1. ASSUME NEW k \in D PROVE k \in KeysIn(E)
    <3>1. PICK n \in DOMAIN leaf : k \in Range(leaf[n].keys)
      OBVIOUS
    <3>2. PICK v : <<k, v>> \in Holds(leaf[n])
      BY <1>2, <3>1
    <3>3. <<k, v>> \in E
      BY <3>2, StockFacts
    <3> QED BY <3>3 DEF KeysIn
  <2>2. ASSUME NEW e \in E PROVE e[1] \in D
    <3>1. PICK n \in DOMAIN leaf : e \in Holds(leaf[n])
      BY StockFacts
    <3>2. <<e[1], e[2]>> \in Holds(leaf[n])
      BY <1>3, <3>1
    <3>3. e[1] \in Range(leaf[n].keys)
      BY <1>2, <3>2
    <3> QED BY <3>3
  <2> QED BY <2>1, <2>2 DEF KeysIn
<1>5. Book = [k \in D |-> ValueOf(leaf[holder(k)], k)]
  BY DEF Book
<1>6. ASSUME NEW k \in D PROVE <<k, ValueOf(leaf[holder(k)], k)>> \in E
  <2> DEFINE n == holder(k)
  <2>1. n \in DOMAIN leaf /\ k \in Range(leaf[n].keys)
    OBVIOUS
  <2> HIDE DEF n
  <2>2. PICK v : <<k, v>> \in Holds(leaf[n])
    BY <1>2, <2>1
  <2>3. HasKey(leaf[n], k)
    BY <1>1, <2>1, <2>2, ShelfFacts DEF Shelved
  <2>4. <<k, ValueOf(leaf[n], k)>> \in Holds(leaf[n])
    BY <1>1, <2>1, <2>3, EntryOf DEF Shelved, Shelf
  <2>5. <<k, ValueOf(leaf[n], k)>> \in E
    BY <2>1, <2>4, StockFacts
  <2> QED BY <2>5 DEF n
<1>7. DOMAIN Book = KeysIn(E) /\ \A k \in DOMAIN Book : <<k, Book[k]>> \in E
  BY <1>4, <1>5, <1>6
<1>8. EscrowOf(Book) = Worth(E)
  <2> DEFINE f == [k \in DOMAIN Book |-> Escrow(PriceOf(k), Book[k].size)]
  <2>1. \A k \in KeysIn(E) : EscrowsIn(E)[k] = Backing(<<k, Book[k]>>)
    BY <1>1, <1>7, EscrowsAre
  <2>2. DOMAIN EscrowsIn(E) = KeysIn(E)
    BY DEF EscrowsIn
  <2>3. EscrowsIn(E) = [k \in KeysIn(E) |-> EscrowsIn(E)[k]]
    BY <2>2 DEF EscrowsIn
  <2>4. \A k \in KeysIn(E) : EscrowsIn(E)[k] = Escrow(PriceOf(k), Book[k].size)
    BY <2>1 DEF Backing
  <2>5. f = EscrowsIn(E)
    BY <1>7, <2>3, <2>4
  <2> QED BY <2>5 DEF EscrowOf, Worth
<1> QED BY <1>7, <1>8

---------------------------------------------------------------------------
(* An entry of a leaf goes, or another one takes its place *)

Others(D, E, k) == \A e : e[1] # k => (e \in D <=> e \in E)

LEMMA ShelfDrops ==
    ASSUME NEW n, Shelf(n), NEW e \in Holds(n), NEW m, m = LeafDelete(n, e[1])
    PROVE  Shelf(m) /\ Holds(m) = {g \in Holds(n) : g[1] # e[1]}
<1> DEFINE k == e[1]
<1>1. HasKey(n, k) /\ LeafOK(n)
  BY ShelfFacts
<1> HIDE DEF k
<1>2. Matched(m) /\ Holds(m) = {g \in Holds(n) : g[1] # k}
  BY <1>1, LeafDeleteMatches DEF Shelf, k
<1>3. Ascending(m.keys)
  <2> DEFINE S == ToSet(n.keys)
  <2>1. Stores(n.keys, S)
    <3>1. n.keys \in Seq(Nat)
      BY ShelfFacts
    <3> QED BY <3>1, Positions DEF Stores, Shelf, ToSet
  <2> HIDE DEF S
  <2>2. Stores(LeafDelete(n, k).keys, S)
    BY <1>1, <2>1, LeafDeleteStores
  <2> QED BY <2>2 DEF Stores, k
<1> QED BY <1>2, <1>3 DEF Shelf, k

LEMMA ShelfChanges ==
    ASSUME NEW n, Shelf(n), NEW e \in Holds(n), NEW v \in Val, NEW m, m = LeafUpdate(n, e[1], v)
    PROVE  Shelf(m) /\ Holds(m) = {g \in Holds(n) : g[1] # e[1]} \cup {<<e[1], v>>}
<1> DEFINE k == e[1]
<1>1. HasKey(n, k) /\ LeafOK(n)
  BY ShelfFacts
<1> HIDE DEF k
<1>2. Matched(m) /\ m.keys = n.keys /\ \A g : g[1] # k => (g \in Holds(m) <=> g \in Holds(n))
  BY <1>1, LeafUpdateMatches DEF Shelf, k
<1>3. Shelf(m)
  BY <1>2 DEF Shelf
<1>4. HasKey(m, k)
  BY <1>1, <1>2 DEF HasKey, KeyCount
<1>5. ValueOf(m, k) = v
  <2> DEFINE i == LowerBound(n.keys, k)
  <2>1. n.keys \in Seq(Nat) /\ n.vals \in Seq(Val) /\ Len(n.vals) = Len(n.keys)
    BY DEF Shelf, Matched, Aligned, Index
  <2>2. i \in 1..Len(n.keys)
    <3>1. i \in 1..Len(n.keys) + 1 /\ Len(n.keys) \in Nat
      BY <2>1, LowerBoundIsPosition, Positions
    <3>2. i <= Len(n.keys)
      BY <1>1 DEF HasKey, KeyCount
    <3> QED BY <3>1, <3>2
  <2>3. i \in DOMAIN n.vals
    BY <2>1, <2>2
  <2>4. n = [keys |-> n.keys, vals |-> n.vals, next |-> n.next]
    BY <1>1 DEF LeafOK
  <2>5. m = [n EXCEPT !.vals = [n.vals EXCEPT ![i] = v]]
    BY DEF LeafUpdate, k
  <2>6. m.vals = [n.vals EXCEPT ![i] = v]
    BY <2>4, <2>5
  <2>7. m.vals[i] = v
    BY <2>3, <2>6
  <2> QED BY <1>2, <2>7 DEF ValueOf
<1>6. <<k, v>> \in Holds(m)
  BY <1>2, <1>4, <1>5, EntryOf
<1>7. \A g \in Holds(m) : g[1] = k => g = <<k, v>>
  BY <1>3, <1>6, ShelfFacts
<1> QED BY <1>2, <1>3, <1>6, <1>7 DEF k

(* The leaf l comes to hold no other keys than it did. *)
LEMMA Reshelved ==
    ASSUME NEW lf, Shelved(lf), NEW l \in DOMAIN lf, NEW node, Shelf(node),
           \A g \in Holds(node) : \E e \in Holds(lf[l]) : e[1] = g[1],
           NEW lf2, lf2 = [lf EXCEPT ![l] = node]
    PROVE  Shelved(lf2)
<1>1. DOMAIN lf2 = DOMAIN lf /\ lf2[l] = node /\ \A y \in DOMAIN lf : y # l => lf2[y] = lf[y]
  OBVIOUS
<1>2. \A y \in DOMAIN lf : \A g \in Holds(lf2[y]) : \E e \in Holds(lf[y]) : e[1] = g[1]
  BY <1>1
<1>3. OneLeafEach(lf2)
  <2> SUFFICES ASSUME NEW x \in DOMAIN lf, NEW y \in DOMAIN lf,
                      NEW e \in Holds(lf2[x]), NEW g \in Holds(lf2[y]), e[1] = g[1]
               PROVE  x = y
    BY <1>1 DEF OneLeafEach
  <2>1. PICK d \in Holds(lf[x]) : d[1] = e[1]
    BY <1>2
  <2>2. PICK h \in Holds(lf[y]) : h[1] = g[1]
    BY <1>2
  <2> QED BY <2>1, <2>2 DEF Shelved, OneLeafEach
<1> QED BY <1>1, <1>3 DEF Shelved

(* What the edit of a leaf does to the stock. *)
Drops(E, D, k) == D = {g \in E : g[1] # k}
Changes(E, D, k, v) == D = {g \in E : g[1] # k} \cup {<<k, v>>}

LEMMA StockDrops ==
    ASSUME NEW lf, Shelved(lf), NEW l \in DOMAIN lf, NEW e \in Holds(lf[l]),
           NEW lf2, lf2 = [lf EXCEPT ![l] = LeafDelete(lf[l], e[1])]
    PROVE  Shelved(lf2) /\ Drops(Stock(lf), Stock(lf2), e[1])
<1> DEFINE node == LeafDelete(lf[l], e[1])
<1>1. Shelf(node) /\ Holds(node) = {g \in Holds(lf[l]) : g[1] # e[1]}
  BY ShelfDrops DEF Shelved
<1>2. lf2 = [lf EXCEPT ![l] = node]
  OBVIOUS
<1> HIDE DEF node
<1>3. Shelved(lf2)
  BY <1>1, <1>2, Reshelved
<1>4. DOMAIN lf2 = DOMAIN lf /\ lf2[l] = node /\ \A y \in DOMAIN lf : y # l => lf2[y] = lf[y]
  BY <1>2
<1>5. \A y \in DOMAIN lf : y # l => \A g \in Holds(lf[y]) : g[1] # e[1]
  BY DEF Shelved, OneLeafEach
<1>6. ASSUME NEW y \in DOMAIN lf, NEW g PROVE g \in Holds(lf2[y]) <=> g \in Holds(lf[y]) /\ g[1] # e[1]
  BY <1>1, <1>4, <1>5
<1> DEFINE D == Stock(lf2)
           E == Stock(lf)
<1>7. \A g : g \in D <=> \E y \in DOMAIN lf : g \in Holds(lf2[y])
  BY <1>4, StockFacts
<1>8. \A g : g \in E <=> \E y \in DOMAIN lf : g \in Holds(lf[y])
  BY StockFacts
<1> HIDE DEF D, E
<1>9. \A g : g \in D <=> g \in E /\ g[1] # e[1]
  BY <1>6, <1>7, <1>8
<1>10. D = {g \in E : g[1] # e[1]}
  BY <1>9
<1> QED BY <1>3, <1>10 DEF Drops, D, E

LEMMA StockChanges ==
    ASSUME NEW lf, Shelved(lf), NEW l \in DOMAIN lf, NEW e \in Holds(lf[l]), NEW v \in Val,
           NEW lf2, lf2 = [lf EXCEPT ![l] = LeafUpdate(lf[l], e[1], v)]
    PROVE  Shelved(lf2) /\ Changes(Stock(lf), Stock(lf2), e[1], v)
<1> DEFINE node == LeafUpdate(lf[l], e[1], v)
<1>1. Shelf(node) /\ Holds(node) = {g \in Holds(lf[l]) : g[1] # e[1]} \cup {<<e[1], v>>}
  BY ShelfChanges DEF Shelved
<1>2. lf2 = [lf EXCEPT ![l] = node]
  OBVIOUS
<1> HIDE DEF node
<1>3. Shelved(lf2)
  <2>1. \A g \in Holds(node) : \E h \in Holds(lf[l]) : h[1] = g[1]
    BY <1>1
  <2> QED BY <1>1, <1>2, <2>1, Reshelved
<1>4. DOMAIN lf2 = DOMAIN lf /\ lf2[l] = node /\ \A y \in DOMAIN lf : y # l => lf2[y] = lf[y]
  BY <1>2
<1>5. \A y \in DOMAIN lf : y # l => \A g \in Holds(lf[y]) : g[1] # e[1]
  BY DEF Shelved, OneLeafEach
<1> DEFINE n == <<e[1], v>>
<1>6. Holds(lf2[l]) = {g \in Holds(lf[l]) : g[1] # e[1]} \cup {n}
  BY <1>1, <1>4
<1> HIDE DEF n
<1> DEFINE D == Stock(lf2)
           E == Stock(lf)
<1>7. \A g : g \in D <=> \E y \in DOMAIN lf : g \in Holds(lf2[y])
  BY <1>4, StockFacts
<1>8. \A g : g \in E <=> \E y \in DOMAIN lf : g \in Holds(lf[y])
  BY StockFacts
<1> HIDE DEF D, E
<1>9. ASSUME NEW g \in D PROVE (g \in E /\ g[1] # e[1]) \/ g = n
  <2>1. PICK y \in DOMAIN lf : g \in Holds(lf2[y])
    BY <1>7
  <2>2. CASE y = l
    BY <1>6, <1>8, <2>1, <2>2
  <2>3. CASE y # l
    BY <1>4, <1>5, <1>8, <2>1, <2>3
  <2> QED BY <2>2, <2>3
<1>10. ASSUME NEW g \in E, g[1] # e[1] PROVE g \in D
  <2>1. PICK y \in DOMAIN lf : g \in Holds(lf[y])
    BY <1>8
  <2>2. CASE y = l
    BY <1>6, <1>7, <1>10, <2>1, <2>2
  <2>3. CASE y # l
    BY <1>4, <1>7, <2>1, <2>3
  <2> QED BY <2>2, <2>3
<1>11. n \in D
  BY <1>6, <1>7
<1>12. D = {g \in E : g[1] # e[1]} \cup {n}
  BY <1>9, <1>10, <1>11
<1> QED BY <1>3, <1>12 DEF Changes, D, E, n

(* The leaves after an edit under k: no other keys come, no other entry    *)
(* goes, and each leaf leads on to the leaf it led on to.                  *)
Sub(lf, lf2) ==
    /\ DOMAIN lf2 = DOMAIN lf
    /\ \A y \in DOMAIN lf : lf2[y].next = lf[y].next
    /\ \A y \in DOMAIN lf : \A g \in Holds(lf2[y]) : \E e \in Holds(lf[y]) : e[1] = g[1]
Spares(lf, lf2, k) == \A y \in DOMAIN lf : \A g \in Holds(lf[y]) : g[1] # k => g \in Holds(lf2[y])

LEMMA SubTrans ==
    ASSUME NEW a, NEW b, NEW c, Sub(a, b), Sub(b, c)
    PROVE  Sub(a, c)
<1>0. DOMAIN c = DOMAIN a /\ \A y \in DOMAIN a : c[y].next = a[y].next
  BY DEF Sub
<1> SUFFICES ASSUME NEW y \in DOMAIN a, NEW g \in Holds(c[y]) PROVE \E e \in Holds(a[y]) : e[1] = g[1]
  BY <1>0 DEF Sub
<1>1. PICK d \in Holds(b[y]) : d[1] = g[1]
  BY DEF Sub
<1>2. PICK e \in Holds(a[y]) : e[1] = d[1]
  BY DEF Sub
<1> QED BY <1>1, <1>2

LEMMA EditSpares ==
    ASSUME NEW lf, Shelved(lf), NEW l \in DOMAIN lf, NEW e \in Holds(lf[l]), NEW node,
           \/ node = LeafDelete(lf[l], e[1])
           \/ \E v \in Val : node = LeafUpdate(lf[l], e[1], v),
           NEW lf2, lf2 = [lf EXCEPT ![l] = node]
    PROVE  Sub(lf, lf2) /\ Spares(lf, lf2, e[1])
<1>1. \/ Holds(node) = {g \in Holds(lf[l]) : g[1] # e[1]}
      \/ \E v \in Val : Holds(node) = {g \in Holds(lf[l]) : g[1] # e[1]} \cup {<<e[1], v>>}
  BY ShelfDrops, ShelfChanges DEF Shelved
<1>2. \A g \in Holds(lf[l]) : g[1] # e[1] => g \in Holds(node)
  BY <1>1
<1>3. \A g \in Holds(node) : \E h \in Holds(lf[l]) : h[1] = g[1]
  BY <1>1
<1>4. DOMAIN lf2 = DOMAIN lf /\ lf2[l] = node /\ \A y \in DOMAIN lf : y # l => lf2[y] = lf[y]
  OBVIOUS
<1>5. node.next = lf[l].next
  <2>1. Shelf(lf[l])
    BY DEF Shelved
  <2>2. LeafOK(lf[l])
    BY <2>1, ShelfFacts
  <2>3. LeafDelete(lf[l], e[1]).next = lf[l].next
    BY <2>2, NextKept
  <2>4. \A v \in Val : LeafUpdate(lf[l], e[1], v).next = lf[l].next
    BY <2>2, NextKept
  <2> QED BY <2>3, <2>4
<1>6. \A y \in DOMAIN lf : lf2[y].next = lf[y].next
  BY <1>4, <1>5
<1> QED BY <1>2, <1>3, <1>4, <1>6 DEF Sub, Spares
---------------------------------------------------------------------------
(* Settling one fill *)

Fill == [key : Nat, maker : Trader, price : Int, fill : Nat \ {0}, left : Nat, leaf : Nat]

(* The order a fill was made for, and that it rests there. *)
OrderOf(f) == <<f.key, [maker |-> f.maker, size |-> f.fill + f.left]>>
Owed(f, lf) == f.leaf \in DOMAIN lf /\ f.price = PriceOf(f.key) /\ OrderOf(f) \in Holds(lf[f.leaf])

(* What is left of it, and what the leaves come to hold of it. *)
RestOf(f) == <<f.key, [maker |-> f.maker, size |-> f.left]>>
Put(lf, f) == IF f.left = 0 THEN f.key \notin KeysIn(Stock(lf)) ELSE RestOf(f) \in Stock(lf)

LEMMA RestIsEntry ==
    ASSUME NEW f, f \in Fill, OrderOf(f)[2] \in Val
    PROVE  [maker |-> f.maker, size |-> f.left] \in Val
<1>1. OrderOf(f)[2] = [maker |-> f.maker, size |-> f.fill + f.left]
  BY DEF OrderOf
<1>2. f.fill \in Nat /\ f.left \in Nat /\ f.maker \in Trader
  BY DEF Fill
<1>3. f.fill + f.left \in 0..MaxU64
  BY <1>1, OrderAssumption
<1>4. f.left \in 0..MaxU64
  BY <1>2, <1>3, FieldAssumption
<1> QED BY <1>2, <1>4, OrderAssumption

(* What rests can settle. *)
Sound(E) == \A e \in E : e[2].size > 0 => PriceOf(e[1]) * e[2].size \in 1..MaxU64

IsBooks(t) ==
    /\ t = [ok |-> t.ok, vault |-> t.vault, held |-> t.held, cash |-> t.cash, leaf |-> t.leaf]
    /\ t.ok = TRUE \/ t.ok = FALSE

(* The state of the settlement agrees with itself. *)
Agrees(t) == Shelved(t.leaf) /\ t.vault = Worth(Stock(t.leaf)) /\ Sound(Stock(t.leaf))

(* The leaf of a fill after it. *)
FillTaken(lf, lf2, f) == lf2 = [lf EXCEPT ![f.leaf] = Leftover(lf[f.leaf], f)]

(* Both transfers and the order's edit. *)
Paid(t, a, b, x, f) ==
    [t EXCEPT !.vault = @ - a,
              !.held[x] = @ + a,
              !.cash = TokenTransfer(@, x, f.maker, b),
              !.leaf[f.leaf] = Leftover(@, f)]

(* x gets a of what the vault holds, and pays b to m. *)
Transfers(t, w, a, b, x, m) ==
    /\ w.held = [t.held EXCEPT ![x] = @ + a]
    /\ w.cash = TokenTransfer(t.cash, x, m, b)

LEMMA BooksPaid ==
    ASSUME NEW t, IsBooks(t), NEW a, NEW b, NEW x, NEW f, NEW w, w = Paid(t, a, b, x, f)
    PROVE  /\ IsBooks(w) /\ w.vault = t.vault - a /\ FillTaken(t.leaf, w.leaf, f)
           /\ Transfers(t, w, a, b, x, f.maker)
<1> DEFINE o == t.ok
           v == t.vault
           h == t.held
           c == t.cash
           l == t.leaf
<1>1. t = [ok |-> o, vault |-> v, held |-> h, cash |-> c, leaf |-> l]
  BY DEF IsBooks
<1> DEFINE lf == [l EXCEPT ![f.leaf] = Leftover(l[f.leaf], f)]
<1>2. lf = [l EXCEPT ![f.leaf] = Leftover(l[f.leaf], f)]
  OBVIOUS
<1>6. FillTaken(l, lf, f)
  BY DEF FillTaken
<1> DEFINE hd == [h EXCEPT ![x] = h[x] + a]
<1>11. hd = [h EXCEPT ![x] = h[x] + a]
  OBVIOUS
<1> HIDE DEF o, v, h, c, l, lf, hd
<1>3. w = [ok |-> w.ok, vault |-> w.vault, held |-> w.held, cash |-> w.cash, leaf |-> w.leaf]
  BY <1>1 DEF Paid
<1>4. w.vault = v - a
  BY <1>1 DEF Paid
<1>5. w.leaf = lf
  BY <1>1, <1>2 DEF Paid
<1>7. w.ok = o
  BY <1>1 DEF Paid
<1>8. w.ok = TRUE \/ w.ok = FALSE
  BY <1>7 DEF IsBooks, o
<1>9. w.held = hd
  BY <1>1, <1>11 DEF Paid
<1>12. w.cash = TokenTransfer(c, x, f.maker, b)
  BY <1>1 DEF Paid
<1>10. Transfers(t, w, a, b, x, f.maker)
  BY <1>9, <1>12 DEF Transfers, hd, h, c
<1> QED BY <1>3, <1>4, <1>5, <1>6, <1>8, <1>10 DEF IsBooks, v, l

(* What the code computes, if it goes on. *)
LEMMA SettleGives ==
    ASSUME NEW t, IsBooks(t), NEW f, NEW taker, NEW w, w = Settle(t, taker, f)
    PROVE  /\ IsBooks(w)
           /\ w.ok = TRUE => /\ t.ok = TRUE
                             /\ w.vault = t.vault - Release(f.price, f.fill)
                             /\ FillTaken(t.leaf, w.leaf, f)
                             /\ Transfers(t, w, Release(f.price, f.fill), Collect(f.price, f.fill), taker, f.maker)
<1> DEFINE release == Release(f.price, f.fill)
           collect == Collect(f.price, f.fill)
           Stops == ~t.ok \/ f.price * f.fill > MaxU64 \/ release > t.vault \/ collect > t.cash[taker]
           next == Paid(t, release, collect, taker, f)
<1>1. w = IF Stops THEN [t EXCEPT !.ok = FALSE] ELSE next
  BY DEF Settle, Paid
<1>2. CASE Stops
  <2>1. w = [t EXCEPT !.ok = FALSE]
    BY <1>1, <1>2
  <2> HIDE DEF Stops, next
  <2>2. DOMAIN t = {"ok", "vault", "held", "cash", "leaf"}
    BY DEF IsBooks
  <2>3. w = [ok |-> FALSE, vault |-> t.vault, held |-> t.held, cash |-> t.cash, leaf |-> t.leaf]
    BY <2>1 DEF IsBooks
  <2> QED BY <2>3 DEF IsBooks
<1>3. CASE ~Stops
  <2>1. w = next
    BY <1>1, <1>3
  <2>2. t.ok = TRUE
    BY <1>3 DEF IsBooks
  <2> HIDE DEF Stops, release, collect
  <2>4. /\ IsBooks(w) /\ w.vault = t.vault - release /\ FillTaken(t.leaf, w.leaf, f)
        /\ Transfers(t, w, release, collect, taker, f.maker)
    BY <2>1, BooksPaid
  <2> QED BY <2>2, <2>4 DEF release, collect
<1> QED BY <1>2, <1>3

(* What an order holds, and what it still holds after a fill. *)
LEMMA Frees ==
    ASSUME NEW f, f \in Fill, f.price = PriceOf(f.key), NEW v, v = [maker |-> f.maker, size |-> f.left]
    PROVE  /\ Release(f.price, f.fill) \in Int
           /\ f.left = 0 => Backing(OrderOf(f)) = Release(f.price, f.fill)
           /\ Backing(OrderOf(f)) = Release(f.price, f.fill) + Backing(<<f.key, v>>)
<1> DEFINE a == f.fill
           b == f.left
           p == f.price
<1>1. a \in Nat /\ b \in Nat /\ p \in Int
  BY DEF Fill
<1>2. Backing(OrderOf(f)) = Escrow(p, a + b) /\ Backing(<<f.key, v>>) = Escrow(p, b)
  BY DEF Backing, OrderOf
<1> HIDE DEF a, b, p
<1>3. p * (a + b) = p * a + p * b /\ p * a \in Int /\ p * b \in Int
  BY <1>1
<1>4. Release(p, a) \in Int
  BY <1>1, <1>3 DEF Release
<1>5. Escrow(p, a + b) = Release(p, a) + Escrow(p, b)
  BY <1>1, <1>3 DEF Release, Escrow
<1>6. b = 0 => Escrow(p, a + b) = Release(p, a)
  BY <1>1 DEF Release, Escrow
<1> QED BY <1>2, <1>4, <1>5, <1>6 DEF a, b, p

(* A part of what can settle can settle. *)
LEMMA PartSettles ==
    ASSUME NEW p \in Int, NEW a \in Nat, NEW b \in Nat, b > 0, NEW m \in Nat, p * (a + b) \in 1..m
    PROVE  p * b \in 1..m
<1>1. p * (a + b) = p * a + p * b /\ p * a \in Int /\ p * b \in Int
  OBVIOUS
<1>2. p > 0
  <2> SUFFICES ASSUME p <= 0 PROVE FALSE
    OBVIOUS
  <2>1. (0 - p) * (a + b) >= 0
    OBVIOUS
  <2>2. (0 - p) * (a + b) = 0 - p * (a + b)
    OBVIOUS
  <2> QED BY <2>1, <2>2
<1>3. p * a >= 0 /\ p * b >= 1
  BY <1>2
<1> QED BY <1>1, <1>3

LEMMA SettleStep ==
    ASSUME NEW t, IsBooks(t), Agrees(t), NEW f, f \in Fill, Owed(f, t.leaf),
           NEW taker, NEW w, w = Settle(t, taker, f), w.ok = TRUE
    PROVE  Agrees(w) /\ Sub(t.leaf, w.leaf) /\ Spares(t.leaf, w.leaf, f.key)
<1> DEFINE lf == t.leaf
           l == f.leaf
           e == OrderOf(f)
           k == f.key
           v == [maker |-> f.maker, size |-> f.left]
           g == <<k, v>>
           lf2 == w.leaf
           E == Stock(lf)
           D == Stock(lf2)
<1>1. w.vault = t.vault - Release(f.price, f.fill) /\ FillTaken(lf, lf2, f)
  BY SettleGives
<1>0. lf2 = [lf EXCEPT ![l] = Leftover(lf[l], f)]
  BY <1>1 DEF FillTaken
<1>2. l \in DOMAIN lf /\ e \in Holds(lf[l]) /\ e[1] = k /\ f.price = PriceOf(k)
  BY DEF Owed, OrderOf
<1>3. Shelved(lf) /\ t.vault = Worth(E) /\ Sound(E) /\ Ledger(E) /\ e \in E
  BY <1>2, ShelvedLedger, StockFacts DEF Agrees
<1>4. k \in Nat /\ f.fill \in Nat /\ f.left \in Nat /\ f.maker \in Trader /\ e[2].size = f.fill + f.left
  BY DEF Fill, OrderOf
<1>5. v \in Val
  <2>1. e[2] \in Val
    BY <1>3 DEF Ledger, IsEntry
  <2> QED BY <2>1, RestIsEntry
<1>6. /\ Release(f.price, f.fill) \in Int
      /\ f.left = 0 => Backing(e) = Release(f.price, f.fill)
      /\ Backing(e) = Release(f.price, f.fill) + Backing(g)
  BY <1>2, Frees
<1>7. e[2].size > 0 => PriceOf(k) * (f.fill + f.left) \in 1..MaxU64
  BY <1>2, <1>3, <1>4 DEF Sound
<1>8. Sub(lf, lf2) /\ Spares(lf, lf2, k)
  <2> DEFINE node == Leftover(lf[l], f)
  <2>1. node = LeafDelete(lf[l], k) \/ node = LeafUpdate(lf[l], k, v)
    BY DEF Leftover
  <2>2. lf2 = [lf EXCEPT ![l] = node]
    BY <1>0
  <2> HIDE DEF node, lf, lf2, l, e, k, v
  <2> QED BY <1>2, <1>3, <1>5, <2>1, <2>2, EditSpares
<1>9. CASE f.left = 0
  <2>1. lf2 = [lf EXCEPT ![l] = LeafDelete(lf[l], e[1])]
    BY <1>0, <1>2, <1>9 DEF Leftover
  <2> HIDE DEF lf, lf2, l, e, k, v, g
  <2>2. Shelved(lf2) /\ D = {x \in E : x[1] # e[1]}
    <3>1. Shelved(lf2) /\ Drops(Stock(lf), Stock(lf2), e[1])
      BY <1>2, <1>3, <2>1, StockDrops
    <3> QED BY <3>1 DEF Drops
  <2> HIDE DEF D, E
  <2>3. Worth(D) \in Int /\ Backing(e) \in Int /\ Worth(E) = Worth(D) + Backing(e)
    BY <1>3, <2>2, WorthLoses
  <2>4. Sound(D)
    BY <1>3, <2>2 DEF Sound
  <2>5. w.vault = Worth(D)
    BY <1>1, <1>3, <1>6, <1>9, <2>3
  <2> QED BY <1>8, <2>2, <2>4, <2>5 DEF Agrees, D, lf, lf2, k
<1>10. CASE f.left # 0
  <2>1. lf2 = [lf EXCEPT ![l] = LeafUpdate(lf[l], e[1], v)]
    BY <1>0, <1>2, <1>10 DEF Leftover
  <2>2. g[1] = k /\ g[2] = v /\ v.size = f.left /\ g = <<g[1], g[2]>>
    OBVIOUS
  <2>3. IsEntry(g)
    BY <1>4, <1>5 DEF IsEntry
  <2> HIDE DEF lf, lf2, l, e, k, v
  <2>4. Shelved(lf2) /\ D = {x \in E : x[1] # e[1]} \cup {<<e[1], v>>}
    <3>1. Shelved(lf2) /\ Changes(Stock(lf), Stock(lf2), e[1], v)
      BY <1>2, <1>3, <1>5, <2>1, StockChanges
    <3> QED BY <3>1 DEF Changes
  <2>5. D = {x \in E : x[1] # e[1]} \cup {g} /\ g[1] = e[1]
    BY <1>2, <2>2, <2>4
  <2> HIDE DEF D, E, g
  <2>6. /\ Worth(D) \in Int /\ Backing(e) \in Int /\ Backing(g) \in Int /\ Worth(E) \in Int
        /\ Worth(D) = Worth(E) - Backing(e) + Backing(g)
    <3>1. Ledger(E) /\ e \in E
      BY <1>3
    <3>2. IsEntry(g) /\ g[1] = e[1] /\ D = Swapped(E, e, g)
      BY ONLY <2>3, <2>5 DEF Swapped
    <3> QED BY ONLY <3>1, <3>2, WorthChanges
  <2>7. PriceOf(g[1]) * g[2].size \in 1..MaxU64
    <3>1. f.left > 0 /\ e[2].size > 0
      BY <1>4, <1>10
    <3>2. PriceOf(k) \in Int
      BY <1>4, PriceIsInt
    <3>3. PriceOf(k) * f.left \in 1..MaxU64
      BY <1>4, <1>7, <3>1, <3>2, PartSettles, FieldAssumption
    <3> QED BY <2>2, <3>3
  <2>8. Sound(D)
    BY <1>3, <2>5, <2>7 DEF Sound
  <2>9. w.vault = Worth(D)
    <3>1. Worth(E) = t.vault /\ w.vault = t.vault - Release(f.price, f.fill)
      BY <1>1, <1>3
    <3> QED BY <1>6, <2>6, <3>1
  <2> QED BY <1>8, <2>4, <2>8, <2>9 DEF Agrees, D, lf, lf2, k
<1> QED BY <1>9, <1>10
---------------------------------------------------------------------------
(* Settling them all *)

SettleRun(s, taker, fills) ==
    s = [j \in 0..Len(fills) |->
            IF j = 0 THEN [ok |-> TRUE, vault |-> vault, held |-> held, cash |-> cash, leaf |-> leaf]
            ELSE Settle(s[j - 1], taker, fills[j])]

LEMMA SettleRuns ==
    ASSUME NEW taker, NEW fills, Len(fills) \in Nat
    PROVE  \E s : SettleRun(s, taker, fills) /\ SettleAll(taker, fills) = s[Len(fills)]
<1> DEFINE N == Len(fills)
           Step(s, i) == IF i = 0
                         THEN [ok |-> TRUE, vault |-> vault, held |-> held, cash |-> cash, leaf |-> leaf]
                         ELSE Settle(s[i - 1], taker, fills[i])
           Upto(s, d) == s = [i \in 0..N |-> s[i]] /\ \A i \in 0..N : i <= d => s[i] = Step(s, i)
           A == {d \in Nat : \E s : Upto(s, d)}
<1> HIDE DEF N
<1>0. N \in Nat
  BY DEF N
<1>1. 0 \in A
  <2> DEFINE s == [i \in 0..N |-> Step([x \in {} |-> x], 0)]
  <2>1. /\ s = [i \in 0..N |-> s[i]]
        /\ \A i \in 0..N : i <= 0 =>
              i = 0 /\ s[i] = [ok |-> TRUE, vault |-> vault, held |-> held, cash |-> cash, leaf |-> leaf]
    BY <1>0
  <2> HIDE DEF s
  <2>2. Upto(s, 0)
    BY <2>1
  <2> QED BY <2>2
<1>2. ASSUME NEW d \in Nat, d \in A PROVE d + 1 \in A
  <2>1. PICK s : Upto(s, d)
    BY <1>2
  <2> DEFINE t == [i \in 0..N |-> IF i = d + 1 THEN Step(s, i) ELSE s[i]]
  <2>2. t = [i \in 0..N |-> t[i]] /\ \A i \in 0..N : t[i] = IF i = d + 1 THEN Step(s, i) ELSE s[i]
    OBVIOUS
  <2> HIDE DEF t
  <2>3. ASSUME NEW i \in 0..N, i <= d + 1 PROVE t[i] = Step(t, i)
    <3>1. i # 0 => i - 1 \in 0..N /\ i - 1 # d + 1
      BY <1>0, <2>3
    <3>2. i # 0 => t[i - 1] = s[i - 1]
      BY <2>2, <3>1
    <3>3. Step(t, i) = Step(s, i)
      BY <3>2
    <3>4. t[i] = Step(s, i)
      <4>1. i # d + 1 => i <= d
        BY <1>0, <2>3
      <4> HIDE DEF Step
      <4> QED BY <2>1, <2>2, <4>1
    <3> QED BY <3>3, <3>4
  <2>4. Upto(t, d + 1)
    BY <2>2, <2>3
  <2> HIDE DEF Upto
  <2> QED BY <2>4
<1> HIDE DEF A
<1>3. N \in A
  BY <1>0, <1>1, <1>2, NatInductionOn
<1>4. PICK s : Upto(s, N)
  BY <1>3 DEF A
<1>5. SettleRun(s, taker, fills)
  <2>1. \A i \in 0..N : i <= N
    BY <1>0
  <2>2. \A i \in 0..N : s[i] = Step(s, i)
    <3> HIDE DEF Step
    <3> QED BY <1>4, <2>1
  <2> QED BY <1>4, <2>2 DEF SettleRun, N
<1> DEFINE c == CHOOSE c : SettleRun(c, taker, fills)
<1>6. SettleRun(c, taker, fills)
  BY <1>5
<1>7. SettleAll(taker, fills) = c[Len(fills)]
  BY Zenon DEF SettleAll, SettleRun
<1> QED BY <1>6, <1>7

(* A settlement fills no leaf any further, and leaves what it should. *)
LEMMA SettleMoves ==
    ASSUME NEW lf, Shelved(lf), NEW f, f \in Fill, Owed(f, lf), NEW lf2, FillTaken(lf, lf2, f)
    PROVE  /\ \A y \in DOMAIN lf : Len(lf2[y].keys) <= Len(lf[y].keys)
           /\ Put(lf2, f)
<1> DEFINE l == f.leaf
           e == OrderOf(f)
           k == f.key
           node == Leftover(lf[l], f)
<1>1. l \in DOMAIN lf /\ e \in Holds(lf[l]) /\ e[1] = k
  BY DEF Owed, OrderOf
<1>2. Shelf(lf[l]) /\ \A y \in DOMAIN lf : Len(lf[y].keys) \in Nat
  <2>1. \A y \in DOMAIN lf : lf[y].keys \in Seq(Nat)
    BY ShelfFacts DEF Shelved
  <2> QED BY <1>1, <2>1, Positions DEF Shelved
<1>3. LeafOK(lf[l]) /\ HasKey(lf[l], k) /\ k \in Index
  BY <1>1, <1>2, ShelfFacts DEF Fill, Index
<1>4. Len(node.keys) <= Len(lf[l].keys)
  <2>1. Len(LeafDelete(lf[l], k).keys) = Len(lf[l].keys) - 1
    BY <1>3, LeafDeleteOK
  <2>2. \A v : LeafUpdate(lf[l], k, v).keys = lf[l].keys
    BY <1>3, LeafUpdateOK
  <2>3. Len(lf[l].keys) \in Nat
    BY <1>1, <1>2
  <2>4. node.keys = LeafDelete(lf[l], k).keys \/ node.keys = lf[l].keys
    BY <2>2 DEF Leftover
  <2> QED BY <2>1, <2>3, <2>4
<1>5. lf2 = [lf EXCEPT ![l] = node]
  BY DEF FillTaken
<1>6. Put(lf2, f)
  <2>1. CASE f.left = 0
    <3>1. lf2 = [lf EXCEPT ![l] = LeafDelete(lf[l], e[1])]
      BY <1>1, <1>5, <2>1 DEF Leftover
    <3> HIDE DEF l, e, node
    <3>2. Drops(Stock(lf), Stock(lf2), e[1])
      BY <1>1, <3>1, StockDrops
    <3> QED BY <1>1, <2>1, <3>2 DEF Drops, KeysIn, Put
  <2>2. CASE f.left # 0
    <3> DEFINE v == [maker |-> f.maker, size |-> f.left]
    <3>1. lf2 = [lf EXCEPT ![l] = LeafUpdate(lf[l], e[1], v)]
      BY <1>1, <1>5, <2>2 DEF Leftover
    <3>2. v \in Val
      <4>1. IsEntry(e)
        BY <1>1, <1>2, ShelfFacts
      <4> QED BY <4>1, RestIsEntry DEF IsEntry
    <3>3. RestOf(f) = <<k, v>>
      BY DEF RestOf
    <3> HIDE DEF l, e, node, v
    <3>4. Changes(Stock(lf), Stock(lf2), e[1], v)
      BY <1>1, <3>1, <3>2, StockChanges
    <3>5. <<e[1], v>> \in Stock(lf2)
      BY <3>4 DEF Changes
    <3> QED BY <1>1, <2>2, <3>3, <3>5 DEF Put
  <2> QED BY <2>1, <2>2
<1> HIDE DEF l, node
<1>7. \A y \in DOMAIN lf : lf2[y] = IF y = l THEN node ELSE lf[y]
  BY <1>5
<1>8. \A y \in DOMAIN lf : Len(lf2[y].keys) <= Len(lf[y].keys)
  BY <1>2, <1>4, <1>7
<1> QED BY <1>6, <1>8

(* What a sweep hands over: fills for orders that rest, none of them twice. *)
Plan(fs) ==
    /\ fs \in Seq(Fill)
    /\ \A j \in 1..Len(fs) : Owed(fs[j], leaf)
    /\ \A i, j \in 1..Len(fs) : fs[i].key = fs[j].key => i = j

Settling(t, fs, j) ==
    /\ Agrees(t) /\ Sub(leaf, t.leaf)
    /\ \A i \in 1..Len(fs) : i > j => Owed(fs[i], t.leaf)

(* What the first j fills did to the leaves. *)
Moved(lf, fs, j) ==
    /\ \A y \in DOMAIN leaf : Len(lf[y].keys) <= Len(leaf[y].keys)
    /\ \A e \in Stock(leaf) : (\A i \in 1..j : fs[i].key # e[1]) => e \in Stock(lf)
    /\ \A i \in 1..j : Put(lf, fs[i])

LEMMA MovesOn ==
    ASSUME Shelved(leaf), NEW fs, NEW j \in Nat, j > 0, NEW f, f = fs[j], NEW lf, Shelved(lf), Sub(leaf, lf), Moved(lf, fs, j - 1),
           NEW lf2, Shelved(lf2), Sub(lf, lf2), Spares(lf, lf2, f.key),
           \A y \in DOMAIN lf : Len(lf2[y].keys) <= Len(lf[y].keys), Put(lf2, f),
           \A i \in 1..j - 1 : fs[i].key # f.key
    PROVE  Moved(lf2, fs, j)
<1>1. \A i \in 1..j : i \in 1..j - 1 \/ i = j
  OBVIOUS
<1>2. DOMAIN lf = DOMAIN leaf /\ DOMAIN lf2 = DOMAIN leaf
  BY DEF Sub
<1>3. \A y \in DOMAIN leaf : Len(lf2[y].keys) <= Len(leaf[y].keys)
  <2> SUFFICES ASSUME NEW y \in DOMAIN leaf PROVE Len(lf2[y].keys) <= Len(leaf[y].keys)
    OBVIOUS
  <2>1. leaf[y].keys \in Seq(Nat) /\ lf[y].keys \in Seq(Nat) /\ lf2[y].keys \in Seq(Nat)
    BY <1>2, ShelfFacts DEF Shelved
  <2>2. Len(leaf[y].keys) \in Nat /\ Len(lf[y].keys) \in Nat /\ Len(lf2[y].keys) \in Nat
    BY <2>1
  <2>3. Len(lf[y].keys) <= Len(leaf[y].keys) /\ Len(lf2[y].keys) <= Len(lf[y].keys)
    BY <1>2 DEF Moved
  <2> QED BY <2>2, <2>3
<1>4. ASSUME NEW e \in Stock(leaf), \A i \in 1..j : fs[i].key # e[1] PROVE e \in Stock(lf2)
  <2>1. e \in Stock(lf)
    BY <1>4 DEF Moved
  <2>2. PICK y \in DOMAIN lf : e \in Holds(lf[y])
    BY <2>1, StockFacts
  <2>3. e[1] # f.key
    BY <1>4
  <2>4. e \in Holds(lf2[y])
    BY <2>2, <2>3 DEF Spares
  <2> QED BY <1>2, <2>2, <2>4, StockFacts
<1>5. KeysIn(Stock(lf2)) \subseteq KeysIn(Stock(lf))
  <2> SUFFICES ASSUME NEW g \in Stock(lf2) PROVE \E e \in Stock(lf) : e[1] = g[1]
    BY DEF KeysIn
  <2>1. PICK y \in DOMAIN lf2 : g \in Holds(lf2[y])
    BY StockFacts
  <2>2. PICK e \in Holds(lf[y]) : e[1] = g[1]
    BY <1>2, <2>1 DEF Sub
  <2>3. e \in Stock(lf)
    BY <1>2, <2>1, StockFacts
  <2> QED BY <2>2, <2>3
<1>6. ASSUME NEW i \in 1..j PROVE Put(lf2, fs[i])
  <2>1. CASE i \in 1..j - 1
    <3>1. Put(lf, fs[i])
      BY <2>1 DEF Moved
    <3>2. CASE fs[i].left = 0
      BY <1>5, <3>1, <3>2 DEF Put
    <3>3. CASE fs[i].left # 0
      <4>1. RestOf(fs[i]) \in Stock(lf) /\ RestOf(fs[i])[1] = fs[i].key /\ fs[i].key # f.key
        BY <2>1, <3>1, <3>3 DEF Put, RestOf
      <4>2. PICK y \in DOMAIN lf : RestOf(fs[i]) \in Holds(lf[y])
        BY <4>1, StockFacts
      <4>3. RestOf(fs[i]) \in Holds(lf2[y])
        BY <4>1, <4>2 DEF Spares
      <4>4. RestOf(fs[i]) \in Stock(lf2)
        BY <1>2, <4>2, <4>3, StockFacts
      <4> QED BY <3>3, <4>4 DEF Put
    <3> QED BY <3>2, <3>3
  <2>2. CASE i = j
    BY <2>2
  <2> QED BY <1>1, <2>1, <2>2
<1> QED BY <1>3, <1>4, <1>6 DEF Moved

(* The fills after one that is settled are still owed. *)
LEMMA SettlesOn ==
    ASSUME NEW fs, Plan(fs), NEW j \in 1..Len(fs), NEW t, IsBooks(t), Settling(t, fs, j - 1),
           NEW taker, NEW w, w = Settle(t, taker, fs[j]), w.ok = TRUE
    PROVE  /\ Settling(w, fs, j)
           /\ Shelved(leaf) /\ Moved(t.leaf, fs, j - 1) => Moved(w.leaf, fs, j)
<1> DEFINE f == fs[j]
<1>1. Len(fs) \in Nat /\ \A i \in 1..Len(fs) : fs[i] \in Fill
  BY Positions DEF Plan
<1>2. f \in Fill /\ Owed(f, t.leaf) /\ w = Settle(t, taker, f)
  BY <1>1 DEF Settling
<1> HIDE DEF f
<1>3. Agrees(w) /\ Sub(t.leaf, w.leaf) /\ Spares(t.leaf, w.leaf, f.key)
  BY <1>2, SettleStep DEF Settling
<1>4. Sub(leaf, w.leaf)
  BY <1>3, SubTrans DEF Settling
<1>5. ASSUME NEW i \in 1..Len(fs), i > j PROVE Owed(fs[i], w.leaf)
  <2>1. Owed(fs[i], t.leaf) /\ fs[i].key # f.key
    BY <1>1, <1>5 DEF Settling, Plan, f
  <2>2. OrderOf(fs[i])[1] = fs[i].key
    BY DEF OrderOf
  <2>3. DOMAIN w.leaf = DOMAIN t.leaf
    BY <1>3 DEF Sub
  <2> QED BY <1>3, <2>1, <2>2, <2>3 DEF Spares, Owed
<1>6. ASSUME Shelved(leaf), Moved(t.leaf, fs, j - 1) PROVE Moved(w.leaf, fs, j)
  <2> DEFINE lf == t.leaf
             lf2 == w.leaf
  <2>1. FillTaken(lf, lf2, f)
    BY <1>2, SettleGives
  <2>2. Shelved(lf) /\ Sub(leaf, lf) /\ Shelved(lf2) /\ Sub(lf, lf2) /\ Spares(lf, lf2, f.key) /\ Owed(f, lf)
    BY <1>2, <1>3 DEF Settling, Agrees
  <2>3. Moved(lf, fs, j - 1) /\ j \in Nat /\ j > 0 /\ f = fs[j]
    BY <1>1, <1>6 DEF f
  <2> HIDE DEF lf, lf2
  <2>4. /\ \A y \in DOMAIN lf : Len(lf2[y].keys) <= Len(lf[y].keys)
        /\ Put(lf2, f)
    BY <1>2, <2>1, <2>2, SettleMoves
  <2>5. \A i \in 1..j - 1 : fs[i].key # f.key
    <3>1. \A i \in 1..j - 1 : i \in 1..Len(fs) /\ i # j
      BY <1>1
    <3> QED BY <3>1 DEF Plan, f
  <2>6. Moved(lf2, fs, j)
    BY <1>6, <2>2, <2>3, <2>4, <2>5, MovesOn
  <2> QED BY <2>6 DEF lf2
<1> QED BY <1>3, <1>4, <1>5, <1>6 DEF Settling

LEMMA SettlesAll ==
    ASSUME Shelved(leaf), vault = Worth(Stock(leaf)), Sound(Stock(leaf)), NEW fs, Plan(fs),
           NEW taker, NEW w, w = SettleAll(taker, fs), w.ok
    PROVE  Agrees(w) /\ Sub(leaf, w.leaf) /\ Moved(w.leaf, fs, Len(fs))
<1>1. Len(fs) \in Nat
  BY Positions DEF Plan
<1>2. PICK s : SettleRun(s, taker, fs) /\ w = s[Len(fs)]
  BY <1>1, SettleRuns
<1> DEFINE N == Len(fs)
           Good(j) == IsBooks(s[j]) /\ (s[j].ok = TRUE => Settling(s[j], fs, j) /\ Moved(s[j].leaf, fs, j))
           A == {j \in Nat : j <= N => Good(j)}
           b == [ok |-> TRUE, vault |-> vault, held |-> held, cash |-> cash, leaf |-> leaf]
<1>3. s[0] = b /\ \A j \in 1..N : s[j] = Settle(s[j - 1], taker, fs[j])
  <2>1. s = [j \in 0..N |-> IF j = 0 THEN b ELSE Settle(s[j - 1], taker, fs[j])]
    BY <1>2 DEF SettleRun
  <2> HIDE DEF b
  <2>2. 0 \in 0..N /\ \A j \in 1..N : j \in 0..N /\ j # 0
    BY <1>1
  <2> QED BY <2>1, <2>2
<1>4. 0 \in A
  <2>1. IsBooks(s[0])
    BY <1>3 DEF IsBooks
  <2>2. s[0].leaf = leaf /\ s[0].vault = vault
    BY <1>3
  <2>3. Agrees(s[0]) /\ Sub(leaf, s[0].leaf) /\ \A i \in 1..N : i > 0 => Owed(fs[i], s[0].leaf)
    BY <2>2 DEF Agrees, Sub, Plan
  <2>4. Moved(s[0].leaf, fs, 0)
    <3>1. \A y \in DOMAIN leaf : leaf[y].keys \in Seq(Nat)
      BY ShelfFacts DEF Shelved
    <3>2. \A y \in DOMAIN leaf : Len(leaf[y].keys) \in Nat
      BY <3>1
    <3>3. \A y \in DOMAIN leaf : Len(leaf[y].keys) <= Len(leaf[y].keys)
      BY <3>2
    <3>4. 1..0 = {}
      OBVIOUS
    <3> QED BY <2>2, <3>3, <3>4 DEF Moved
  <2> QED BY <2>1, <2>3, <2>4 DEF Settling
<1>5. ASSUME NEW j \in Nat, j \in A PROVE j + 1 \in A
  <2> HIDE DEF Good
  <2> SUFFICES ASSUME j + 1 <= N PROVE Good(j + 1)
    OBVIOUS
  <2> DEFINE i == j + 1
             t == s[j]
             u == s[i]
  <2>1. i \in 1..N /\ i - 1 = j
    BY <1>1
  <2>2. IsBooks(t) /\ (t.ok = TRUE => Settling(t, fs, i - 1) /\ Moved(t.leaf, fs, i - 1))
    <3>1. Good(j)
      BY <1>1, <1>5
    <3> QED BY <2>1, <3>1 DEF Good
  <2>3. u = Settle(t, taker, fs[i])
    BY <1>3, <2>1
  <2> HIDE DEF i, t, u
  <2>4. IsBooks(u) /\ (u.ok = TRUE => t.ok = TRUE)
    BY <2>2, <2>3, SettleGives
  <2>5. u.ok = TRUE => Settling(u, fs, i) /\ Moved(u.leaf, fs, i)
    BY <2>1, <2>2, <2>3, <2>4, SettlesOn
  <2> QED BY <2>4, <2>5 DEF u, i, Good
<1> HIDE DEF A
<1>6. N \in A
  BY <1>1, <1>4, <1>5, NatInductionOn
<1>7. IsBooks(w) /\ (w.ok = TRUE => Settling(w, fs, N) /\ Moved(w.leaf, fs, N))
  BY <1>1, <1>2, <1>6 DEF A
<1>8. w.ok = TRUE
  BY <1>7 DEF IsBooks
<1> QED BY <1>7, <1>8 DEF Settling
---------------------------------------------------------------------------
(* The sweep finds each order once *)

IsSweep(t) ==
    t = [state |-> t.state, remaining |-> t.remaining, fills |-> t.fills, expected |-> t.expected, seen |-> t.seen]

Sweeping(t) ==
    /\ IsSweep(t) /\ t.remaining \in Nat /\ Plan(t.fills)
    /\ \A j \in 1..Len(t.fills) : t.fills[j].leaf \in t.seen

(* What was filled in leaf n are some of its first i orders. *)
SweptTo(t, n, i) ==
    /\ Sweeping(t) /\ n \in t.seen
    /\ \A j \in 1..Len(t.fills) : t.fills[j].leaf = n => \E x \in 1..i : t.fills[j].key = leaf[n].keys[x]

LEMMA PlanGrows ==
    ASSUME NEW fs, Plan(fs), NEW f, f \in Fill, Owed(f, leaf), \A j \in 1..Len(fs) : fs[j].key # f.key,
           NEW gs, gs = Append(fs, f)
    PROVE  Plan(gs)
<1>1. fs \in Seq(Fill) /\ Len(fs) \in Nat
  BY Positions DEF Plan
<1>2. /\ gs \in Seq(Fill) /\ Len(gs) = Len(fs) + 1
      /\ \A j \in 1..Len(fs) + 1 : gs[j] = IF j <= Len(fs) THEN fs[j] ELSE f
  BY <1>1, AppendFacts
<1>3. \A j \in 1..Len(gs) : j \in 1..Len(fs) \/ (j = Len(fs) + 1 /\ ~(j <= Len(fs)))
  BY <1>1, <1>2
<1>4. \A j \in 1..Len(gs) : Owed(gs[j], leaf)
  BY <1>1, <1>2, <1>3 DEF Plan
<1>5. \A i, j \in 1..Len(gs) : gs[i].key = gs[j].key => i = j
  BY <1>1, <1>2, <1>3 DEF Plan
<1> QED BY <1>2, <1>4, <1>5 DEF Plan

(* One order. *)
LEMMA OrderSwept ==
    ASSUME Shelved(leaf), DOMAIN leaf \subseteq Nat, NEW n \in DOMAIN leaf, NEW i \in 1..Len(leaf[n].keys),
           NEW t, SweptTo(t, n, i - 1), NEW limit, NEW max, NEW w, w = SweepOrder(t, n, i, limit, max)
    PROVE  SweptTo(w, n, i)
<1> DEFINE k == leaf[n].keys[i]
           order == leaf[n].vals[i]
           fill == IF t.remaining < order.size THEN t.remaining ELSE order.size
           left == order.size - fill
           f == [key |-> k, maker |-> order.maker, price |-> PriceOf(k), fill |-> fill, left |-> left, leaf |-> n]
           st == [t EXCEPT !.state = "done"]
           ad == [t EXCEPT !.remaining = @ - fill, !.fills = Append(@, f)]
<1>1. /\ leaf[n].keys \in Seq(Nat) /\ leaf[n].vals \in Seq(Val) /\ Len(leaf[n].vals) = Len(leaf[n].keys)
      /\ Len(leaf[n].keys) \in Nat /\ Ascending(leaf[n].keys) /\ Shelf(leaf[n])
  <2>1. Shelf(leaf[n])
    BY DEF Shelved
  <2>2. leaf[n].keys \in Seq(Nat) /\ leaf[n].vals \in Seq(Val) /\ Len(leaf[n].vals) = Len(leaf[n].keys)
    BY <2>1 DEF Shelf, Matched, Aligned, Index
  <2> QED BY <2>1, <2>2, Positions DEF Shelf
<1>2. \A x \in 1..i - 1 : x \in 1..i /\ leaf[n].keys[x] < k
  BY <1>1, AscendingPairs
<1>3. w = t \/ w = st \/ (w = ad /\ order.size # 0 /\ t.remaining # 0)
  BY DEF SweepOrder, Full
<1>4. CASE w = t
  BY <1>2, <1>4 DEF SweptTo
<1>5. CASE w = st
  <2>1. IsSweep(w) /\ w.remaining = t.remaining /\ w.fills = t.fills /\ w.seen = t.seen
    <3> HIDE DEF k, order, fill, left, f, ad
    <3> QED BY <1>5 DEF SweptTo, Sweeping, IsSweep
  <2> QED BY <1>2, <2>1 DEF SweptTo, Sweeping
<1>6. CASE w = ad /\ order.size # 0 /\ t.remaining # 0
  <2>1. k \in Nat /\ order \in Val /\ order.maker \in Trader /\ order.size \in Nat
        /\ order = [maker |-> order.maker, size |-> order.size]
    <3>1. k \in Nat /\ order \in Val
      BY <1>1, Positions
    <3> HIDE DEF order
    <3> QED BY <3>1, OrderAssumption, FieldAssumption
  <2>2. PriceOf(k) \in Int /\ n \in Nat
    BY <2>1, PriceIsInt
  <2>3. t.remaining \in Nat
    BY DEF SweptTo, Sweeping
  <2>4. fill \in Nat /\ fill # 0 /\ left \in Nat /\ fill + left = order.size /\ t.remaining - fill \in Nat
    <3> HIDE DEF order
    <3> QED BY <1>6, <2>1, <2>3
  <2> HIDE DEF k, order, fill, left
  <2>5. f \in Fill
    BY <2>1, <2>2, <2>4 DEF Fill
  <2>6. f.key = k /\ f.leaf = n /\ f.price = PriceOf(k) /\ OrderOf(f) = <<k, order>>
    BY <2>1, <2>4 DEF OrderOf
  <2>7. <<k, order>> \in Holds(leaf[n])
    BY DEF Holds, EntriesOf, k, order
  <2>8. Owed(f, leaf)
    BY <2>6, <2>7 DEF Owed
  <2> DEFINE fs == t.fills
             gs == Append(fs, f)
             rem == t.remaining - fill
  <2>9. Plan(fs)
    BY DEF SweptTo, Sweeping
  <2>10. Len(fs) \in Nat
    BY <2>9, Positions DEF Plan
  <2>11. ASSUME NEW j \in 1..Len(fs) PROVE fs[j].key # k
    <3>1. CASE fs[j].leaf = n
      <4>1. PICK x \in 1..i - 1 : fs[j].key = leaf[n].keys[x]
        BY <3>1 DEF SweptTo
      <4>2. leaf[n].keys[x] < k /\ leaf[n].keys[x] \in Nat
        <5>1. x \in 1..i - 1 /\ i \in 1..Len(leaf[n].keys) /\ Len(leaf[n].keys) \in Nat
          BY <1>1, <4>1
        <5>2. x \in 1..Len(leaf[n].keys)
          BY ONLY <5>1
        <5> DEFINE ks == leaf[n].keys
        <5>4. ks \in Seq(Nat) /\ x \in 1..Len(ks)
          BY <1>1, <5>2
        <5> HIDE DEF ks
        <5>5. ks[x] \in Nat
          BY ONLY <5>4
        <5>3. leaf[n].keys[x] \in Nat
          BY ONLY <5>5 DEF ks
        <5> QED BY ONLY <1>2, <5>1, <5>3
      <4> QED BY <2>1, <4>1, <4>2
    <3>2. CASE fs[j].leaf # n
      <4>1. fs[j].leaf \in DOMAIN leaf /\ OrderOf(fs[j]) \in Holds(leaf[fs[j].leaf]) /\ OrderOf(fs[j])[1] = fs[j].key
        BY <2>9 DEF Plan, Owed, OrderOf
      <4>2. <<k, order>>[1] = k
        OBVIOUS
      <4> QED BY <2>7, <3>2, <4>1, <4>2 DEF Shelved, OneLeafEach
    <3> QED BY <3>1, <3>2
  <2>12. gs = Append(fs, f)
    OBVIOUS
  <2>13. IsSweep(w) /\ w.remaining = rem /\ w.fills = gs /\ w.seen = t.seen
    <3>1. w = [t EXCEPT !.remaining = rem, !.fills = gs]
      BY <1>6
    <3>2. IsSweep(t)
      BY DEF SweptTo, Sweeping
    <3> HIDE DEF rem, gs, fs, f, ad, st
    <3> QED BY <3>1, <3>2 DEF IsSweep
  <2> HIDE DEF f, gs
  <2>14. /\ Plan(gs) /\ Len(gs) = Len(fs) + 1
         /\ \A j \in 1..Len(gs) : gs[j] = IF j <= Len(fs) THEN fs[j] ELSE f
    <3>1. \A j \in 1..Len(fs) : fs[j].key # f.key
      BY <2>6, <2>11
    <3> HIDE DEF fs
    <3>2. Plan(gs)
      BY ONLY <2>5, <2>8, <2>9, <2>12, <3>1, PlanGrows
    <3>3. fs \in Seq(Fill)
      BY <2>9 DEF Plan
    <3>4. /\ Len(gs) = Len(fs) + 1
          /\ \A j \in 1..Len(fs) + 1 : gs[j] = IF j <= Len(fs) THEN fs[j] ELSE f
      BY ONLY <2>5, <2>12, <3>3, AppendFacts
    <3> QED BY ONLY <3>2, <3>4
  <2>15. \A j \in 1..Len(gs) : (j \in 1..Len(fs) /\ gs[j] = fs[j]) \/ gs[j] = f
    BY <2>10, <2>14
  <2>16. /\ n \in t.seen
         /\ \A j \in 1..Len(fs) : fs[j].leaf \in t.seen
         /\ \A j \in 1..Len(fs) : fs[j].leaf = n => \E x \in 1..i - 1 : fs[j].key = leaf[n].keys[x]
    BY DEF SweptTo, Sweeping
  <2> HIDE DEF fs
  <2>17. \A j \in 1..Len(gs) : gs[j].leaf \in t.seen
    BY <2>6, <2>15, <2>16
  <2>18. \A j \in 1..Len(gs) : gs[j].leaf = n => \E x \in 1..i : gs[j].key = leaf[n].keys[x]
    <3>1. i \in 1..i
      BY <1>1
    <3> QED BY <1>2, <2>6, <2>15, <2>16, <3>1 DEF k
  <2> QED BY <2>4, <2>13, <2>14, <2>16, <2>17, <2>18 DEF SweptTo, Sweeping
<1> QED BY <1>3, <1>4, <1>5, <1>6

(* One leaf ... *)
LeafRun(s, t, n, limit, max) ==
    s = [i \in 0..Len(leaf[n].keys) |-> IF i = 0 THEN t ELSE SweepOrder(s[i - 1], n, i, limit, max)]

LEMMA LeafRuns ==
    ASSUME NEW a, NEW n, NEW limit, NEW max, Len(leaf[n].keys) \in Nat
    PROVE  \E s : LeafRun(s, a, n, limit, max) /\ SweepLeaf(a, n, limit, max) = s[Len(leaf[n].keys)]
<1> DEFINE N == Len(leaf[n].keys)
           Step(s, i) == IF i = 0 THEN a ELSE SweepOrder(s[i - 1], n, i, limit, max)
           Upto(s, d) == s = [i \in 0..N |-> s[i]] /\ \A i \in 0..N : i <= d => s[i] = Step(s, i)
           A == {d \in Nat : \E s : Upto(s, d)}
<1> HIDE DEF N
<1>0. N \in Nat
  BY DEF N
<1>1. 0 \in A
  <2> DEFINE s == [i \in 0..N |-> Step([x \in {} |-> x], 0)]
  <2>1. s = [i \in 0..N |-> s[i]] /\ \A i \in 0..N : i <= 0 => i = 0 /\ s[i] = a
    BY <1>0
  <2> HIDE DEF s
  <2>2. Upto(s, 0)
    BY <2>1
  <2> QED BY <2>2
<1>2. ASSUME NEW d \in Nat, d \in A PROVE d + 1 \in A
  <2>1. PICK s : Upto(s, d)
    BY <1>2
  <2> DEFINE t == [i \in 0..N |-> IF i = d + 1 THEN Step(s, i) ELSE s[i]]
  <2>2. t = [i \in 0..N |-> t[i]] /\ \A i \in 0..N : t[i] = IF i = d + 1 THEN Step(s, i) ELSE s[i]
    OBVIOUS
  <2> HIDE DEF t
  <2>3. ASSUME NEW i \in 0..N, i <= d + 1 PROVE t[i] = Step(t, i)
    <3>1. i # 0 => i - 1 \in 0..N /\ i - 1 # d + 1
      BY <1>0, <2>3
    <3>2. i # 0 => t[i - 1] = s[i - 1]
      BY <2>2, <3>1
    <3>3. Step(t, i) = Step(s, i)
      BY <3>2
    <3>4. t[i] = Step(s, i)
      <4>1. i # d + 1 => i <= d
        BY <1>0, <2>3
      <4> HIDE DEF Step
      <4> QED BY <2>1, <2>2, <4>1
    <3> QED BY <3>3, <3>4
  <2>4. Upto(t, d + 1)
    BY <2>2, <2>3
  <2> HIDE DEF Upto
  <2> QED BY <2>4
<1> HIDE DEF A
<1>3. N \in A
  BY <1>0, <1>1, <1>2, NatInductionOn
<1>4. PICK s : Upto(s, N)
  BY <1>3 DEF A
<1>5. LeafRun(s, a, n, limit, max)
  <2>1. \A i \in 0..N : i <= N
    BY <1>0
  <2>2. \A i \in 0..N : s[i] = Step(s, i)
    <3> HIDE DEF Step
    <3> QED BY <1>4, <2>1
  <2> QED BY <1>4, <2>2 DEF LeafRun, N
<1> DEFINE c == CHOOSE c : LeafRun(c, a, n, limit, max)
<1>6. LeafRun(c, a, n, limit, max)
  BY <1>5
<1>7. SweepLeaf(a, n, limit, max) = c[Len(leaf[n].keys)]
  BY Zenon DEF SweepLeaf, KeyCount, LeafRun
<1> QED BY <1>6, <1>7

LEMMA LeafSwept ==
    ASSUME Shelved(leaf), DOMAIN leaf \subseteq Nat, NEW n \in DOMAIN leaf,
           NEW t, SweptTo(t, n, 0), NEW limit, NEW max, NEW w, w = SweepLeaf(t, n, limit, max)
    PROVE  Sweeping(w)
<1> DEFINE N == Len(leaf[n].keys)
<1>1. N \in Nat
  <2>1. leaf[n].keys \in Seq(Nat)
    BY ShelfFacts DEF Shelved
  <2> QED BY <2>1, Positions
<1>2. PICK s : LeafRun(s, t, n, limit, max) /\ w = s[N]
  BY <1>1, LeafRuns
<1> DEFINE A == {i \in Nat : i <= N => SweptTo(s[i], n, i)}
<1>3. s[0] = t /\ \A i \in 1..N : s[i] = SweepOrder(s[i - 1], n, i, limit, max)
  <2>1. 0 \in 0..N /\ \A i \in 1..N : i \in 0..N /\ i # 0
    BY <1>1
  <2> QED BY <1>2, <2>1 DEF LeafRun
<1>4. 0 \in A
  BY <1>3
<1>5. ASSUME NEW j \in Nat, j \in A PROVE j + 1 \in A
  <2> SUFFICES ASSUME j + 1 <= N PROVE SweptTo(s[j + 1], n, j + 1)
    OBVIOUS
  <2> DEFINE i == j + 1
             u == s[j]
             v == s[i]
  <2>1. i \in 1..N /\ i - 1 = j
    BY <1>1
  <2>2. SweptTo(u, n, i - 1)
    BY <1>1, <1>5, <2>1
  <2>3. v = SweepOrder(u, n, i, limit, max)
    BY <1>3, <2>1
  <2> HIDE DEF i, u, v
  <2>4. SweptTo(v, n, i)
    BY <2>1, <2>2, <2>3, OrderSwept
  <2> QED BY <2>4 DEF v, i
<1> HIDE DEF A
<1>6. N \in A
  BY <1>1, <1>4, <1>5, NatInductionOn
<1> QED BY <1>1, <1>2, <1>6 DEF A, SweptTo

(* ... which the sweep has not seen before ... *)
LEMMA GroupSwept ==
    ASSUME Shelved(leaf), DOMAIN leaf \subseteq Nat, NEW p, Last(p) \in DOMAIN leaf,
           NEW t, Sweeping(t), NEW limit, NEW max, NEW w, w = SweepGroup(t, p, limit, max)
    PROVE  Sweeping(w)
<1> DEFINE n == Last(p)
           x == leaf[n].next
           q == t.seen \cup {t.expected}
           u == [t EXCEPT !.expected = x, !.seen = q]
           r == [t EXCEPT !.state = "refused"]
<1>1. w = t \/ w = r \/ (n = t.expected /\ t.expected \notin t.seen /\ w = SweepLeaf(u, n, limit, max))
  BY DEF SweepGroup
<1>2. CASE w = t
  BY <1>2
<1>3. CASE w = r
  <2>1. IsSweep(w) /\ w.remaining = t.remaining /\ w.fills = t.fills /\ w.seen = t.seen
    <3> HIDE DEF u
    <3> QED BY <1>3 DEF Sweeping, IsSweep
  <2> QED BY <2>1 DEF Sweeping
<1>4. CASE n = t.expected /\ t.expected \notin t.seen /\ w = SweepLeaf(u, n, limit, max)
  <2>1. u = [t EXCEPT !.expected = x, !.seen = q]
    OBVIOUS
  <2>2. n \in q /\ n \notin t.seen /\ t.seen \subseteq q
    BY <1>4
  <2>3. w = SweepLeaf(u, n, limit, max) /\ n \in DOMAIN leaf
    BY <1>4
  <2> HIDE DEF x, q, u, r, n
  <2>4. IsSweep(u) /\ u.remaining = t.remaining /\ u.fills = t.fills /\ u.seen = q
    BY <2>1 DEF Sweeping, IsSweep
  <2>5. SweptTo(u, n, 0)
    BY <2>2, <2>4 DEF SweptTo, Sweeping
  <2> QED BY <2>3, <2>5, LeafSwept
<1> HIDE DEF u, r
<1> QED BY <1>1, <1>2, <1>3, <1>4

(* ... and all the groups. *)
GroupRun(s, limit, size, max, groups) ==
    s = [g \in 0..Len(groups) |-> IF g = 0 THEN Fresh(size) ELSE SweepGroup(s[g - 1], groups[g], limit, max)]

LEMMA GroupRuns ==
    ASSUME NEW limit, NEW size, NEW max, NEW groups, Len(groups) \in Nat
    PROVE  \E s : GroupRun(s, limit, size, max, groups) /\ Sweep(limit, size, max, groups) = s[Len(groups)]
<1> DEFINE N == Len(groups)
           Step(s, i) == IF i = 0 THEN Fresh(size) ELSE SweepGroup(s[i - 1], groups[i], limit, max)
           Upto(s, d) == s = [i \in 0..N |-> s[i]] /\ \A i \in 0..N : i <= d => s[i] = Step(s, i)
           A == {d \in Nat : \E s : Upto(s, d)}
<1> HIDE DEF N
<1>0. N \in Nat
  BY DEF N
<1>1. 0 \in A
  <2> DEFINE s == [i \in 0..N |-> Step([x \in {} |-> x], 0)]
  <2>1. s = [i \in 0..N |-> s[i]] /\ \A i \in 0..N : i <= 0 => i = 0 /\ s[i] = Fresh(size)
    BY <1>0
  <2> HIDE DEF s
  <2>2. Upto(s, 0)
    BY <2>1
  <2> QED BY <2>2
<1>2. ASSUME NEW d \in Nat, d \in A PROVE d + 1 \in A
  <2>1. PICK s : Upto(s, d)
    BY <1>2
  <2> DEFINE t == [i \in 0..N |-> IF i = d + 1 THEN Step(s, i) ELSE s[i]]
  <2>2. t = [i \in 0..N |-> t[i]] /\ \A i \in 0..N : t[i] = IF i = d + 1 THEN Step(s, i) ELSE s[i]
    OBVIOUS
  <2> HIDE DEF t
  <2>3. ASSUME NEW i \in 0..N, i <= d + 1 PROVE t[i] = Step(t, i)
    <3>1. i # 0 => i - 1 \in 0..N /\ i - 1 # d + 1
      BY <1>0, <2>3
    <3>2. i # 0 => t[i - 1] = s[i - 1]
      BY <2>2, <3>1
    <3>3. Step(t, i) = Step(s, i)
      BY <3>2
    <3>4. t[i] = Step(s, i)
      <4>1. i # d + 1 => i <= d
        BY <1>0, <2>3
      <4> HIDE DEF Step
      <4> QED BY <2>1, <2>2, <4>1
    <3> QED BY <3>3, <3>4
  <2>4. Upto(t, d + 1)
    BY <2>2, <2>3
  <2> HIDE DEF Upto
  <2> QED BY <2>4
<1> HIDE DEF A
<1>3. N \in A
  BY <1>0, <1>1, <1>2, NatInductionOn
<1>4. PICK s : Upto(s, N)
  BY <1>3 DEF A
<1>5. GroupRun(s, limit, size, max, groups)
  <2>1. \A i \in 0..N : i <= N
    BY <1>0
  <2>2. \A i \in 0..N : s[i] = Step(s, i)
    <3> HIDE DEF Step
    <3> QED BY <1>4, <2>1
  <2> QED BY <1>4, <2>2 DEF GroupRun, N
<1> DEFINE c == CHOOSE c : GroupRun(c, limit, size, max, groups)
<1>6. GroupRun(c, limit, size, max, groups)
  BY <1>5
<1>7. Sweep(limit, size, max, groups) = c[Len(groups)]
  BY Zenon DEF Sweep, GroupRun
<1> QED BY <1>6, <1>7

LEMMA AllSwept ==
    ASSUME Shelved(leaf), DOMAIN leaf \subseteq Nat, NEW groups, Len(groups) \in Nat,
           \A g \in 1..Len(groups) : Last(groups[g]) \in DOMAIN leaf,
           NEW limit, NEW size \in Nat, NEW max
    PROVE  Plan(Sweep(limit, size, max, groups).fills)
<1> DEFINE N == Len(groups)
<1>1. PICK s : GroupRun(s, limit, size, max, groups) /\ Sweep(limit, size, max, groups) = s[N]
  BY GroupRuns
<1> DEFINE A == {i \in Nat : i <= N => Sweeping(s[i])}
<1>2. s[0] = Fresh(size) /\ \A i \in 1..N : s[i] = SweepGroup(s[i - 1], groups[i], limit, max)
  <2>1. 0 \in 0..N /\ \A i \in 1..N : i \in 0..N /\ i # 0
    OBVIOUS
  <2> QED BY <1>1, <2>1 DEF GroupRun
<1>3. 0 \in A
  <2>1. Fresh(size).fills = <<>> /\ Fresh(size).remaining = size /\ IsSweep(Fresh(size))
    BY DEF Fresh, IsSweep
  <2>2. Plan(<<>>) /\ Len(<<>>) = 0
    BY DEF Plan
  <2>3. Sweeping(Fresh(size))
    BY <2>1, <2>2 DEF Sweeping
  <2> QED BY <1>2, <2>3
<1>4. ASSUME NEW j \in Nat, j \in A PROVE j + 1 \in A
  <2> SUFFICES ASSUME j + 1 <= N PROVE Sweeping(s[j + 1])
    OBVIOUS
  <2> DEFINE i == j + 1
             u == s[j]
             v == s[i]
             p == groups[i]
  <2>1. i \in 1..N /\ i - 1 = j
    OBVIOUS
  <2>2. Sweeping(u)
    BY <1>4, <2>1
  <2>3. v = SweepGroup(u, p, limit, max) /\ Last(p) \in DOMAIN leaf
    BY <1>2, <2>1
  <2> HIDE DEF i, u, v, p
  <2>4. Sweeping(v)
    BY <2>1, <2>2, <2>3, GroupSwept
  <2> QED BY <2>4 DEF v, i
<1> HIDE DEF A
<1>5. N \in A
  BY <1>3, <1>4, NatInductionOn
<1> QED BY <1>1, <1>5 DEF A, Sweeping
---------------------------------------------------------------------------
(* The tree's instructions, as the book runs them *)

(* A client may plan an insert along any path: the tree checks it. *)
Inserting(p, k, v, from, spares) == InsertFast(p, k, v) \/ Insert(p, k, v, from, spares)

LEMMA InsertKeepsMap ==
    ASSUME MapInv, NEW p, NEW k \in Key, NEW v \in Val, NEW from, NEW spares, Inserting(p, k, v, from, spares)
    PROVE  MapInv' /\ Stock(leaf') = Stock(leaf) \cup {<<k, v>>}
<1> k \in Index
  BY KeyIsIndex
<1>1. Structure /\ SearchRests
  BY DEF MapInv, SearchInv
<1>2. Gains(leaf, leaf', k, v)
  BY InsertsGain DEF Inserting
<1>3. Structure' /\ SearchRests'
  <2>1. CASE InsertFast(p, k, v) \/ InsertRoom(p, k, v)
    BY <1>1, <2>1, FastStepsKeep, FastStepsRest
  <2>2. CASE InsertFirst(k, v, from, spares)
    BY <1>1, <2>2, InsertFirstKeeps, InsertFirstRests
  <2>3. CASE InsertSplit(p, k, v, from, spares)
    <3>1. height # 0
      BY <2>3 DEF InsertSplit, Descends
    <3>2. AtRest(inner, leaf, root)
      BY <1>1, <3>1 DEF SearchRests
    <3>3. Structure'
      BY <1>1, <2>3, InsertSplitKeeps
    <3>4. AtRest(inner', leaf', root')
      BY <1>1, <2>3, <3>2, InsertSplitRests
    <3> QED BY <3>3, <3>4 DEF SearchRests
  <2> QED BY <2>1, <2>2, <2>3 DEF Inserting, Insert
<1> QED BY <1>2, <1>3 DEF Gains, MapInv, SearchInv, AllMatched

(* What is inserted was not there, in the leaf of the path or elsewhere. *)
LEMMA InsertedIsNew ==
    ASSUME MapInv, NEW p, NEW k \in Key, NEW v \in Val, NEW from, NEW spares, Inserting(p, k, v, from, spares)
    PROVE  k \notin KeysIn(Stock(leaf))
<1> k \in Index
  BY KeyIsIndex
<1>0. Structure /\ SearchRests
  BY DEF MapInv, SearchInv
<1>1. CASE height = 0
  <2>1. DOMAIN leaf = {}
    BY <1>0, <1>1 DEF Structure, NoNodes
  <2> QED BY <2>1, StockFacts DEF KeysIn
<1>2. CASE height # 0
  <2> DEFINE l == p[height]
  <2>1. Descends(p, k) /\ ~HasKey(leaf[l], k)
    BY <1>2 DEF Inserting, Insert, InsertFast, InsertRoom, InsertFirst, InsertSplit, LeafOf
  <2>2. Descended(p, k) /\ l \in DOMAIN leaf
    BY <1>0, <2>1, DescentFacts DEF Descended
  <2>3. PICK rt : Sorted(inner, leaf, rt, rt) /\ rt[root] = Nat
    BY <1>0, <1>2 DEF SearchRests, AtRest
  <2>4. k \in rt[l]
    BY <2>2, <2>3, KeyReachesLeaf
  <2> HIDE DEF l
  <2>5. Path(k)[height] = l
    BY <1>0, <1>2, <2>2, <2>3, <2>4, OnThePath
  <2>6. Shelf(leaf[l])
    BY <2>2, MapShelved DEF Shelved
  <2>7. ASSUME NEW e \in Stock(leaf), e[1] = k PROVE FALSE
    <3>1. PICK m \in DOMAIN leaf : e \in Holds(leaf[m])
      BY StockFacts
    <3>2. m = l
      BY <2>5, <2>7, <3>1, SoughtAlone DEF Alone
    <3> QED BY <2>1, <2>6, <2>7, <3>1, <3>2, ShelfFacts
  <2> QED BY <2>7 DEF KeysIn
<1> QED BY <1>1, <1>2

LEMMA InsertPays ==
    ASSUME MapInv, NEW p, NEW k \in Key, NEW v \in Val, NEW from, NEW spares, Inserting(p, k, v, from, spares)
    PROVE  /\ MapInv' /\ Worth(Stock(leaf)) \in Int
           /\ Worth(Stock(leaf')) = Worth(Stock(leaf)) + Backing(<<k, v>>)
           /\ Stock(leaf') = Stock(leaf) \cup {<<k, v>>}
<1> DEFINE e == <<k, v>>
           E == Stock(leaf)
           D == Stock(leaf')
<1>1. MapInv' /\ D = E \cup {e}
  BY InsertKeepsMap
<1>2. Ledger(E)
  BY MapShelved, ShelvedLedger
<1>3. e[1] \notin KeysIn(E) /\ IsEntry(e)
  BY InsertedIsNew, KeyAssumption DEF IsEntry
<1> HIDE DEF e, E, D
<1>4. Worth(E) \in Int /\ Worth(D) = Worth(E) + Backing(e)
  BY <1>1, <1>2, <1>3, WorthGains
<1> QED BY <1>1, <1>4 DEF e, E, D

LEMMA DeleteKeepsMap ==
    ASSUME MapInv, NEW k \in Key, DeleteFast(Path(k), k)
    PROVE  /\ MapInv'
           /\ <<k, ValueOf(leaf[Path(k)[height]], k)>> \in Stock(leaf)
           /\ Stock(leaf') = {e \in Stock(leaf) : e[1] # k}
<1> DEFINE l == Path(k)[height]
           e == <<k, ValueOf(leaf[l], k)>>
<1>1. Descends(Path(k), k) /\ HasKey(leaf[l], k) /\ leaf' = [leaf EXCEPT ![l] = LeafDelete(leaf[l], k)]
  BY DEF DeleteFast, LeafOf
<1>2. l \in DOMAIN leaf /\ Matched(leaf[l]) /\ Shelved(leaf)
  BY <1>1, EndsAtLeaf, MapShelved
<1> HIDE DEF l
<1>3. e \in Holds(leaf[l]) /\ e[1] = k
  BY <1>1, <1>2, EntryOf
<1> HIDE DEF e
<1>4. Shelved(leaf') /\ Drops(Stock(leaf), Stock(leaf'), k)
  <2> DEFINE lf == leaf
             lf2 == leaf'
  <2>1. lf2 = [lf EXCEPT ![l] = LeafDelete(lf[l], e[1])]
    BY <1>1, <1>3
  <2>2. Shelved(lf) /\ l \in DOMAIN lf /\ e \in Holds(lf[l])
    BY <1>2, <1>3
  <2> HIDE DEF lf, lf2
  <2>3. Shelved(lf2) /\ Drops(Stock(lf), Stock(lf2), e[1])
    BY <2>1, <2>2, StockDrops
  <2> QED BY <1>3, <2>3 DEF lf, lf2
<1>5. Structure' /\ SearchRests'
  BY FastStepsKeep, FastStepsRest DEF MapInv, SearchInv
<1>6. AllMatched(leaf')
  BY <1>4 DEF Shelved, Shelf, AllMatched
<1>7. e \in Stock(leaf)
  BY <1>2, <1>3, StockFacts
<1> QED BY <1>4, <1>5, <1>6, <1>7 DEF MapInv, SearchInv, AllMatched, Drops, e, l

(* Leaves that only lost orders are still those of a search tree. *)
LEMMA SubKeepsMap ==
    ASSUME MapInv, height # 0, Shelved(leaf'), Sub(leaf, leaf'), UNCHANGED <<header, highWater, inner>>
    PROVE  MapInv'
<1> DEFINE lf == leaf
           lf2 == leaf'
<1>0. Structure /\ SearchRests /\ UNCHANGED <<root, height, highWater, inner>>
  BY DEF MapInv, SearchInv, header
<1>1. DOMAIN lf2 = DOMAIN lf /\ \A l \in DOMAIN lf : Shelf(lf2[l]) /\ Shelf(lf[l])
  BY MapShelved DEF Sub, Shelved
<1>2. SameLeaves(leaf', leaf)
  BY <1>1, ShelfFacts DEF SameLeaves
<1>3. Structure'
  BY <1>0, <1>2, LeafEditKeeps
<1>4. PICK rt : Sorted(inner, lf, rt, rt) /\ rt[root] = Nat
  BY <1>0 DEF SearchRests, AtRest
<1>5. ASSUME NEW l \in DOMAIN lf PROVE Stores(lf2[l].keys, rt[l])
  <2>1. Stores(lf[l].keys, rt[l])
    BY <1>4 DEF Sorted
  <2>2. ASSUME NEW i \in 1..Len(lf2[l].keys) PROVE lf2[l].keys[i] \in rt[l]
    <3> DEFINE g == <<lf2[l].keys[i], lf2[l].vals[i]>>
    <3>1. g \in Holds(lf2[l]) /\ g[1] = lf2[l].keys[i]
      BY DEF Holds, EntriesOf
    <3>2. PICK e \in Holds(lf[l]) : e[1] = g[1]
      BY <3>1 DEF Sub
    <3>3. PICK j \in 1..Len(lf[l].keys) : e = <<lf[l].keys[j], lf[l].vals[j]>>
      BY DEF Holds, EntriesOf
    <3>4. e[1] = lf[l].keys[j]
      BY <3>3
    <3> QED BY <2>1, <3>1, <3>2, <3>4 DEF Stores
  <2>3. Ascending(lf2[l].keys)
    BY <1>1 DEF Shelf
  <2> QED BY <2>2, <2>3 DEF Stores
<1>9. \A l \in DOMAIN lf : lf2[l].next = lf[l].next
  BY DEF Sub
<1> HIDE DEF lf, lf2
<1>6. AtRest(inner, lf2, root)
  BY <1>1, <1>4, <1>5, <1>9, RewriteRests
<1>7. SearchRests'
  BY <1>0, <1>6 DEF SearchRests, lf2
<1>8. AllMatched(leaf')
  BY <1>1 DEF AllMatched, Shelf, lf2
<1> QED BY <1>3, <1>7, <1>8 DEF MapInv, SearchInv, AllMatched

---------------------------------------------------------------------------
(* The book at rest *)

Pledged == vault = Worth(Stock(leaf)) /\ Sound(Stock(leaf))

BookInv ==
    /\ MapInv
    /\ slot \in 0..MaxSlot
    /\ status \in {"setup", "handed", "open"}
    /\ IF status = "open" THEN Pledged ELSE vault = 0

LEMMA InitBooked ==
    ASSUME BookInit
    PROVE  BookInv
<1>1. MapInv
  BY InitStructured DEF BookInit, Init, MapInv, SearchInv, SearchRests, AllMatched, NoNodes
<1>2. slot \in 0..MaxSlot
  BY FieldAssumption DEF BookInit
<1> QED BY <1>1, <1>2 DEF BookInit, BookInv

(* No step of the book that leaves the tree alone disturbs the map. *)
LEMMA MapStays ==
    ASSUME MapInv, UNCHANGED vars
    PROVE  MapInv' /\ leaf' = leaf
<1>1. Structure' /\ SearchRests'
  BY NextKeeps, NextRests DEF MapInv, SearchInv
<1> QED BY <1>1 DEF vars, MapInv, SearchInv, AllMatched

LEMMA PledgeStays ==
    ASSUME Pledged, leaf' = leaf, vault' = vault
    PROVE  Pledged'
<1> DEFINE E == Stock(leaf)
<1>1. vault' = Worth(E) /\ Sound(E) /\ Stock(leaf') = E
  BY DEF Pledged
<1> HIDE DEF E
<1>2. vault' = Worth(Stock(leaf')) /\ Sound(Stock(leaf'))
  BY <1>1
<1> QED BY <1>2 DEF Pledged

LEMMA SeedBooks ==
    ASSUME BookInv, NEW s \in Seeds, Seed(s)
    PROVE  BookInv'
<1> DEFINE k == s.key
           v == [maker |-> s.maker, size |-> s.size]
<1>1. k \in Key /\ v \in Val
  BY OrderAssumption
<1>2. Insert(Path(k), k, v, highWater + 1, height + 2) /\ UNCHANGED bookVars /\ status = "setup"
  BY DEF Seed
<1> HIDE DEF k, v
<1>3. MapInv'
  BY <1>1, <1>2, InsertPays DEF Inserting, BookInv
<1> QED BY <1>2, <1>3 DEF BookInv, bookVars

(* What is open starts with nothing in the vault and nothing to pay for. *)
LEMMA OpeningPledged ==
    ASSUME MapInv, InitMarket, vault = 0
    PROVE  Pledged
<1> DEFINE E == Stock(leaf)
<1>1. Ledger(E)
  BY MapShelved, ShelvedLedger
<1>2. \A e \in E : e[2].size = 0
  <2>0. Structure /\ height \in Nat /\ height <= 1
    BY DEF MapInv, SearchInv, Structure, InitMarket
  <2>1. CASE height = 0
    BY <2>0, <2>1, StockFacts DEF Structure, NoNodes
  <2>2. CASE height = 1
    <3>1. DOMAIN leaf = {root}
      <4>1. Settled(inner, DOMAIN leaf, root, height)
        BY <2>0, <2>2 DEF Structure
      <4>2. Settled(inner, DOMAIN leaf, root, 1)
        BY <2>2, <4>1
      <4> QED BY <4>2, LoneLeaf
    <3>2. ASSUME NEW e \in E PROVE e[2].size = 0
      <4>1. e \in Holds(leaf[root])
        BY <3>1, <3>2, StockFacts
      <4>2. Matched(leaf[root])
        BY <3>1 DEF MapInv, AllMatched
      <4>3. PICK i \in 1..Len(leaf[root].keys) : e = <<leaf[root].keys[i], leaf[root].vals[i]>>
        BY <4>1 DEF Holds, EntriesOf
      <4>4. leaf[root].vals[i] \in Range(leaf[root].vals)
        BY <4>2, <4>3 DEF Matched, Aligned, Range
      <4> QED BY <2>2, <4>3, <4>4 DEF InitMarket
    <3> QED BY <3>2
  <2> QED BY <2>0, <2>1, <2>2
<1> HIDE DEF E
<1>3. Worth(E) = 0
  BY <1>1, <1>2, NothingWorth
<1>4. Sound(E)
  BY <1>2 DEF Sound
<1> QED BY <1>3, <1>4 DEF Pledged, E

LEMMA OpeningBooks ==
    ASSUME BookInv, InitMarket
    PROVE  BookInv'
<1>1. MapInv' /\ leaf' = leaf /\ vault' = vault /\ slot' = slot /\ status' = "open"
  BY MapStays DEF BookInv, InitMarket
<1>2. Pledged
  BY OpeningPledged DEF BookInv, InitMarket
<1>3. Pledged'
  BY <1>1, <1>2, PledgeStays
<1> QED BY <1>1, <1>3 DEF BookInv

LEMMA AtLeastOne ==
    ASSUME NEW a \in Nat, NEW b \in Nat, a # 0, b # 0
    PROVE  a * b \in Nat /\ a * b >= 1
<1>1. a * b >= b
  <2>1. (a - 1) * b >= 0
    OBVIOUS
  <2> QED BY <2>1
<1> QED BY <1>1

(* An order that is accepted pays its escrow in, and it can settle. *)
LEMMA PlacingBooks ==
    ASSUME BookInv, NEW maker \in Trader, NEW p, NEW price \in Price, NEW size \in Size, NEW nonce \in Nonce,
           NEW from, NEW spares, Escrows(maker, price, size),
           Inserting(p, OrderKey(price, slot, maker, nonce), [maker |-> maker, size |-> size], from, spares)
    PROVE  BookInv'
<1> DEFINE k == OrderKey(price, slot, maker, nonce)
           v == [maker |-> maker, size |-> size]
           e == <<k, v>>
           E == Stock(leaf)
           D == Stock(leaf')
<1>1. k \in Key /\ PriceOf(k) = price
  BY KeyKeepsPrice, OrderAssumption DEF BookInv
<1>2. v \in Val /\ v.size = size /\ price \in Nat /\ size \in Nat
  BY OrderAssumption, FieldAssumption
<1>3. e[1] = k /\ e[2] = v
  OBVIOUS
<1>4. Inserting(p, k, v, from, spares)
  OBVIOUS
<1>5. Backing(e) = Escrow(price, size)
  BY <1>1, <1>2, <1>3 DEF Backing
<1>6. size > 0 => price * size \in 1..MaxU64
  <2>1. price # 0 /\ size # 0 /\ price * size <= MaxU64
    BY <1>2, FieldAssumption DEF Escrows, Accepts
  <2>2. price * size \in Nat /\ price * size >= 1
    BY <1>2, <2>1, AtLeastOne
  <2> QED BY <2>1, <2>2, FieldAssumption
<1> HIDE DEF k, v
<1>7. MapInv' /\ Worth(E) \in Int /\ Worth(D) = Worth(E) + Backing(e) /\ D = E \cup {e}
  BY <1>1, <1>2, <1>4, InsertPays DEF BookInv
<1>8. vault = Worth(E) /\ Sound(E)
  BY DEF BookInv, Pledged, Escrows
<1>9. vault' = Worth(D)
  BY <1>5, <1>7, <1>8 DEF Escrows
<1>10. Sound(D)
  BY <1>1, <1>2, <1>3, <1>6, <1>7, <1>8 DEF Sound
<1>11. slot' = slot /\ status' = "open"
  BY DEF Escrows
<1> QED BY <1>7, <1>9, <1>10, <1>11 DEF BookInv, Pledged

LEMMA CancelBooks ==
    ASSUME BookInv, NEW maker \in Trader, NEW k \in Key, Cancel(maker, Path(k), k)
    PROVE  BookInv'
<1> DEFINE l == Path(k)[height]
           order == ValueOf(leaf[l], k)
           e == <<k, order>>
           E == Stock(leaf)
           D == Stock(leaf')
<1>1. /\ DeleteFast(Path(k), k) /\ vault' = vault - Escrow(PriceOf(k), order.size)
      /\ slot' = slot /\ status = "open" /\ status' = "open"
  BY DEF Cancel, LeafOf
<1>2. MapInv' /\ e \in E /\ D = {g \in E : g[1] # k}
  BY <1>1, DeleteKeepsMap DEF BookInv
<1>3. e[1] = k /\ Backing(e) = Escrow(PriceOf(k), order.size)
  BY DEF Backing
<1>4. Ledger(E)
  BY MapShelved, ShelvedLedger DEF BookInv
<1>5. vault = Worth(E) /\ Sound(E)
  BY <1>1 DEF BookInv, Pledged
<1> HIDE DEF order, e, E, D
<1>6. /\ Worth(D) \in Int /\ Backing(e) \in Int /\ Worth(E) = Worth(D) + Backing(e)
  BY <1>2, <1>3, <1>4, WorthLoses
<1>7. vault' = Worth(D)
  BY <1>1, <1>3, <1>5, <1>6
<1>8. Sound(D)
  BY <1>2, <1>5 DEF Sound
<1> QED BY <1>1, <1>2, <1>7, <1>8 DEF BookInv, Pledged, D

(* The groups a taker passes end at leaves of the tree. *)
LEMMA GroupsEnd ==
    ASSUME MapInv, height > 0, NEW groups, groups \in BoundedSeq({Path(k) : k \in Key}, MaxLeaves)
    PROVE  Len(groups) \in Nat /\ \A g \in 1..Len(groups) : Last(groups[g]) \in DOMAIN leaf
<1>0. height \in Nat
  BY DEF MapInv, SearchInv, Structure
<1>1. PICK n \in 0..MaxLeaves : groups \in [1..n -> {Path(k) : k \in Key}]
  BY DEF BoundedSeq, SeqOf
<1>2. groups \in Seq({Path(k) : k \in Key}) /\ Len(groups) \in Nat
  BY <1>1
<1>3. ASSUME NEW g \in 1..Len(groups) PROVE Last(groups[g]) \in DOMAIN leaf
  <2>1. PICK k \in Key : groups[g] = Path(k)
    BY <1>2, <1>3
  <2>2. Descends(Path(k), k)
    BY <1>0, PathDescends
  <2>3. Path(k)[height] \in DOMAIN leaf /\ Len(Path(k)) = height
    BY <2>2, EndsAtLeaf DEF Descends
  <2> QED BY <2>1, <2>3 DEF Last
<1> QED BY <1>2, <1>3

(* The book after a match is the one before, changed by the fills of the   *)
(* sweep and nothing else.                                                 *)
Matches(size, groups, fs) == \E limit, max : fs = Sweep(limit, size, max, groups).fills

(* The fills of a match were settled. *)
Clears(taker, fs, h2, c2) == \E w : w = SettleAll(taker, fs) /\ w.ok /\ h2 = w.held /\ c2 = w.cash

LEMMA MatchMoves ==
    ASSUME BookInv, NEW taker, NEW limit, NEW size \in Nat, NEW max, NEW recvs, NEW groups,
           groups \in BoundedSeq({Path(k) : k \in Key}, MaxLeaves), Match(taker, limit, size, max, recvs, groups)
    PROVE  /\ status = "open" /\ status' = "open" /\ slot' = slot /\ height \in Nat /\ height > 0
           /\ UNCHANGED <<header, highWater, inner>>
           /\ Shelved(leaf') /\ Sub(leaf, leaf') /\ vault' = Worth(Stock(leaf')) /\ Sound(Stock(leaf'))
           /\ \E fs : /\ Matches(size, groups, fs) /\ Plan(fs) /\ Moved(leaf', fs, Len(fs))
                     /\ Clears(taker, fs, held', cash')
<1> DEFINE m == IF max < MAXK THEN max ELSE MAXK
           fs == Sweep(limit, size, m, groups).fills
           w == SettleAll(taker, fs)
<1>1. /\ status = "open" /\ status' = "open" /\ slot' = slot /\ height > 0
      /\ UNCHANGED <<header, highWater, inner>>
      /\ w.ok /\ vault' = w.vault /\ held' = w.held /\ cash' = w.cash /\ leaf' = w.leaf
  BY DEF Match
<1> HIDE DEF m
<1>2. MapInv /\ Shelved(leaf) /\ DOMAIN leaf \subseteq Nat /\ height \in Nat
  BY <1>1, MapShelved DEF BookInv, MapInv, SearchInv, Structure
<1>3. vault = Worth(Stock(leaf)) /\ Sound(Stock(leaf))
  BY <1>1 DEF BookInv, Pledged
<1>4. Len(groups) \in Nat /\ \A g \in 1..Len(groups) : Last(groups[g]) \in DOMAIN leaf
  BY <1>1, <1>2, GroupsEnd
<1>5. Plan(fs) /\ Matches(size, groups, fs)
  BY <1>2, <1>4, AllSwept DEF Matches
<1> HIDE DEF fs
<1>6. Agrees(w) /\ Sub(leaf, w.leaf) /\ Moved(w.leaf, fs, Len(fs))
  BY <1>1, <1>2, <1>3, <1>5, SettlesAll
<1> HIDE DEF w
<1>7. /\ Shelved(leaf') /\ Sub(leaf, leaf') /\ vault' = Worth(Stock(leaf')) /\ Sound(Stock(leaf'))
      /\ Moved(leaf', fs, Len(fs))
  BY <1>1, <1>6 DEF Agrees
<1>8. Clears(taker, fs, held', cash')
  BY <1>1 DEF Clears, w
<1> QED BY <1>1, <1>2, <1>5, <1>7, <1>8

LEMMA MatchBooks ==
    ASSUME BookInv, NEW taker, NEW limit, NEW size \in Nat, NEW max, NEW recvs, NEW groups,
           groups \in BoundedSeq({Path(k) : k \in Key}, MaxLeaves), Match(taker, limit, size, max, recvs, groups)
    PROVE  BookInv'
<1>1. /\ status = "open" /\ status' = "open" /\ slot' = slot /\ height \in Nat /\ height > 0
      /\ UNCHANGED <<header, highWater, inner>>
      /\ Shelved(leaf') /\ Sub(leaf, leaf') /\ vault' = Worth(Stock(leaf')) /\ Sound(Stock(leaf'))
  BY MatchMoves
<1>2. MapInv'
  <2>1. height # 0 /\ MapInv
    BY <1>1 DEF BookInv
  <2> QED BY <1>1, <2>1, SubKeepsMap
<1> QED BY <1>1, <1>2 DEF BookInv, Pledged

LEMMA NextBooks ==
    ASSUME BookInv, [BookNext]_allVars
    PROVE  BookInv'
<1>1. CASE SetsUp
  <2>1. ASSUME NEW s \in Seeds, Seed(s) PROVE BookInv'
    BY <2>1, SeedBooks
  <2>2. CASE HandOver
    BY <2>2, MapStays DEF HandOver, BookInv
  <2>3. CASE InitMarket
    BY <2>3, OpeningBooks
  <2> QED BY <1>1, <2>1, <2>2, <2>3 DEF SetsUp
<1>2. CASE Makes
  <2>1. PICK m \in Trader, price \in Price, size \in Size, nonce \in Nonce, planned \in 0..MaxSlot :
          LET p == Path(OrderKey(price, planned, m, nonce))
          IN  \/ Place(m, p, price, size, nonce)
              \/ PlaceCold(m, p, price, size, nonce, highWater + 1, height + 2)
    BY <1>2 DEF Makes
  <2> DEFINE p == Path(OrderKey(price, planned, m, nonce))
             v == [maker |-> m, size |-> size]
             k == OrderKey(price, slot, m, nonce)
  <2>2. Escrows(m, price, size) /\ Inserting(p, k, v, highWater + 1, height + 2)
    BY <2>1 DEF Place, PlaceCold, Inserting
  <2> QED BY <2>2, PlacingBooks
<1>3. CASE Cancels
  BY <1>3, CancelBooks DEF Cancels
<1>4. CASE Takes
  <2>1. PICK t \in Trader, limit \in Price, size \in Size, max \in {1, MAXK} :
          \E groups \in BoundedSeq({Path(k) : k \in Key}, MaxLeaves) \ {<<>>} :
            LET fills == Sweep(limit, size, max, groups).fills
            IN  Match(t, limit, size, max, [j \in DOMAIN fills |-> fills[j].maker], groups)
    BY <1>4 DEF Takes
  <2>2. size \in Nat
    BY FieldAssumption
  <2> QED BY <2>1, <2>2, MatchBooks
<1>5. CASE Tick
  <2>1. MapInv' /\ leaf' = leaf /\ slot' = slot + 1 /\ slot < MaxSlot /\ status' = status /\ vault' = vault
    BY <1>5, MapStays DEF Tick, BookInv
  <2>2. Pledged => Pledged'
    BY <2>1, PledgeStays
  <2>3. slot' \in 0..MaxSlot
    BY <2>1, FieldAssumption DEF BookInv
  <2> QED BY <2>1, <2>2, <2>3 DEF BookInv
<1>6. CASE UNCHANGED allVars
  <2>1. MapInv' /\ leaf' = leaf /\ slot' = slot /\ status' = status /\ vault' = vault
    BY <1>6, MapStays DEF allVars, bookVars, BookInv
  <2>2. Pledged => Pledged'
    BY <2>1, PledgeStays
  <2> QED BY <2>1, <2>2 DEF BookInv
<1> QED BY <1>1, <1>2, <1>3, <1>4, <1>5, <1>6 DEF BookNext

LEMMA BookInvHolds == BookSpec => []BookInv
<1>1. BookInit => BookInv
  BY InitBooked
<1>2. BookInv /\ [BookNext]_allVars => BookInv'
  BY NextBooks
<1> QED BY <1>1, <1>2, PTL DEF BookSpec

(* The vault of an open market holds exactly what its resting orders need: *)
(* in every market, whatever its creator inserted before it was opened,    *)
(* and after any places, cancels, splits and matches, whose partial fills  *)
(* release from the vault what the orders they reduce then need no more.   *)
THEOREM VaultBacksOrdersEver == BookSpec => []VaultBacksOrders
<1>1. BookInv => VaultBacksOrders
  BY BookIsStock DEF BookInv, Pledged, VaultBacksOrders
<1> QED BY <1>1, BookInvHolds, PTL

(* Whatever rests in an open market can settle: its notional is positive   *)
(* and fits a u64, so no match of it fails on the overflow check, however  *)
(* much of it was filled before.                                           *)
THEOREM RestingOrdersSettleEver == BookSpec => []RestingOrdersCanSettle
<1>1. BookInv => RestingOrdersCanSettle
  <2> SUFFICES ASSUME BookInv, status = "open", NEW k \in DOMAIN Book, Book[k].size > 0
               PROVE  PriceOf(k) * Book[k].size \in 1..MaxU64
    BY DEF RestingOrdersCanSettle
  <2> DEFINE v == Book[k]
             e == <<k, v>>
  <2>1. e \in Stock(leaf) /\ Sound(Stock(leaf))
    BY BookIsStock DEF BookInv, Pledged
  <2>2. e[1] = k /\ e[2] = v
    OBVIOUS
  <2> HIDE DEF v
  <2>3. v.size > 0
    BY DEF v
  <2>4. PriceOf(k) * v.size \in 1..MaxU64
    BY <2>1, <2>2, <2>3 DEF Sound
  <2> QED BY <2>4 DEF v
<1> QED BY <1>1, BookInvHolds, PTL

---------------------------------------------------------------------------
(* The leaves in order *)

InOrder(row) ==
    /\ row \in Seq(Index) /\ Len(row) \in Nat /\ Len(row) > 0
    /\ DOMAIN leaf = {row[a] : a \in 1..Len(row)}
    /\ leftmost = row[1]
    /\ \A a \in 1..Len(row) : leaf[row[a]].next = IF a = Len(row) THEN 0 ELSE row[a + 1]
    /\ \A a, b \in 1..Len(row) : a < b =>
          \A e \in Holds(leaf[row[a]]), g \in Holds(leaf[row[b]]) : e[1] < g[1]

LEMMA TreeInOrder ==
    ASSUME MapInv, Tied, height > 0
    PROVE  InOrder(Row(height))
<1> DEFINE row == Row(height)
<1>1. SearchInv /\ ChainInv /\ Shelved(leaf)
  BY MapShelved DEF MapInv, ChainInv
<1>2. PICK rt : InRow(row, rt)
  BY <1>1, LeavesInRow
<1>3. /\ leftmost = Head(row)
      /\ \A i \in DOMAIN row : leaf[row[i]].next = IF i = Len(row) THEN 0 ELSE row[i + 1]
  BY <1>1, ChainIsRow DEF ChainIsLeafRow
<1>4. ASSUME NEW a \in 1..Len(row), NEW b \in 1..Len(row), a < b,
             NEW x \in ToSet(leaf[row[a]].keys), NEW y \in ToSet(leaf[row[b]].keys)
      PROVE  x < y
  BY <1>1, <1>4, RowAscends
<1> HIDE DEF row
<1>5. \A l \in DOMAIN leaf : \A e \in Holds(leaf[l]) : e[1] \in ToSet(leaf[l].keys)
  <2> SUFFICES ASSUME NEW l \in DOMAIN leaf, NEW e \in Holds(leaf[l]) PROVE e[1] \in ToSet(leaf[l].keys)
    OBVIOUS
  <2>1. leaf[l].keys \in Seq(Nat)
    BY <1>1, ShelfFacts DEF Shelved
  <2>2. DOMAIN leaf[l].keys = 1..Len(leaf[l].keys)
    BY <2>1
  <2>3. PICK i \in 1..Len(leaf[l].keys) : e = <<leaf[l].keys[i], leaf[l].vals[i]>>
    BY DEF Holds, EntriesOf
  <2> QED BY <2>2, <2>3 DEF ToSet
<1>6. \A a \in 1..Len(row) : row[a] \in DOMAIN leaf
  BY <1>2 DEF InRow
<1>7. Head(row) = row[1]
  BY <1>2 DEF InRow
<1> QED BY <1>2, <1>3, <1>4, <1>5, <1>6, <1>7 DEF InRow, InOrder, row

---------------------------------------------------------------------------
(* The sweep takes the best orders whole *)

(* A fill took all of the order of e. *)
TakenWhole(fs, e) == \E i \in 1..Len(fs) : fs[i].key = e[1] /\ fs[i].left = 0

(* Whatever rests under a lower key than one that is filled is taken. *)
BestTaken(fs) ==
    \A j \in 1..Len(fs) : \A e \in Stock(leaf) :
        e[1] < fs[j].key /\ e[2].size > 0 => TakenWhole(fs, e)

Going(t, max) == t.state = "sweeping" /\ ~Full(t, max)

(* The entries of the leaves before the m-th, and the first i of that one. *)
Passes(row, m, i, e) ==
    \/ \E a \in 1..Len(row) : a < m /\ e \in Holds(leaf[row[a]])
    \/ \E x \in 1..i : e = <<leaf[row[m]].keys[x], leaf[row[m]].vals[x]>>

Ahead(t, max, row, m, i) ==
    /\ BestTaken(t.fills)
    /\ Going(t, max) => \A e \in Stock(leaf) : e[2].size > 0 /\ Passes(row, m, i, e) => TakenWhole(t.fills, e)

Longer(fs, f, gs) == fs \in Seq(Fill) /\ f \in Fill /\ gs = Append(fs, f)

LEMMA TakenGrows ==
    ASSUME NEW fs, NEW f, NEW gs, Longer(fs, f, gs)
    PROVE  /\ \A e : TakenWhole(fs, e) => TakenWhole(gs, e)
           /\ \A e : f.key = e[1] /\ f.left = 0 => TakenWhole(gs, e)
           /\ \A j \in 1..Len(gs) : (j \in 1..Len(fs) /\ gs[j] = fs[j]) \/ gs[j] = f
<1>1. /\ Len(fs) \in Nat /\ Len(gs) = Len(fs) + 1
      /\ \A j \in 1..Len(fs) + 1 : gs[j] = IF j <= Len(fs) THEN fs[j] ELSE f
  BY Positions, AppendFacts DEF Longer
<1>2. \A j \in 1..Len(gs) : (j \in 1..Len(fs) /\ gs[j] = fs[j]) \/ gs[j] = f
  BY <1>1
<1>3. \A j \in 1..Len(fs) : j \in 1..Len(gs) /\ gs[j] = fs[j]
  BY <1>1
<1>4. Len(fs) + 1 \in 1..Len(gs) /\ gs[Len(fs) + 1] = f
  BY <1>1
<1> QED BY <1>2, <1>3, <1>4 DEF TakenWhole

(* What rests under a lower key than the i-th of the m-th leaf was passed. *)
LEMMA LowerIsPassed ==
    ASSUME Shelved(leaf), NEW row, InOrder(row), NEW m \in 1..Len(row), NEW i \in 1..Len(leaf[row[m]].keys),
           NEW e \in Stock(leaf), e[1] < leaf[row[m]].keys[i]
    PROVE  Passes(row, m, i - 1, e)
<1> DEFINE n == row[m]
           N == Len(leaf[n].keys)
           k == leaf[n].keys[i]
<1>1. n \in DOMAIN leaf
  BY DEF InOrder
<1>2. /\ leaf[n].keys \in Seq(Nat) /\ leaf[n].vals \in Seq(Val) /\ Ascending(leaf[n].keys) /\ N \in Nat
      /\ Len(leaf[n].vals) = N
  <2>1. Shelf(leaf[n])
    BY <1>1 DEF Shelved
  <2>2. leaf[n].keys \in Seq(Nat) /\ Ascending(leaf[n].keys) /\ leaf[n].vals \in Seq(Val) /\ Len(leaf[n].vals) = N
    BY <2>1 DEF Shelf, Matched, Aligned, Index
  <2> QED BY <2>2, Positions
<1>3. PICK a \in 1..Len(row) : e \in Holds(leaf[row[a]])
  <2>1. PICK l \in DOMAIN leaf : e \in Holds(leaf[l])
    BY StockFacts
  <2> QED BY <2>1 DEF InOrder
<1>4. \A x \in 1..N : leaf[n].keys[x] \in Nat
  BY <1>2, Positions
<1>5. <<k, leaf[n].vals[i]>> \in Holds(leaf[n])
  BY DEF Holds, EntriesOf
<1>6. CASE a < m
  BY <1>3, <1>6 DEF Passes
<1>7. CASE a = m
  <2>1. PICK x \in 1..N : e = <<leaf[n].keys[x], leaf[n].vals[x]>>
    BY <1>3, <1>7 DEF Holds, EntriesOf
  <2>2. leaf[n].keys[x] < k
    BY <2>1
  <2>3. ~(i < x) /\ x # i
    <3> DEFINE ks == leaf[n].keys
    <3>1. \A y \in 1..N : \A z \in 1..y - 1 : ks[z] < ks[y]
      <4>1. ks \in Seq(Nat) /\ Ascending(ks) /\ N = Len(ks)
        BY <1>2
      <4> HIDE DEF ks, N
      <4> QED BY <4>1, AscendingPairs
    <3>2. i \in 1..N /\ ks[i] \in Nat /\ ks[x] \in Nat /\ ks[x] < ks[i] /\ N \in Nat
      BY <1>2, <1>4, <2>2
    <3> HIDE DEF ks, N, k, n
    <3>3. i < x => ks[i] < ks[x]
      <4>1. i < x => i \in 1..x - 1
        BY <3>2
      <4> QED BY <3>1, <4>1
    <3> QED BY ONLY <3>2, <3>3
  <2>4. x \in 1..i - 1
    BY <1>2, <2>3
  <2> QED BY <2>1, <2>4 DEF Passes
<1>8. CASE m < a
  <2>1. k < e[1]
    <3>1. <<k, leaf[n].vals[i]>>[1] = k
      OBVIOUS
    <3>2. \A d \in Holds(leaf[n]), g \in Holds(leaf[row[a]]) : d[1] < g[1]
      BY <1>8 DEF InOrder
    <3> QED BY <1>3, <1>5, <3>1, <3>2
  <2>2. k \in Nat /\ e[1] \in Nat
    <3>1. row[a] \in DOMAIN leaf
      BY DEF InOrder
    <3>2. k \in Nat
      BY <1>4
    <3>3. IsEntry(e)
      BY <1>3, <3>1, ShelfFacts DEF Shelved
    <3> QED BY <3>2, <3>3 DEF IsEntry
  <2> HIDE DEF k
  <2>3. e[1] < k
    BY DEF k
  <2> QED BY ONLY <2>1, <2>2, <2>3
<1>9. a < m \/ a = m \/ m < a
  <2>1. Len(row) \in Nat
    BY DEF InOrder
  <2> QED BY <2>1
<1> QED BY <1>6, <1>7, <1>8, <1>9

(* One order, and one leaf. *)
OrderStep(t, w, max, limit, row, m, h, i) ==
    /\ m \in 1..Len(row) /\ i \in 1..Len(leaf[row[m]].keys) /\ h = i - 1
    /\ Sweeping(t) /\ Ahead(t, max, row, m, h)
    /\ w = SweepOrder(t, row[m], i, limit, max)

LeafStep(t, w, max, limit, row, m) ==
    /\ m \in 1..Len(row)
    /\ SweptTo(t, row[m], 0) /\ Ahead(t, max, row, m, 0)
    /\ w = SweepLeaf(t, row[m], limit, max)

LEMMA OrderAhead ==
    ASSUME Shelved(leaf), NEW row, InOrder(row), NEW m, NEW h, NEW i, NEW t, NEW max, NEW limit,
           NEW w, OrderStep(t, w, max, limit, row, m, h, i)
    PROVE  Ahead(w, max, row, m, i) /\ w.expected = t.expected /\ w.seen = t.seen
<1> DEFINE n == row[m]
           k == leaf[n].keys[i]
           order == leaf[n].vals[i]
           fill == IF t.remaining < order.size THEN t.remaining ELSE order.size
           left == order.size - fill
           f == [key |-> k, maker |-> order.maker, price |-> PriceOf(k), fill |-> fill, left |-> left, leaf |-> n]
           st == [t EXCEPT !.state = "done"]
           ad == [t EXCEPT !.remaining = @ - fill, !.fills = Append(@, f)]
           At(e) == e = <<k, order>>
<1>0. /\ m \in 1..Len(row) /\ i \in 1..Len(leaf[row[m]].keys)
      /\ Sweeping(t) /\ Ahead(t, max, row, m, i - 1)
      /\ w = SweepOrder(t, row[m], i, limit, max)
  BY DEF OrderStep
<1>1. /\ n \in DOMAIN leaf /\ n \in Nat /\ k \in Nat /\ order.maker \in Trader /\ order.size \in Nat
      /\ Len(leaf[n].keys) \in Nat
  <2>1. n \in DOMAIN leaf /\ n \in Nat
    BY <1>0, Positions DEF InOrder, Index
  <2>2. Shelf(leaf[n])
    BY <2>1 DEF Shelved
  <2>3. leaf[n].keys \in Seq(Nat) /\ leaf[n].vals \in Seq(Val) /\ Len(leaf[n].vals) = Len(leaf[n].keys)
    BY <2>2 DEF Shelf, Matched, Aligned, Index
  <2>4. k \in Nat /\ order \in Val /\ Len(leaf[n].keys) \in Nat
    BY <1>0, <2>3, Positions
  <2> HIDE DEF order, k, n
  <2>5. order.maker \in Trader /\ order.size \in Nat
    BY <2>4, OrderAssumption, FieldAssumption
  <2> QED BY <2>1, <2>4, <2>5 DEF n
<1>2. \/ ~Going(t, max) /\ w = t
      \/ Going(t, max) /\ w = st
      \/ Going(t, max) /\ order.size = 0 /\ w = t
      \/ Going(t, max) /\ order.size # 0 /\ w = ad
  BY <1>0 DEF SweepOrder, Going
<1>3. \A e : Passes(row, m, i, e) => Passes(row, m, i - 1, e) \/ At(e)
  <2>1. \A x \in 1..i : x \in 1..i - 1 \/ x = i
    BY <1>0, <1>1
  <2> QED BY <2>1 DEF Passes
<1>4. /\ IsSweep(t) /\ t.remaining \in Nat /\ t.fills \in Seq(Fill) /\ BestTaken(t.fills)
      /\ Going(t, max) => \A e \in Stock(leaf) : e[2].size > 0 /\ Passes(row, m, i - 1, e) => TakenWhole(t.fills, e)
  BY <1>0 DEF Sweeping, Plan, Ahead
<1>5. CASE ~Going(t, max) /\ w = t
  BY <1>4, <1>5 DEF Ahead
<1>6. CASE Going(t, max) /\ w = st
  <2>1. w.fills = t.fills /\ w.expected = t.expected /\ w.seen = t.seen /\ w.state = "done"
    <3> HIDE DEF k, order, fill, left, f, ad
    <3> QED BY <1>4, <1>6 DEF IsSweep
  <2>2. ~Going(w, max)
    BY <2>1 DEF Going
  <2> QED BY <1>4, <2>1, <2>2 DEF Ahead
<1>7. CASE Going(t, max) /\ order.size = 0 /\ w = t
  <2>1. ASSUME NEW e \in Stock(leaf), e[2].size > 0, Passes(row, m, i, e) PROVE TakenWhole(t.fills, e)
    <3>1. CASE Passes(row, m, i - 1, e)
      BY <1>4, <1>7, <2>1, <3>1
    <3>2. CASE At(e)
      BY <1>7, <2>1, <3>2
    <3> QED BY <1>3, <2>1, <3>1, <3>2
  <2> QED BY <1>4, <1>7, <2>1 DEF Ahead
<1>8. CASE Going(t, max) /\ order.size # 0 /\ w = ad
  <2>1. /\ fill \in Nat /\ fill # 0 /\ left \in Nat /\ fill + left = order.size
        /\ left # 0 => t.remaining - fill = 0
    <3>1. t.remaining # 0 /\ order.size # 0
      BY <1>8 DEF Going, Full
    <3> HIDE DEF order
    <3> QED BY <1>1, <1>4, <3>1
  <2>2. PriceOf(k) \in Int
    BY <1>1, PriceIsInt
  <2> HIDE DEF fill, left
  <2>3. f \in Fill /\ f.key = k /\ f.left = left
    <3> HIDE DEF k, order, n
    <3> QED BY <1>1, <2>1, <2>2 DEF Fill, n
  <2> DEFINE fs == t.fills
             gs == Append(fs, f)
             rem == t.remaining - fill
  <2>4. w.remaining = rem /\ w.fills = gs /\ w.expected = t.expected /\ w.seen = t.seen
    <3>1. w = [t EXCEPT !.remaining = rem, !.fills = gs]
      BY <1>8
    <3>2. IsSweep(t)
      BY <1>4
    <3> HIDE DEF rem, gs, fs, f, ad, st
    <3> QED BY <3>1, <3>2 DEF IsSweep
  <2>5. gs = Append(fs, f) /\ fs \in Seq(Fill)
    BY <1>4
  <2> HIDE DEF f, gs, fs
  <2>6. /\ \A e : TakenWhole(fs, e) => TakenWhole(gs, e)
        /\ \A e : f.key = e[1] /\ f.left = 0 => TakenWhole(gs, e)
        /\ \A j \in 1..Len(gs) : (j \in 1..Len(fs) /\ gs[j] = fs[j]) \/ gs[j] = f
    <3>1. Longer(fs, f, gs)
      BY <2>3, <2>5 DEF Longer
    <3> QED BY <3>1, TakenGrows
  <2>7. \A e \in Stock(leaf) : e[2].size > 0 /\ Passes(row, m, i - 1, e) => TakenWhole(gs, e)
    BY <1>4, <1>8, <2>6 DEF fs
  <2>8. BestTaken(gs)
    <3> SUFFICES ASSUME NEW j \in 1..Len(gs), NEW e \in Stock(leaf), e[1] < gs[j].key, e[2].size > 0
                 PROVE  TakenWhole(gs, e)
      BY DEF BestTaken
    <3>1. CASE j \in 1..Len(fs) /\ gs[j] = fs[j]
      <4>1. TakenWhole(fs, e)
        BY <1>4, <3>1 DEF BestTaken, fs
      <4> QED BY <2>6, <4>1
    <3>2. CASE gs[j] = f
      <4>1. e[1] < k
        BY <2>3, <3>2
      <4>2. Passes(row, m, i - 1, e)
        BY <1>0, <4>1, LowerIsPassed
      <4> QED BY <2>7, <4>2
    <3> QED BY <2>6, <3>1, <3>2
  <2>9. ASSUME Going(w, max), NEW e \in Stock(leaf), e[2].size > 0, Passes(row, m, i, e) PROVE TakenWhole(gs, e)
    <3>1. CASE Passes(row, m, i - 1, e)
      BY <2>7, <2>9, <3>1
    <3>2. CASE At(e)
      <4>1. rem # 0
        BY <2>4, <2>9 DEF Going, Full
      <4>2. left = 0
        BY <2>1, <4>1
      <4>3. f.key = e[1]
        BY <2>3, <3>2
      <4> QED BY <2>3, <2>6, <4>2, <4>3
    <3> QED BY <1>3, <2>9, <3>1, <3>2
  <2> QED BY <2>4, <2>8, <2>9 DEF Ahead
<1> QED BY <1>2, <1>5, <1>6, <1>7, <1>8

LEMMA LeafAhead ==
    ASSUME Shelved(leaf), DOMAIN leaf \subseteq Nat, NEW row, InOrder(row), NEW m, NEW t, NEW max, NEW limit,
           NEW w, LeafStep(t, w, max, limit, row, m)
    PROVE  /\ Ahead(w, max, row, m, Len(leaf[row[m]].keys))
           /\ w.expected = t.expected /\ w.seen = t.seen
<1> DEFINE n == row[m]
           N == Len(leaf[n].keys)
           Good(u, i) == SweptTo(u, n, i) /\ Ahead(u, max, row, m, i) /\ u.expected = t.expected /\ u.seen = t.seen
<1> m \in 1..Len(row) /\ SweptTo(t, row[m], 0) /\ Ahead(t, max, row, m, 0) /\ w = SweepLeaf(t, row[m], limit, max)
  BY DEF LeafStep
<1>0. n \in DOMAIN leaf
  BY DEF InOrder
<1>1. N \in Nat
  <2>1. leaf[n].keys \in Seq(Nat)
    BY <1>0, ShelfFacts DEF Shelved
  <2> QED BY <2>1, Positions
<1>2. PICK s : LeafRun(s, t, n, limit, max) /\ w = s[N]
  BY <1>1, LeafRuns
<1> DEFINE A == {i \in Nat : i <= N => Good(s[i], i)}
<1>3. s[0] = t /\ \A i \in 1..N : s[i] = SweepOrder(s[i - 1], n, i, limit, max)
  <2>1. 0 \in 0..N /\ \A i \in 1..N : i \in 0..N /\ i # 0
    BY <1>1
  <2> QED BY <1>2, <2>1 DEF LeafRun
<1>4. 0 \in A
  BY <1>3
<1>5. ASSUME NEW j \in Nat, j \in A PROVE j + 1 \in A
  <2> SUFFICES ASSUME j + 1 <= N PROVE Good(s[j + 1], j + 1)
    OBVIOUS
  <2> DEFINE i == j + 1
             u == s[j]
             v == s[i]
  <2>1. i \in 1..N /\ i - 1 = j
    BY <1>1
  <2>2. SweptTo(u, n, i - 1) /\ Ahead(u, max, row, m, i - 1) /\ u.expected = t.expected /\ u.seen = t.seen
    BY <1>1, <1>5, <2>1
  <2>3. v = SweepOrder(u, n, i, limit, max)
    BY <1>3, <2>1
  <2> HIDE DEF i, u, v
  <2>4. SweptTo(v, n, i)
    BY <1>0, <2>1, <2>2, <2>3, OrderSwept
  <2>5. Ahead(v, max, row, m, i) /\ v.expected = u.expected /\ v.seen = u.seen
    <3>1. OrderStep(u, v, max, limit, row, m, i - 1, i)
      BY <2>1, <2>2, <2>3 DEF OrderStep, SweptTo
    <3> QED BY <3>1, OrderAhead
  <2> QED BY <2>2, <2>4, <2>5 DEF v, i
<1> HIDE DEF A
<1>6. N \in A
  BY <1>1, <1>4, <1>5, NatInductionOn
<1> QED BY <1>1, <1>2, <1>6 DEF A

(* Where the sweep stands between two leaves: m of them are behind it. *)
Stands(t, row, m) ==
    /\ t.seen = {row[a] : a \in 1..m}
    /\ t.expected = IF m = Len(row) THEN 0 ELSE row[m + 1]
    /\ \A e \in Stock(leaf) : e[2].size > 0 /\ (\E a \in 1..m : e \in Holds(leaf[row[a]])) => TakenWhole(t.fills, e)

Onwards(t, max, row) ==
    BestTaken(t.fills) /\ (Going(t, max) => \E m \in 0..Len(row) : Stands(t, row, m))

LEMMA GroupAhead ==
    ASSUME Shelved(leaf), DOMAIN leaf \subseteq Nat, 0 \notin DOMAIN leaf, NEW row, InOrder(row),
           NEW p, Last(p) \in DOMAIN leaf, NEW t, Sweeping(t), NEW max, Onwards(t, max, row),
           NEW limit, NEW w, w = SweepGroup(t, p, limit, max)
    PROVE  Onwards(w, max, row)
<1> DEFINE n == Last(p)
           x == leaf[n].next
           q == t.seen \cup {t.expected}
           u == [t EXCEPT !.expected = x, !.seen = q]
           r == [t EXCEPT !.state = "refused"]
<1>1. \/ w = t
      \/ w = r
      \/ Going(t, max) /\ n = t.expected /\ t.expected \notin t.seen /\ w = SweepLeaf(u, n, limit, max)
  BY DEF SweepGroup, Going
<1>2. CASE w = t
  BY <1>2
<1>3. CASE w = r
  <2>1. w.fills = t.fills /\ w.state = "refused"
    <3> HIDE DEF u
    <3> QED BY <1>3 DEF Sweeping, IsSweep
  <2> QED BY <2>1 DEF Onwards, Going
<1>4. CASE Going(t, max) /\ n = t.expected /\ t.expected \notin t.seen /\ w = SweepLeaf(u, n, limit, max)
  <2>1. PICK m \in 0..Len(row) : Stands(t, row, m)
    BY <1>4 DEF Onwards
  <2>2. Len(row) \in Nat
    BY DEF InOrder
  <2>3. m # Len(row)
    BY <1>4, <2>1 DEF Stands
  <2>4. n = row[m + 1] /\ m + 1 \in 1..Len(row)
    BY <1>4, <2>1, <2>2, <2>3 DEF Stands
  <2> DEFINE g == m + 1
  <2>5. g \in 1..Len(row) /\ row[g] = n /\ g - 1 = m
    BY <2>2, <2>4
  <2>6. x = IF g = Len(row) THEN 0 ELSE row[g + 1]
    BY <2>5 DEF InOrder
  <2>7. q = {row[a] : a \in 1..g}
    <3>1. \A a : a \in 1..g <=> (a \in 1..m \/ a = g)
      BY <2>2, <2>5
    <3> QED BY <1>4, <2>1, <2>5, <3>1 DEF Stands
  <2>8. u = [t EXCEPT !.expected = x, !.seen = q] /\ w = SweepLeaf(u, row[g], limit, max) /\ n \in q /\ n \notin t.seen
        /\ t.seen \subseteq q
    BY <1>4, <2>5
  <2> HIDE DEF x, q, u, r, n, g
  <2>9. /\ IsSweep(u) /\ u.remaining = t.remaining /\ u.fills = t.fills /\ u.seen = q /\ u.expected = x
        /\ u.state = t.state
    BY <2>8 DEF Sweeping, IsSweep
  <2>10. SweptTo(u, row[g], 0)
    BY <2>5, <2>8, <2>9 DEF SweptTo, Sweeping
  <2>11. \A e : Passes(row, g, 0, e) => \E a \in 1..m : e \in Holds(leaf[row[a]])
    <3>1. \A a \in 1..Len(row) : a < g => a \in 1..m
      BY <2>2, <2>5
    <3>2. 1..0 = {}
      OBVIOUS
    <3> QED BY <3>1, <3>2 DEF Passes
  <2>12. Ahead(u, max, row, g, 0)
    BY <2>1, <2>9, <2>11 DEF Ahead, Onwards, Stands
  <2>13. Ahead(w, max, row, g, Len(leaf[row[g]].keys)) /\ w.expected = u.expected /\ w.seen = u.seen
    <3>1. LeafStep(u, w, max, limit, row, g)
      BY <2>5, <2>8, <2>10, <2>12 DEF LeafStep
    <3> QED BY <3>1, LeafAhead
  <2>14. \A e : (\E a \in 1..g : e \in Holds(leaf[row[a]])) => Passes(row, g, Len(leaf[row[g]].keys), e)
    <3>1. \A a \in 1..g : a \in 1..Len(row) /\ (a < g \/ a = g)
      BY <2>2, <2>5
    <3>2. \A e \in Holds(leaf[row[g]]) : \E y \in 1..Len(leaf[row[g]].keys) : e = <<leaf[row[g]].keys[y], leaf[row[g]].vals[y]>>
      BY DEF Holds, EntriesOf
    <3> QED BY <3>1, <3>2 DEF Passes
  <2>15. Going(w, max) => Stands(w, row, g)
    BY <2>6, <2>7, <2>9, <2>13, <2>14 DEF Ahead, Stands
  <2>16. g \in 0..Len(row)
    BY <2>2, <2>5
  <2> QED BY <2>13, <2>15, <2>16 DEF Onwards, Ahead
<1> HIDE DEF u, r
<1> QED BY <1>1, <1>2, <1>3, <1>4

LEMMA AllAhead ==
    ASSUME Shelved(leaf), DOMAIN leaf \subseteq Nat, 0 \notin DOMAIN leaf, NEW row, InOrder(row),
           NEW groups, Len(groups) \in Nat, \A g \in 1..Len(groups) : Last(groups[g]) \in DOMAIN leaf,
           NEW limit, NEW size \in Nat, NEW max
    PROVE  BestTaken(Sweep(limit, size, max, groups).fills)
<1> DEFINE N == Len(groups)
<1>1. PICK s : GroupRun(s, limit, size, max, groups) /\ Sweep(limit, size, max, groups) = s[N]
  BY GroupRuns
<1> DEFINE A == {i \in Nat : i <= N => Sweeping(s[i]) /\ Onwards(s[i], max, row)}
<1>2. s[0] = Fresh(size) /\ \A i \in 1..N : s[i] = SweepGroup(s[i - 1], groups[i], limit, max)
  <2>1. 0 \in 0..N /\ \A i \in 1..N : i \in 0..N /\ i # 0
    OBVIOUS
  <2> QED BY <1>1, <2>1 DEF GroupRun
<1>3. 0 \in A
  <2>1. /\ Fresh(size).fills = <<>> /\ Fresh(size).remaining = size /\ IsSweep(Fresh(size))
        /\ Fresh(size).seen = {} /\ Fresh(size).expected = leftmost
    BY DEF Fresh, IsSweep
  <2>2. Plan(<<>>) /\ Len(<<>>) = 0 /\ BestTaken(<<>>)
    BY DEF Plan, BestTaken
  <2>3. Sweeping(Fresh(size))
    BY <2>1, <2>2 DEF Sweeping
  <2>4. Stands(Fresh(size), row, 0) /\ 0 \in 0..Len(row)
    <3>1. 1..0 = {} /\ 0 # Len(row) /\ row[0 + 1] = leftmost /\ Len(row) \in Nat
      BY DEF InOrder
    <3> QED BY <2>1, <3>1 DEF Stands
  <2> QED BY <1>2, <2>1, <2>2, <2>3, <2>4 DEF Onwards
<1>4. ASSUME NEW j \in Nat, j \in A PROVE j + 1 \in A
  <2> SUFFICES ASSUME j + 1 <= N PROVE Sweeping(s[j + 1]) /\ Onwards(s[j + 1], max, row)
    OBVIOUS
  <2> DEFINE i == j + 1
             u == s[j]
             v == s[i]
             p == groups[i]
  <2>1. i \in 1..N /\ i - 1 = j
    OBVIOUS
  <2>2. Sweeping(u) /\ Onwards(u, max, row)
    BY <1>4, <2>1
  <2>3. v = SweepGroup(u, p, limit, max) /\ Last(p) \in DOMAIN leaf
    BY <1>2, <2>1
  <2> HIDE DEF i, u, v, p
  <2>4. Sweeping(v)
    BY <2>1, <2>2, <2>3, GroupSwept
  <2>5. Onwards(v, max, row)
    BY <2>2, <2>3, GroupAhead
  <2> QED BY <2>4, <2>5 DEF v, i
<1> HIDE DEF A
<1>5. N \in A
  BY <1>3, <1>4, NatInductionOn
<1> QED BY <1>1, <1>5 DEF A, Onwards

---------------------------------------------------------------------------
(* Price-time order is key order *)

LEMMA DivGrows ==
    ASSUME NEW x \in Nat, NEW y \in Nat, x <= y, NEW d \in Nat, d > 0
    PROVE  x \div d <= y \div d
<1> DEFINE a == x \div d
           b == y \div d
<1>1. a \in Nat /\ b \in Nat /\ d * a <= x /\ y < d * b + d
  BY DivBounds
<1> HIDE DEF a, b
<1>2. b < a => d * b + d <= d * a
  BY <1>1, Times
<1>3. ~(b < a)
  <2>1. d * a \in Nat /\ d * b \in Nat
    BY <1>1
  <2> QED BY <1>1, <1>2, <2>1
<1> QED BY <1>1, <1>3 DEF a, b

LEMMA DivTwice ==
    ASSUME NEW x \in Nat, NEW c \in Nat, c > 0, NEW d \in Nat, d > 0
    PROVE  x \div (c * d) = (x \div c) \div d
<1> DEFINE a == x \div c
           b == a \div d
           r == x - (c * d) * b
<1>1. a \in Nat /\ c * a <= x /\ x < c * a + c
  BY DivBounds
<1>2. b \in Nat /\ d * b <= a /\ a < d * b + d
  BY <1>1, DivBounds
<1> HIDE DEF a, b
<1> DEFINE m == d * b
           cm == c * m
           cd == c * d
<1>3. m \in Nat /\ c * a \in Nat /\ cm \in Nat /\ cd \in Nat /\ c * d \in Nat
  BY <1>1, <1>2
<1>4. cm <= c * a
  <2>1. m < a => c * m + c <= c * a
    BY <1>1, <1>3, Times
  <2>2. m = a => c * m = c * a
    OBVIOUS
  <2>3. m < a \/ m = a
    BY <1>1, <1>2, <1>3
  <2> HIDE DEF m
  <2> QED BY <1>3, <2>1, <2>2, <2>3
<1>5. c * a + c <= cm + cd
  <2>1. a < m + d /\ m + d \in Nat
    BY <1>2, <1>3
  <2>2. c * a + c <= c * (m + d)
    BY <1>1, <2>1, Times
  <2>3. c * (m + d) = cm + cd
    BY <1>3
  <2> QED BY <2>2, <2>3
<1>6. (c * d) * b = cm
  BY <1>2
<1> HIDE DEF m, cm, cd
<1>7. r \in Nat /\ r < cd /\ cd = c * d /\ x = cd * b + r
  <2>1. r = x - cm
    BY <1>6
  <2>2. cd = c * d
    BY DEF cd
  <2>3. cd * b = cm
    BY <1>6, <2>2
  <2> HIDE DEF r
  <2> QED BY <1>1, <1>3, <1>4, <1>5, <2>1, <2>2, <2>3
<1> HIDE DEF r
<1>8. (cd * b + r) \div cd = b
  BY <1>2, <1>3, <1>7, DivGives
<1> QED BY <1>7, <1>8 DEF b, a

(* An order with a better price, or an earlier one at the same price, has  *)
(* the lower key.                                                          *)
LEMMA BetterIsLower ==
    ASSUME NEW j \in Nat, NEW k \in Nat, Better(j, k)
    PROVE  j < k
<1> SUFFICES ASSUME k <= j PROVE FALSE
  OBVIOUS
<1> DEFINE R2 == Radix * Radix
           R3 == Radix * Radix * Radix
           a == j \div R2
           b == k \div R2
           p == j \div R3
           q == k \div R3
<1>1. Radix \in Nat /\ Radix > 0 /\ MaxU64 \in Nat
  BY FieldAssumption
<1>2. R2 \in Nat /\ R2 > 0 /\ R3 \in Nat /\ R3 > 0 /\ R3 = R2 * Radix
  BY <1>1
<1> HIDE DEF R2, R3
<1>3. p \in Nat /\ q \in Nat /\ q <= p
  BY <1>2, DivBounds, DivGrows
<1>4. a \in Nat /\ b \in Nat /\ b <= a
  BY <1>2, DivBounds, DivGrows
<1>5. p = a \div Radix /\ q = b \div Radix
  BY <1>1, <1>2, DivTwice
<1> HIDE DEF a, b, p, q
<1>6. /\ PriceOf(j) = IF BookSide = "ask" THEN p ELSE MaxU64 - p
      /\ PriceOf(k) = IF BookSide = "ask" THEN q ELSE MaxU64 - q
      /\ SlotOf(j) = a % Radix /\ SlotOf(k) = b % Radix
  BY DEF PriceOf, SlotOf, R2, R3, a, b, p, q
<1>7. ~(IF BookSide = "ask" THEN PriceOf(j) < PriceOf(k) ELSE PriceOf(j) > PriceOf(k))
  BY <1>1, <1>3, <1>6
<1>8. PriceOf(j) = PriceOf(k) /\ SlotOf(j) < SlotOf(k)
  BY <1>7 DEF Better
<1>9. p = q
  BY <1>1, <1>3, <1>6, <1>8
<1>10. a = Radix * p + (a % Radix) /\ b = Radix * p + (b % Radix) /\ a % Radix \in Nat /\ b % Radix \in Nat
  BY <1>1, <1>4, <1>5, <1>9
<1> QED BY <1>1, <1>3, <1>4, <1>6, <1>8, <1>10

---------------------------------------------------------------------------
(* A match, between the two books *)

(* What b shows of the leaves lf. *)
Shows(b, lf) == DOMAIN b = KeysIn(Stock(lf)) /\ \A k \in DOMAIN b : <<k, b[k]>> \in Stock(lf)

LEMMA NoneBetterLeft ==
    ASSUME Ledger(Stock(leaf)), NEW lf, Ledger(Stock(lf)), NEW fs, BestTaken(fs), Moved(lf, fs, Len(fs)),
           NEW old, Shows(old, leaf), NEW new, Shows(new, lf),
           NEW k \in Reduced(old, new), NEW j \in DOMAIN old, Better(j, k), old[j].size > 0
    PROVE  j \notin DOMAIN new
<1> DEFINE e == <<k, old[k]>>
           g == <<j, old[j]>>
<1>1. k \in DOMAIN old /\ Taken(old, new, k) # 0
  BY DEF Reduced
<1>2. e \in Stock(leaf) /\ e[1] = k /\ e[2] = old[k]
  BY <1>1 DEF Shows
<1>3. g \in Stock(leaf) /\ g[1] = j /\ g[2] = old[j]
  BY DEF Shows
<1>4. k \in Nat /\ j \in Nat /\ old[k].size \in Nat
  <2>1. IsEntry(e) /\ IsEntry(g)
    BY <1>2, <1>3 DEF Ledger
  <2>2. k \in Nat /\ j \in Nat /\ old[k] \in Val
    BY <1>2, <1>3, <2>1 DEF IsEntry
  <2> QED BY <2>2, OrderAssumption, FieldAssumption
<1> HIDE DEF e, g
<1>5. PICK i \in 1..Len(fs) : fs[i].key = k
  <2> SUFFICES ASSUME \A i \in 1..Len(fs) : fs[i].key # k PROVE FALSE
    OBVIOUS
  <2>1. e \in Stock(lf)
    BY <1>2 DEF Moved
  <2>2. k \in DOMAIN new
    BY <1>2, <2>1 DEF Shows, KeysIn
  <2>3. <<k, new[k]>> \in Stock(lf) /\ <<k, new[k]>>[1] = k
    BY <2>2 DEF Shows
  <2>4. <<k, new[k]>> = e
    BY <1>2, <2>1, <2>3 DEF Ledger
  <2>5. new[k] = old[k]
    BY <2>4 DEF e
  <2>6. Taken(old, new, k) = 0
    BY <1>4, <2>2, <2>5 DEF Taken
  <2> QED BY <1>1, <2>6
<1>6. j < k
  BY <1>4, BetterIsLower
<1>7. TakenWhole(fs, g)
  BY <1>3, <1>5, <1>6 DEF BestTaken
<1>8. PICK x \in 1..Len(fs) : fs[x].key = j /\ fs[x].left = 0
  BY <1>3, <1>7 DEF TakenWhole
<1>9. j \notin KeysIn(Stock(lf))
  BY <1>8 DEF Moved, Put
<1> QED BY <1>9 DEF Shows

LEMMA MatchTakesBest ==
    ASSUME BookInv, Tied, NEW taker, NEW limit, NEW size \in Nat, NEW max, NEW recvs, NEW groups,
           groups \in BoundedSeq({Path(k) : k \in Key}, MaxLeaves), Match(taker, limit, size, max, recvs, groups)
    PROVE  Tied' /\ \E fs : BestTaken(fs) /\ Moved(leaf', fs, Len(fs))
<1>1. PICK fs : Matches(size, groups, fs) /\ Moved(leaf', fs, Len(fs))
  BY MatchMoves
<1>2. /\ height \in Nat /\ height > 0 /\ height' = height /\ leftmost' = leftmost /\ rightmost' = rightmost
      /\ Shelved(leaf') /\ Sub(leaf, leaf')
  BY MatchMoves DEF header
<1>3. MapInv /\ Shelved(leaf) /\ DOMAIN leaf \subseteq Nat /\ 0 \notin DOMAIN leaf /\ SearchInv
  <2>1. DOMAIN leaf \subseteq 1..highWater /\ highWater \in Nat
    BY DEF BookInv, MapInv, SearchInv, Structure
  <2> QED BY <2>1, MapShelved DEF BookInv, MapInv
<1>4. Len(groups) \in Nat /\ \A g \in 1..Len(groups) : Last(groups[g]) \in DOMAIN leaf
  BY <1>2, <1>3, GroupsEnd
<1>5. InOrder(Row(height))
  BY <1>2, <1>3, TreeInOrder
<1>6. BestTaken(fs)
  <2>1. PICK lim, most : fs = Sweep(lim, size, most, groups).fills
    BY <1>1 DEF Matches
  <2> QED BY <1>3, <1>4, <1>5, <2>1, AllAhead
<1>7. Ends(leaf', leftmost, rightmost)
  <2>1. Ends(leaf, leftmost, rightmost)
    BY <1>2 DEF Tied
  <2> QED BY <1>2, <2>1, EndsStay DEF Sub
<1>8. Filled(leaf')
  <2> SUFFICES ASSUME NEW y \in DOMAIN leaf PROVE Len(leaf'[y].keys) <= F
    BY <1>2 DEF Filled, Sub
  <2>1. leaf[y].keys \in Seq(Nat) /\ leaf'[y].keys \in Seq(Nat)
    BY <1>2, <1>3, ShelfFacts DEF Shelved, Sub
  <2>2. Len(leaf[y].keys) \in Nat /\ Len(leaf'[y].keys) \in Nat /\ F \in Nat
    BY <2>1, FanoutFacts
  <2>3. Len(leaf'[y].keys) <= Len(leaf[y].keys) /\ Len(leaf[y].keys) <= F
    BY <1>1 DEF Moved, Tied, Filled
  <2> QED BY <2>2, <2>3
<1> QED BY <1>1, <1>2, <1>6, <1>7, <1>8 DEF Tied

LEMMA InsertingTied ==
    ASSUME MapInv, Tied, NEW p, NEW k \in Key, NEW v, NEW from, NEW spares, Inserting(p, k, v, from, spares)
    PROVE  Tied'
<1>1. Structure /\ k \in Index
  BY KeyIsIndex DEF MapInv, SearchInv
<1>2. CASE InsertFast(p, k, v) \/ InsertRoom(p, k, v)
  BY <1>1, <1>2, FastStepsTied
<1>3. CASE InsertFirst(k, v, from, spares)
  BY <1>1, <1>3, InsertFirstTied
<1>4. CASE InsertSplit(p, k, v, from, spares)
  BY <1>1, <1>4, InsertSplitTied
<1> QED BY <1>2, <1>3, <1>4 DEF Inserting, Insert

(* What the book needs of the leaf chain is there after every step, and a  *)
(* step that moves cash is a match that takes the best orders first.       *)
BookChain == BookInv /\ Tied

LEMMA NextBest ==
    ASSUME BookChain, [BookNext]_allVars
    PROVE  Tied' /\ (cash' # cash => \E fs : BestTaken(fs) /\ Moved(leaf', fs, Len(fs)))
<1>1. MapInv /\ Tied /\ BookInv /\ Structure
  BY DEF BookChain, BookInv, MapInv, SearchInv
<1>2. UNCHANGED vars => Tied'
  BY <1>1 DEF vars, header, Tied
<1>3. CASE SetsUp
  <2>1. ASSUME NEW s \in Seeds, Seed(s) PROVE Tied' /\ cash' = cash
    <3> DEFINE p == Path(s.key)
               v == [maker |-> s.maker, size |-> s.size]
    <3>1. s.key \in Key
      BY OrderAssumption
    <3>2. Inserting(p, s.key, v, highWater + 1, height + 2) /\ cash' = cash
      BY <2>1 DEF Seed, Inserting, bookVars
    <3> HIDE DEF p, v
    <3> QED BY <1>1, <3>1, <3>2, InsertingTied
  <2>2. CASE HandOver \/ InitMarket
    BY <1>2, <2>2 DEF HandOver, InitMarket
  <2> QED BY <1>3, <2>1, <2>2 DEF SetsUp
<1>4. CASE Makes
  <2>1. PICK m \in Trader, price \in Price, size \in Size, nonce \in Nonce, planned \in 0..MaxSlot :
          LET p == Path(OrderKey(price, planned, m, nonce))
          IN  \/ Place(m, p, price, size, nonce)
              \/ PlaceCold(m, p, price, size, nonce, highWater + 1, height + 2)
    BY <1>4 DEF Makes
  <2> DEFINE p == Path(OrderKey(price, planned, m, nonce))
             v == [maker |-> m, size |-> size]
             k == OrderKey(price, slot, m, nonce)
  <2>2. cash' = cash /\ Inserting(p, k, v, highWater + 1, height + 2)
    BY <2>1 DEF Place, PlaceCold, Escrows, Inserting
  <2>3. k \in Key
    BY <1>1, OrderAssumption DEF BookInv
  <2> HIDE DEF p, v, k
  <2> QED BY <1>1, <2>2, <2>3, InsertingTied
<1>5. CASE Cancels
  <2>1. PICK m \in Trader, k \in Key : Cancel(m, Path(k), k)
    BY <1>5 DEF Cancels
  <2>2. cash' = cash /\ DeleteFast(Path(k), k)
    BY <2>1 DEF Cancel
  <2> QED BY <1>1, <2>2, FastStepsTied
<1>6. CASE Takes
  <2>1. PICK t \in Trader, limit \in Price, size \in Size, max \in {1, MAXK} :
          \E groups \in BoundedSeq({Path(k) : k \in Key}, MaxLeaves) \ {<<>>} :
            LET fills == Sweep(limit, size, max, groups).fills
            IN  Match(t, limit, size, max, [j \in DOMAIN fills |-> fills[j].maker], groups)
    BY <1>6 DEF Takes
  <2>2. size \in Nat
    BY FieldAssumption
  <2> QED BY <1>1, <2>1, <2>2, MatchTakesBest
<1>7. CASE Tick
  BY <1>2, <1>7 DEF Tick
<1>8. CASE UNCHANGED allVars
  BY <1>2, <1>8 DEF allVars, bookVars
<1> QED BY <1>3, <1>4, <1>5, <1>6, <1>7, <1>8 DEF BookNext

LEMMA BookChainHolds == BookSpec => []BookChain
<1>1. BookInit => Tied
  BY DEF BookInit, Init, Tied, Filled, NoNodes
<1>2. BookChain /\ [BookNext]_allVars => Tied'
  BY NextBest
<1> QED BY <1>1, <1>2, BookInvHolds, PTL DEF BookSpec, BookChain

(* Price-time priority: whenever a match takes from an order, every order  *)
(* with a better price, and every earlier one at the same price, is off    *)
(* the book after it, whichever leaves the taker passed and in which order *)
(* it passed them: the matcher checks that they are the tree's leaves from *)
(* the leftmost one on (orderbook/src/lib.rs, phase 1).                    *)
THEOREM BestFirstEver == BookSpec => BestFirst
<1> DEFINE old == Book
           Showing == Shows(Book, leaf) /\ Ledger(Stock(leaf))
           P == cash' # cash =>
                  LET o == Book
                      n == Book'
                  IN  \A k \in Reduced(o, n), j \in DOMAIN o :
                          Better(j, k) /\ o[j].size > 0 => j \notin DOMAIN n
<1>1. BookChain => Showing
  BY BookIsStock, MapShelved, ShelvedLedger DEF BookChain, BookInv, Shows
<1>2. ASSUME BookChain, Showing, Showing', [BookNext]_allVars PROVE P
  <2> SUFFICES ASSUME cash' # cash, NEW k \in Reduced(Book, Book'), NEW j \in DOMAIN Book, Better(j, k), Book[j].size > 0
               PROVE  j \notin DOMAIN Book'
    OBVIOUS
  <2>1. PICK fs : BestTaken(fs) /\ Moved(leaf', fs, Len(fs))
    BY <1>2, NextBest
  <2> DEFINE lf == leaf'
             new == Book'
  <2>2. Shows(old, leaf) /\ Ledger(Stock(leaf)) /\ Shows(new, lf) /\ Ledger(Stock(lf))
    BY <1>2 DEF Shows, Stock, Ledger, KeysIn, IsEntry
  <2>3. Moved(lf, fs, Len(fs))
    BY <2>1
  <2>4. k \in Reduced(old, new) /\ j \in DOMAIN old /\ old[j].size > 0
    OBVIOUS
  <2> HIDE DEF old, new, lf
  <2>5. j \notin DOMAIN new
    BY <2>1, <2>2, <2>3, <2>4, NoneBetterLeft
  <2> QED BY <2>5 DEF new
<1>3. BookChain /\ Showing /\ Showing' /\ [BookNext]_allVars => [P]_allVars
  BY <1>2
<1> HIDE DEF Showing
<1>4. BookSpec => [][P]_allVars
  BY <1>1, <1>3, BookChainHolds, PTL DEF BookSpec
<1> QED BY <1>4 DEF BestFirst

---------------------------------------------------------------------------
(* Sums over the keys that were filled *)

(* What c gives for the keys of S, and those of them that are m's. *)
Over(c, S) == SumFunction([k \in S |-> c[k]])
Mine(mk, S, m) == {k \in S : mk[k] = m}
KeysTo(fs, j) == {fs[i].key : i \in 1..j}

LEMMA OverNone ==
    ASSUME NEW c, NEW S, S = {}
    PROVE  Over(c, S) = 0
<1> DEFINE f == [k \in S |-> c[k]]
<1>1. DOMAIN f = {} /\ IsFiniteSet(DOMAIN f)
  BY FS_EmptySet
<1> HIDE DEF f
<1>2. SumFunction(f) = 0
  BY <1>1, SumOfZeros
<1> QED BY <1>2 DEF Over, f

LEMMA OverAdds ==
    ASSUME NEW S, IsFiniteSet(S), NEW x, x \notin S, NEW E, E = S \cup {x}, NEW c, \A k \in E : c[k] \in Int
    PROVE  Over(c, S) \in Int /\ Over(c, E) \in Int /\ Over(c, E) = Over(c, S) + c[x]
<1> DEFINE f == [k \in S |-> c[k]]
           g == [k \in E |-> c[k]]
<1>1. Numbers(f, S) /\ Numbers(g, E) /\ (\A y \in S : g[y] = f[y]) /\ g[x] = c[x] /\ c[x] \in Int
  BY DEF Numbers
<1> HIDE DEF f, g
<1>2. SumFunction(f) \in Int /\ SumFunction(g) = SumFunction(f) + g[x]
  BY <1>1, SumAdds
<1> QED BY <1>1, <1>2 DEF Over, f, g

LEMMA OverIsInt ==
    ASSUME NEW S, IsFiniteSet(S), NEW c, \A k \in S : c[k] \in Int
    PROVE  Over(c, S) \in Int
<1>1. CASE S = {}
  BY <1>1, OverNone
<1>2. CASE S # {}
  <2>1. PICK x : x \in S
    BY <1>2
  <2> DEFINE T == S \ {x}
  <2>2. IsFiniteSet(T) /\ x \notin T /\ S = T \cup {x}
    BY <2>1, FS_Subset
  <2> HIDE DEF T
  <2> QED BY <2>2, OverAdds
<1> QED BY <1>1, <1>2

(* One more key: whoever it is of has more, and so have all together. *)
Portions(c, mk, S) == [m \in Trader |-> Over(c, Mine(mk, S, m))]

LEMMA ShareGrows ==
    ASSUME NEW S, IsFiniteSet(S), NEW x, x \notin S, NEW E, E = S \cup {x}, NEW c, \A k \in E : c[k] \in Int,
           NEW mk, NEW m
    PROVE  /\ Over(c, Mine(mk, S, m)) \in Int
           /\ Over(c, Mine(mk, E, m)) = Over(c, Mine(mk, S, m)) + IF mk[x] = m THEN c[x] ELSE 0
<1> DEFINE A == Mine(mk, S, m)
           B == Mine(mk, E, m)
           C == A \cup {x}
<1>1. IsFiniteSet(A) /\ x \notin A /\ \A k \in C : c[k] \in Int
  <2>1. A \subseteq S
    BY DEF Mine
  <2> QED BY <2>1, FS_Subset
<1>2. mk[x] = m => B = C
  BY DEF Mine
<1>3. mk[x] # m => B = A
  BY DEF Mine
<1> HIDE DEF A, B, C
<1>4. Over(c, A) \in Int /\ Over(c, C) = Over(c, A) + c[x]
  BY <1>1, OverAdds DEF C
<1>5. CASE mk[x] = m
  BY <1>2, <1>4, <1>5 DEF A, B
<1>6. CASE mk[x] # m
  BY <1>3, <1>4, <1>6 DEF A, B
<1> QED BY <1>5, <1>6

LEMMA SharesGrow ==
    ASSUME IsFiniteSet(Trader), NEW S, IsFiniteSet(S), NEW x, x \notin S, NEW E, E = S \cup {x},
           NEW c, \A k \in E : c[k] \in Int, NEW mk, mk[x] \in Trader,
           SumFunction(Portions(c, mk, S)) = Over(c, S)
    PROVE  SumFunction(Portions(c, mk, E)) = Over(c, E)
<1> DEFINE f == Portions(c, mk, S)
           g == Portions(c, mk, E)
           y == mk[x]
<1>1. \A m \in Trader : f[m] \in Int /\ g[m] = f[m] + IF y = m THEN c[x] ELSE 0
  BY ShareGrows DEF Portions
<1>2. c[x] \in Int
  OBVIOUS
<1>3. DOMAIN f = Trader /\ DOMAIN g = Trader
  BY DEF Portions
<1> HIDE DEF f, g, y
<1>4. Numbers(f, Trader) /\ Numbers(g, Trader) /\ (\A m \in Trader : m # y => g[m] = f[m])
  BY <1>1, <1>2, <1>3 DEF Numbers
<1>5. y \in Trader
  BY DEF y
<1>6. SumFunction(f) \in Int /\ f[y] \in Int /\ SumFunction(g) = SumFunction(f) - f[y] + g[y]
  BY <1>4, <1>5, SumChanges
<1>7. g[y] = f[y] + c[x]
  BY <1>1, <1>5
<1>8. Over(c, E) = Over(c, S) + c[x] /\ Over(c, S) \in Int
  BY OverAdds
<1>9. SumFunction(f) = Over(c, S)
  BY DEF f
<1> QED BY <1>2, <1>6, <1>7, <1>8, <1>9 DEF g

NothingYet(c, mk, S) == SumFunction(Portions(c, mk, S)) = Over(c, S) /\ \A m : Over(c, Mine(mk, S, m)) = 0

LEMMA NoShares ==
    ASSUME IsFiniteSet(Trader), NEW c, NEW mk, NEW S, S = {}
    PROVE  NothingYet(c, mk, S)
<1>1. \A m : Mine(mk, S, m) = {}
  BY DEF Mine
<1>2. \A m : Over(c, Mine(mk, S, m)) = 0
  BY <1>1, OverNone
<1>3. SumFunction(Portions(c, mk, S)) = 0
  BY <1>2, SumOfZeros DEF Portions
<1> QED BY <1>2, <1>3, OverNone DEF NothingYet

---------------------------------------------------------------------------
(* What everyone has, after some of the fills *)

Purses(h, c) == h \in [Trader -> Int] /\ c \in [Trader -> Int]

(* a to x, and b from x to m. *)
Differs(t, w, a, b, x, m) ==
    /\ Purses(w.held, w.cash)
    /\ \A y \in Trader : w.held[y] = t.held[y] + IF y = x THEN a ELSE 0
    /\ \A y \in Trader : w.cash[y] = t.cash[y] + (IF y = m THEN b ELSE 0) - (IF y = x THEN b ELSE 0)

LEMMA TransferFacts ==
    ASSUME NEW t, NEW w, NEW a \in Int, NEW b \in Int, NEW x \in Trader, NEW m \in Trader,
           Transfers(t, w, a, b, x, m), Purses(t.held, t.cash)
    PROVE  Differs(t, w, a, b, x, m)
<1> DEFINE h == t.held
           c == t.cash
           h2 == w.held
           c2 == w.cash
           d == [c EXCEPT ![x] = @ - b]
<1>1. h \in [Trader -> Int] /\ c \in [Trader -> Int]
  BY DEF Purses
<1>2. h2 = [h EXCEPT ![x] = @ + a] /\ c2 = [d EXCEPT ![m] = @ + b]
  BY DEF Transfers, TokenTransfer
<1>3. d = [c EXCEPT ![x] = @ - b]
  OBVIOUS
<1> HIDE DEF h, c, h2, c2, d
<1>4. h2 \in [Trader -> Int] /\ \A y \in Trader : h2[y] = h[y] + IF y = x THEN a ELSE 0
  BY <1>1, <1>2
<1>5. d \in [Trader -> Int] /\ \A y \in Trader : d[y] = c[y] - IF y = x THEN b ELSE 0
  BY <1>1, <1>3
<1>6. c2 \in [Trader -> Int] /\ \A y \in Trader : c2[y] = d[y] + IF y = m THEN b ELSE 0
  BY <1>2, <1>5
<1>7. ASSUME NEW y \in Trader PROVE c2[y] = c[y] + (IF y = m THEN b ELSE 0) - (IF y = x THEN b ELSE 0)
  <2>1. c[y] \in Int /\ d[y] \in Int
    BY <1>1, <1>5
  <2> QED BY <1>5, <1>6, <2>1
<1> QED BY <1>4, <1>6, <1>7 DEF Differs, Purses, h, c, h2, c2

(* c and r say what each key's fill collects and releases, mk whose order  *)
(* it is.                                                                  *)
Amounts(fs, c, r, mk) ==
    \A i \in 1..Len(fs) :
        /\ c[fs[i].key] = Collect(fs[i].price, fs[i].fill)
        /\ r[fs[i].key] = Release(fs[i].price, fs[i].fill)
        /\ mk[fs[i].key] = fs[i].maker

LEMMA AmountsAreInts ==
    ASSUME NEW fs, Plan(fs), NEW c, NEW r, NEW mk, Amounts(fs, c, r, mk), NEW j \in 0..Len(fs)
    PROVE  IsFiniteSet(KeysTo(fs, j)) /\ \A k \in KeysTo(fs, j) : c[k] \in Int /\ r[k] \in Int
<1>1. Len(fs) \in Nat /\ \A i \in 1..Len(fs) : fs[i] \in Fill
  BY Positions DEF Plan
<1>2. IsFiniteSet(KeysTo(fs, j))
  <2> DEFINE I == 1..j
             S == KeysTo(fs, j)
             g == [i \in I |-> fs[i].key]
  <2>1. IsFiniteSet(I)
    BY <1>1, FS_Interval
  <2>2. g \in Surjection(I, S)
    BY DEF Surjection, KeysTo
  <2> HIDE DEF I, g
  <2> QED BY <2>1, <2>2, FS_Surjection
<1>3. ASSUME NEW i \in 1..Len(fs) PROVE c[fs[i].key] \in Int /\ r[fs[i].key] \in Int
  <2> DEFINE g == fs[i]
  <2>1. g.price \in Int /\ g.fill \in Nat
    BY <1>1 DEF Fill
  <2>2. c[g.key] = Collect(g.price, g.fill) /\ r[g.key] = Release(g.price, g.fill)
    BY DEF Amounts
  <2> HIDE DEF g
  <2>3. Collect(g.price, g.fill) \in Int /\ Release(g.price, g.fill) \in Int
    BY <2>1 DEF Collect, Release
  <2> QED BY <2>2, <2>3 DEF g
<1>4. \A i \in 1..j : i \in 1..Len(fs)
  BY <1>1
<1>5. \A k \in KeysTo(fs, j) : c[k] \in Int /\ r[k] \in Int
  BY <1>3, <1>4 DEF KeysTo
<1> QED BY <1>2, <1>5

SettledUp(t, taker, S, c, r, mk) ==
    /\ Purses(t.held, t.cash)
    /\ \A m \in Trader : t.held[m] = held[m] + IF m = taker THEN Over(r, S) ELSE 0
    /\ \A m \in Trader : t.cash[m] = cash[m] + Over(c, Mine(mk, S, m)) - IF m = taker THEN Over(c, S) ELSE 0
    /\ SumFunction(Portions(c, mk, S)) = Over(c, S)

LEMMA UpByOne ==
    ASSUME Purses(held, cash), NEW S, IsFiniteSet(S), NEW x, x \notin S, NEW E, E = S \cup {x},
           NEW c, \A k \in E : c[k] \in Int, NEW r, \A k \in E : r[k] \in Int, NEW mk, mk[x] \in Trader,
           NEW taker \in Trader, NEW t, SettledUp(t, taker, S, c, r, mk),
           NEW w, Transfers(t, w, r[x], c[x], taker, mk[x])
    PROVE  SettledUp(w, taker, E, c, r, mk)
<1> DEFINE a == r[x]
           b == c[x]
           m == mk[x]
<1>1. a \in Int /\ b \in Int /\ m \in Trader /\ Transfers(t, w, a, b, taker, m) /\ Purses(t.held, t.cash)
  BY DEF SettledUp
<1> HIDE DEF a, b, m
<1>2. Differs(t, w, a, b, taker, m)
  <2>1. taker \in Trader
    OBVIOUS
  <2> QED BY ONLY <1>1, <2>1, TransferFacts
<1>3. Over(r, S) \in Int /\ Over(r, E) = Over(r, S) + a
  <2>1. IsFiniteSet(S) /\ x \notin S /\ E = S \cup {x} /\ \A k \in E : r[k] \in Int
    OBVIOUS
  <2> QED BY ONLY <2>1, OverAdds DEF a
<1>4. Over(c, S) \in Int /\ Over(c, E) = Over(c, S) + b
  <2>1. IsFiniteSet(S) /\ x \notin S /\ E = S \cup {x} /\ \A k \in E : c[k] \in Int
    OBVIOUS
  <2> QED BY ONLY <2>1, OverAdds DEF b
<1>5. ASSUME NEW y \in Trader
      PROVE  /\ w.held[y] = held[y] + IF y = taker THEN Over(r, E) ELSE 0
             /\ w.cash[y] = cash[y] + Over(c, Mine(mk, E, y)) - IF y = taker THEN Over(c, E) ELSE 0
  <2> DEFINE p == Over(c, Mine(mk, S, y))
             q == Over(c, Mine(mk, E, y))
  <2>1. p \in Int /\ q = p + IF m = y THEN b ELSE 0
    BY ShareGrows DEF m, b
  <2>2. held[y] \in Int /\ cash[y] \in Int
    BY DEF Purses
  <2>3. /\ t.held[y] = held[y] + IF y = taker THEN Over(r, S) ELSE 0
        /\ t.cash[y] = cash[y] + p - IF y = taker THEN Over(c, S) ELSE 0
    BY DEF SettledUp
  <2>4. /\ w.held[y] = t.held[y] + IF y = taker THEN a ELSE 0
        /\ w.cash[y] = t.cash[y] + (IF y = m THEN b ELSE 0) - (IF y = taker THEN b ELSE 0)
    BY <1>2 DEF Differs
  <2> HIDE DEF p, q
  <2>5. w.held[y] = held[y] + IF y = taker THEN Over(r, E) ELSE 0
    BY <1>1, <1>3, <2>2, <2>3, <2>4
  <2>6. w.cash[y] = cash[y] + q - IF y = taker THEN Over(c, E) ELSE 0
    BY <1>1, <1>4, <2>1, <2>2, <2>3, <2>4
  <2> QED BY <2>5, <2>6 DEF q
<1>6. SumFunction(Portions(c, mk, E)) = Over(c, E)
  <2>1. IsFiniteSet(Trader) /\ SumFunction(Portions(c, mk, S)) = Over(c, S)
    BY FieldAssumption DEF SettledUp
  <2> QED BY <2>1, SharesGrow
<1> QED BY <1>2, <1>5, <1>6 DEF SettledUp, Differs

LEMMA SettlesUp ==
    ASSUME Purses(held, cash), NEW taker \in Trader, NEW fs, Plan(fs), NEW c, NEW r, NEW mk, Amounts(fs, c, r, mk),
           NEW j \in 1..Len(fs), NEW t, IsBooks(t), SettledUp(t, taker, KeysTo(fs, j - 1), c, r, mk),
           NEW w, w = Settle(t, taker, fs[j]), w.ok = TRUE
    PROVE  SettledUp(w, taker, KeysTo(fs, j), c, r, mk)
<1> DEFINE f == fs[j]
           x == f.key
           S == KeysTo(fs, j - 1)
           E == KeysTo(fs, j)
<1>1. Len(fs) \in Nat /\ \A i \in 1..Len(fs) : fs[i] \in Fill
  BY Positions DEF Plan
<1>2. \A i : i \in 1..j <=> (i \in 1..j - 1 \/ i = j)
  BY <1>1
<1>3. E = S \cup {x}
  BY <1>2 DEF KeysTo
<1>4. x \notin S
  <2>1. \A i \in 1..j - 1 : i \in 1..Len(fs) /\ i # j
    BY <1>1
  <2> QED BY <2>1 DEF Plan, KeysTo
<1>5. IsFiniteSet(S)
  <2>1. j - 1 \in 0..Len(fs)
    BY <1>1
  <2> QED BY <2>1, AmountsAreInts
<1>6. /\ \A k \in E : c[k] \in Int /\ r[k] \in Int
      /\ c[x] = Collect(f.price, f.fill) /\ r[x] = Release(f.price, f.fill) /\ mk[x] = f.maker
      /\ f.maker \in Trader
  <2>1. j \in 0..Len(fs)
    BY <1>1
  <2>2. \A k \in E : c[k] \in Int /\ r[k] \in Int
    BY <2>1, AmountsAreInts
  <2>3. f \in Fill
    BY <1>1
  <2> QED BY <2>2, <2>3 DEF Amounts, Fill
<1>7. Transfers(t, w, Release(f.price, f.fill), Collect(f.price, f.fill), taker, f.maker)
  BY SettleGives
<1>8. Transfers(t, w, r[x], c[x], taker, mk[x])
  BY <1>6, <1>7
<1> HIDE DEF f, x, S, E
<1>9. SettledUp(t, taker, S, c, r, mk) /\ mk[x] \in Trader
  BY <1>6 DEF S
<1>10. SettledUp(w, taker, E, c, r, mk)
  BY <1>3, <1>4, <1>5, <1>6, <1>8, <1>9, UpByOne
<1> QED BY <1>10 DEF E

LEMMA SettlesUpAll ==
    ASSUME Purses(held, cash), NEW taker \in Trader, NEW fs, Plan(fs), NEW c, NEW r, NEW mk, Amounts(fs, c, r, mk),
           NEW w, w = SettleAll(taker, fs), w.ok
    PROVE  SettledUp(w, taker, KeysTo(fs, Len(fs)), c, r, mk)
<1>1. Len(fs) \in Nat
  BY Positions DEF Plan
<1>2. PICK s : SettleRun(s, taker, fs) /\ w = s[Len(fs)]
  BY <1>1, SettleRuns
<1> DEFINE N == Len(fs)
           Good(j) == IsBooks(s[j]) /\ (s[j].ok = TRUE => SettledUp(s[j], taker, KeysTo(fs, j), c, r, mk))
           A == {j \in Nat : j <= N => Good(j)}
           b == [ok |-> TRUE, vault |-> vault, held |-> held, cash |-> cash, leaf |-> leaf]
<1>3. s[0] = b /\ \A j \in 1..N : s[j] = Settle(s[j - 1], taker, fs[j])
  <2>1. s = [j \in 0..N |-> IF j = 0 THEN b ELSE Settle(s[j - 1], taker, fs[j])]
    BY <1>2 DEF SettleRun
  <2> HIDE DEF b
  <2>2. 0 \in 0..N /\ \A j \in 1..N : j \in 0..N /\ j # 0
    BY <1>1
  <2> QED BY <2>1, <2>2
<1>4. 0 \in A
  <2> DEFINE t == s[0]
             S == KeysTo(fs, 0)
  <2>1. IsBooks(t) /\ t.held = held /\ t.cash = cash
    BY <1>3 DEF IsBooks
  <2>2. S = {}
    BY DEF KeysTo
  <2>3. /\ SumFunction(Portions(c, mk, S)) = Over(c, S) /\ Over(c, S) = 0 /\ Over(r, S) = 0
        /\ \A m : Over(c, Mine(mk, S, m)) = 0
    <3>1. IsFiniteSet(Trader)
      BY FieldAssumption
    <3>2. NothingYet(c, mk, S)
      BY ONLY <2>2, <3>1, NoShares
    <3>3. Over(c, S) = 0 /\ Over(r, S) = 0
      BY ONLY <2>2, OverNone
    <3> QED BY <3>2, <3>3 DEF NothingYet
  <2> HIDE DEF S, t
  <2>4. \A m \in Trader : held[m] \in Int /\ cash[m] \in Int
    BY DEF Purses
  <2>5. SettledUp(t, taker, S, c, r, mk)
    BY <2>1, <2>3, <2>4 DEF SettledUp
  <2> QED BY <2>1, <2>5 DEF t, S
<1>5. ASSUME NEW j \in Nat, j \in A PROVE j + 1 \in A
  <2> HIDE DEF Good
  <2> SUFFICES ASSUME j + 1 <= N PROVE Good(j + 1)
    OBVIOUS
  <2> DEFINE i == j + 1
             t == s[j]
             u == s[i]
  <2>1. i \in 1..N /\ i - 1 = j
    BY <1>1
  <2>2. IsBooks(t) /\ (t.ok = TRUE => SettledUp(t, taker, KeysTo(fs, i - 1), c, r, mk))
    <3>1. Good(j)
      BY <1>1, <1>5
    <3> QED BY <2>1, <3>1 DEF Good
  <2>3. u = Settle(t, taker, fs[i])
    BY <1>3, <2>1
  <2> HIDE DEF i, t, u
  <2>4. IsBooks(u) /\ (u.ok = TRUE => t.ok = TRUE)
    BY <2>2, <2>3, SettleGives
  <2>5. u.ok = TRUE => SettledUp(u, taker, KeysTo(fs, i), c, r, mk)
    BY <2>1, <2>2, <2>3, <2>4, SettlesUp
  <2> QED BY <2>4, <2>5 DEF u, i, Good
<1> HIDE DEF A
<1>6. N \in A
  BY <1>1, <1>4, <1>5, NatInductionOn
<1>7. IsBooks(w) /\ (w.ok = TRUE => SettledUp(w, taker, KeysTo(fs, N), c, r, mk))
  BY <1>1, <1>2, <1>6 DEF A
<1>8. w.ok = TRUE
  BY <1>7 DEF IsBooks
<1> QED BY <1>7, <1>8

---------------------------------------------------------------------------
(* What was paid, between the two books *)

LEMMA ShownOnce ==
    ASSUME NEW lf, Ledger(Stock(lf)), NEW b, Shows(b, lf), NEW k, NEW v, <<k, v>> \in Stock(lf)
    PROVE  k \in DOMAIN b /\ b[k] = v
<1> DEFINE e == <<k, v>>
           g == <<k, b[k]>>
<1>1. e[1] = k /\ e[2] = v /\ g[1] = k /\ g[2] = b[k]
  OBVIOUS
<1>2. k \in DOMAIN b
  BY <1>1 DEF Shows, KeysIn
<1>3. g \in Stock(lf) /\ e \in Stock(lf)
  BY <1>2 DEF Shows
<1> HIDE DEF e, g
<1>4. e = g
  BY <1>1, <1>3 DEF Ledger
<1> QED BY <1>1, <1>2, <1>4

(* The two books show each fill ... *)
ShowsFill(old, new, f) ==
    /\ f.key \in DOMAIN old /\ old[f.key].maker = f.maker
    /\ Taken(old, new, f.key) = f.fill
    /\ f.key \in DOMAIN new => new[f.key].maker = f.maker

LEMMA FillShown ==
    ASSUME Ledger(Stock(leaf)), NEW lf, Ledger(Stock(lf)), NEW old, Shows(old, leaf), NEW new, Shows(new, lf),
           NEW f, f \in Fill, Owed(f, leaf), Put(lf, f)
    PROVE  ShowsFill(old, new, f)
<1> DEFINE k == f.key
           v == OrderOf(f)[2]
           z == RestOf(f)[2]
<1>1. f.fill \in Nat /\ f.left \in Nat
  BY DEF Fill
<1>2. /\ OrderOf(f) = <<k, v>> /\ v.maker = f.maker /\ v.size = f.fill + f.left
      /\ RestOf(f) = <<k, z>> /\ z.maker = f.maker /\ z.size = f.left
  BY DEF OrderOf, RestOf
<1>3. OrderOf(f) \in Stock(leaf)
  BY DEF Owed, Stock
<1> HIDE DEF k, v, z
<1>4. k \in DOMAIN old /\ old[k] = v
  BY <1>2, <1>3, ShownOnce
<1>5. CASE f.left = 0
  <2>1. k \notin DOMAIN new
    BY <1>5 DEF Put, Shows, k
  <2>2. Taken(old, new, k) = f.fill
    BY <1>1, <1>2, <1>4, <1>5, <2>1 DEF Taken
  <2> QED BY <1>2, <1>4, <2>1, <2>2 DEF ShowsFill, k
<1>6. CASE f.left # 0
  <2>1. <<k, z>> \in Stock(lf)
    BY <1>2, <1>6 DEF Put
  <2>2. k \in DOMAIN new /\ new[k] = z
    BY <2>1, ShownOnce
  <2>3. Taken(old, new, k) = f.fill
    BY <1>1, <1>2, <1>4, <2>2 DEF Taken
  <2> QED BY <1>2, <1>4, <2>2, <2>3 DEF ShowsFill, k
<1> QED BY <1>5, <1>6

(* ... and an order that rests on as it was. *)
LEMMA OthersShown ==
    ASSUME Ledger(Stock(leaf)), NEW lf, Ledger(Stock(lf)), NEW old, Shows(old, leaf), NEW new, Shows(new, lf),
           NEW k \in DOMAIN old, <<k, old[k]>> \in Stock(lf)
    PROVE  k \in DOMAIN new /\ new[k] = old[k] /\ Taken(old, new, k) = 0
<1>1. k \in DOMAIN new /\ new[k] = old[k]
  BY ShownOnce
<1>2. <<k, old[k]>> \in Stock(leaf)
  BY DEF Shows
<1>3. old[k] \in Val
  BY <1>2 DEF Ledger, IsEntry
<1>4. old[k].size \in Nat
  BY <1>3, OrderAssumption, FieldAssumption
<1> QED BY <1>1, <1>4 DEF Taken

MakersKept(old, new) == \A k \in DOMAIN old \cap DOMAIN new : new[k].maker = old[k].maker

LEMMA MatchShown ==
    ASSUME Ledger(Stock(leaf)), NEW lf, Ledger(Stock(lf)), NEW old, Shows(old, leaf), NEW new, Shows(new, lf),
           NEW fs, Plan(fs), Moved(lf, fs, Len(fs))
    PROVE  /\ Reduced(old, new) = KeysTo(fs, Len(fs)) /\ MakersKept(old, new)
           /\ \A i \in 1..Len(fs) : ShowsFill(old, new, fs[i]) /\ fs[i].price = PriceOf(fs[i].key)
<1> DEFINE K == KeysTo(fs, Len(fs))
<1>1. ASSUME NEW i \in 1..Len(fs) PROVE ShowsFill(old, new, fs[i]) /\ fs[i].price = PriceOf(fs[i].key) /\ fs[i] \in Fill
  <2> DEFINE f == fs[i]
  <2>1. f \in Fill /\ Owed(f, leaf) /\ Put(lf, f)
    BY Positions DEF Plan, Moved
  <2> HIDE DEF f
  <2>2. ShowsFill(old, new, f)
    BY <2>1, FillShown
  <2>3. f.price = PriceOf(f.key)
    BY <2>1 DEF Owed
  <2> QED BY <2>1, <2>2, <2>3 DEF f
<1>2. ASSUME NEW k \in K PROVE k \in Reduced(old, new) /\ (k \in DOMAIN new => new[k].maker = old[k].maker)
  <2>1. PICK i \in 1..Len(fs) : k = fs[i].key
    BY DEF KeysTo
  <2>2. fs[i].fill # 0
    BY <1>1 DEF Fill
  <2> QED BY <1>1, <2>1, <2>2 DEF ShowsFill, Reduced
<1>3. ASSUME NEW k \in DOMAIN old, k \notin K PROVE k \notin Reduced(old, new) /\ (k \in DOMAIN new => new[k].maker = old[k].maker)
  <2> DEFINE e == <<k, old[k]>>
  <2>1. e \in Stock(leaf) /\ e[1] = k
    BY DEF Shows
  <2>2. \A i \in 1..Len(fs) : fs[i].key # k
    BY <1>3 DEF KeysTo
  <2> HIDE DEF e
  <2>3. e \in Stock(lf)
    BY <2>1, <2>2 DEF Moved
  <2>4. k \in DOMAIN new /\ new[k] = old[k] /\ Taken(old, new, k) = 0
    BY <2>3, OthersShown DEF e
  <2> QED BY <2>4 DEF Reduced
<1> HIDE DEF K
<1>4. Reduced(old, new) \subseteq DOMAIN old
  BY DEF Reduced
<1>5. Reduced(old, new) = K
  BY <1>2, <1>3, <1>4
<1>6. MakersKept(old, new)
  BY <1>2, <1>3 DEF MakersKept
<1> QED BY <1>1, <1>5, <1>6 DEF K

---------------------------------------------------------------------------
(* The orders settle in full *)

PaidTo(old, new, m) ==
    SumFunction([k \in {k \in Reduced(old, new) : old[k].maker = m} |-> Collect(PriceOf(k), Taken(old, new, k))])
PaidOut(old, new) == SumFunction([x \in Trader |-> PaidTo(old, new, x)])
Released(old, new) == SumFunction([k \in Reduced(old, new) |-> Release(PriceOf(k), Taken(old, new, k))])

(* One order went back to its maker ... *)
GoneBack(old, new, k, h, c, h2, c2) ==
    /\ Reduced(old, new) = {k} /\ k \notin DOMAIN new
    /\ c2 = c
    /\ h2 = [h EXCEPT ![old[k].maker] = @ + Escrow(PriceOf(k), old[k].size)]

(* ... or a taker paid for what it took. *)
PaidFor(old, new, taker, h, c, h2, c2) ==
    \A m \in Trader :
        /\ c2[m] - c[m] = PaidTo(old, new, m) - (IF m = taker THEN PaidOut(old, new) ELSE 0)
        /\ h2[m] - h[m] = IF m = taker THEN Released(old, new) ELSE 0

InFull(old, new, h, c, h2, c2) ==
    /\ MakersKept(old, new)
    /\ Reduced(old, new) # {} =>
        \/ \E k \in Reduced(old, new) : GoneBack(old, new, k, h, c, h2, c2)
        \/ \E taker \in Trader : PaidFor(old, new, taker, h, c, h2, c2)

LEMMA GrowthInFull ==
    ASSUME Ledger(Stock(leaf)), NEW lf, Ledger(Stock(lf)), NEW old, Shows(old, leaf), NEW new, Shows(new, lf),
           Stock(leaf) \subseteq Stock(lf), NEW h2, NEW c2
    PROVE  InFull(old, new, held, cash, h2, c2)
<1>1. ASSUME NEW k \in DOMAIN old PROVE k \in DOMAIN new /\ new[k] = old[k] /\ Taken(old, new, k) = 0
  <2>1. <<k, old[k]>> \in Stock(lf)
    BY DEF Shows
  <2> QED BY <2>1, OthersShown
<1>2. Reduced(old, new) = {}
  BY <1>1 DEF Reduced
<1>3. MakersKept(old, new)
  BY <1>1 DEF MakersKept
<1> QED BY <1>2, <1>3 DEF InFull

(* A cancelled order is the only one that goes, with all that it held. *)
Withdrawn(k, v, lf, h2, c2) ==
    /\ <<k, v>> \in Stock(leaf)
    /\ Stock(lf) = {e \in Stock(leaf) : e[1] # k}
    /\ c2 = cash
    /\ h2 = [held EXCEPT ![v.maker] = @ + Escrow(PriceOf(k), v.size)]

LEMMA WithdrawalInFull ==
    ASSUME Ledger(Stock(leaf)), NEW lf, Ledger(Stock(lf)), NEW old, Shows(old, leaf), NEW new, Shows(new, lf),
           NEW k, NEW v, NEW h2, NEW c2, Withdrawn(k, v, lf, h2, c2)
    PROVE  InFull(old, new, held, cash, h2, c2)
<1>1. k \in DOMAIN old /\ old[k] = v
  BY ShownOnce DEF Withdrawn
<1>2. k \notin DOMAIN new
  BY DEF Withdrawn, Shows, KeysIn
<1>3. ASSUME NEW j \in DOMAIN old, j # k PROVE j \in DOMAIN new /\ new[j] = old[j] /\ Taken(old, new, j) = 0
  <2> DEFINE e == <<j, old[j]>>
  <2>1. e \in Stock(leaf) /\ e[1] = j
    BY DEF Shows
  <2>2. e \in Stock(lf)
    BY <1>3, <2>1 DEF Withdrawn
  <2> QED BY <2>2, OthersShown
<1>4. MakersKept(old, new)
  BY <1>2, <1>3 DEF MakersKept
<1>5. Reduced(old, new) # {} => Reduced(old, new) = {k}
  BY <1>3 DEF Reduced
<1>6. Reduced(old, new) = {k} => GoneBack(old, new, k, held, cash, h2, c2)
  BY <1>1, <1>2 DEF GoneBack, Withdrawn
<1> QED BY <1>4, <1>5, <1>6 DEF InFull

LEMMA MatchInFull ==
    ASSUME Ledger(Stock(leaf)), NEW lf, Ledger(Stock(lf)), NEW old, Shows(old, leaf), NEW new, Shows(new, lf),
           Purses(held, cash), NEW taker \in Trader, NEW fs, Plan(fs), Moved(lf, fs, Len(fs)),
           NEW h2, NEW c2, Clears(taker, fs, h2, c2)
    PROVE  InFull(old, new, held, cash, h2, c2)
<1> DEFINE K == Reduced(old, new)
           c == [k \in K |-> Collect(PriceOf(k), Taken(old, new, k))]
           r == [k \in K |-> Release(PriceOf(k), Taken(old, new, k))]
           mk == [k \in K |-> old[k].maker]
<1>1. /\ K = KeysTo(fs, Len(fs)) /\ MakersKept(old, new)
      /\ \A i \in 1..Len(fs) : ShowsFill(old, new, fs[i]) /\ fs[i].price = PriceOf(fs[i].key)
  BY MatchShown
<1>2. Amounts(fs, c, r, mk)
  <2> SUFFICES ASSUME NEW i \in 1..Len(fs)
               PROVE  /\ c[fs[i].key] = Collect(fs[i].price, fs[i].fill)
                      /\ r[fs[i].key] = Release(fs[i].price, fs[i].fill)
                      /\ mk[fs[i].key] = fs[i].maker
    BY DEF Amounts
  <2>1. fs[i].key \in K
    BY <1>1 DEF KeysTo
  <2>2. ShowsFill(old, new, fs[i]) /\ fs[i].price = PriceOf(fs[i].key)
    BY <1>1
  <2> HIDE DEF K
  <2> QED BY <2>1, <2>2 DEF ShowsFill
<1>3. \A m : PaidTo(old, new, m) = Over(c, Mine(mk, K, m))
  <2> SUFFICES ASSUME NEW m PROVE PaidTo(old, new, m) = Over(c, Mine(mk, K, m))
    OBVIOUS
  <2> DEFINE A == {k \in K : old[k].maker = m}
             B == Mine(mk, K, m)
  <2>1. A = B /\ \A k \in A : k \in K
    BY DEF Mine
  <2>2. [k \in A |-> Collect(PriceOf(k), Taken(old, new, k))] = [k \in B |-> c[k]]
    BY <2>1
  <2> QED BY <2>2 DEF PaidTo, Over
<1>4. Released(old, new) = Over(r, K)
  <2>1. r = [k \in K |-> r[k]]
    OBVIOUS
  <2> QED BY <2>1 DEF Released, Over
<1>5. PaidOut(old, new) = SumFunction(Portions(c, mk, K))
  BY <1>3 DEF PaidOut, Portions
<1> HIDE DEF c, r, mk, K
<1>6. PICK w : w = SettleAll(taker, fs) /\ w.ok /\ h2 = w.held /\ c2 = w.cash
  BY DEF Clears
<1>7. SettledUp(w, taker, K, c, r, mk)
  BY <1>1, <1>2, <1>6, SettlesUpAll
<1>8. PaidFor(old, new, taker, held, cash, h2, c2)
  <2> SUFFICES ASSUME NEW m \in Trader
               PROVE  /\ c2[m] - cash[m] = PaidTo(old, new, m) - (IF m = taker THEN PaidOut(old, new) ELSE 0)
                      /\ h2[m] - held[m] = IF m = taker THEN Released(old, new) ELSE 0
    BY DEF PaidFor
  <2> DEFINE p == PaidTo(old, new, m)
             q == PaidOut(old, new)
             z == Released(old, new)
  <2>1. held[m] \in Int /\ cash[m] \in Int
    BY DEF Purses
  <2>2. c2[m] = cash[m] + p - (IF m = taker THEN q ELSE 0) /\ h2[m] = held[m] + IF m = taker THEN z ELSE 0
    BY <1>3, <1>4, <1>5, <1>6, <1>7 DEF SettledUp
  <2>3. p \in Int /\ q \in Int /\ z \in Int
    <3> DEFINE M == Mine(mk, K, m)
    <3>1. IsFiniteSet(K) /\ \A k \in K : c[k] \in Int /\ r[k] \in Int
      <4>1. Len(fs) \in 0..Len(fs)
        BY Positions DEF Plan
      <4> QED BY <1>1, <1>2, <4>1, AmountsAreInts
    <3>2. IsFiniteSet(M) /\ \A k \in M : c[k] \in Int
      <4>1. M \subseteq K
        BY DEF Mine
      <4> QED BY <3>1, <4>1, FS_Subset
    <3>3. Over(c, K) \in Int /\ Over(r, K) \in Int
      BY <3>1, OverIsInt
    <3>4. Over(c, M) \in Int
      BY <3>2, OverIsInt
    <3> QED BY <1>3, <1>4, <1>5, <1>7, <3>3, <3>4 DEF SettledUp
  <2> HIDE DEF p, q, z
  <2>4. c2[m] - cash[m] = p - (IF m = taker THEN q ELSE 0) /\ h2[m] - held[m] = IF m = taker THEN z ELSE 0
    BY <2>1, <2>2, <2>3
  <2> QED BY <2>4 DEF p, q, z
<1> QED BY <1>1, <1>8 DEF InFull

(* A match changes what traders have, and it is theirs in whole units. *)
LEMMA AmountsExist ==
    ASSUME NEW fs, Plan(fs)
    PROVE  \E c, r, mk : Amounts(fs, c, r, mk)
<1> DEFINE K == KeysTo(fs, Len(fs))
           at(k) == CHOOSE i \in 1..Len(fs) : fs[i].key = k
           c == [k \in K |-> Collect(fs[at(k)].price, fs[at(k)].fill)]
           r == [k \in K |-> Release(fs[at(k)].price, fs[at(k)].fill)]
           mk == [k \in K |-> fs[at(k)].maker]
<1>1. ASSUME NEW i \in 1..Len(fs)
      PROVE  /\ c[fs[i].key] = Collect(fs[i].price, fs[i].fill)
             /\ r[fs[i].key] = Release(fs[i].price, fs[i].fill)
             /\ mk[fs[i].key] = fs[i].maker
  <2> DEFINE k == fs[i].key
  <2>1. k \in K
    BY DEF KeysTo
  <2>2. at(k) \in 1..Len(fs) /\ fs[at(k)].key = k
    OBVIOUS
  <2>3. at(k) = i
    BY <2>2 DEF Plan
  <2> HIDE DEF at, K
  <2> QED BY <2>1, <2>3
<1> HIDE DEF c, r, mk
<1>2. Amounts(fs, c, r, mk)
  BY <1>1 DEF Amounts
<1> QED BY <1>2

LEMMA MatchFillsPurses ==
    ASSUME Purses(held, cash), NEW taker \in Trader, NEW fs, Plan(fs), NEW h2, NEW c2, Clears(taker, fs, h2, c2)
    PROVE  Purses(h2, c2)
<1>1. PICK c, r, mk : Amounts(fs, c, r, mk)
  BY AmountsExist
<1>2. PICK w : w = SettleAll(taker, fs) /\ w.ok /\ h2 = w.held /\ c2 = w.cash
  BY DEF Clears
<1>3. SettledUp(w, taker, KeysTo(fs, Len(fs)), c, r, mk)
  BY <1>1, <1>2, SettlesUpAll
<1> QED BY <1>2, <1>3 DEF SettledUp

LEMMA PurseChanges ==
    ASSUME Purses(held, cash), NEW m, NEW a \in Int, NEW h2, h2 = [held EXCEPT ![m] = @ + a] \/ h2 = [held EXCEPT ![m] = @ - a]
    PROVE  Purses(h2, cash)
<1>1. held \in [Trader -> Int] /\ cash \in [Trader -> Int]
  BY DEF Purses
<1>2. h2 \in [Trader -> Int]
  BY <1>1
<1> QED BY <1>1, <1>2 DEF Purses

---------------------------------------------------------------------------
(* What a step does to the orders that rest, and to the purses *)

Grows == Stock(leaf) \subseteq Stock(leaf')
Withdraws == \E k, v : Withdrawn(k, v, leaf', held', cash')
Fills == \E taker \in Trader : \E fs : Plan(fs) /\ Moved(leaf', fs, Len(fs)) /\ Clears(taker, fs, held', cash')

LEMMA CancelWithdraws ==
    ASSUME BookInv, Purses(held, cash), NEW m \in Trader, NEW k \in Key, Cancel(m, Path(k), k)
    PROVE  Withdraws /\ Purses(held', cash')
<1> DEFINE l == Path(k)[height]
           v == ValueOf(leaf[l], k)
           a == Escrow(PriceOf(k), v.size)
           e == <<k, v>>
           h2 == held'
<1>1. /\ DeleteFast(Path(k), k) /\ v.maker = m /\ cash' = cash
      /\ held' = [held EXCEPT ![m] = @ + a]
  BY DEF Cancel, LeafOf
<1>2. e \in Stock(leaf) /\ Stock(leaf') = {g \in Stock(leaf) : g[1] # k}
  BY <1>1, DeleteKeepsMap DEF BookInv
<1>3. a \in Int
  <2>1. Ledger(Stock(leaf))
    BY MapShelved, ShelvedLedger DEF BookInv
  <2>2. Backing(e) \in Int
    BY <1>2, <2>1, BackingIsInt DEF Ledger
  <2> QED BY <2>2 DEF Backing
<1> HIDE DEF v, a, h2
<1>4. Withdrawn(k, v, leaf', held', cash')
  BY <1>1, <1>2 DEF Withdrawn, a
<1>5. h2 = [held EXCEPT ![m] = @ + a]
  BY <1>1 DEF h2
<1>6. Purses(h2, cash)
  BY <1>3, <1>5, PurseChanges
<1> QED BY <1>1, <1>4, <1>6 DEF Withdraws, h2

LEMMA PlacingGrows ==
    ASSUME BookInv, Purses(held, cash), NEW maker \in Trader, NEW p, NEW price \in Price, NEW size \in Size, NEW nonce \in Nonce,
           NEW from, NEW spares, Escrows(maker, price, size),
           Inserting(p, OrderKey(price, slot, maker, nonce), [maker |-> maker, size |-> size], from, spares)
    PROVE  Grows /\ Purses(held', cash')
<1> DEFINE k == OrderKey(price, slot, maker, nonce)
           v == [maker |-> maker, size |-> size]
           a == Escrow(price, size)
           h2 == held'
<1>1. k \in Key /\ v \in Val /\ a \in Int
  <2>1. k \in Key /\ v \in Val /\ price \in Nat /\ size \in Nat
    BY OrderAssumption, FieldAssumption DEF BookInv
  <2> QED BY <2>1 DEF Escrow
<1>2. Inserting(p, k, v, from, spares)
  OBVIOUS
<1>3. h2 = [held EXCEPT ![maker] = @ - a] /\ cash' = cash
  BY DEF Escrows
<1> HIDE DEF k, v, a, h2
<1>4. Grows
  BY <1>1, <1>2, InsertKeepsMap DEF BookInv, Grows
<1>5. Purses(h2, cash)
  BY <1>1, <1>3, PurseChanges
<1> QED BY <1>3, <1>4, <1>5 DEF h2

LEMMA NextPays ==
    ASSUME BookInv, Purses(held, cash), [BookNext]_allVars
    PROVE  Purses(held', cash') /\ (status = "open" => Grows \/ Withdraws \/ Fills)
<1>1. CASE SetsUp
  BY <1>1 DEF SetsUp, Seed, HandOver, InitMarket, bookVars
<1>2. CASE Makes
  <2>1. PICK m \in Trader, price \in Price, size \in Size, nonce \in Nonce, planned \in 0..MaxSlot :
          LET p == Path(OrderKey(price, planned, m, nonce))
          IN  \/ Place(m, p, price, size, nonce)
              \/ PlaceCold(m, p, price, size, nonce, highWater + 1, height + 2)
    BY <1>2 DEF Makes
  <2> DEFINE p == Path(OrderKey(price, planned, m, nonce))
             v == [maker |-> m, size |-> size]
             k == OrderKey(price, slot, m, nonce)
  <2>2. Escrows(m, price, size) /\ Inserting(p, k, v, highWater + 1, height + 2)
    BY <2>1 DEF Place, PlaceCold, Inserting
  <2> QED BY <2>2, PlacingGrows
<1>3. CASE Cancels
  BY <1>3, CancelWithdraws DEF Cancels
<1>4. CASE Takes
  <2>1. PICK t \in Trader, limit \in Price, size \in Size, max \in {1, MAXK} :
          \E groups \in BoundedSeq({Path(k) : k \in Key}, MaxLeaves) \ {<<>>} :
            LET fills == Sweep(limit, size, max, groups).fills
            IN  Match(t, limit, size, max, [j \in DOMAIN fills |-> fills[j].maker], groups)
    BY <1>4 DEF Takes
  <2>2. size \in Nat
    BY FieldAssumption
  <2>3. PICK fs : Plan(fs) /\ Moved(leaf', fs, Len(fs)) /\ Clears(t, fs, held', cash')
    BY <2>1, <2>2, MatchMoves
  <2>4. Purses(held', cash')
    BY <2>3, MatchFillsPurses
  <2> QED BY <2>3, <2>4 DEF Fills
<1>5. CASE Tick
  BY <1>5, MapStays DEF Tick, Grows, BookInv
<1>6. CASE UNCHANGED allVars
  BY <1>6 DEF allVars, vars, bookVars, Grows
<1> QED BY <1>1, <1>2, <1>3, <1>4, <1>5, <1>6 DEF BookNext

BookPays == BookInv /\ Purses(held, cash)

LEMMA BookPaysHolds == BookSpec => []BookPays
<1>1. BookInit => Purses(held, cash)
  BY FieldAssumption DEF BookInit, Purses
<1>2. BookPays /\ [BookNext]_allVars => Purses(held, cash)'
  BY NextPays DEF BookPays
<1> QED BY <1>1, <1>2, BookInvHolds, PTL DEF BookSpec, BookPays

(* Orders settle in full: whatever a step takes off the orders resting in  *)
(* an open market is either one order, cancelled, whose whole escrow goes  *)
(* back to its maker, or what one taker's fills took, where every maker    *)
(* is paid for its own orders at their own prices, the taker pays exactly  *)
(* the sum of that and gets exactly what the fills release; and no order   *)
(* changes hands.                                                          *)
THEOREM OrdersSettleInFullEver == BookSpec => OrdersSettleInFull
<1> DEFINE Showing == Shows(Book, leaf) /\ Ledger(Stock(leaf))
           P == status = "open" =>
                  LET old == Book
                      new == Book'
                      reduced == Reduced(old, new)
                      paid(m) == SumFunction([k \in {k \in reduced : old[k].maker = m} |->
                                                 Collect(PriceOf(k), Taken(old, new, k))])
                  IN  /\ \A k \in DOMAIN old \cap DOMAIN new : new[k].maker = old[k].maker
                      /\ reduced # {} =>
                          \/ \E k \in reduced :
                              /\ reduced = {k} /\ k \notin DOMAIN new
                              /\ cash' = cash
                              /\ held' = [held EXCEPT ![old[k].maker] = @ + Escrow(PriceOf(k), old[k].size)]
                          \/ \E taker \in Trader : \A m \in Trader :
                              /\ cash'[m] - cash[m] =
                                    paid(m) - (IF m = taker THEN SumFunction([x \in Trader |-> paid(x)]) ELSE 0)
                              /\ held'[m] - held[m] =
                                    IF m = taker
                                    THEN SumFunction([k \in reduced |-> Release(PriceOf(k), Taken(old, new, k))])
                                    ELSE 0
<1>1. BookPays => Showing
  BY BookIsStock, MapShelved, ShelvedLedger DEF BookPays, BookInv, Shows
<1>2. ASSUME BookPays, Showing, Showing', [BookNext]_allVars PROVE P
  <2> SUFFICES ASSUME status = "open" PROVE P
    OBVIOUS
  <2> DEFINE b == Book
             lf == leaf'
             nb == Book'
             h2 == held'
             c2 == cash'
  <2>1. Shows(b, leaf) /\ Ledger(Stock(leaf)) /\ Shows(nb, lf) /\ Ledger(Stock(lf)) /\ Purses(held, cash)
    BY <1>2 DEF Shows, Stock, Ledger, KeysIn, IsEntry, BookPays
  <2>2. Grows \/ Withdraws \/ Fills
    BY <1>2, NextPays DEF BookPays
  <2>3. \/ Stock(leaf) \subseteq Stock(lf)
        \/ \E k, v : Withdrawn(k, v, lf, h2, c2)
        \/ \E taker \in Trader : \E fs : Plan(fs) /\ Moved(lf, fs, Len(fs)) /\ Clears(taker, fs, h2, c2)
    BY <2>2 DEF Grows, Withdraws, Fills, Stock
  <2> HIDE DEF b, lf, nb, h2, c2
  <2>4. InFull(b, nb, held, cash, h2, c2)
    BY <2>1, <2>3, GrowthInFull, WithdrawalInFull, MatchInFull
  <2> QED BY <2>4 DEF InFull, MakersKept, GoneBack, PaidFor, PaidTo, PaidOut, Released, b, nb, h2, c2
<1>3. BookPays /\ Showing /\ Showing' /\ [BookNext]_allVars => [P]_allVars
  BY <1>2
<1> HIDE DEF Showing
<1>4. BookSpec => [][P]_allVars
  BY <1>1, <1>3, BookPaysHolds, PTL DEF BookSpec
<1> QED BY <1>4 DEF OrdersSettleInFull
=============================================================================
