------------------------------ MODULE TornaTree ------------------------------
(***************************************************************************)
(* The on-chain engine, src/sbf/src/torna/torna.c: one B+ tree, its header *)
(* and its allocator, under the instructions that read and write it.       *)
(*                                                                         *)
(* A transaction is atomic: a handler that returns an error changes        *)
(* nothing, so an action is the successful run of one whole handler and    *)
(* every early return is a conjunct of its guard.  The accounts a client   *)
(* passes are parameters: the path p (node indices from root to leaf), the *)
(* first index its spare accounts were derived for and how many there are, *)
(* and the sibling sides and accounts of a Delete.  They were chosen off   *)
(* chain, perhaps long ago; TornaClient supplies stale ones.               *)
(*                                                                         *)
(* Who may sign is TornaAuth's subject.  Bounds for TLC: MaxNodes on the   *)
(* allocator's counter, MaxEpoch on the structure epoch.                   *)
(***************************************************************************)
EXTENDS TornaNode

CONSTANTS F,         \* fanout: keys a node holds at rest
          Key, Val,
          MaxNodes,  \* bound: node indices ever allocated
          MaxEpoch,  \* bound: structure_epoch
          MaxBatch   \* bound: entries of a batch insert

ASSUME FanoutAssumption == F \in 4..256
ASSUME KeyAssumption == Key \subseteq Nat
ASSUME BoundAssumption == MaxNodes \in Nat /\ MaxEpoch \in Nat /\ MaxBatch \in Nat

VARIABLES root, height,           \* header: root index and height, 0 when empty
          leftmost, rightmost,    \* header: ends of the leaf chain
          epoch,                  \* header: structure_epoch
          highWater,              \* allocator: node_high_water
          inner,                  \* live internal nodes, by index
          leaf                    \* live leaves, by index

header == <<root, height, leftmost, rightmost, epoch>>
vars == <<root, height, leftmost, rightmost, epoch, highWater, inner, leaf>>

MAX_TREE_HEIGHT == 32
MINK == F \div 2
NoNodes == [n \in {} |-> 0]

(* A node map without the closed account n: its data is zeroed and the     *)
(* runtime collects it.                                                    *)
Closed(nodes, n) == Restrict(nodes, DOMAIN nodes \ {n})
With(nodes, n, node) == [m \in DOMAIN nodes \cup {n} |-> IF m = n THEN node ELSE nodes[m]]

(* A fresh tree, as InitTree leaves it. *)
Init ==
    /\ root = 0 /\ height = 0 /\ leftmost = 0 /\ rightmost = 0
    /\ epoch = 0 /\ highWater = 0
    /\ inner = NoNodes /\ leaf = NoNodes

(* Every instruction that may restructure the tree bumps the epoch, which  *)
(* is how a client learns that a path it resolved is stale.                *)
BumpEpochOnGrowth ==
    /\ epoch < MaxEpoch
    /\ epoch' = IF height' > height THEN epoch + 1 ELSE epoch

BumpEpoch ==
    /\ epoch < MaxEpoch
    /\ epoch' = epoch + 1

---------------------------------------------------------------------------
(* Descent *)

(* A descent that trusts the accounts it is given. *)
DescendsOnTrust(p, k) == height > 0 /\ Len(p) = height /\ p[height] \in DOMAIN leaf

(* The checks of a descent for k over the accounts p: path_len = height,   *)
(* and each account is the very node its parent routes k to.               *)
Descends(p, k) ==
    /\ height > 0 /\ Len(p) = height /\ p[1] = root
    /\ \A i \in 1..height - 1 : p[i + 1] = ChildFor(inner[p[i]], k)

(* path_routes_to_leaf: the re-check of a batch's last key on a path       *)
(* already descended with its first.                                       *)
RoutesAlong(p, k) == \A i \in 1..height - 1 : p[i + 1] = ChildFor(inner[p[i]], k)

(* The path a client that reads the current tree finds for k. *)
Path(k) ==
    LET node[i \in 1..height] == IF i = 1 THEN root ELSE ChildFor(inner[node[i - 1]], k)
    IN  [i \in 1..height |-> node[i]]

LeafOf(p) == leaf[p[height]]

---------------------------------------------------------------------------
(* Fast path: the header is read-only and only the leaf is written. *)

InsertFast(p, k, v) ==
    /\ Descends(p, k)
    /\ KeyCount(LeafOf(p)) < F
    /\ ~HasKey(LeafOf(p), k)
    /\ leaf' = [leaf EXCEPT ![p[height]] = LeafInsert(@, k, v)]
    /\ UNCHANGED <<header, highWater, inner>>

UpdateFast(p, k, v) ==
    /\ Descends(p, k)
    /\ HasKey(LeafOf(p), k)
    /\ leaf' = [leaf EXCEPT ![p[height]] = LeafUpdate(@, k, v)]
    /\ UNCHANGED <<header, highWater, inner>>

(* An absent key is a success that changes nothing. *)
DeleteFast(p, k) ==
    /\ Descends(p, k)
    /\ HasKey(LeafOf(p), k)
    /\ leaf' = [leaf EXCEPT ![p[height]] = LeafDelete(@, k)]
    /\ UNCHANGED <<header, highWater, inner>>

(* n after the first i of ks are stored, for each i; and after all of them. *)
InsertAll(n, ks, v) ==
    LET after[i \in 0..Len(ks)] == IF i = 0 THEN n ELSE LeafInsert(after[i - 1], ks[i], v)
    IN  after[Len(ks)]

(* One leaf's share of a batch: it fits, its first and last keys route to  *)
(* the leaf, it ascends, and it holds none of the stored keys.             *)
FitsUnrouted(p, ks) ==
    /\ Descends(p, Head(ks))
    /\ KeyCount(LeafOf(p)) + Len(ks) <= F
    /\ Ascending(ks)
    /\ \A i \in DOMAIN ks : ~HasKey(LeafOf(p), ks[i])

Fits(p, ks) ==
    /\ Descends(p, Head(ks))
    /\ KeyCount(LeafOf(p)) + Len(ks) <= F
    /\ RoutesAlong(p, Last(ks))
    /\ Ascending(ks)
    /\ \A i \in DOMAIN ks : ~HasKey(LeafOf(p), ks[i])

BulkInsertFast(p, ks, v) ==
    /\ Fits(p, ks)
    /\ leaf' = [leaf EXCEPT ![p[height]] = InsertAll(@, ks, v)]
    /\ UNCHANGED <<header, highWater, inner>>

(* The leaves after each of the batches. *)
WriteBatches(ps, batches, v) ==
    LET after[b \in 0..Len(batches)] ==
            IF b = 0 THEN leaf
            ELSE [after[b - 1] EXCEPT ![ps[b][height]] = InsertAll(@, batches[b], v)]
    IN  after[Len(batches)]

(* Batches for chain neighbours: every leaf is checked before any is       *)
(* written, and each leaf must be the next one of the leaf before it.      *)
MultiLeafInsertFast(ps, batches, v) ==
    /\ \A b \in DOMAIN batches :
        /\ Fits(ps[b], batches[b])
        /\ b > 1 => /\ LeafOf(ps[b - 1]).next = ps[b][height]
                    /\ Last(batches[b - 1]) < Head(batches[b])
    /\ leaf' = WriteBatches(ps, batches, v)
    /\ UNCHANGED <<header, highWater, inner>>

---------------------------------------------------------------------------
(* Cold Insert *)

(* Node slots a cold Insert consumes: canonical PDAs from highWater + 1 on. *)
HasSpares(from, spares, used) ==
    /\ used > 0 => from = highWater + 1
    /\ used <= spares
    /\ highWater + used <= MaxNodes

(* The first insert allocates the leaf root. *)
InsertFirst(k, v, from, spares) ==
    /\ height = 0
    /\ HasSpares(from, spares, 1)
    /\ highWater' = highWater + 1
    /\ leaf' = With(leaf, highWater + 1, [keys |-> <<k>>, vals |-> <<v>>, next |-> 0])
    /\ root' = highWater + 1 /\ height' = 1
    /\ leftmost' = highWater + 1 /\ rightmost' = highWater + 1
    /\ BumpEpoch
    /\ UNCHANGED inner

(* Room in the leaf: a plain insert, with no change of structure. *)
InsertRoom(p, k, v) ==
    /\ Descends(p, k)
    /\ ~HasKey(LeafOf(p), k)
    /\ KeyCount(LeafOf(p)) < F
    /\ leaf' = [leaf EXCEPT ![p[height]] = LeafInsert(@, k, v)]
    /\ UNCHANGED <<header, highWater, inner>>

(* One level of the separator's way up.  `up' is the loop's state: the     *)
(* internal nodes so far, the separator and right node to hang on this     *)
(* level, the allocator's counter, and whether the loop still runs.        *)
HangSeparator(n, up) ==
    IF ~up.rising THEN up
    ELSE LET node == InternalInsertAt(up.inner[n], LowerBound(up.inner[n].keys, up.sep),
                                      up.sep, up.right)
         IN  IF KeyCount(node) <= F
             THEN [up EXCEPT !.inner[n] = node, !.rising = FALSE]
             ELSE LET halves == InternalSplit(node)
                  IN  [rising |-> TRUE, sep |-> halves.sep, right |-> up.used + 1,
                       used |-> up.used + 1,
                       inner |-> With([up.inner EXCEPT ![n] = halves.left],
                                      up.used + 1, halves.right)]

(* The loop, from the leaf's parent p[height - 1] up to the root p[1]. *)
Propagate(p, sep) ==
    LET at[i \in 1..height] ==
            IF i = height
            THEN [rising |-> TRUE, sep |-> sep, right |-> highWater + 1,
                  used |-> highWater + 1, inner |-> inner]
            ELSE HangSeparator(p[i], at[i + 1])
    IN  at[1]

(* node_high_water once the separator has settled: a new root takes one    *)
(* more slot.                                                              *)
SlotsOnGrowthOnly(up) == IF up.rising THEN up.used + 1 ELSE highWater

SlotsOf(up) == IF up.rising THEN up.used + 1 ELSE up.used

(* The new right leaf takes the old one's place in the chain. *)
SplitChainUnlinked(l, halves) ==
    With([leaf EXCEPT ![l] = halves.left], highWater + 1,
         [halves.right EXCEPT !.next = leaf[l].next])

SplitChain(l, halves) ==
    With([leaf EXCEPT ![l] = [halves.left EXCEPT !.next = highWater + 1]], highWater + 1,
         [halves.right EXCEPT !.next = leaf[l].next])

InsertSplit(p, k, v, from, spares) ==
    /\ Descends(p, k)
    /\ ~HasKey(LeafOf(p), k)
    /\ KeyCount(LeafOf(p)) = F
    /\ LET halves == LeafSplit(LeafInsert(LeafOf(p), k, v))
           up     == Propagate(p, halves.sep)
           used   == SlotsOf(up)
       IN  /\ HasSpares(from, spares, used - highWater)
           /\ up.rising => height < MAX_TREE_HEIGHT
           /\ highWater' = used
           /\ leaf' = SplitChain(p[height], halves)
           /\ rightmost' = IF LeafOf(p).next = 0 THEN highWater + 1 ELSE rightmost
           /\ inner' = IF up.rising
                       THEN With(up.inner, used, [keys |-> <<up.sep>>, kids |-> <<root, up.right>>])
                       ELSE up.inner
           /\ root' = IF up.rising THEN used ELSE root
           /\ height' = IF up.rising THEN height + 1 ELSE height
    /\ BumpEpoch
    /\ UNCHANGED leftmost

Insert(p, k, v, from, spares) ==
    /\ Len(p) = height
    /\ \/ InsertFirst(k, v, from, spares)
       \/ InsertRoom(p, k, v)
       \/ InsertSplit(p, k, v, from, spares)

---------------------------------------------------------------------------
(* Rebalancing Delete *)

IndexOf(kids, n) == CHOOSE i \in DOMAIN kids : kids[i] = n

(* The sibling accounts a client that reads the current tree passes: the   *)
(* neighbour of p[i] on the chosen side (1 right, 2 left), 0 if none.      *)
Siblings(p, sides) ==
    [i \in 1..Len(p) |->
        IF i = 1 \/ sides[i] = 0 THEN 0
        ELSE LET kids == inner[p[i - 1]].kids
                 j == IndexOf(kids, p[i]) + (IF sides[i] = 1 THEN 1 ELSE -1)
             IN  IF j \in DOMAIN kids THEN kids[j] ELSE 0]

(* Separator s of parent par stands between kids s and s + 1.  One of the  *)
(* two lends the other an entry (side 1: the right lends) ...              *)
Borrow(t, par, s, side) ==
    LET l == t.inner[par].kids[s]
        r == t.inner[par].kids[s + 1]
        sep == t.inner[par].keys[s]
    IN  IF l \in DOMAIN t.leaf
        THEN LET h == IF side = 1 THEN LeafBorrowFromRight(t.leaf[l], t.leaf[r])
                                  ELSE LeafBorrowFromLeft(t.leaf[l], t.leaf[r])
             IN  [t EXCEPT !.leaf[l] = h.left, !.leaf[r] = h.right, !.inner[par].keys[s] = h.sep]
        ELSE LET h == IF side = 1 THEN InternalBorrowFromRight(t.inner[l], t.inner[r], sep)
                                  ELSE InternalBorrowFromLeft(t.inner[l], t.inner[r], sep)
             IN  [t EXCEPT !.inner[l] = h.left, !.inner[r] = h.right, !.inner[par].keys[s] = h.sep]

(* ... or the right one is folded into the left and closed. *)
Merge(t, par, s) ==
    LET l == t.inner[par].kids[s]
        r == t.inner[par].kids[s + 1]
        shrunk == [t.inner EXCEPT ![par] = InternalRemoveAt(@, s)]
    IN  IF l \in DOMAIN t.leaf
        THEN LET merged == LeafMerge(t.leaf[l], t.leaf[r])
             IN  [t EXCEPT !.leaf = Closed([@ EXCEPT ![l] = merged], r),
                           !.rightmost = IF merged.next = 0 THEN l ELSE @,
                           !.inner = shrunk]
        ELSE LET merged == InternalMergeRight(t.inner[l], t.inner[r], t.inner[par].keys[s])
             IN  [t EXCEPT !.inner = Closed([shrunk EXCEPT ![l] = merged], r)]

CountWithSibling(t, n) == IF n \in DOMAIN t.leaf THEN KeyCount(t.leaf[n]) ELSE Len(t.inner[n].kids)

CountAt(t, n) == IF n \in DOMAIN t.leaf THEN KeyCount(t.leaf[n]) ELSE KeyCount(t.inner[n])

(* One level of the cascade, at p[i]: stop if it has enough keys, fail if  *)
(* no true sibling was passed, else borrow and stop, or merge and go on.   *)
Rebalance(p, sides, sibs, i, t) ==
    LET par  == p[i - 1]
        kids == t.inner[par].kids
        our  == IndexOf(kids, p[i])
        sib  == IF sides[i] = 1 THEN our + 1 ELSE our - 1
        s    == IF sides[i] = 1 THEN our ELSE sib
    IN  IF t.state # "rising" THEN t
        ELSE IF CountAt(t, p[i]) >= MINK THEN [t EXCEPT !.state = "done"]
        ELSE IF sides[i] = 0 \/ sib \notin DOMAIN kids THEN [t EXCEPT !.state = "refused"]
        ELSE IF kids[sib] # sibs[i] THEN [t EXCEPT !.state = "refused"]
        ELSE IF CountAt(t, sibs[i]) > MINK
             THEN [Borrow(t, par, s, sides[i]) EXCEPT !.state = "done"]
        ELSE Merge(t, par, s)

(* The loop, from the leaf p[height] up to the root's child p[2]. *)
Cascade(p, sides, sibs, k) ==
    LET at[i \in 2..height + 1] ==
            IF i = height + 1
            THEN [inner |-> inner, leaf |-> [leaf EXCEPT ![p[height]] = LeafDelete(@, k)],
                  rightmost |-> rightmost, state |-> "rising"]
            ELSE Rebalance(p, sides, sibs, i, at[i + 1])
    IN  at[2]

Delete(p, k, sides, sibs) ==
    /\ Descends(p, k)
    /\ HasKey(LeafOf(p), k)
    /\ LET t         == Cascade(p, sides, sibs, k)
           collapses == height > 1 /\ t.inner[root].keys = <<>>
           empties   == height = 1 /\ KeyCount(t.leaf[root]) = 0
       IN  /\ t.state # "refused"
           /\ root' = IF collapses THEN t.inner[root].kids[1] ELSE IF empties THEN 0 ELSE root
           /\ height' = IF collapses \/ empties THEN height - 1 ELSE height
           /\ leftmost' = IF empties THEN 0 ELSE leftmost
           /\ rightmost' = IF empties THEN 0 ELSE t.rightmost
           /\ inner' = IF collapses THEN Closed(t.inner, root) ELSE t.inner
           /\ leaf' = IF empties THEN Closed(t.leaf, root) ELSE t.leaf
    /\ BumpEpoch
    /\ UNCHANGED highWater

(* Reclaim the empty leftmost leaf.  The parent must have a key to spare:  *)
(* there is no cascade here.                                               *)
CompactLeaf(p) ==
    /\ height >= 2 /\ Len(p) = height /\ p[1] = root
    /\ \A i \in 1..height - 1 : p[i + 1] = Head(inner[p[i]].kids)
    /\ p[height] = leftmost
    /\ KeyCount(LeafOf(p)) = 0
    /\ KeyCount(inner[p[height - 1]]) > MINK
    /\ inner' = [inner EXCEPT ![p[height - 1]] = InternalRemoveFirst(@)]
    /\ leftmost' = LeafOf(p).next
    /\ leaf' = Closed(leaf, p[height])
    /\ BumpEpoch
    /\ UNCHANGED <<root, height, rightmost, highWater>>

(* The all-kids[0] path. *)
LeftmostPath ==
    LET node[i \in 1..height] == IF i = 1 THEN root ELSE Head(inner[node[i - 1]].kids)
    IN  [i \in 1..height |-> node[i]]

---------------------------------------------------------------------------
(* Reads *)

(* The key Find reports for k along p: its entry, or nothing. *)
Find(p, k) == IF height > 0 /\ HasKey(LeafOf(p), k) THEN <<ValueOf(LeafOf(p), k)>> ELSE <<>>

Entries(n) == [i \in DOMAIN n.keys |-> <<n.keys[i], n.vals[i]>>]

(* A scan from start to end over the leaves `chain', the first of which is *)
(* the one start routes to.  Forward, each later account must be the next  *)
(* of the one before; in reverse, the one before must be its next.  The    *)
(* scan ends at the first key past end, at max entries, or when the        *)
(* accounts run out.                                                       *)
ForwardChain(chain) == \A i \in 1..Len(chain) - 1 : leaf[chain[i]].next = chain[i + 1]
ReverseChain(chain) == \A i \in 1..Len(chain) - 1 : leaf[chain[i + 1]].next = chain[i]

Take(s, max) == SubSeq(s, 1, IF Len(s) < max THEN Len(s) ELSE max)

ScanForward(chain, start, end, max) ==
    LET first == Entries(leaf[chain[1]])
        rest  == FlattenSeq([i \in 1..Len(chain) - 1 |-> Entries(leaf[chain[i + 1]])])
        all   == From(first, LowerBound(leaf[chain[1]].keys, start)) \o rest
        stop  == SelectInSeq(all, LAMBDA e : e[1] > end)
    IN  Take(IF stop = 0 THEN all ELSE UpTo(all, stop - 1), max)

ScanReverse(chain, start, end, max) ==
    LET n     == leaf[chain[1]]
        at    == IF HasKey(n, start) THEN LowerBound(n.keys, start) ELSE LowerBound(n.keys, start) - 1
        rest  == FlattenSeq([i \in 1..Len(chain) - 1 |-> Reverse(Entries(leaf[chain[i + 1]]))])
        all   == Reverse(UpTo(Entries(n), at)) \o rest
        stop  == SelectInSeq(all, LAMBDA e : e[1] < end)
    IN  Take(IF stop = 0 THEN all ELSE UpTo(all, stop - 1), max)

---------------------------------------------------------------------------
(* Every instruction under the accounts a client reading the current tree  *)
(* would pass, and every choice of sibling sides. *)

Batches == {ks \in BoundedSeq(Key, MaxBatch) : ks # <<>>}

Next ==
    \/ \E k \in Key, v \in Val :
        \/ InsertFast(Path(k), k, v)
        \/ UpdateFast(Path(k), k, v)
        \/ Insert(Path(k), k, v, highWater + 1, height + 2)
    \/ \E k \in Key :
        \/ DeleteFast(Path(k), k)
        \/ \E sides \in [1..height -> 0..2] :
                /\ height > 0 => sides[1] = 0
                /\ Delete(Path(k), k, sides, Siblings(Path(k), sides))
    \/ CompactLeaf(LeftmostPath)
    \/ \E ks \in Batches, v \in Val : BulkInsertFast(Path(Head(ks)), ks, v)
    \/ \E ks \in Batches, v \in Val : \E cut \in 1..Len(ks) - 1 :
        LET batches == <<UpTo(ks, cut), From(ks, cut + 1)>>
        IN  MultiLeafInsertFast([b \in 1..2 |-> Path(Head(batches[b]))], batches, v)

Spec == Init /\ [][Next]_vars

---------------------------------------------------------------------------
(* Properties *)

(* The nodes at depth i, left to right. *)
Row(i) ==
    LET row[j \in 1..i] ==
            IF j = 1 THEN <<root>>
            ELSE FlattenSeq([m \in DOMAIN row[j - 1] |-> inner[row[j - 1][m]].kids])
    IN  row[i]

(* The set of nodes at depth i. *)
Depth(i) ==
    LET at[j \in 1..i] ==
            IF j = 1 THEN {root} ELSE UNION {Range(inner[n].kids) : n \in at[j - 1]}
    IN  at[i]

(* Splits, merges, collapses and compaction leave neither an orphan nor a  *)
(* dangling child: the live accounts are exactly the nodes the root        *)
(* reaches, each of one kind and the child of one node once, with all      *)
(* leaves at depth height.                                                 *)
NoOrphanNoDangling ==
    IF height = 0 THEN inner = NoNodes /\ leaf = NoNodes
    ELSE /\ UNION {Depth(i) : i \in 1..height - 1} = DOMAIN inner
         /\ Depth(height) = DOMAIN leaf
         /\ DOMAIN inner \cap DOMAIN leaf = {}
         /\ \A m, n \in DOMAIN inner : \A i \in DOMAIN inner[m].kids, j \in DOMAIN inner[n].kids :
                /\ inner[m].kids[i] # root
                /\ inner[m].kids[i] = inner[n].kids[j] => m = n /\ i = j

(* Occupancy at rest.  DeleteFast may drain a leaf, so leaves have no      *)
(* lower bound; an internal node other than the root keeps MINK keys,      *)
(* through merges that borrow from drained leaves and through CompactLeaf. *)
Occupancy ==
    /\ \A n \in DOMAIN leaf : KeyCount(leaf[n]) <= F
    /\ \A n \in DOMAIN inner :
        /\ KeyCount(inner[n]) \in (IF n = root THEN 1 ELSE MINK)..F
        /\ Len(inner[n].kids) = KeyCount(inner[n]) + 1

(* The search tree: every node ascends, and every stored key is in the     *)
(* leaf a descent for it ends at.                                          *)
SearchTree ==
    /\ \A n \in DOMAIN inner : Ascending(inner[n].keys)
    /\ \A n \in DOMAIN leaf :
        /\ Ascending(leaf[n].keys)
        /\ \A k \in Range(leaf[n].keys) : Path(k)[height] = n

(* The forward chain, which matching and scans walk, is the leaf row: it   *)
(* starts at leftmost, ends at rightmost, and skips no leaf, whatever      *)
(* splits, merges and compaction did to it.                                *)
ChainIsLeafRow ==
    height > 0 =>
        LET row == Row(height)
        IN  /\ leftmost = Head(row) /\ rightmost = Last(row)
            /\ \A i \in DOMAIN row :
                leaf[row[i]].next = IF i = Len(row) THEN 0 ELSE row[i + 1]

(* Node indices are never reused: the allocator never steps back, and an   *)
(* account that comes to life has an index above every earlier one, so a   *)
(* stale path can never name a different node than the one it was read as. *)
IndicesNeverReused ==
    [][/\ highWater' >= highWater
       /\ (DOMAIN inner' \cup DOMAIN leaf') \ (DOMAIN inner \cup DOMAIN leaf)
             \subseteq highWater + 1..highWater']_vars

(* The bisection of node.h, on which every descent, insert and lookup      *)
(* rests, finds the lower bound of every key in every node that occurs.    *)
BisectionIsLowerBound ==
    \A n \in Range(inner) \cup Range(leaf) : \A k \in Key :
        Bisect(n.keys, k) = LowerBound(n.keys, k)

(* The map a reader sees through Find. *)
Contents ==
    LET seen == [k \in Key |-> Find(Path(k), k)]
    IN  [k \in {k \in Key : seen[k] # <<>>} |-> Head(seen[k])]

(* Every instruction is a map operation, or nothing, to a reader that      *)
(* descends: no rebalancing loses, duplicates, revalues or hides a key.    *)
Map == INSTANCE OrderedMap WITH dict <- Contents
ImplementsMap == Map!Spec

(* A scan given every chain account returns exactly the stored entries     *)
(* between its ends, in its order, across drained leaves as well: all of   *)
(* them, or the first max.                                                 *)
Between(map, lo, hi) == {<<k, map[k]>> : k \in {k \in DOMAIN map : lo <= k /\ k <= hi}}

Before(j, k, up) == IF up THEN j < k ELSE k < j

Lists(s, entries, up, max) ==
    /\ Len(s) <= max /\ Range(s) \subseteq entries
    /\ \A i, j \in DOMAIN s : i < j => Before(s[i][1], s[j][1], up)
    /\ \A e \in entries \ Range(s) :
            Len(s) = max /\ \A i \in DOMAIN s : Before(s[i][1], e[1], up)

ScansAreExact ==
    LET map == Contents
        row == Row(height)
        at == [k \in Key |-> CHOOSE i \in DOMAIN row : row[i] = Path(k)[height]]
    IN  height > 0 => \A lo, hi \in Key, max \in {2, 100} : lo <= hi =>
            LET ahead == From(row, at[lo])
                back == Reverse(UpTo(row, at[hi]))
            IN  /\ ForwardChain(ahead) /\ ReverseChain(back)
                /\ Lists(ScanForward(ahead, lo, hi, max), Between(map, lo, hi), TRUE, max)
                /\ Lists(ScanReverse(back, hi, lo, max), Between(map, lo, hi), FALSE, max)
=============================================================================
