----------------------------- MODULE TornaNode -----------------------------
(***************************************************************************)
(* The node operations of src/node.h: pure functions from node values to   *)
(* node values, with no tree around them.                                  *)
(*                                                                         *)
(* A leaf is [keys, vals, next] and an internal node is [keys, kids], with *)
(* Len(kids) = Len(keys) + 1.  The C arrays count from 0 and the sequences *)
(* from 1, so C position i is position i + 1 here; the length of `keys' is *)
(* the header's key_count.  Keys are naturals: all that key_cmp gives the  *)
(* program is their order.                                                 *)
(***************************************************************************)
EXTENDS Integers, FiniteSets, SequencesExt

KeyCount(n) == Len(n.keys)

Ascending(ks) == \A i \in 1..Len(ks) - 1 : ks[i] < ks[i + 1]

(* First position with keys[i] >= key; Len + 1 if there is none. *)
LowerBound(keys, k) == Cardinality({i \in DOMAIN keys : keys[i] < k}) + 1

(* The bisection the C code runs: on every ascending array it returns      *)
(* LowerBound (TornaNodeProofs!BisectionFindsLowerBound).                  *)
Bisect(keys, k) ==
    LET search[r \in (0..Len(keys)) \X (0..Len(keys))] ==
            LET mid == (r[1] + r[2]) \div 2
            IN  IF r[1] >= r[2] THEN r[1]
                ELSE IF keys[mid + 1] < k THEN search[<<mid + 1, r[2]>>] ELSE search[<<r[1], mid>>]
    IN  search[<<0, Len(keys)>>] + 1

HasKey(n, k) == LET i == LowerBound(n.keys, k)
                IN  i <= KeyCount(n) /\ n.keys[i] = k

(* The value stored under a key that HasKey. *)
ValueOf(n, k) == n.vals[LowerBound(n.keys, k)]

---------------------------------------------------------------------------
(* Leaf operations.  The C functions return NODE_DUPLICATE_KEY or          *)
(* NODE_KEY_NOT_FOUND where HasKey says otherwise; callers guard with it.  *)

LeafInsert(n, k, v) ==
    LET i == LowerBound(n.keys, k)
    IN  [n EXCEPT !.keys = InsertAt(@, i, k), !.vals = InsertAt(@, i, v)]

LeafDelete(n, k) ==
    LET i == LowerBound(n.keys, k)
    IN  [n EXCEPT !.keys = RemoveAt(@, i), !.vals = RemoveAt(@, i)]

LeafUpdate(n, k, v) == [n EXCEPT !.vals[LowerBound(n.keys, k)] = v]

UpTo(s, n) == SubSeq(s, 1, n)
From(s, n) == SubSeq(s, n, Len(s))

(* The left part keeps half = total / 2 entries and the separator is the   *)
(* first key of the right part, which stays stored there.                  *)
LeafSplit(n) ==
    LET half == KeyCount(n) \div 2
    IN  [left  |-> [n EXCEPT !.keys = UpTo(@, half), !.vals = UpTo(@, half)],
         right |-> [keys |-> From(n.keys, half + 1), vals |-> From(n.vals, half + 1), next |-> 0],
         sep   |-> n.keys[half + 1]]

LeafBorrowFromRightOldSep(left, right) ==
    [left  |-> [left EXCEPT !.keys = Append(@, Head(right.keys)),
                            !.vals = Append(@, Head(right.vals))],
     right |-> [right EXCEPT !.keys = Tail(@), !.vals = Tail(@)],
     sep   |-> Head(right.keys)]

(* One entry moves from the sibling; the new separator is right's first.   *)
LeafBorrowFromRight(left, right) ==
    [left  |-> [left EXCEPT !.keys = Append(@, Head(right.keys)),
                            !.vals = Append(@, Head(right.vals))],
     right |-> [right EXCEPT !.keys = Tail(@), !.vals = Tail(@)],
     sep   |-> right.keys[2]]

LeafBorrowFromLeft(left, right) ==
    [left  |-> [left EXCEPT !.keys = Front(@), !.vals = Front(@)],
     right |-> [right EXCEPT !.keys = <<Last(left.keys)>> \o @,
                             !.vals = <<Last(left.vals)>> \o @],
     sep   |-> Last(left.keys)]

LeafMergeForgetChain(left, right) ==
    [left EXCEPT !.keys = @ \o right.keys, !.vals = @ \o right.vals]

LeafMerge(left, right) ==
    [left EXCEPT !.keys = @ \o right.keys, !.vals = @ \o right.vals, !.next = right.next]

---------------------------------------------------------------------------
(* Internal operations. *)

InternalInsertAt(n, i, sep, kid) ==
    [keys |-> InsertAt(n.keys, i, sep), kids |-> InsertAt(n.kids, i + 1, kid)]

(* The middle key moves up: neither half keeps it. *)
InternalSplit(n) ==
    LET mid == KeyCount(n) \div 2
    IN  [left  |-> [keys |-> UpTo(n.keys, mid), kids |-> UpTo(n.kids, mid + 1)],
         right |-> [keys |-> From(n.keys, mid + 2), kids |-> From(n.kids, mid + 2)],
         sep   |-> n.keys[mid + 1]]

InternalRemoveLeftKid(n, i) == [keys |-> RemoveAt(n.keys, i), kids |-> RemoveAt(n.kids, i)]

InternalRemoveAt(n, i) == [keys |-> RemoveAt(n.keys, i), kids |-> RemoveAt(n.kids, i + 1)]

InternalRemoveFirst(n) == [keys |-> Tail(n.keys), kids |-> Tail(n.kids)]

(* A rotation through the parent: sep is the parent's separator, and the   *)
(* result's sep replaces it.                                               *)
InternalBorrowFromRight(left, right, sep) ==
    [left  |-> [keys |-> Append(left.keys, sep), kids |-> Append(left.kids, Head(right.kids))],
     right |-> InternalRemoveFirst(right),
     sep   |-> Head(right.keys)]

InternalBorrowFromLeft(left, right, sep) ==
    [left  |-> [keys |-> Front(left.keys), kids |-> Front(left.kids)],
     right |-> [keys |-> <<sep>> \o right.keys, kids |-> <<Last(left.kids)>> \o right.kids],
     sep   |-> Last(left.keys)]

InternalMergeRight(left, right, sep) ==
    [keys |-> Append(left.keys, sep) \o right.keys, kids |-> left.kids \o right.kids]

(* Descent: an equal separator sends the key right. *)
ChildFor(n, k) == IF HasKey(n, k) THEN n.kids[LowerBound(n.keys, k) + 1]
                                  ELSE n.kids[LowerBound(n.keys, k)]
=============================================================================
