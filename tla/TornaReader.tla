----------------------------- MODULE TornaReader -----------------------------
(***************************************************************************)
(* The off-chain reads of ts-sdk/src/index.ts, `get', `scan' and `best',   *)
(* against a tree that is written meanwhile.  Each account is fetched by a *)
(* call of its own: a read is a walk through states of different ages.     *)
(*                                                                         *)
(* The writers are a market's: its trees belong to a program address that  *)
(* signs only the fast instructions and Insert, so no leaf is ever closed. *)
(***************************************************************************)
EXTENDS TornaTree

CONSTANT Limits      \* the entry limits a scan is called with; `best' is 1

VARIABLES phase,     \* idle; header, descend, leaf for a get; chain for a scan; done
          read,      \* the walk: what it looks for, where it is, what it found
          throughout \* history: the keys stored at every moment since it began

readVars == <<phase, read, throughout>>
allVars == <<vars, readVars>>

NoRead == [kind |-> "scan", key |-> 0, max |-> 0, height |-> 0, at |-> 0, depth |-> 0, out |-> <<>>]

Stored == UNION {Range(leaf[n].keys) : n \in DOMAIN leaf}

ReaderInit == Init /\ phase = "idle" /\ read = NoRead /\ throughout = {}

(* get reads the header, and the empty tree ends it at once.  path reads   *)
(* the header again and starts at the root it finds there.                 *)
BeginGet(k) ==
    /\ phase = "idle"
    /\ read' = [NoRead EXCEPT !.kind = "get", !.key = k]
    /\ phase' = IF height = 0 THEN "done" ELSE "header"
    /\ throughout' = Stored
    /\ UNCHANGED vars

ReadHeader ==
    /\ phase = "header"
    /\ read' = [read EXCEPT !.height = height, !.at = root, !.depth = 1]
    /\ phase' = IF height = 0 THEN "done" ELSE IF height = 1 THEN "leaf" ELSE "descend"
    /\ UNCHANGED <<vars, throughout>>

DescendOnce ==
    /\ phase = "descend"
    /\ IF read.at \in DOMAIN inner
       THEN /\ read' = [read EXCEPT !.at = ChildFor(inner[@], read.key), !.depth = @ + 1]
            /\ phase' = IF read.depth + 1 = read.height THEN "leaf" ELSE "descend"
       ELSE phase' = "done" /\ UNCHANGED read
    /\ UNCHANGED <<vars, throughout>>

ReadLeaf ==
    /\ phase = "leaf"
    /\ phase' = "done"
    /\ read' = IF read.at \in DOMAIN leaf /\ HasKey(leaf[read.at], read.key)
               THEN [read EXCEPT !.out = <<read.key>>] ELSE read
    /\ UNCHANGED <<vars, throughout>>

(* scan walks the chain from the leftmost leaf the header named, up to a   *)
(* limit.  A leaf that is gone ends the walk without an error.             *)
BeginScan(max) ==
    /\ phase = "idle"
    /\ read' = [NoRead EXCEPT !.max = max, !.at = leftmost]
    /\ phase' = IF height = 0 THEN "done" ELSE "chain"
    /\ throughout' = Stored
    /\ UNCHANGED vars

ReadChain ==
    /\ phase = "chain"
    /\ IF read.at \in DOMAIN leaf
       THEN LET ks   == leaf[read.at].keys
                room == read.max - Len(read.out)
                out  == read.out \o SubSeq(ks, 1, Min({room, Len(ks)}))
            IN  /\ read' = [read EXCEPT !.out = out, !.at = leaf[@].next]
                /\ phase' = IF leaf[read.at].next = 0 \/ Len(out) = read.max THEN "done" ELSE "chain"
       ELSE phase' = "done" /\ UNCHANGED read
    /\ UNCHANGED <<vars, throughout>>

Return ==
    /\ phase = "done"
    /\ phase' = "idle" /\ read' = NoRead /\ throughout' = {}
    /\ UNCHANGED vars

Reading ==
    \/ \E k \in Key : BeginGet(k)
    \/ ReadHeader \/ DescendOnce \/ ReadLeaf
    \/ \E max \in Limits : BeginScan(max)
    \/ ReadChain \/ Return

MarketWrites ==
    \E k \in Key :
        \/ \E v \in Val : \/ InsertFast(Path(k), k, v)
                          \/ UpdateFast(Path(k), k, v)
                          \/ Insert(Path(k), k, v, highWater + 1, height + 2)
        \/ DeleteFast(Path(k), k)

Beside(Writes) ==
    /\ Writes
    /\ throughout' = throughout \cap Stored'
    /\ UNCHANGED <<phase, read>>

MarketNext == Reading \/ Beside(MarketWrites)

MarketSpec == ReaderInit /\ [][MarketNext]_allVars

---------------------------------------------------------------------------
(* Properties *)

(* A scan beside a market's writers, splits included, returns keys in      *)
(* order and each once, and misses none that was stored all the time it    *)
(* ran, but those after its last when it stopped at its limit: `best' is   *)
(* never worse than an order that rested throughout.                       *)
ScanIsRegular ==
    phase = "done" /\ read.kind = "scan" =>
        /\ Ascending(read.out)
        /\ \A k \in throughout \ Range(read.out) :
              Len(read.out) = read.max /\ Last(read.out) < k

(* ts-sdk/src/index.ts:477 of get: "The value stored at `key`, or null if  *)
(* absent": a key stored all the time a get ran is found.                  *)
GetFindsStoredKey ==
    phase = "done" /\ read.kind = "get" /\ read.key \in throughout => read.out # <<>>
=============================================================================
