----------------------------- MODULE TornaClient -----------------------------
(***************************************************************************)
(* A client of ts-sdk/src/index.ts (sdk/src/lib.rs plans alike) against a  *)
(* tree that others keep writing.  The client plans off chain, one account *)
(* read at a time, and its transaction lands later, when the header, the   *)
(* path, the spare slots and the siblings it named may all be stale.       *)
(*                                                                         *)
(* Everyone else is TornaTree's Next: any instruction, planned freshly.    *)
(***************************************************************************)
EXTENDS TornaTree

VARIABLES phase,    \* what the client does: idle, spares, header, descend, siblings, ready
          plan      \* what it has read so far

clientVars == <<phase, plan>>
allVars == <<vars, clientVars>>

Kinds == {"fast", "update", "deleteFast", "insert", "delete"}

(* kind and key of the write; the epoch of the first header read; the      *)
(* header the descent started from; the path; the spare slots; and the     *)
(* sibling sides and accounts, by level.                                   *)
NoPlan == [kind |-> "fast", key |-> 0, epoch |-> 0, height |-> 0, path |-> <<>>,
           from |-> 0, spares |-> 0, sides |-> <<>>, sibs |-> <<>>]

ClientInit == Init /\ phase = "idle" /\ plan = NoPlan

(* The first header read.  insertIx sizes its spares from it: a node a     *)
(* level and a new root, and one to be safe.  deleteIx ends on no tree.    *)
BeginTight(kind, k) ==
    /\ phase = "idle"
    /\ kind = "delete" => height > 0
    /\ plan' = [NoPlan EXCEPT !.kind = kind, !.key = k, !.epoch = epoch, !.spares = height]
    /\ phase' = IF kind = "insert" THEN "spares" ELSE "header"
    /\ UNCHANGED vars

Begin(kind, k) ==
    /\ phase = "idle"
    /\ kind = "delete" => height > 0
    /\ plan' = [NoPlan EXCEPT !.kind = kind, !.key = k, !.epoch = epoch, !.spares = height + 2]
    /\ phase' = IF kind = "insert" THEN "spares" ELSE "header"
    /\ UNCHANGED vars

(* highWater: the spares are the next slots of the allocator as read. *)
ReadAllocator ==
    /\ phase = "spares"
    /\ plan' = [plan EXCEPT !.from = highWater + 1]
    /\ phase' = "header"
    /\ UNCHANGED vars

Planned(p) == IF p.kind = "delete" THEN "siblings" ELSE "ready"

(* path reads the header again, for the root and the height. *)
ReadHeader ==
    /\ phase = "header"
    /\ plan' = [plan EXCEPT !.height = height, !.path = IF height = 0 THEN <<>> ELSE <<root>>]
    /\ phase' = IF height <= 1 THEN Planned(plan) ELSE "descend"
    /\ UNCHANGED vars

ReadNodeTooFar ==
    /\ phase = "descend"
    /\ Last(plan.path) \in DOMAIN inner
    /\ plan' = [plan EXCEPT !.path = Append(@, ChildFor(inner[Last(@)], plan.key))]
    /\ phase' = IF Len(plan.path) = plan.height THEN Planned(plan) ELSE "descend"
    /\ UNCHANGED vars

(* One node of the descent: the account, if it still exists, names the     *)
(* next one.  (A leaf read here would be parsed as an internal node.)      *)
ReadNode ==
    /\ phase = "descend"
    /\ Last(plan.path) \in DOMAIN inner
    /\ plan' = [plan EXCEPT !.path = Append(@, ChildFor(inner[Last(@)], plan.key))]
    /\ phase' = IF Len(plan'.path) = plan.height THEN Planned(plan) ELSE "descend"
    /\ UNCHANGED vars

(* deleteIx reads each parent again and picks the right neighbour, or the  *)
(* left one of a last child; it bails out, a GiveUp, when the child is not *)
(* under that parent any more or has no neighbour there.                   *)
ReadSibling ==
    /\ phase = "siblings"
    /\ Len(plan.sides) < Len(plan.path)
    /\ \/ /\ plan.sides = <<>>
          /\ plan' = [plan EXCEPT !.sides = <<0>>, !.sibs = <<0>>]
       \/ /\ plan.sides # <<>>
          /\ plan.path[Len(plan.sides)] \in DOMAIN inner
          /\ LET kids  == inner[plan.path[Len(plan.sides)]].kids
                 child == plan.path[Len(plan.sides) + 1]
                 our   == IndexOf(kids, child)
                 side  == IF our < Len(kids) THEN 1 ELSE 2
             IN  /\ child \in Range(kids) /\ Len(kids) > 1
                 /\ plan' = [plan EXCEPT !.sides = Append(@, side),
                                      !.sibs = Append(@, kids[IF side = 1 THEN our + 1 ELSE our - 1])]
    /\ phase' = IF Len(plan'.sides) = Len(plan.path) THEN "ready" ELSE "siblings"
    /\ UNCHANGED vars

(* The transaction runs: whole, under the accounts that were planned. *)
Land ==
    /\ phase = "ready"
    /\ \E v \in Val :
        \/ plan.kind = "fast" /\ InsertFast(plan.path, plan.key, v)
        \/ plan.kind = "update" /\ UpdateFast(plan.path, plan.key, v)
        \/ plan.kind = "deleteFast" /\ DeleteFast(plan.path, plan.key)
        \/ plan.kind = "insert" /\ Insert(plan.path, plan.key, v, plan.from, plan.spares)
        \/ plan.kind = "delete" /\ Delete(plan.path, plan.key, plan.sides, plan.sibs)
    /\ phase' = "idle" /\ plan' = NoPlan

(* An account that was gone while planning, a bail-out, a refused or a     *)
(* dropped transaction: nothing happened.  retry plans again from scratch, *)
(* as many times as it was told; the bound is left out.                    *)
GiveUp ==
    /\ phase # "idle"
    /\ phase' = "idle" /\ plan' = NoPlan
    /\ UNCHANGED vars

Others == Next /\ UNCHANGED clientVars

ClientNext ==
    \/ \E kind \in Kinds, k \in Key : Begin(kind, k)
    \/ ReadAllocator \/ ReadHeader \/ ReadNode \/ ReadSibling
    \/ Land \/ GiveUp
    \/ Others

ClientSpec == ClientInit /\ [][ClientNext]_allVars

---------------------------------------------------------------------------
(* Properties *)

(* The SDK's staleness test: while the structure epoch is the one read     *)
(* before resolving, the finished path is still the path of its key, and   *)
(* the engine's descent check accepts it -- also when other transactions   *)
(* landed between any two of the reads.                                    *)
StableEpochKeepsPath ==
    phase \in {"ready", "siblings"} /\ plan.epoch = epoch /\ height > 0
        => Descends(plan.path, plan.key)

(* The root and height of one header read stay consistent for the whole    *)
(* walk: however the tree grows and collapses meanwhile, the account read  *)
(* for an internal node is never a leaf, whose bytes the planner would     *)
(* misread as child pointers, and a finished path ends above no node.      *)
WalkStaysOnLevel ==
    /\ phase = "descend" => Last(plan.path) \notin DOMAIN leaf
    /\ phase = "ready" /\ plan.path # <<>> => Last(plan.path) \notin DOMAIN inner

(* A plan of the current epoch is not refused for what the planner chose:  *)
(* its spares are the allocator's next slots and cover the whole cascade,  *)
(* and a Delete finds at every level it must rebalance a true sibling,     *)
(* whatever entries fast writers added or drained since.                   *)
StablePlanIsAccepted ==
    phase = "ready" /\ plan.epoch = epoch =>
        /\ plan.kind = "insert" =>
            /\ plan.from = highWater + 1
            /\ height = 0 => plan.spares >= 1
            /\ height > 0 => SlotsOf(Propagate(plan.path, plan.key)) - highWater <= plan.spares
        /\ plan.kind = "delete" /\ height > 0 /\ HasKey(LeafOf(plan.path), plan.key) =>
            Cascade(plan.path, plan.sides, plan.sibs, plan.key).state # "refused"
=============================================================================
