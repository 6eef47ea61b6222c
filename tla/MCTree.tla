------------------------------- MODULE MCTree -------------------------------
(***************************************************************************)
(* TornaTree on small instances.  A scene first grows the tree through     *)
(* real Inserts of the keys in its `todo', in that order, and then lets    *)
(* some of the instructions run within bounds of its own: that is how a    *)
(* run reaches four leaves or three levels without enumerating every way   *)
(* there.                                                                  *)
(***************************************************************************)
EXTENDS TornaTree

CONSTANT Scenes   \* [todo, steps, keys, nodes, epochs]

VARIABLE scene

MCInit == Init /\ scene \in Scenes

Grow ==
    /\ scene.todo # <<>>
    /\ LET k == Head(scene.todo)
       IN  Insert(Path(k), k, CHOOSE v \in Val : TRUE, highWater + 1, height + 2)
    /\ scene' = [scene EXCEPT !.todo = Tail(@)]

(* The cascades of a tree of three levels, and the other way it shrinks:   *)
(* the leftmost leaf drained entry by entry, then compacted.               *)
Grows == \E k \in Key, v \in Val : Insert(Path(k), k, v, highWater + 1, height + 2)

Shrinks ==
    \E k \in Key : \E sides \in [1..height -> 0..2] :
        /\ sides[1] = 0 /\ \A i \in 2..height : sides[i] # 0
        /\ Delete(Path(k), k, sides, Siblings(Path(k), sides))

Drains ==
    \/ height > 0 /\ \E k \in Range(leaf[leftmost].keys) : DeleteFast(Path(k), k)
    \/ CompactLeaf(LeftmostPath)

Acts ==
    /\ scene.todo = <<>>
    /\ \/ scene.steps = "all" /\ Next
       \/ scene.steps = "grow" /\ Grows
       \/ scene.steps \in {"grow", "drain"} /\ Shrinks
       \/ scene.steps = "drain" /\ Drains
    /\ highWater' <= scene.nodes /\ epoch' <= scene.epochs
    /\ \A n \in DOMAIN leaf' : \A k \in Range(leaf'[n].keys) : k <= scene.keys
    /\ UNCHANGED scene

MCSpec == MCInit /\ [][Grow \/ Acts]_<<vars, scene>>

UpFrom(n) == [i \in 1..n |-> i]
Key5 == 1..5
Key15 == 1..15
Scene(todo, steps, keys, nodes, epochs) ==
    [todo |-> todo, steps |-> steps, keys |-> keys, nodes |-> nodes, epochs |-> epochs]

(* From empty; four leaves; seven leaves under three levels, the smallest  *)
(* on the left; and five under a full root, about to grow the third level. *)
(* From any of the last two, four steps may change the structure.          *)
FromEmpty == {Scene(<<>>, "all", 5, 3, 5)}
ManyLeaves == {Scene(UpFrom(9), "all", 9, 6, 6)}
ThreeLevels == {Scene(UpFrom(15), "drain", 15, 12, 11),
                Scene(Reverse(UpFrom(15)), "grow", 15, 12, 9)}
Tall == ManyLeaves \cup ThreeLevels
=============================================================================
