------------------------------ MODULE MCClient ------------------------------
(***************************************************************************)
(* TornaClient on small instances, from a tree grown to height 2 by real   *)
(* Inserts of the keys in `todo'.                                          *)
(***************************************************************************)
EXTENDS TornaClient

CONSTANT Seed     \* keys to grow the tree with

VARIABLE todo

MCInit == ClientInit /\ todo = Seed

Grow ==
    /\ todo # <<>>
    /\ Insert(Path(Head(todo)), Head(todo), CHOOSE v \in Val : TRUE, highWater + 1, height + 2)
    /\ todo' = Tail(todo)
    /\ UNCHANGED clientVars

MCSpec == MCInit /\ [][Grow \/ (todo = <<>> /\ ClientNext /\ UNCHANGED todo)]_<<allVars, todo>>

Key5 == 1..5
Key7 == 1..7
TwoLeaves == <<1, 2, 3, 4, 5>>
ThreeLeaves == <<1, 2, 3, 4, 5, 6, 7>>
Empty == <<>>
=============================================================================
