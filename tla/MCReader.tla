------------------------------ MODULE MCReader ------------------------------
(* TornaReader on small instances, from a tree grown by real Inserts. *)
EXTENDS TornaReader

CONSTANT Seed     \* keys to grow the tree with

VARIABLE todo

MCInit == ReaderInit /\ todo = Seed

Grow ==
    /\ todo # <<>>
    /\ Insert(Path(Head(todo)), Head(todo), CHOOSE v \in Val : TRUE, highWater + 1, height + 2)
    /\ todo' = Tail(todo)
    /\ UNCHANGED readVars

MCMarketSpec == MCInit /\ [][Grow \/ (todo = <<>> /\ MarketNext /\ UNCHANGED todo)]_<<allVars, todo>>

Key7 == 2..8
Key8 == 1..8
TwoLeaves == <<2, 3, 4, 5, 6>>
=============================================================================
