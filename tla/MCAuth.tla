------------------------------- MODULE MCAuth -------------------------------
(* TornaAuth on a small instance; the signers and the lists are symmetric.  *)
EXTENDS TornaAuth, TLC

Symmetry == Permutations(Address) \cup Permutations(List)
=============================================================================
