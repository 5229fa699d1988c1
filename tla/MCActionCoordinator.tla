------------------------- MODULE MCActionCoordinator -------------------------
(* Instances of ActionCoordinator for TLC. *)
EXTENDS ActionCoordinator, TLC

Symmetry == Permutations(Txs)
===============================================================================
