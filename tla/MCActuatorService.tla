------------------------- MODULE MCActuatorService -------------------------
(* ActuatorService for TLC. *)
EXTENDS ActuatorService, TLC
Symmetry == Permutations(Proofs)
=============================================================================
