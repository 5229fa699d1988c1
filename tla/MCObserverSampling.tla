------------------------- MODULE MCObserverSampling -------------------------
(* ObserverSampling for TLC. *)
EXTENDS ObserverSampling
=============================================================================
