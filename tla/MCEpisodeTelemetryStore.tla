---------------------- MODULE MCEpisodeTelemetryStore ----------------------
(* EpisodeTelemetryStore for TLC. *)
EXTENDS EpisodeTelemetryStore, TLC

CONSTANTS work, play

Symmetry == Permutations(Contexts)
=============================================================================
