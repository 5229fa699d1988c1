---------------------------- MODULE MCMonitorLoop ----------------------------
(* MonitorLoop for TLC. *)
EXTENDS MonitorLoop
=============================================================================
