--------------------------- MODULE MCHealthMonitor ---------------------------
(* Instances of HealthMonitor for TLC: two booths, one HTTP thread.           *)
EXTENDS HealthMonitor

CONSTANTS c1, c2, t1
=============================================================================
