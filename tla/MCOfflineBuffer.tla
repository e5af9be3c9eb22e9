--------------------------- MODULE MCOfflineBuffer ---------------------------
(* Instances of OfflineBuffer for TLC: two voters, one of them voting twice.  *)
EXTENDS OfflineBuffer

CONSTANTS p1, p2, p3, v1, v2

VoterOf == [p \in Vote |-> IF p = p3 THEN v2 ELSE v1]
=============================================================================
