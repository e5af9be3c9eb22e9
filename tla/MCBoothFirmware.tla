--------------------------- MODULE MCBoothFirmware ---------------------------
(* Instances of BoothFirmware for TLC: two voters, and a card nobody knows.   *)
EXTENDS BoothFirmware

CONSTANTS v1, v2, x

FingerOf == [c \in {v1, v2} |-> IF c = v1 THEN 1 ELSE 2]
=============================================================================
