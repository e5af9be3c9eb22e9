--------------------------- MODULE MCBoothSimulator ---------------------------
(* Instances of BoothSimulator for TLC: two votes of one voter, and a card     *)
(* nobody knows.                                                             *)
EXTENDS BoothSimulator

CONSTANTS p1, p2, v1, x

(* Nothing, or one vote from before.                                         *)
LeftVotes == {<<>>, <<p1>>}

VoterOf == [p \in Vote |-> v1]
=============================================================================
