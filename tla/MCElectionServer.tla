-------------------------- MODULE MCElectionServer --------------------------
(* Instances of ElectionServer for TLC.                                     *)
EXTENDS ElectionServer

CONSTANTS v1, v2, A, Z, b1, b9, t1, t2

Ballot(v, s) == [voter |-> v, candidate |-> A, booth |-> b1, seq |-> s,
                 complete |-> TRUE, authentic |-> TRUE]

(* Fresh ballots of one voter, the later one a new attempt.                  *)
OneVoter == {Ballot(v1, 1), Ballot(v1, 2)}

TwoVoters == {Ballot(v1, 1), Ballot(v1, 2), Ballot(v2, 1)}

(* The generated voter is the second one: it is missing while fewer than two  *)
(* voters are registered.                                                    *)
Numbers == [v \in {v2} |-> 2]
NoNumbers == [v \in {} |-> 0]

(* A ballot of each voter, and every way a payload can be wrong; later         *)
(* numbers come from the payloads that the server makes.                     *)
AllPayloads ==
    {Ballot(v1, 1), Ballot(v2, 1),
     [Ballot(v1, 1) EXCEPT !.authentic = FALSE],
     [Ballot(v1, 1) EXCEPT !.complete = FALSE],
     [Ballot(v1, 1) EXCEPT !.booth = b9],
     [Ballot(v1, 1) EXCEPT !.candidate = Z],
     Ballot(v1, 0)}
=============================================================================
