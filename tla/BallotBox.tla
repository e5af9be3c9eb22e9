------------------------------ MODULE BallotBox ------------------------------
(***************************************************************************)
(* What the server promises, with nothing of how it does it: a register of  *)
(* voters and a box.  A registered voter may cast one ballot; nothing       *)
(* changes a ballot afterwards; ballots leave the box only when their voter *)
(* is struck from the register or the whole box is emptied for a new        *)
(* election.  ElectionServer with one thread implements it on orderly days. *)
(***************************************************************************)
EXTENDS Naturals

CONSTANTS Voter, Candidate

VARIABLES register,  \* registered voters
          box,       \* ballots: number, voter, candidate
          issued     \* number of the last ballot, never used again

boxVars == <<register, box, issued>>

Ballot == [number : Nat \ {0}, voter : Voter, candidate : Candidate]

Init == register \subseteq Voter /\ box = {} /\ issued = 0

Cast(v, c) ==
    /\ v \in register
    /\ \A b \in box : b.voter # v
    /\ issued' = issued + 1
    /\ box' = box \cup {[number |-> issued', voter |-> v, candidate |-> c]}
    /\ UNCHANGED register

Enroll(S) ==
    /\ register' = register \cup S
    /\ UNCHANGED <<box, issued>>

Strike(v) ==
    /\ register' = register \ {v}
    /\ box' = {b \in box : b.voter # v}
    /\ UNCHANGED issued

EmptyBox ==
    /\ box' = {}
    /\ UNCHANGED <<register, issued>>

Next ==
    \/ \E v \in Voter, c \in Candidate : Cast(v, c)
    \/ \E S \in SUBSET Voter : Enroll(S)
    \/ \E v \in Voter : Strike(v)
    \/ EmptyBox

Spec == Init /\ [][Next]_boxVars
=============================================================================
