---------------------------- MODULE PollingPlace ----------------------------
(***************************************************************************)
(* What the server still promises when several clerks (threads) serve one   *)
(* register and one box at a time: a clerk admits a voter only while the    *)
(* place is open; an admission is good for one ballot, also after the place *)
(* has closed; no clerk hands a registered voter a second ballot while the   *)
(* first one is in the box.  One clerk's box is that of BallotBox.           *)
(* ElectionServer implements this on orderly days for any number of threads. *)
(***************************************************************************)
EXTENDS Naturals

CONSTANTS Clerk, Voter, Candidate

VARIABLES register,  \* registered voters
          box,       \* ballots: number, clerk, voter, candidate
          issued,    \* number of the last ballot, never used again
          open,      \* voters are being admitted
          desk       \* admissions not yet used: clerk, voter

placeVars == <<register, box, issued, open, desk>>

Init == register \subseteq Voter /\ box = {} /\ issued = 0 /\ open = TRUE /\ desk = {}

OpenOrClose ==
    /\ open' \in BOOLEAN
    /\ UNCHANGED <<register, box, issued, desk>>

Admit(k, v) ==
    /\ open
    /\ \A a \in desk : a.clerk # k
    /\ desk' = desk \cup {[clerk |-> k, voter |-> v]}
    /\ UNCHANGED <<register, box, issued, open>>

Dismiss(a) ==
    /\ desk' = desk \ {a}
    /\ UNCHANGED <<register, box, issued, open>>

Cast(k, v, c) ==
    /\ [clerk |-> k, voter |-> v] \in desk
    /\ v \in register
    /\ \A b \in box : b.clerk = k => b.voter # v
    /\ issued' = issued + 1
    /\ box' = box \cup {[number |-> issued', clerk |-> k, voter |-> v, candidate |-> c]}
    /\ desk' = desk \ {[clerk |-> k, voter |-> v]}
    /\ UNCHANGED <<register, open>>

Enroll(S) ==
    /\ register' = register \cup S
    /\ UNCHANGED <<box, issued, open, desk>>

Strike(v) ==
    /\ register' = register \ {v}
    /\ box' = {b \in box : b.voter # v}
    /\ UNCHANGED <<issued, open, desk>>

EmptyBox ==
    /\ box' = {}
    /\ UNCHANGED <<register, issued, open, desk>>

Next ==
    \/ \E k \in Clerk, v \in Voter : \/ Admit(k, v)
                                     \/ \E c \in Candidate : Cast(k, v, c)
    \/ \E a \in desk : Dismiss(a)
    \/ \E S \in SUBSET Voter : Enroll(S)
    \/ \E v \in Voter : Strike(v)
    \/ OpenOrClose \/ EmptyBox

Spec == Init /\ [][Next]_placeVars
=============================================================================
