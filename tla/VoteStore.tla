------------------------------ MODULE VoteStore ------------------------------
(***************************************************************************)
(* What both booths promise about votes that could not be delivered, with   *)
(* nothing of files, threads and messages: a vote that is put into the store *)
(* leaves it only after the server has counted it, and the server counts    *)
(* only what the booth handed over, one vote of a voter.  Neither a power   *)
(* cut nor a lost message is a step here: they must change nothing.  The     *)
(* medium of the store may be erased as a whole, which lost tells: a booth   *)
(* whose medium does not do so has lost = {}.                               *)
(* OfflineBuffer (saves between the rounds) and BoothFirmware implement it. *)
(***************************************************************************)
CONSTANTS Vote,
          Voter,
          voter_of   \* the voter of a vote

VARIABLES stored,    \* votes in the store of the booth
          sent,      \* votes handed over to the network
          counted,   \* votes the server counted
          lost       \* votes erased with the medium before they were counted

storeVars == <<stored, sent, counted, lost>>

Init == stored = {} /\ sent = {} /\ counted = {} /\ lost = {}

Store(p) ==
    /\ stored' = stored \cup {p}
    /\ UNCHANGED <<sent, counted, lost>>

Submit(p) ==
    /\ sent' = sent \cup {p}
    /\ UNCHANGED <<stored, counted, lost>>

Count(p) ==
    /\ p \in sent
    /\ \A q \in counted : voter_of[q] # voter_of[p]
    /\ counted' = counted \cup {p}
    /\ UNCHANGED <<stored, sent, lost>>

Release(S) ==
    /\ S \subseteq counted
    /\ stored' = stored \ S
    /\ UNCHANGED <<sent, counted, lost>>

Erase ==
    /\ stored' = {}
    /\ lost' = lost \cup (stored \ counted)
    /\ UNCHANGED <<sent, counted>>

Next ==
    \/ \E p \in Vote : Store(p) \/ Submit(p) \/ Count(p)
    \/ \E S \in SUBSET Vote : Release(S)
    \/ Erase

Spec == Init /\ [][Next]_storeVars
=============================================================================
