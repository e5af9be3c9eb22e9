--------------------------- MODULE VoteProcessing ---------------------------
(***************************************************************************)
(* process_vote (server/vote_verifier.py) run by several threads of one    *)
(* server process on one database: the request threads of Flask, the MQTT  *)
(* network thread, and the simulator that calls the function in process.   *)
(*                                                                         *)
(* Each step ends where the code commits or closes a connection, so between *)
(* two steps of one call any step of another call, of an administrator, a   *)
(* database error or the end of the process may come.  pc[t] names the next *)
(* database access of thread t.  Socket.IO emits are left out: each helper  *)
(* of socketio_handler.py catches its own exceptions and changes no state.  *)
(***************************************************************************)
EXTENDS ElectionDatabase

CONSTANTS Payload,   \* the payloads that clients submit
          MaxVotes   \* bound: no call starts once it could exceed this many rows

ASSUME PayloadAssumption == Payload \subseteq PayloadType /\ Payload # {}
ASSUME MaxVotesAssumption == MaxVotes \in Nat

VARIABLES pc,        \* where each thread is in process_vote
          call,      \* the payload it was called with
          vote_id,   \* the local vote_id, 0 until record_vote returned
          answer     \* event_type of the result, "NONE" before the first one

callVars == <<pc, call, vote_id, answer>>
processVars == <<tables, callVars>>

Checking == {"validate", "lookup", "status"}   \* before the last status check
Cleared  == {"verify", "sequence", "record"}   \* the gate was passed
Storing  == {"bump", "mark", "audit"}          \* the ballot is in the table
Entering == {"pick", "wipe", "repick", "number"}  \* routes.py, before the call

Events == {"NONE", "VOTE_CAST", "AUTH_FAILED", "REJECTED_UNREGISTERED",
           "REJECTED_DOUBLE", "REJECTED_INVALID_BOOTH",
           "REJECTED_ELECTION_INACTIVE", "TAMPER_DETECTED", "REPLAY_ATTACK",
           "ERROR"}

(* "ERROR" stands for status "error", the outer except of process_vote.     *)
CallTypeOK ==
    /\ pc \in [Thread -> {"idle", "reject"} \cup Entering \cup Checking
                         \cup Cleared \cup Storing]
    /\ call \in [Thread -> PayloadType]
    /\ vote_id \in [Thread -> Nat]
    /\ answer \in [Thread -> Events]

NoCall == CHOOSE p \in Payload : TRUE   \* of a thread that runs no call

ProcessInit ==
    /\ DatabaseInit
    /\ pc = [t \in Thread |-> "idle"]
    /\ call = [t \in Thread |-> NoCall]
    /\ vote_id = [t \in Thread |-> 0]
    /\ answer = [t \in Thread |-> "NONE"]

InFlight == {t \in Thread : pc[t] # "idle"}
RoomForVotes == last_vote_id + Cardinality(InFlight) < MaxVotes

(* The end of a call: the dictionary process_vote returns.                   *)
Return(t, event) ==
    /\ pc' = [pc EXCEPT ![t] = "idle"]
    /\ answer' = [answer EXCEPT ![t] = event]
    /\ vote_id' = [vote_id EXCEPT ![t] = 0]
    /\ call' = [call EXCEPT ![t] = NoCall]

(* A refusal: the event is decided, its audit row is still to be written.    *)
Refuse(t, event) ==
    /\ pc' = [pc EXCEPT ![t] = "reject"]
    /\ answer' = [answer EXCEPT ![t] = event]
    /\ UNCHANGED <<call, vote_id>>

Continue(t, to) ==
    /\ pc' = [pc EXCEPT ![t] = to]
    /\ UNCHANGED <<call, vote_id, answer>>

(* validate_vote_payload: the active rows decide, and config.VALID_CANDIDATES *)
(* when there is none or (below, in a failing step) the table is unreadable. *)
CandidateAccepted(c) ==
    \/ c \in active_candidates
    \/ active_candidates = {} /\ c \in ValidCandidates

-----------------------------------------------------------------------------
(* A client's payload reaches the thread (HTTP body or MQTT message).        *)
Submit(t, p) ==
    /\ pc[t] = "idle"
    /\ RoomForVotes
    /\ pc' = [pc EXCEPT ![t] = "validate"]
    /\ call' = [call EXCEPT ![t] = p]
    /\ answer' = [answer EXCEPT ![t] = "NONE"]
    /\ UNCHANGED <<tables, vote_id>>

ValidatePayload(t) ==
    /\ pc[t] = "validate"
    /\ IF call[t].complete /\ CandidateAccepted(call[t].candidate)
       THEN Continue(t, "lookup")
       ELSE Refuse(t, "AUTH_FAILED")
    /\ UNCHANGED tables

(* Mutant: the has_voted test is forgotten.                                   *)
LookupVoterAnyTime(t) ==
    LET p == call[t] IN
    /\ pc[t] = "lookup"
    /\ IF p.voter \notin voters THEN Refuse(t, "REJECTED_UNREGISTERED")
       ELSE IF p.booth \notin KnownBooths THEN Refuse(t, "REJECTED_INVALID_BOOTH")
       ELSE Continue(t, "status")
    /\ UNCHANGED tables

(* get_voter_by_rfid and booth_exists.  One row of voters answers both        *)
(* questions about the voter, and rows of booths are never removed, so the   *)
(* booth test commutes with every other step.                                *)
LookupVoter(t) ==
    LET p == call[t] IN
    /\ pc[t] = "lookup"
    /\ IF p.voter \notin voters THEN Refuse(t, "REJECTED_UNREGISTERED")
       ELSE IF p.voter \in has_voted THEN Refuse(t, "REJECTED_DOUBLE")
       ELSE IF p.booth \notin KnownBooths THEN Refuse(t, "REJECTED_INVALID_BOOTH")
       ELSE Continue(t, "status")
    /\ UNCHANGED tables

(* Mutant: only INACTIVE is refused, a paused election goes on.                *)
CheckElectionNotInactive(t) ==
    /\ pc[t] = "status"
    /\ IF get_election_status # "INACTIVE"
       THEN Continue(t, "verify")
       ELSE Refuse(t, "REJECTED_ELECTION_INACTIVE")
    /\ UNCHANGED tables

CheckElectionStatus(t) ==
    /\ pc[t] = "status"
    /\ IF get_election_status = "ACTIVE"
       THEN Continue(t, "verify")
       ELSE Refuse(t, "REJECTED_ELECTION_INACTIVE")
    /\ UNCHANGED tables

(* Mutant: the result of the signature check is not looked at.                *)
VerifyCandidateOnly(t) ==
    /\ pc[t] = "verify"
    /\ IF CandidateAccepted(call[t].candidate)
       THEN Continue(t, "sequence")
       ELSE Refuse(t, "TAMPER_DETECTED")
    /\ UNCHANGED tables

(* verify_vote_payload reads the candidates again; whatever it refuses is    *)
(* reported as tampering.                                                    *)
VerifyPayload(t) ==
    /\ pc[t] = "verify"
    /\ IF CandidateAccepted(call[t].candidate) /\ call[t].authentic
       THEN Continue(t, "sequence")
       ELSE Refuse(t, "TAMPER_DETECTED")
    /\ UNCHANGED tables

(* Mutant: the number stored last is accepted once more.                      *)
CheckSequenceNotLower(t) ==
    /\ pc[t] = "sequence"
    /\ IF call[t].seq >= get_last_sequence(call[t].voter)
       THEN Continue(t, "record")
       ELSE Refuse(t, "REPLAY_ATTACK")
    /\ UNCHANGED tables

CheckSequence(t) ==
    /\ pc[t] = "sequence"
    /\ IF call[t].seq > get_last_sequence(call[t].voter)
       THEN Continue(t, "record")
       ELSE Refuse(t, "REPLAY_ATTACK")
    /\ UNCHANGED tables

(* The insert, refused by the foreign key when the voter is gone by now.     *)
RecordVote(t) ==
    /\ pc[t] = "record"
    /\ \/ /\ record_vote(call[t], t)
          /\ pc' = [pc EXCEPT ![t] = "bump"]
          /\ vote_id' = [vote_id EXCEPT ![t] = last_vote_id']
          /\ UNCHANGED <<call, answer>>
       \/ /\ call[t].voter \notin voters
          /\ Return(t, "ERROR")
          /\ UNCHANGED tables

(* update_last_sequence: an exception, here the foreign key, is only logged. *)
UpdateLastSequence(t) ==
    /\ pc[t] = "bump"
    /\ Continue(t, "mark")
    /\ \/ update_last_sequence(call[t].voter, call[t].seq)
       \/ call[t].voter \notin voters /\ UNCHANGED tables

(* Mutant: the voter is not marked.                                           *)
ForgetVoter(t) ==
    /\ pc[t] = "mark"
    /\ Continue(t, "audit")
    /\ UNCHANGED tables

(* set_voter_as_voted: an UPDATE of no row returns False, and nobody looks.  *)
SetVoterAsVoted(t) ==
    /\ pc[t] = "mark"
    /\ Continue(t, "audit")
    /\ set_voter_as_voted(call[t].voter)

AuditVoteCast(t) ==
    /\ pc[t] = "audit"
    /\ record_vote_cast(vote_id[t])
    /\ Return(t, "VOTE_CAST")

AuditRefusal(t) ==
    /\ pc[t] = "reject"
    /\ Return(t, answer[t])
    /\ UNCHANGED tables

Step(t) ==
    \/ ValidatePayload(t) \/ LookupVoter(t) \/ CheckElectionStatus(t)
    \/ VerifyPayload(t) \/ CheckSequence(t) \/ RecordVote(t)
    \/ UpdateLastSequence(t) \/ SetVoterAsVoted(t)
    \/ AuditVoteCast(t) \/ AuditRefusal(t)

-----------------------------------------------------------------------------
(* A statement raises (database locked beyond the 5 s timeout, disk error).  *)

(* The candidates are unreadable: both reads fall back to the configuration. *)
CandidatesUnreadable(t) ==
    LET p == call[t] IN
    /\ \/ /\ pc[t] = "validate"
          /\ IF p.complete /\ p.candidate \in ValidCandidates
             THEN Continue(t, "lookup") ELSE Refuse(t, "AUTH_FAILED")
       \/ /\ pc[t] = "verify"
          /\ IF p.candidate \in ValidCandidates /\ p.authentic
             THEN Continue(t, "sequence") ELSE Refuse(t, "TAMPER_DETECTED")
    /\ UNCHANGED tables

(* The inner except of the sequence check answers as for a replay.           *)
SequenceUnreadable(t) ==
    /\ pc[t] = "sequence"
    /\ Refuse(t, "REPLAY_ATTACK")
    /\ UNCHANGED tables

(* Mutant: the exception of the sequence row is not swallowed.                *)
SequenceNotStoredEnds(t) ==
    /\ pc[t] = "bump"
    /\ Return(t, "ERROR")
    /\ UNCHANGED tables

(* Swallowed: the call goes on without the sequence row.                     *)
SequenceNotStored(t) ==
    /\ pc[t] = "bump"
    /\ Continue(t, "mark")
    /\ UNCHANGED tables

(* Everywhere else the outer except answers "error", the insert of the       *)
(* ballot notwithstanding.                                                   *)
CallFails(t) ==
    /\ pc[t] \in Entering \cup {"lookup", "status", "record", "mark", "audit", "reject"}
    /\ Return(t, "ERROR")
    /\ UNCHANGED tables

DatabaseError(t) ==
    \/ CandidatesUnreadable(t) \/ SequenceUnreadable(t)
    \/ SequenceNotStored(t) \/ CallFails(t)
=============================================================================
