------------------------ MODULE ElectionServerProofs ------------------------
(***************************************************************************)
(* Proofs about ElectionServer, for any voters, threads, payloads, bounds.  *)
(***************************************************************************)
EXTENDS ElectionServer, TLAPS

(* ------------------------- type correctness --------------------------- *)

(* What a call does to its own variables: the helpers keep their types.      *)
LEMMA CallTypes ==
    ASSUME CallTypeOK, NEW t \in Thread
    PROVE  /\ \A to \in {"idle", "reject"} \cup Entering \cup Checking
                       \cup Cleared \cup Storing : Continue(t, to) => CallTypeOK'
           /\ \A e \in Events : Refuse(t, e) => CallTypeOK'
           /\ \A e \in Events : Return(t, e) => CallTypeOK'
<1>1. NoCall \in PayloadType
  BY PayloadAssumption DEF NoCall
<1> QED
  BY <1>1 DEF CallTypeOK, Continue, Refuse, Return, Events

LEMMA TypeInit == Init => TypeOK
<1> SUFFICES ASSUME Init PROVE TypeOK
  OBVIOUS
<1>1. DatabaseTypeOK
  BY ConstantsAssumption DEF Init, ProcessInit, DatabaseInit, DatabaseTypeOK, NoRow, ElectionStatus
<1>2. CallTypeOK
  BY PayloadAssumption DEF Init, ProcessInit, CallTypeOK, NoCall, Events
<1> QED
  BY <1>1, <1>2 DEF TypeOK, Init

(* Every transaction keeps the types of the tables.                          *)
LEMMA TableTypes ==
    ASSUME DatabaseTypeOK
    PROVE  /\ \A p \in PayloadType, t \in Thread : record_vote(p, t) => DatabaseTypeOK'
           /\ \A v \in Voter, n \in Nat : update_last_sequence(v, n) => DatabaseTypeOK'
           /\ \A v \in Voter : set_voter_as_voted(v) => DatabaseTypeOK'
           /\ \A n \in Nat : record_vote_cast(n) => DatabaseTypeOK'
           /\ \A S \in SUBSET Voter : insert_voters(S) => DatabaseTypeOK'
           /\ \A v \in Voter : delete_voter(v) => DatabaseTypeOK'
           /\ \A o, n \in Voter, b \in BOOLEAN : update_voter(o, n, b) => DatabaseTypeOK'
           /\ wipe_ballots => DatabaseTypeOK'
           /\ reset_election => DatabaseTypeOK'
           /\ \A s \in ElectionStatus : insert_election_config(s) => DatabaseTypeOK'
           /\ \A S \in SUBSET Candidate : set_active_candidates(S) => DatabaseTypeOK'
           /\ UNCHANGED tables => DatabaseTypeOK'
<1>1. ASSUME NEW p \in PayloadType, NEW t \in Thread, record_vote(p, t)
      PROVE  DatabaseTypeOK'
  <2>1. [vote_id |-> last_vote_id', payload |-> p, by |-> t, era |-> Era] \in VoteRow
    BY <1>1 DEF DatabaseTypeOK, record_vote, VoteRow, Era
  <2> QED
    BY <1>1, <2>1 DEF DatabaseTypeOK, record_vote
<1>2. ASSUME NEW v \in Voter, NEW n \in Nat, update_last_sequence(v, n)
      PROVE  DatabaseTypeOK'
  BY <1>2 DEF DatabaseTypeOK, update_last_sequence
<1>3. ASSUME NEW v \in Voter, set_voter_as_voted(v)
      PROVE  DatabaseTypeOK'
  BY <1>3 DEF DatabaseTypeOK, set_voter_as_voted
<1>4. ASSUME NEW n \in Nat, record_vote_cast(n)
      PROVE  DatabaseTypeOK'
  BY <1>4 DEF DatabaseTypeOK, record_vote_cast
<1>5. ASSUME NEW S \in SUBSET Voter, insert_voters(S)
      PROVE  DatabaseTypeOK'
  BY <1>5 DEF DatabaseTypeOK, insert_voters, ballotTables
<1>6. ASSUME NEW v \in Voter, delete_voter(v)
      PROVE  DatabaseTypeOK'
  BY <1>6 DEF DatabaseTypeOK, delete_voter, VotesOf, NoRow
<1>7. ASSUME NEW o \in Voter, NEW n \in Voter, NEW b \in BOOLEAN, update_voter(o, n, b)
      PROVE  DatabaseTypeOK'
  BY <1>7 DEF DatabaseTypeOK, update_voter
<1>8. ASSUME wipe_ballots PROVE DatabaseTypeOK'
  BY <1>8 DEF DatabaseTypeOK, wipe_ballots, NoRow
<1>9. ASSUME reset_election PROVE DatabaseTypeOK'
  BY <1>9 DEF DatabaseTypeOK, reset_election, NoRow
<1>10. ASSUME NEW s \in ElectionStatus, insert_election_config(s)
       PROVE  DatabaseTypeOK'
  BY <1>10 DEF DatabaseTypeOK, insert_election_config, ballotTables
<1>11. ASSUME NEW S \in SUBSET Candidate, set_active_candidates(S)
       PROVE  DatabaseTypeOK'
  BY <1>11 DEF DatabaseTypeOK, set_active_candidates, ballotTables
<1>12. ASSUME UNCHANGED tables PROVE DatabaseTypeOK'
  BY <1>12 DEF DatabaseTypeOK, tables, ballotTables
<1> QED
  BY <1>1, <1>2, <1>3, <1>4, <1>5, <1>6, <1>7, <1>8, <1>9, <1>10, <1>11, <1>12

(* The tables and the call variables after a step of a thread.               *)
LEMMA ThreadTypes ==
    ASSUME TypeOK, NEW t \in Thread,
           Arrival(t) \/ Step(t) \/ DemoStep(t) \/ DatabaseError(t)
    PROVE  DatabaseTypeOK' /\ CallTypeOK'
<1> USE DEF TypeOK
<1>c. call[t] \in PayloadType /\ call[t].voter \in Voter /\ call[t].seq \in Nat
  BY DEF CallTypeOK, PayloadType
<1>e. vote_id[t] \in Nat /\ answer[t] \in Events
  BY DEF CallTypeOK
<1>u. UNCHANGED tables => DatabaseTypeOK'
  BY TableTypes
<1>n. \A v \in Voter : get_last_sequence(v) \in Nat
  BY DEF DatabaseTypeOK, get_last_sequence, NoRow
<1>1. ASSUME NEW p \in Payload, Submit(t, p) PROVE DatabaseTypeOK' /\ CallTypeOK'
  <2>1. p \in PayloadType
    BY PayloadAssumption
  <2> QED
    BY <1>1, <1>u, <2>1 DEF Submit, CallTypeOK, Checking, Events
<1>2. ASSUME NEW p \in Payload, ApiVote(t, p.voter, p.candidate, p.booth)
      PROVE  DatabaseTypeOK' /\ CallTypeOK'
  <2>1. p.voter \in Voter /\ p.candidate \in Candidate /\ p.booth \in Booth
    BY PayloadAssumption DEF PayloadType
  <2>2. call'[t] \in PayloadType
    BY <1>2, <2>1 DEF ApiVote, CallTypeOK, PayloadType
  <2> QED
    BY <1>2, <1>u, <2>2 DEF ApiVote, CallTypeOK, Entering, Events
<1>3. ASSUME SimulateVote(t) PROVE DatabaseTypeOK' /\ CallTypeOK'
  BY <1>3, <1>u DEF SimulateVote, CallTypeOK, Entering, Events
<1>4. ASSUME NumberPayload(t) PROVE DatabaseTypeOK' /\ CallTypeOK'
  <2>1. get_last_sequence(call[t].voter) + 1 \in Nat
    BY <1>c, <1>n
  <2>2. [call[t] EXCEPT !.seq = get_last_sequence(call[t].voter) + 1] \in PayloadType
    BY <1>c, <2>1 DEF PayloadType
  <2>3. call' = [call EXCEPT ![t] =
                   [call[t] EXCEPT !.seq = get_last_sequence(call[t].voter) + 1]]
    BY <1>4 DEF NumberPayload
  <2> QED
    BY <1>4, <1>u, <2>2, <2>3 DEF NumberPayload, CallTypeOK, Checking
<1>5. ASSUME PickVoter(t) PROVE DatabaseTypeOK' /\ CallTypeOK'
  <2>1. PICK v \in voters \ has_voted, c \in ValidCandidates, b \in Booth :
          call' = [call EXCEPT ![t] = [voter |-> v, candidate |-> c,
                     booth |-> b, seq |-> 0,
                     complete |-> TRUE, authentic |-> TRUE]]
    BY <1>5 DEF PickVoter
  <2>2. [voter |-> v, candidate |-> c, booth |-> b, seq |-> 0,
         complete |-> TRUE, authentic |-> TRUE] \in PayloadType
    BY ConstantsAssumption DEF PayloadType, DatabaseTypeOK
  <2> QED
    BY <1>5, <1>u, <2>1, <2>2 DEF PickVoter, CallTypeOK, Entering
<1>6. ASSUME NobodyLeft(t) PROVE DatabaseTypeOK' /\ CallTypeOK'
  BY <1>6, <1>u, CallTypes DEF NobodyLeft, Entering, Events
<1>7. ASSUME WipeForDemo(t) PROVE DatabaseTypeOK' /\ CallTypeOK'
  BY <1>7, TableTypes, CallTypes DEF WipeForDemo, Entering
<1>8. ASSUME ValidatePayload(t) \/ LookupVoter(t) \/ CheckElectionStatus(t)
             \/ VerifyPayload(t) \/ CheckSequence(t)
      PROVE  DatabaseTypeOK' /\ CallTypeOK'
  BY <1>8, <1>u, CallTypes DEF ValidatePayload, LookupVoter, CheckElectionStatus,
     VerifyPayload, CheckSequence, Checking, Cleared, Events
<1>9. ASSUME RecordVote(t) PROVE DatabaseTypeOK' /\ CallTypeOK'
  <2>1. CASE record_vote(call[t], t) /\ pc' = [pc EXCEPT ![t] = "bump"]
             /\ vote_id' = [vote_id EXCEPT ![t] = last_vote_id']
             /\ UNCHANGED <<call, answer>>
    <3>1. DatabaseTypeOK'
      BY <1>c, <2>1, TableTypes
    <3> QED
      BY <2>1, <3>1 DEF CallTypeOK, Storing, DatabaseTypeOK
  <2>2. CASE Return(t, "ERROR") /\ UNCHANGED tables
    BY <2>2, <1>u, CallTypes DEF Events
  <2> QED
    BY <1>9, <2>1, <2>2 DEF RecordVote
<1>10. ASSUME UpdateLastSequence(t) PROVE DatabaseTypeOK' /\ CallTypeOK'
  BY <1>10, <1>c, <1>u, TableTypes, CallTypes DEF UpdateLastSequence, Storing
<1>11. ASSUME SetVoterAsVoted(t) PROVE DatabaseTypeOK' /\ CallTypeOK'
  BY <1>11, <1>c, TableTypes, CallTypes DEF SetVoterAsVoted, Storing
<1>12. ASSUME AuditVoteCast(t) PROVE DatabaseTypeOK' /\ CallTypeOK'
  BY <1>12, <1>e, TableTypes, CallTypes DEF AuditVoteCast, Events
<1>13. ASSUME AuditRefusal(t) PROVE DatabaseTypeOK' /\ CallTypeOK'
  BY <1>13, <1>e, <1>u, CallTypes DEF AuditRefusal
<1>14. ASSUME DatabaseError(t) PROVE DatabaseTypeOK' /\ CallTypeOK'
  BY <1>14, <1>u, CallTypes DEF DatabaseError, CandidatesUnreadable,
     SequenceUnreadable, SequenceNotStored, CallFails, Checking, Cleared, Storing, Events
<1> QED
  BY <1>1, <1>2, <1>3, <1>4, <1>5, <1>6, <1>7, <1>8, <1>9, <1>10, <1>11, <1>12,
     <1>13, <1>14 DEF Arrival, Step, DemoStep

LEMMA TypeStep == TypeOK /\ [Next]_vars => TypeOK'
<1> SUFFICES ASSUME TypeOK, [Next]_vars PROVE TypeOK'
  OBVIOUS
<1> USE DEF TypeOK
<1>1. ASSUME NEW t \in Thread, Vote(t) PROVE TypeOK'
  BY <1>1, ThreadTypes DEF Vote, resetVars, historyVars
<1>2. ASSUME NEW t \in Thread, FailingStep(t) PROVE TypeOK'
  <2>1. DatabaseTypeOK' /\ CallTypeOK'
    BY <1>2, ThreadTypes DEF FailingStep
  <2>2. vote_id[t] \in Nat
    BY DEF CallTypeOK
  <2> QED
    BY <1>2, <2>1, <2>2 DEF FailingStep, resetVars
<1>3. UNCHANGED callVars => CallTypeOK'
  BY DEF callVars, CallTypeOK
<1>4. ASSUME NEW s \in ElectionStatus, ElectionControl(s) PROVE TypeOK'
  BY <1>3, <1>4, TableTypes DEF ElectionControl, resetVars, historyVars
<1>5. ASSUME ResetElection PROVE TypeOK'
  BY <1>3, <1>5, TableTypes, ConstantsAssumption DEF ResetElection, historyVars
<1>6. ASSUME SeedVoter \/ SeedGeneratedVoter PROVE TypeOK'
  <2>1. PICK v \in reset_todo : insert_voters({v}) /\ reset_todo' = reset_todo \ {v}
    BY <1>6 DEF SeedVoter, SeedGeneratedVoter
  <2>2. DatabaseTypeOK'
    BY <2>1, TableTypes
  <2>3. unnumbered' \subseteq Voter /\ reset_step' = reset_step /\ UNCHANGED callVars
        /\ UNCHANGED historyVars
    BY <1>6 DEF SeedVoter, SeedGeneratedVoter
  <2> QED
    BY <1>3, <2>1, <2>2, <2>3 DEF historyVars
<1>16. ASSUME CountVoters \/ SeedNumberRefused PROVE TypeOK'
  <2>1. DatabaseTypeOK'
    BY <1>16, TableTypes DEF CountVoters, SeedNumberRefused
  <2>2. reset_todo' \subseteq Voter
    BY <1>16, ServerAssumption DEF CountVoters, SeedNumberRefused
  <2> QED
    BY <1>3, <1>16, <2>1, <2>2 DEF CountVoters, SeedNumberRefused, historyVars
<1>17. ASSUME SeedNumber PROVE TypeOK'
  <2>1. PICK v \in unnumbered :
          /\ update_last_sequence(v, 0)
          /\ overwritten' = overwritten \cup
               {r.vote_id : r \in {q \in VotesOf(v) : q.payload.seq <= vote_sequence[v]}}
    BY <1>17 DEF SeedNumber
  <2>2. DatabaseTypeOK'
    BY <2>1, TableTypes
  <2>3. overwritten' \subseteq Nat
    BY <2>1 DEF VotesOf, DatabaseTypeOK, VoteRow
  <2> QED
    BY <1>3, <1>17, <2>2, <2>3 DEF SeedNumber
<1>7. ASSUME SeedCandidates PROVE TypeOK'
  <2>1. PICK S \in SUBSET (ValidCandidates \ active_candidates) :
          set_active_candidates(active_candidates \cup S)
    BY <1>7 DEF SeedCandidates
  <2>2. active_candidates \cup S \in SUBSET Candidate
    BY ConstantsAssumption DEF DatabaseTypeOK
  <2> QED
    BY <1>3, <1>7, <2>1, <2>2, TableTypes DEF SeedCandidates, historyVars
<1>8. ASSUME SeedElection PROVE TypeOK'
  BY <1>3, <1>8, TableTypes DEF SeedElection, ElectionStatus, historyVars
<1>9. ASSUME NEW S \in SUBSET Voter, RegisterVoters(S) PROVE TypeOK'
  BY <1>3, <1>9, TableTypes DEF RegisterVoters, resetVars, historyVars
<1>10. ASSUME NEW v \in Voter, DeleteVoter(v) PROVE TypeOK'
  BY <1>3, <1>10, TableTypes DEF DeleteVoter, resetVars, historyVars
<1>11. ASSUME NEW c \in Candidate, ChangeCandidate(c) PROVE TypeOK'
  <2>1. active_candidates \cup {c} \in SUBSET Candidate /\ active_candidates \ {c} \in SUBSET Candidate
    BY DEF DatabaseTypeOK
  <2> QED
    BY <1>3, <1>11, <2>1, TableTypes DEF ChangeCandidate, resetVars, historyVars
<1>12. ASSUME EditVoter PROVE TypeOK'
  BY <1>3, <1>12, TableTypes DEF EditVoter, UpdateVoter, resetVars, historyVars
<1>13. ASSUME SeedFails PROVE TypeOK'
  BY <1>3, <1>13, TableTypes DEF SeedFails, historyVars
<1>14. ASSUME Crash PROVE TypeOK'
  <2>1. NoCall \in PayloadType
    BY PayloadAssumption DEF NoCall
  <2> QED
    BY <1>14, <2>1, TableTypes DEF Crash, CallTypeOK, Events
<1>15. ASSUME UNCHANGED vars PROVE TypeOK'
  BY <1>3, <1>15, TableTypes DEF vars, processVars, resetVars, historyVars
<1> QED
  BY <1>1, <1>2, <1>4, <1>5, <1>6, <1>7, <1>8, <1>9, <1>10, <1>11, <1>12, <1>13,
     <1>14, <1>15, <1>16, <1>17 DEF Next, Voting, Administration, SeedStep, Failure

(* Every variable keeps its type, whatever happens to the server.            *)
THEOREM TypeCorrect == Spec => []TypeOK
<1> QED
  BY TypeInit, TypeStep, PTL DEF Spec

(* ----------------------- the shape of a step -------------------------- *)

(* The transactions, with arguments of the right type.                       *)
Transaction ==
    \/ UNCHANGED tables
    \/ \E t \in Thread : /\ pc[t] = "record" /\ record_vote(call[t], t)
                         /\ pc' = [pc EXCEPT ![t] = "bump"]
    \/ \E v \in Voter, n \in Nat : update_last_sequence(v, n)
    \/ \E t \in Thread : set_voter_as_voted(call[t].voter)
    \/ \E t \in Thread : record_vote_cast(vote_id[t])
    \/ \E S \in SUBSET Voter : insert_voters(S)
    \/ \E v \in Voter : delete_voter(v)
    \/ \E o, n \in Voter, b \in BOOLEAN : update_voter(o, n, b)
    \/ wipe_ballots
    \/ reset_election
    \/ \E s \in ElectionStatus : insert_election_config(s)
    \/ \E S \in SUBSET Candidate : set_active_candidates(S)

(* A step of the server is at most one transaction on the tables.            *)
LEMMA OneTransaction == TypeOK /\ [Next]_vars => Transaction
<1> SUFFICES ASSUME TypeOK, [Next]_vars PROVE Transaction
  OBVIOUS
<1>1. ASSUME NEW t \in Thread, Arrival(t) PROVE UNCHANGED tables
  BY <1>1 DEF Arrival, Submit, ApiVote, SimulateVote
<1>2. ASSUME NEW t \in Thread, DemoStep(t) PROVE UNCHANGED tables \/ wipe_ballots
  BY <1>2 DEF DemoStep, NumberPayload, PickVoter, NobodyLeft, WipeForDemo
<1>3. ASSUME NEW t \in Thread, Step(t)
      PROVE  \/ UNCHANGED tables
             \/ /\ pc[t] = "record" /\ record_vote(call[t], t)
                /\ pc' = [pc EXCEPT ![t] = "bump"]
             \/ update_last_sequence(call[t].voter, call[t].seq)
             \/ set_voter_as_voted(call[t].voter)
             \/ record_vote_cast(vote_id[t])
  BY <1>3 DEF Step, ValidatePayload, LookupVoter, CheckElectionStatus,
     VerifyPayload, CheckSequence, RecordVote, UpdateLastSequence,
     SetVoterAsVoted, AuditVoteCast, AuditRefusal
<1>4. ASSUME NEW t \in Thread, DatabaseError(t) PROVE UNCHANGED tables
  BY <1>4 DEF DatabaseError, CandidatesUnreadable, SequenceUnreadable,
     SequenceNotStored, CallFails
<1>5. ASSUME Voting PROVE Transaction
  <2>1. \A t \in Thread : call[t].voter \in Voter /\ call[t].seq \in Nat
    BY DEF TypeOK, CallTypeOK, PayloadType
  <2> QED
    BY <1>1, <1>2, <1>3, <1>5, <2>1 DEF Voting, Vote, Transaction
<1>6. ASSUME SeedStep PROVE Transaction
  <2>1. CASE SeedVoter \/ SeedGeneratedVoter
    <3>1. PICK v \in reset_todo : insert_voters({v})
      BY <2>1 DEF SeedVoter, SeedGeneratedVoter
    <3>2. {v} \in SUBSET Voter
      BY ConstantsAssumption DEF TypeOK
    <3> QED
      BY <3>1, <3>2 DEF Transaction
  <2>2. CASE SeedCandidates
    <3>1. PICK S \in SUBSET (ValidCandidates \ active_candidates) :
            set_active_candidates(active_candidates \cup S)
      BY <2>2 DEF SeedCandidates
    <3>2. active_candidates \cup S \in SUBSET Candidate
      BY ConstantsAssumption DEF TypeOK, DatabaseTypeOK
    <3> QED
      BY <3>1, <3>2 DEF Transaction
  <2>3. CASE SeedElection
    BY <2>3 DEF SeedElection, Transaction, ElectionStatus
  <2>4. CASE CountVoters \/ SeedNumberRefused
    BY <2>4 DEF CountVoters, SeedNumberRefused, Transaction
  <2>5. CASE SeedNumber
    BY <2>5 DEF SeedNumber, Transaction, TypeOK
  <2> QED
    BY <1>6, <2>1, <2>2, <2>3, <2>4, <2>5 DEF SeedStep
<1>7. ASSUME NEW c \in Candidate, ChangeCandidate(c) PROVE Transaction
  <2>1. /\ active_candidates \cup {c} \in SUBSET Candidate
        /\ active_candidates \ {c} \in SUBSET Candidate
    BY DEF TypeOK, DatabaseTypeOK
  <2> QED
    BY <1>7, <2>1 DEF ChangeCandidate, Transaction
<1>8. ASSUME Administration PROVE Transaction
  <2>1. CASE \E s \in ElectionStatus : ElectionControl(s)
    BY <2>1 DEF ElectionControl, Transaction
  <2>2. CASE ResetElection
    BY <2>2 DEF ResetElection, Transaction
  <2>3. CASE \E S \in SUBSET Voter : RegisterVoters(S)
    BY <2>3 DEF RegisterVoters, Transaction
  <2>4. CASE \E v \in Voter : DeleteVoter(v)
    BY <2>4 DEF DeleteVoter, Transaction
  <2> QED
    BY <1>6, <1>7, <1>8, <2>1, <2>2, <2>3, <2>4 DEF Administration
<1>9. ASSUME EditVoter PROVE Transaction
  BY <1>9 DEF EditVoter, UpdateVoter, Transaction
<1>10. ASSUME Failure PROVE UNCHANGED tables
  BY <1>4, <1>10 DEF Failure, FailingStep, SeedFails, Crash
<1>11. UNCHANGED vars => UNCHANGED tables
  BY DEF vars, processVars
<1> QED
  BY <1>5, <1>8, <1>9, <1>10, <1>11 DEF Next, Transaction

(* --------------------- referential integrity -------------------------- *)

LEMMA IntegrityStep ==
    ASSUME TypeOK, ReferentialIntegrity, Transaction
    PROVE  ReferentialIntegrity'
<1> USE DEF ReferentialIntegrity, TypeOK, DatabaseTypeOK
<1>c. \A t \in Thread : call[t].voter \in Voter
  BY DEF CallTypeOK, PayloadType
<1>1. CASE UNCHANGED tables
  BY <1>1 DEF tables, ballotTables
<1>2. ASSUME NEW t \in Thread, record_vote(call[t], t) PROVE ReferentialIntegrity'
  BY <1>2 DEF record_vote
<1>3. ASSUME NEW v \in Voter, NEW n \in Nat, update_last_sequence(v, n)
      PROVE  ReferentialIntegrity'
  BY <1>3 DEF update_last_sequence
<1>4. ASSUME NEW t \in Thread, set_voter_as_voted(call[t].voter) PROVE ReferentialIntegrity'
  BY <1>4 DEF set_voter_as_voted
<1>5. ASSUME NEW t \in Thread, record_vote_cast(vote_id[t]) PROVE ReferentialIntegrity'
  BY <1>5 DEF record_vote_cast
<1>6. ASSUME NEW S \in SUBSET Voter, insert_voters(S) PROVE ReferentialIntegrity'
  BY <1>6 DEF insert_voters, ballotTables
<1>7. ASSUME NEW v \in Voter, delete_voter(v) PROVE ReferentialIntegrity'
  BY <1>7 DEF delete_voter, VotesOf
<1>8. ASSUME NEW o \in Voter, NEW n \in Voter, NEW b \in BOOLEAN, update_voter(o, n, b)
      PROVE  ReferentialIntegrity'
  BY <1>8 DEF update_voter, CanRename, VotesOf
<1>9. CASE wipe_ballots
  BY <1>9 DEF wipe_ballots
<1>10. CASE reset_election
  BY <1>10 DEF reset_election
<1>11. ASSUME NEW s \in ElectionStatus, insert_election_config(s) PROVE ReferentialIntegrity'
  BY <1>11 DEF insert_election_config, ballotTables
<1>12. ASSUME NEW S \in SUBSET Candidate, set_active_candidates(S) PROVE ReferentialIntegrity'
  BY <1>12 DEF set_active_candidates, ballotTables
<1> QED
  BY <1>1, <1>2, <1>3, <1>4, <1>5, <1>6, <1>7, <1>8, <1>9, <1>10, <1>11, <1>12
     DEF Transaction

(* Whatever happens, ballots and sequence rows belong to registered voters.  *)
THEOREM IntegrityHolds == Spec => []ReferentialIntegrity
<1>1. Init => ReferentialIntegrity
  BY DEF Init, ProcessInit, DatabaseInit, ReferentialIntegrity
<1>2. TypeOK /\ ReferentialIntegrity /\ [Next]_vars => ReferentialIntegrity'
  BY OneTransaction, IntegrityStep
<1> QED
  BY <1>1, <1>2, TypeCorrect, PTL DEF Spec

(* -------------------------- genuine ballots --------------------------- *)

(* What a call has been checked for by the time it reaches each step.        *)
CheckedCalls ==
    \A t \in Thread :
        /\ pc[t] \in {"lookup", "status"} \cup Cleared => call[t].complete
        /\ pc[t] \in {"status"} \cup Cleared => call[t].booth \in KnownBooths
        /\ pc[t] \in {"sequence", "record"} => call[t].authentic

GenuineInv == CheckedCalls /\ GenuineBallots

(* A step of a thread checks its own call and leaves the others alone.       *)
LEMMA CheckedThread ==
    ASSUME TypeOK, CheckedCalls, NEW t \in Thread,
           Arrival(t) \/ Step(t) \/ DemoStep(t) \/ DatabaseError(t)
    PROVE  CheckedCalls'
<1> USE DEF CheckedCalls, Cleared
<1>0. /\ pc \in [Thread -> {"idle", "reject"} \cup Entering \cup Checking \cup Cleared \cup Storing]
      /\ call \in [Thread -> PayloadType]
  BY DEF TypeOK, CallTypeOK
<1>1. CASE Arrival(t)
  BY <1>0, <1>1 DEF Arrival, Submit, ApiVote, SimulateVote
<1>2. CASE DemoStep(t)
  BY <1>0, <1>2 DEF DemoStep, NumberPayload, PickVoter, NobodyLeft, WipeForDemo,
     Continue, Return
<1>3. CASE ValidatePayload(t) \/ LookupVoter(t) \/ CheckElectionStatus(t)
  BY <1>0, <1>3 DEF ValidatePayload, LookupVoter, CheckElectionStatus, Continue, Refuse
<1>4. CASE VerifyPayload(t) \/ CheckSequence(t) \/ RecordVote(t)
  BY <1>0, <1>4 DEF VerifyPayload, CheckSequence, RecordVote, Continue, Refuse, Return
<1>5. CASE UpdateLastSequence(t) \/ SetVoterAsVoted(t) \/ AuditVoteCast(t) \/ AuditRefusal(t)
  BY <1>0, <1>5 DEF UpdateLastSequence, SetVoterAsVoted, AuditVoteCast, AuditRefusal,
     Continue, Return
<1>6. CASE DatabaseError(t)
  BY <1>0, <1>6 DEF DatabaseError, CandidatesUnreadable, SequenceUnreadable,
     SequenceNotStored, CallFails, Continue, Refuse, Return
<1> QED
  BY <1>1, <1>2, <1>3, <1>4, <1>5, <1>6 DEF Step

LEMMA CheckedStep ==
    ASSUME TypeOK, CheckedCalls, [Next]_vars
    PROVE  CheckedCalls'
<1>1. CASE Voting
  BY <1>1, CheckedThread DEF Voting, Vote
<1>2. CASE \E t \in Thread : DatabaseError(t)
  BY <1>2, CheckedThread
<1>3. CASE Administration \/ EditVoter \/ SeedFails \/ UNCHANGED vars
  <2>1. UNCHANGED <<pc, call>>
    BY <1>3 DEF Administration, ElectionControl, ResetElection, SeedStep, SeedVoter,
       CountVoters, SeedGeneratedVoter, SeedNumber, SeedNumberRefused,
       SeedCandidates, SeedElection, RegisterVoters, DeleteVoter, ChangeCandidate,
       EditVoter, UpdateVoter, SeedFails, callVars, processVars, vars
  <2> QED
    BY <2>1 DEF CheckedCalls
<1>4. CASE Crash
  BY <1>4 DEF Crash, CheckedCalls, Cleared
<1> QED
  BY <1>1, <1>2, <1>3, <1>4 DEF Next, Failure, FailingStep

(* Only an insert takes an id, and it takes the next one.                    *)
LEMMA NumberStep ==
    ASSUME TypeOK, [Next]_vars
    PROVE  \/ \E t \in Thread : pc[t] = "record" /\ record_vote(call[t], t)
           \/ votes' \subseteq votes /\ last_vote_id' = last_vote_id
<1> Transaction
  BY OneTransaction
<1> QED
  BY DEF Transaction, tables, ballotTables, update_last_sequence, set_voter_as_voted,
     record_vote_cast, insert_voters, delete_voter, update_voter, wipe_ballots,
     reset_election, insert_election_config, set_active_candidates

LEMMA GenuineStep ==
    ASSUME TypeOK, GenuineInv, [Next]_vars
    PROVE  GenuineInv'
<1> USE DEF GenuineInv
<1>1. CheckedCalls'
  BY CheckedStep
<1>2. last_vote_id \in Nat /\ votes \subseteq VoteRow
  BY DEF TypeOK, DatabaseTypeOK
<1>3. ASSUME NEW t \in Thread, pc[t] = "record", record_vote(call[t], t)
      PROVE  GenuineBallots'
  <2> DEFINE new == [vote_id |-> last_vote_id + 1, payload |-> call[t],
                     by |-> t, era |-> Era]
  <2>1. votes' = votes \cup {new} /\ last_vote_id' = last_vote_id + 1
    BY <1>3 DEF record_vote
  <2>2. /\ new.vote_id = last_vote_id + 1 /\ new.payload = call[t]
        /\ call[t].complete /\ call[t].authentic /\ call[t].booth \in KnownBooths
    BY <1>3 DEF CheckedCalls, Cleared
  <2>3. \A r \in votes : r.vote_id \in Nat /\ r.vote_id <= last_vote_id
    BY <1>2 DEF GenuineBallots, VoteRow
  <2>4. \A r \in votes : r.vote_id # new.vote_id /\ r.vote_id <= last_vote_id + 1
    BY <1>2, <2>2, <2>3
  <2> HIDE DEF new
  <2> QED
    BY <1>2, <2>1, <2>2, <2>4 DEF GenuineBallots
<1>4. CASE votes' \subseteq votes /\ last_vote_id' = last_vote_id
  BY <1>1, <1>4 DEF GenuineBallots
<1> QED
  BY <1>1, <1>3, <1>4, NumberStep

(* Whatever happens, a ballot in the table was complete, carried a good       *)
(* signature and named a registered booth when process_vote checked it, and  *)
(* it shares its vote_id with no other.                                      *)
THEOREM GenuineHolds == Spec => []GenuineBallots
<1>1. Init => GenuineInv
  BY DEF Init, ProcessInit, DatabaseInit, GenuineInv, GenuineBallots, CheckedCalls, Cleared
<1>2. TypeOK /\ GenuineInv /\ [Next]_vars => GenuineInv'
  BY GenuineStep
<1>3. GenuineInv => GenuineBallots
  BY DEF GenuineInv
<1> QED
  BY <1>1, <1>2, <1>3, TypeCorrect, PTL DEF Spec

(* --------------------------- replay protection ------------------------ *)

(* No ballot of its voter has a higher number than the payload that is about *)
(* to be stored, or whose number is; overwritten numbers do not count.       *)
HighestNumber ==
    \A t \in Thread, r \in votes :
        pc[t] \in {"record", "bump"} /\ r.payload.voter = call[t].voter
            => r.payload.seq <= call[t].seq \/ r.vote_id \in overwritten

SequenceInv == SequenceCoversBallots /\ HighestNumber

(* Steps that leave the calls alone, and the sequence rows of those whose    *)
(* ballots they leave.                                                       *)
LEMMA SequenceAside ==
    ASSUME TypeOK, SequenceInv, votes' \subseteq votes, UNCHANGED <<pc, call, overwritten>>,
           \A r \in votes' : vote_sequence'[r.payload.voter] = vote_sequence[r.payload.voter]
    PROVE  SequenceInv'
  BY DEF SequenceInv, SequenceCoversBallots, HighestNumber

LEMMA SequenceAdministration ==
    ASSUME TypeOK, SequenceInv, Administration \/ EditVoter
    PROVE  SequenceInv'
<1>0. \A r \in votes : r.payload.voter \in Voter
  BY DEF TypeOK, DatabaseTypeOK, VoteRow, PayloadType
<1>1. UNCHANGED <<pc, call>>
  BY DEF Administration, ElectionControl, ResetElection, SeedStep, SeedVoter, CountVoters,
     SeedGeneratedVoter, SeedNumber, SeedNumberRefused, SeedCandidates, SeedElection,
     RegisterVoters, DeleteVoter, ChangeCandidate, EditVoter, UpdateVoter, callVars
<1>2. CASE ResetElection
  BY <1>1, <1>2, SequenceAside DEF ResetElection, reset_election, historyVars
<1>3. ASSUME NEW v \in Voter, DeleteVoter(v) PROVE SequenceInv'
  <2>1. votes' \subseteq votes /\ \A r \in votes' : r.payload.voter # v
    BY <1>3 DEF DeleteVoter, delete_voter, VotesOf
  <2>2. \A w \in Voter : w # v => vote_sequence'[w] = vote_sequence[w]
    BY <1>3 DEF DeleteVoter, delete_voter, TypeOK, DatabaseTypeOK
  <2>3. UNCHANGED overwritten
    BY <1>3 DEF DeleteVoter, historyVars
  <2> QED
    BY <1>0, <1>1, <2>1, <2>2, <2>3, SequenceAside
<1>4. CASE SeedNumber
  <2>1. PICK v \in unnumbered :
          /\ update_last_sequence(v, 0)
          /\ overwritten' = overwritten \cup
               {r.vote_id : r \in {q \in VotesOf(v) : q.payload.seq <= vote_sequence[v]}}
    BY <1>4 DEF SeedNumber
  <2>2. votes' = votes /\ vote_sequence' = [vote_sequence EXCEPT ![v] = 0]
    BY <2>1 DEF update_last_sequence
  <2>3. \A r \in votes : r.vote_id \notin overwritten' /\ r.payload.voter = v
                            => ~(vote_sequence[v] >= r.payload.seq)
    <3>1. \A r \in votes : r.payload.voter = v /\ r.payload.seq <= vote_sequence[v]
                              => r.vote_id \in overwritten'
      BY <2>1 DEF VotesOf
    <3>2. v \in Voter /\ \A r \in votes : r.payload.seq \in Int
      BY DEF TypeOK, DatabaseTypeOK, VoteRow, PayloadType
    <3>3. vote_sequence[v] \in Int
      BY <3>2 DEF TypeOK, DatabaseTypeOK, NoRow
    <3> QED
      BY <3>1, <3>2, <3>3
  <2>4. SequenceCoversBallots'
    <3> SUFFICES ASSUME NEW r \in votes, r.vote_id \notin overwritten',
                        ~(pc[r.by] = "bump" /\ call[r.by] = r.payload)
                 PROVE  vote_sequence'[r.payload.voter] >= r.payload.seq
      BY <1>1, <2>2 DEF SequenceCoversBallots
    <3>1. vote_sequence[r.payload.voter] >= r.payload.seq
      BY <2>1 DEF SequenceInv, SequenceCoversBallots
    <3>2. r.payload.voter # v
      BY <2>3, <3>1
    <3> QED
      BY <1>0, <2>2, <3>1, <3>2 DEF TypeOK, DatabaseTypeOK
  <2>5. HighestNumber'
    BY <1>1, <2>1, <2>2 DEF SequenceInv, HighestNumber
  <2> QED
    BY <2>4, <2>5 DEF SequenceInv
<1>5. CASE ~ResetElection /\ ~SeedNumber /\ ~\E v \in Voter : DeleteVoter(v)
  <2>1. UNCHANGED <<votes, vote_sequence, overwritten>>
    BY <1>5 DEF Administration, ElectionControl, SeedStep, SeedVoter, CountVoters,
       SeedGeneratedVoter, SeedNumberRefused, SeedCandidates, SeedElection,
       RegisterVoters, ChangeCandidate, EditVoter, UpdateVoter, insert_election_config,
       insert_voters, set_active_candidates, update_voter, ballotTables, tables, historyVars
  <2> QED
    BY <1>1, <2>1, SequenceAside
<1> QED
  BY <1>2, <1>3, <1>4, <1>5

(* Steps of the only thread, before and after the critical ones.             *)
LEMMA SequenceElsewhere ==
    ASSUME NEW t0, Thread = {t0}, TypeOK, SequenceInv,
           pc[t0] # "bump", pc'[t0] \notin {"record", "bump"},
           UNCHANGED <<votes, vote_sequence, overwritten>>
    PROVE  SequenceInv'
<1>1. \A r \in votes : r.by = t0
  BY DEF TypeOK, DatabaseTypeOK, VoteRow
<1> QED
  BY <1>1 DEF SequenceInv, SequenceCoversBallots, HighestNumber

LEMMA SequenceThread ==
    ASSUME NEW t0, Thread = {t0}, TypeOK, ReferentialIntegrity, SequenceInv, Vote(t0)
    PROVE  SequenceInv'
<1> USE DEF SequenceInv
<1>0. /\ pc \in [Thread -> {"idle", "reject"} \cup Entering \cup Checking \cup Cleared \cup Storing]
      /\ call \in [Thread -> PayloadType] /\ t0 \in Thread
      /\ \A r \in votes : /\ r.by = t0 /\ r.payload.voter \in Voter
                          /\ r.payload.seq \in Nat /\ r.vote_id \in Nat
      /\ call[t0].voter \in Voter /\ call[t0].seq \in Nat
      /\ vote_sequence \in [Voter -> Nat \cup {NoRow}] /\ UNCHANGED overwritten
  BY DEF TypeOK, CallTypeOK, DatabaseTypeOK, VoteRow, PayloadType, Vote, historyVars
<1>1. CASE Arrival(t0)
  BY <1>0, <1>1, SequenceElsewhere DEF Arrival, Submit, ApiVote, SimulateVote, tables,
     ballotTables
<1>2. CASE NumberPayload(t0) \/ PickVoter(t0) \/ NobodyLeft(t0)
  BY <1>0, <1>2, SequenceElsewhere DEF NumberPayload, PickVoter, NobodyLeft, Continue,
     Return, tables, ballotTables
<1>3. CASE WipeForDemo(t0)
  BY <1>3 DEF WipeForDemo, wipe_ballots, SequenceCoversBallots, HighestNumber
<1>4. CASE \/ ValidatePayload(t0) \/ LookupVoter(t0) \/ CheckElectionStatus(t0)
           \/ VerifyPayload(t0) \/ AuditRefusal(t0)
  BY <1>0, <1>4, SequenceElsewhere DEF ValidatePayload, LookupVoter, CheckElectionStatus,
     VerifyPayload, AuditRefusal, Continue, Refuse, Return, tables, ballotTables
<1>5. CASE SetVoterAsVoted(t0) \/ AuditVoteCast(t0)
  BY <1>0, <1>5, SequenceElsewhere DEF SetVoterAsVoted, set_voter_as_voted,
     AuditVoteCast, record_vote_cast, Continue, Return
<1>6. CASE CheckSequence(t0)
  <2>1. UNCHANGED <<votes, vote_sequence>> /\ pc[t0] = "sequence"
    BY <1>6 DEF CheckSequence, tables, ballotTables
  <2>2. CASE Refuse(t0, "REPLAY_ATTACK")
    BY <1>0, <2>1, <2>2, SequenceElsewhere DEF Refuse
  <2>3. CASE call[t0].seq > get_last_sequence(call[t0].voter) /\ Continue(t0, "record")
    <3>1. \A r \in votes : \/ r.vote_id \in overwritten
                            \/ vote_sequence[r.payload.voter] >= r.payload.seq
      BY <1>0, <2>1 DEF SequenceCoversBallots
    <3>2. call' = call /\ pc'[t0] = "record"
      BY <1>0, <2>3 DEF Continue
    <3>3. \A r \in votes : r.payload.voter = call[t0].voter /\ r.vote_id \notin overwritten
                              => r.payload.seq <= call[t0].seq
      BY <1>0, <2>3, <3>1 DEF get_last_sequence, NoRow
    <3> QED
      BY <1>0, <2>1, <3>1, <3>2, <3>3 DEF SequenceCoversBallots, HighestNumber
  <2> QED
    BY <1>6, <2>2, <2>3 DEF CheckSequence
<1>7. CASE RecordVote(t0)
  <2>1. pc[t0] = "record"
    BY <1>7 DEF RecordVote
  <2>2. CASE Return(t0, "ERROR") /\ UNCHANGED tables
    BY <1>0, <2>1, <2>2, SequenceElsewhere DEF Return, tables, ballotTables
  <2>3. CASE record_vote(call[t0], t0) /\ pc' = [pc EXCEPT ![t0] = "bump"] /\ call' = call
    <3> DEFINE new == [vote_id |-> last_vote_id', payload |-> call[t0],
                       by |-> t0, era |-> Era]
    <3>1. votes' = votes \cup {new} /\ vote_sequence' = vote_sequence /\ pc'[t0] = "bump"
      BY <1>0, <2>3 DEF record_vote
    <3>2. new.payload = call[t0] /\ new.by = t0
      OBVIOUS
    <3>3. \A r \in votes : \/ r.vote_id \in overwritten
                            \/ vote_sequence[r.payload.voter] >= r.payload.seq
      BY <1>0, <2>1 DEF SequenceCoversBallots
    <3> HIDE DEF new
    <3>4. SequenceCoversBallots'
      BY <1>0, <2>3, <3>1, <3>2, <3>3 DEF SequenceCoversBallots
    <3>5. HighestNumber'
      BY <1>0, <2>1, <2>3, <3>1, <3>2 DEF HighestNumber
    <3> QED
      BY <3>4, <3>5
  <2> QED
    BY <1>7, <2>2, <2>3 DEF RecordVote
<1>8. CASE UpdateLastSequence(t0)
  <2>1. pc[t0] = "bump" /\ pc'[t0] = "mark" /\ votes' = votes
    BY <1>0, <1>8 DEF UpdateLastSequence, Continue, update_last_sequence, tables,
       ballotTables
  <2>2. \A r \in votes : r.payload.voter # call[t0].voter /\ r.vote_id \notin overwritten
                            => vote_sequence[r.payload.voter] >= r.payload.seq
    BY <1>0 DEF SequenceCoversBallots
  <2>3. \A r \in votes : r.vote_id \notin overwritten
                            => vote_sequence'[r.payload.voter] >= r.payload.seq
    <3>1. CASE update_last_sequence(call[t0].voter, call[t0].seq)
      BY <1>0, <2>1, <2>2, <3>1 DEF update_last_sequence, HighestNumber
    <3>2. CASE call[t0].voter \notin voters /\ UNCHANGED tables
      BY <2>2, <3>2 DEF ReferentialIntegrity, tables, ballotTables
    <3> QED
      BY <1>8, <3>1, <3>2 DEF UpdateLastSequence
  <2> QED
    BY <1>0, <2>1, <2>3 DEF SequenceCoversBallots, HighestNumber
<1> QED
  BY <1>1, <1>2, <1>3, <1>4, <1>5, <1>6, <1>7, <1>8 DEF Vote, Step, DemoStep

(* With one thread, and voters edited, deleted, registered and seeded at any  *)
(* time, the sequence row of a voter is at least the number of every ballot   *)
(* of that voter but the one being stored, and those whose row a reset has    *)
(* replaced by 0: the sequence check of process_vote refuses a payload that   *)
(* was counted, and seed_data.py:85 is the only way to make it forget.        *)
THEOREM SequenceCoversHolds ==
    ASSUME NEW t0, Thread = {t0}
    PROVE  EditedSpec => []SequenceCoversBallots
<1> DEFINE Inv == TypeOK /\ ReferentialIntegrity /\ SequenceInv
<1>1. Init => Inv
  BY TypeInit DEF Init, ProcessInit, DatabaseInit, ReferentialIntegrity, SequenceInv,
     SequenceCoversBallots, HighestNumber
<1>2. [OrderlyNext \/ EditVoter]_vars => [Next]_vars
  BY DEF OrderlyNext, Next
<1>3. Inv /\ [OrderlyNext \/ EditVoter]_vars => SequenceInv'
  <2> SUFFICES ASSUME Inv, [OrderlyNext \/ EditVoter]_vars PROVE SequenceInv'
    OBVIOUS
  <2>1. CASE Voting
    BY <2>1, SequenceThread DEF Voting
  <2>2. CASE Administration \/ EditVoter
    BY <2>2, SequenceAdministration
  <2>3. CASE UNCHANGED vars
    BY <2>3, SequenceAside DEF vars, processVars, tables, ballotTables, callVars, historyVars
  <2> QED
    BY <2>1, <2>2, <2>3 DEF OrderlyNext
<1>4. Inv /\ [OrderlyNext \/ EditVoter]_vars => Inv'
  BY <1>2, <1>3, TypeStep, OneTransaction, IntegrityStep
<1>5. Inv => SequenceCoversBallots
  BY DEF SequenceInv
<1> HIDE DEF Inv
<1> QED
  BY <1>1, <1>4, <1>5, PTL DEF EditedSpec

(* A payload about to be stored has a higher number than every ballot of its *)
(* voter: what the sequence check establishes while SequenceCoversBallots.    *)
AboveCounted ==
    \A t \in Thread, r \in votes :
        pc[t] = "record" /\ r.payload.voter = call[t].voter
            => r.payload.seq < call[t].seq \/ r.vote_id \in overwritten

NumbersInv == NumbersIncrease /\ AboveCounted

(* Steps that store no ballot and take no call to the insert.                *)
LEMMA NumbersAside ==
    ASSUME NEW t0, Thread = {t0}, NumbersInv, votes' \subseteq votes,
           overwritten \subseteq overwritten',
           pc'[t0] # "record" \/ UNCHANGED <<pc, call>>
    PROVE  NumbersInv'
  BY DEF NumbersInv, NumbersIncrease, AboveCounted

LEMMA NumbersThread ==
    ASSUME NEW t0, Thread = {t0}, TypeOK, GenuineBallots, SequenceCoversBallots,
           NumbersInv, Vote(t0)
    PROVE  NumbersInv'
<1>0. /\ pc \in [Thread -> {"idle", "reject"} \cup Entering \cup Checking \cup Cleared \cup Storing]
      /\ call \in [Thread -> PayloadType] /\ t0 \in Thread
      /\ \A r \in votes : /\ r.by = t0 /\ r.payload.voter \in Voter
                          /\ r.payload.seq \in Nat /\ r.vote_id \in Nat
      /\ call[t0].voter \in Voter /\ call[t0].seq \in Nat
      /\ vote_sequence \in [Voter -> Nat \cup {NoRow}]
      /\ last_vote_id \in Nat /\ UNCHANGED overwritten
  BY DEF TypeOK, CallTypeOK, DatabaseTypeOK, VoteRow, PayloadType, Vote, historyVars
<1>1. CASE Arrival(t0)
  BY <1>0, <1>1, NumbersAside DEF Arrival, Submit, ApiVote, SimulateVote, tables, ballotTables
<1>2. CASE DemoStep(t0)
  BY <1>0, <1>2, NumbersAside DEF DemoStep, NumberPayload, PickVoter, NobodyLeft, WipeForDemo,
     wipe_ballots, Continue, Return, tables, ballotTables
<1>3. CASE \/ ValidatePayload(t0) \/ LookupVoter(t0) \/ CheckElectionStatus(t0)
           \/ VerifyPayload(t0) \/ AuditRefusal(t0)
  BY <1>0, <1>3, NumbersAside DEF ValidatePayload, LookupVoter, CheckElectionStatus,
     VerifyPayload, AuditRefusal, Continue, Refuse, Return, tables, ballotTables
<1>4. CASE UpdateLastSequence(t0) \/ SetVoterAsVoted(t0) \/ AuditVoteCast(t0)
  BY <1>0, <1>4, NumbersAside DEF UpdateLastSequence, update_last_sequence, SetVoterAsVoted,
     set_voter_as_voted, AuditVoteCast, record_vote_cast, Continue, Return, tables, ballotTables
<1>5. CASE CheckSequence(t0)
  <2>1. votes' = votes /\ pc[t0] = "sequence"
    BY <1>5 DEF CheckSequence, tables, ballotTables
  <2>2. CASE Refuse(t0, "REPLAY_ATTACK")
    BY <1>0, <2>1, <2>2, NumbersAside DEF Refuse
  <2>3. CASE call[t0].seq > get_last_sequence(call[t0].voter) /\ Continue(t0, "record")
    <3>1. call' = call
      BY <2>3 DEF Continue
    <3>2. \A r \in votes : r.payload.voter = call[t0].voter
                              => r.payload.seq < call[t0].seq \/ r.vote_id \in overwritten
      BY <1>0, <2>1, <2>3 DEF SequenceCoversBallots, get_last_sequence, NoRow
    <3> QED
      BY <1>0, <2>1, <3>1, <3>2 DEF NumbersInv, NumbersIncrease, AboveCounted
  <2> QED
    BY <1>5, <2>2, <2>3 DEF CheckSequence
<1>6. CASE RecordVote(t0)
  <2>1. pc[t0] = "record"
    BY <1>6 DEF RecordVote
  <2>2. CASE Return(t0, "ERROR") /\ UNCHANGED tables
    BY <1>0, <2>2, NumbersAside DEF Return, tables, ballotTables
  <2>3. CASE record_vote(call[t0], t0) /\ pc' = [pc EXCEPT ![t0] = "bump"]
    <3> DEFINE new == [vote_id |-> last_vote_id', payload |-> call[t0],
                       by |-> t0, era |-> Era]
    <3>1. /\ votes' = votes \cup {new} /\ pc'[t0] = "bump"
          /\ new.payload = call[t0] /\ new.vote_id = last_vote_id + 1
      BY <1>0, <2>3 DEF record_vote
    <3> HIDE DEF new
    <3>2. \A r \in votes : r.vote_id < new.vote_id
      BY <1>0, <3>1 DEF GenuineBallots
    <3>3. \A r \in votes : r.payload.voter = new.payload.voter
                              => r.payload.seq < new.payload.seq \/ r.vote_id \in overwritten
      BY <2>1, <3>1 DEF NumbersInv, AboveCounted
    <3>4. NumbersIncrease'
      BY <1>0, <3>1, <3>2, <3>3 DEF NumbersInv, NumbersIncrease
    <3> QED
      BY <1>0, <3>1, <3>4 DEF NumbersInv, AboveCounted
  <2> QED
    BY <1>6, <2>2, <2>3 DEF RecordVote
<1> QED
  BY <1>1, <1>2, <1>3, <1>4, <1>5, <1>6 DEF Vote, Step

LEMMA NumbersAdministration ==
    ASSUME NEW t0, Thread = {t0}, NumbersInv, Administration \/ EditVoter
    PROVE  NumbersInv'
<1>1. UNCHANGED <<pc, call>>
  BY DEF Administration, ElectionControl, ResetElection, SeedStep, SeedVoter, CountVoters,
     SeedGeneratedVoter, SeedNumber, SeedNumberRefused,
     SeedCandidates, SeedElection, RegisterVoters, DeleteVoter, ChangeCandidate,
     EditVoter, UpdateVoter, callVars
<1>2. votes' \subseteq votes
  BY DEF Administration, ElectionControl, ResetElection, reset_election, SeedStep, SeedVoter,
     CountVoters, SeedGeneratedVoter, SeedNumber, update_last_sequence, SeedNumberRefused,
     SeedCandidates, SeedElection, RegisterVoters, DeleteVoter, delete_voter, ChangeCandidate,
     EditVoter, UpdateVoter, insert_election_config, insert_voters, set_active_candidates,
     update_voter, ballotTables, tables
<1>3. overwritten \subseteq overwritten'
  BY DEF Administration, ElectionControl, ResetElection, SeedStep, SeedVoter, CountVoters,
     SeedGeneratedVoter, SeedNumber, SeedNumberRefused, SeedCandidates, SeedElection,
     RegisterVoters, DeleteVoter, ChangeCandidate, EditVoter, UpdateVoter, historyVars
<1> QED
  BY <1>1, <1>2, <1>3, NumbersAside

(* With one thread, and voters edited, deleted, registered and seeded at any  *)
(* time, no payload is counted twice: process_vote counts the ballots of a    *)
(* voter in the order of their sequence numbers, whatever became of the       *)
(* voter's mark, but for those whose sequence row a reset replaced by 0.      *)
THEOREM NumbersHold ==
    ASSUME NEW t0, Thread = {t0}
    PROVE  EditedSpec => []NumbersIncrease
<1>1. Init => NumbersInv
  BY DEF Init, ProcessInit, DatabaseInit, NumbersInv, NumbersIncrease, AboveCounted
<1>2. TypeOK /\ GenuineBallots /\ SequenceCoversBallots /\ NumbersInv
         /\ [OrderlyNext \/ EditVoter]_vars => NumbersInv'
  <2> SUFFICES ASSUME TypeOK, GenuineBallots, SequenceCoversBallots, NumbersInv,
                      [OrderlyNext \/ EditVoter]_vars
               PROVE  NumbersInv'
    OBVIOUS
  <2>1. CASE Voting
    BY <2>1, NumbersThread DEF Voting
  <2>2. CASE Administration \/ EditVoter
    BY <2>2, NumbersAdministration
  <2>3. CASE UNCHANGED vars
    BY <2>3, NumbersAside DEF vars, processVars, tables, ballotTables, callVars, historyVars
  <2> QED
    BY <2>1, <2>2, <2>3 DEF OrderlyNext
<1>3. [OrderlyNext \/ EditVoter]_vars => [Next]_vars
  BY DEF OrderlyNext, Next
<1>4. NumbersInv => NumbersIncrease
  BY DEF NumbersInv
<1> QED
  BY <1>1, <1>2, <1>3, <1>4, TypeCorrect, GenuineHolds, SequenceCoversHolds, PTL
  DEF EditedSpec, Spec

(* ------------------------ ballots after a pause ----------------------- *)

(* No row is younger than the latest row of election_config, and a thread    *)
(* that passed the gate has stored nothing yet under a closed election.      *)
EraBound == \A r \in votes : r.era <= Era

LateGate ==
    \A t \in Thread, r \in votes :
        pc[t] \in Cleared /\ r.by = t /\ r.era = Era
            => get_election_status = "ACTIVE"

LateInv == EraBound /\ LateGate /\ LateBallotsBounded

(* The only way through the gate is to see ACTIVE.                           *)
LEMMA GateStep ==
    ASSUME TypeOK, [Next]_vars, NEW u \in Thread, pc'[u] \in Cleared
    PROVE  \/ pc[u] \in Cleared
           \/ get_election_status = "ACTIVE" /\ election_config' = election_config
<1> USE DEF Cleared
<1>0. pc \in [Thread -> {"idle", "reject"} \cup Entering \cup Checking \cup Cleared \cup Storing]
  BY DEF TypeOK, CallTypeOK
<1>1. ASSUME NEW t \in Thread, Arrival(t) PROVE pc[u] \in Cleared
  BY <1>0, <1>1 DEF Arrival, Submit, ApiVote, SimulateVote
<1>2. ASSUME NEW t \in Thread, DemoStep(t) PROVE pc[u] \in Cleared
  BY <1>0, <1>2 DEF DemoStep, NumberPayload, PickVoter, NobodyLeft, WipeForDemo,
     Continue, Return
<1>3. ASSUME NEW t \in Thread, CheckElectionStatus(t)
      PROVE  pc[u] \in Cleared \/ (get_election_status = "ACTIVE" /\ UNCHANGED tables)
  BY <1>0, <1>3 DEF CheckElectionStatus, Continue, Refuse
<1>4. ASSUME NEW t \in Thread, Step(t), ~CheckElectionStatus(t) PROVE pc[u] \in Cleared
  BY <1>0, <1>4 DEF Step, ValidatePayload, LookupVoter, VerifyPayload, CheckSequence,
     RecordVote, UpdateLastSequence, SetVoterAsVoted, AuditVoteCast, AuditRefusal,
     Continue, Refuse, Return
<1>5. ASSUME NEW t \in Thread, DatabaseError(t) PROVE pc[u] \in Cleared
  BY <1>0, <1>5 DEF DatabaseError, CandidatesUnreadable, SequenceUnreadable,
     SequenceNotStored, CallFails, Continue, Refuse, Return
<1>6. ASSUME Administration \/ EditVoter \/ SeedFails \/ UNCHANGED vars
      PROVE  pc[u] \in Cleared
  BY <1>6 DEF Administration, ElectionControl, ResetElection, SeedStep, SeedVoter,
     CountVoters, SeedGeneratedVoter, SeedNumber, SeedNumberRefused,
     SeedCandidates, SeedElection, RegisterVoters, DeleteVoter, ChangeCandidate,
     EditVoter, UpdateVoter, SeedFails, callVars, processVars, vars
<1>7. ASSUME Crash PROVE FALSE
  BY <1>7 DEF Crash
<1> QED
  BY <1>1, <1>2, <1>3, <1>4, <1>5, <1>6, <1>7 DEF Next, Voting, Vote, Failure, FailingStep,
     tables

(* A step stores one ballot, or removes some and may add an election row.    *)
LEMMA BallotStep ==
    ASSUME TypeOK, [Next]_vars
    PROVE  \/ \E t \in Thread : /\ pc[t] = "record" /\ record_vote(call[t], t)
                                /\ pc' = [pc EXCEPT ![t] = "bump"]
           \/ /\ votes' \subseteq votes
              /\ \/ election_config' = election_config
                 \/ \E s \in ElectionStatus : election_config' = Append(election_config, s)
<1> Transaction
  BY OneTransaction
<1> QED
  BY DEF Transaction, tables, ballotTables, update_last_sequence, set_voter_as_voted,
     record_vote_cast, insert_voters, delete_voter, update_voter, wipe_ballots,
     reset_election, insert_election_config, set_active_candidates

LEMMA LateStep ==
    ASSUME TypeOK, LateInv, [Next]_vars
    PROVE  LateInv'
<1> USE DEF LateInv, EraBound, LateGate, LateBallotsBounded, ClosedEra
<1>t. /\ election_config \in Seq(ElectionStatus) /\ Era \in Nat
      /\ \A r \in votes : r.era \in Nat /\ r.by \in Thread
      /\ pc \in [Thread -> {"idle", "reject"} \cup Entering \cup Checking \cup Cleared \cup Storing]
  BY DEF TypeOK, DatabaseTypeOK, CallTypeOK, VoteRow, Era
<1>1. ASSUME NEW t \in Thread, pc[t] = "record", record_vote(call[t], t),
             pc' = [pc EXCEPT ![t] = "bump"]
      PROVE  LateInv'
  <2> DEFINE new == [vote_id |-> last_vote_id', payload |-> call[t], by |-> t, era |-> Era]
  <2>1. votes' = votes \cup {new} /\ election_config' = election_config
    BY <1>1 DEF record_vote
  <2>2. Era' = Era /\ get_election_status' = get_election_status
    BY <2>1 DEF Era, get_election_status
  <2>3. EraBound'
    BY <1>t, <2>1, <2>2
  <2>4. LateGate'
    BY <1>t, <1>1, <2>1, <2>2 DEF Cleared
  <2>5. \A q \in votes : q.by = t /\ q.era = Era => ~ClosedEra(Era)
    BY <1>1 DEF get_election_status, Cleared
  <2>6. LateBallotsBounded'
    BY <2>1, <2>2, <2>5
  <2> QED
    BY <2>3, <2>4, <2>6
<1>2. ASSUME votes' \subseteq votes, election_config' = election_config PROVE LateInv'
  <2>1. Era' = Era /\ get_election_status' = get_election_status
    BY <1>2 DEF Era, get_election_status
  <2>2. LateGate'
    BY <1>2, <2>1, GateStep
  <2> QED
    BY <1>2, <2>1, <2>2
<1>3. ASSUME votes' \subseteq votes, NEW s \in ElectionStatus,
             election_config' = Append(election_config, s)
      PROVE  LateInv'
  <2>1. Era' = Era + 1 /\ \A e \in 1 .. Era : election_config'[e] = election_config[e]
    BY <1>3, <1>t DEF Era
  <2>2. EraBound' /\ \A r \in votes' : r.era # Era'
    BY <1>3, <1>t, <2>1
  <2>3. LateGate'
    BY <2>2
  <2>4. \A r \in votes' : ClosedEra(r.era)' => ClosedEra(r.era)
    <3>1. TAKE r \in votes'
    <3>2. r.era = 0 \/ r.era \in 1 .. Era
      BY <1>3, <1>t
    <3> QED
      BY <2>1, <3>2
  <2>5. LateBallotsBounded'
    BY <1>3, <2>4
  <2> QED
    BY <2>2, <2>3, <2>5
<1> QED
  BY <1>1, <1>2, <1>3, BallotStep

(* After a pause, each thread stores at most one ballot, whatever happens.    *)
THEOREM LateBallotsHolds == Spec => []LateBallotsBounded
<1>1. Init => LateInv
  BY DEF Init, ProcessInit, DatabaseInit, LateInv, EraBound, LateGate, LateBallotsBounded
<1>2. TypeOK /\ LateInv /\ [Next]_vars => LateInv'
  BY LateStep
<1>3. LateInv => LateBallotsBounded
  BY DEF LateInv
<1> QED
  BY <1>1, <1>2, <1>3, TypeCorrect, PTL DEF Spec

(* --------------------- ballots on orderly days ------------------------ *)

Ready == {"status"} \cup Cleared

(* A thread that found its voter unmarked has no ballot of that voter in the *)
(* table; this is what makes OneBallotPerThread inductive.                   *)
NoBallotYet ==
    \A t \in Thread, r \in votes :
        pc[t] \in Ready /\ r.by = t => r.payload.voter # call[t].voter

OrderlyInv == BallotIsMarked /\ BallotIsAudited /\ NoBallotYet /\ OneBallotPerThread

QuietStep(t) ==
    \/ Arrival(t) \/ NumberPayload(t) \/ PickVoter(t) \/ NobodyLeft(t)
    \/ ValidatePayload(t) \/ LookupVoter(t) \/ CheckElectionStatus(t)
    \/ VerifyPayload(t) \/ CheckSequence(t) \/ AuditRefusal(t)
    \/ RecordVote(t) /\ UNCHANGED tables

(* The steps of a thread that leave the tables alone.                        *)
LEMMA QuietSteps ==
    ASSUME TypeOK, NEW t \in Thread, QuietStep(t)
    PROVE  /\ UNCHANGED tables
           /\ pc[t] \notin Storing
           /\ \A u \in Thread \ {t} : /\ pc'[u] = pc[u] /\ call'[u] = call[u]
                                      /\ vote_id'[u] = vote_id[u]
           /\ pc'[t] \in Ready => /\ call'[t] = call[t]
                                  /\ \/ pc[t] \in Ready
                                     \/ call[t].voter \notin has_voted
<1> USE DEF Ready, Cleared, Storing, Entering
<1>t. /\ pc \in [Thread -> {"idle", "reject"} \cup Entering \cup Checking \cup Cleared \cup Storing]
      /\ call \in [Thread -> PayloadType] /\ vote_id \in [Thread -> Nat]
  BY DEF TypeOK, CallTypeOK
<1>1. CASE Arrival(t)
  BY <1>t, <1>1 DEF Arrival, Submit, ApiVote, SimulateVote
<1>2. CASE NumberPayload(t) \/ PickVoter(t) \/ NobodyLeft(t)
  BY <1>t, <1>2 DEF NumberPayload, PickVoter, NobodyLeft, Continue, Return
<1>3. CASE \/ ValidatePayload(t) \/ LookupVoter(t) \/ CheckElectionStatus(t)
           \/ VerifyPayload(t) \/ CheckSequence(t) \/ AuditRefusal(t)
  BY <1>t, <1>3 DEF ValidatePayload, LookupVoter, CheckElectionStatus, VerifyPayload,
     CheckSequence, AuditRefusal, Continue, Refuse, Return
<1>4. CASE RecordVote(t) /\ UNCHANGED tables
  <2>1. ~ record_vote(call[t], t)
    BY <1>4 DEF record_vote, tables, ballotTables, TypeOK, DatabaseTypeOK
  <2> QED
    BY <1>t, <1>4, <2>1 DEF RecordVote, Return
<1> QED
  BY <1>1, <1>2, <1>3, <1>4 DEF QuietStep

LEMMA OrderlyVote ==
    ASSUME TypeOK, ReferentialIntegrity, OrderlyInv, NEW t \in Thread, Vote(t)
    PROVE  OrderlyInv'
<1> USE DEF OrderlyInv, BallotIsMarked, BallotIsAudited, NoBallotYet, OneBallotPerThread,
        Ready, Cleared, Storing
<1>t. /\ pc \in [Thread -> {"idle", "reject"} \cup Entering \cup Checking \cup Cleared \cup Storing]
      /\ call \in [Thread -> PayloadType] /\ vote_id \in [Thread -> Nat]
      /\ \A r \in votes : r.by \in Thread /\ r.payload.voter \in voters
  BY DEF TypeOK, CallTypeOK, DatabaseTypeOK, VoteRow, ReferentialIntegrity
<1>1. CASE QuietStep(t)
  BY <1>t, <1>1, QuietSteps DEF tables, ballotTables
<1>2. CASE RecordVote(t) /\ record_vote(call[t], t)
  <2> DEFINE new == [vote_id |-> last_vote_id', payload |-> call[t], by |-> t, era |-> Era]
  <2>1. /\ votes' = votes \cup {new}
        /\ UNCHANGED <<has_voted, cast_log, call>>
        /\ pc[t] = "record" /\ pc' = [pc EXCEPT ![t] = "bump"]
        /\ vote_id' = [vote_id EXCEPT ![t] = last_vote_id']
    <3>1. call[t].voter \in voters
      BY <1>2 DEF record_vote
    <3>2. pc[t] = "record" /\ UNCHANGED call /\ pc' = [pc EXCEPT ![t] = "bump"]
          /\ vote_id' = [vote_id EXCEPT ![t] = last_vote_id']
      BY <1>2, <3>1 DEF RecordVote
    <3> QED
      BY <1>2, <3>2 DEF record_vote
  <2>2. BallotIsMarked' /\ BallotIsAudited' /\ NoBallotYet'
    BY <1>t, <2>1
  <2>3. OneBallotPerThread'
    BY <2>1
  <2> QED
    BY <2>2, <2>3
<1>3. CASE UpdateLastSequence(t)
  BY <1>t, <1>3 DEF UpdateLastSequence, update_last_sequence, Continue, tables, ballotTables
<1>4. CASE SetVoterAsVoted(t)
  BY <1>t, <1>4 DEF SetVoterAsVoted, set_voter_as_voted, Continue
<1>5. CASE AuditVoteCast(t)
  BY <1>t, <1>5 DEF AuditVoteCast, record_vote_cast, Return
<1>6. CASE WipeForDemo(t)
  BY <1>6 DEF WipeForDemo, wipe_ballots
<1> QED
  BY <1>1, <1>2, <1>3, <1>4, <1>5, <1>6
     DEF Vote, Step, DemoStep, QuietStep, RecordVote

LEMMA OrderlyStep ==
    ASSUME TypeOK, ReferentialIntegrity, OrderlyInv, [OrderlyNext]_vars
    PROVE  OrderlyInv'
<1> USE DEF OrderlyInv, BallotIsMarked, BallotIsAudited, NoBallotYet, OneBallotPerThread
<1>1. CASE Voting
  BY <1>1, OrderlyVote DEF Voting
<1>2. CASE ResetElection
  BY <1>2 DEF ResetElection, reset_election
<1>3. ASSUME NEW v \in Voter, DeleteVoter(v) PROVE OrderlyInv'
  BY <1>3 DEF DeleteVoter, delete_voter, VotesOf, callVars
<1>4. CASE \/ \E s \in ElectionStatus : ElectionControl(s)
           \/ \E S \in SUBSET Voter : RegisterVoters(S)
           \/ \E c \in Candidate : ChangeCandidate(c)
           \/ SeedStep
  <2>1. UNCHANGED <<votes, has_voted, cast_log, callVars>>
    BY <1>4 DEF ElectionControl, insert_election_config, RegisterVoters, insert_voters,
       ChangeCandidate, set_active_candidates, SeedStep, SeedVoter, CountVoters, tables,
       update_last_sequence, SeedGeneratedVoter, SeedNumber, SeedNumberRefused, SeedCandidates,
       SeedElection, ballotTables
  <2> QED
    BY <2>1 DEF callVars
<1>5. CASE UNCHANGED vars
  BY <1>5 DEF vars, processVars, tables, ballotTables, callVars
<1> QED
  BY <1>1, <1>2, <1>3, <1>4, <1>5 DEF OrderlyNext, Administration

(* On orderly days, with any number of threads and any administration but    *)
(* the edit of a voter: no voter has two ballots from one thread, and every  *)
(* ballot is, or is about to be, marked and audited.                         *)
THEOREM OrderlyHolds ==
    OrderlySpec => [](OneBallotPerThread /\ BallotIsMarked /\ BallotIsAudited)
<1>1. Init => TypeOK /\ ReferentialIntegrity /\ OrderlyInv
  BY TypeInit DEF Init, ProcessInit, DatabaseInit, ReferentialIntegrity, OrderlyInv,
     BallotIsMarked, BallotIsAudited, NoBallotYet, OneBallotPerThread
<1>2. [OrderlyNext]_vars => [Next]_vars
  BY DEF OrderlyNext, Next
<1>3. TypeOK /\ ReferentialIntegrity /\ OrderlyInv /\ [OrderlyNext]_vars
        => TypeOK' /\ ReferentialIntegrity' /\ OrderlyInv'
  BY <1>2, TypeStep, OneTransaction, IntegrityStep, OrderlyStep
<1>4. OrderlyInv => OneBallotPerThread /\ BallotIsMarked /\ BallotIsAudited
  BY DEF OrderlyInv
<1> QED
  BY <1>1, <1>3, <1>4, PTL DEF OrderlySpec

(* One person, one vote, if the server handles one request at a time: this is  *)
(* what two threads break (run double_vote_race).                            *)
THEOREM OneThreadOneBallot ==
    ASSUME NEW t0, Thread = {t0}
    PROVE  OrderlySpec => []OneBallotPerVoter
<1>1. TypeOK /\ OneBallotPerThread => OneBallotPerVoter
  BY DEF TypeOK, DatabaseTypeOK, VoteRow, OneBallotPerThread, OneBallotPerVoter
<1>2. OrderlySpec => Spec
  BY PTL DEF OrderlySpec, OrderlyNext, Spec, Next
<1> QED
  BY <1>1, <1>2, OrderlyHolds, TypeCorrect, PTL

(* A stored ballot belongs to a voter marked as voted, or the thread that      *)
(* stored it is about to mark the voter: process_vote with orderly calls.      *)
THEOREM MarkedHolds == OrderlySpec => []BallotIsMarked
  BY OrderlyHolds, PTL

(* A stored ballot has its VOTE_CAST row, or the thread that stored it is about *)
(* to write the row.                                                            *)
THEOREM AuditedHolds == OrderlySpec => []BallotIsAudited
  BY OrderlyHolds, PTL

(* ------------------- ballots that are called cast --------------------- *)

(* Ids only grow, a thread that is storing owns the row of its id, and by    *)
(* the time it writes the audit row the voter of that row is marked.         *)
IdsAreOld ==
    /\ \A r \in votes : r.vote_id <= last_vote_id
    /\ \A n \in cast_log : n <= last_vote_id
    /\ \A t \in Thread : vote_id[t] <= last_vote_id

OwnRow ==
    \A t \in Thread, r \in votes :
        pc[t] \in Storing /\ r.vote_id = vote_id[t]
            => /\ r.payload.voter = call[t].voter
               /\ pc[t] = "audit" => r.payload.voter \in has_voted

CastInv == IdsAreOld /\ OwnRow /\ CastMeansMarked

FaultyNext == Voting \/ Administration \/ Failure

(* Steps that add no row and clear no flag of a ballot that stays.           *)
LEMMA CastKept ==
    ASSUME TypeOK, CastInv, last_vote_id' = last_vote_id, cast_log' \subseteq cast_log,
           votes' \subseteq votes,
           \A r \in votes' : r.payload.voter \in has_voted => r.payload.voter \in has_voted',
           \A t \in Thread : /\ vote_id'[t] \in {vote_id[t], 0}
                             /\ pc'[t] \in Storing => /\ pc'[t] = pc[t] \/ pc'[t] = "mark"
                                                     /\ call'[t] = call[t]
                                                     /\ vote_id'[t] = vote_id[t]
                                                     /\ pc[t] \in Storing
    PROVE  CastInv'
<1>1. IdsAreOld'
  <2>1. 0 <= last_vote_id
    BY DEF TypeOK, DatabaseTypeOK
  <2>2. \A t \in Thread : vote_id'[t] = vote_id[t] \/ vote_id'[t] = 0
    OBVIOUS
  <2>3. IdsAreOld
    BY DEF CastInv
  <2>4. \A t \in Thread : vote_id'[t] <= last_vote_id'
    BY <2>1, <2>2, <2>3 DEF IdsAreOld
  <2>5. /\ \A r \in votes' : r.vote_id <= last_vote_id'
        /\ \A n \in cast_log' : n <= last_vote_id'
    BY <2>3 DEF IdsAreOld
  <2> QED
    BY <2>4, <2>5 DEF IdsAreOld
<1>2. OwnRow'
  BY DEF CastInv, OwnRow, Storing
<1>3. CastMeansMarked'
  BY DEF CastInv, CastMeansMarked
<1> QED
  BY <1>1, <1>2, <1>3 DEF CastInv

LEMMA CastVote ==
    ASSUME TypeOK, ReferentialIntegrity, CastInv, NEW t \in Thread, Vote(t)
    PROVE  CastInv'
<1> USE DEF Storing
<1>t. /\ pc \in [Thread -> {"idle", "reject"} \cup Entering \cup Checking \cup Cleared \cup Storing]
      /\ call \in [Thread -> PayloadType] /\ vote_id \in [Thread -> Nat]
      /\ last_vote_id \in Nat /\ cast_log \subseteq Nat
      /\ \A r \in votes : r.vote_id \in Nat \ {0} /\ r.payload.voter \in voters
  BY DEF TypeOK, CallTypeOK, DatabaseTypeOK, VoteRow, ReferentialIntegrity
<1>1. CASE QuietStep(t)
  <2>1. UNCHANGED tables
    BY <1>1, QuietSteps
  <2>2. \A u \in Thread : /\ vote_id'[u] \in {vote_id[u], 0}
                          /\ pc'[u] \in Storing => /\ pc'[u] = pc[u]
                                                  /\ call'[u] = call[u]
                                                  /\ vote_id'[u] = vote_id[u]
    <3>1. vote_id'[t] \in {vote_id[t], 0} /\ pc'[t] \notin Storing
      <4> USE DEF Cleared, Checking, Entering
      <4>1. CASE Arrival(t) \/ NumberPayload(t) \/ PickVoter(t) \/ NobodyLeft(t)
        BY <1>t, <4>1 DEF Arrival, Submit, ApiVote, SimulateVote, NumberPayload,
           PickVoter, NobodyLeft, Continue, Return
      <4>2. CASE \/ ValidatePayload(t) \/ LookupVoter(t) \/ CheckElectionStatus(t)
                 \/ VerifyPayload(t) \/ CheckSequence(t) \/ AuditRefusal(t)
        BY <1>t, <4>2 DEF ValidatePayload, LookupVoter, CheckElectionStatus,
           VerifyPayload, CheckSequence, AuditRefusal, Continue, Refuse, Return
      <4>3. CASE RecordVote(t) /\ UNCHANGED tables
        <5>1. ~ record_vote(call[t], t)
          BY <1>t, <4>3 DEF record_vote, tables, ballotTables
        <5> QED
          BY <1>t, <4>3, <5>1 DEF RecordVote, Return
      <4> QED
        BY <1>1, <4>1, <4>2, <4>3 DEF QuietStep
    <3> QED
      BY <1>1, <3>1, QuietSteps
  <2> QED
    BY <2>1, <2>2, CastKept DEF tables, ballotTables
<1>2. CASE RecordVote(t) /\ record_vote(call[t], t)
  <2> DEFINE new == [vote_id |-> last_vote_id', payload |-> call[t], by |-> t, era |-> Era]
  <2>1. /\ votes' = votes \cup {new} /\ last_vote_id' = last_vote_id + 1
        /\ UNCHANGED <<has_voted, cast_log, call>>
        /\ pc[t] = "record" /\ pc' = [pc EXCEPT ![t] = "bump"]
        /\ vote_id' = [vote_id EXCEPT ![t] = last_vote_id']
    <3>1. call[t].voter \in voters
      BY <1>2 DEF record_vote
    <3>2. pc[t] = "record" /\ UNCHANGED call /\ pc' = [pc EXCEPT ![t] = "bump"]
          /\ vote_id' = [vote_id EXCEPT ![t] = last_vote_id']
      BY <1>2, <3>1 DEF RecordVote
    <3> QED
      BY <1>2, <3>2 DEF record_vote
  <2>2. IdsAreOld'
    BY <1>t, <2>1 DEF CastInv, IdsAreOld
  <2>3. OwnRow'
    BY <1>t, <2>1 DEF CastInv, IdsAreOld, OwnRow
  <2>4. CastMeansMarked'
    BY <1>t, <2>1 DEF CastInv, IdsAreOld, CastMeansMarked
  <2> QED
    BY <2>2, <2>3, <2>4 DEF CastInv
<1>3. CASE UpdateLastSequence(t)
  <2>1. UNCHANGED <<votes, last_vote_id, cast_log, has_voted, call, vote_id>>
        /\ pc[t] = "bump" /\ pc' = [pc EXCEPT ![t] = "mark"]
    BY <1>3 DEF UpdateLastSequence, update_last_sequence, Continue, tables, ballotTables
  <2> QED
    BY <1>t, <2>1, CastKept
<1>4. CASE SetVoterAsVoted(t)
  <2>1. UNCHANGED <<votes, last_vote_id, cast_log, call, vote_id>>
        /\ has_voted' = has_voted \cup ({call[t].voter} \cap voters)
        /\ pc[t] = "mark" /\ pc' = [pc EXCEPT ![t] = "audit"]
    BY <1>4 DEF SetVoterAsVoted, set_voter_as_voted, Continue
  <2> QED
    BY <1>t, <2>1 DEF CastInv, IdsAreOld, OwnRow, CastMeansMarked
<1>5. CASE AuditVoteCast(t)
  <2>1. UNCHANGED <<votes, last_vote_id, has_voted>>
        /\ cast_log' = cast_log \cup {vote_id[t]}
        /\ pc[t] = "audit" /\ pc' = [pc EXCEPT ![t] = "idle"]
        /\ vote_id' = [vote_id EXCEPT ![t] = 0] /\ call' = [call EXCEPT ![t] = NoCall]
    BY <1>5 DEF AuditVoteCast, record_vote_cast, Return
  <2> QED
    BY <1>t, <2>1 DEF CastInv, IdsAreOld, OwnRow, CastMeansMarked
<1>6. CASE WipeForDemo(t)
  <2>1. UNCHANGED <<last_vote_id, cast_log, call, vote_id>> /\ votes' = {}
        /\ pc' = [pc EXCEPT ![t] = "repick"]
    BY <1>6 DEF WipeForDemo, wipe_ballots, Continue
  <2> QED
    BY <1>t, <2>1, CastKept
<1> QED
  BY <1>1, <1>2, <1>3, <1>4, <1>5, <1>6
     DEF Vote, Step, DemoStep, QuietStep, RecordVote

LEMMA CastStep ==
    ASSUME TypeOK, ReferentialIntegrity, CastInv, [FaultyNext]_vars
    PROVE  CastInv'
<1>t. /\ pc \in [Thread -> {"idle", "reject"} \cup Entering \cup Checking \cup Cleared \cup Storing]
      /\ call \in [Thread -> PayloadType] /\ vote_id \in [Thread -> Nat]
  BY DEF TypeOK, CallTypeOK
<1>1. CASE Voting
  BY <1>1, CastVote DEF Voting
<1>2. CASE Administration \/ SeedFails \/ UNCHANGED vars
  <2>1. /\ UNCHANGED <<last_vote_id, callVars>> /\ votes' \subseteq votes
        /\ cast_log' \subseteq cast_log
        /\ \A r \in votes' : r.payload.voter \in has_voted => r.payload.voter \in has_voted'
    BY <1>2 DEF Administration, ElectionControl, insert_election_config, ResetElection,
       reset_election, SeedStep, SeedVoter, CountVoters, SeedGeneratedVoter, SeedNumber,
       update_last_sequence, SeedNumberRefused, SeedCandidates, SeedElection, RegisterVoters,
       insert_voters, DeleteVoter, delete_voter, VotesOf, ChangeCandidate,
       set_active_candidates, SeedFails, vars, processVars, tables, ballotTables
  <2> QED
    BY <1>t, <2>1, CastKept DEF callVars
<1>3. ASSUME NEW t \in Thread, DatabaseError(t) PROVE CastInv'
  <2>1. UNCHANGED tables
    BY <1>3 DEF DatabaseError, CandidatesUnreadable, SequenceUnreadable,
       SequenceNotStored, CallFails
  <2>2. \A u \in Thread : /\ vote_id'[u] \in {vote_id[u], 0}
                          /\ pc'[u] \in Storing => /\ pc'[u] = pc[u] \/ pc'[u] = "mark"
                                                  /\ pc[u] \in Storing
                                                  /\ call'[u] = call[u]
                                                  /\ vote_id'[u] = vote_id[u]
    BY <1>t, <1>3 DEF DatabaseError, CandidatesUnreadable, SequenceUnreadable,
       SequenceNotStored, CallFails, Continue, Refuse, Return, Storing
  <2> QED
    BY <2>1, <2>2, CastKept DEF tables, ballotTables
<1>4. CASE Crash
  BY <1>t, <1>4, CastKept DEF Crash, tables, ballotTables, Storing
<1> QED
  BY <1>1, <1>2, <1>3, <1>4 DEF FaultyNext, Failure, FailingStep

(* Whatever fails or crashes, as long as nobody edits a voter: a ballot that *)
(* has its VOTE_CAST row belongs to a voter who is marked.                   *)
THEOREM CastHolds == FaultySpec => []CastMeansMarked
<1>1. Init => TypeOK /\ ReferentialIntegrity /\ CastInv
  BY TypeInit DEF Init, ProcessInit, DatabaseInit, ReferentialIntegrity, CastInv,
     IdsAreOld, OwnRow, CastMeansMarked
<1>2. [FaultyNext]_vars => [Next]_vars
  BY DEF FaultyNext, Next
<1>3. TypeOK /\ ReferentialIntegrity /\ CastInv /\ [FaultyNext]_vars
        => TypeOK' /\ ReferentialIntegrity' /\ CastInv'
  BY <1>2, TypeStep, OneTransaction, IntegrityStep, CastStep
<1>4. CastInv => CastMeansMarked
  BY DEF CastInv
<1> QED
  BY <1>1, <1>3, <1>4, PTL DEF FaultySpec, FaultyNext

(* -------------- ballots whose call was cut short ------------------------ *)

(* The call of r has still to write the mark, or the audit row.              *)
StoringRow(r) == pc[r.by] \in Storing /\ vote_id[r.by] = r.vote_id

CutInv == CastInv /\ UnfinishedIsCut

(* Steps that add no row, clear no mark and take no audit row of a ballot     *)
(* that stays, and leave alone whatever is storing.                          *)
LEMMA CutKept ==
    ASSUME UnfinishedIsCut, votes' \subseteq votes, cut \subseteq cut',
           \A r \in votes' : r.payload.voter \in has_voted => r.payload.voter \in has_voted',
           \A r \in votes' : r.vote_id \in cast_log => r.vote_id \in cast_log',
           \A r \in votes' :
               StoringRow(r) => \/ r.vote_id \in cut'
                                \/ /\ pc'[r.by] \in Storing
                                   /\ vote_id'[r.by] = vote_id[r.by]
                                   /\ \/ pc'[r.by] # "audit"
                                      \/ pc[r.by] = "audit"
                                      \/ r.payload.voter \in has_voted'
    PROVE  UnfinishedIsCut'
<1> DEFINE Marked(r) == \/ r.payload.voter \in has_voted
                        \/ (StoringRow(r) /\ pc[r.by] # "audit")
           Audited(r) == r.vote_id \in cast_log \/ StoringRow(r)
<1>1. \A r \in votes : r.vote_id \in cut \/ (Marked(r) /\ Audited(r))
  BY DEF UnfinishedIsCut, StoringRow
<1>2. ASSUME NEW r \in votes', r.vote_id \notin cut' PROVE Marked(r)' /\ Audited(r)'
  <2>1. Marked(r) /\ Audited(r)
    BY <1>1, <1>2
  <2>2. StoringRow(r) => /\ pc'[r.by] \in Storing /\ vote_id'[r.by] = r.vote_id
                         /\ \/ pc'[r.by] # "audit" \/ pc[r.by] = "audit"
                            \/ r.payload.voter \in has_voted'
    BY <1>2 DEF StoringRow
  <2> QED
    BY <1>2, <2>1, <2>2 DEF StoringRow
<1> QED
  BY <1>2 DEF UnfinishedIsCut, StoringRow

LEMMA CutVote ==
    ASSUME TypeOK, ReferentialIntegrity, CutInv, NEW t \in Thread, Vote(t)
    PROVE  UnfinishedIsCut'
<1> USE DEF Storing
<1>t. /\ pc \in [Thread -> {"idle", "reject"} \cup Entering \cup Checking \cup Cleared \cup Storing]
      /\ call \in [Thread -> PayloadType] /\ vote_id \in [Thread -> Nat]
      /\ last_vote_id \in Nat
      /\ \A r \in votes : /\ r.by \in Thread /\ r.payload.voter \in voters
                          /\ r.vote_id \in Nat /\ r.vote_id <= last_vote_id
      /\ cut' = cut /\ UnfinishedIsCut
  BY DEF TypeOK, CallTypeOK, DatabaseTypeOK, VoteRow, ReferentialIntegrity, CutInv,
     CastInv, IdsAreOld, Vote, historyVars
<1>1. CASE QuietStep(t)
  <2>1. UNCHANGED tables
    BY <1>1, QuietSteps
  <2>2. \A u \in Thread : pc[u] \in Storing => pc'[u] = pc[u] /\ vote_id'[u] = vote_id[u]
    BY <1>1, QuietSteps
  <2> QED
    BY <1>t, <2>1, <2>2, CutKept DEF tables, ballotTables, StoringRow
<1>2. CASE RecordVote(t) /\ record_vote(call[t], t)
  <2> DEFINE new == [vote_id |-> last_vote_id', payload |-> call[t], by |-> t, era |-> Era]
  <2>1. /\ votes' = votes \cup {new} /\ last_vote_id' = last_vote_id + 1
        /\ UNCHANGED <<has_voted, cast_log>> /\ call[t].voter \in voters
    BY <1>2 DEF record_vote
  <2>2. /\ pc[t] = "record" /\ pc' = [pc EXCEPT ![t] = "bump"]
        /\ vote_id' = [vote_id EXCEPT ![t] = last_vote_id']
    BY <1>2, <2>1 DEF RecordVote
  <2>3. \A r \in votes : r.by # t => pc'[r.by] = pc[r.by] /\ vote_id'[r.by] = vote_id[r.by]
    BY <1>t, <2>2
  <2>4. new.by = t /\ new.vote_id = last_vote_id' /\ pc'[t] = "bump" /\ vote_id'[t] = last_vote_id'
    BY <1>t, <2>2
  <2> HIDE DEF new
  <2> QED
    BY <1>t, <2>1, <2>2, <2>3, <2>4 DEF UnfinishedIsCut
<1>3. CASE UpdateLastSequence(t)
  <2>1. UNCHANGED <<votes, cast_log, has_voted, vote_id>>
        /\ pc[t] = "bump" /\ pc' = [pc EXCEPT ![t] = "mark"]
    BY <1>3 DEF UpdateLastSequence, update_last_sequence, Continue, tables, ballotTables
  <2> QED
    BY <1>t, <2>1, CutKept DEF StoringRow
<1>4. CASE SetVoterAsVoted(t)
  <2>1. UNCHANGED <<votes, cast_log, vote_id>>
        /\ has_voted' = has_voted \cup ({call[t].voter} \cap voters)
        /\ pc[t] = "mark" /\ pc' = [pc EXCEPT ![t] = "audit"]
    BY <1>4 DEF SetVoterAsVoted, set_voter_as_voted, Continue
  <2>2. \A r \in votes : r.by = t /\ StoringRow(r) => r.payload.voter \in has_voted'
    BY <1>t, <2>1 DEF CutInv, CastInv, OwnRow, StoringRow
  <2> QED
    BY <1>t, <2>1, <2>2, CutKept DEF StoringRow
<1>5. CASE AuditVoteCast(t)
  <2>1. UNCHANGED <<votes, has_voted>>
        /\ cast_log' = cast_log \cup {vote_id[t]}
        /\ pc[t] = "audit" /\ pc' = [pc EXCEPT ![t] = "idle"]
        /\ vote_id' = [vote_id EXCEPT ![t] = 0]
    BY <1>5 DEF AuditVoteCast, record_vote_cast, Return
  <2>2. \A r \in votes : r.by # t => pc'[r.by] = pc[r.by] /\ vote_id'[r.by] = vote_id[r.by]
    BY <1>t, <2>1
  <2> QED
    BY <1>t, <2>1, <2>2 DEF UnfinishedIsCut
<1>6. CASE WipeForDemo(t)
  BY <1>6 DEF WipeForDemo, wipe_ballots, UnfinishedIsCut
<1> QED
  BY <1>1, <1>2, <1>3, <1>4, <1>5, <1>6
     DEF Vote, Step, DemoStep, QuietStep, RecordVote

LEMMA CutStep ==
    ASSUME TypeOK, ReferentialIntegrity, CutInv, [FaultyNext]_vars
    PROVE  UnfinishedIsCut'
<1>t. /\ pc \in [Thread -> {"idle", "reject"} \cup Entering \cup Checking \cup Cleared \cup Storing]
      /\ vote_id \in [Thread -> Nat] /\ \A r \in votes : r.by \in Thread
      /\ UnfinishedIsCut
  BY DEF TypeOK, CallTypeOK, DatabaseTypeOK, VoteRow, CutInv
<1>1. CASE Voting
  BY <1>1, CutVote DEF Voting
<1>2. CASE ResetElection
  BY <1>2 DEF ResetElection, reset_election, UnfinishedIsCut
<1>3. CASE (Administration /\ ~ResetElection) \/ SeedFails \/ UNCHANGED vars
  <2>1. /\ UNCHANGED <<callVars, cut, cast_log>> /\ votes' \subseteq votes
        /\ \A r \in votes' : r.payload.voter \in has_voted => r.payload.voter \in has_voted'
    BY <1>3 DEF Administration, ElectionControl, insert_election_config, SeedStep, SeedVoter,
       CountVoters, SeedGeneratedVoter, SeedNumber, update_last_sequence, SeedNumberRefused,
       SeedCandidates, SeedElection, RegisterVoters, insert_voters, DeleteVoter, delete_voter,
       VotesOf, ChangeCandidate, set_active_candidates, SeedFails, vars, processVars, tables,
       ballotTables, historyVars
  <2> QED
    BY <1>t, <2>1, CutKept DEF callVars, StoringRow
<1>4. ASSUME NEW t \in Thread, FailingStep(t) PROVE UnfinishedIsCut'
  <2>1. UNCHANGED tables
    BY <1>4 DEF FailingStep, DatabaseError, CandidatesUnreadable, SequenceUnreadable,
       SequenceNotStored, CallFails
  <2>2. \A u \in Thread \ {t} : pc'[u] = pc[u] /\ vote_id'[u] = vote_id[u]
    BY <1>t, <1>4 DEF FailingStep, DatabaseError, CandidatesUnreadable, SequenceUnreadable,
       SequenceNotStored, CallFails, Continue, Refuse, Return
  <2>3. pc[t] \in Storing => \/ vote_id[t] \in cut'
                             \/ pc'[t] = "mark" /\ vote_id'[t] = vote_id[t]
    BY <1>t, <1>4 DEF FailingStep, DatabaseError, CandidatesUnreadable, SequenceUnreadable,
       SequenceNotStored, CallFails, Continue, Refuse, Return, Storing, Entering
  <2>4. cut \subseteq cut'
    BY <1>4 DEF FailingStep
  <2> QED
    BY <1>t, <2>1, <2>2, <2>3, <2>4, CutKept DEF tables, ballotTables, StoringRow, Storing
<1>5. CASE Crash
  <2>1. UNCHANGED tables /\ cut \subseteq cut'
        /\ \A t \in Thread : pc[t] \in Storing => vote_id[t] \in cut'
    BY <1>5 DEF Crash
  <2> QED
    BY <1>t, <2>1, CutKept DEF tables, ballotTables, StoringRow
<1> QED
  BY <1>1, <1>2, <1>3, <1>4, <1>5 DEF FaultyNext, Failure

(* Whatever fails or crashes, as long as nobody edits a voter: a ballot lacks *)
(* its mark or its VOTE_CAST row only while its own call is on the way to     *)
(* write it, or because that call was cut short after the insert.            *)
THEOREM UnfinishedHolds == FaultySpec => []UnfinishedIsCut
<1>1. Init => TypeOK /\ ReferentialIntegrity /\ CutInv
  BY TypeInit DEF Init, ProcessInit, DatabaseInit, ReferentialIntegrity, CutInv, CastInv,
     IdsAreOld, OwnRow, CastMeansMarked, UnfinishedIsCut
<1>2. [FaultyNext]_vars => [Next]_vars
  BY DEF FaultyNext, Next
<1>3. TypeOK /\ ReferentialIntegrity /\ CutInv /\ [FaultyNext]_vars
        => TypeOK' /\ ReferentialIntegrity' /\ CutInv'
  BY <1>2, TypeStep, OneTransaction, IntegrityStep, CastStep, CutStep DEF CutInv
<1>4. CutInv => UnfinishedIsCut
  BY DEF CutInv
<1> QED
  BY <1>1, <1>3, <1>4, PTL DEF FaultySpec, FaultyNext

(* ------------------- one thread is a ballot box ----------------------- *)

(* The contents of the box that a table of votes stands for.                 *)
BoxOf(T) == {[number |-> r.vote_id, voter |-> r.payload.voter,
              candidate |-> r.payload.candidate] : r \in T}

LEMMA BoxStep ==
    ASSUME TypeOK, ReferentialIntegrity, OrderlyInv, NEW t0, Thread = {t0},
           [OrderlyNext]_vars
    PROVE  [Box!Next]_Box!boxVars
<1> USE DEF Box!boxVars, Box!Next
<1>b. \A T : BoxOf(T) = {[number |-> r.vote_id, voter |-> r.payload.voter,
                        candidate |-> r.payload.candidate] : r \in T}
  BY DEF BoxOf
<1>t. \A r \in votes : /\ r.by \in Thread /\ r.payload.voter \in Voter
                      /\ r.payload.candidate \in Candidate /\ r.vote_id \in Nat \ {0}
  BY DEF TypeOK, DatabaseTypeOK, VoteRow, PayloadType
<1>s. UNCHANGED <<voters, votes, last_vote_id>> => UNCHANGED Box!boxVars
  OBVIOUS
<1>1. ASSUME NEW t \in Thread, RecordVote(t), record_vote(call[t], t)
      PROVE  Box!Cast(call[t].voter, call[t].candidate)
  <2> DEFINE v == call[t].voter
             new == [vote_id |-> last_vote_id', payload |-> call[t], by |-> t, era |-> Era]
  <2>1. v \in voters /\ last_vote_id' = last_vote_id + 1 /\ votes' = votes \cup {new}
        /\ UNCHANGED voters /\ pc[t] = "record"
    BY <1>1 DEF record_vote, RecordVote
  <2>2. \A r \in votes : r.payload.voter # v
    BY <1>t, <2>1 DEF OrderlyInv, NoBallotYet, Ready, Cleared
  <2>3. \A b \in BoxOf(votes) : b.voter # v
    BY <2>2 DEF BoxOf
  <2>4. BoxOf(votes') = BoxOf(votes) \cup
          {[number |-> last_vote_id', voter |-> v, candidate |-> call[t].candidate]}
    <3>1. new.vote_id = last_vote_id' /\ new.payload = call[t]
      OBVIOUS
    <3>2. BoxOf(votes \cup {new}) = BoxOf(votes) \cup BoxOf({new})
      BY Zenon DEF BoxOf
    <3>3. BoxOf({new}) = {[number |-> new.vote_id, voter |-> new.payload.voter,
                           candidate |-> new.payload.candidate]}
      BY Zenon DEF BoxOf
    <3> QED
      BY <2>1, <3>1, <3>2, <3>3, Zenon
  <2> QED
    BY <2>1, <2>3, <2>4 DEF Box!Cast, BoxOf
<1>2. ASSUME NEW t \in Thread, Vote(t) PROVE [Box!Next]_Box!boxVars
  <2>1. CASE QuietStep(t)
    <3>1. UNCHANGED tables
      BY <2>1, QuietSteps
    <3>2. UNCHANGED <<voters, votes, last_vote_id>>
      BY <3>1 DEF tables, ballotTables
    <3> QED
      BY <3>2, <1>s
  <2>2. CASE RecordVote(t) /\ record_vote(call[t], t)
    <3>1. PICK v \in Voter, c \in Candidate : v = call[t].voter /\ c = call[t].candidate
      BY DEF TypeOK, CallTypeOK, PayloadType
    <3>2. Box!Cast(v, c)
      BY <1>1, <2>2, <3>1 DEF Box!Cast
    <3> QED
      BY <3>2
  <2>3. CASE UpdateLastSequence(t) \/ SetVoterAsVoted(t) \/ AuditVoteCast(t)
    <3>1. UNCHANGED <<voters, votes, last_vote_id>>
      BY <2>3 DEF UpdateLastSequence, update_last_sequence, SetVoterAsVoted,
         set_voter_as_voted, AuditVoteCast, record_vote_cast, tables, ballotTables
    <3> QED
      BY <3>1, <1>s
  <2>4. CASE WipeForDemo(t)
    BY <2>4 DEF WipeForDemo, wipe_ballots, Box!EmptyBox
  <2> QED
    BY <1>2, <2>1, <2>2, <2>3, <2>4 DEF Vote, Step, DemoStep, QuietStep, RecordVote
<1>3. CASE ResetElection
  BY <1>3 DEF ResetElection, reset_election, Box!EmptyBox
<1>4. ASSUME NEW v \in Voter, DeleteVoter(v) PROVE Box!Strike(v)
  <2>1. votes' = {r \in votes : r.payload.voter # v} /\ voters' = voters \ {v}
        /\ UNCHANGED last_vote_id
    BY <1>4 DEF DeleteVoter, delete_voter, VotesOf
  <2>2. BoxOf(votes') = {b \in BoxOf(votes) : b.voter # v}
    BY <2>1 DEF BoxOf
  <2> QED
    BY <2>1, <2>2 DEF Box!Strike, BoxOf
<1>5. ASSUME NEW S \in SUBSET Voter, insert_voters(S) PROVE Box!Enroll(S)
  BY <1>5 DEF insert_voters, ballotTables, Box!Enroll
<1>6. ASSUME SeedVoter \/ SeedGeneratedVoter PROVE [Box!Next]_Box!boxVars
  <2>1. PICK v \in reset_todo : insert_voters({v})
    BY <1>6 DEF SeedVoter, SeedGeneratedVoter
  <2>2. {v} \in SUBSET Voter
    BY ConstantsAssumption DEF TypeOK
  <2> QED
    BY <1>5, <2>1, <2>2
<1>7. CASE \/ \E s \in ElectionStatus : ElectionControl(s)
           \/ \E c \in Candidate : ChangeCandidate(c)
           \/ CountVoters \/ SeedNumber \/ SeedNumberRefused
           \/ SeedCandidates \/ SeedElection \/ UNCHANGED vars
  <2>1. UNCHANGED <<voters, votes, last_vote_id>>
    BY <1>7 DEF ElectionControl, insert_election_config, ChangeCandidate,
       set_active_candidates, CountVoters, SeedNumber, update_last_sequence,
       SeedNumberRefused, SeedCandidates, SeedElection, ballotTables, tables,
       vars, processVars
  <2> QED
    BY <2>1, <1>s
<1> QED
  BY <1>2, <1>3, <1>4, <1>5, <1>6, <1>7
     DEF OrderlyNext, Voting, Administration, SeedStep, RegisterVoters

(* With a single thread, an orderly server implements BallotBox: the votes   *)
(* table never holds two ballots of one voter, and a ballot once cast stays  *)
(* as it is until its voter is deleted or the whole table is emptied.        *)
THEOREM OneThreadIsBallotBox ==
    ASSUME NEW t0, Thread = {t0}
    PROVE  OrderlySpec => IsBallotBox
<1>1. Init => TypeOK /\ ReferentialIntegrity /\ OrderlyInv
  BY TypeInit DEF Init, ProcessInit, DatabaseInit, ReferentialIntegrity, OrderlyInv,
     BallotIsMarked, BallotIsAudited, NoBallotYet, OneBallotPerThread
<1>2. [OrderlyNext]_vars => [Next]_vars
  BY DEF OrderlyNext, Next
<1>3. TypeOK /\ ReferentialIntegrity /\ OrderlyInv /\ [OrderlyNext]_vars
        => TypeOK' /\ ReferentialIntegrity' /\ OrderlyInv'
  BY <1>2, TypeStep, OneTransaction, IntegrityStep, OrderlyStep
<1>4. Init => Box!Init
  BY ConstantsAssumption DEF Init, ProcessInit, DatabaseInit, Box!Init
<1>5. TypeOK /\ ReferentialIntegrity /\ OrderlyInv /\ [OrderlyNext]_vars
        => [Box!Next]_Box!boxVars
  BY BoxStep
<1> QED
  BY <1>1, <1>3, <1>4, <1>5, PTL DEF OrderlySpec, IsBallotBox, Box!Spec

(* --------------- any number of threads, a polling place ---------------- *)

IsOpen == get_election_status = "ACTIVE"

LEMMA WhoIsAdmitted ==
    /\ \A a : a \in Admitted <=>
          \E u \in Thread : pc[u] \in Cleared /\ a = [clerk |-> u, voter |-> call[u].voter]
    /\ \A a : a \in Admitted' <=>
          \E u \in Thread : pc'[u] \in Cleared /\ a = [clerk |-> u, voter |-> call'[u].voter]
<1>1. \A a : a \in Admitted <=>
          \E u \in Thread : pc[u] \in Cleared /\ a = [clerk |-> u, voter |-> call[u].voter]
  BY Zenon DEF Admitted
<1>2. \A a : a \in Admitted' <=>
          \E u \in Thread : pc'[u] \in Cleared /\ a = [clerk |-> u, voter |-> call'[u].voter]
  BY Zenon DEF Admitted
<1> QED
  BY <1>1, <1>2

(* A step of one thread changes no admission but its own.                    *)
LEMMA DeskOfThread ==
    ASSUME NEW t \in Thread,
           \A u \in Thread \ {t} : pc'[u] = pc[u] /\ call'[u] = call[u]
    PROVE  LET a == [clerk |-> t, voter |-> call[t].voter] IN
           /\ pc[t] \notin Cleared /\ pc'[t] \notin Cleared => Admitted' = Admitted
           /\ (pc[t] \in Cleared <=> pc'[t] \in Cleared) /\ call'[t] = call[t]
                 => Admitted' = Admitted
           /\ pc[t] \notin Cleared /\ pc'[t] \in Cleared /\ call'[t] = call[t]
                 => /\ Admitted' = Admitted \cup {a}
                    /\ \A b \in Admitted : b.clerk # t
           /\ pc[t] \in Cleared /\ pc'[t] \notin Cleared
                 => a \in Admitted /\ Admitted' = Admitted \ {a}
<1> DEFINE a == [clerk |-> t, voter |-> call[t].voter]
<1>w. /\ \A b : b \in Admitted <=>
            \E u \in Thread : pc[u] \in Cleared /\ b = [clerk |-> u, voter |-> call[u].voter]
      /\ \A b : b \in Admitted' <=>
            \E u \in Thread : pc'[u] \in Cleared /\ b = [clerk |-> u, voter |-> call'[u].voter]
  BY WhoIsAdmitted
<1>1. ASSUME pc[t] \notin Cleared, pc'[t] \notin Cleared
      PROVE  Admitted' = Admitted
  BY <1>w, <1>1
<1>2. ASSUME pc[t] \in Cleared <=> pc'[t] \in Cleared, call'[t] = call[t]
      PROVE  Admitted' = Admitted
  <2>1. \A u \in Thread : (pc[u] \in Cleared <=> pc'[u] \in Cleared) /\ call'[u] = call[u]
    BY <1>2
  <2> QED
    BY <1>w, <2>1
<1>3. ASSUME pc[t] \notin Cleared, pc'[t] \in Cleared, call'[t] = call[t]
      PROVE  /\ Admitted' = Admitted \cup {a}
             /\ \A b \in Admitted : b.clerk # t
  BY <1>w, <1>3
<1>4. ASSUME pc[t] \in Cleared, pc'[t] \notin Cleared
      PROVE  a \in Admitted /\ Admitted' = Admitted \ {a}
  BY <1>w, <1>4
<1> QED
  BY <1>1, <1>2, <1>3, <1>4

(* A step of a thread that leaves the tables alone admits, dismisses or does  *)
(* neither.                                                                  *)
LEMMA DeskStep ==
    ASSUME TypeOK, NEW t \in Thread, Vote(t), QuietStep(t)
    PROVE  [Place!Next]_Place!placeVars
<1> DEFINE v == call[t].voter
           a == [clerk |-> t, voter |-> v]
           Same == UNCHANGED <<voters, InTheBox, last_vote_id, IsOpen>>
<1>1. Same
  <2>1. UNCHANGED tables
    BY QuietSteps
  <2> QED
    BY <2>1 DEF tables, ballotTables, InTheBox, IsOpen, get_election_status, Era
<1>2. \A u \in Thread \ {t} : pc'[u] = pc[u] /\ call'[u] = call[u]
  BY QuietSteps
<1>3. pc'[t] \in Cleared => call'[t] = call[t] /\ (pc[t] \in Cleared \/ IsOpen)
  <2>1. [Next]_vars
    BY DEF Next, Voting
  <2>2. pc'[t] \in Cleared => pc[t] \in Cleared \/ IsOpen
    BY <2>1, GateStep DEF IsOpen
  <2> QED
    BY <2>2, QuietSteps DEF Ready
<1>4. v \in Voter
  BY DEF TypeOK, CallTypeOK, PayloadType
<1>5. CASE pc[t] \notin Cleared /\ pc'[t] \in Cleared
  <2>1. Admitted' = Admitted \cup {a} /\ \A b \in Admitted : b.clerk # t
    BY <1>2, <1>3, <1>5, DeskOfThread
  <2>2. Place!Admit(t, v)
    BY <1>1, <1>3, <1>5, <2>1 DEF Place!Admit, IsOpen
  <2> QED
    BY <1>4, <2>2 DEF Place!Next
<1>6. CASE pc[t] \in Cleared /\ pc'[t] \notin Cleared
  <2>1. a \in Admitted /\ Admitted' = Admitted \ {a}
    BY <1>2, <1>6, DeskOfThread
  <2>2. Place!Dismiss(a)
    BY <1>1, <2>1 DEF Place!Dismiss, IsOpen
  <2> QED
    BY <2>1, <2>2 DEF Place!Next
<1>7. CASE pc[t] \in Cleared <=> pc'[t] \in Cleared
  <2>1. Admitted' = Admitted
    BY <1>2, <1>3, <1>7, DeskOfThread
  <2> QED
    BY <1>1, <2>1 DEF Place!placeVars, IsOpen
<1> QED
  BY <1>5, <1>6, <1>7

(* The insert casts the ballot of an admission and uses it up.                *)
LEMMA DeskCast ==
    ASSUME TypeOK, OrderlyInv, NEW t \in Thread, RecordVote(t), record_vote(call[t], t)
    PROVE  Place!Cast(t, call[t].voter, call[t].candidate)
<1> DEFINE v == call[t].voter
           c == call[t].candidate
           a == [clerk |-> t, voter |-> v]
           new == [vote_id |-> last_vote_id', payload |-> call[t], by |-> t, era |-> Era]
<1>1. /\ v \in voters /\ last_vote_id' = last_vote_id + 1 /\ votes' = votes \cup {new}
      /\ UNCHANGED <<voters, election_config>>
  BY DEF record_vote
<1>2. pc[t] = "record" /\ pc' = [pc EXCEPT ![t] = "bump"] /\ call' = call
  BY <1>1 DEF RecordVote
<1>3. pc'[t] = "bump" /\ \A u \in Thread \ {t} : pc'[u] = pc[u] /\ call'[u] = call[u]
  BY <1>2 DEF TypeOK, CallTypeOK
<1>4. a \in Admitted /\ Admitted' = Admitted \ {a}
  BY <1>2, <1>3, DeskOfThread DEF Cleared
<1>5. \A b \in InTheBox : b.clerk = t => b.voter # v
  <2>1. \A r \in votes : r.by = t => r.payload.voter # v
    BY <1>2 DEF OrderlyInv, NoBallotYet, Ready, Cleared
  <2> QED
    BY <2>1 DEF InTheBox
<1>6. InTheBox' = InTheBox \cup
         {[number |-> last_vote_id', clerk |-> t, voter |-> v, candidate |-> c]}
  <2> DEFINE BallotOf(r) == [number |-> r.vote_id, clerk |-> r.by,
                             voter |-> r.payload.voter, candidate |-> r.payload.candidate]
  <2>1. InTheBox = {BallotOf(r) : r \in votes} /\ InTheBox' = {BallotOf(r) : r \in votes'}
    BY DEF InTheBox
  <2>2. BallotOf(new) = [number |-> last_vote_id', clerk |-> t, voter |-> v, candidate |-> c]
    OBVIOUS
  <2> HIDE DEF BallotOf, new
  <2>3. {BallotOf(r) : r \in votes \cup {new}} = {BallotOf(r) : r \in votes} \cup {BallotOf(new)}
    BY Zenon
  <2> QED
    BY <1>1, <2>1, <2>2, <2>3, Zenon
<1>7. IsOpen' = IsOpen
  BY <1>1 DEF IsOpen, get_election_status, Era
<1> QED
  BY <1>1, <1>4, <1>5, <1>6, <1>7 DEF Place!Cast, IsOpen

(* The steps of a thread before the gate or after the insert.                 *)
LEMMA DeskAside ==
    ASSUME TypeOK, NEW t \in Thread,
           \/ UpdateLastSequence(t) \/ SetVoterAsVoted(t) \/ AuditVoteCast(t)
           \/ WipeForDemo(t)
    PROVE  Admitted' = Admitted
<1> USE DEF Cleared
<1>1. /\ pc \in [Thread -> {"idle", "reject"} \cup Entering \cup Checking \cup Cleared \cup Storing]
      /\ call \in [Thread -> PayloadType]
  BY DEF TypeOK, CallTypeOK
<1>2. /\ pc[t] \notin Cleared /\ pc'[t] \notin Cleared
      /\ \A u \in Thread \ {t} : pc'[u] = pc[u] /\ call'[u] = call[u]
  BY <1>1 DEF UpdateLastSequence, SetVoterAsVoted, AuditVoteCast, WipeForDemo,
     Continue, Return
<1> QED
  BY <1>2, DeskOfThread

LEMMA PlaceStep ==
    ASSUME TypeOK, OrderlyInv, [OrderlyNext]_vars
    PROVE  [Place!Next]_Place!placeVars
<1> USE DEF Place!placeVars, Place!Next
<1>d. UNCHANGED callVars => Admitted' = Admitted
  BY DEF callVars, Admitted
<1>b. UNCHANGED votes => InTheBox' = InTheBox
  BY DEF InTheBox
<1>o. UNCHANGED election_config => IsOpen' = IsOpen
  BY DEF IsOpen, get_election_status, Era
<1>1. ASSUME NEW t \in Thread, Vote(t) PROVE [Place!Next]_Place!placeVars
  <2>1. CASE QuietStep(t)
    BY <1>1, <2>1, DeskStep
  <2>2. CASE RecordVote(t) /\ record_vote(call[t], t)
    <3>1. call[t].voter \in Voter /\ call[t].candidate \in Candidate
      BY DEF TypeOK, CallTypeOK, PayloadType
    <3>2. Place!Cast(t, call[t].voter, call[t].candidate)
      BY <2>2, DeskCast
    <3> QED
      BY <3>1, <3>2
  <2>3. CASE UpdateLastSequence(t) \/ SetVoterAsVoted(t) \/ AuditVoteCast(t)
    <3>1. UNCHANGED <<voters, votes, last_vote_id, election_config>>
      BY <2>3 DEF UpdateLastSequence, update_last_sequence, SetVoterAsVoted,
         set_voter_as_voted, AuditVoteCast, record_vote_cast, tables, ballotTables
    <3> QED
      BY <2>3, <3>1, <1>b, <1>o, DeskAside DEF IsOpen
  <2>4. CASE WipeForDemo(t)
    <3>1. votes' = {} /\ UNCHANGED <<voters, last_vote_id, election_config>>
      BY <2>4 DEF WipeForDemo, wipe_ballots
    <3>2. InTheBox' = {}
      BY <3>1 DEF InTheBox
    <3> QED
      BY <2>4, <3>1, <3>2, <1>o, DeskAside DEF Place!EmptyBox, IsOpen
  <2> QED
    BY <1>1, <2>1, <2>2, <2>3, <2>4 DEF Vote, Step, DemoStep, QuietStep, RecordVote
<1>2. CASE ResetElection
  <2>1. votes' = {} /\ UNCHANGED <<voters, last_vote_id, election_config, callVars>>
    BY <1>2 DEF ResetElection, reset_election
  <2>2. InTheBox' = {}
    BY <2>1 DEF InTheBox
  <2> QED
    BY <2>1, <2>2, <1>d, <1>o DEF Place!EmptyBox, IsOpen
<1>3. ASSUME NEW v \in Voter, DeleteVoter(v) PROVE Place!Strike(v)
  <2>1. /\ votes' = {r \in votes : r.payload.voter # v} /\ voters' = voters \ {v}
        /\ UNCHANGED <<last_vote_id, election_config, callVars>>
    BY <1>3 DEF DeleteVoter, delete_voter, VotesOf
  <2>2. InTheBox' = {b \in InTheBox : b.voter # v}
    BY <2>1 DEF InTheBox
  <2> QED
    BY <2>1, <2>2, <1>d, <1>o DEF Place!Strike, IsOpen
<1>4. ASSUME NEW S \in SUBSET Voter, insert_voters(S), UNCHANGED callVars
      PROVE  Place!Enroll(S)
  BY <1>4, <1>b, <1>d, <1>o DEF insert_voters, ballotTables, Place!Enroll, IsOpen
<1>5. CASE SeedVoter \/ SeedGeneratedVoter
  <2>1. PICK v \in reset_todo : insert_voters({v}) /\ UNCHANGED callVars
    BY <1>5 DEF SeedVoter, SeedGeneratedVoter
  <2>2. {v} \in SUBSET Voter
    BY ConstantsAssumption DEF TypeOK
  <2> QED
    BY <1>4, <2>1, <2>2
<1>6. CASE (\E s \in ElectionStatus : ElectionControl(s)) \/ SeedElection
  <2>1. UNCHANGED <<voters, votes, last_vote_id, callVars>>
    BY <1>6 DEF ElectionControl, SeedElection, insert_election_config, ballotTables
  <2>2. IsOpen' \in BOOLEAN
    BY DEF IsOpen
  <2> QED
    BY <2>1, <2>2, <1>b, <1>d DEF Place!OpenOrClose, IsOpen
<1>7. CASE \/ \E c \in Candidate : ChangeCandidate(c)
           \/ CountVoters \/ SeedNumber \/ SeedNumberRefused
           \/ SeedCandidates \/ UNCHANGED vars
  <2>1. UNCHANGED <<voters, votes, last_vote_id, election_config, callVars>>
    BY <1>7 DEF ChangeCandidate, CountVoters, SeedNumber, update_last_sequence,
       SeedNumberRefused, SeedCandidates, set_active_candidates, ballotTables,
       tables, vars, processVars
  <2> QED
    BY <2>1, <1>b, <1>d, <1>o DEF IsOpen
<1> QED
  BY <1>1, <1>2, <1>3, <1>4, <1>5, <1>6, <1>7
     DEF OrderlyNext, Voting, Administration, SeedStep, RegisterVoters

(* On orderly days any number of threads implement PollingPlace: a ballot is   *)
(* stored on the strength of one passage of the status check, made while the   *)
(* election was ACTIVE and used up by it; of a voter registered at that        *)
(* moment; the first of that voter from that thread.                          *)
THEOREM ThreadsArePollingPlace == OrderlySpec => IsPollingPlace
<1>1. Init => TypeOK /\ ReferentialIntegrity /\ OrderlyInv
  BY TypeInit DEF Init, ProcessInit, DatabaseInit, ReferentialIntegrity, OrderlyInv,
     BallotIsMarked, BallotIsAudited, NoBallotYet, OneBallotPerThread
<1>2. [OrderlyNext]_vars => [Next]_vars
  BY DEF OrderlyNext, Next
<1>3. TypeOK /\ ReferentialIntegrity /\ OrderlyInv /\ [OrderlyNext]_vars
        => TypeOK' /\ ReferentialIntegrity' /\ OrderlyInv'
  BY <1>2, TypeStep, OneTransaction, IntegrityStep, OrderlyStep
<1>4. Init => Place!Init
  <2>1. Init => Admitted = {} /\ InTheBox = {}
    BY DEF Init, ProcessInit, DatabaseInit, Admitted, InTheBox, Cleared
  <2> QED
    BY <2>1, ConstantsAssumption
       DEF Init, ProcessInit, DatabaseInit, Place!Init, get_election_status, Era
<1>5. TypeOK /\ ReferentialIntegrity /\ OrderlyInv /\ [OrderlyNext]_vars
        => [Place!Next]_Place!placeVars
  BY PlaceStep
<1> QED
  BY <1>1, <1>3, <1>4, <1>5, PTL DEF OrderlySpec, IsPollingPlace, Place!Spec
=============================================================================
