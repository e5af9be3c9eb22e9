--------------------------- MODULE ElectionServer ---------------------------
(***************************************************************************)
(* The server around process_vote (server/routes.py): the endpoints that    *)
(* make a payload of their own, the control and reset of the election, the  *)
(* administration of voters and candidates, and the end of the process.     *)
(* app.py starts request threads, the MQTT thread and the seeding in one    *)
(* process, so a crash ends them all and leaves the database.               *)
(***************************************************************************)
EXTENDS VoteProcessing

CONSTANTS AutoVoters,       \* the voters RFID-AUTO001 .. RFID-AUTO100 that are
          AutoNumber,       \* generated, each with the number in its name
          MaxElectionRows   \* bound on the rows of election_config

ASSUME ServerAssumption ==
    /\ AutoVoters \subseteq Voter
    /\ AutoNumber \in [AutoVoters -> Nat]
    /\ MaxElectionRows \in Nat

VARIABLES reset_step,   \* the next part of a running /api/election/reset
          reset_todo,   \* the voters this part has still to insert
          unnumbered,   \* the generated voter whose 0 is still to be stored
          overwritten,  \* history: ballots whose sequence row that 0 replaced
          cut           \* history: ballots whose call ended before its last step

resetVars == <<reset_step, reset_todo, unnumbered>>
historyVars == <<overwritten, cut>>
vars == <<processVars, resetVars, historyVars>>

TypeOK ==
    /\ DatabaseTypeOK
    /\ CallTypeOK
    /\ reset_step \in {"idle", "voters", "generated", "election"}
    /\ reset_todo \subseteq Voter
    /\ unnumbered \subseteq Voter
    /\ overwritten \subseteq Nat
    /\ cut \subseteq Nat

Init ==
    /\ ProcessInit
    /\ reset_step = "idle" /\ reset_todo = {} /\ unnumbered = {}
    /\ overwritten = {} /\ cut = {}

-----------------------------------------------------------------------------
(* /api/vote without a signature: the server signs a payload for the voter,  *)
(* after reading the next sequence number in a connection of its own.        *)
ApiVote(t, v, c, b) ==
    /\ pc[t] = "idle"
    /\ RoomForVotes
    /\ pc' = [pc EXCEPT ![t] = "number"]
    /\ call' = [call EXCEPT ![t] = [voter |-> v, candidate |-> c, booth |-> b,
                                   seq |-> 0, complete |-> TRUE, authentic |-> TRUE]]
    /\ answer' = [answer EXCEPT ![t] = "NONE"]
    /\ UNCHANGED <<tables, vote_id>>

(* get_last_sequence(rfid) + 1, then generate_payload.                       *)
NumberPayload(t) ==
    /\ pc[t] = "number"
    /\ pc' = [pc EXCEPT ![t] = "validate"]
    /\ call' = [call EXCEPT ![t].seq = get_last_sequence(call[t].voter) + 1]
    /\ UNCHANGED <<tables, vote_id, answer>>

(* /api/demo/simulate-vote: a random voter whose has_voted is 0, one of the   *)
(* configured candidates, and the booth that the request names.              *)
SimulateVote(t) ==
    /\ pc[t] = "idle"
    /\ RoomForVotes
    /\ pc' = [pc EXCEPT ![t] = "pick"]
    /\ answer' = [answer EXCEPT ![t] = "NONE"]
    /\ UNCHANGED <<tables, call, vote_id>>

PickVoter(t) ==
    /\ pc[t] \in {"pick", "repick"}
    /\ \E v \in voters \ has_voted, c \in ValidCandidates, b \in Booth :
          call' = [call EXCEPT ![t] = [voter |-> v, candidate |-> c,
                     booth |-> b, seq |-> 0,
                     complete |-> TRUE, authentic |-> TRUE]]
    /\ pc' = [pc EXCEPT ![t] = "number"]
    /\ UNCHANGED <<tables, vote_id, answer>>

(* Mutant: wipe and pick again until there is a voter.                        *)
NeverGiveUp(t) ==
    /\ pc[t] \in {"pick", "repick"}
    /\ voters \subseteq has_voted
    /\ Continue(t, "wipe")
    /\ UNCHANGED tables

(* Nobody is left to vote: wipe and pick again, or give up with 400.         *)
NobodyLeft(t) ==
    /\ pc[t] \in {"pick", "repick"}
    /\ voters \subseteq has_voted
    /\ IF pc[t] = "pick" THEN Continue(t, "wipe") ELSE Return(t, "ERROR")
    /\ UNCHANGED tables

WipeForDemo(t) ==
    /\ pc[t] = "wipe"
    /\ Continue(t, "repick")
    /\ wipe_ballots

DemoStep(t) == NumberPayload(t) \/ PickVoter(t) \/ NobodyLeft(t) \/ WipeForDemo(t)

-----------------------------------------------------------------------------
(* /api/election/control                                                     *)
ElectionControl(s) ==
    /\ Era < MaxElectionRows
    /\ insert_election_config(s)
    /\ UNCHANGED <<callVars, resetVars, historyVars>>

(* /api/election/reset: one transaction, then seed_demo_voters, which commits *)
(* after every voter and after every sequence row.  One reset at a time; the *)
(* booths and the administrator it seeds are not part of this module.        *)
ResetElection ==
    /\ reset_step = "idle"
    /\ Era < MaxElectionRows
    /\ reset_election
    /\ reset_step' = "voters"
    /\ reset_todo' = DemoVoters
    /\ UNCHANGED <<callVars, unnumbered, historyVars>>

SeedVoter ==
    /\ reset_step = "voters"
    /\ \E v \in reset_todo :
          /\ insert_voters({v})
          /\ reset_todo' = reset_todo \ {v}
    /\ UNCHANGED <<callVars, reset_step, unnumbered, historyVars>>

(* current_total is read once; the loop runs over current_total + 1 .. 100.   *)
CountVoters ==
    /\ reset_step = "voters" /\ reset_todo = {}
    /\ reset_step' = "generated"
    /\ reset_todo' = {v \in AutoVoters : AutoNumber[v] > Cardinality(voters)}
    /\ UNCHANGED <<tables, callVars, unnumbered, historyVars>>

(* insert_voter is True only when the row is new, and the zero comes after it. *)
SeedGeneratedVoter ==
    /\ reset_step = "generated" /\ unnumbered = {}
    /\ \E v \in reset_todo :
          /\ insert_voters({v})
          /\ unnumbered' = {v} \ voters
          /\ reset_todo' = reset_todo \ {v}
    /\ UNCHANGED <<callVars, reset_step, historyVars>>

(* update_last_sequence(rfid, 0): whatever the row holds by now is replaced.  *)
SeedNumber ==
    /\ \E v \in unnumbered :
          /\ update_last_sequence(v, 0)
          /\ overwritten' = overwritten \cup
                {r.vote_id : r \in {q \in VotesOf(v) : q.payload.seq <= vote_sequence[v]}}
    /\ unnumbered' = {}
    /\ UNCHANGED <<callVars, reset_step, reset_todo, cut>>

(* The voter was deleted in between: the foreign key ends the request.       *)
SeedNumberRefused ==
    /\ \E v \in unnumbered : v \notin voters
    /\ reset_step' = "idle" /\ reset_todo' = {} /\ unnumbered' = {}
    /\ UNCHANGED <<tables, callVars, historyVars>>

(* INSERT OR IGNORE by candidate_id: deleted default candidates come back,    *)
(* deactivated ones stay as they are.                                        *)
SeedCandidates ==
    /\ reset_step = "generated" /\ reset_todo = {} /\ unnumbered = {}
    /\ \E S \in SUBSET (ValidCandidates \ active_candidates) :
          set_active_candidates(active_candidates \cup S)
    /\ reset_step' = "election"
    /\ UNCHANGED <<callVars, reset_todo, unnumbered, historyVars>>

(* INSERT OR IGNORE with no key to collide with: always a new ACTIVE row.     *)
SeedElection ==
    /\ reset_step = "election"
    /\ insert_election_config("ACTIVE")
    /\ reset_step' = "idle"
    /\ UNCHANGED <<callVars, reset_todo, unnumbered, historyVars>>

SeedStep ==
    \/ SeedVoter \/ CountVoters \/ SeedGeneratedVoter \/ SeedNumber
    \/ SeedNumberRefused \/ SeedCandidates \/ SeedElection

(* A statement about the voters that fails ends the request; a failing seed   *)
(* of the candidates or of the election is only logged.                      *)
SeedFails ==
    /\ \/ reset_step \in {"voters", "generated", "election"} /\ reset_step' = "idle"
       \/ /\ reset_step = "generated" /\ reset_todo = {} /\ unnumbered = {}
          /\ reset_step' = "election"
    /\ reset_todo' = {} /\ unnumbered' = {}
    /\ UNCHANGED <<tables, callVars, historyVars>>

-----------------------------------------------------------------------------
(* POST /api/voters and /api/voters/bulk-import                              *)
RegisterVoters(S) ==
    /\ insert_voters(S)
    /\ UNCHANGED <<callVars, resetVars, historyVars>>

DeleteVoter(v) ==
    /\ delete_voter(v)
    /\ UNCHANGED <<callVars, resetVars, historyVars>>

(* PUT /api/voters/<rfid>: has_voted is 0 unless the request says otherwise.  *)
UpdateVoter(old, new, voted) ==
    /\ update_voter(old, new, voted)
    /\ UNCHANGED <<callVars, resetVars, historyVars>>

(* POST, PUT and DELETE of /api/candidates change the status of one candidate *)
ChangeCandidate(c) ==
    /\ \/ set_active_candidates(active_candidates \cup {c})
       \/ set_active_candidates(active_candidates \ {c})
    /\ UNCHANGED <<callVars, resetVars, historyVars>>

(* The process ends, is killed or loses power: SQLite keeps what is committed *)
Crash ==
    /\ pc' = [t \in Thread |-> "idle"]
    /\ vote_id' = [t \in Thread |-> 0]
    /\ answer' = [t \in Thread |-> "NONE"]
    /\ call' = [t \in Thread |-> NoCall]
    /\ reset_step' = "idle"
    /\ reset_todo' = {}
    /\ unnumbered' = {}
    /\ cut' = cut \cup {vote_id[t] : t \in {u \in Thread : pc[u] \in Storing}}
    /\ UNCHANGED <<tables, overwritten>>

-----------------------------------------------------------------------------
(* The threads alone: requests come in, calls run, the election is as it is.  *)
Arrival(t) ==
    \/ \E p \in Payload : Submit(t, p) \/ ApiVote(t, p.voter, p.candidate, p.booth)
    \/ SimulateVote(t)

Vote(t) ==
    (Arrival(t) \/ Step(t) \/ DemoStep(t)) /\ UNCHANGED <<resetVars, historyVars>>

Voting == \E t \in Thread : Vote(t)

(* The administrator, without the edit of a voter.                           *)
Administration ==
    \/ \E s \in ElectionStatus : ElectionControl(s)
    \/ ResetElection \/ SeedStep
    \/ \E S \in SUBSET Voter : RegisterVoters(S)
    \/ \E v \in Voter : DeleteVoter(v)
    \/ \E c \in Candidate : ChangeCandidate(c)

(* The outer except of process_vote ends the call of a stored ballot early.    *)
FailingStep(t) ==
    /\ DatabaseError(t)
    /\ cut' = cut \cup (IF pc[t] \in {"mark", "audit"} THEN {vote_id[t]} ELSE {})
    /\ UNCHANGED <<resetVars, overwritten>>

EditVoter ==
    \E old, new \in Voter, voted \in BOOLEAN : UpdateVoter(old, new, voted)

Failure ==
    \/ \E t \in Thread : FailingStep(t)
    \/ SeedFails
    \/ Crash

Next == Voting \/ Administration \/ EditVoter \/ Failure

(* Everything that may happen.                                               *)
Spec == Init /\ [][Next]_vars

(* Days on which nothing fails and nobody edits a voter.                     *)
OrderlyNext == Voting \/ Administration
OrderlySpec == Init /\ [][OrderlyNext]_vars

(* Days on which nothing fails, and voters are edited as well.                *)
EditedSpec == Init /\ [][OrderlyNext \/ EditVoter]_vars

(* Anything may fail, and nobody edits a voter.                              *)
FaultySpec == Init /\ [][Voting \/ Administration \/ Failure]_vars

(* Only votes: what the threads do to each other.                            *)
VotingSpec == Init /\ [][Voting]_vars

Running(t) == (Step(t) \/ DemoStep(t)) /\ UNCHANGED <<resetVars, historyVars>>

(* A thread that is inside a call keeps running: SQLite's busy handler waits  *)
(* 5 seconds at most, and no step of a call waits for another call.          *)
Fairness == \A t \in Thread : WF_vars(Running(t))
FairOrderlySpec == OrderlySpec /\ Fairness

-----------------------------------------------------------------------------
(* Whatever happens, every ballot and every sequence row belongs to a        *)
(* registered voter: the foreign keys of schema.sql hold because delete_voter *)
(* removes the children first and update_voter never leaves one behind.      *)
ReferentialIntegrity ==
    /\ \A r \in votes : r.payload.voter \in voters
    /\ \A v \in Voter : vote_sequence[v] # NoRow => v \in voters

(* Whatever happens, a ballot in the table carried a good signature and named *)
(* a registered booth, and no two ballots share a vote_id.                   *)
GenuineBallots ==
    \A r \in votes :
        /\ r.payload.complete /\ r.payload.authentic
        /\ r.payload.booth \in KnownBooths
        /\ r.vote_id <= last_vote_id
        /\ \A q \in votes : q.vote_id = r.vote_id => q = r

(* The promise of process_vote to a voter (tests/test_fraud.py): never more   *)
(* than one ballot.  True of one thread on orderly days.                     *)
OneBallotPerVoter == \A r, q \in votes : r.payload.voter = q.payload.voter => r = q

(* One thread on orderly days is a ballot box: every row of votes is a ballot, *)
(* whatever the state of the call that stored it.                            *)
Box == INSTANCE BallotBox WITH
           register <- voters,
           box <- {[number |-> r.vote_id, voter |-> r.payload.voter,
                    candidate |-> r.payload.candidate] : r \in votes},
           issued <- last_vote_id
IsBallotBox == Box!Spec

(* Any number of threads on orderly days are the clerks of a polling place:    *)
(* passing the status check admits the voter of the call, and that admission  *)
(* is used up by the insert or given up by a refusal, whatever others do.     *)
Admitted == {[clerk |-> t, voter |-> call[t].voter] :
                t \in {u \in Thread : pc[u] \in Cleared}}
InTheBox == {[number |-> r.vote_id, clerk |-> r.by, voter |-> r.payload.voter,
              candidate |-> r.payload.candidate] : r \in votes}
Place == INSTANCE PollingPlace WITH
             Clerk <- Thread, register <- voters, box <- InTheBox,
             issued <- last_vote_id, desk <- Admitted,
             open <- get_election_status = "ACTIVE"
IsPollingPlace == Place!Spec

(* What is left of it with several threads: has_voted and the insert are not *)
(* in one transaction, yet a voter gets at most one ballot per thread, since *)
(* a thread marks the voter before it takes its next call.                   *)
OneBallotPerThread ==
    \A r, q \in votes : r.payload.voter = q.payload.voter /\ r.by = q.by => r = q

(* A ballot is never without a mark: its voter is marked as having voted, or  *)
(* the thread that stored it is about to write the mark.                     *)
BallotIsMarked ==
    \A r \in votes :
        \/ r.payload.voter \in has_voted
        \/ pc[r.by] \in {"bump", "mark"} /\ call[r.by].voter = r.payload.voter

(* A ballot that the audit log calls cast has its voter marked, whatever     *)
(* fails or crashes on the way: process_vote writes the mark before that row. *)
CastMeansMarked ==
    \A r \in votes : r.vote_id \in cast_log => r.payload.voter \in has_voted

(* What a failing statement or a crash may leave behind: a ballot without its *)
(* mark or its VOTE_CAST row is that of a call still on its way to write it,  *)
(* or of one that was itself cut short after the insert; no failure of       *)
(* another call, reset or seeding takes the mark or the row from a ballot.   *)
UnfinishedIsCut ==
    \A r \in votes :
        LET storing == pc[r.by] \in Storing /\ vote_id[r.by] = r.vote_id IN
        \/ r.vote_id \in cut
        \/ /\ r.payload.voter \in has_voted \/ (storing /\ pc[r.by] # "audit")
           /\ r.vote_id \in cast_log \/ storing

(* The audit trail is complete: a VOTE_CAST row names every ballot, or the    *)
(* thread that stored it is about to write that row, across resets too.      *)
BallotIsAudited ==
    \A r \in votes :
        \/ r.vote_id \in cast_log
        \/ pc[r.by] \in Storing /\ vote_id[r.by] = r.vote_id

(* What a pause of the election leaves to the calls that had already passed  *)
(* the status check: under one row of election_config that is not ACTIVE,    *)
(* each thread stores at most one ballot, whatever else happens.             *)
ClosedEra(e) == IF e = 0 THEN TRUE ELSE election_config[e] # "ACTIVE"

LateBallotsBounded ==
    \A r, q \in votes :
        r.by = q.by /\ r.era = q.era /\ ClosedEra(r.era) => r = q

(* Replay protection that does not lean on has_voted: with one thread, the    *)
(* sequence row is at least the number of every ballot of that voter, but    *)
(* for the ballot whose number is being stored, so a payload once counted is *)
(* refused even after an administrator cleared the voter's flag.  The one     *)
(* exception is the zero that a reset stores for a voter it generated, when   *)
(* that voter has voted between the two commits (seed_data.py:85).           *)
SequenceCoversBallots ==
    \A r \in votes :
        \/ r.vote_id \in overwritten
        \/ vote_sequence[r.payload.voter] >= r.payload.seq
        \/ pc[r.by] = "bump" /\ call[r.by] = r.payload

(* Replay protection as a voter would state it: with one thread, the ballots  *)
(* of a voter carry growing numbers in the order in which they were counted, *)
(* so no payload is in the table twice, and none overtakes a later one,      *)
(* although an administrator may clear the mark between them.  A ballot      *)
(* whose number was overwritten by a reset no longer holds back later ones.  *)
NumbersIncrease ==
    \A r, q \in votes :
        r.payload.voter = q.payload.voter /\ r.vote_id < q.vote_id
            => r.payload.seq < q.payload.seq \/ r.vote_id \in overwritten

(* A thread that took a request answers it, whatever the administrator does  *)
(* meanwhile: deleting the last voter does not keep the demo endpoint busy.  *)
EveryCallAnswered == \A t \in Thread : pc[t] # "idle" ~> pc[t] = "idle"

=============================================================================
