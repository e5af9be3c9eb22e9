-------------------------- MODULE ElectionDatabase --------------------------
(***************************************************************************)
(* The SQLite database of the server (database/schema.sql) and the helper  *)
(* functions of server/database.py that process_vote and the voter         *)
(* administration use.  Every helper opens its own connection and commits  *)
(* before it returns, so each one is a single atomic step here and nothing *)
(* larger is.                                                              *)
(*                                                                         *)
(* Abstracted: names, fingerprints, booth descriptions and all timestamps; *)
(* the candidates table is the set of candidates whose status is ACTIVE;   *)
(* of audit_log only the VOTE_CAST rows are kept (no code decides anything *)
(* on the others).  A row of votes keeps the whole signed payload, which   *)
(* the hash column stands for, and two history fields the table does not   *)
(* have: the thread that wrote it and the election_config row that was the *)
(* latest one when it was written.                                         *)
(***************************************************************************)
EXTENDS Integers, Sequences, FiniteSets

CONSTANTS Voter,            \* RFID identifiers, registered or not
          Candidate,        \* candidate values a payload can carry
          Booth,            \* booth identifiers a payload can carry
          Thread,           \* the threads that run process_vote
          KnownBooths,      \* rows of the booths table
          ValidCandidates,  \* config.VALID_CANDIDATES
          DemoVoters        \* seed_data.DEMO_VOTERS

ASSUME ConstantsAssumption ==
    /\ KnownBooths \subseteq Booth
    /\ ValidCandidates \subseteq Candidate
    /\ DemoVoters \subseteq Voter /\ DemoVoters # {}

VARIABLES voters,            \* rfid_ids of the rows of voters
          has_voted,         \* those of them whose has_voted is 1
          votes,             \* rows of votes
          last_vote_id,      \* AUTOINCREMENT counter of votes
          vote_sequence,     \* rows of vote_sequence, NoRow where there is none
          active_candidates, \* candidates whose status is ACTIVE
          election_config,   \* statuses of the rows, in the order of their ids
          cast_log           \* vote ids named by VOTE_CAST rows of audit_log

ballotTables == <<has_voted, votes, last_vote_id, vote_sequence, cast_log>>
tables == <<voters, ballotTables, active_candidates, election_config>>

NoRow == -1
ElectionStatus == {"ACTIVE", "INACTIVE", "PAUSED"}

(* A vote payload.  complete: every required field is present.  authentic:  *)
(* the HMAC verifies and the legacy hash field is absent or equal to the    *)
(* signature.  A sequence number that int() cannot convert is 0, which is   *)
(* refused for the same reason and with the same answer.                    *)
PayloadType == [voter : Voter, candidate : Candidate, booth : Booth, seq : Nat,
                complete : BOOLEAN, authentic : BOOLEAN]

VoteRow == [vote_id : Nat \ {0}, payload : PayloadType, by : Thread, era : Nat]

DatabaseTypeOK ==
    /\ voters \subseteq Voter
    /\ has_voted \subseteq voters
    /\ votes \subseteq VoteRow
    /\ last_vote_id \in Nat
    /\ vote_sequence \in [Voter -> Nat \cup {NoRow}]
    /\ active_candidates \subseteq Candidate
    /\ election_config \in Seq(ElectionStatus)
    /\ cast_log \subseteq Nat

(* The database as seed_demo_voters leaves it on a fresh file.               *)
DatabaseInit ==
    /\ voters = DemoVoters
    /\ has_voted = {}
    /\ votes = {}
    /\ last_vote_id = 0
    /\ vote_sequence = [v \in Voter |-> NoRow]
    /\ active_candidates = ValidCandidates
    /\ election_config = <<"ACTIVE">>
    /\ cast_log = {}

(* ------------------------------ queries ------------------------------- *)

VotesOf(v) == {r \in votes : r.payload.voter = v}
Era == Len(election_config)

get_election_status ==
    IF Era = 0 THEN "INACTIVE" ELSE election_config[Era]

get_last_sequence(v) == IF vote_sequence[v] = NoRow THEN 0 ELSE vote_sequence[v]

(* --------------------------- transactions ----------------------------- *)

record_vote(p, t) ==
    /\ p.voter \in voters                 \* FOREIGN KEY (voter_id)
    /\ last_vote_id' = last_vote_id + 1
    /\ votes' = votes \cup {[vote_id |-> last_vote_id', payload |-> p,
                             by |-> t, era |-> Era]}
    /\ UNCHANGED <<voters, has_voted, vote_sequence, active_candidates,
                   election_config, cast_log>>

(* Mutant: INSERT OR IGNORE instead of the upsert.                            *)
update_last_sequence_insert_only(v, n) ==
    /\ v \in voters
    /\ vote_sequence' = [vote_sequence EXCEPT ![v] = IF @ = NoRow THEN n ELSE @]
    /\ UNCHANGED <<voters, has_voted, votes, last_vote_id, active_candidates,
                   election_config, cast_log>>

update_last_sequence(v, n) ==
    /\ v \in voters                       \* FOREIGN KEY (voter_id)
    /\ vote_sequence' = [vote_sequence EXCEPT ![v] = n]
    /\ UNCHANGED <<voters, has_voted, votes, last_vote_id, active_candidates,
                   election_config, cast_log>>

(* Mutant: an upsert instead of the UPDATE, which matches no deleted voter.    *)
set_voter_as_voted_upsert(v) ==
    /\ has_voted' = has_voted \cup {v}
    /\ UNCHANGED <<voters, votes, last_vote_id, vote_sequence,
                   active_candidates, election_config, cast_log>>

set_voter_as_voted(v) ==
    /\ has_voted' = has_voted \cup ({v} \cap voters)
    /\ UNCHANGED <<voters, votes, last_vote_id, vote_sequence,
                   active_candidates, election_config, cast_log>>

record_vote_cast(id) ==
    /\ cast_log' = cast_log \cup {id}
    /\ UNCHANGED <<voters, has_voted, votes, last_vote_id, vote_sequence,
                   active_candidates, election_config>>

(* bulk_insert_voters and insert_voter: rows whose rfid_id exists are skipped *)
insert_voters(S) ==
    /\ voters' = voters \cup S
    /\ UNCHANGED <<ballotTables, active_candidates, election_config>>

delete_voter(v) ==
    /\ votes' = votes \ VotesOf(v)
    /\ vote_sequence' = [vote_sequence EXCEPT ![v] = NoRow]
    /\ voters' = voters \ {v}
    /\ has_voted' = has_voted \ {v}
    /\ UNCHANGED <<last_vote_id, active_candidates, election_config, cast_log>>

(* update_voter rewrites votes and vote_sequence before the voters row, and  *)
(* the foreign keys are checked at the end of each statement: a new          *)
(* identifier that is not yet registered is refused as soon as the old one   *)
(* has a ballot or a sequence row, and one that is registered collides with  *)
(* the primary key.  Either way the transaction is rolled back.              *)
(* Mutant CanRenameUnchecked: the PRAGMA foreign_keys is off.                 *)
CanRenameUnchecked(old, new) == old = new \/ new \notin voters

CanRename(old, new) ==
    \/ old = new
    \/ new \notin voters /\ VotesOf(old) = {} /\ vote_sequence[old] = NoRow

update_voter(old, new, voted) ==
    /\ old \in voters
    /\ CanRename(old, new)
    /\ voters' = (voters \ {old}) \cup {new}
    /\ has_voted' = (has_voted \ {old}) \cup (IF voted THEN {new} ELSE {})
    /\ UNCHANGED <<votes, last_vote_id, vote_sequence, active_candidates,
                   election_config, cast_log>>

(* Mutants: a reset that forgets one of the tables.                           *)
wipe_keeps_votes ==
    /\ has_voted' = {}
    /\ vote_sequence' = [v \in Voter |-> NoRow]
    /\ UNCHANGED <<voters, votes, last_vote_id, active_candidates,
                   election_config, cast_log>>

reset_keeps_votes ==
    /\ has_voted' = {}
    /\ vote_sequence' = [v \in Voter |-> NoRow]
    /\ cast_log' = {}
    /\ UNCHANGED <<voters, votes, last_vote_id, active_candidates, election_config>>

(* The wipe of /api/demo/simulate-vote once every voter has voted.            *)
wipe_ballots ==
    /\ has_voted' = {}
    /\ votes' = {}
    /\ vote_sequence' = [v \in Voter |-> NoRow]
    /\ UNCHANGED <<voters, last_vote_id, active_candidates, election_config,
                   cast_log>>

(* The transaction of /api/election/reset, which also clears audit_log.       *)
reset_election ==
    /\ has_voted' = {}
    /\ votes' = {}
    /\ vote_sequence' = [v \in Voter |-> NoRow]
    /\ cast_log' = {}
    /\ UNCHANGED <<voters, last_vote_id, active_candidates, election_config>>

insert_election_config(s) ==
    /\ election_config' = Append(election_config, s)
    /\ UNCHANGED <<voters, ballotTables, active_candidates>>

(* Candidate CRUD: whatever it does to the rows, the ACTIVE set is replaced.  *)
set_active_candidates(S) ==
    /\ active_candidates' = S
    /\ UNCHANGED <<voters, ballotTables, election_config>>
=============================================================================
