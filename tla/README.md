# SecureVoteX in TLA+

SecureVoteX is an electronic voting demonstrator: booths (an ESP32 firmware and a
Python simulator) identify a voter by RFID card and fingerprint, sign a vote and
send it over MQTT to a Flask server, which verifies it and stores it in SQLite.
This directory holds TLA+ modules for the part of it that decides which ballots
count, the TLC configurations that check them and proofs for TLAPS.

Paths below are relative to the repository's root.

## 1. The system

| Component | Code | State it keeps |
|---|---|---|
| Database | `voting_system/server/database.py`, `voting_system/database/schema.sql` | eight SQLite tables; every helper opens a connection of its own and commits before it returns |
| Vote verification | `voting_system/server/vote_verifier.py`, `voting_system/security/hashing.py` | none but the local variables of a running `process_vote` |
| Endpoints | `voting_system/server/routes.py` | the session (role of the administrator) |
| Seeding | `voting_system/database/seed_data.py` | none |
| Administrator accounts | `voting_system/server/routes.py`, `voting_system/server/database.py` | the table `admins`; the role of the login in each session cookie |
| MQTT handler and health monitor | `voting_system/server/mqtt_handler.py` | `_last_health_seen` in memory, `system_health` in the database |
| Live counter | `voting_system/server/socketio_handler.py` | one integer |
| Start-up | `voting_system/server/app.py` | the threads it starts |
| Python booth | `voting_system/booth/` | `buffered_votes.json`, the table of awaited MQTT responses, the heartbeat thread |
| Booth firmware | `firmware/src/` | the state of the voting dialogue, the queue of votes on flash, a sequence number in RAM |
| Dashboard | `voting_system/dashboard/` | presentation only |

### 1.1 Database

Operations that decide anything: `get_voter_by_rfid`, `booth_exists`,
`get_election_status`, `get_last_sequence`, the candidates query, and the
transactions `record_vote`, `update_last_sequence`, `set_voter_as_voted`,
`record_audit_log`, `insert_voter`, `bulk_insert_voters`, `update_voter`,
`delete_voter` and the candidate CRUD. `get_connection` sets
`PRAGMA foreign_keys = ON`; `votes.voter_id` and `vote_sequence.voter_id`
reference `voters`. It is correct when no row of `votes` or `vote_sequence` is
left without its voter, when `vote_id` is never used twice, and when each helper
is all or nothing. Hard: nothing larger than one helper is a transaction.

### 1.2 Vote verification

`process_vote` validates the payload, looks up the voter, the booth and the
status of the election, verifies the signature, compares the sequence number,
inserts the ballot, stores the sequence number, marks the voter and writes an
audit row: ten accesses to the database, each committed alone, run by Flask's
request threads, by the MQTT network thread and in process by the simulator. It
is correct when a voter has at most one ballot, a ballot was properly signed and
belongs to a registered voter and booth, a replayed payload is refused, and marks
and audit rows follow the ballots. Hard: everything read may be stale when the
ballot is inserted; a statement may fail, or the process end, between two steps.

### 1.3 Endpoints, seeding, process

`/api/vote` signs a payload on behalf of the client when there is no signature;
`/api/demo/simulate-vote` picks a voter at random and empties the ballots when
nobody is left; `/api/election/control` adds a row to `election_config`;
`/api/election/reset` empties the ballots and seeds again, the demo data and
voters generated up to a total of a hundred; voter
and candidate administration run at any time. All of them interleave with running
calls. They are correct when no administrative action leaves the tables
inconsistent or lets a ballot be counted twice.

### 1.4 MQTT handler, health monitor, live counter

The handler answers authentication and vote messages and records heartbeats; a
monitor thread looks every 30 s for components not heard for 90 s and marks them
OFFLINE; the demo heartbeat of the dashboard writes the same row from a request thread.
Interaction: one dictionary in memory and one table, shared without a lock. Correct
when a component that keeps sending is not left OFFLINE and one that stopped does not
stay ONLINE. Hard: the round works on a copy, the two writers enter row and
dictionary in opposite orders, the dictionary is lost at a restart, and the loop
of the monitor has no `try`. The live counter is a read-modify-write on several threads.

### 1.5 Administrator accounts

Login, logout, change of the own password, and adding, updating and deleting
accounts. Each is a handful of statements, each of them committed alone; the role
that admits a request is the one the cookie got at login. A login with a password that an earlier
version stored as SHA-256 stores it again with bcrypt. Correct when a password is
the one last chosen, audit rows follow what was changed, and somebody is left who can manage
accounts. Hard: cookies outlive demotions, deletions and restarts, and a login may
store again what a concurrent change has just replaced.

### 1.6 Python booth

`OfflineBuffer` is a file of votes with two users: the menu thread appends, the
retry thread reads, publishes each vote and writes back what was not accepted.
`BoothMqttClient` turns publish and subscribe into request and response with a
timeout. Correct when a vote that was stored is delivered in the end or still
stored. Hard: both threads rewrite the whole file, through one temporary name; a
lost answer is indistinguishable from a lost request. With `NETWORK_MODE` MQTT the
menu's dialogue sends three requests (card, finger, vote) through a client of its
own, beside the client of the heartbeats and those of the retry thread. All of them have the
same MQTT client id, so each connection makes the broker end the previous one.

### 1.7 Booth firmware

A state machine (idle, card, fingerprint, selection, submission) over an MQTT manager that waits for the response and a queue of files on flash
that is retried in order. Correct when a confirmed vote reaches the server or stays
in the queue, and when one voter's dialogue never sends another voter's choice.
Hard: power loss between file operations, a flash that is full or does not mount, a queue that stops at the first vote not
accepted, and a sequence number that starts again at 1 after each boot.

## 2. The modules

```
BallotBox              abstract specification
   ^ implemented by (one thread, orderly days)
   |    PollingPlace    abstract specification
   |       ^ implemented by (any number of threads, orderly days)
ElectionServer         endpoints, control and reset, administration, crash
   EXTENDS VoteProcessing      process_vote by several threads, failing statements
      EXTENDS ElectionDatabase    tables and transactions
ElectionServerProofs   theorems, EXTENDS ElectionServer
PollingPlaceProofs     theorems about the abstract specification, EXTENDS PollingPlace
MCElectionServer       instances for TLC, EXTENDS ElectionServer

VoteStore              abstract specification
   ^ implemented by OfflineBuffer (saves between the rounds) and by BoothFirmware
OfflineBuffer          the Python booth's file of votes and its two threads;
                       its server is the promise of BallotBox
OfflineBufferProofs    theorems, EXTENDS OfflineBuffer
MCOfflineBuffer        instances for TLC, EXTENDS OfflineBuffer
BoothSimulator         the Python booth's menu in both network modes, its three MQTT
                       clients and the broker, EXTENDS OfflineBuffer
BoothSimulatorProofs   theorems, EXTENDS BoothSimulator and OfflineBufferProofs
MCBoothSimulator       instances for TLC, EXTENDS BoothSimulator

BoothFirmware          the ESP32 booth: dialogue, requests, queue on flash;
                       its server is the promise of BallotBox
BoothFirmwareProofs    theorems, EXTENDS BoothFirmware
MCBoothFirmware        instances for TLC, EXTENDS BoothFirmware

HealthMonitor          heartbeats, the rows of system_health, the monitor thread
HealthMonitorProofs    theorems, EXTENDS HealthMonitor
MCHealthMonitor        instances for TLC, EXTENDS HealthMonitor

AdminAccounts          accounts, sessions and the requests that change them
AdminAccountsProofs    theorems, EXTENDS AdminAccounts
MCAdminAccounts        instances for TLC, EXTENDS AdminAccounts
```

### ElectionDatabase

One variable per table, as far as code depends on it: `voters` and `has_voted`
(sets of identifiers), `votes` (a set of rows) with its AUTOINCREMENT counter
`last_vote_id`, `vote_sequence` (a function, `NoRow` where there is no row),
`active_candidates`, `election_config` (the statuses in the order of their ids;
the last one is the status) and `cast_log`, the vote ids named by `VOTE_CAST`
rows of `audit_log`. An operator named like a helper is its transaction. A
foreign key is a conjunct of the guard (`record_vote`, `update_last_sequence`);
for `update_voter`, `CanRename` says when the sequence of its UPDATE statements
passes the immediate foreign keys and the primary key.

Left out: names, fingerprints, descriptions, timestamps, all audit rows that no
code and no property reads. Two history fields that the table does not have,
`by` and `era`, record which thread wrote a ballot and which `election_config`
row was the latest one then; no action reads them.

### VoteProcessing

`pc[t]` names the next database access of a thread, `call[t]` its payload,
`vote_id[t]` the local variable of that name and `answer[t]` the event of the
result. A step ends where the code commits. `Submit` is a request with a payload of
the client's; the next ten actions are the sections of `process_vote` in their
order; `Refuse` keeps the event until `AuditRefusal` writes the row of it. A
signature verifies or does not (`authentic`); whether a payload has all its
fields is `complete`; both candidate checks are kept, since a candidate may be
deactivated between them. `DatabaseError` says what becomes of a raised exception
at each access: fall back to the configured candidates, answer as for a replay,
go on without the sequence row, or end with status "error" with all that was
committed in place.

### ElectionServer

`ApiVote` and `SimulateVote` begin the endpoints that make a payload of their
own; the sequence number is read in a step before the call (`NumberPayload`), and
the demo endpoint picks, wipes and picks again. `ResetElection` and the
`Seed` steps are `/api/election/reset`, with `reset_step` and `reset_todo` for its
progress. The seeding commits after each voter: the demo voters (`SeedVoter`), then, when the
total has been taken (`CountVoters`), those with a number above it
(`SeedGeneratedVoter`). A generated voter that is new gets the sequence number 0 in a further
transaction (`SeedNumber`), which replaces whatever the row holds by then; `unnumbered` is the voter
between the two, and the history variable `overwritten` keeps the ballots that lost their number
in this way. `AutoVoters` and `AutoNumber` stand for the identifiers `RFID-AUTO001` to `RFID-AUTO100`. `RegisterVoters`, `DeleteVoter`,
`UpdateVoter`, `ChangeCandidate` and `ElectionControl` are the administrator.
`Crash` ends the calls and the reset, and leaves the tables. The history variable
`cut` keeps the ballots whose call a crash or a failing statement ended before its last step. One reset
runs at a time in the model.

The specifications differ in what may happen on a day:

| Specification | Steps |
|---|---|
| `Spec` | everything |
| `FaultySpec` | votes, administration, failures; no edit of a voter |
| `OrderlySpec` | votes and administration; no failure and no edit |
| `VotingSpec` | votes alone |
| `FairOrderlySpec` | `OrderlySpec` with fairness |
| `EditedSpec` | votes, administration and edits |

"No edit" excludes `PUT /api/voters/<rfid>` only. That request writes `has_voted`
from its body, 0 unless the body says otherwise, so an administrator can clear a
voter's mark at will, and no statement that relates marks to ballots survives it.

### BallotBox

A register of voters and a box: cast one ballot, enroll, strike with the ballot,
empty the box. `ElectionServer!Box` maps every row of `votes` to a ballot and
`last_vote_id` to the number last issued. A row counts as a ballot as soon as it is
inserted, since every tally of the code counts rows.

### PollingPlace

The same promise with several clerks: what is true of the threads although
`OneBallotPerVoter` is not. Between the admission of a voter, which needs an open place, and the
ballot there is a desk with the admissions not yet used. The place may close, the box be
emptied and the voter be struck meanwhile, and an admission outlives all that; it is good for one ballot at
most, and a clerk hands a voter no second ballot while the first one is in the box. Two clerks
may each have one for the same voter. `ElectionServer!Place` takes threads for clerks, calls
between the status check and the insert (`Cleared`) for admissions, and the column `by` for who gave the
ballot.

### VoteStore

Votes that could not be delivered: store one, submit one, count a submitted one whose voter
has none, release counted ones, erase the whole medium, which loses the uncounted ones. Crashes, power cuts, failing writes and lost messages are no
steps of it, so an implementation must show that they change nothing. `OfflineBuffer!Store`
maps the list in `buffered_votes.json` to the store, `BoothFirmware!Store` the whole files of
`/votes`; a torn file holds no vote. Only the booth that formats a flash erases: `OfflineBuffer`
maps `lost` to the empty set. `counted` are the booth's own votes; a ballot from
elsewhere only keeps a vote of that voter from being counted.

### OfflineBuffer

The two writers are `menu` (`save_vote`) and `retry` (`_retry_once` in `_loop`).
`pc[w]` says where a writer is, `items[w]` is the list it is about to write
(`items` of `save_vote`, `remaining` of `_retry_once`), `handle[w]` the name of the
file it has open. `disk` holds the contents of `buffered_votes.json` (`path`) and
of its temporary name (`tmp`). `todo` is what is left of the round and `answer`
the response `send_and_wait` is waiting for.

| Code | Actions |
|---|---|
| `_write_buffer` | `OpenTmp`, `Flush`, `Replace` or, when the other writer has renamed the file first, `TmpGone` |
| `save_vote` | `SaveVote` reads the file and appends; then the steps of `_write_buffer` |
| `_retry_once` | `ReadBuffer`; per vote `ConnectFails`, or `Publish` followed by `HandleAnswer` or `Timeout`; `RoundEnds`; then `_write_buffer` |
| `except` clauses | `WriteFails` (a writer gives up, perhaps with part of the text written), `AuditFails` (an accepted vote is kept because its audit row raised) |
| end and restart of the booth | `Crash` |
| broker and server | `ReceiveRequest`, `ReceiveLate` (a repeated or delayed delivery), `VoteElsewhere`, `LinkChanges` |

Files behave as in POSIX: opening for writing truncates, two handles of one
name share the file, a rename moves the file under an open handle. On Windows a
rename over a file that is open fails instead, which is a `WriteFails`. What was handed to
the operating system survives `Crash`, which is the end of the process; the
code never calls fsync, and a power loss that undoes a completed rename is not
modelled. One booth process uses the file. The simulator saves
votes only when `NETWORK_MODE` is SIMULATION and its menu was switched to offline; with MQTT
selected a vote that is not answered is reported as failed and is not saved. The
retry thread submits over MQTT in both modes.
`SlowServer` says whether the answer of a reachable server may take more than the 5 seconds of
`send_and_wait`. It may in `buffer_threads`; it may not in the runs of `MCOfflineBuffer`, where
`EventuallyCounted` would otherwise wait for an answer that is never in time.

A vote whose answer was lost, and one of a voter who has a ballot already, is
refused on every later round and stays in the file for good. The properties say
what that must not do: keep the votes behind it from being submitted.

`Spec` has everything, `SerialSpec` only the behaviours in which no save overlaps
a round (`Alone`), `OverlapSpec` both threads at once and no failure.

### BoothSimulator

`NETWORK_MODE` is chosen at the start. With SIMULATION the menu is that of
`OfflineBuffer` and `VoteLocally`, the call of `process_vote` in the booth's own process while
its toggle is on. With MQTT it is the dialogue below. `clients` are those between
`connect()` and `disconnect()`, `session` is the one the broker is connected to, and
`subscribed` says that its `on_connect` has run. Sessions are clean: an answer
reaches the client that is connected and subscribed when it is published, or nobody.
The retry thread, in both modes, connects a third client of the same id for every vote and disconnects it
afterwards. `Leftover` is what the file may hold at the start: votes of an earlier run, in either mode, any of
which may have been submitted and counted already.

| Code | Actions |
|---|---|
| `main` | `SimulatorInit`: the heartbeat client runs, unless the broker was out of reach then |
| `run_valid_voter_flow` | `StartFlow` (which evicts the heartbeat client), `EnterCard`, `EnterFinger`, `ChooseCandidate`, `EndFlow` as the end of every other step |
| `_publish_and_wait` | `Ask`, `Transmit` (paho keeps a message until its client is connected), `FetchResponse`, `GiveUp` |
| `_on_connect`, `_on_message` | `Subscribe`, `Deliver`, `AnswerRetry` |
| reconnection by paho's loop thread | `Reconnect` |
| `_handle_auth_request`, `_handle_vote_submit` | `Serve`, for any request ever sent: late, and more than once |
| `send_vote_payload` | `VoteLocally` |
| `_publish_payload` | `RetryConnects`, `RetryDisconnects`; the other steps of a round are those of `OfflineBuffer` |

What a person sees there and the model shows too: an answer lost to an eviction or to a
late subscription ends in a timeout, which the dialogue displays as a card that is not
registered or a finger that does not match. With SIMULATION the display says that the vote was recorded
whatever `process_vote` answered. Left out: the menus 2 to 6, which
call `process_vote` or write an audit row and keep nothing, and input
of a fingerprint that is not a number, which ends the program.

### BoothFirmware

`loop()` is one thread. `state` is `currentState`, the dialogue variables have
their names in the code, and `step` is the place where the loop waits for a
response (`auth`, `submit`, `retry`) or where a power cut makes a difference
(between two file operations). `files` holds the files of `/votes` in directory
order; one that was created and not yet written, or written in part, is `Torn`. `isMounted` is the
field of that name.

| Code | Actions |
|---|---|
| `setup` | `Boot`, also after a `PowerCut`, which may come at any step and leaves the server |
| `OfflineBuffer::init` | `Mount`: the partition is mounted, or formatted and mounted, or there is no buffer until the next start |
| `transitionTo` | part of each action. States it leaves before it returns (the two prompts, `VOTE_CONFIRMED`, `VOTE_FAILED`, `REJECTED`) are no states of the model; `ToIdle` is the end of the last three |
| `loop`, by state | `Connecting`, `ScanCard`, `RequestAuthentication`, `ScanFinger`, `Press`, `VoteTimeout`, `SubmitVote` |
| `requestAuthentication` | `AuthResponse`, of a `mine` response or another one; `AuthTimeout` |
| `submitVotePayload` | `VoteResponse`, `SubmitTimeout`; `SubmitReturns` is what the caller does with the result |
| `bufferVote` | `CreateFile`, `WriteFile`, or `CreateFails` |
| `processQueue` | `ProcessQueue`, `NextFile`, `RemoveFile` |
| broker and server | `ReceiveRequest`, `ReceiveLate`, `VoteElsewhere`, `LinkChanges` |

A place in the queue is not chosen by the code: a file's name is `millis()` since
boot and a random number, and the order is the file system's, so `CreateFile`
inserts anywhere. Two equal names are not modelled. Since an accepted file
is removed and any other ends the round, the file in hand is always the first one.

A response is for the request being waited for when its `request_id` says so
(`mine`); one of another booth or of an earlier request has any content.
Messages may be lost, repeated or late, the publication included, whose result the code
ignores. `SlowServer` says whether a response may take more than `RESPONSE_TIMEOUT_MS` while
the link is up. The server takes ballots one by one, as `BallotBox` does; that is what `ballot_box`
shows of it, and `double_vote_race` shows where it fails.

Left out: the admin menu, since no UID that `readUID` can form equals `ADMIN_RFID`;
heartbeats and audit messages; the simulated sensor; the sequence number, which restarts with
the booth, and the server's comparison with it. With `FlashFills` a file may fail to be created, and
`file.print` may write less than it was given: the code ignores its result and displays the ballot as saved,
against the intent of the branch at `main.cpp:519`. `short` keeps the ballots that this happened to and
`erased` those that a formatting took, and `ToldIsKept` names both: nothing else loses a saved ballot.
`LittleFS.remove`, whose result the code ignores too, is taken to succeed; a file that stays would be
refused as a second ballot of its voter and stop the queue as in finding 3. Messages are taken to fit into the MQTT client's buffer,
whose size the code does not set.

### HealthMonitor

`system_health` is the status column, `_last_health_seen` the dictionary with its times
reduced to what the monitor tells apart: `recent` becomes `old` when nothing is heard
of a component for 90 s (`Age`). `listener` is paho's network thread and the message it
handles, `monitor` the monitor thread, `overdue` what is left of its copy, `request[t]`
the demo heartbeat an HTTP thread serves. `condition` is what a component sends: nothing, a
report of a broken link, or one of two sound links.

| Code | Actions |
|---|---|
| `start_mqtt_client` | `Started`: without a broker neither network loop nor monitor |
| `_handle_health`, `_handle_booth_heartbeat` | `Heard` enters the time, `HeardRow` writes the row; `HeardFails` |
| `_health_monitor_loop` | `StartRound`, `DeclareOffline` per late component, `MonitorFails` (the thread ends) |
| `api_demo_booth_heartbeat` | `DemoBeat`, `DemoInsert`, `DemoRow`, `DemoSeen`, `DemoFails` |
| end and restart of the server | `Restart`: the table stays, the dictionary does not |

An entry does not age while a message of its component is being handled: a statement
gives up on a locked database after 5 s. Left out: the message rate, the other
columns of the row, and the rows for the broker, the database and the dashboard
that the status endpoint computes when it is asked.

### AdminAccounts

`admins` has password, role and status of each username, `session` the role in the cookie
of each user's browser, `request[t]` what a thread is doing: `pc` names its next
statement. Requests that are refused before they change anything are no actions.

| Code | Actions |
|---|---|
| `api_auth_login`, `authenticate_admin` | `Login` compares, `Migrate` stores a legacy password again, `LoginRole` reads the role in a connection of its own |
| `api_auth_logout` | `Logout` |
| `api_admin_change_password` | `ChangePassword`, perhaps `Migrate`, `StorePassword`, `Audit` |
| `api_add_admin` | `AddAdmin` looks the name up, `InsertAdmin` (or the unique key refuses), `Audit` |
| `api_update_admin` | `UpdateAdmin`, `UpdateRow`, perhaps `StorePassword`, `Audit` |
| `api_delete_admin` | `DeleteAdmin`, `DeleteRow`, `Audit` |
| seeding | `SeedAdmin`, when the default account is missing |
| failing statement, end of the process | `EndEarly`; cookies stay, since the key that signs them is constant |

Left out: a password of 64 characters that equals its own stored SHA-256 in the code's
comparison of legacy rows; the length and form of names and passwords; audit rows of logins.

## 3. What the runs show

`buffer_serial` and `buffer_overlap` are runs of `MCOfflineBuffer`, `buffer_threads` of
`MCBoothSimulator`, `firmware` and `firmware_queue` of `MCBoothFirmware`, `health` of
`MCHealthMonitor`, `accounts` of `MCAdminAccounts`, the others of `MCElectionServer`.

| Run | Specification | Checks | What it shows |
|---|---|---|---|
| `ballot_box` | `FairOrderlySpec`, 1 thread, 2 voters | `IsBallotBox`, `EveryCallAnswered` | with the requests taken one by one, the server implements `BallotBox` under resets, demo wipes, deletions and registrations in the middle of a call; every request is answered, also when the administrator empties the register under the demo endpoint |
| `edits` | `EditedSpec`, 1 thread, 2 voters, one of them generated | `ReferentialIntegrity`, `SequenceCoversBallots`, `NumbersIncrease` | no row loses its voter through any mix of renaming, deletion, seeding and voting; a counted payload stays covered by the sequence row, so it is refused on replay even after the mark was cleared, and the ballots of a voter are counted in the order of their numbers; the only exception is a ballot whose row a reset overwrote with 0 (first observation below) |
| `threads` | `OrderlySpec`, 2 threads, 1 voter | `TypeOK`, `OneBallotPerThread`, `BallotIsMarked`, `BallotIsAudited`, `IsPollingPlace` | what concurrency leaves of one ballot per voter, also as an implementation of `PollingPlace`; marks and audit rows follow every ballot across wipes and resets that hit a running call |
| `faults` | `FaultySpec`, 1 thread, 2 voters, every kind of bad payload | `GenuineBallots`, `LateBallotsBounded`, `CastMeansMarked`, `UnfinishedIsCut` | failing statements and crashes in every place let no bad payload through, a pause is overtaken by at most one ballot per thread, a ballot that the log calls cast has its voter marked, and one without its mark or its log row is that of a call still at work or itself cut short |
| `double_vote_race` | `VotingSpec`, 2 threads | `OneBallotPerVoter`, violated | finding 1 |
| `buffer_serial` | `FairSerialSpec`, 3 votes of 2 voters, one fault | `TypeOK`, `StoredUntilCounted`, `AlwaysReadable`, `KeepsOrder`, `EventuallyCounted`, `IsVoteStore` | saves between the rounds: across a crash or a failing write at any step, lost answers, repeated deliveries and a paused election, the file implements `VoteStore`, no stored vote is lost, the file stays readable and in order, and the voter of each stored vote has a ballot in the end |
| `buffer_threads` | `SimulatorSpec`, 2 votes of 1 voter, one of them perhaps left in the file, an unknown card, 3 requests | `FlowTypeOK`, `OnlyVerified`, `ShownIsCounted`, `SaveIsDurable`, `HeartbeatsReturn` | SIMULATION: what overlapping threads leave of a save, namely that one which returns while no round is under way has put its vote into the file. MQTT: a candidate is chosen only after the server verified the finger of this card in this dialogue, a vote whose answer said accepted was counted, and once dialogues end the heartbeats get the connection back, for good unless a vote that is never accepted waits in the file |
| `buffer_overlap` | `OverlapSpec`, 2 votes | `StoredUntilCounted`, violated | finding 2 |
| `firmware` | `FairSpec`, 2 voters and an unknown card, 2 ballots, 2 power cuts, slow server, a flash that fills, fails to mount or is formatted | `TypeOK`, `VoterIsPresent`, `ToldIsKept`, `BoothRecovers`, `IsVoteStore` | `/votes` implements `VoteStore`; whatever responses arrive, only the holder of a registered card with the finger of that card gets to the buttons; a ballot displayed as recorded was counted, and one displayed as saved is on flash until it is, but for a short write and a formatting; the booth always gets back to the next card |
| `firmware_queue` | `FairSpec`, 2 voters, 2 ballots, no power cut, server in time | `EachFileTried`, violated | finding 3 |
| `health` | `FairSpec`, 2 components, 1 HTTP thread, 1 restart, 1 failure | `TypeOK`, `OnlineIsWatched`, `GoneIsNoticed`, `KeepsOnline` | a row written ONLINE has a monitor that runs and knows the component, although the two writers use opposite orders, unless the server was started without a broker or a failing statement ended the monitor or a demo heartbeat; a component gone for good ends OFFLINE while the monitor lives, one that keeps sending ends ONLINE |
| `accounts` | `Spec`, 2 users, 2 threads, 2 calls, 1 call cut short | `TypeOK`, `PasswordSticks`, `AuditFollows`, `LastManager` | a migration may bring back the password of an earlier version and nothing else undoes a change; audit rows name committed changes; the last manager goes by giving up the role or by a request with a stale cookie |

### Findings

1. `vote_verifier.py` reads `has_voted` (160) and inserts the ballot (217) in
   different connections, and `votes` has no unique key on the voter. Two requests
   handled by two threads are both stored. `tests/test_fraud.py:43` says a second
   vote of the same voter should be rejected.
2. `booth/offline_buffer.py:86` writes back the votes that were left of a list read
   at the start of the round, up to 5 seconds per vote earlier. A vote that
   `save_vote` stored in between is overwritten and never submitted, without a fault of any
   kind. `voting_system/README.md:113` says that buffered votes are retried until delivery.
3. `firmware/src/offline_buffer.cpp:95` stops the round at every ballot that is not
   accepted, and the next round begins with the same file. The comment above it speaks of a
   server that is unreachable; the code also stops when the server answered and
   refused. A saved ballot whose voter has one from elsewhere, or whose
   answer was lost, is refused for ever, and the ballots behind it are not
   submitted, with the link up and the election open. A file cut short by a power
   failure has the same effect. The Python booth goes on with the next vote
   instead (`EventuallyCounted` of `buffer_serial`).

### Observations

Seen while modelling; the models have the behaviour and no run is about it.

- `seed_data.py:85` writes the sequence number 0 for a generated voter after the voter was
  committed at line 83. A ballot counted between the two, with one vote thread and no failure, has
  its number overwritten; once an administrator's edit clears the mark (`routes.py:1375`),
  the same payload passes the replay check and is counted a second time. `voting_system/README.md:108`
  says that votes with duplicate or lower sequence numbers are rejected. `SequenceCoversBallots` and
  `NumbersIncrease` have these ballots (`overwritten`) as their only exception: without it, TLC finds
  the second count in the run `edits`.
- While a vote that the server refuses for ever waits in `buffered_votes.json` and the booth runs with
  MQTT, every round of the retry thread connects a client with the booth's id and so evicts the
  heartbeats once more (`mqtt_client.py:52`); they come back each time, and never for good.
- `firmware/src/offline_buffer.cpp:36` ignores how much `file.print` has written, so on a full flash a ballot
  cut short is displayed as saved. It is never delivered, and stops the queue as in finding 3.
- `firmware/src/offline_buffer.cpp:8` formats the partition when it cannot be mounted, together with the ballots
  displayed as saved. The comment there says so; nothing tells the operator which ballots are gone.
- The generated voters are numbered from the total, so an identifier that exists already
  leaves the total below a hundred (`seed_data.py:77`).
- `seed_data.py:163` is an INSERT OR IGNORE with no key to collide with. The
  comment at line 158 calls it idempotent; each seeding adds an ACTIVE row, and the
  last row counts, so a reset of a paused election reopens it.
- `database.py:634` renames the children of a voter before the voter. The foreign
  keys are immediate, so the rename its docstring promises (line 628) is refused as
  soon as the voter has a ballot or a sequence row.
- A component that is silent from a restart on keeps the status it had: the
  dictionary is empty and the monitor never looks at its row (`GoneIsNoticed`
  therefore speaks of components heard since).
- A failing statement in a round ends the monitor thread for good; a server started without a broker
  has none, and a demo heartbeat then writes an ONLINE row that nobody will change (`OnlineIsWatched` names both).
- With two administrators, each with the other's account open, both removals are
  admitted (`LastManager` names this way). Only seeding brings an account back.

### Bounds

`MaxVotes` (2, or 3 with two threads) bounds the rows ever inserted: a call
starts only while it could still insert without exceeding it. Two ballots are what
each property about pairs of ballots needs; the third one in `threads` lets a
thread vote again after a wipe or a reset. `MaxElectionRows` (2) bounds
`election_config`: the seeded ACTIVE row, and one change of the election that is
made while calls run. A reset may start only below the bound, and its seeding may
add one row more, so three rows occur. Two voters, one of them not seeded,
give registered and unregistered cards, deletion and re-registration, and a
sequence row of each. Two threads are the smallest number that interleave; the
theorems cover any number. The voter that is not seeded is the one a reset generates
in `edits` and `faults`; in the runs without it a registration has the same effect but for the zero. The candidate `Z` is one that is not configured; the
booth `b9` one that is not registered. No symmetry is used.

The buffer's runs have three votes, two of them of one voter: an entry that is
refused for ever, one behind it and one saved later. `MaxFaults` (1) bounds crashes and
failing writes together; the model may recover from any one of them and go on for ever.
The theorems hold for any number of votes and faults.

The firmware's runs build two ballots (`MaxVotes`), enough for one blocking another
in the queue; no card is read after that. `MaxOutages` (2) allows a second power cut while the booth deals
with what the first one left, and the flash to be lost at the second start. `FlashFills` is off in
`firmware_queue`, whose violation is not to depend on a fault. Two voters with a finger each give every mismatch
of card, finger and response; the third card is in no register. One button is enough, since the candidate
is only handed on. The theorems hold for any number of each.

`buffer_threads` allows three requests: one whole dialogue, or three that are given up, each with the late
answers of those before it. Two votes of one voter are enough for one that is counted and one that is refused
for ever, in the dialogue, in the file of this run and in that of an earlier one. `health` has two components,
so that a round can be left half done, and one HTTP thread beside the network and monitor
threads; one restart and one failure may fall at any step of any of them. `accounts` has two
administrators, the fewest that can remove each other, on two threads, each able to make one
change; one of them has a password of an earlier version; one request may be cut short. The
theorems hold for any number of each.

Deadlock is checked in every run but `accounts`, where all calls may be used up with
nobody left who can log in. `VotingSpec` can come to rest at its bound of
votes; its run finds its violation before.

### Fairness

`EveryCallAnswered`, `EventuallyCounted`, `HeartbeatsReturn`, `BoothRecovers`,
`EachFileTried`, `GoneIsNoticed` and `KeepsOnline` need it.

For `EveryCallAnswered`: weak fairness of the steps of a thread that is
inside a call: threads of the operating system run, SQLite's busy handler gives up
after 5 s, and no step of a call waits for another call. There is no fairness
of arrivals, of the administrator or of the seeding, and failures are not part
of `FairOrderlySpec`: a failing statement ends a call, it does not prolong it.

For `EventuallyCounted`: weak fairness of the retry thread, which `_loop` runs every
10 seconds until it is stopped and whose waits are bounded; of a save once begun; and of
the server's answer to the request being waited for while it is reachable. The link,
the election, arrivals, late deliveries and faults have none; the property assumes the link
up and the election open from some point on, and the bound on faults ends them.

For `HeartbeatsReturn`: weak fairness of `Reconnect` for each client, the loop thread that paho
runs until `loop_stop`, and of the retry thread, which runs all the time and whose wait for an answer is
bounded. Dialogues need not end; the property assumes that none is under way from some
point on and that the broker is reachable.

For `HealthMonitor`: strong fairness of `Heard`, since messages are handled in the order in which they
come and the next heartbeat of a component that keeps sending gets its turn; weak fairness of
time (`Age`), of the row that follows it, of rounds and of demo requests once
begun. Restarts, failures, demo requests and components have none.

For the firmware: weak fairness of `Booth`, all that `loop()` does without a person,
since it never returns and each wait in it has a timeout; strong fairness of `ProcessQueue`, since in
`IDLE` the loop looks at the queue before it looks at the card reader,
however often cards are presented; weak fairness of the server's answer to the request being waited for
while the booth is online. Voters, the link, the election and power have none.
`BoothRecovers` therefore holds while the link goes up and down for ever.

## 4. What is proved

`ElectionServerProofs` holds theorems for every value of the constants, under the
named assumptions `ConstantsAssumption` (configured booths, candidates and demo
voters are among the identifiers, and there is a demo voter), `PayloadAssumption`,
`MaxVotesAssumption` and `ServerAssumption`. The bounds are constants of the
theorems too, so they hold for every bound.

| Theorem | Says | Argument |
|---|---|---|
| `TypeCorrect` | `Spec => []TypeOK` | inductive as it stands, one lemma per action |
| `IntegrityHolds` | `Spec => []ReferentialIntegrity` | inductive together with `TypeOK`; `delete_voter` removes children first, `CanRename` refuses what would orphan one, the inserts are guarded by the foreign key |
| `GenuineHolds` | `Spec => []GenuineBallots` | strengthened by `CheckedCalls`: what a call has been checked for by the time it reaches each step, a failing read of the candidates included; only an insert takes an id, and the next one |
| `SequenceCoversHolds` | with `Thread = {t0}`, `EditedSpec => []SequenceCoversBallots`, resets that number generated voters included | strengthened by `HighestNumber`: no ballot of its voter has a higher number than the payload about to be stored, which the check of the sequence establishes and no administrator can undo; `SeedNumber` puts the ballots whose row it lowers into `overwritten`, which both parts except |
| `NumbersHold` | with `Thread = {t0}`, `EditedSpec => []NumbersIncrease` | strengthened by `AboveCounted`: a payload that passed the sequence check has a higher number than each ballot of its voter that is not `overwritten`, by `SequenceCoversBallots`; that the new row has the highest id is `GenuineBallots` |
| `LateBallotsHolds` | `Spec => []LateBallotsBounded` | strengthened by `LateInv`: no ballot is of a later era than the current one (`EraBound`), and a thread that has passed the gate under a closed era has not stored a ballot of that era (`LateGate`); after storing one, the gate is shut for its next call |
| `OrderlyHolds` | `OrderlySpec =>` the four invariants of `threads` | strengthened by `OrderlyInv`: a thread between the look-up and the insert has no earlier ballot of that voter (`NoBallotYet`), which a wipe, a reset and a deletion only make easier |
| `MarkedHolds`, `AuditedHolds` | `OrderlySpec => []BallotIsMarked`, `OrderlySpec => []BallotIsAudited` | from `OrderlyHolds` |
| `CastHolds` | `FaultySpec => []CastMeansMarked` | strengthened by `CastInv`: ids in the log and in the calls have been issued (`IdsAreOld`), and the id a call holds is of its own row (`OwnRow`), so that the audit row comes after the mark of the same voter |
| `UnfinishedHolds` | `FaultySpec => []UnfinishedIsCut` | from `CastInv`: a step of one call takes mark and audit row from no ballot that stays (`CutKept`), the mark that a call writes is that of its own row's voter (`OwnRow`), and each failure that ends a call after the insert puts its ballot into `cut` |
| `OneThreadIsBallotBox` | with `Thread = {t0}`, `OrderlySpec => Box!Spec` | step simulation from the invariants above: `RecordVote` is `Cast`, registration is `Enroll`, deletion is `Strike`, wipe and reset are `EmptyBox`, everything else stutters |
| `OneThreadOneBallot` | with `Thread = {t0}`, `OrderlySpec => []OneBallotPerVoter` | every ballot is of the same thread, so it is `OneBallotPerThread`. Several threads break it (finding 1) |
| `ThreadsArePollingPlace` | `OrderlySpec => Place!Spec`, any number of threads | step simulation from `OrderlyInv`: a passed `CheckElectionStatus` is `Admit`, a refusal after it `Dismiss`, `RecordVote` is `Cast` (`NoBallotYet` gives its guard) or, for a voter who is gone, `Dismiss`; wipe and reset are `EmptyBox`. The desk of a thread has one admission exactly while its call is between the check and the insert (`DeskOfThread`) |

Each proof has a lemma that the initial states satisfy the invariant, a lemma that
every action keeps it, with one step per action, and a temporal step that
combines them.

`PollingPlaceProofs` relates the two promises. `OneClerkIsBallotBox` (with `Clerk = {k0}`, `Spec =>
OneBox!Spec`): with one clerk the place is a ballot box, since every ballot is of that clerk.
`PlaceKeepsApart` (`Spec => []BallotsApart`): whatever number of clerks, numbers are given once, and the ballots
of one clerk are of different voters. Both hold of any implementation of `PollingPlace`.

`OfflineBufferProofs` does the same under `BufferAssumption` (each payload has a
voter).

| Theorem | Says | Argument |
|---|---|---|
| `BufferTypeCorrect` | `Spec => []TypeOK` | inductive as it stands |
| `SerialHolds` | `SerialSpec => []` of `StoredUntilCounted`, `AlwaysReadable` and `KeepsOrder` | strengthened by `SerialInv`: nobody has `path` open and it holds a list in the order of the saves, no vote twice (`FileInv`); the writer at work has its own list in the temporary file (`WriterInv`); the menu's draft is the file and one new vote (`DraftInv`); `remaining` followed by `todo` is in the order of the saves, and what it lacks of the file has been counted (`RoundInv`) |
| `ReadableHolds`, `OrderHolds` | `SerialSpec => []AlwaysReadable`, `SerialSpec => []KeepsOrder` | from `SerialHolds` |
| `BufferIsVoteStore` | `SerialSpec => IsVoteStore` | step simulation from `SerialInv` and `StoreInv`: what a round keeps and what it has left (`items`, `todo`) are votes of the file, what a response is awaited for was submitted, and a counted vote has its voter marked. `Replace` by the menu is `Store`, by the retry thread `Release`; a crash, and a write that fails, stutter because `path` is only ever renamed over |
| `SaveDurableHolds` | `OverlapSpec => SaveIsDurable` | `OwnerInv`: a handle on the temporary name means that the name exists, and a writer that is alone between open and rename finds its own list under that name, or nothing |

`BoothSimulatorProofs` does the same under `SimulatorAssumption`, for `SimulatorSpec`.

| Theorem | Says | Argument |
|---|---|---|
| `FlowTypeCorrect` | `SimulatorSpec => []FlowTypeOK` | from `FlowInv`, whose other parts follow |
| `OnlyVerifiedHolds` | `SimulatorSpec => []OnlyVerified` | request ids are issued once (`IdsIssued`), the pending request with the current id is the one that was typed (`AskedIsTyped`), and a response bears the id of a request that was sent and says of it what the server said (`AnswersTrue`): the response that is found is about what was asked |
| `ShownHolds` | `SimulatorSpec => []ShownIsCounted` | a response that accepts a vote is about a counted one (`AnswersTrue`), and no step of the buffer or its network takes a counted vote back (`CountedGrows`) |
| `ProgramSavesHold` | `SimulatorSpec => SaveIsDurable` | `OwnerStored` of `OfflineBufferProofs` for the steps of the buffer; the dialogue, its clients, the broker and `VoteLocally` touch neither the files nor their writers |

`BoothFirmwareProofs` does so under `FirmwareAssumption` (registered cards have a
template, the bounds are natural numbers), for `Spec`, which has no fairness and every failure.

| Theorem | Says | Argument |
|---|---|---|
| `FirmwareTypeCorrect` | `Spec => []TypeOK` | inductive as it stands; it relates `step` to `state` and says that the file in hand exists and is whole, without which `Head(files)` means nothing |
| `PersonHolds` | `Spec => []VoterIsPresent` | strengthened by `FingerInv`: while a finger is awaited, the expected template is that of the current card, which only a response to the booth's own request can have set |
| `DisplayHolds` | `Spec => []ToldIsKept` | strengthened by `AnswerInv`: a response that says accepted is about a counted ballot, and the file about to be removed has been counted; a short write and a formatting put what they take into `short` and `erased` |
| `FlashIsVoteStore` | `Spec => IsVoteStore` | step simulation from `AnswerInv` and `StoreInv`: `WriteFile` is `Store`, `SubmitVote` and `NextFile` are `Submit`, `RemoveFile` is `Release` of the first file, unless an equal one remains, and a start that formats is `Erase`; creating a torn file, a short write and a power cut that spares the files stutter |

`HealthMonitorProofs` (under `HealthAssumption`) and `AdminAccountsProofs` (under
`AccountAssumption`) are about specifications with every failure.

| Theorem | Says | Argument |
|---|---|---|
| `HealthTypeCorrect` | `Spec => []TypeOK` | inductive as it stands; a monitor exists exactly when the network thread does, a round lists components that have an entry |
| `WatchedHolds` | `Spec => []OnlineIsWatched` | strengthened by `HeardIsSeen`: a component whose row the network thread is about to write has its entry already; `OnlineIsKnown`: an ONLINE row of this process is in the dictionary or in the hands of a demo request, unless that was broken off; `FaultsCount`: it takes a failing statement to break one off or to end the monitor |
| `AccountsTypeCorrect` | `Spec => []TypeOK` | strengthened by `CallsNumbered`: a request with a change to make has the number of a call |
| `PasswordHolds` | `Spec => []PasswordSticks` | strengthened by `OldStays`: a row that is still legacy has the old password, and so does a migration under way |
| `AuditHolds` | `Spec => []AuditFollows` | strengthened by `CallsApart` (no two requests have one call) and `CallsStored` (how far a request is tells whether its change has been committed) |
| `LastManagerHolds` | `Spec => LastManager` | `SelfSpared`: an update under way does not disable, and a deletion does not name, the account of its sender |

Model-checked only: `EveryCallAnswered`, `EventuallyCounted`, `HeartbeatsReturn`, `BoothRecovers`,
`GoneIsNoticed` and `KeepsOnline` (liveness is beyond
the proof system used), and the violations.

## 5. What is not modelled

The live counter, the tallies and exports, the scripted menus of the Python booth, the
clock of both booths' heartbeats, and the composition of a booth with the server's sequence
numbers. What each module leaves out is said there. Certificates,
TLS files, the dashboard, device drivers, start-up scripts and pages hold no state
that a decision depends on. Fingerprint verification happens before a vote is
sent and is no input of `process_vote`. Cryptography is a predicate.
A candidate may be deactivated between the two validations of a vote, which makes an authentic
ballot an invalid one: the model has it, and no property is about it. Of `seed_data.py` the booths are
left out; the default administrator is in `AdminAccounts`. Socket.IO notifications are left out: each
emit catches its own exceptions.

## 6. Plan

In this order; each module with an instance for TLC, and with one theorem module
where the theorem says more than the run.

1. `ElectionDatabase`, `VoteProcessing`, `ElectionServer`, `BallotBox`: done.
2. `OfflineBuffer`: done.
3. `BoothFirmware`: done.
4. `HealthMonitor`: done.
5. `AdminAccounts`: done.
6. `BoothSimulator`: done.
7. Theorems for every safety property of the passing runs: done.
8. Refinement: `OneThreadIsBallotBox`, `ThreadsArePollingPlace`, `BufferIsVoteStore`,
   `FlashIsVoteStore`: done. `AdminAccounts` and `HealthMonitor` have no specification
   above them: a table of accounts or of statuses with atomic changes would repeat their
   committing statements.
9. Replay over a network that loses, delays and repeats: `Submit` takes any payload at any
   time, so `NumbersHold` covers it. Left is the other side of it, a booth whose numbers start again
   at 1 and whose ballots are refused after a mark was cleared.
10. The seeding of generated voters, a full or formatted flash, and the retry thread's MQTT client: done.
11. Smaller ones if they earn it: `Tally` (three tallies of one table), `ActiveClients`.
