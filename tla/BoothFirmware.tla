---------------------------- MODULE BoothFirmware ----------------------------
(***************************************************************************)
(* The ESP32 booth (firmware/src): the dialogue with one voter after the    *)
(* other, requests over MQTT that wait for a response, and the directory    *)
(* /votes of ballots that are still to be delivered.  There is one thread,  *)
(* loop(); step says where it waits or where a power cut makes a difference.*)
(*                                                                         *)
(* States that transitionTo leaves before it returns are not states here,   *)
(* and the admin menu is not: no UID that readUID can form equals           *)
(* ADMIN_RFID.  The server is the promise of BallotBox.                     *)
(***************************************************************************)
EXTENDS Integers, Sequences, Functions

CONSTANTS Card,           \* UIDs on cards
          Finger,         \* templates of the sensor
          Candidate,      \* buttons
          fingerprint_id, \* the template of each registered card
          SlowServer,     \* a response may come too late although online
          FlashFills,     \* the flash may be full when a ballot is stored
          MaxVotes,       \* bound on the ballots built
          MaxOutages      \* bound on power cuts

Registered == DOMAIN fingerprint_id

ASSUME FirmwareAssumption ==
    /\ Registered \subseteq Card
    /\ fingerprint_id \in [Registered -> Finger]
    /\ SlowServer \in BOOLEAN /\ FlashFills \in BOOLEAN
    /\ MaxVotes \in Nat /\ MaxOutages \in Nat

VARIABLES state,                 \* currentState
          step,                  \* where loop() is
          currentVoterRFID,
          expectedFingerprintId,
          fingerprintAttempts,
          selectedCandidate,
          votePayload,           \* the ballot being submitted
          isMounted,             \* LittleFS.begin succeeded at this start
          files                  \* the files of /votes in directory order

VARIABLES sent,       \* ballots handed to the broker, which may deliver late
          reply,      \* the server's response to the request being waited for
          counted,    \* ballots of this booth the server accepted
          has_voted,  \* cards with a ballot, from this booth or another
          online,     \* isConnected()
          open        \* the election is ACTIVE

VARIABLES finger,     \* history: the finger that passed in this dialogue
          recorded,   \* history: ballots displayed as "Vote Recorded"
          saved,      \* history: ballots displayed as "Vote Saved"
          short,      \* history: those of them whose file was written in part
          erased,     \* history: uncounted ballots a formatted flash took
          issued,     \* history: number of ballots built
          outages     \* history: number of power cuts

dialogueVars == <<state, currentVoterRFID, expectedFingerprintId,
                  fingerprintAttempts, selectedCandidate, finger>>
serverVars == <<counted, has_voted>>
linkVars == <<online, open>>
flashVars == <<isMounted, files>>
historyVars == <<recorded, saved, short, erased, issued, outages>>
boothVars == <<dialogueVars, step, votePayload, flashVars, sent, reply,
               serverVars, linkVars, historyVars>>

NoCard == ""
NoFinger == -1
NoButton == "0"

(* A ballot; its uptime, sequence number and signature are abstracted to a    *)
(* number, and a file that does not hold one is Torn.                        *)
Payload == [id : Nat \ {0}, voter_id : Card, candidate : Candidate]
Torn == [id |-> 0]
File == Payload \cup {Torn}

States == {"WIFI_CONNECTING", "MQTT_CONNECTING", "IDLE", "WAITING_RFID_VALIDATION",
           "WAITING_FINGERPRINT", "WAITING_CANDIDATE", "SUBMITTING_VOTE"}

(* Waiting for an authentication, for the answer to the ballot of the         *)
(* dialogue, for the answer to the first file; between two steps of bufferVote *)
(* and of processQueue.                                                      *)
Steps == {"loop", "auth", "submit", "retry", "create", "write", "queue", "remove"}

TypeOK ==
    /\ state \in States /\ step \in Steps
    /\ currentVoterRFID \in Card \cup {NoCard}
    /\ expectedFingerprintId \in Finger \cup {NoFinger}
    /\ fingerprintAttempts \in 0 .. 3
    /\ selectedCandidate \in Candidate \cup {NoButton}
    /\ votePayload \in File
    /\ isMounted \in BOOLEAN /\ files \in Seq(File)
    /\ sent \subseteq Payload
    /\ reply \in {"none", "accepted", "rejected"}
    /\ counted \subseteq Payload /\ has_voted \subseteq Card
    /\ online \in BOOLEAN /\ open \in BOOLEAN
    /\ finger \in Finger \cup {NoFinger}
    /\ recorded \subseteq Payload /\ saved \subseteq Payload
    /\ short \subseteq Payload /\ erased \subseteq Payload
    /\ issued \in Nat /\ outages \in Nat
    /\ step = "auth" => state = "WAITING_RFID_VALIDATION"
    /\ step \in {"submit", "create", "write"} =>
           state = "SUBMITTING_VOTE" /\ votePayload \in Payload
    /\ step \in {"retry", "queue", "remove"} => state = "IDLE" /\ isMounted
    /\ step \in {"retry", "remove"} => files # <<>> /\ Head(files) # Torn
    /\ state \notin {"WIFI_CONNECTING", "MQTT_CONNECTING", "IDLE"} =>
           currentVoterRFID \in Card
    /\ state = "WAITING_FINGERPRINT" => fingerprintAttempts > 0
    /\ state = "SUBMITTING_VOTE" => selectedCandidate \in Candidate

(* LittleFS.begin(true) mounts the partition; when that fails it formats it    *)
(* and mounts it empty, and when that fails too there is no buffer until the   *)
(* next start, with or without the files.                                    *)
Mount ==
    /\ isMounted' \in BOOLEAN
    /\ \/ UNCHANGED <<files, erased>>
       \/ /\ files' = <<>>
          /\ erased' = erased \cup (Range(files) \ ({Torn} \cup counted))

(* setup(): RAM is fresh.                                                    *)
Boot ==
    /\ state' = "WIFI_CONNECTING" /\ step' = "loop"
    /\ currentVoterRFID' = NoCard /\ expectedFingerprintId' = NoFinger
    /\ fingerprintAttempts' = 0 /\ selectedCandidate' = NoButton
    /\ votePayload' = Torn /\ finger' = NoFinger /\ reply' = "none"
    /\ Mount

Init ==
    /\ state = "WIFI_CONNECTING" /\ step = "loop"
    /\ currentVoterRFID = NoCard /\ expectedFingerprintId = NoFinger
    /\ fingerprintAttempts = 0 /\ selectedCandidate = NoButton
    /\ votePayload = Torn /\ finger = NoFinger /\ reply = "none"
    /\ isMounted \in BOOLEAN
    /\ files = <<>> /\ sent = {} /\ counted = {} /\ has_voted = {}
    /\ online = FALSE /\ open = TRUE
    /\ recorded = {} /\ saved = {} /\ short = {} /\ erased = {}
    /\ issued = 0 /\ outages = 0

-----------------------------------------------------------------------------
(* transitionTo(STATE_IDLE), also at the end of VOTE_CONFIRMED, VOTE_FAILED    *)
(* and REJECTED.                                                             *)
ToIdle ==
    /\ state' = "IDLE"
    /\ currentVoterRFID' = NoCard /\ expectedFingerprintId' = NoFinger
    /\ fingerprintAttempts' = 0 /\ selectedCandidate' = NoButton
    /\ finger' = NoFinger

(* loop() in a state s; the rest of the booth is as it was.                  *)
InLoop(s) ==
    /\ step = "loop" /\ state = s
    /\ UNCHANGED <<flashVars, reply, serverVars, linkVars, recorded, saved, short,
                   erased, outages>>

Connecting ==
    /\ \/ /\ InLoop("WIFI_CONNECTING")
          /\ state' \in {"MQTT_CONNECTING", "IDLE"}
       \/ /\ InLoop("MQTT_CONNECTING")
          /\ state' = "IDLE"
    /\ UNCHANGED <<currentVoterRFID, expectedFingerprintId, fingerprintAttempts,
                   selectedCandidate, finger, step, votePayload, sent, issued>>

ScanCard(c) ==
    /\ InLoop("IDLE")
    /\ issued < MaxVotes
    /\ state' = "WAITING_RFID_VALIDATION"
    /\ currentVoterRFID' = c
    /\ UNCHANGED <<expectedFingerprintId, fingerprintAttempts, selectedCandidate,
                   finger, step, votePayload, sent, issued>>

(* requestAuthentication; offline nobody is let through.                     *)
RequestAuthentication ==
    /\ InLoop("WAITING_RFID_VALIDATION")
    /\ IF online THEN step' = "auth" /\ UNCHANGED dialogueVars
       ELSE UNCHANGED step /\ ToIdle
    /\ UNCHANGED <<votePayload, sent, issued>>

(* The response for card c, as the server has it.                            *)
Authenticate(c) ==
    IF c \in Registered \ has_voted
    THEN /\ state' = "WAITING_FINGERPRINT"
         /\ expectedFingerprintId' = fingerprint_id[c]
         /\ fingerprintAttempts' = 1
         /\ UNCHANGED <<currentVoterRFID, selectedCandidate, finger>>
    ELSE ToIdle

(* Mutant: the request_id is not compared.                                   *)
AnyAuthResponse(mine, c) ==
    /\ step = "auth" /\ online
    /\ mine => c = currentVoterRFID
    /\ step' = "loop" /\ Authenticate(c)
    /\ UNCHANGED <<votePayload, flashVars, sent, reply, serverVars, linkVars,
                   historyVars>>

(* One turn of the waiting loop.  All booths share the topic of the responses, *)
(* and an earlier request may be answered late: what is not mine is ignored.  *)
AuthResponse(mine, c) ==
    /\ step = "auth" /\ online
    /\ mine => c = currentVoterRFID
    /\ IF mine THEN step' = "loop" /\ Authenticate(c)
       ELSE UNCHANGED <<step, dialogueVars>>
    /\ UNCHANGED <<votePayload, flashVars, sent, reply, serverVars, linkVars,
                   historyVars>>

TimesOut == ~online \/ SlowServer

AuthTimeout ==
    /\ step = "auth" /\ TimesOut
    /\ step' = "loop" /\ ToIdle
    /\ UNCHANGED <<votePayload, flashVars, sent, reply, serverVars, linkVars,
                   historyVars>>

(* Mutant: one attempt more.                                                 *)
FourthAttempt(f) ==
    /\ InLoop("WAITING_FINGERPRINT")
    /\ IF f = expectedFingerprintId
       THEN /\ state' = "WAITING_CANDIDATE" /\ finger' = f
            /\ UNCHANGED <<currentVoterRFID, expectedFingerprintId,
                           fingerprintAttempts, selectedCandidate>>
       ELSE IF fingerprintAttempts > 3 THEN ToIdle
       ELSE /\ fingerprintAttempts' = fingerprintAttempts + 1
            /\ UNCHANGED <<state, currentVoterRFID, expectedFingerprintId,
                           selectedCandidate, finger>>
    /\ UNCHANGED <<step, votePayload, sent, issued>>

(* scanAndMatch with a finger on the sensor; NoFinger stands for an image     *)
(* that cannot be read or is not enrolled.                                   *)
ScanFinger(f) ==
    /\ InLoop("WAITING_FINGERPRINT")
    /\ IF f = expectedFingerprintId
       THEN /\ state' = "WAITING_CANDIDATE" /\ finger' = f
            /\ UNCHANGED <<currentVoterRFID, expectedFingerprintId,
                           fingerprintAttempts, selectedCandidate>>
       ELSE IF fingerprintAttempts >= 3 THEN ToIdle
       ELSE /\ fingerprintAttempts' = fingerprintAttempts + 1
            /\ UNCHANGED <<state, currentVoterRFID, expectedFingerprintId,
                           selectedCandidate, finger>>
    /\ UNCHANGED <<step, votePayload, sent, issued>>

Press(b) ==
    /\ InLoop("WAITING_CANDIDATE")
    /\ state' = "SUBMITTING_VOTE"
    /\ selectedCandidate' = b
    /\ UNCHANGED <<currentVoterRFID, expectedFingerprintId, fingerprintAttempts,
                   finger, step, votePayload, sent, issued>>

(* 30 seconds without a finger, or without a button.                         *)
VoteTimeout ==
    /\ InLoop("WAITING_FINGERPRINT") \/ InLoop("WAITING_CANDIDATE")
    /\ ToIdle
    /\ UNCHANGED <<step, votePayload, sent, issued>>

-----------------------------------------------------------------------------
(* STATE_SUBMITTING_VOTE: build, sign, publish; offline the ballot is stored. *)
SubmitVote ==
    /\ InLoop("SUBMITTING_VOTE")
    /\ issued' = issued + 1
    /\ votePayload' = [id |-> issued + 1, voter_id |-> currentVoterRFID,
                       candidate |-> selectedCandidate]
    /\ IF online THEN step' = "submit" /\ sent' = sent \cup {votePayload'}
       ELSE step' = "create" /\ UNCHANGED sent
    /\ UNCHANGED dialogueVars

(* submitVotePayload returns: the dialogue confirms or stores the ballot, the *)
(* queue removes the file or stops.                                          *)
SubmitReturns(accepted) ==
    /\ reply' = "none"
    /\ CASE step = "submit" /\ accepted ->
              /\ recorded' = recorded \cup {votePayload}
              /\ step' = "loop" /\ ToIdle
         [] step = "submit" /\ ~accepted ->
              step' = "create" /\ UNCHANGED <<dialogueVars, recorded>>
         [] step = "retry" ->
              /\ step' = IF accepted THEN "remove" ELSE "loop"
              /\ UNCHANGED <<dialogueVars, recorded>>
    /\ UNCHANGED <<votePayload, flashVars, sent, serverVars, linkVars, saved,
                   short, erased, issued, outages>>

VoteResponse(mine, status) ==
    /\ step \in {"submit", "retry"} /\ online
    /\ mine => status = reply
    /\ IF mine THEN SubmitReturns(status = "accepted") ELSE UNCHANGED boothVars

(* Mutant: a wait without an end.                                            *)
NoSubmitTimeout ==
    /\ step = "retry" /\ TimesOut
    /\ SubmitReturns(FALSE)

SubmitTimeout ==
    /\ step \in {"submit", "retry"} /\ TimesOut
    /\ SubmitReturns(FALSE)

(* bufferVote: a file of its own; where the directory lists it depends on a   *)
(* name made of millis() and a random number.                                *)
InsertFile(k) ==
    files' = [i \in 1 .. Len(files) + 1 |->
                 IF i < k THEN files[i] ELSE IF i = k THEN Torn ELSE files[i - 1]]

CreateFile(k) ==
    /\ step = "create" /\ isMounted
    /\ InsertFile(k)
    /\ step' = "write"
    /\ UNCHANGED <<isMounted, dialogueVars, votePayload, sent, reply, serverVars, linkVars,
                   historyVars>>

(* Not mounted or full: VOTE_FAILED.                                         *)
CreateFails ==
    /\ step = "create"
    /\ ~isMounted \/ FlashFills
    /\ step' = "loop" /\ ToIdle
    /\ UNCHANGED <<votePayload, flashVars, sent, reply, serverVars, linkVars,
                   historyVars>>

(* What print returns is not looked at: a file cut short by a full flash is    *)
(* no ballot, and is displayed as saved.  Which of several torn files is      *)
(* filled makes no difference, since the place of the new one was arbitrary.  *)
WriteFile(i) ==
    /\ step = "write"
    /\ files[i] = Torn
    /\ \/ files' = [files EXCEPT ![i] = votePayload] /\ UNCHANGED short
       \/ FlashFills /\ short' = short \cup {votePayload} /\ UNCHANGED files
    /\ saved' = saved \cup {votePayload}
    /\ step' = "loop" /\ ToIdle
    /\ UNCHANGED <<isMounted, votePayload, sent, reply, serverVars, linkVars,
                   recorded, erased, issued, outages>>

BufferVote ==
    \/ \E k \in 1 .. Len(files) + 1 : CreateFile(k)
    \/ CreateFails
    \/ \E i \in DOMAIN files : WriteFile(i)

-----------------------------------------------------------------------------
(* processQueue, every 10 seconds in IDLE.  An accepted file is removed, so    *)
(* the next one is always the first.                                         *)
ProcessQueue ==
    /\ InLoop("IDLE")
    /\ online /\ isMounted /\ files # <<>>
    /\ step' = "queue"
    /\ UNCHANGED <<dialogueVars, votePayload, sent, issued>>

(* Mutant: the file is removed before its ballot is submitted.               *)
RemoveFirst ==
    /\ step = "queue"
    /\ IF files = <<>> \/ ~online \/ Head(files) = Torn
       THEN step' = "loop" /\ UNCHANGED <<sent, files>>
       ELSE step' = "queue" /\ sent' = sent \cup {Head(files)} /\ files' = Tail(files)
    /\ UNCHANGED <<isMounted, dialogueVars, votePayload, reply, serverVars, linkVars,
                   historyVars>>

NextFile ==
    /\ step = "queue"
    /\ IF files = <<>> \/ ~online \/ Head(files) = Torn
       THEN step' = "loop" /\ UNCHANGED sent
       ELSE step' = "retry" /\ sent' = sent \cup {Head(files)}
    /\ UNCHANGED <<dialogueVars, votePayload, flashVars, reply, serverVars, linkVars,
                   historyVars>>

(* LittleFS.remove is taken to succeed; its result is not looked at.           *)
RemoveFile ==
    /\ step = "remove"
    /\ files' = Tail(files)
    /\ step' = "queue"
    /\ UNCHANGED <<isMounted, dialogueVars, votePayload, sent, reply, serverVars, linkVars,
                   historyVars>>

Queue == ProcessQueue \/ NextFile \/ RemoveFile

-----------------------------------------------------------------------------
(* The server: process_vote as BallotBox has it.                             *)
Accepts(p) == open /\ p.voter_id \in Registered \ has_voted

Count(p) ==
    /\ counted' = IF Accepts(p) THEN counted \cup {p} ELSE counted
    /\ has_voted' = IF Accepts(p) THEN has_voted \cup {p.voter_id} ELSE has_voted
    /\ UNCHANGED <<dialogueVars, step, votePayload, flashVars, sent, linkVars,
                   historyVars>>

Current == IF step = "submit" THEN votePayload ELSE Head(files)

ReceiveRequest ==
    /\ step \in {"submit", "retry"}
    /\ reply = "none"
    /\ Count(Current)
    /\ reply' = IF Accepts(Current) THEN "accepted" ELSE "rejected"

(* A request that comes after the booth gave up, or once more.               *)
ReceiveLate(p) ==
    /\ p \in sent
    /\ Count(p)
    /\ UNCHANGED reply

VoteElsewhere(c) ==
    /\ open
    /\ c \in Registered
    /\ has_voted' = has_voted \cup {c}
    /\ UNCHANGED <<dialogueVars, step, votePayload, flashVars, sent, reply, counted,
                   linkVars, historyVars>>

LinkChanges ==
    /\ \/ online' = ~online /\ UNCHANGED open
       \/ open' = ~open /\ UNCHANGED online
    /\ UNCHANGED <<dialogueVars, step, votePayload, flashVars, sent, reply,
                   serverVars, historyVars>>

Server ==
    \/ ReceiveRequest
    \/ \E p \in sent : ReceiveLate(p)
    \/ \E c \in Card : VoteElsewhere(c)
    \/ LinkChanges

(* Power is lost at any point and comes back; /votes is on flash.             *)
PowerCut ==
    /\ outages < MaxOutages
    /\ outages' = outages + 1
    /\ Boot
    /\ UNCHANGED <<sent, serverVars, linkVars, recorded, saved, short, issued>>

Voter ==
    \/ \E c \in Card : ScanCard(c)
    \/ \E f \in Finger \cup {NoFinger} : ScanFinger(f)
    \/ \E b \in Candidate : Press(b)

(* What the booth does without anybody in front of it.                       *)
Booth ==
    \/ Connecting
    \/ RequestAuthentication \/ AuthTimeout
    \/ \E mine \in BOOLEAN, c \in Card : AuthResponse(mine, c)
    \/ VoteTimeout \/ SubmitVote \/ SubmitTimeout
    \/ \E mine \in BOOLEAN, status \in {"accepted", "rejected"} :
          VoteResponse(mine, status)
    \/ BufferVote \/ Queue

Next == Voter \/ Booth \/ Server \/ PowerCut

Spec == Init /\ [][Next]_boothVars

(* loop() runs, its waits end, and it looks at the queue before the card       *)
(* reader; a server that is online answers.                                  *)
Fairness ==
    /\ WF_boothVars(Booth)
    /\ SF_boothVars(ProcessQueue)
    /\ WF_boothVars(ReceiveRequest /\ online)
FairSpec == Spec /\ Fairness

-----------------------------------------------------------------------------
(* Whoever is asked for a candidate holds a registered card and has put the    *)
(* finger enrolled for that card on the sensor, whatever responses of earlier  *)
(* requests and of other booths arrived meanwhile.                           *)
VoterIsPresent ==
    state \in {"WAITING_CANDIDATE", "SUBMITTING_VOTE"} =>
        /\ currentVoterRFID \in Registered
        /\ finger = fingerprint_id[currentVoterRFID]

(* What the display told a voter is true and stays true: a ballot shown as      *)
(* recorded has been counted, and one shown as saved is on flash until it is,  *)
(* over power cuts, late responses and refusals.  There are two ways out and   *)
(* no other: a file cut short by a full flash, and a format of the flash at a   *)
(* start (offline_buffer.cpp:8, 36).                                         *)
ToldIsKept ==
    /\ recorded \subseteq counted
    /\ saved \subseteq counted \cup Range(files) \cup short \cup erased

(* The files of /votes are a store of ballots: power cuts, torn files, full     *)
(* flash and lost responses take none away that the server has not counted,   *)
(* a format of the flash at a start takes all of them and nothing else does,   *)
(* and no card is counted twice for this booth, however late a request comes. *)
Ballots == [id : 1 .. MaxVotes, voter_id : Card, candidate : Candidate]
Store == INSTANCE VoteStore WITH
             Vote <- Ballots, Voter <- Card,
             stored <- Range(files) \ {Torn},
             lost <- erased,
             voter_of <- [p \in Ballots |-> p.voter_id]
IsVoteStore == Store!Spec

(* However responses are lost and ballots are refused, the booth is ready for  *)
(* the next card in the end.                                                 *)
BoothRecovers == ~(state = "IDLE" /\ step = "loop") ~> (state = "IDLE" /\ step = "loop")

(* Once the server stays reachable and the election open, each file of the     *)
(* queue is submitted (offline_buffer.h: "reading each file, trying to publish *)
(* it"), or at least its voter has a ballot from elsewhere.                   *)
Tried(p) == step = "retry" /\ Head(files) = p
EachFileTried ==
    \A p \in Ballots :
        <>[](online /\ open) =>
            (p \in Range(files) ~> Tried(p) \/ p \notin Range(files)
                                   \/ p.voter_id \in has_voted)
=============================================================================
