------------------------- MODULE BoothFirmwareProofs -------------------------
(***************************************************************************)
(* Theorems about BoothFirmware, for all cards, fingers, ballots, outages    *)
(* and for a server of any speed: types, the person in front of the booth,   *)
(* and the truth of what the display said.                                  *)
(***************************************************************************)
EXTENDS BoothFirmware, TLAPS

USE FirmwareAssumption

-----------------------------------------------------------------------------
(* Ballots and the list of files.                                            *)

LEMMA TornIsNoPayload == Torn \notin Payload /\ Torn \in File /\ Payload \subseteq File
  BY DEF Torn, Payload, File

LEMMA RangeOfList ==
  ASSUME NEW s
  PROVE  Range(s) = {s[i] : i \in DOMAIN s}
  BY DEF Range

(* A new torn file adds nothing else and hides nothing.                       *)
LEMMA InsertKeeps ==
  ASSUME files \in Seq(File), NEW k \in 1 .. Len(files) + 1, InsertFile(k)
  PROVE  /\ files' \in Seq(File) /\ Range(files) \subseteq Range(files')
         /\ Range(files') \subseteq Range(files) \cup {Torn}
<1>1. /\ Len(files) \in Nat /\ files \in [1 .. Len(files) -> File]
      /\ DOMAIN files' = 1 .. Len(files) + 1
  BY DEF InsertFile
<1>2. ASSUME NEW i \in 1 .. Len(files) + 1
      PROVE  files'[i] \in File
  <2>1. CASE i < k
    BY <1>1, <2>1 DEF InsertFile
  <2>2. CASE i = k
    BY <1>1, <2>2, TornIsNoPayload DEF InsertFile
  <2>3. CASE i > k
    <3>1. i - 1 \in 1 .. Len(files) /\ files'[i] = files[i - 1]
      BY <1>1, <2>3 DEF InsertFile
    <3>2. QED BY <1>1, <3>1
  <2>4. QED BY <1>1, <2>1, <2>2, <2>3
<1>3. files' \in [1 .. Len(files) + 1 -> File]
  BY <1>1, <1>2 DEF InsertFile
<1>4. ASSUME NEW i \in DOMAIN files
      PROVE  files[i] \in Range(files')
  <2>1. CASE i < k
    <3>1. i \in DOMAIN files' /\ files'[i] = files[i]
      BY <1>1, <2>1 DEF InsertFile
    <3>2. QED BY <3>1, RangeOfList
  <2>2. CASE i >= k
    <3>1. i + 1 \in DOMAIN files' /\ files'[i + 1] = files[i]
      BY <1>1, <2>2 DEF InsertFile
    <3>2. QED BY <3>1, RangeOfList
  <2>3. QED BY <1>1, <2>1, <2>2
<1>5. ASSUME NEW i \in DOMAIN files'
      PROVE  files'[i] \in Range(files) \cup {Torn}
  <2>1. i < k => i \in DOMAIN files /\ files'[i] = files[i]
    BY <1>1 DEF InsertFile
  <2>2. i = k => files'[i] = Torn
    BY <1>1 DEF InsertFile
  <2>3. i > k => i - 1 \in DOMAIN files /\ files'[i] = files[i - 1]
    BY <1>1 DEF InsertFile
  <2>4. i < k \/ i = k \/ i > k
    BY <1>1
  <2>5. QED BY <2>1, <2>2, <2>3, <2>4, RangeOfList
<1>6. files' \in Seq(File)
  BY <1>1, <1>3
<1>7. Range(files) \subseteq Range(files')
  BY <1>4, RangeOfList, Zenon
<1>8. Range(files') \subseteq Range(files) \cup {Torn}
  BY <1>5, RangeOfList, Zenon
<1>9. QED BY <1>6, <1>7, <1>8

LEMMA RemoveKeeps ==
  ASSUME files \in Seq(File), files # <<>>, files' = Tail(files)
  PROVE  /\ files' \in Seq(File)
         /\ Range(files) \subseteq Range(files') \cup {Head(files)}
         /\ Range(files') \subseteq Range(files)
<1>1. files' \in Seq(File) /\ Len(files') = Len(files) - 1
  OBVIOUS
<1>2. ASSUME NEW i \in DOMAIN files
      PROVE  files[i] \in Range(files') \cup {Head(files)}
  <2>1. CASE i = 1
    BY <2>1
  <2>2. CASE i # 1
    <3>1. i - 1 \in DOMAIN files' /\ files'[i - 1] = files[i]
      BY <1>1, <2>2
    <3>2. QED BY <3>1, RangeOfList
  <2>3. QED BY <2>1, <2>2
<1>3. ASSUME NEW i \in DOMAIN files'
      PROVE  files'[i] \in Range(files)
  <2>1. i + 1 \in DOMAIN files /\ files'[i] = files[i + 1]
    BY <1>1
  <2>2. QED BY <2>1, RangeOfList
<1>4. Range(files) \subseteq Range(files') \cup {Head(files)}
  BY <1>2, RangeOfList, Zenon
<1>5. Range(files') \subseteq Range(files)
  BY <1>3, RangeOfList, Zenon
<1>6. QED BY <1>1, <1>4, <1>5

(* Filling a torn file loses nothing but the tear.                            *)
LEMMA WriteKeeps ==
  ASSUME files \in Seq(File), votePayload \in File,
         NEW i \in DOMAIN files, files[i] = Torn,
         files' = [files EXCEPT ![i] = votePayload]
  PROVE  /\ files' \in Seq(File)
         /\ votePayload \in Range(files')
         /\ Range(files) \subseteq Range(files') \cup {Torn}
         /\ Range(files') \subseteq Range(files) \cup {votePayload}
<1>1. files' \in Seq(File) /\ DOMAIN files' = DOMAIN files
  OBVIOUS
<1>2. votePayload \in Range(files')
  BY <1>1, RangeOfList
<1>3. ASSUME NEW j \in DOMAIN files
      PROVE  files[j] \in Range(files') \cup {Torn}
  <2>1. CASE j = i
    BY <2>1
  <2>2. CASE j # i
    BY <1>1, <2>2, RangeOfList
  <2>3. QED BY <2>1, <2>2
<1>4. \A j \in DOMAIN files' : files'[j] \in Range(files) \cup {votePayload}
  BY <1>1, RangeOfList
<1>5. Range(files) \subseteq Range(files') \cup {Torn}
  BY <1>3, RangeOfList, Zenon
<1>6. Range(files') \subseteq Range(files) \cup {votePayload}
  BY <1>4, RangeOfList, Zenon
<1>7. QED BY <1>1, <1>2, <1>5, <1>6

-----------------------------------------------------------------------------
(* Type correctness.                                                         *)

LEMMA InitTypeOK == Init => TypeOK
<1>1. <<>> \in Seq(File)
  OBVIOUS
<1>2. ASSUME Init PROVE TypeOK
  <2>1. /\ state \in States /\ step \in Steps
        /\ fingerprintAttempts \in 0 .. 3 /\ issued \in Nat /\ outages \in Nat
    BY <1>2 DEF Init, States, Steps
  <2>2. online \in BOOLEAN /\ open \in BOOLEAN
    BY <1>2 DEF Init
  <2>3. QED BY <1>1, <1>2, <2>1, <2>2, TornIsNoPayload DEF Init, TypeOK
<1>3. QED BY <1>2

LEMMA IdleTypes ==
  ASSUME TypeOK, ToIdle
  PROVE  /\ state' = "IDLE" /\ state' \in States
         /\ currentVoterRFID' \in Card \cup {NoCard}
         /\ expectedFingerprintId' \in Finger \cup {NoFinger}
         /\ fingerprintAttempts' \in 0 .. 3
         /\ selectedCandidate' \in Candidate \cup {NoButton}
         /\ finger' \in Finger \cup {NoFinger}
  BY DEF ToIdle, States

(* Back to IDLE from any point, with whatever happened to the files.          *)
LEMMA IdleStep ==
  ASSUME TypeOK, ToIdle, step' = "loop", files' \in Seq(File),
         votePayload' \in File, sent' \subseteq Payload,
         recorded' \subseteq Payload, saved' \subseteq Payload, issued' \in Nat,
         short' \subseteq Payload, UNCHANGED erased,
         UNCHANGED <<isMounted, serverVars, linkVars, outages>>,
         reply' \in {"none", "accepted", "rejected"}
  PROVE  TypeOK'
  BY IdleTypes DEF TypeOK, Steps, serverVars, flashVars, linkVars

LEMMA AuthenticateTypes ==
  ASSUME TypeOK, NEW c \in Card, Authenticate(c), step = "auth", step' = "loop",
         UNCHANGED <<votePayload, flashVars, sent, reply, serverVars, linkVars, historyVars>>
  PROVE  TypeOK'
<1>1. CASE ToIdle
  BY <1>1, IdleStep DEF TypeOK, historyVars, flashVars
<1>2. CASE ~ToIdle
  <2>1. /\ c \in Registered
        /\ state' = "WAITING_FINGERPRINT" /\ fingerprintAttempts' = 1
        /\ expectedFingerprintId' = fingerprint_id[c]
        /\ UNCHANGED <<currentVoterRFID, selectedCandidate, finger>>
    BY <1>2 DEF Authenticate
  <2>2. expectedFingerprintId' \in Finger
    BY <2>1
  <2>3. QED BY <2>1, <2>2
     DEF TypeOK, States, Steps, serverVars, flashVars, linkVars, historyVars
<1>3. QED BY <1>1, <1>2

LEMMA VoterTypes == TypeOK /\ Voter => TypeOK'
<1> SUFFICES ASSUME TypeOK, Voter PROVE TypeOK'
  OBVIOUS
<1>1. ASSUME NEW c \in Card, ScanCard(c) PROVE TypeOK'
  BY <1>1 DEF ScanCard, InLoop, TypeOK, States, Steps, serverVars, flashVars, linkVars
<1>2. ASSUME NEW f \in Finger \cup {NoFinger}, ScanFinger(f) PROVE TypeOK'
  <2>1. CASE f = expectedFingerprintId
    BY <1>2, <2>1
       DEF ScanFinger, InLoop, TypeOK, States, Steps, serverVars, flashVars, linkVars
  <2>2. CASE f # expectedFingerprintId /\ fingerprintAttempts >= 3
    BY <1>2, <2>2, IdleStep DEF ScanFinger, InLoop, TypeOK, flashVars
  <2>3. CASE f # expectedFingerprintId /\ ~(fingerprintAttempts >= 3)
    <3>1. fingerprintAttempts' \in 1 .. 3
      BY <1>2, <2>3 DEF ScanFinger, TypeOK
    <3>2. QED BY <1>2, <2>3, <3>1
           
              DEF ScanFinger, InLoop, TypeOK, States, Steps, serverVars, flashVars, linkVars
  <2>4. QED BY <2>1, <2>2, <2>3
<1>3. ASSUME NEW b \in Candidate, Press(b) PROVE TypeOK'
  BY <1>3 DEF Press, InLoop, TypeOK, States, Steps, serverVars, flashVars, linkVars
<1>4. QED BY <1>1, <1>2, <1>3 DEF Voter

LEMMA DialogueTypes ==
  ASSUME TypeOK,
         \/ Connecting \/ RequestAuthentication \/ AuthTimeout
         \/ (\E mine \in BOOLEAN, c \in Card : AuthResponse(mine, c))
         \/ VoteTimeout \/ SubmitVote
  PROVE  TypeOK'
<1>1. CASE Connecting
  BY <1>1 DEF Connecting, InLoop, TypeOK, States, Steps, serverVars, flashVars, linkVars
<1>2. CASE RequestAuthentication
  <2>1. CASE online
    BY <1>2, <2>1 DEF RequestAuthentication, InLoop, TypeOK, Steps, dialogueVars,
                      serverVars, flashVars, linkVars
  <2>2. CASE ~online
    BY <1>2, <2>2, IdleStep DEF RequestAuthentication, InLoop, TypeOK, flashVars
  <2>3. QED BY <2>1, <2>2
<1>3. CASE AuthTimeout
  BY <1>3, IdleStep DEF AuthTimeout, TypeOK, historyVars, flashVars
<1>4. ASSUME NEW mine \in BOOLEAN, NEW c \in Card, AuthResponse(mine, c) PROVE TypeOK'
  <2>1. CASE mine
    BY <1>4, <2>1, AuthenticateTypes DEF AuthResponse
  <2>2. CASE ~mine
    BY <1>4, <2>2
       DEF AuthResponse, TypeOK, dialogueVars, serverVars, flashVars, linkVars, historyVars
  <2>3. QED BY <2>1, <2>2
<1>5. CASE VoteTimeout
  BY <1>5, IdleStep DEF VoteTimeout, InLoop, TypeOK, flashVars
<1>6. CASE SubmitVote
  <2>1. votePayload' \in Payload /\ votePayload' \in File
    BY <1>6 DEF SubmitVote, InLoop, TypeOK, Payload, File
  <2>2. QED BY <1>6, <2>1 DEF SubmitVote, InLoop, TypeOK, Steps, dialogueVars,
                              serverVars, flashVars, linkVars
<1>7. QED BY <1>1, <1>2, <1>3, <1>4, <1>5, <1>6

LEMMA SubmitReturnsTypes ==
  ASSUME TypeOK, step \in {"submit", "retry"}, NEW accepted \in BOOLEAN,
         SubmitReturns(accepted)
  PROVE  TypeOK'
<1>1. CASE step = "submit" /\ accepted
  BY <1>1, IdleStep DEF SubmitReturns, TypeOK, flashVars
<1>2. CASE step = "submit" /\ ~accepted
  BY <1>2
     DEF SubmitReturns, TypeOK, Steps, dialogueVars, serverVars, flashVars, linkVars
<1>3. CASE step = "retry"
  BY <1>3
     DEF SubmitReturns, TypeOK, Steps, dialogueVars, serverVars, flashVars, linkVars
<1>4. QED BY <1>1, <1>2, <1>3

LEMMA VoteResponseTypes ==
  ASSUME TypeOK, NEW mine \in BOOLEAN, NEW status, VoteResponse(mine, status)
  PROVE  TypeOK'
<1>1. CASE mine
  BY <1>1, SubmitReturnsTypes DEF VoteResponse
<1>2. CASE ~mine
  BY <1>2
     DEF VoteResponse, boothVars, TypeOK, dialogueVars, serverVars, flashVars, linkVars, historyVars
<1>3. QED BY <1>1, <1>2

LEMMA BufferVoteTypes == TypeOK /\ BufferVote => TypeOK'
<1> SUFFICES ASSUME TypeOK, BufferVote PROVE TypeOK'
  OBVIOUS
<1>1. ASSUME NEW k \in 1 .. Len(files) + 1, CreateFile(k) PROVE TypeOK'
  <2>1. files' \in Seq(File)
    BY <1>1, InsertKeeps DEF CreateFile, TypeOK
  <2>2. QED BY <1>1, <2>1 DEF CreateFile, TypeOK, Steps, dialogueVars, serverVars, flashVars,
                              linkVars, historyVars
<1>2. CASE CreateFails
  BY <1>2, IdleStep DEF CreateFails, TypeOK, historyVars, flashVars
<1>3. ASSUME NEW i \in DOMAIN files, WriteFile(i) PROVE TypeOK'
  <2>1. files' \in Seq(File)
    BY <1>3, WriteKeeps DEF WriteFile, TypeOK
  <2>2. saved' \subseteq Payload /\ short' \subseteq Payload
    BY <1>3 DEF WriteFile, TypeOK
  <2>3. QED BY <1>3, <2>1, <2>2, IdleStep DEF WriteFile, TypeOK
<1>4. QED BY <1>1, <1>2, <1>3 DEF BufferVote

LEMMA QueueTypes == TypeOK /\ Queue => TypeOK'
<1> SUFFICES ASSUME TypeOK, Queue PROVE TypeOK'
  OBVIOUS
<1>1. CASE ProcessQueue
  BY <1>1
     DEF ProcessQueue, InLoop, TypeOK, Steps, dialogueVars, serverVars, flashVars, linkVars
<1>2. CASE NextFile
  <2>1. files # <<>> => Head(files) \in File
    BY DEF TypeOK
  <2>2. QED BY <1>2, <2>1 DEF NextFile, TypeOK, Steps, File, dialogueVars, serverVars, flashVars,
                              linkVars, historyVars
<1>3. CASE RemoveFile
  <2>1. files' \in Seq(File)
    BY <1>3, RemoveKeeps DEF RemoveFile, TypeOK
  <2>2. QED BY <1>3, <2>1 DEF RemoveFile, TypeOK, Steps, dialogueVars, serverVars, flashVars,
                              linkVars, historyVars
<1>4. QED BY <1>1, <1>2, <1>3 DEF Queue

LEMMA CountTypes ==
  ASSUME TypeOK, NEW p \in Payload, Count(p), reply' \in {"none", "accepted", "rejected"}
  PROVE  TypeOK'
<1>1. p.voter_id \in Card
  BY DEF Payload
<1>2. counted' \subseteq Payload /\ has_voted' \subseteq Card
  BY <1>1 DEF Count, TypeOK
<1>3. QED BY <1>2 DEF Count, TypeOK, dialogueVars, linkVars, historyVars, flashVars

LEMMA CurrentIsPayload ==
  ASSUME TypeOK, step \in {"submit", "retry"} PROVE Current \in Payload
<1>1. CASE step = "submit"
  BY <1>1 DEF Current, TypeOK
<1>2. CASE step = "retry"
  <2>1. Head(files) \in File /\ Head(files) # Torn
    BY <1>2 DEF TypeOK
  <2>2. QED BY <1>2, <2>1 DEF Current, File
<1>3. QED BY <1>1, <1>2

LEMMA ServerTypes == TypeOK /\ Server => TypeOK'
<1> SUFFICES ASSUME TypeOK, Server PROVE TypeOK'
  OBVIOUS
<1>1. CASE ReceiveRequest
  <2>1. Current \in Payload
    BY <1>1, CurrentIsPayload DEF ReceiveRequest
  <2>2. QED BY <1>1, <2>1, CountTypes DEF ReceiveRequest
<1>2. ASSUME NEW p \in sent, ReceiveLate(p) PROVE TypeOK'
  <2>1. p \in Payload /\ reply' \in {"none", "accepted", "rejected"}
    BY <1>2 DEF ReceiveLate, TypeOK
  <2>2. QED BY <1>2, <2>1, CountTypes DEF ReceiveLate
<1>3. ASSUME NEW c \in Card, VoteElsewhere(c) PROVE TypeOK'
  BY <1>3 DEF VoteElsewhere, TypeOK, dialogueVars, linkVars, historyVars, flashVars
<1>4. CASE LinkChanges
  <2>1. online' \in BOOLEAN /\ open' \in BOOLEAN
    BY <1>4 DEF LinkChanges, TypeOK
  <2>2. QED BY <1>4, <2>1
     DEF LinkChanges, TypeOK, dialogueVars, serverVars, flashVars, historyVars
<1>5. QED BY <1>1, <1>2, <1>3, <1>4 DEF Server

(* A mount keeps the files or empties the directory.                           *)
LEMMA MountOutcome ==
  ASSUME files \in Seq(File), Mount
  PROVE  /\ files' \in Seq(File) /\ isMounted' \in BOOLEAN
         /\ \/ UNCHANGED <<files, erased>>
            \/ /\ files' = <<>> /\ Range(files') = {}
               /\ erased' = erased \cup (Range(files) \ ({Torn} \cup counted))
<1>1. Range(<<>>) = {} /\ <<>> \in Seq(File)
  BY RangeOfList
<1>2. CASE UNCHANGED <<files, erased>>
  BY <1>2 DEF Mount
<1>3. CASE files' = <<>> /\ erased' = erased \cup (Range(files) \ ({Torn} \cup counted))
  BY <1>1, <1>3 DEF Mount
<1>4. QED BY <1>2, <1>3 DEF Mount

LEMMA ErasedTypes ==
  ASSUME TypeOK, Mount
  PROVE  erased' \subseteq Payload
<1>1. Range(files) \ {Torn} \subseteq Payload
  BY RangeOfList DEF TypeOK, File
<1>2. QED BY <1>1 DEF TypeOK, Mount

LEMMA PowerCutTypes == TypeOK /\ PowerCut => TypeOK'
<1> SUFFICES ASSUME TypeOK, PowerCut PROVE TypeOK'
  OBVIOUS
<1>1. files' \in Seq(File) /\ isMounted' \in BOOLEAN /\ erased' \subseteq Payload
  BY MountOutcome, ErasedTypes DEF PowerCut, Boot, TypeOK
<1>2. QED BY <1>1, TornIsNoPayload DEF PowerCut, Boot, TypeOK, States, Steps, serverVars,
                                       linkVars

LEMMA TypeStep == TypeOK /\ [Next]_boothVars => TypeOK'
<1> SUFFICES ASSUME TypeOK, [Next]_boothVars PROVE TypeOK'
  OBVIOUS
<1>1. CASE Voter
  BY <1>1, VoterTypes
<1>2. CASE Booth
  <2>1. ASSUME NEW mine \in BOOLEAN, NEW status \in {"accepted", "rejected"},
               VoteResponse(mine, status)
        PROVE  TypeOK'
    BY <2>1, VoteResponseTypes
  <2>2. CASE SubmitTimeout
    BY <2>2, SubmitReturnsTypes DEF SubmitTimeout
  <2>3. QED BY <1>2, <2>1, <2>2, DialogueTypes, BufferVoteTypes, QueueTypes DEF Booth
<1>3. CASE Server
  BY <1>3, ServerTypes
<1>4. CASE PowerCut
  BY <1>4, PowerCutTypes
<1>5. CASE UNCHANGED boothVars
  BY <1>5
     DEF boothVars, TypeOK, dialogueVars, serverVars, flashVars, linkVars, historyVars
<1>6. QED BY <1>1, <1>2, <1>3, <1>4, <1>5 DEF Next

(* Types hold, at most three fingers are tried, and a wait is only where its   *)
(* state is (main.cpp, loop and transitionTo).                               *)
THEOREM FirmwareTypeCorrect == Spec => []TypeOK
<1>1. QED BY InitTypeOK, TypeStep, PTL DEF Spec

-----------------------------------------------------------------------------
(* The person in front of the booth.  The expected finger is that of the card  *)
(* on the reader, since the response was asked for with that card.           *)

FingerInv ==
    state = "WAITING_FINGERPRINT" =>
        /\ currentVoterRFID \in Registered
        /\ expectedFingerprintId = fingerprint_id[currentVoterRFID]

PersonInv == FingerInv /\ VoterIsPresent

LEMMA IdlePerson == ToIdle => PersonInv'
  BY DEF ToIdle, PersonInv, FingerInv, VoterIsPresent

LEMMA SameDialogue == PersonInv /\ UNCHANGED dialogueVars => PersonInv'
  BY DEF PersonInv, FingerInv, VoterIsPresent, dialogueVars

LEMMA PersonStep == PersonInv /\ [Next]_boothVars => PersonInv'
<1> SUFFICES ASSUME PersonInv, [Next]_boothVars PROVE PersonInv'
  OBVIOUS
<1>1. CASE Voter
  <2>1. ASSUME NEW c \in Card, ScanCard(c) PROVE PersonInv'
    BY <2>1 DEF ScanCard, PersonInv, FingerInv, VoterIsPresent
  <2>2. ASSUME NEW f \in Finger \cup {NoFinger}, ScanFinger(f) PROVE PersonInv'
    <3>1. state = "WAITING_FINGERPRINT"
      BY <2>2 DEF ScanFinger, InLoop
    <3>2. CASE f = expectedFingerprintId
      BY <2>2, <3>1, <3>2 DEF ScanFinger, PersonInv, FingerInv, VoterIsPresent
    <3>3. CASE f # expectedFingerprintId /\ fingerprintAttempts >= 3
      BY <2>2, <3>3, IdlePerson DEF ScanFinger
    <3>4. CASE f # expectedFingerprintId /\ ~(fingerprintAttempts >= 3)
      BY <2>2, <3>1, <3>4 DEF ScanFinger, PersonInv, FingerInv, VoterIsPresent
    <3>5. QED BY <3>2, <3>3, <3>4
  <2>3. ASSUME NEW b \in Candidate, Press(b) PROVE PersonInv'
    BY <2>3 DEF Press, InLoop, PersonInv, FingerInv, VoterIsPresent
  <2>4. QED BY <1>1, <2>1, <2>2, <2>3 DEF Voter
<1>2. CASE Booth
  <2>1. CASE Connecting
    BY <2>1 DEF Connecting, InLoop, PersonInv, FingerInv, VoterIsPresent
  <2>2. CASE RequestAuthentication
    BY <2>2, IdlePerson, SameDialogue DEF RequestAuthentication
  <2>3. CASE AuthTimeout \/ VoteTimeout
    BY <2>3, IdlePerson DEF AuthTimeout, VoteTimeout
  <2>4. ASSUME NEW mine \in BOOLEAN, NEW c \in Card, AuthResponse(mine, c) PROVE PersonInv'
    <3>1. CASE mine /\ ToIdle
      BY <3>1, IdlePerson
    <3>2. CASE mine /\ ~ToIdle
      BY <2>4, <3>2 DEF AuthResponse, Authenticate, PersonInv, FingerInv, VoterIsPresent
    <3>3. CASE ~mine
      BY <2>4, <3>3, SameDialogue DEF AuthResponse
    <3>4. QED BY <3>1, <3>2, <3>3
  <2>5. CASE SubmitVote
    BY <2>5, SameDialogue DEF SubmitVote
  <2>6. ASSUME NEW accepted \in BOOLEAN, step \in {"submit", "retry"},
               SubmitReturns(accepted)
        PROVE  PersonInv'
    BY <2>6, IdlePerson, SameDialogue DEF SubmitReturns
  <2>7. CASE SubmitTimeout
    BY <2>6, <2>7 DEF SubmitTimeout
  <2>8. ASSUME NEW mine \in BOOLEAN, NEW status \in {"accepted", "rejected"},
               VoteResponse(mine, status)
        PROVE  PersonInv'
    <3>1. CASE mine
      BY <2>6, <2>8, <3>1 DEF VoteResponse
    <3>2. CASE ~mine
      BY <2>8, <3>2, SameDialogue DEF VoteResponse, boothVars
    <3>3. QED BY <3>1, <3>2
  <2>9. CASE BufferVote
    BY <2>9, IdlePerson, SameDialogue DEF BufferVote, CreateFile, CreateFails, WriteFile
  <2>10. CASE Queue
    BY <2>10, SameDialogue DEF Queue, ProcessQueue, NextFile, RemoveFile
  <2>11. QED BY <1>2, <2>1, <2>2, <2>3, <2>4, <2>5, <2>7, <2>8, <2>9, <2>10 DEF Booth
<1>3. CASE Server
  BY <1>3, SameDialogue
     DEF Server, ReceiveRequest, ReceiveLate, Count, VoteElsewhere, LinkChanges
<1>4. CASE PowerCut
  BY <1>4 DEF PowerCut, Boot, PersonInv, FingerInv, VoterIsPresent
<1>5. CASE UNCHANGED boothVars
  BY <1>5, SameDialogue DEF boothVars
<1>6. QED BY <1>1, <1>2, <1>3, <1>4, <1>5 DEF Next

(* Nobody is asked for a candidate but the holder of a registered card with    *)
(* the finger of that card, whatever responses arrive meanwhile.             *)
THEOREM PersonHolds == Spec => []VoterIsPresent
<1>1. Init => PersonInv
  BY DEF Init, PersonInv, FingerInv, VoterIsPresent
<1>2. PersonInv => VoterIsPresent
  BY DEF PersonInv
<1>3. QED BY <1>1, <1>2, PersonStep, PTL DEF Spec

-----------------------------------------------------------------------------
(* What the display said.  An answer that says accepted is about the ballot    *)
(* being waited for, and the file about to be removed has been counted.       *)

AnswerInv ==
    /\ reply # "none" => step \in {"submit", "retry"}
    /\ reply = "accepted" => Current \in counted
    /\ step = "remove" => Head(files) \in counted

ToldInv == TypeOK /\ AnswerInv /\ ToldIsKept

(* Steps that touch neither the files nor what was said.                     *)
LEMMA ToldSame ==
  ASSUME ToldInv, UNCHANGED <<files, recorded, saved, short, erased, counted>>
  PROVE  ToldIsKept'
  BY DEF ToldInv, ToldIsKept

LEMMA ReturnsTold ==
  ASSUME ToldInv, step \in {"submit", "retry"}, NEW accepted \in BOOLEAN,
         SubmitReturns(accepted), accepted => reply = "accepted"
  PROVE  AnswerInv' /\ ToldIsKept'
<1>1. accepted => Current \in counted
  BY DEF ToldInv, AnswerInv
<1>2. AnswerInv'
  BY <1>1 DEF SubmitReturns, AnswerInv, Current, serverVars, flashVars
<1>3. UNCHANGED <<files, saved, short, erased, counted>>
  BY DEF SubmitReturns, serverVars, flashVars
<1>4. CASE step = "submit" /\ accepted
  <2>1. recorded' = recorded \cup {votePayload}
    BY <1>4 DEF SubmitReturns
  <2>2. votePayload \in counted
    BY <1>1, <1>4 DEF Current
  <2>3. QED BY <1>2, <1>3, <2>1, <2>2 DEF ToldInv, ToldIsKept
<1>5. CASE ~(step = "submit" /\ accepted)
  <2>1. UNCHANGED recorded
    BY <1>5 DEF SubmitReturns
  <2>2. QED BY <1>2, <1>3, <2>1, ToldSame
<1>6. QED BY <1>2, <1>4, <1>5

LEMMA BufferTold == ToldInv /\ BufferVote => AnswerInv' /\ ToldIsKept'
<1> SUFFICES ASSUME ToldInv, BufferVote PROVE AnswerInv' /\ ToldIsKept'
  OBVIOUS
<1>1. reply = "none" /\ reply' = "none" /\ step' # "remove"
  BY DEF ToldInv, AnswerInv, TypeOK, BufferVote, CreateFile, CreateFails, WriteFile
<1>2. AnswerInv'
  BY <1>1 DEF AnswerInv
<1>3. ASSUME NEW k \in 1 .. Len(files) + 1, CreateFile(k) PROVE ToldIsKept'
  <2>1. Range(files) \subseteq Range(files')
    BY <1>3, InsertKeeps DEF CreateFile, ToldInv, TypeOK
  <2>2. QED BY <1>3, <2>1
     DEF CreateFile, ToldInv, ToldIsKept, serverVars, flashVars, historyVars
<1>4. CASE CreateFails
  <2>1. UNCHANGED <<files, recorded, saved, short, erased, counted>>
    BY <1>4 DEF CreateFails, serverVars, flashVars, historyVars
  <2>2. QED BY <1>2, <2>1, ToldSame
<1>5. ASSUME NEW i \in DOMAIN files, WriteFile(i) PROVE ToldIsKept'
  <2>1. /\ saved' = saved \cup {votePayload}
        /\ UNCHANGED <<recorded, counted, erased>> /\ short \subseteq short'
    BY <1>5 DEF WriteFile, serverVars
  <2>2. Torn \notin saved
    BY TornIsNoPayload DEF ToldInv, TypeOK
  <2>3. CASE files' = [files EXCEPT ![i] = votePayload]
    <3>1. /\ votePayload \in Range(files')
          /\ Range(files) \subseteq Range(files') \cup {Torn}
      BY <1>5, <2>3, WriteKeeps DEF WriteFile, ToldInv, TypeOK
    <3>2. QED BY <2>1, <2>2, <3>1 DEF ToldInv, ToldIsKept
  <2>4. CASE UNCHANGED files /\ votePayload \in short'
    BY <2>1, <2>4 DEF ToldInv, ToldIsKept
  <2>5. QED BY <1>5, <2>3, <2>4 DEF WriteFile
<1>6. QED BY <1>2, <1>3, <1>4, <1>5 DEF BufferVote

LEMMA QueueTold == ToldInv /\ Queue => AnswerInv' /\ ToldIsKept'
<1> SUFFICES ASSUME ToldInv, Queue PROVE AnswerInv' /\ ToldIsKept'
  OBVIOUS
<1>1. reply = "none" /\ reply' = "none" /\ step' # "remove"
  BY DEF ToldInv, AnswerInv, Queue, ProcessQueue, NextFile, RemoveFile, InLoop
<1>2. AnswerInv'
  BY <1>1 DEF AnswerInv
<1>3. CASE ProcessQueue \/ NextFile
  <2>1. UNCHANGED <<files, recorded, saved, short, erased, counted>>
    BY <1>3 DEF ProcessQueue, NextFile, InLoop, serverVars, flashVars, historyVars
  <2>2. QED BY <1>2, <2>1, ToldSame
<1>4. CASE RemoveFile
  <2>1. Head(files) \in counted
    BY <1>4 DEF RemoveFile, ToldInv, AnswerInv
  <2>2. Range(files) \subseteq Range(files') \cup {Head(files)}
    BY <1>4, RemoveKeeps DEF RemoveFile, ToldInv, TypeOK
  <2>3. UNCHANGED <<recorded, saved, short, erased, counted>>
    BY <1>4 DEF RemoveFile, serverVars, flashVars, historyVars
  <2>4. QED BY <1>2, <2>1, <2>2, <2>3 DEF ToldInv, ToldIsKept
<1>5. QED BY <1>2, <1>3, <1>4 DEF Queue

LEMMA CountTold ==
  ASSUME ToldInv, NEW p, Count(p)
  PROVE  /\ ToldIsKept' /\ counted \subseteq counted'
         /\ Current' = Current /\ UNCHANGED <<step, files>>
  BY DEF Count, ToldInv, ToldIsKept, Current, historyVars, flashVars

LEMMA ServerTold == ToldInv /\ Server => AnswerInv' /\ ToldIsKept'
<1> SUFFICES ASSUME ToldInv, Server PROVE AnswerInv' /\ ToldIsKept'
  OBVIOUS
<1>1. CASE ReceiveRequest
  <2>1. /\ ToldIsKept' /\ counted \subseteq counted'
        /\ Current' = Current /\ UNCHANGED <<step, files>>
    BY <1>1, CountTold DEF ReceiveRequest
  <2>2. reply' = "accepted" => Current \in counted'
    BY <1>1 DEF ReceiveRequest, Count
  <2>3. QED BY <1>1, <2>1, <2>2 DEF ReceiveRequest, ToldInv, AnswerInv
<1>2. ASSUME NEW p \in sent, ReceiveLate(p) PROVE AnswerInv' /\ ToldIsKept'
  <2>1. /\ ToldIsKept' /\ counted \subseteq counted'
        /\ Current' = Current /\ UNCHANGED <<step, files>>
    BY <1>2, CountTold DEF ReceiveLate
  <2>2. QED BY <1>2, <2>1 DEF ReceiveLate, ToldInv, AnswerInv
<1>3. CASE LinkChanges \/ \E c \in Card : VoteElsewhere(c)
  <2>1. UNCHANGED <<step, files, votePayload, reply, counted, recorded, saved, short, erased>>
    BY <1>3 DEF LinkChanges, VoteElsewhere, serverVars, flashVars, historyVars
  <2>2. QED BY <2>1, ToldSame DEF ToldInv, AnswerInv, Current
<1>4. QED BY <1>1, <1>2, <1>3 DEF Server

(* Dialogue steps outside of a submission.                                   *)
LEMMA DialogueTold ==
  ASSUME ToldInv, step \in {"loop", "auth"}, step' # "remove",
         UNCHANGED <<files, reply, recorded, saved, short, erased, counted>>
  PROVE  AnswerInv' /\ ToldIsKept'
<1>1. reply' = "none"
  BY DEF ToldInv, AnswerInv
<1>2. QED BY <1>1, ToldSame DEF AnswerInv

LEMMA ToldStep == ToldInv /\ [Next]_boothVars => ToldInv'
<1> SUFFICES ASSUME ToldInv, [Next]_boothVars PROVE AnswerInv' /\ ToldIsKept'
  BY TypeStep DEF ToldInv
<1>1. CASE Voter
  BY <1>1, DialogueTold
     DEF Voter, ScanCard, ScanFinger, Press, InLoop, serverVars, flashVars
<1>2. CASE Booth
  <2>1. CASE Connecting \/ RequestAuthentication \/ VoteTimeout \/ SubmitVote
    <3>1. step = "loop" /\ step' # "remove"
      BY <2>1 DEF Connecting, RequestAuthentication, VoteTimeout, SubmitVote, InLoop
    <3>2. UNCHANGED <<files, reply, recorded, saved, short, erased, counted>>
      BY <2>1 DEF Connecting, RequestAuthentication, VoteTimeout, SubmitVote, InLoop,
                  serverVars, flashVars
    <3>3. QED BY <3>1, <3>2, DialogueTold
  <2>2. CASE AuthTimeout \/ \E mine \in BOOLEAN, c \in Card : AuthResponse(mine, c)
    <3>1. step = "auth" /\ step' # "remove"
      BY <2>2 DEF AuthTimeout, AuthResponse
    <3>2. UNCHANGED <<files, reply, recorded, saved, short, erased, counted>>
      BY <2>2 DEF AuthTimeout, AuthResponse, serverVars, flashVars, historyVars
    <3>3. QED BY <3>1, <3>2, DialogueTold
  <2>3. CASE SubmitTimeout
    BY <2>3, ReturnsTold DEF SubmitTimeout
  <2>4. ASSUME NEW mine \in BOOLEAN, NEW status \in {"accepted", "rejected"},
               VoteResponse(mine, status)
        PROVE  AnswerInv' /\ ToldIsKept'
    <3>1. CASE mine
      <4>1. (status = "accepted") \in BOOLEAN /\ (status = "accepted" => reply = "accepted")
        BY <2>4, <3>1 DEF VoteResponse
      <4>2. QED BY <2>4, <3>1, <4>1, ReturnsTold DEF VoteResponse
    <3>2. CASE ~mine
      BY <2>4, <3>2 DEF VoteResponse, boothVars, ToldInv, ToldIsKept, AnswerInv, Current,
                        serverVars, flashVars, historyVars
    <3>3. QED BY <3>1, <3>2
  <2>5. QED BY <1>2, <2>1, <2>2, <2>3, <2>4, BufferTold, QueueTold DEF Booth
<1>3. CASE Server
  BY <1>3, ServerTold
<1>4. CASE PowerCut
  <2>1. AnswerInv'
    BY <1>4 DEF PowerCut, Boot, AnswerInv
  <2>2. UNCHANGED <<recorded, saved, short, counted>>
    BY <1>4 DEF PowerCut, serverVars
  <2>3. files \in Seq(File) /\ Mount
    BY <1>4 DEF PowerCut, Boot, ToldInv, TypeOK
  <2>4. CASE UNCHANGED <<files, erased>>
    BY <2>1, <2>2, <2>4, ToldSame
  <2>5. CASE erased' = erased \cup (Range(files) \ ({Torn} \cup counted))
    <3>1. Torn \notin saved
      BY TornIsNoPayload DEF ToldInv, TypeOK
    <3>2. QED BY <2>1, <2>2, <2>5, <3>1 DEF ToldInv, ToldIsKept
  <2>6. QED BY <2>3, <2>4, <2>5, MountOutcome
<1>5. CASE UNCHANGED boothVars
  BY <1>5
     DEF boothVars, ToldInv, ToldIsKept, AnswerInv, Current, serverVars, flashVars, historyVars
<1>6. QED BY <1>1, <1>2, <1>3, <1>4, <1>5 DEF Next

(* A ballot displayed as recorded has been counted; one displayed as saved is  *)
(* on flash until it is counted, unless its file was cut short by a full flash *)
(* or a start formatted the flash.  Nothing else takes one, over any number of *)
(* ballots and power cuts, full flash and failing mounts included.           *)
THEOREM DisplayHolds == Spec => []ToldIsKept
<1>1. Init => ToldInv
  BY InitTypeOK DEF Init, ToldInv, AnswerInv, ToldIsKept
<1>2. ToldInv => ToldIsKept
  BY DEF ToldInv
<1>3. QED BY <1>1, <1>2, ToldStep, PTL DEF Spec

-----------------------------------------------------------------------------
(* The files as a store of ballots.                                          *)

(* A voter in front of the booth whose ballot has not been built.             *)
BallotToCome ==
    /\ state \notin {"WIFI_CONNECTING", "MQTT_CONNECTING", "IDLE"}
    /\ step \notin {"submit", "create", "write"}

(* Ballots are within the bound; what a response is awaited for is submitted;  *)
(* a counted ballot has its voter marked, so that no other one is counted.    *)
StoreInv ==
    /\ issued <= MaxVotes
    /\ BallotToCome => issued < MaxVotes
    /\ votePayload \in Ballots \cup {Torn}
    /\ Range(files) \subseteq Ballots \cup {Torn}
    /\ sent \subseteq Ballots
    /\ step \in {"submit", "retry"} => Current \in sent
    /\ \A p \in counted : p \in Ballots /\ p.voter_id \in has_voted

LEMMA BallotsAreApart ==
  /\ Ballots \subseteq Payload
  /\ Torn \notin Ballots
  /\ \A p \in Ballots : [q \in Ballots |-> q.voter_id][p] = p.voter_id
  BY TornIsNoPayload DEF Ballots, Payload

LEMMA InitStore == Init => StoreInv /\ Store!Init
  BY RangeOfList DEF Init, StoreInv, BallotToCome, Store!Init

(* Steps that leave the files, and what was submitted and counted.            *)
LEMMA StoreStays ==
  ASSUME StoreInv, UNCHANGED <<files, sent, counted, erased, issued>>,
         votePayload' \in {votePayload, Torn},
         has_voted \subseteq has_voted',
         step' \in {"submit", "retry"} => step' = step /\ votePayload' = votePayload,
         BallotToCome' => BallotToCome
  PROVE  StoreInv' /\ UNCHANGED Store!storeVars
  BY DEF StoreInv, Store!storeVars, Current

LEMMA VoterStore ==
  ASSUME ToldInv, StoreInv, Voter
  PROVE  StoreInv' /\ UNCHANGED Store!storeVars
<1>1. ASSUME NEW c \in Card, ScanCard(c) PROVE StoreInv' /\ UNCHANGED Store!storeVars
  BY <1>1
     DEF ScanCard, InLoop, StoreInv, Store!storeVars, serverVars, flashVars, Current
<1>2. ASSUME NEW f, ScanFinger(f) PROVE StoreInv' /\ UNCHANGED Store!storeVars
  BY <1>2, StoreStays
     DEF ScanFinger, InLoop, ToIdle, BallotToCome, serverVars, flashVars
<1>3. ASSUME NEW b, Press(b) PROVE StoreInv' /\ UNCHANGED Store!storeVars
  BY <1>3, StoreStays DEF Press, InLoop, BallotToCome, serverVars, flashVars
<1>4. QED BY <1>1, <1>2, <1>3 DEF Voter

(* A ballot is built and, online, submitted.                                  *)
LEMMA SubmitStore ==
  ASSUME ToldInv, StoreInv, SubmitVote
  PROVE  StoreInv' /\ [Store!Next]_Store!storeVars
<1>1. /\ step = "loop" /\ state = "SUBMITTING_VOTE" /\ issued' = issued + 1
      /\ UNCHANGED <<files, counted, erased, has_voted, state>>
      /\ votePayload' = [id |-> issued + 1, voter_id |-> currentVoterRFID,
                         candidate |-> selectedCandidate]
  BY DEF SubmitVote, InLoop, dialogueVars, serverVars, flashVars
<1>2. issued \in Nat /\ issued + 1 <= MaxVotes
  BY <1>1 DEF StoreInv, BallotToCome, ToldInv, TypeOK
<1>3. currentVoterRFID \in Card /\ selectedCandidate \in Candidate
  BY <1>1 DEF ToldInv, TypeOK
<1>4. votePayload' \in Ballots
  BY <1>1, <1>2, <1>3 DEF Ballots
<1>5. ~BallotToCome'
  BY <1>1 DEF SubmitVote, BallotToCome
<1>6. CASE online
  <2>1. step' = "submit" /\ sent' = sent \cup {votePayload'}
    BY <1>6 DEF SubmitVote
  <2>2. Store!Submit(votePayload')
    BY <1>1, <2>1 DEF Store!Submit
  <2>3. StoreInv'
    BY <1>1, <1>2, <1>4, <1>5, <2>1 DEF StoreInv, Current
  <2>4. QED BY <1>4, <2>2, <2>3 DEF Store!Next
<1>7. CASE ~online
  <2>1. step' = "create" /\ sent' = sent
    BY <1>7 DEF SubmitVote
  <2>2. StoreInv'
    BY <1>1, <1>2, <1>4, <1>5, <2>1 DEF StoreInv
  <2>3. QED BY <1>1, <2>1, <2>2 DEF Store!storeVars
<1>8. QED BY <1>6, <1>7

LEMMA ReturnsStore ==
  ASSUME ToldInv, StoreInv, step \in {"submit", "retry"}, NEW accepted \in BOOLEAN,
         SubmitReturns(accepted)
  PROVE  StoreInv' /\ UNCHANGED Store!storeVars
<1>1. step = "retry" => state = "IDLE"
  BY DEF ToldInv, TypeOK
<1>2. /\ UNCHANGED <<files, sent, counted, erased, has_voted, issued, votePayload>>
      /\ step' \notin {"submit", "retry"} /\ ~BallotToCome'
  BY <1>1 DEF SubmitReturns, ToIdle, BallotToCome, serverVars, flashVars, dialogueVars
<1>3. QED BY <1>2, StoreStays

LEMMA BufferStore ==
  ASSUME ToldInv, StoreInv, BufferVote
  PROVE  StoreInv' /\ [Store!Next]_Store!storeVars
<1>0. files \in Seq(File) /\ votePayload \in File
  BY DEF ToldInv, TypeOK
<1>1. ASSUME NEW k \in 1 .. Len(files) + 1, CreateFile(k)
      PROVE  StoreInv' /\ UNCHANGED Store!storeVars
  <2>1. Range(files) \subseteq Range(files') /\ Range(files') \subseteq Range(files) \cup {Torn}
    BY <1>0, <1>1, InsertKeeps DEF CreateFile
  <2>2. /\ UNCHANGED <<sent, counted, erased, has_voted, issued, votePayload>>
        /\ step' = "write"
    BY <1>1 DEF CreateFile, serverVars, flashVars, historyVars
  <2>3. StoreInv'
    BY <2>1, <2>2 DEF StoreInv, BallotToCome
  <2>4. QED BY <2>1, <2>2, <2>3 DEF Store!storeVars
<1>2. CASE CreateFails
  BY <1>2, StoreStays
     DEF CreateFails, ToIdle, BallotToCome, serverVars, flashVars, historyVars
<1>3. ASSUME NEW i \in DOMAIN files, WriteFile(i)
      PROVE  StoreInv' /\ [Store!Next]_Store!storeVars
  <2>2. votePayload \in Ballots
    BY <1>3 DEF WriteFile, ToldInv, TypeOK, StoreInv, Payload, Torn
  <2>3. /\ UNCHANGED <<sent, counted, erased, has_voted, issued, votePayload>>
        /\ step' = "loop" /\ ~BallotToCome'
    BY <1>3 DEF WriteFile, ToIdle, BallotToCome, serverVars, flashVars
  <2>4. CASE files' = [files EXCEPT ![i] = votePayload]
    <3>1. /\ votePayload \in Range(files')
          /\ Range(files) \subseteq Range(files') \cup {Torn}
          /\ Range(files') \subseteq Range(files) \cup {votePayload}
      BY <1>0, <1>3, <2>4, WriteKeeps DEF WriteFile
    <3>2. StoreInv'
      BY <2>2, <2>3, <3>1 DEF StoreInv
    <3>3. Range(files') \ {Torn} = (Range(files) \ {Torn}) \cup {votePayload}
      BY <2>2, <3>1, BallotsAreApart
    <3>4. Store!Store(votePayload)
      BY <2>3, <3>3 DEF Store!Store
    <3>5. QED BY <2>2, <3>2, <3>4 DEF Store!Next
  <2>5. CASE UNCHANGED files
    <3>1. StoreInv'
      BY <2>2, <2>3, <2>5 DEF StoreInv
    <3>2. QED BY <2>3, <2>5, <3>1 DEF Store!storeVars
  <2>6. QED BY <1>3, <2>4, <2>5 DEF WriteFile
<1>4. QED BY <1>1, <1>2, <1>3 DEF BufferVote, Store!Next

LEMMA QueueStore ==
  ASSUME ToldInv, StoreInv, Queue
  PROVE  StoreInv' /\ [Store!Next]_Store!storeVars
<1>0. /\ files \in Seq(File) /\ state = "IDLE"
      /\ step = "remove" => files # <<>> /\ Head(files) # Torn /\ Head(files) \in counted
  BY DEF ToldInv, TypeOK, AnswerInv, Queue, ProcessQueue, NextFile, RemoveFile, InLoop
<1>1. CASE ProcessQueue
  BY <1>0, <1>1, StoreStays
     DEF ProcessQueue, InLoop, BallotToCome, dialogueVars, serverVars, flashVars
<1>2. CASE NextFile
  <2>1. /\ UNCHANGED <<files, counted, erased, has_voted, issued, votePayload, state>>
        /\ step' \in {"loop", "retry"} /\ ~BallotToCome'
    BY <1>0, <1>2
       DEF NextFile, BallotToCome, dialogueVars, serverVars, flashVars, historyVars
  <2>2. CASE step' = "loop"
    BY <1>2, <2>1, <2>2, StoreStays DEF NextFile
  <2>3. CASE step' = "retry"
    <3>1. files # <<>> /\ Head(files) # Torn /\ sent' = sent \cup {Head(files)}
      BY <1>2, <2>3 DEF NextFile
    <3>2. Head(files) \in Range(files)
      <4>1. Head(files) = files[1] /\ 1 \in DOMAIN files
        BY <1>0, <3>1
      <4>2. QED BY <4>1, RangeOfList
    <3>3. Head(files) \in Ballots
      BY <3>1, <3>2 DEF StoreInv
    <3>4. Store!Submit(Head(files))
      BY <2>1, <3>1 DEF Store!Submit
    <3>5. StoreInv'
      BY <2>1, <2>3, <3>1, <3>3 DEF StoreInv, Current
    <3>6. QED BY <3>3, <3>4, <3>5 DEF Store!Next
  <2>4. QED BY <2>1, <2>2, <2>3
<1>3. CASE RemoveFile
  <2> DEFINE S == Range(files) \ Range(files')
  <2>1. step = "remove" /\ files' = Tail(files)
    BY <1>3 DEF RemoveFile
  <2>2. /\ Range(files) \subseteq Range(files') \cup {Head(files)}
        /\ Range(files') \subseteq Range(files)
    BY <1>0, <2>1, RemoveKeeps
  <2>3. S \subseteq {Head(files)} /\ S \subseteq counted /\ S \in SUBSET Ballots
    BY <1>0, <2>1, <2>2 DEF StoreInv
  <2>4. /\ UNCHANGED <<sent, counted, erased, has_voted, issued, votePayload, state>>
        /\ step' = "queue" /\ ~BallotToCome'
    BY <1>0, <1>3
       DEF RemoveFile, BallotToCome, dialogueVars, serverVars, flashVars, historyVars
  <2>5. StoreInv'
    BY <2>2, <2>4 DEF StoreInv
  <2>6. Range(files') \ {Torn} = (Range(files) \ {Torn}) \ S
    BY <2>2
  <2>7. Store!Release(S)
    BY <2>3, <2>4, <2>6 DEF Store!Release
  <2>8. QED BY <2>3, <2>5, <2>7 DEF Store!Next
<1>4. QED BY <1>1, <1>2, <1>3 DEF Queue

LEMMA CountStore ==
  ASSUME StoreInv, NEW p \in sent, Count(p)
  PROVE  StoreInv' /\ [Store!Next]_Store!storeVars
<1>1. /\ p \in Ballots /\ Current' = Current
      /\ UNCHANGED <<state, step, files, sent, erased, issued, votePayload>>
  BY DEF Count, StoreInv, Current, dialogueVars, historyVars, flashVars
<1>2. CASE Accepts(p)
  <2>1. /\ counted' = counted \cup {p} /\ has_voted' = has_voted \cup {p.voter_id}
        /\ p.voter_id \notin has_voted
    BY <1>2 DEF Count, Accepts
  <2>2. StoreInv'
    BY <1>1, <2>1 DEF StoreInv, BallotToCome
  <2>3. \A q \in counted : [r \in Ballots |-> r.voter_id][q] # [r \in Ballots |-> r.voter_id][p]
    BY <1>1, <2>1, BallotsAreApart DEF StoreInv
  <2>4. Store!Count(p)
    BY <1>1, <2>1, <2>3 DEF Store!Count
  <2>5. QED BY <1>1, <2>2, <2>4 DEF Store!Next
<1>3. CASE ~Accepts(p)
  BY <1>1, <1>3 DEF Count, StoreInv, BallotToCome, Store!storeVars
<1>4. QED BY <1>2, <1>3

LEMMA ServerStore ==
  ASSUME ToldInv, StoreInv, Server
  PROVE  StoreInv' /\ [Store!Next]_Store!storeVars
<1>1. CASE ReceiveRequest
  <2>1. Current \in sent /\ Count(Current)
    BY <1>1 DEF ReceiveRequest, StoreInv
  <2>2. QED BY <2>1, CountStore
<1>2. CASE \E p \in sent : ReceiveLate(p)
  BY <1>2, CountStore DEF ReceiveLate
<1>3. CASE LinkChanges \/ \E c \in Card : VoteElsewhere(c)
  <2>1. /\ UNCHANGED <<files, sent, counted, erased, issued, votePayload, state, step>>
        /\ has_voted \subseteq has_voted'
    BY <1>3
       DEF LinkChanges, VoteElsewhere, dialogueVars, serverVars, flashVars, historyVars
  <2>2. QED BY <2>1, StoreStays DEF BallotToCome
<1>4. QED BY <1>1, <1>2, <1>3 DEF Server

LEMMA BoothStore ==
  ASSUME ToldInv, StoreInv, Booth
  PROVE  StoreInv' /\ [Store!Next]_Store!storeVars
<1>1. CASE Connecting \/ RequestAuthentication \/ VoteTimeout
  <2>1. /\ UNCHANGED <<files, sent, counted, erased, has_voted, issued, votePayload>>
        /\ step' \notin {"submit", "retry"} /\ (BallotToCome' => BallotToCome)
    BY <1>1 DEF Connecting, RequestAuthentication, VoteTimeout, InLoop, ToIdle,
                BallotToCome, dialogueVars, serverVars, flashVars
  <2>2. QED BY <2>1, StoreStays
<1>2. CASE AuthTimeout \/ \E mine \in BOOLEAN, c \in Card : AuthResponse(mine, c)
  <2>1. /\ UNCHANGED <<files, sent, counted, erased, has_voted, issued, votePayload>>
        /\ step' \notin {"submit", "retry"} /\ BallotToCome
    BY <1>2 DEF AuthTimeout, AuthResponse, BallotToCome, serverVars, flashVars, historyVars,
                ToldInv, TypeOK
  <2>2. QED BY <2>1, StoreStays
<1>3. CASE SubmitTimeout
  BY <1>3, ReturnsStore DEF SubmitTimeout
<1>4. ASSUME NEW mine \in BOOLEAN, NEW status \in {"accepted", "rejected"},
             VoteResponse(mine, status)
      PROVE  StoreInv' /\ UNCHANGED Store!storeVars
  <2>1. CASE mine
    BY <1>4, <2>1, ReturnsStore DEF VoteResponse
  <2>2. CASE ~mine
    BY <1>4, <2>2, StoreStays
      
         DEF VoteResponse, boothVars, dialogueVars, serverVars, flashVars, historyVars, BallotToCome
  <2>3. QED BY <2>1, <2>2
<1>5. QED
  BY <1>1, <1>2, <1>3, <1>4, SubmitStore, BufferStore, QueueStore DEF Booth

(* The directory /votes is a vote store, for any cards, ballots and power cuts *)
(* and a server of any speed: a step of the booth, of its server or of the     *)
(* power stores a ballot, submits one, counts a submitted one of a card       *)
(* without a ballot, releases a counted one, or changes none of these; only a  *)
(* start that formats the flash (offline_buffer.cpp:8) erases the store, as a   *)
(* whole, and erased has every ballot that went uncounted this way.           *)
THEOREM FlashIsVoteStore == Spec => IsVoteStore
<1>1. Init => ToldInv /\ StoreInv /\ Store!Init
  BY InitTypeOK, InitStore DEF Init, ToldInv, AnswerInv, ToldIsKept
<1>2. ToldInv /\ StoreInv /\ [Next]_boothVars
        => StoreInv' /\ [Store!Next]_Store!storeVars
  <2> SUFFICES ASSUME ToldInv, StoreInv, [Next]_boothVars
               PROVE  StoreInv' /\ [Store!Next]_Store!storeVars
    OBVIOUS
  <2>1. CASE PowerCut
    <3>1. /\ UNCHANGED <<sent, counted, has_voted, issued>>
          /\ votePayload' = Torn /\ step' = "loop" /\ ~BallotToCome'
      BY <2>1 DEF PowerCut, Boot, BallotToCome, serverVars
    <3>2. files \in Seq(File) /\ Mount
      BY <2>1 DEF PowerCut, Boot, ToldInv, TypeOK
    <3>3. CASE UNCHANGED <<files, erased>>
      BY <3>1, <3>3, StoreStays
    <3>4. CASE /\ Range(files') = {}
               /\ erased' = erased \cup (Range(files) \ ({Torn} \cup counted))
      <4>1. Store!Erase
        BY <3>1, <3>4 DEF Store!Erase
      <4>2. StoreInv'
        BY <3>1, <3>4 DEF StoreInv
      <4>3. QED BY <4>1, <4>2 DEF Store!Next
    <3>5. QED BY <3>2, <3>3, <3>4, MountOutcome
  <2>2. CASE UNCHANGED boothVars
    BY <2>2, StoreStays
       DEF boothVars, dialogueVars, serverVars, flashVars, historyVars, BallotToCome
  <2>3. QED BY <2>1, <2>2, VoterStore, BoothStore, ServerStore DEF Next
<1>3. QED
  BY <1>1, <1>2, ToldStep, PTL DEF Spec, IsVoteStore, Store!Spec
=============================================================================
