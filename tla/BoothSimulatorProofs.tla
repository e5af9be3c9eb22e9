------------------------- MODULE BoothSimulatorProofs -------------------------
(***************************************************************************)
(* Theorems about the dialogue of the Python booth, for any number of       *)
(* votes, voters, requests and faults of the connection.  What makes the    *)
(* answers trustworthy is that every request has an id of its own: an       *)
(* answer in _responses is about a request that was sent under that id, and *)
(* the only request with the current id is the one the dialogue asked.      *)
(***************************************************************************)
EXTENDS BoothSimulator, OfflineBufferProofs

Pending == requests \cup ({unsent} \ {None})

IdsIssued == \A q \in Pending : q.id <= request_id

AnswersTrue ==
    \A n \in RequestId : _responses[n] # None =>
        \E q \in requests :
            /\ q.id = n
            /\ _responses[n].registered => q.registered
            /\ _responses[n].verified => q.verified
            /\ _responses[n].accepted => q.vote \in counted

AskedIsTyped ==
    \A q \in Pending : q.id = request_id =>
        /\ (dialogue = "ask card" /\ q.registered) => typed.rfid \in Voter
        /\ (dialogue = "ask finger" /\ q.verified) => typed.right
        /\ dialogue = "ask vote" => q.vote = typed.vote

InputKnown ==
    /\ dialogue \in {"finger", "ask finger", "candidate", "ask vote"}
          => typed.rfid \in Voter
    /\ dialogue = "ask vote" => typed.vote \in Vote

FlowInv ==
    /\ FlowTypeOK /\ DOMAIN pc = Writer
    /\ IdsIssued /\ AnswersTrue /\ AskedIsTyped /\ InputKnown
    /\ OnlyVerified /\ ShownIsCounted

-----------------------------------------------------------------------------
LEMMA IdsAreNat == RequestId \subseteq Nat /\ MaxRequests \in Nat
  BY SimulatorAssumption DEF RequestId

(* The types of what is asked and answered.                                   *)
LEMMA NobodyType ==
  /\ Nobody \in [rfid : Voter \cup {Stranger}, right : BOOLEAN, vote : Vote \cup {None}]
  /\ None \notin Request /\ None \notin Response
  BY SimulatorAssumption DEF Nobody

LEMMA InitFlow == SimulatorInit => FlowInv
<1> SUFFICES ASSUME SimulatorInit PROVE FlowInv
  OBVIOUS
<1>0. DOMAIN pc = Writer /\ pc["retry"] # "wait" /\ "retry" \notin clients
  BY DEF SimulatorInit, StartWith, Writer
<1>1. FlowTypeOK
  <2>1. request_id \in 0 .. MaxRequests
    BY IdsAreNat DEF SimulatorInit
  <2>2. _responses \in [RequestId -> Response \cup {None}]
    BY DEF SimulatorInit
  <2>3. dialogue \notin Asking
    BY DEF SimulatorInit, Asking
  <2>4. /\ clients \subseteq Client /\ "menu" \notin clients
        /\ session = "none" /\ dialogue = "menu"
    BY DEF SimulatorInit, Client
  <2>5. subscribed \in BOOLEAN /\ ~subscribed
    BY DEF SimulatorInit
  <2> QED
    BY NobodyType, <1>0, <2>1, <2>2, <2>3, <2>4, <2>5 DEF SimulatorInit, FlowTypeOK
<1>2. Pending = {}
  BY DEF SimulatorInit, Pending
<1>3. IdsIssued /\ AnswersTrue /\ AskedIsTyped /\ InputKnown /\ OnlyVerified
      /\ ShownIsCounted
  BY <1>2 DEF SimulatorInit, IdsIssued, AnswersTrue, AskedIsTyped, InputKnown,
     OnlyVerified, ShownIsCounted
<1> QED
  BY <1>0, <1>1, <1>3 DEF FlowInv

(* The offline buffer's steps never take a ballot back.                       *)
LEMMA CountedGrows ==
  (MenuStep \/ RetryStep \/ Network \/ \E p \in Vote : VoteLocally(p))
     => counted \subseteq counted'
  BY DEF MenuStep, SaveVote, WriteStep, OpenTmp, Flush, Replace, TmpGone, EndWrite,
     RetryStep, ReadBuffer, ConnectFails, Publish, HandleAnswer, Timeout, RoundEnds,
     NextVote, Network, ReceiveRequest, ReceiveLate, Count, VoteElsewhere, LinkChanges,
     VoteLocally, serverVars, threadVars, historyVars, linkVars

(* Where the retry thread is matters to the broker only while it waits.       *)
LEMMA PcOfOthers ==
  ASSUME FlowInv, MenuStep \/ Network \/ \E p \in Vote : VoteLocally(p)
  PROVE  DOMAIN pc' = Writer /\ pc'["retry"] = pc["retry"]
<1>1. CASE MenuStep
  BY <1>1 DEF FlowInv, MenuStep, SaveVote, WriteStep, OpenTmp, Flush, Replace, TmpGone,
              EndWrite, Writer
<1>2. CASE Network \/ \E p \in Vote : VoteLocally(p)
  BY <1>2 DEF FlowInv, Network, ReceiveRequest, ReceiveLate, Count, VoteElsewhere,
              LinkChanges, VoteLocally, threadVars
<1> QED
  BY <1>1, <1>2

LEMMA PcOfRetry ==
  ASSUME FlowInv
  PROVE  /\ Publish => /\ DOMAIN pc' = Writer /\ pc'["retry"] = "wait"
         /\ HandleAnswer \/ Timeout
               => /\ DOMAIN pc' = Writer /\ pc'["retry"] # "wait"
         /\ ReadBuffer \/ ConnectFails \/ RoundEnds \/ WriteStep("retry")
               => /\ DOMAIN pc' = Writer
                  /\ pc["retry"] # "wait" /\ pc'["retry"] # "wait"
<1>1. DOMAIN pc = Writer /\ "retry" \in Writer
  BY DEF FlowInv, Writer
<1>2. Publish => DOMAIN pc' = Writer /\ pc'["retry"] = "wait"
  BY <1>1 DEF Publish
<1>3. HandleAnswer \/ Timeout => DOMAIN pc' = Writer /\ pc'["retry"] # "wait"
  BY <1>1 DEF HandleAnswer, Timeout, NextVote
<1>4. ReadBuffer \/ ConnectFails \/ RoundEnds
        => DOMAIN pc' = Writer /\ pc["retry"] # "wait" /\ pc'["retry"] # "wait"
  BY <1>1 DEF ReadBuffer, ConnectFails, RoundEnds, NextVote
<1>5. WriteStep("retry")
        => DOMAIN pc' = Writer /\ pc["retry"] # "wait" /\ pc'["retry"] # "wait"
  BY <1>1 DEF WriteStep, OpenTmp, Flush, Replace, TmpGone, EndWrite
<1> QED
  BY <1>2, <1>3, <1>4, <1>5

(* A step that leaves the dialogue and the requests alone.                    *)
LEMMA Aside ==
  ASSUME FlowInv, counted \subseteq counted', FlowTypeOK',
         DOMAIN pc' = Writer, UNCHANGED <<flowVars, requests>>
  PROVE  FlowInv'
  BY DEF FlowInv, flowVars, Pending, IdsIssued, AnswersTrue, AskedIsTyped, InputKnown,
     OnlyVerified, ShownIsCounted

(* The end of a dialogue.                                                     *)
LEMMA AfterEndFlow ==
  ASSUME FlowInv, EndFlow, counted' = counted, pc' = pc,
         shown' \subseteq counted, shown' \subseteq Vote
  PROVE  FlowInv'
<1>1. FlowTypeOK'
  <2>1. /\ _responses' \in [RequestId -> Response \cup {None}]
        /\ dialogue' = "menu" /\ dialogue' \notin Asking
    BY DEF EndFlow, Asking
  <2>2. /\ clients' \subseteq Client /\ "menu" \notin clients'
        /\ session' \in clients' \cup {"none"}
        /\ pc'["retry"] = "wait" <=> "retry" \in clients'
    BY DEF FlowInv, FlowTypeOK, EndFlow, Disconnect
  <2>3. subscribed' \in BOOLEAN /\ (subscribed' => session' # "none")
    BY DEF FlowInv, FlowTypeOK, EndFlow, Disconnect
  <2>4. NETWORK_MODE' = "SIMULATION" => clients' \subseteq {"retry"}
    BY DEF FlowInv, FlowTypeOK, EndFlow, Disconnect
  <2> QED
    BY NobodyType, <2>1, <2>2, <2>3, <2>4 DEF FlowInv, FlowTypeOK, EndFlow
<1>2. Pending' \subseteq Pending
  BY DEF EndFlow, Pending
<1>3. IdsIssued' /\ AskedIsTyped'
  BY <1>2 DEF FlowInv, IdsIssued, AskedIsTyped, EndFlow
<1>4. AnswersTrue' /\ InputKnown' /\ OnlyVerified' /\ ShownIsCounted'
  BY DEF AnswersTrue, InputKnown, OnlyVerified, ShownIsCounted, EndFlow
<1> QED
  BY <1>1, <1>3, <1>4 DEF FlowInv

(* The number of the next request.                                            *)
LEMMA NextId ==
  ASSUME FlowTypeOK, IdsIssued, request_id < MaxRequests, NEW n, n = request_id + 1
  PROVE  /\ n \in RequestId /\ n \in 0 .. MaxRequests /\ n <= n
         /\ \A q \in Pending : q.id # n /\ q.id <= n
<1>1. request_id \in Nat /\ request_id <= MaxRequests
  BY IdsAreNat DEF FlowTypeOK
<1>2. n \in RequestId /\ n \in 0 .. MaxRequests /\ n <= n
  BY <1>1, IdsAreNat DEF RequestId
<1>3. ASSUME NEW q \in Pending PROVE q.id # n /\ q.id <= n
  <2>1. q \in Request
    BY DEF FlowTypeOK, Pending
  <2>2. q.id \in Nat
    BY <2>1, IdsAreNat DEF Request
  <2>3. q.id <= request_id
    BY DEF IdsIssued
  <2> QED
    BY <1>1, <2>2, <2>3
<1> QED
  BY <1>2, <1>3

(* A new request: no other has its id.                                        *)
LEMMA AfterAsk ==
  ASSUME FlowInv, counted' = counted, pc' = pc, NEW new \in Request, NEW where \in Asking,
         Ask(where, new.registered, new.verified, new.vote), new.id = request_id + 1,
         dialogue # "menu",
         typed' \in [rfid : Voter \cup {Stranger}, right : BOOLEAN,
                     vote : Vote \cup {None}],
         (where = "ask card" /\ new.registered) => typed'.rfid \in Voter,
         (where = "ask finger" /\ new.verified) => typed'.right,
         where = "ask vote" => typed'.vote = new.vote /\ typed'.right /\ typed'.vote \in Vote,
         where # "ask card" => typed'.rfid \in Voter
  PROVE  FlowInv'
<1>1. request_id' = request_id + 1 /\ request_id < MaxRequests
  BY DEF Ask
<1>2. /\ new.id = request_id' /\ new.id \in RequestId /\ new.id \in 0 .. MaxRequests
      /\ new.id <= request_id'
      /\ \A q \in Pending : q.id # request_id' /\ q.id <= request_id'
  BY <1>1, NextId DEF FlowInv
<1>3. unsent' = new /\ dialogue' = where /\ requests' = requests
  <2>1. unsent' = [id |-> new.id, registered |-> new.registered,
                   verified |-> new.verified, vote |-> new.vote]
    BY <1>1 DEF Ask
  <2>2. new = [id |-> new.id, registered |-> new.registered,
               verified |-> new.verified, vote |-> new.vote]
    BY DEF Request
  <2> QED
    BY <2>1, <2>2 DEF Ask
<1>4. FlowTypeOK'
  <2>1. dialogue' \in Asking /\ dialogue' # "menu"
    BY <1>3 DEF Asking
  <2>2. request_id' \in 0 .. MaxRequests /\ request_id' \in RequestId
    BY <1>2
  <2> QED
    BY <1>3, <2>1, <2>2 DEF FlowInv, FlowTypeOK, Ask, brokerVars
<1>5. \A q \in Pending' : q = new \/ q \in Pending
  BY <1>3 DEF Pending
<1>6. IdsIssued'
  BY <1>2, <1>5 DEF IdsIssued
<1>7. AskedIsTyped'
  <2> SUFFICES ASSUME NEW q \in Pending', q.id = request_id'
               PROVE  /\ (where = "ask card" /\ q.registered) => typed'.rfid \in Voter
                      /\ (where = "ask finger" /\ q.verified) => typed'.right
                      /\ where = "ask vote" => q.vote = typed'.vote
    BY <1>3 DEF AskedIsTyped
  <2>1. q = new
    BY <1>2, <1>5
  <2> QED
    BY <2>1
<1>8. InputKnown' /\ OnlyVerified'
  BY <1>3 DEF InputKnown, OnlyVerified, Asking
<1>9. AnswersTrue' /\ ShownIsCounted'
  BY DEF FlowInv, AnswersTrue, ShownIsCounted, Ask
<1> QED
  BY <1>4, <1>6, <1>7, <1>8, <1>9 DEF FlowInv

-----------------------------------------------------------------------------
LEMMA EnterCardStep ==
  ASSUME FlowInv, NEW card \in Voter \cup {Stranger}, EnterCard(card)
  PROVE  FlowInv'
<1>1. PICK new : new = [id |-> request_id + 1, registered |-> card \in Voter,
                        verified |-> card \in Voter, vote |-> None]
  OBVIOUS
<1>2. request_id + 1 \in RequestId
  BY NextId DEF FlowInv, EnterCard, Ask
<1>3. /\ new \in Request /\ new.id = request_id + 1
      /\ new.registered = (card \in Voter) /\ new.verified = (card \in Voter)
      /\ new.vote = None
  BY <1>1, <1>2 DEF Request
<1>4. Ask("ask card", new.registered, new.verified, new.vote)
  BY <1>3 DEF EnterCard
<1>5. dialogue # "menu" /\ counted' = counted /\ pc' = pc
  BY DEF EnterCard, bufferVars, serverVars, threadVars
<1>6. /\ typed' \in [rfid : Voter \cup {Stranger}, right : BOOLEAN,
                     vote : Vote \cup {None}]
      /\ typed'.rfid = card
  BY DEF FlowInv, FlowTypeOK, EnterCard
<1> QED
  BY <1>3, <1>4, <1>5, <1>6, AfterAsk DEF Asking

LEMMA EnterFingerStep ==
  ASSUME FlowInv, NEW right \in BOOLEAN, EnterFinger(right)
  PROVE  FlowInv'
<1>1. PICK new : new = [id |-> request_id + 1, registered |-> TRUE,
                        verified |-> right, vote |-> None]
  OBVIOUS
<1>2. request_id + 1 \in RequestId
  BY NextId DEF FlowInv, EnterFinger, Ask
<1>3. /\ new \in Request /\ new.id = request_id + 1
      /\ new.registered = TRUE /\ new.verified = right /\ new.vote = None
  BY <1>1, <1>2 DEF Request
<1>4. Ask("ask finger", new.registered, new.verified, new.vote)
  BY <1>3 DEF EnterFinger
<1>5. dialogue # "menu" /\ counted' = counted /\ pc' = pc
  BY DEF EnterFinger, bufferVars, serverVars, threadVars
<1>6. /\ typed' \in [rfid : Voter \cup {Stranger}, right : BOOLEAN,
                     vote : Vote \cup {None}]
      /\ typed'.right = right /\ typed'.rfid \in Voter
  BY DEF FlowInv, FlowTypeOK, EnterFinger, InputKnown
<1> QED
  BY <1>3, <1>4, <1>5, <1>6, AfterAsk DEF Asking

LEMMA ChooseCandidateStep ==
  ASSUME FlowInv, NEW p \in Vote, ChooseCandidate(p)
  PROVE  FlowInv'
<1>1. PICK new : new = [id |-> request_id + 1, registered |-> TRUE,
                        verified |-> TRUE, vote |-> p]
  OBVIOUS
<1>2. request_id + 1 \in RequestId
  BY NextId DEF FlowInv, ChooseCandidate, Ask
<1>3. /\ new \in Request /\ new.id = request_id + 1
      /\ new.registered = TRUE /\ new.verified = TRUE /\ new.vote = p
  BY <1>1, <1>2 DEF Request
<1>4. Ask("ask vote", new.registered, new.verified, new.vote)
  BY <1>3 DEF ChooseCandidate
<1>5. dialogue # "menu" /\ counted' = counted /\ pc' = pc
  BY DEF ChooseCandidate, serverVars, threadVars
<1>6. /\ typed' \in [rfid : Voter \cup {Stranger}, right : BOOLEAN,
                     vote : Vote \cup {None}]
      /\ typed'.vote = p /\ typed'.right /\ typed'.rfid \in Voter
  BY DEF FlowInv, FlowTypeOK, ChooseCandidate, OnlyVerified
<1> QED
  BY <1>3, <1>4, <1>5, <1>6, AfterAsk DEF Asking

LEMMA StartFlowStep ==
  ASSUME FlowInv, StartFlow
  PROVE  FlowInv'
<1>1. FlowTypeOK'
  <2>1. pc' = pc
    BY DEF StartFlow, bufferVars, threadVars
  <2> QED
    BY <2>1 DEF FlowInv, FlowTypeOK, StartFlow, Client, Asking
<1>2. Pending' = Pending /\ counted' = counted /\ pc' = pc
  BY DEF StartFlow, Pending, bufferVars, serverVars, threadVars
<1>3. /\ IdsIssued' /\ AnswersTrue' /\ AskedIsTyped' /\ InputKnown'
      /\ OnlyVerified' /\ ShownIsCounted'
  BY <1>2 DEF FlowInv, StartFlow, IdsIssued, AnswersTrue, AskedIsTyped, InputKnown,
     OnlyVerified, ShownIsCounted
<1> QED
  BY <1>1, <1>2, <1>3 DEF FlowInv

(* The response found is about the request that was asked.                    *)
LEMMA FetchResponseStep ==
  ASSUME FlowInv, FetchResponse
  PROVE  FlowInv'
<1> DEFINE response == _responses[request_id]
<1>1. /\ dialogue \in Asking /\ response # None /\ counted' = counted
      /\ request_id \in RequestId /\ pc' = pc
  BY DEF FetchResponse, FlowInv, FlowTypeOK, bufferVars, serverVars, threadVars
<1>2. PICK q \in requests : /\ q.id = request_id
                            /\ response.registered => q.registered
                            /\ response.verified => q.verified
                            /\ response.accepted => q.vote \in counted
  BY <1>1 DEF FlowInv, AnswersTrue
<1>3. /\ (dialogue = "ask card" /\ response.registered) => typed.rfid \in Voter
      /\ (dialogue = "ask finger" /\ response.verified) => typed.right
      /\ (dialogue = "ask vote" /\ response.accepted) => typed.vote \in counted
  BY <1>2 DEF FlowInv, AskedIsTyped, Pending
<1>4. CASE /\ dialogue = "ask vote"
           /\ shown' = IF response.accepted THEN shown \cup {typed.vote} ELSE shown
           /\ EndFlow
  <2>1. shown' \subseteq counted /\ shown' \subseteq Vote
    <3>1. PICK v : v = typed.vote
      OBVIOUS
    <3>2. response.accepted => v \in counted
      BY <1>3, <1>4, <3>1
    <3>3. v \in Vote
      BY <1>4, <3>1 DEF FlowInv, InputKnown
    <3> QED
      BY <1>4, <3>1, <3>2, <3>3 DEF FlowInv, ShownIsCounted, FlowTypeOK
  <2> QED
    BY <1>1, <1>4, <2>1, AfterEndFlow
<1>5. CASE EndFlow /\ UNCHANGED shown
  BY <1>1, <1>5, AfterEndFlow DEF FlowInv, FlowTypeOK, ShownIsCounted
<1>6. CASE /\ \/ dialogue = "ask card" /\ response.registered /\ dialogue' = "finger"
              \/ dialogue = "ask finger" /\ response.verified /\ dialogue' = "candidate"
           /\ _responses' = [_responses EXCEPT ![request_id] = None]
           /\ UNCHANGED <<NETWORK_MODE, typed, request_id, unsent, requests, brokerVars,
                          shown>>
  <2>1. FlowTypeOK'
    BY <1>1, <1>6 DEF FlowInv, FlowTypeOK, Asking, brokerVars
  <2>2. Pending' = Pending /\ dialogue' \notin Asking
    BY <1>6 DEF Pending, Asking
  <2>3. InputKnown' /\ OnlyVerified'
    BY <1>3, <1>6 DEF FlowInv, InputKnown, OnlyVerified
  <2>4. AnswersTrue'
    <3> SUFFICES ASSUME NEW n \in RequestId, _responses'[n] # None
                 PROVE  _responses[n] # None /\ _responses'[n] = _responses[n]
      BY <1>1, <1>6 DEF FlowInv, AnswersTrue
    <3> QED
      BY <1>1, <1>6 DEF FlowInv, FlowTypeOK
  <2>5. IdsIssued' /\ AskedIsTyped' /\ ShownIsCounted'
    BY <1>1, <1>6, <2>2 DEF FlowInv, IdsIssued, AskedIsTyped, ShownIsCounted, Asking
  <2> QED
    BY <1>1, <2>1, <2>3, <2>4, <2>5 DEF FlowInv
<1> QED
  BY <1>4, <1>5, <1>6 DEF FetchResponse

LEMMA GiveUpStep ==
  ASSUME FlowInv, GiveUp
  PROVE  FlowInv'
  BY AfterEndFlow
  DEF GiveUp, FlowInv, FlowTypeOK, ShownIsCounted, bufferVars, serverVars, threadVars

-----------------------------------------------------------------------------
LEMMA ConnectionStep ==
  ASSUME FlowInv, (\E c \in Client : Reconnect(c)) \/ Subscribe \/ Link
  PROVE  FlowInv'
<1>1. UNCHANGED <<flowVars, requests, clients, NETWORK_MODE, pc, counted>>
  BY DEF Reconnect, Subscribe, Link, LinkChanges, bufferVars, serverVars, threadVars
<1>2. /\ session' \in clients \cup {"none"}
      /\ subscribed' \in BOOLEAN /\ (subscribed' => session' # "none")
  BY DEF FlowInv, FlowTypeOK, Reconnect, Subscribe, Link, Client
<1>3. FlowTypeOK'
  BY <1>1, <1>2 DEF FlowInv, FlowTypeOK, flowVars
<1> QED
  BY <1>1, <1>3, Aside DEF FlowInv

LEMMA TransmitStep ==
  ASSUME FlowInv, Transmit
  PROVE  FlowInv'
<1>1. FlowTypeOK'
  <2>1. requests' \subseteq Request /\ unsent' = None
    BY DEF FlowInv, FlowTypeOK, Transmit
  <2>2. pc' = pc
    BY DEF Transmit, bufferVars, threadVars
  <2> QED
    BY <2>1, <2>2 DEF FlowInv, FlowTypeOK, Transmit, brokerVars
<1>2. /\ Pending' = Pending /\ counted' = counted /\ requests \subseteq requests'
      /\ pc' = pc
  BY DEF Transmit, Pending, bufferVars, serverVars, threadVars
<1>3. /\ IdsIssued' /\ AnswersTrue' /\ AskedIsTyped' /\ InputKnown'
      /\ OnlyVerified' /\ ShownIsCounted'
  BY <1>2 DEF FlowInv, Transmit, IdsIssued, AnswersTrue, AskedIsTyped, InputKnown,
     OnlyVerified, ShownIsCounted
<1> QED
  BY <1>1, <1>2, <1>3 DEF FlowInv

LEMMA ServeStep ==
  ASSUME FlowInv, NEW q \in requests, Serve(q)
  PROVE  FlowInv'
<1> DEFINE accepted == q.vote # None /\ Accepts(q.vote)
<1>1. PICK response : response = [registered |-> q.registered, verified |-> q.verified,
                                  accepted |-> accepted]
  OBVIOUS
<1>2. /\ q \in Request /\ q.id \in RequestId
      /\ q.registered \in BOOLEAN /\ q.verified \in BOOLEAN
  BY DEF FlowInv, FlowTypeOK, Request
<1>3. accepted \in BOOLEAN
  BY DEF Accepts
<1>4. /\ response \in Response /\ response.registered = q.registered
      /\ response.verified = q.verified /\ response.accepted = accepted
  BY <1>1, <1>2, <1>3 DEF Response
<1>5. /\ \/ _responses' = _responses
         \/ _responses' = [_responses EXCEPT ![q.id] = response]
      /\ counted' = IF accepted THEN counted \cup {q.vote} ELSE counted
      /\ UNCHANGED <<NETWORK_MODE, dialogue, typed, request_id, unsent, requests,
                     brokerVars, shown, pc>>
  BY <1>1 DEF Serve, Deliver, threadVars
<1>6. counted \subseteq counted' /\ (response.accepted => q.vote \in counted')
  BY <1>4, <1>5
<1>7. _responses' \in [RequestId -> Response \cup {None}]
  BY <1>2, <1>4, <1>5 DEF FlowInv, FlowTypeOK
<1>8. FlowTypeOK'
  BY <1>5, <1>7 DEF FlowInv, FlowTypeOK, brokerVars
<1>9. Pending' = Pending
  BY <1>5 DEF Pending
<1>10. AnswersTrue'
  <2> SUFFICES ASSUME NEW n \in RequestId, _responses'[n] # None
               PROVE  \E r \in requests :
                        /\ r.id = n
                        /\ _responses'[n].registered => r.registered
                        /\ _responses'[n].verified => r.verified
                        /\ _responses'[n].accepted => r.vote \in counted'
    BY <1>5 DEF AnswersTrue
  <2>1. CASE _responses'[n] = _responses[n]
    BY <1>6, <2>1 DEF FlowInv, AnswersTrue
  <2>2. CASE _responses'[n] # _responses[n]
    <3>1. n = q.id /\ _responses'[n] = response
      BY <1>2, <1>5, <2>2 DEF FlowInv, FlowTypeOK
    <3> QED
      BY <1>4, <1>6, <3>1
  <2> QED
    BY <2>1, <2>2
<1>11. IdsIssued' /\ AskedIsTyped' /\ InputKnown' /\ OnlyVerified'
  BY <1>5, <1>9 DEF FlowInv, IdsIssued, AskedIsTyped, InputKnown, OnlyVerified
<1>12. ShownIsCounted'
  BY <1>5, <1>6 DEF FlowInv, ShownIsCounted
<1> QED
  BY <1>5, <1>8, <1>10, <1>11, <1>12 DEF FlowInv

(* The retry thread and its client.                                           *)
LEMMA RetryFlow ==
  ASSUME FlowInv, Retry
  PROVE  FlowInv'
<1>1. UNCHANGED <<flowVars, requests, NETWORK_MODE>>
  BY DEF Retry
<1>2. DOMAIN pc' = Writer
  BY PcOfRetry DEF Retry, RetryConnects, RetryDisconnects
<1>3. /\ clients' \subseteq Client /\ clients' \ {"retry"} = clients \ {"retry"}
      /\ session' \in clients' \cup {"none"}
      /\ pc'["retry"] = "wait" <=> "retry" \in clients'
      /\ subscribed' \in BOOLEAN /\ (subscribed' => session' # "none")
  <2>1. CASE RetryConnects
    BY <2>1, PcOfRetry DEF RetryConnects, FlowInv, FlowTypeOK, Client
  <2>2. CASE RetryDisconnects
    BY <2>2, PcOfRetry DEF RetryDisconnects, Disconnect, FlowInv, FlowTypeOK
  <2>3. CASE /\ ReadBuffer \/ ConnectFails \/ RoundEnds \/ WriteStep("retry")
             /\ UNCHANGED brokerVars
    BY <2>3, PcOfRetry DEF brokerVars, FlowInv, FlowTypeOK
  <2> QED
    BY <2>1, <2>2, <2>3 DEF Retry
<1>4. FlowTypeOK'
  BY <1>1, <1>3 DEF FlowInv, FlowTypeOK, flowVars
<1>5. counted \subseteq counted'
  BY CountedGrows DEF Retry, RetryConnects, RetryDisconnects, RetryStep
<1> QED
  BY <1>1, <1>2, <1>4, <1>5, Aside

(* The buffer's other steps, of the menu thread and of the network.           *)
LEMMA BufferStep ==
  ASSUME FlowInv, counted \subseteq counted', UNCHANGED simulatorVars,
         DOMAIN pc' = Writer, pc'["retry"] = pc["retry"]
  PROVE  FlowInv'
<1>1. FlowTypeOK'
  BY DEF FlowInv, FlowTypeOK, simulatorVars, flowVars, brokerVars
<1> QED
  BY <1>1, Aside DEF simulatorVars

LEMMA FlowInvStep == FlowInv /\ [SimulatorNext]_allVars => FlowInv'
<1> SUFFICES ASSUME FlowInv, [SimulatorNext]_allVars PROVE FlowInv'
  OBVIOUS
<1>1. CASE SimulationMenu
  BY <1>1, CountedGrows, PcOfOthers, BufferStep DEF SimulationMenu
<1>2. CASE Flow
  BY <1>2, StartFlowStep, FetchResponseStep, GiveUpStep, EnterCardStep, EnterFingerStep,
     ChooseCandidateStep DEF Flow
<1>3. CASE Broker
  <2>1. CASE /\ AnswerRetry \/ (\E p \in Vote : ReceiveLate(p)) \/ \E v \in Voter : VoteElsewhere(v)
             /\ UNCHANGED simulatorVars
    BY <2>1, CountedGrows, PcOfOthers, BufferStep DEF AnswerRetry, Network
  <2> QED
    BY <1>3, <2>1, ConnectionStep, TransmitStep, ServeStep DEF Broker
<1>4. CASE Retry
  BY <1>4, RetryFlow
<1>5. CASE UNCHANGED allVars
  BY <1>5, BufferStep DEF allVars, bufferVars, serverVars, threadVars, FlowInv
<1> QED
  BY <1>1, <1>2, <1>3, <1>4, <1>5 DEF SimulatorNext

LEMMA FlowInvHolds == SimulatorSpec => []FlowInv
  BY InitFlow, FlowInvStep, PTL DEF SimulatorSpec

(* Types of the dialogue, its requests and the sessions of the broker: the     *)
(* broker is connected with a client that is in use, or with none.            *)
THEOREM FlowTypeCorrect == SimulatorSpec => []FlowTypeOK
  BY FlowInvHolds, PTL DEF FlowInv

(* No answer that comes late, twice or to another dialogue lets a voter choose *)
(* whose finger was not verified for this card.                               *)
THEOREM OnlyVerifiedHolds == SimulatorSpec => []OnlyVerified
  BY FlowInvHolds, PTL DEF FlowInv

(* A dialogue that was told its vote is accepted voted.                        *)
THEOREM ShownHolds == SimulatorSpec => []ShownIsCounted
  BY FlowInvHolds, PTL DEF FlowInv

-----------------------------------------------------------------------------
(* The buffer beside the dialogue.  What the program adds to the buffer's own  *)
(* steps touches neither the file nor its writers.                           *)

BufferAlone == MenuStep \/ RetryStep \/ Network

LEMMA OwnerAside ==
  ASSUME OwnerInv, UNCHANGED <<threadVars, disk, sent, linkVars, saved, faults>>,
         given' \subseteq Vote, counted' \subseteq Vote, has_voted' \subseteq Voter
  PROVE  OwnerInv' /\ ReturnsStored
<1>1. TypeOK'
  BY DEF OwnerInv, TypeOK, threadVars, linkVars
<1> QED
  BY <1>1, OwnerQuiet DEF threadVars, ReturnsStored

LEMMA OwnerOfBuffer ==
  ASSUME OwnerInv, BufferAlone \/ UNCHANGED bufferVars
  PROVE  OwnerInv' /\ (ReturnsStored \/ UNCHANGED bufferVars)
  BY OwnerStep, OwnerStored DEF BufferAlone

LEMMA OwnerOfProgram ==
  ASSUME FlowInv, OwnerInv, [SimulatorNext]_allVars
  PROVE  OwnerInv' /\ (ReturnsStored \/ UNCHANGED bufferVars)
<1>0. /\ given \subseteq Vote /\ counted \subseteq Vote /\ has_voted \subseteq Voter
      /\ \A p \in Vote : voter_id[p] \in Voter
  BY BufferAssumption DEF OwnerInv, TypeOK
<1>1. ASSUME NEW p \in Vote, VoteLocally(p) PROVE OwnerInv' /\ ReturnsStored
  BY <1>0, <1>1, OwnerAside DEF VoteLocally
<1>2. CASE SimulationMenu
  BY <1>1, <1>2, OwnerOfBuffer DEF SimulationMenu, BufferAlone
<1>3. ASSUME NEW p \in Vote, ChooseCandidate(p) PROVE OwnerInv' /\ ReturnsStored
  BY <1>0, <1>3, OwnerAside DEF ChooseCandidate, serverVars
<1>4. CASE Flow
  <2>1. UNCHANGED bufferVars \/ \E p \in Vote : ChooseCandidate(p)
    BY <1>4 DEF Flow, StartFlow, FetchResponse, GiveUp, EnterCard, EnterFinger
  <2> QED
    BY <1>3, <2>1, OwnerOfBuffer
<1>5. ASSUME NEW q \in requests, Serve(q) PROVE OwnerInv' /\ ReturnsStored
  <2>1. q.vote # None => q.vote \in Vote
    BY DEF FlowInv, FlowTypeOK, Request
  <2>2. counted' \subseteq Vote /\ has_voted' \subseteq Voter
    BY <1>0, <1>5, <2>1 DEF Serve
  <2> QED
    BY <1>0, <1>5, <2>2, OwnerAside DEF Serve, historyVars
<1>6. CASE Broker
  <2>1. BufferAlone \/ UNCHANGED bufferVars \/ \E q \in requests : Serve(q)
    BY <1>6 DEF Broker, Reconnect, Subscribe, Transmit, Link, AnswerRetry, Network,
                BufferAlone
  <2> QED
    BY <1>5, <2>1, OwnerOfBuffer
<1>7. CASE Retry \/ UNCHANGED allVars
  BY <1>7, OwnerOfBuffer
  DEF Retry, RetryConnects, RetryDisconnects, RetryStep, BufferAlone, allVars
<1> QED
  BY <1>2, <1>4, <1>6, <1>7 DEF SimulatorNext

(* In the whole program as well, in which votes are also processed in place    *)
(* and dialogues run: a save that returns while no round is under way has put  *)
(* its vote into the file.                                                    *)
THEOREM ProgramSavesHold == SimulatorSpec => SaveIsDurable
<1>1. SimulatorInit => FlowInv /\ OwnerInv
  BY InitFlow, StartOwner, SimulatorAssumption DEF SimulatorInit
<1>2. FlowInv /\ OwnerInv /\ [SimulatorNext]_allVars
        => FlowInv' /\ OwnerInv' /\ [ReturnsStored]_bufferVars
  BY FlowInvStep, OwnerOfProgram
<1>3. [ReturnsStored]_bufferVars
        => [\A p \in Vote :
              /\ p \in Range(saved') \ Range(saved)
              /\ pc["retry"] = "idle"
              => p \in Range(disk'["path"].list)]_bufferVars
  BY DEF ReturnsStored
<1> QED
  BY <1>1, <1>2, <1>3, PTL DEF SimulatorSpec, SaveIsDurable
=============================================================================
