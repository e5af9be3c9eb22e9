---------------------------- MODULE BoothSimulator ----------------------------
(***************************************************************************)
(* The menu of the Python booth (booth/simulator.py) on top of its offline *)
(* buffer, in either NETWORK_MODE.  With SIMULATION a vote is processed in  *)
(* the booth's own process or, after the network was toggled off, saved in  *)
(* the buffer.  With MQTT a dialogue of three requests goes to the server   *)
(* through a client of its own (booth/mqtt_client.py), while the client of  *)
(* the heartbeats stays connected.  In both modes the retry thread sends    *)
(* what the buffer holds, one client for each vote (booth/vote_sender.py).  *)
(* The buffer may hold votes of an earlier run, in the other mode as well.   *)
(*                                                                         *)
(* Every client of a booth has the same MQTT client id, and a broker keeps *)
(* one connection per id: each connection ends the other one, whose loop    *)
(* then reconnects.  Sessions are clean, so a response is delivered to the  *)
(* client that is connected and has subscribed when it is published, or to *)
(* nobody.                                                                 *)
(***************************************************************************)
EXTENDS OfflineBuffer

CONSTANTS Stranger,   \* an RFID that is not registered
          None,       \* no vote, no request, no response
          Leftover,   \* what an earlier run may have left in the buffer
          MaxRequests \* bound on the requests of dialogues

VARIABLES NETWORK_MODE,
          dialogue,   \* where run_valid_voter_flow is
          typed,      \* the card and whether the finger is that of the card
          request_id, \* of the latest request
          _responses, \* of the client of the dialogue, by request
          unsent,     \* a request that this client could not send yet
          requests,   \* requests sent, which the broker may deliver again
          clients,    \* those between connect() and disconnect()
          session,    \* the one the broker has a connection with
          subscribed, \* its on_connect callback has run
          shown       \* history: votes the server's answer called accepted

flowVars == <<dialogue, typed, request_id, _responses, unsent, shown>>
brokerVars == <<clients, session, subscribed>>
simulatorVars == <<NETWORK_MODE, flowVars, requests, brokerVars>>
allVars == <<bufferVars, simulatorVars>>

Client == {"heartbeat", "menu", "retry"}
RequestId == 1 .. MaxRequests

(* What the server will answer is fixed for an authentication: a request with  *)
(* the card alone is answered with verified for every registered card.       *)
Request == [id : RequestId, registered : BOOLEAN, verified : BOOLEAN,
            vote : Vote \cup {None}]
Response == [registered : BOOLEAN, verified : BOOLEAN, accepted : BOOLEAN]

ASSUME SimulatorAssumption ==
    /\ Stranger \notin Voter /\ MaxRequests \in Nat
    /\ Leftover \subseteq Seq(Vote)
    /\ None \notin Vote \cup Request \cup Response

Nobody == [rfid |-> Stranger, right |-> FALSE, vote |-> None]

Asking == {"ask card", "ask finger", "ask vote"}

FlowTypeOK ==
    /\ NETWORK_MODE \in {"MQTT", "SIMULATION"}
    /\ dialogue \in Asking \cup {"menu", "card", "finger", "candidate"}
    /\ typed \in [rfid : Voter \cup {Stranger}, right : BOOLEAN, vote : Vote \cup {None}]
    /\ request_id \in 0 .. MaxRequests
    /\ dialogue \in Asking => request_id \in RequestId
    /\ _responses \in [RequestId -> Response \cup {None}]
    /\ unsent \in Request \cup {None} /\ requests \subseteq Request
    /\ clients \subseteq Client /\ session \in clients \cup {"none"}
    /\ dialogue = "menu" <=> "menu" \notin clients
    /\ pc["retry"] = "wait" <=> "retry" \in clients
    /\ subscribed \in BOOLEAN /\ (subscribed => session # "none")
    /\ shown \subseteq Vote
    /\ NETWORK_MODE = "SIMULATION" => clients \subseteq {"retry"}

(* main: the client of the heartbeats runs if the broker could be reached.     *)
SimulatorInit ==
    /\ \E s \in Leftover : StartWith(s)
    /\ NETWORK_MODE \in {"MQTT", "SIMULATION"}
    /\ dialogue = "menu" /\ typed = Nobody /\ request_id = 0
    /\ _responses = [n \in RequestId |-> None]
    /\ unsent = None /\ requests = {} /\ shown = {}
    /\ clients \in {{}, {"heartbeat"}}
    /\ NETWORK_MODE = "SIMULATION" => clients = {}
    /\ session = "none" /\ subscribed = FALSE

-----------------------------------------------------------------------------
(* NETWORK_MODE = "SIMULATION": send_vote_payload calls process_vote itself.   *)
VoteLocally(p) ==
    /\ pc["menu"] = "idle"
    /\ p \notin given
    /\ given' = given \cup {p}
    /\ counted' = IF Accepts(p) THEN counted \cup {p} ELSE counted
    /\ has_voted' = IF Accepts(p) THEN has_voted \cup {voter_id[p]} ELSE has_voted
    /\ UNCHANGED <<threadVars, disk, sent, linkVars, saved, faults>>

SimulationMenu ==
    /\ NETWORK_MODE = "SIMULATION"
    /\ MenuStep \/ \E p \in Vote : VoteLocally(p)
    /\ UNCHANGED simulatorVars

-----------------------------------------------------------------------------
(* NETWORK_MODE = "MQTT": run_valid_voter_flow.                               *)

(* Mutant: requests are numbered by each client, not by uuid4.                *)
StartFlowNumbered ==
    /\ NETWORK_MODE = "MQTT" /\ dialogue = "menu"
    /\ online
    /\ dialogue' = "card"
    /\ request_id' = 0
    /\ clients' = clients \cup {"menu"}
    /\ session' = "menu" /\ subscribed' = FALSE
    /\ UNCHANGED <<bufferVars, NETWORK_MODE, typed, _responses, unsent, requests,
                   shown>>

(* A new client connects, which ends the connection of any other.             *)
StartFlow ==
    /\ NETWORK_MODE = "MQTT" /\ dialogue = "menu"
    /\ online
    /\ dialogue' = "card"
    /\ clients' = clients \cup {"menu"}
    /\ session' = "menu" /\ subscribed' = FALSE
    /\ UNCHANGED <<bufferVars, NETWORK_MODE, typed, request_id, _responses, unsent,
                   requests, shown>>

(* _publish_and_wait, up to the publication.                                  *)
Ask(where, registered, verified, p) ==
    /\ request_id < MaxRequests
    /\ request_id' = request_id + 1
    /\ unsent' = [id |-> request_id', registered |-> registered,
                  verified |-> verified, vote |-> p]
    /\ dialogue' = where
    /\ UNCHANGED <<NETWORK_MODE, _responses, requests, brokerVars, shown>>

EnterCard(card) ==
    /\ dialogue = "card"
    /\ typed' = [typed EXCEPT !.rfid = card]
    /\ Ask("ask card", card \in Voter, card \in Voter, None)
    /\ UNCHANGED bufferVars

EnterFinger(right) ==
    /\ dialogue = "finger"
    /\ typed' = [typed EXCEPT !.right = right]
    /\ Ask("ask finger", TRUE, right, None)
    /\ UNCHANGED bufferVars

ChooseCandidate(p) ==
    /\ dialogue = "candidate"
    /\ p \notin given /\ voter_id[p] = typed.rfid
    /\ given' = given \cup {p}
    /\ typed' = [typed EXCEPT !.vote = p]
    /\ Ask("ask vote", TRUE, TRUE, p)
    /\ UNCHANGED <<threadVars, disk, serverVars, linkVars, saved, faults>>

(* Mutant: disconnect without loop_stop, so that the client reconnects.       *)
EndFlowLooping ==
    /\ dialogue' = "menu"
    /\ typed' = Nobody
    /\ _responses' = [n \in RequestId |-> None]
    /\ unsent' = None
    /\ session' = IF session = "menu" THEN "none" ELSE session
    /\ subscribed' = (subscribed /\ session # "menu")
    /\ UNCHANGED <<clients, NETWORK_MODE, request_id, requests>>

(* loop_stop and disconnect: the client is gone.                             *)
Disconnect(c) ==
    /\ clients' = clients \ {c}
    /\ session' = IF session = c THEN "none" ELSE session
    /\ subscribed' = (subscribed /\ session # c)

(* Whichever way the dialogue ends: disconnect.                               *)
EndFlow ==
    /\ dialogue' = "menu"
    /\ typed' = Nobody
    /\ _responses' = [n \in RequestId |-> None]
    /\ unsent' = None
    /\ Disconnect("menu")
    /\ UNCHANGED <<NETWORK_MODE, request_id, requests>>

(* The waiting loop finds the response to its own request.                    *)
FetchResponse ==
    LET response == _responses[request_id] IN
    /\ dialogue \in Asking
    /\ response # None
    /\ \/ /\ dialogue = "ask vote"
          /\ shown' = IF response.accepted THEN shown \cup {typed.vote} ELSE shown
          /\ EndFlow
       \/ /\ \/ dialogue = "ask card" /\ ~response.registered
             \/ dialogue = "ask finger" /\ ~response.verified
          /\ EndFlow /\ UNCHANGED shown
       \/ /\ \/ dialogue = "ask card" /\ response.registered /\ dialogue' = "finger"
             \/ dialogue = "ask finger" /\ response.verified /\ dialogue' = "candidate"
          /\ _responses' = [_responses EXCEPT ![request_id] = None]
          /\ UNCHANGED <<NETWORK_MODE, typed, request_id, unsent, requests, brokerVars,
                         shown>>
    /\ UNCHANGED bufferVars

(* Five seconds without one; the server may be slow, too.                     *)
GiveUp ==
    /\ dialogue \in Asking
    /\ EndFlow
    /\ UNCHANGED <<bufferVars, shown>>

Flow ==
    \/ StartFlow \/ FetchResponse \/ GiveUp
    \/ \E card \in Voter \cup {Stranger} : EnterCard(card)
    \/ \E right \in BOOLEAN : EnterFinger(right)
    \/ \E p \in Vote : ChooseCandidate(p)

-----------------------------------------------------------------------------
(* Broker and server.                                                         *)

(* The loop thread of a client that lost its connection takes it back.        *)
Reconnect(c) ==
    /\ online
    /\ c \in clients /\ session # c
    /\ session' = c /\ subscribed' = FALSE
    /\ UNCHANGED <<bufferVars, NETWORK_MODE, flowVars, requests, clients>>

(* _on_connect, which runs some time after connect() has returned.            *)
Subscribe ==
    /\ session # "none" /\ ~subscribed
    /\ subscribed' = TRUE
    /\ UNCHANGED <<bufferVars, NETWORK_MODE, flowVars, requests, clients, session>>

Transmit ==
    /\ unsent # None /\ session = "menu"
    /\ requests' = requests \cup {unsent}
    /\ unsent' = None
    /\ UNCHANGED <<bufferVars, NETWORK_MODE, dialogue, typed, request_id, _responses,
                   brokerVars, shown>>

(* The response reaches the dialogue only through its own client.             *)
Deliver(id, response) ==
    _responses' = IF session = "menu" /\ subscribed
                  THEN [_responses EXCEPT ![id] = response] ELSE _responses

(* A request is handled, late or once more; a second answer replaces one that  *)
(* was not fetched yet.                                                      *)
Serve(q) ==
    LET accepted == q.vote # None /\ Accepts(q.vote) IN
    /\ online /\ q \in requests
    /\ Deliver(q.id, [registered |-> q.registered, verified |-> q.verified,
                      accepted |-> accepted])
    /\ counted' = IF accepted THEN counted \cup {q.vote} ELSE counted
    /\ has_voted' = IF accepted THEN has_voted \cup {voter_id[q.vote]} ELSE has_voted
    /\ UNCHANGED <<threadVars, disk, sent, linkVars, historyVars, NETWORK_MODE, dialogue,
                   typed, request_id, unsent, requests, brokerVars, shown>>

(* Without the broker there is no session.                                    *)
Link ==
    /\ LinkChanges
    /\ session' = IF online' THEN session ELSE "none"
    /\ subscribed' = (subscribed /\ online')
    /\ UNCHANGED <<NETWORK_MODE, flowVars, requests, clients>>

(* The answer to the vote of the retry thread reaches it like one of a        *)
(* dialogue; otherwise ReceiveLate is what the server does with the vote.     *)
AnswerRetry ==
    /\ session = "retry" /\ subscribed
    /\ ReceiveRequest

Broker ==
    \/ \E c \in Client : Reconnect(c)
    \/ Subscribe \/ Transmit \/ Link
    \/ \E q \in requests : Serve(q)
    \/ /\ AnswerRetry \/ \E p \in Vote : ReceiveLate(p) \/ \E v \in Voter : VoteElsewhere(v)
       /\ UNCHANGED simulatorVars

-----------------------------------------------------------------------------
(* The retry thread, in both modes.  _publish_payload connects a client for    *)
(* the vote, which ends the connection of any other, and disconnects it again  *)
(* whatever came of the vote.                                                *)
RetryConnects ==
    /\ online /\ Publish
    /\ clients' = clients \cup {"retry"}
    /\ session' = "retry" /\ subscribed' = FALSE

(* Mutant: without the finally clause the client of a vote stays.             *)
RetryStays == (HandleAnswer \/ Timeout) /\ UNCHANGED brokerVars

RetryDisconnects == (HandleAnswer \/ Timeout) /\ Disconnect("retry")

Retry ==
    /\ \/ RetryConnects \/ RetryDisconnects
       \/ /\ ReadBuffer \/ ConnectFails \/ RoundEnds \/ WriteStep("retry")
          /\ UNCHANGED brokerVars
    /\ UNCHANGED <<NETWORK_MODE, flowVars, requests>>

SimulatorNext == SimulationMenu \/ Flow \/ Broker \/ Retry

(* The loop of a client that is not disconnected keeps reconnecting, and the   *)
(* retry thread keeps running.                                               *)
SimulatorSpec ==
    /\ SimulatorInit /\ [][SimulatorNext]_allVars
    /\ \A c \in Client : WF_allVars(Reconnect(c))
    /\ WF_allVars(Retry)

-----------------------------------------------------------------------------
(* A candidate is chosen only after the server has verified the finger of this *)
(* card in this dialogue, although the answer about the card alone says        *)
(* verified as well, and answers come late, twice, or to an earlier dialogue. *)
OnlyVerified ==
    dialogue \in {"candidate", "ask vote"} => typed.rfid \in Voter /\ typed.right

(* A vote that was called accepted has been counted.                           *)
ShownIsCounted == shown \subseteq counted

(* Dialogues and the retry thread take the connection of the heartbeats away.  *)
(* Once no dialogue is left, the heartbeats have it again and again; they keep  *)
(* it for good unless a vote that is never accepted waits in the buffer, for   *)
(* which each round of the retry thread takes it once more.                   *)
HeartbeatsReturn ==
    <>[](dialogue = "menu" /\ online /\ "heartbeat" \in clients) =>
        /\ []<>(session = "heartbeat")
        /\ \/ <>[](session = "heartbeat")
           \/ <>[](disk["path"].list # <<>>)
=============================================================================
