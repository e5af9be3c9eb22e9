-------------------------- MODULE HealthMonitorProofs --------------------------
(* Proofs about HealthMonitor, for any components, threads and bounds.         *)
EXTENDS HealthMonitor, TLAPS

LEMMA InitType == Init => TypeOK
  BY HealthAssumption DEF Init, TypeOK, Status, Message, Waiting, Nothing

(* A message at work, of a handler or of a request.                           *)
LEMMA AtWork ==
  ASSUME NEW m \in Message, m.pc \in {"row", "insert", "seen"}
  PROVE  m.component \in Component /\ m.status \in Status
  BY DEF Message

LEMMA NewMessage ==
  ASSUME TypeOK, NEW c \in Component, NEW pc \in {"row", "insert", "seen"}
  PROVE  [pc |-> pc, component |-> c, status |-> Reported(c)] \in Message
  BY DEF Message, Reported, Status

LEMMA Resting ==
  ASSUME NEW pc \in {"idle", "off", "dead"}
  PROVE  Waiting(pc) \in Message /\ Waiting(pc).pc = pc
  BY DEF Message, Waiting

LEMMA GoingOn ==
  ASSUME NEW m \in Message, m.pc \in {"row", "insert", "seen"},
         NEW pc \in {"row", "insert", "seen"}
  PROVE  [m EXCEPT !.pc = pc] \in Message
  BY DEF Message

LEMMA NextType == TypeOK /\ [Next]_healthVars => TypeOK'
<1> SUFFICES ASSUME TypeOK, [Next]_healthVars PROVE TypeOK'
  OBVIOUS
<1> USE DEF watchVars, boundVars
<1>1. ASSUME NEW c \in Component, Heard(c) PROVE TypeOK'
  <2>1. listener' \in Message /\ listener'.pc = "row"
    BY <1>1, NewMessage DEF Heard
  <2> QED
    BY <1>1, <2>1 DEF Heard, TypeOK
<1>2. CASE HeardRow
  <2>1. listener.component \in Component /\ listener.status \in Status
    BY <1>2, AtWork DEF HeardRow, TypeOK
  <2>2. listener' \in Message /\ listener'.pc = "idle"
    BY <1>2, Resting DEF HeardRow
  <2>3. /\ system_health' \in [Component -> Status \cup {"none"}]
        /\ written' \subseteq {c \in Component : system_health'[c] # "none"}
    BY <1>2, <2>1 DEF HeardRow, SetStatus, TypeOK, Status
  <2> QED
    BY <1>2, <2>2, <2>3 DEF HeardRow, TypeOK
<1>3. CASE HeardFails
  <2>1. listener' \in Message /\ listener'.pc \in {"idle", "dead"}
    BY <1>3, Resting DEF HeardFails
  <2> QED
    BY <1>3, <2>1 DEF HeardFails, TypeOK
<1>4. CASE StartRound
  BY <1>4 DEF StartRound, TypeOK
<1>5. ASSUME NEW c \in Component, DeclareOffline(c) PROVE TypeOK'
  <2>1. /\ system_health' \in [Component -> Status \cup {"none"}]
        /\ written' \subseteq {d \in Component : system_health'[d] # "none"}
    BY <1>5 DEF DeclareOffline, SetStatus, TypeOK, Status
  <2>2. /\ overdue' \subseteq {d \in Component : _last_health_seen'[d] # "never"}
        /\ (overdue' # {}) <=> (monitor' = "round")
        /\ monitor' \in {"wait", "round"} /\ monitor = "round"
    BY <1>5 DEF DeclareOffline, TypeOK
  <2> QED
    BY <1>5, <2>1, <2>2 DEF DeclareOffline, TypeOK
<1>6. CASE MonitorFails
  BY <1>6 DEF MonitorFails, TypeOK
<1>7. ASSUME NEW t \in Thread, NEW c \in Component, DemoBeat(t, c) PROVE TypeOK'
  <2> DEFINE m == [pc |-> IF system_health[c] = "none" THEN "insert" ELSE "row",
                   component |-> c, status |-> Reported(c)]
  <2>1. m \in Message /\ m.pc \in {"insert", "row"}
    BY NewMessage
  <2>2. request' = [request EXCEPT ![t] = m]
    BY <1>7 DEF DemoBeat
  <2> HIDE DEF m
  <2> QED
    BY <1>7, <2>1, <2>2 DEF DemoBeat, TypeOK
<1>8. ASSUME NEW t \in Thread, DemoInsert(t) PROVE TypeOK'
  <2> DEFINE c == request[t].component
  <2>1. c \in Component /\ request[t].status \in Status
    BY <1>8, AtWork DEF DemoInsert, TypeOK
  <2>2. PICK m \in Message : request' = [request EXCEPT ![t] = m] /\ m.pc \in {"idle", "row"}
    <3>1. [request[t] EXCEPT !.pc = "row"] \in Message
      BY <1>8, GoingOn DEF DemoInsert, TypeOK
    <3>2. [request[t] EXCEPT !.pc = "row"].pc = "row"
      BY <1>8 DEF DemoInsert, TypeOK, Message
    <3>3. \/ request' = [request EXCEPT ![t].pc = "row"]
          \/ request' = [request EXCEPT ![t] = Waiting("idle")]
      BY <1>8 DEF DemoInsert
    <3> QED
      BY <3>1, <3>2, <3>3, Resting
  <2>3. /\ system_health' \in [Component -> Status \cup {"none"}]
        /\ written' \subseteq {d \in Component : system_health'[d] # "none"}
    BY <1>8, <2>1 DEF DemoInsert, SetStatus, TypeOK, Status
  <2> QED
    BY <1>8, <2>2, <2>3 DEF DemoInsert, TypeOK
<1>9. ASSUME NEW t \in Thread, DemoRow(t) PROVE TypeOK'
  <2> DEFINE c == request[t].component
  <2>1. c \in Component /\ request[t].status \in Status
    BY <1>9, AtWork DEF DemoRow, TypeOK
  <2>2. PICK m \in Message : request' = [request EXCEPT ![t] = m] /\ m.pc = "seen"
    <3>1. [request[t] EXCEPT !.pc = "seen"] \in Message
      BY <1>9, GoingOn DEF DemoRow, TypeOK
    <3>2. [request[t] EXCEPT !.pc = "seen"].pc = "seen"
      BY <1>9 DEF DemoRow, TypeOK, Message
    <3> QED
      BY <1>9, <3>1, <3>2 DEF DemoRow
  <2>3. /\ system_health' \in [Component -> Status \cup {"none"}]
        /\ written' \subseteq {d \in Component : system_health'[d] # "none"}
    BY <1>9, <2>1 DEF DemoRow, SetStatus, TypeOK, Status
  <2> QED
    BY <1>9, <2>2, <2>3 DEF DemoRow, TypeOK
<1>10. ASSUME NEW t \in Thread, DemoSeen(t) PROVE TypeOK'
  <2>1. Waiting("idle") \in Message /\ Waiting("idle").pc = "idle"
    BY Resting
  <2> QED
    BY <1>10, <2>1 DEF DemoSeen, TypeOK
<1>11. ASSUME NEW t \in Thread, DemoFails(t) PROVE TypeOK'
  <2>1. Waiting("idle") \in Message /\ Waiting("idle").pc = "idle"
    BY Resting
  <2>2. request[t].component \in Component
    BY <1>11, AtWork DEF DemoFails, TypeOK
  <2> QED
    BY <1>11, <2>1, <2>2 DEF DemoFails, TypeOK
<1>12. ASSUME NEW c \in Component, Age(c) PROVE TypeOK'
  BY <1>12 DEF Age, TypeOK
<1>13. ASSUME NEW c \in Component, NEW how \in {"silent", "impaired", "sound"}, Change(c, how)
       PROVE  TypeOK'
  BY <1>13 DEF Change, TypeOK
<1>14. CASE Restart
  <2>1. PICK up \in BOOLEAN : Started(up)
    BY <1>14 DEF Restart
  <2>2. /\ listener' \in Message
        /\ listener'.pc = IF up THEN "idle" ELSE "off"
        /\ Waiting("idle") \in Message /\ Waiting("idle").pc = "idle"
    BY <2>1, Resting DEF Started
  <2> QED
    BY <1>14, <2>1, <2>2 DEF Restart, Started, TypeOK
<1>15. CASE UNCHANGED healthVars
  BY <1>15 DEF healthVars, TypeOK
<1> QED
  BY <1>1, <1>2, <1>3, <1>4, <1>5, <1>6, <1>7, <1>8, <1>9, <1>10, <1>11, <1>12, <1>13,
     <1>14, <1>15
  DEF Next, Listening, Watching, Surroundings, Serving

(* Types of the row, the dictionary and the threads that share them: a round   *)
(* is under way exactly while late components are left, each of which has an  *)
(* entry, and without a connection neither thread of the handler runs.        *)
THEOREM HealthTypeCorrect == Spec => []TypeOK
  BY InitType, NextType, PTL DEF Spec

-----------------------------------------------------------------------------
(* The dictionary is ahead of the row in the network thread, and behind it in  *)
(* a demo request: only the latter may have written a row without an entry.   *)
HeardIsSeen ==
    listener.pc = "row" => _last_health_seen[listener.component] # "never"

(* Only a demo heartbeat broken off between its statements leaves a row that   *)
(* the monitor cannot know.                                                   *)
OnlineIsKnown ==
    \A c \in written \ cut : system_health[c] = "ONLINE" => Known(c)

(* It takes a failing statement to break one off, or to end the monitor.       *)
FaultsCount == monitor = "dead" \/ cut # {} => faults > 0

WatchInv == HeardIsSeen /\ OnlineIsKnown /\ FaultsCount

LEMMA InitWatch == Init => WatchInv
  BY DEF Init, WatchInv, HeardIsSeen, OnlineIsKnown, FaultsCount, Waiting

(* Steps that fail no statement.                                              *)
LEMMA FaultsStay ==
  ASSUME FaultsCount, UNCHANGED faults, cut' \subseteq cut,
         monitor' = "dead" => monitor = "dead"
  PROVE  FaultsCount'
  BY DEF FaultsCount

LEMMA NextWatch == TypeOK /\ WatchInv /\ [Next]_healthVars => WatchInv'
<1> SUFFICES ASSUME TypeOK, HeardIsSeen, OnlineIsKnown, FaultsCount, [Next]_healthVars
             PROVE  WatchInv'
  BY DEF WatchInv
<1> USE DEF watchVars, boundVars
<1>1. ASSUME NEW c \in Component, Heard(c) PROVE WatchInv'
  <2>1. HeardIsSeen'
    BY <1>1 DEF Heard, TypeOK, HeardIsSeen
  <2>2. \A d \in Component : Known(d) => Known(d)'
    BY <1>1 DEF Heard, TypeOK, Known
  <2>3. Known(c)'
    BY <1>1 DEF Heard, TypeOK, Known
  <2>4. OnlineIsKnown'
    BY <1>1, <2>2, <2>3 DEF Heard, TypeOK, OnlineIsKnown
  <2>5. FaultsCount'
    BY <1>1, FaultsStay DEF Heard
  <2> QED
    BY <2>1, <2>4, <2>5 DEF WatchInv
<1>2. CASE HeardRow
  <2>1. listener.component \in Component
    BY <1>2, AtWork DEF HeardRow, TypeOK
  <2>2. HeardIsSeen'
    BY <1>2 DEF HeardRow, HeardIsSeen, Waiting
  <2>3. \A c \in Component : c # listener.component => system_health'[c] = system_health[c]
    BY <1>2, <2>1 DEF HeardRow, SetStatus, TypeOK
  <2>4. \A d \in Component : Known(d)' <=> Known(d)
    BY <1>2 DEF HeardRow, Known
  <2>5. Known(listener.component)
    BY <1>2 DEF HeardRow, HeardIsSeen, Known
  <2>6. written' = written \cup {listener.component} /\ cut' = cut
        /\ written \subseteq Component
    BY <1>2 DEF HeardRow, TypeOK
  <2>7. OnlineIsKnown'
    <3> SUFFICES ASSUME NEW d \in written' \ cut', system_health'[d] = "ONLINE"
                 PROVE  Known(d)'
      BY DEF OnlineIsKnown
    <3>1. CASE d = listener.component
      BY <3>1, <2>1, <2>4, <2>5
    <3>2. CASE d # listener.component
      BY <3>2, <2>3, <2>4, <2>6 DEF OnlineIsKnown
    <3> QED
      BY <3>1, <3>2
  <2>8. FaultsCount'
    BY <1>2, FaultsStay DEF HeardRow
  <2> QED
    BY <2>2, <2>7, <2>8 DEF WatchInv
<1>3. CASE HeardFails \/ MonitorFails
  <2>1. faults' > 0
    BY <1>3 DEF HeardFails, MonitorFails, TypeOK
  <2>2. HeardIsSeen'
    BY <1>3 DEF HeardFails, MonitorFails, HeardIsSeen, Waiting
  <2>3. OnlineIsKnown'
    BY <1>3 DEF HeardFails, MonitorFails, OnlineIsKnown, Known
  <2> QED
    BY <2>1, <2>2, <2>3 DEF WatchInv, FaultsCount
<1>4. ASSUME NEW t \in Thread, DemoFails(t) PROVE WatchInv'
  <2>1. faults' > 0
    BY <1>4 DEF DemoFails, TypeOK
  <2>2. HeardIsSeen'
    BY <1>4 DEF DemoFails, HeardIsSeen
  <2>3. \A v \in Thread : v # t => request'[v] = request[v]
    BY <1>4 DEF DemoFails, TypeOK
  <2>4. \A d \in Component : Known(d) /\ d \notin cut' => Known(d)'
    BY <1>4, <2>3 DEF DemoFails, Known
  <2>5. OnlineIsKnown'
    <3>1. written' = written /\ written \subseteq Component /\ cut \subseteq cut'
          /\ system_health' = system_health
      BY <1>4 DEF DemoFails, TypeOK
    <3> QED
      BY <3>1, <2>4 DEF OnlineIsKnown
  <2> QED
    BY <2>1, <2>2, <2>5 DEF WatchInv, FaultsCount
<1>5. CASE StartRound
  BY <1>5 DEF StartRound, WatchInv, HeardIsSeen, OnlineIsKnown, FaultsCount, Known
<1>6. ASSUME NEW c \in Component, DeclareOffline(c) PROVE WatchInv'
  <2>1. \A d \in Component : system_health'[d] = "ONLINE" => system_health[d] = "ONLINE"
    BY <1>6 DEF DeclareOffline, SetStatus, TypeOK
  <2>2. HeardIsSeen'
    BY <1>6 DEF DeclareOffline, HeardIsSeen
  <2>3. OnlineIsKnown'
    BY <1>6, <2>1 DEF DeclareOffline, TypeOK, OnlineIsKnown, Known
  <2>4. FaultsCount'
    BY <1>6, FaultsStay DEF DeclareOffline
  <2> QED
    BY <2>2, <2>3, <2>4 DEF WatchInv
<1>7. ASSUME NEW t \in Thread, NEW c \in Component, DemoBeat(t, c) PROVE WatchInv'
  <2>1. \A v \in Thread : request[v].pc # "idle" => request'[v] = request[v]
    BY <1>7 DEF DemoBeat, TypeOK
  <2>2. \A d \in Component : Known(d) => Known(d)'
    BY <1>7, <2>1 DEF DemoBeat, Known
  <2>3. HeardIsSeen' /\ FaultsCount'
    BY <1>7 DEF DemoBeat, HeardIsSeen, FaultsCount
  <2>4. OnlineIsKnown'
    BY <1>7, <2>2 DEF DemoBeat, TypeOK, OnlineIsKnown
  <2> QED
    BY <2>3, <2>4 DEF WatchInv
<1>8. ASSUME NEW t \in Thread, DemoInsert(t) PROVE WatchInv'
  <2>1. PICK c \in Component : c = request[t].component
    BY <1>8, AtWork DEF DemoInsert, TypeOK
  <2>2. \A v \in Thread : request[v].pc # "insert" => request'[v] = request[v]
    BY <1>8 DEF DemoInsert, TypeOK
  <2>3. \A d \in Component : Known(d) => Known(d)'
    BY <1>8, <2>2 DEF DemoInsert, Known
  <2>4. HeardIsSeen' /\ FaultsCount'
    BY <1>8 DEF DemoInsert, HeardIsSeen, FaultsCount
  <2>5. CASE system_health[c] = "none"
    <3>1. request'[t].pc = "row" /\ request'[t].component = c
      BY <1>8, <2>1, <2>5 DEF DemoInsert, TypeOK, Message
    <3>2. Known(c)'
      BY <3>1 DEF Known
    <3>3. /\ \A d \in Component : d # c => system_health'[d] = system_health[d]
          /\ written' = written \cup {c} /\ written \subseteq Component /\ cut' = cut
      BY <1>8, <2>1, <2>5 DEF DemoInsert, SetStatus, TypeOK
    <3>4. ASSUME NEW d \in written' \ cut', system_health'[d] = "ONLINE" PROVE Known(d)'
      BY <2>1, <2>3, <3>2, <3>3, <3>4 DEF OnlineIsKnown
    <3> QED
      BY <2>4, <3>4 DEF WatchInv, OnlineIsKnown
  <2>6. CASE system_health[c] # "none"
    <3>1. OnlineIsKnown'
      BY <1>8, <2>1, <2>3, <2>6 DEF DemoInsert, TypeOK, OnlineIsKnown
    <3> QED
      BY <2>4, <3>1 DEF WatchInv
  <2> QED
    BY <2>5, <2>6
<1>9. ASSUME NEW t \in Thread, DemoRow(t) PROVE WatchInv'
  <2>1. PICK c \in Component : c = request[t].component
    BY <1>9, AtWork DEF DemoRow, TypeOK
  <2>2. \A v \in Thread : v # t => request'[v] = request[v]
    BY <1>9 DEF DemoRow, TypeOK
  <2>3. request'[t].pc = "seen" /\ request'[t].component = c
    BY <1>9, <2>1 DEF DemoRow, TypeOK, Message
  <2>4. Known(c)' /\ \A d \in Component : Known(d) => Known(d)'
    BY <1>9, <2>2, <2>3 DEF DemoRow, Known
  <2>5. /\ \A d \in Component : d # c => system_health'[d] = system_health[d]
        /\ written' = written \cup {c} /\ written \subseteq Component /\ cut' = cut
    BY <1>9, <2>1 DEF DemoRow, SetStatus, TypeOK
  <2>6. HeardIsSeen' /\ FaultsCount'
    BY <1>9 DEF DemoRow, HeardIsSeen, FaultsCount
  <2>7. ASSUME NEW d \in written' \ cut', system_health'[d] = "ONLINE" PROVE Known(d)'
    BY <2>1, <2>4, <2>5, <2>7 DEF OnlineIsKnown
  <2> QED
    BY <2>6, <2>7 DEF WatchInv, OnlineIsKnown
<1>10. ASSUME NEW t \in Thread, DemoSeen(t) PROVE WatchInv'
  <2>1. PICK c \in Component : c = request[t].component
    BY <1>10, AtWork DEF DemoSeen, TypeOK
  <2>2. \A v \in Thread : v # t => request'[v] = request[v]
    BY <1>10 DEF DemoSeen, TypeOK
  <2>3. \A d \in Component : _last_health_seen'[d] =
            IF d = c THEN "recent" ELSE _last_health_seen[d]
    BY <1>10, <2>1 DEF DemoSeen, TypeOK
  <2>4. UNCHANGED <<system_health, listener, written>> /\ cut' = cut \ {c}
    BY <1>10, <2>1 DEF DemoSeen
  <2>5. \A d \in Component : d = c \/ Known(d) => Known(d)'
    BY <2>1, <2>2, <2>3 DEF Known
  <2>6. HeardIsSeen'
    <3>1. listener.pc = "row" => listener.component \in Component
      BY AtWork DEF TypeOK
    <3> QED
      BY <2>3, <2>4, <3>1 DEF HeardIsSeen
  <2>7. OnlineIsKnown'
    BY <2>4, <2>5 DEF TypeOK, OnlineIsKnown
  <2>8. FaultsCount'
    BY <1>10, FaultsStay DEF DemoSeen
  <2> QED
    BY <2>6, <2>7, <2>8 DEF WatchInv
<1>11. ASSUME NEW c \in Component, Age(c) PROVE WatchInv'
  <2>1. \A d \in Component : _last_health_seen[d] # "never" => _last_health_seen'[d] # "never"
    BY <1>11 DEF Age, TypeOK
  <2>2. HeardIsSeen' /\ FaultsCount'
    <3>1. listener.pc = "row" => listener.component \in Component
      BY AtWork DEF TypeOK
    <3> QED
      BY <1>11, <2>1, <3>1 DEF Age, HeardIsSeen, FaultsCount
  <2>3. OnlineIsKnown'
    BY <1>11, <2>1 DEF Age, TypeOK, OnlineIsKnown, Known
  <2> QED
    BY <2>2, <2>3 DEF WatchInv
<1>12. ASSUME NEW c \in Component, NEW how \in {"silent", "impaired", "sound"}, Change(c, how)
       PROVE  WatchInv'
  BY <1>12 DEF Change, WatchInv, HeardIsSeen, OnlineIsKnown, FaultsCount, Known
<1>13. CASE Restart
  <2>1. /\ written' = {} /\ cut' = {} /\ listener'.pc # "row" /\ monitor' # "dead"
    BY <1>13 DEF Restart, Started, Waiting
  <2> QED
    BY <2>1 DEF WatchInv, HeardIsSeen, OnlineIsKnown, FaultsCount
<1>14. CASE UNCHANGED healthVars
  BY <1>14 DEF healthVars, WatchInv, HeardIsSeen, OnlineIsKnown, FaultsCount, Known
<1> QED
  BY <1>1, <1>2, <1>3, <1>4, <1>5, <1>6, <1>7, <1>8, <1>9, <1>10, <1>11, <1>12, <1>13,
     <1>14
  DEF Next, Listening, Watching, Surroundings, Serving

(* Every row this process wrote ONLINE is known to a monitor that runs, or     *)
(* about to be, for any number of components and demo requests; without a     *)
(* failing statement the only other case is a server started without a broker. *)
THEOREM WatchedHolds == Spec => []OnlineIsWatched
<1>1. TypeOK /\ WatchInv => OnlineIsWatched
  <2> SUFFICES ASSUME TypeOK, WatchInv, NEW c \in written, system_health[c] = "ONLINE"
               PROVE  \/ monitor \in {"wait", "round"} /\ Known(c)
                      \/ monitor = "off"
                      \/ faults > 0 /\ (monitor = "dead" \/ c \in cut)
    BY DEF OnlineIsWatched
  <2>1. monitor \in {"off", "wait", "round", "dead"}
    BY DEF TypeOK
  <2>2. c \notin cut => Known(c)
    BY DEF WatchInv, OnlineIsKnown
  <2>3. monitor = "dead" \/ c \in cut => faults > 0
    BY DEF WatchInv, FaultsCount
  <2> QED
    BY <2>1, <2>2, <2>3
<1> QED
  BY <1>1, InitType, NextType, InitWatch, NextWatch, PTL DEF Spec
=============================================================================
