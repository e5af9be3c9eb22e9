----------------------------- MODULE HealthMonitor -----------------------------
(***************************************************************************)
(* Which components the dashboard shows as ONLINE.  Three kinds of threads *)
(* of the server process share the table system_health and the dictionary  *)
(* _last_health_seen, without a lock: the network thread of paho, which    *)
(* runs the handlers of heartbeats (server/mqtt_handler.py), the request   *)
(* threads of the demo heartbeat (server/routes.py), and the monitor       *)
(* thread, which every 30 seconds writes OFFLINE for each component of the *)
(* dictionary that was last heard more than 90 seconds ago.  The table is  *)
(* stored; the dictionary ends with the process.                           *)
(*                                                                         *)
(* Times are reduced to what the monitor tells apart: "recent" becomes     *)
(* "old" when nothing of a component is heard for 90 seconds.  A handler   *)
(* takes far less than that (a statement gives up on a locked database     *)
(* after 5), so an entry does not age while its component is being heard.  *)
(***************************************************************************)
EXTENDS Naturals

CONSTANTS Component,   \* names such as booth:BOOTH001
          Thread,      \* threads that serve HTTP requests
          MaxRestarts, \* bound on the ends of the server process
          MaxFaults    \* bound on failing statements

ASSUME HealthAssumption == MaxRestarts \in Nat /\ MaxFaults \in Nat

VARIABLES system_health,     \* the status column, "none" without a row
          _last_health_seen, \* the dictionary, "never" without an entry
          monitor,           \* the monitor thread, "off" or "dead" when there is none
          overdue,           \* components of this round still to be written OFFLINE
          listener,          \* the network thread and the message it handles
          request            \* the request each HTTP thread serves

VARIABLES condition,  \* what arrives from a component, if anything
          written,    \* history: rows written by a handler of this process
          cut,        \* history: those whose demo heartbeat was broken off last
          restarts,   \* history: number of ends of the process
          faults      \* history: number of failing statements

watchVars == <<monitor, overdue>>
boundVars == <<restarts, faults>>
healthVars == <<system_health, _last_health_seen, watchVars, listener, request,
                condition, written, cut, boundVars>>

Status == {"ONLINE", "OFFLINE"}
Nothing == "nothing"
Message == [pc : {"idle", "off", "dead"}, component : {Nothing}, status : {Nothing}]
           \cup [pc : {"row", "insert", "seen"}, component : Component, status : Status]
Waiting(how) == [pc |-> how, component |-> Nothing, status |-> Nothing]

TypeOK ==
    /\ system_health \in [Component -> Status \cup {"none"}]
    /\ _last_health_seen \in [Component -> {"never", "recent", "old"}]
    /\ monitor \in {"off", "wait", "round", "dead"}
    /\ overdue \subseteq {c \in Component : _last_health_seen[c] # "never"}
    /\ (overdue # {}) <=> (monitor = "round")
    /\ listener \in Message /\ listener.pc \in {"idle", "row", "off", "dead"}
    /\ (listener.pc = "off") <=> (monitor = "off")
    /\ request \in [Thread -> Message]
    /\ \A t \in Thread : request[t].pc \notin {"off", "dead"}
    /\ condition \in [Component -> {"silent", "impaired", "sound"}]
    /\ written \subseteq {c \in Component : system_health[c] # "none"}
    /\ cut \subseteq Component
    /\ restarts \in Nat /\ faults \in Nat

(* Mutant: the monitor is started before the connection is tried.             *)
StartedMonitorFirst(up) ==
    /\ _last_health_seen' = [c \in Component |-> "never"]
    /\ monitor' = "wait"
    /\ listener' = Waiting(IF up THEN "idle" ELSE "off")

(* The state of a process whose start_mqtt_client has returned: without a      *)
(* broker neither its network loop nor the monitor runs.                      *)
Started(up) ==
    /\ _last_health_seen' = [c \in Component |-> "never"]
    /\ monitor' = IF up THEN "wait" ELSE "off"
    /\ listener' = Waiting(IF up THEN "idle" ELSE "off")

Init ==
    /\ system_health = [c \in Component |-> "none"]
    /\ _last_health_seen = [c \in Component |-> "never"]
    /\ monitor = "wait" /\ overdue = {}
    /\ listener = Waiting("idle")
    /\ request = [t \in Thread |-> Waiting("idle")]
    /\ condition = [c \in Component |-> "silent"]
    /\ written = {} /\ cut = {} /\ restarts = 0 /\ faults = 0

-----------------------------------------------------------------------------
(* update_component_status: inserted, or updated on conflict.                 *)
SetStatus(c, status) ==
    system_health' = [system_health EXCEPT ![c] = status]

(* What a heartbeat of c says: ONLINE only with both links CONNECTED.         *)
Reported(c) == IF condition[c] = "sound" THEN "ONLINE" ELSE "OFFLINE"

-----------------------------------------------------------------------------
(* The network thread: _on_message, _handle_health, _handle_booth_heartbeat.  *)

(* Mutant: an entry is made only once (setdefault).                           *)
HeardFirst(c) ==
    /\ listener.pc = "idle"
    /\ condition[c] # "silent"
    /\ _last_health_seen' = [_last_health_seen EXCEPT
                                ![c] = IF @ = "never" THEN "recent" ELSE @]
    /\ listener' = [pc |-> "row", component |-> c, status |-> Reported(c)]
    /\ cut' = cut \ {c}
    /\ UNCHANGED <<system_health, watchVars, request, condition, written, boundVars>>

(* Mutant: the handler does not enter the time.                               *)
HeardUnnoted(c) ==
    /\ listener.pc = "idle"
    /\ condition[c] # "silent"
    /\ listener' = [pc |-> "row", component |-> c, status |-> Reported(c)]
    /\ cut' = cut \ {c}
    /\ UNCHANGED <<system_health, _last_health_seen, watchVars, request, condition,
                   written, boundVars>>

(* A heartbeat arrives; its time is entered before its row is written.        *)
Heard(c) ==
    /\ listener.pc = "idle"
    /\ condition[c] # "silent"
    /\ _last_health_seen' = [_last_health_seen EXCEPT ![c] = "recent"]
    /\ listener' = [pc |-> "row", component |-> c, status |-> Reported(c)]
    /\ cut' = cut \ {c}
    /\ UNCHANGED <<system_health, watchVars, request, condition, written, boundVars>>

HeardRow ==
    /\ listener.pc = "row"
    /\ SetStatus(listener.component, listener.status)
    /\ written' = written \cup {listener.component}
    /\ listener' = Waiting("idle")
    /\ UNCHANGED <<_last_health_seen, watchVars, request, condition, cut, boundVars>>

(* The statement raises and so does the callback.  What paho makes of that is *)
(* not decided here: its thread goes on or ends.                              *)
HeardFails ==
    /\ listener.pc = "row"
    /\ faults < MaxFaults /\ faults' = faults + 1
    /\ \E pc \in {"idle", "dead"} : listener' = Waiting(pc)
    /\ UNCHANGED <<system_health, _last_health_seen, watchVars, request, condition,
                   written, cut, restarts>>

-----------------------------------------------------------------------------
(* The monitor thread: _health_monitor_loop.                                  *)

(* A round reads the clock and copies the dictionary, then looks at the copy. *)
StartRound ==
    /\ monitor = "wait"
    /\ overdue' = {c \in Component : _last_health_seen[c] = "old"}
    /\ overdue' # {}
    /\ monitor' = "round"
    /\ UNCHANGED <<system_health, _last_health_seen, listener, request, condition,
                   written, cut, boundVars>>

(* Mutant: the round ends after its first late component.                     *)
DeclareFirst(c) ==
    /\ c \in overdue
    /\ SetStatus(c, "OFFLINE")
    /\ overdue' = {}
    /\ monitor' = "wait"
    /\ UNCHANGED <<_last_health_seen, listener, request, condition, written, cut,
                   boundVars>>

DeclareOffline(c) ==
    /\ c \in overdue
    /\ SetStatus(c, "OFFLINE")
    /\ overdue' = overdue \ {c}
    /\ monitor' = IF overdue' = {} THEN "wait" ELSE "round"
    /\ UNCHANGED <<_last_health_seen, listener, request, condition, written, cut,
                   boundVars>>

(* A failing statement ends the thread: the loop has no try.                  *)
MonitorFails ==
    /\ monitor = "round"
    /\ faults < MaxFaults /\ faults' = faults + 1
    /\ monitor' = "dead" /\ overdue' = {}
    /\ UNCHANGED <<system_health, _last_health_seen, listener, request, condition,
                   written, cut, restarts>>

-----------------------------------------------------------------------------
(* The demo heartbeat, api_demo_booth_heartbeat.                              *)

(* SELECT: without a row one is inserted first.                               *)
DemoBeat(t, c) ==
    /\ request[t].pc = "idle"
    /\ condition[c] # "silent"
    /\ request' = [request EXCEPT ![t] =
            [pc |-> IF system_health[c] = "none" THEN "insert" ELSE "row",
             component |-> c, status |-> Reported(c)]]
    /\ UNCHANGED <<system_health, _last_health_seen, watchVars, listener, condition,
                   written, cut, boundVars>>

(* INSERT, refused by the primary key when another thread was faster: the     *)
(* request then ends with status 500.                                         *)
DemoInsert(t) ==
    LET c == request[t].component IN
    /\ request[t].pc = "insert"
    /\ \/ /\ system_health[c] = "none"
          /\ SetStatus(c, request[t].status)
          /\ written' = written \cup {c}
          /\ request' = [request EXCEPT ![t].pc = "row"]
       \/ /\ system_health[c] # "none"
          /\ request' = [request EXCEPT ![t] = Waiting("idle")]
          /\ UNCHANGED <<system_health, written>>
    /\ UNCHANGED <<_last_health_seen, watchVars, listener, condition, cut, boundVars>>

DemoRow(t) ==
    /\ request[t].pc = "row"
    /\ SetStatus(request[t].component, request[t].status)
    /\ written' = written \cup {request[t].component}
    /\ request' = [request EXCEPT ![t].pc = "seen"]
    /\ UNCHANGED <<_last_health_seen, watchVars, listener, condition, cut, boundVars>>

(* Here the time follows the row.                                             *)
DemoSeen(t) ==
    /\ request[t].pc = "seen"
    /\ _last_health_seen' = [_last_health_seen EXCEPT ![request[t].component] = "recent"]
    /\ request' = [request EXCEPT ![t] = Waiting("idle")]
    /\ cut' = cut \ {request[t].component}
    /\ UNCHANGED <<system_health, watchVars, listener, condition, written, boundVars>>

(* A statement raises: 500, and what was stored stays.  Between the two        *)
(* statements that is a row which is not in the dictionary.                   *)
DemoFails(t) ==
    /\ request[t].pc \in {"insert", "row"}
    /\ faults < MaxFaults /\ faults' = faults + 1
    /\ cut' = IF request[t].pc = "row" THEN cut \cup {request[t].component} ELSE cut
    /\ request' = [request EXCEPT ![t] = Waiting("idle")]
    /\ UNCHANGED <<system_health, _last_health_seen, watchVars, listener, condition,
                   written, restarts>>

-----------------------------------------------------------------------------
(* The surroundings.                                                          *)

Change(c, how) ==
    /\ condition' = [condition EXCEPT ![c] = how]
    /\ UNCHANGED <<system_health, _last_health_seen, watchVars, listener, request,
                   written, cut, boundVars>>

ListenerUp == listener.pc \in {"idle", "row"}
BeingHeard(c) ==
    \/ listener.component = c
    \/ \E t \in Thread : request[t].component = c

(* 90 seconds without a heartbeat of c.                                       *)
Age(c) ==
    /\ _last_health_seen[c] = "recent"
    /\ condition[c] = "silent" \/ ~ListenerUp
    /\ ~BeingHeard(c)
    /\ _last_health_seen' = [_last_health_seen EXCEPT ![c] = "old"]
    /\ UNCHANGED <<system_health, watchVars, listener, request, condition, written,
                   cut, boundVars>>

(* The process ends anywhere and is started again, with a broker or without.  *)
Restart ==
    /\ restarts < MaxRestarts /\ restarts' = restarts + 1
    /\ \E up \in BOOLEAN : Started(up)
    /\ overdue' = {}
    /\ request' = [t \in Thread |-> Waiting("idle")]
    /\ written' = {} /\ cut' = {}
    /\ UNCHANGED <<system_health, condition, faults>>

-----------------------------------------------------------------------------
Listening == \/ \E c \in Component : Heard(c)
             \/ HeardRow \/ HeardFails
Watching == \/ StartRound \/ MonitorFails
            \/ \E c \in Component : DeclareOffline(c)
Serving(t) == \/ \E c \in Component : DemoBeat(t, c)
              \/ DemoInsert(t) \/ DemoRow(t) \/ DemoSeen(t) \/ DemoFails(t)
Surroundings == \/ \E c \in Component : Age(c)
                \/ \E c \in Component, how \in {"silent", "impaired", "sound"} : Change(c, how)
                \/ Restart

Next == Listening \/ Watching \/ Surroundings \/ \E t \in Thread : Serving(t)

(* Every thread goes on; messages are handled in the order they come, so the  *)
(* next heartbeat of a component that keeps sending gets its turn (SF); time  *)
(* passes.  Nothing is assumed of restarts, faults, demo requests, or of the  *)
(* components.                                                                *)
Fairness ==
    /\ \A c \in Component : SF_healthVars(Heard(c)) /\ WF_healthVars(Age(c))
    /\ WF_healthVars(HeardRow)
    /\ WF_healthVars(StartRound)
    /\ WF_healthVars(\E c \in Component : DeclareOffline(c))
    /\ \A t \in Thread : WF_healthVars(DemoInsert(t) \/ DemoRow(t) \/ DemoSeen(t))

Spec == Init /\ [][Next]_healthVars
FairSpec == Spec /\ Fairness

-----------------------------------------------------------------------------
(* In the dictionary, or in the hands of a demo request that will enter it.    *)
Known(c) ==
    \/ _last_health_seen[c] # "never"
    \/ \E t \in Thread : request[t].component = c /\ request[t].pc \in {"row", "seen"}

(* A row that this process wrote ONLINE is watched: a monitor runs and knows   *)
(* the component, although the two writers use opposite orders and the insert *)
(* of the demo request commits on its own.  There are three ways out and no   *)
(* other: the server was started without a broker and has no monitor, a        *)
(* failing statement ended the monitor, or one broke off a demo heartbeat of   *)
(* this component between its two statements, and nothing was heard since.    *)
OnlineIsWatched ==
    \A c \in written : system_health[c] = "ONLINE" =>
        \/ monitor \in {"wait", "round"} /\ Known(c)
        \/ monitor = "off"
        \/ faults > 0 /\ (monitor = "dead" \/ c \in cut)

(* README: a component is marked OFFLINE when its heartbeat is absent.  It     *)
(* holds of one that was heard since the last restart and is then silent for  *)
(* good, as long as the monitor thread lives, whatever the handlers were doing *)
(* when the round was taken, because a round never forgets a late component.  *)
GoneIsNoticed ==
    \A c \in Component :
        <>[](/\ condition[c] = "silent" /\ _last_health_seen[c] # "never"
             /\ monitor \in {"wait", "round"})
        => <>[](system_health[c] = "OFFLINE")

(* A component that keeps sending with both links CONNECTED ends up ONLINE and *)
(* stays so: the OFFLINE a round still writes from its old copy, or a slow     *)
(* demo request with an older report, is repaired by the next heartbeat, and   *)
(* no later round finds the component late.                                   *)
KeepsOnline ==
    \A c \in Component :
        <>[](condition[c] = "sound" /\ ListenerUp) => <>[](system_health[c] = "ONLINE")
=============================================================================
