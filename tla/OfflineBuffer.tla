---------------------------- MODULE OfflineBuffer ----------------------------
(***************************************************************************)
(* The Python booth without its network (booth/offline_buffer.py): votes    *)
(* wait in the file buffered_votes.json.  The thread of the menu appends to *)
(* it; a retry thread reads it every 10 seconds, submits each vote with     *)
(* _publish_payload (booth/vote_sender.py) and writes back what was not     *)
(* accepted.  Both rewrite the whole file through one temporary name, and   *)
(* neither holds a lock.                                                    *)
(*                                                                         *)
(* A file is modelled as POSIX has it: two writers that opened the name at  *)
(* the same time share the file and overwrite each other from its first     *)
(* byte, and os.replace moves it away under an open handle.  What the       *)
(* process hands to the operating system survives the end of the process.   *)
(* The server is reduced to the promise of BallotBox: it counts a vote when *)
(* the election is open and the voter has no ballot yet.                    *)
(***************************************************************************)
EXTENDS Naturals, Sequences, Functions

CONSTANTS Vote,      \* payloads, each with a message_id of its own
          Voter,
          voter_id,  \* the voter of a payload
          SlowServer, \* an answer may come too late although online
          MaxFaults  \* bound on crashes and failing writes

ASSUME BufferAssumption ==
    /\ voter_id \in [Vote -> Voter]
    /\ SlowServer \in BOOLEAN /\ MaxFaults \in Nat

VARIABLES pc,        \* where each thread is
          items,     \* the list each of them writes: items, or remaining
          handle,    \* name of the file each has open for writing
          disk,      \* contents by name
          todo,      \* the votes of this round, the first one being submitted
          answer     \* the status of the response to that one

VARIABLES sent,      \* votes handed to the broker, which may deliver again
          counted,   \* votes the server accepted
          has_voted, \* voters who have a ballot, from this booth or another
          online,    \* broker and server are reachable
          open       \* the election is ACTIVE

VARIABLES given,     \* history: votes given to save_vote
          saved,     \* history: those whose file was written, in this order
          faults     \* history: number of faults

threadVars == <<pc, items, handle, todo, answer>>
serverVars == <<sent, counted, has_voted>>
linkVars == <<online, open>>
historyVars == <<given, saved, faults>>
bufferVars == <<threadVars, disk, serverVars, linkVars, historyVars>>

Writer == {"menu", "retry"}
Name == {"path", "tmp"}

(* The text of a file: a list of votes, or something json.load refuses.      *)
Content == [kind : {"absent", "empty", "list", "broken"}, list : Seq(Vote)]
Absent == [kind |-> "absent", list |-> <<>>]
Empty  == [kind |-> "empty", list |-> <<>>]
Broken == [kind |-> "broken", list |-> <<>>]
Json(s) == [kind |-> "list", list |-> s]

TypeOK ==
    /\ pc \in [Writer -> {"idle", "next", "wait", "open", "flush", "replace"}]
    /\ items \in [Writer -> Seq(Vote)]
    /\ pc["menu"] # "idle" => items["menu"] # <<>>
    /\ handle \in [Writer -> Name \cup {"closed", "unlinked"}]
    /\ \A w \in Writer : handle[w] # "closed" => pc[w] = "flush"
    /\ disk \in [Name -> Content]
    /\ \A f \in Name : disk[f].kind # "list" => disk[f].list = <<>>
    /\ todo \in Seq(Vote)
    /\ pc["retry"] = "wait" => todo # <<>>
    /\ answer \in {"none", "accepted", "rejected"}
    /\ sent \subseteq Vote /\ counted \subseteq Vote /\ has_voted \subseteq Voter
    /\ online \in BOOLEAN /\ open \in BOOLEAN
    /\ given \subseteq Vote /\ saved \in Seq(Vote) /\ faults \in Nat

(* The booth starts; an earlier run left the votes s, some of them submitted.  *)
StartWith(s) ==
    /\ pc = [w \in Writer |-> "idle"]
    /\ items = [w \in Writer |-> <<>>]
    /\ handle = [w \in Writer |-> "closed"]
    /\ disk = [f \in Name |-> IF f = "path" THEN Json(s) ELSE Absent]
    /\ todo = <<>> /\ answer = "none"
    /\ sent \in SUBSET Range(s) /\ counted = {} /\ has_voted = {}
    /\ online = FALSE /\ open = TRUE
    /\ given = Range(s) /\ saved = s /\ faults = 0

Init == StartWith(<<>>)

-----------------------------------------------------------------------------
(* _write_buffer: open the temporary name, write, rename.                    *)

(* Mutant: the file itself is opened instead of the temporary one.            *)
OpenInPlace(w) ==
    /\ pc[w] = "open"
    /\ pc' = [pc EXCEPT ![w] = "flush"]
    /\ handle' = [handle EXCEPT ![w] = "path"]
    /\ disk' = [disk EXCEPT !["path"] = Empty]
    /\ UNCHANGED <<items, todo, answer, serverVars, linkVars, historyVars>>

OpenTmp(w) ==
    /\ pc[w] = "open"
    /\ pc' = [pc EXCEPT ![w] = "flush"]
    /\ handle' = [handle EXCEPT ![w] = "tmp"]
    /\ disk' = [disk EXCEPT !["tmp"] = Empty]
    /\ UNCHANGED <<items, todo, answer, serverVars, linkVars, historyVars>>

(* The text s written over the text c: what is longer shows behind it.        *)
Over(s, c) ==
    CASE c.kind = "broken" -> {Json(s), Broken}
      [] c.kind = "list" /\ Len(c.list) > Len(s) -> {Broken}
      [] c.kind = "list" /\ Len(c.list) = Len(s) -> {Json(s), Broken}
      [] OTHER -> {Json(s)}

(* json.dump, flush and close.                                               *)
Flush(w) ==
    /\ pc[w] = "flush"
    /\ pc' = [pc EXCEPT ![w] = "replace"]
    /\ handle' = [handle EXCEPT ![w] = "closed"]
    /\ \/ /\ handle[w] \in Name
          /\ \E c \in Over(items[w], disk[handle[w]]) :
                disk' = [disk EXCEPT ![handle[w]] = c]
       \/ handle[w] = "unlinked" /\ UNCHANGED disk
    /\ UNCHANGED <<items, todo, answer, serverVars, linkVars, historyVars>>

(* The end of _write_buffer.  The menu thread has stored its vote; that the   *)
(* audit row after it may fail is only logged.                               *)
EndWrite(w) ==
    /\ pc' = [pc EXCEPT ![w] = "idle"]
    /\ items' = [items EXCEPT ![w] = <<>>]
    /\ UNCHANGED <<todo, answer, serverVars, linkVars, given>>

(* Path.replace, with FileNotFoundError when the other writer was first.      *)
Replace(w) ==
    /\ pc[w] = "replace"
    /\ disk["tmp"].kind # "absent"
    /\ disk' = [disk EXCEPT !["path"] = disk["tmp"], !["tmp"] = Absent]
    /\ handle' = [u \in Writer |-> CASE handle[u] = "tmp" -> "path"
                                     [] handle[u] = "path" -> "unlinked"
                                     [] OTHER -> handle[u]]
    /\ saved' = IF w = "menu" THEN Append(saved, items[w][Len(items[w])]) ELSE saved
    /\ EndWrite(w)
    /\ UNCHANGED faults

(* Mutant: a missing temporary file is taken for success.                     *)
TmpGoneIgnored(w) ==
    /\ pc[w] = "replace"
    /\ disk["tmp"].kind = "absent"
    /\ saved' = IF w = "menu" THEN Append(saved, items[w][Len(items[w])]) ELSE saved
    /\ EndWrite(w)
    /\ UNCHANGED <<handle, disk, faults>>

TmpGone(w) ==
    /\ pc[w] = "replace"
    /\ disk["tmp"].kind = "absent"
    /\ EndWrite(w)
    /\ UNCHANGED <<handle, disk, saved, faults>>

WriteStep(w) == OpenTmp(w) \/ Flush(w) \/ Replace(w) \/ TmpGone(w)

-----------------------------------------------------------------------------
(* save_vote, called by the menu; a text that does not parse is read as [].   *)
SaveVote(p) ==
    /\ pc["menu"] = "idle"
    /\ p \notin given
    /\ given' = given \cup {p}
    /\ pc' = [pc EXCEPT !["menu"] = "open"]
    /\ items' = [items EXCEPT !["menu"] = Append(disk["path"].list, p)]
    /\ UNCHANGED <<handle, disk, todo, answer, serverVars, linkVars, saved, faults>>

(* _retry_once: nothing to do for an empty list.                             *)
ReadBuffer ==
    /\ pc["retry"] = "idle"
    /\ disk["path"].list # <<>>
    /\ pc' = [pc EXCEPT !["retry"] = "next"]
    /\ todo' = disk["path"].list
    /\ UNCHANGED <<items, handle, disk, answer, serverVars, linkVars, historyVars>>

(* The vote that was submitted is done with, or kept for the next round.      *)
Delivered ==
    /\ todo' = Tail(todo)
    /\ UNCHANGED items

(* Mutant: put back at the front.                                             *)
KeepInFront ==
    /\ todo' = Tail(todo)
    /\ items' = [items EXCEPT !["retry"] = <<Head(todo)>> \o @]

Keep ==
    /\ todo' = Tail(todo)
    /\ items' = [items EXCEPT !["retry"] = Append(@, Head(todo))]

NextVote ==
    /\ pc' = [pc EXCEPT !["retry"] = "next"]
    /\ answer' = "none"
    /\ UNCHANGED <<handle, disk, serverVars, linkVars, historyVars>>

ConnectFails ==
    /\ pc["retry"] = "next" /\ todo # <<>>
    /\ ~online
    /\ Keep
    /\ NextVote

Publish ==
    /\ pc["retry"] = "next" /\ todo # <<>>
    /\ pc' = [pc EXCEPT !["retry"] = "wait"]
    /\ sent' = sent \cup {Head(todo)}
    /\ UNCHANGED <<items, handle, todo, answer, disk, counted, has_voted,
                   linkVars, historyVars>>

(* Mutant: whatever was answered, the vote has been delivered.                *)
HandleAnyAnswer ==
    /\ pc["retry"] = "wait"
    /\ answer # "none"
    /\ Delivered
    /\ NextVote

(* Mutant: a round stops at the first vote that is not accepted.              *)
StopAtRefusal ==
    /\ pc["retry"] = "wait"
    /\ answer # "none"
    /\ IF answer = "accepted" THEN Delivered
       ELSE todo' = <<>> /\ items' = [items EXCEPT !["retry"] = @ \o todo]
    /\ NextVote

HandleAnswer ==
    /\ pc["retry"] = "wait"
    /\ answer # "none"
    /\ IF answer = "accepted" THEN Delivered ELSE Keep
    /\ NextVote

(* Five seconds without an answer.                                           *)
Timeout ==
    /\ pc["retry"] = "wait"
    /\ answer = "none" /\ (~online \/ SlowServer)
    /\ Keep
    /\ NextVote

RoundEnds ==
    /\ pc["retry"] = "next" /\ todo = <<>>
    /\ pc' = [pc EXCEPT !["retry"] = "open"]
    /\ UNCHANGED <<items, handle, disk, todo, answer, serverVars, linkVars,
                   historyVars>>

RetryStep ==
    \/ ReadBuffer \/ ConnectFails \/ Publish \/ HandleAnswer \/ Timeout
    \/ RoundEnds \/ WriteStep("retry")

-----------------------------------------------------------------------------
(* The server: process_vote as BallotBox has it.                             *)
Accepts(p) == open /\ voter_id[p] \notin has_voted

Count(p) ==
    /\ counted' = IF Accepts(p) THEN counted \cup {p} ELSE counted
    /\ has_voted' = IF Accepts(p) THEN has_voted \cup {voter_id[p]} ELSE has_voted
    /\ UNCHANGED <<pc, items, handle, todo, disk, sent, linkVars, historyVars>>

(* The request the booth waits for.  QoS 1 may deliver it twice, and the      *)
(* later response replaces the one that was not yet fetched.                 *)
ReceiveRequest ==
    /\ pc["retry"] = "wait"
    /\ Count(Head(todo))
    /\ answer' = IF ~online THEN answer
                 ELSE IF Accepts(Head(todo)) THEN "accepted" ELSE "rejected"

(* A delivery after the booth gave up; its response matches no request.       *)
ReceiveLate(p) ==
    /\ p \in sent
    /\ Count(p)
    /\ UNCHANGED answer

(* The voter uses another booth.                                             *)
VoteElsewhere(v) ==
    /\ open
    /\ has_voted' = has_voted \cup {v}
    /\ UNCHANGED <<threadVars, disk, sent, counted, linkVars, historyVars>>

LinkChanges ==
    /\ \/ online' = ~online /\ UNCHANGED open
       \/ open' = ~open /\ UNCHANGED online
    /\ UNCHANGED <<threadVars, disk, serverVars, historyVars>>

Network ==
    \/ ReceiveRequest
    \/ \E p \in Vote : ReceiveLate(p)
    \/ \E v \in Voter : VoteElsewhere(v)
    \/ LinkChanges

-----------------------------------------------------------------------------
Fault == faults < MaxFaults /\ faults' = faults + 1

(* Mutant: without the with statement a failing write leaves the file open.   *)
WriteFailsOpen(w) ==
    /\ pc[w] \in {"open", "flush", "replace"}
    /\ Fault
    /\ EndWrite(w)
    /\ \/ UNCHANGED disk
       \/ /\ handle[w] \in Name
          /\ disk' = [disk EXCEPT ![handle[w]] = Broken]
    /\ UNCHANGED <<handle, saved>>

(* An exception in _write_buffer, perhaps with part of the text written; the  *)
(* caller logs it and goes on.                                               *)
WriteFails(w) ==
    /\ pc[w] \in {"open", "flush", "replace"}
    /\ Fault
    /\ EndWrite(w)
    /\ handle' = [handle EXCEPT ![w] = "closed"]
    /\ \/ UNCHANGED disk
       \/ /\ handle[w] \in Name
          /\ disk' = [disk EXCEPT ![handle[w]] = Broken]
    /\ UNCHANGED saved

(* The vote was accepted, and writing the audit row of it raises.             *)
AuditFails ==
    /\ pc["retry"] = "wait"
    /\ answer = "accepted"
    /\ Fault
    /\ Keep
    /\ pc' = [pc EXCEPT !["retry"] = "next"]
    /\ answer' = "none"
    /\ UNCHANGED <<handle, disk, serverVars, linkVars, given, saved>>

(* The booth ends at any point, and is started again.                        *)
Crash ==
    /\ Fault
    /\ pc' = [w \in Writer |-> "idle"]
    /\ items' = [w \in Writer |-> <<>>]
    /\ handle' = [w \in Writer |-> "closed"]
    /\ todo' = <<>> /\ answer' = "none"
    /\ UNCHANGED <<disk, serverVars, linkVars, given, saved>>

Failure == (\E w \in Writer : WriteFails(w)) \/ AuditFails \/ Crash

MenuStep == (\E p \in Vote : SaveVote(p)) \/ WriteStep("menu")

Next == MenuStep \/ RetryStep \/ Network \/ Failure

Spec == Init /\ [][Next]_bufferVars

(* Threads that overlap, and nothing that fails.                             *)
OverlapSpec == Init /\ [][MenuStep \/ RetryStep \/ Network]_bufferVars

(* Votes are saved between the rounds of the retry thread.                   *)
Alone == pc'["menu"] = "idle" \/ pc'["retry"] = "idle"
SerialSpec == Init /\ [][Next /\ Alone]_bufferVars

(* Threads run, and a server that is online answers.                         *)
Fairness ==
    /\ WF_bufferVars(RetryStep /\ Alone)
    /\ WF_bufferVars(WriteStep("menu") /\ Alone)
    /\ WF_bufferVars(ReceiveRequest /\ online /\ answer = "none" /\ Alone)
FairSerialSpec == SerialSpec /\ Fairness

-----------------------------------------------------------------------------
(* A vote that was stored stays in the file until the server has counted it,  *)
(* over lost requests and answers, refusals, failing writes and crashes.     *)
StoredUntilCounted ==
    \A p \in Range(saved) : p \in Range(disk["path"].list) \/ p \in counted

(* The file can be read at every moment, since a writer never touches it but  *)
(* by the rename: save_vote and _retry_once would take it for an empty list. *)
AlwaysReadable == disk["path"].kind = "list"

(* The votes wait in the order in which they were saved and none waits twice, *)
(* so that of two votes of one voter the earlier one is submitted first.     *)
Before(s, p, q) == \E k, l \in DOMAIN s : k < l /\ s[k] = p /\ s[l] = q
InOrder(s, f) == \A i, j \in DOMAIN f : i < j => Before(s, f[i], f[j])
KeepsOrder == InOrder(saved, disk["path"].list)

(* With both threads at it and no fault, save_vote that returns without an    *)
(* exception while no round is under way has put its vote into the file; all  *)
(* that can still lose the vote is a round that began before.                *)
SaveIsDurable ==
    [][\A p \in Vote :
         /\ p \in Range(saved') \ Range(saved)
         /\ pc["retry"] = "idle"
         => p \in Range(disk'["path"].list)]_bufferVars

(* The file is a store of votes: whatever the retry thread, the network and   *)
(* the faults do, a vote leaves it only once counted, and what is counted was *)
(* submitted and is the only vote of its voter from this booth.              *)
Store == INSTANCE VoteStore WITH
             stored <- Range(disk["path"].list), lost <- {}, voter_of <- voter_id
IsVoteStore == Store!Spec

(* Once the server stays reachable and the election open, the voter of every  *)
(* stored vote gets a ballot: an entry that is refused for ever does not      *)
(* keep the ones behind it from being submitted.                             *)
EventuallyCounted ==
    \A p \in Vote :
        <>[](online /\ open) => (p \in Range(saved) ~> voter_id[p] \in has_voted)
=============================================================================
