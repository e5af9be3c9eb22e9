------------------------- MODULE OfflineBufferProofs -------------------------
(***************************************************************************)
(* Theorems about OfflineBuffer, for every set of votes and voters and for  *)
(* every bound on the faults.                                               *)
(***************************************************************************)
EXTENDS OfflineBuffer, SequenceTheorems, TLAPS

LEMMA RangeAppend == ASSUME NEW S, NEW s \in Seq(S), NEW e \in S
                     PROVE  /\ Append(s, e) \in Seq(S) /\ Append(s, e) # <<>>
                            /\ Append(s, e)[Len(Append(s, e))] = e
                            /\ Range(Append(s, e)) = Range(s) \cup {e}
<1>1. /\ Append(s, e) \in Seq(S) /\ Append(s, e) # <<>>
      /\ Len(Append(s, e)) = Len(s) + 1
      /\ \A i \in 1..Len(s) : Append(s, e)[i] = s[i]
      /\ Append(s, e)[Len(s) + 1] = e
      /\ Len(s) \in Nat
  BY AppendProperties
<1>2. /\ Range(Append(s, e)) = {Append(s, e)[i] : i \in 1..(Len(s) + 1)}
      /\ Range(s) = {s[i] : i \in 1..Len(s)}
  BY <1>1, RangeEquality, Zenon
<1>3. 1..(Len(s) + 1) = 1..Len(s) \cup {Len(s) + 1}
  BY <1>1
<1>4. QED BY <1>1, <1>2, <1>3

LEMMA RangeSplit == ASSUME NEW S, NEW s \in Seq(S), s # <<>>
                    PROVE  /\ Head(s) \in S /\ Tail(s) \in Seq(S)
                           /\ Range(s) = {Head(s)} \cup Range(Tail(s))
<1>1. /\ Head(s) \in S /\ Tail(s) \in Seq(S) /\ Len(Tail(s)) = Len(s) - 1
      /\ \A i \in 1..(Len(s) - 1) : Tail(s)[i] = s[i + 1]
      /\ Head(s) = s[1] /\ Len(s) \in Nat \ {0}
  BY HeadTailProperties
<1>2. /\ Range(Tail(s)) = {Tail(s)[i] : i \in 1..(Len(s) - 1)}
      /\ Range(s) = {s[i] : i \in 1..Len(s)}
  BY <1>1, RangeEquality, Zenon
<1>3. Range(Tail(s)) = {s[i + 1] : i \in 1..(Len(s) - 1)}
  BY <1>1, <1>2
<1>4. \A i \in 1..Len(s) : i = 1 \/ (i - 1 \in 1..(Len(s) - 1) /\ (i - 1) + 1 = i)
  BY <1>1
<1>5. \A i \in 1..(Len(s) - 1) : i + 1 \in 1..Len(s)
  BY <1>1
<1>6. 1 \in 1..Len(s)
  BY <1>1
<1>7. \A x : x \in Range(s) <=> x = s[1] \/ x \in Range(Tail(s))
  <2>1. ASSUME NEW i \in 1..Len(s) PROVE s[i] = s[1] \/ s[i] \in Range(Tail(s))
    <3>1. CASE i = 1 BY <3>1
    <3>2. CASE i # 1
      <4>1. i - 1 \in 1..(Len(s) - 1) /\ s[(i - 1) + 1] = s[i]
        BY <1>4, <3>2
      <4>2. QED BY <1>3, <4>1
    <3>3. QED BY <3>1, <3>2
  <2>2. ASSUME NEW i \in 1..(Len(s) - 1) PROVE s[i + 1] \in Range(s)
    BY <1>2, <1>5
  <2>3. s[1] \in Range(s)
    BY <1>2, <1>6
  <2>4. QED BY <1>2, <1>3, <2>1, <2>2, <2>3
<1>8. QED BY <1>1, <1>7

LEMMA RangeEmpty == Range(<<>>) = {}
  BY DEF Range

-----------------------------------------------------------------------------
(* Type correctness, under every interleaving and fault.                     *)

LEMMA StartTypeOK ==
  ASSUME NEW s \in Seq(Vote), StartWith(s)
  PROVE  TypeOK
<1>1. Json(s) \in Content /\ Absent \in Content
  BY DEF Content, Json, Absent
<1>2. <<>> \in Seq(Vote)
  BY EmptySeq
<1>3. disk \in [Name -> Content] /\ \A f \in Name : disk[f].kind # "list" => disk[f].list = <<>>
  BY <1>1 DEF StartWith, Name, Json, Absent
<1>4. Range(s) \subseteq Vote
  BY ElementOfSeq DEF Range
<1>5. QED BY <1>2, <1>3, <1>4 DEF StartWith, TypeOK, Writer

LEMMA InitTypeOK == Init => TypeOK
  BY StartTypeOK, EmptySeq DEF Init

LEMMA Contents ==
  /\ Empty \in Content /\ Absent \in Content /\ Broken \in Content
  /\ \A s \in Seq(Vote) : Json(s) \in Content
  /\ Empty.list = <<>> /\ Absent.list = <<>> /\ Broken.list = <<>>
  /\ \A s \in Seq(Vote) : Json(s).kind = "list" /\ Json(s).list = s
  BY DEF Content, Empty, Absent, Broken, Json

LEMMA EndWriteTypes ==
  ASSUME TypeOK, NEW w \in Writer, EndWrite(w)
  PROVE  /\ pc' \in [Writer -> {"idle", "next", "wait", "open", "flush", "replace"}]
         /\ items' \in [Writer -> Seq(Vote)]
         /\ pc'["menu"] # "idle" => items'["menu"] # <<>>
         /\ pc'["retry"] = "wait" => todo' # <<>>
         /\ todo' \in Seq(Vote) /\ answer' \in {"none", "accepted", "rejected"}
         /\ sent' \subseteq Vote /\ counted' \subseteq Vote /\ has_voted' \subseteq Voter
         /\ online' \in BOOLEAN /\ open' \in BOOLEAN /\ given' \subseteq Vote
<1>1. <<>> \in Seq(Vote)
  BY EmptySeq
<1>2. QED
  BY <1>1 DEF EndWrite, TypeOK, Writer, serverVars, linkVars

LEMMA WriteTypeOK ==
  ASSUME TypeOK, NEW w \in Writer, WriteStep(w)
  PROVE  TypeOK'
<1> USE DEF serverVars, linkVars, historyVars
<1>1. CASE OpenTmp(w)
  BY <1>1, Contents DEF OpenTmp, TypeOK, Writer, Name
<1>2. CASE Flush(w)
  <2>1. ASSUME NEW s \in Seq(Vote), NEW c0 \in Content, NEW c \in Over(s, c0)
        PROVE  c \in Content /\ (c.kind # "list" => c.list = <<>>)
    BY <2>1, Contents DEF Over
  <2>2. items[w] \in Seq(Vote) /\ \A f \in Name : disk[f] \in Content
    BY DEF TypeOK
  <2>3. /\ disk' \in [Name -> Content]
        /\ \A f \in Name : disk'[f].kind # "list" => disk'[f].list = <<>>
    <3>1. CASE UNCHANGED disk BY <3>1 DEF TypeOK
    <3>2. CASE handle[w] \in Name
      <4>1. PICK c \in Over(items[w], disk[handle[w]]) :
                   disk' = [disk EXCEPT ![handle[w]] = c] \/ UNCHANGED disk
        BY <1>2, <3>2 DEF Flush, Name
      <4>2. c \in Content /\ (c.kind # "list" => c.list = <<>>)
        BY <2>1, <2>2, <3>2, <4>1
      <4>3. QED BY <3>2, <4>1, <4>2 DEF TypeOK
    <3>3. QED BY <1>2, <3>1, <3>2 DEF Flush
  <2>4. QED
    BY <1>2, <2>3 DEF Flush, TypeOK, Writer, Name
<1>3. CASE Replace(w)
  <2>1. /\ disk' \in [Name -> Content]
        /\ \A f \in Name : disk'[f].kind # "list" => disk'[f].list = <<>>
    BY <1>3, Contents DEF Replace, TypeOK, Name
  <2>2. handle' \in [Writer -> Name \cup {"closed", "unlinked"}]
    BY <1>3 DEF Replace, TypeOK, Writer, Name
  <2>3. \A u \in Writer : handle'[u] # "closed" => pc'[u] = "flush"
    BY <1>3 DEF Replace, EndWrite, TypeOK, Writer, Name
  <2>4. saved' \in Seq(Vote)
    <3>1. CASE w = "menu"
      <4>1. items["menu"] \in Seq(Vote) /\ items["menu"] # <<>> /\ saved \in Seq(Vote)
        BY <1>3, <3>1 DEF Replace, TypeOK, Writer
      <4>2. items["menu"][Len(items["menu"])] \in Vote
        BY <4>1, EmptySeq, ElementOfSeq
      <4>3. QED BY <1>3, <3>1, <4>1, <4>2 DEF Replace
    <3>2. QED BY <1>3, <3>1 DEF Replace, TypeOK
  <2>5. QED
    BY <1>3, <2>1, <2>2, <2>3, <2>4, EndWriteTypes DEF Replace, TypeOK
<1>4. CASE TmpGone(w)
  BY <1>4 DEF TmpGone, EndWrite, TypeOK, Writer
<1>5. QED BY <1>1, <1>2, <1>3, <1>4 DEF WriteStep

LEMMA RetryTypeOK ==
  ASSUME TypeOK, RetryStep
  PROVE  TypeOK'
<1> USE DEF serverVars, linkVars, historyVars
<1>0. "retry" \in Writer /\ "menu" \in Writer /\ "path" \in Name
  BY DEF Writer, Name
<1>1. CASE ReadBuffer
  <2>1. disk["path"].list \in Seq(Vote)
    BY <1>0 DEF TypeOK, Content
  <2>2. QED BY <1>1, <2>1 DEF ReadBuffer, TypeOK, Writer
<1>2. ASSUME todo # <<>> PROVE Head(todo) \in Vote /\ Tail(todo) \in Seq(Vote)
  BY <1>2, RangeSplit DEF TypeOK
<1>3. ASSUME Keep \/ Delivered, NextVote, todo # <<>>, handle["retry"] = "closed"
      PROVE  TypeOK'
  <2>1. items' \in [Writer -> Seq(Vote)] /\ items'["menu"] = items["menu"]
    <3>1. Append(items["retry"], Head(todo)) \in Seq(Vote)
      BY <1>0, <1>2, <1>3, RangeAppend DEF TypeOK
    <3>2. QED BY <1>0, <1>3, <3>1 DEF Keep, Delivered, TypeOK, Writer
  <2>2. QED
    BY <1>0, <1>2, <1>3, <2>1 DEF Keep, Delivered, NextVote, TypeOK, Writer
<1>4. pc["retry"] # "flush" => handle["retry"] = "closed"
  BY <1>0 DEF TypeOK
<1>5. CASE ConnectFails
  BY <1>3, <1>4, <1>5 DEF ConnectFails
<1>6. CASE Publish
  BY <1>2, <1>6 DEF Publish, TypeOK, Writer
<1>7. CASE HandleAnswer
  BY <1>3, <1>4, <1>7 DEF HandleAnswer, TypeOK
<1>8. CASE Timeout
  BY <1>3, <1>4, <1>8 DEF Timeout, TypeOK
<1>9. CASE RoundEnds
  BY <1>9 DEF RoundEnds, TypeOK, Writer
<1>10. CASE WriteStep("retry")
  BY <1>0, <1>10, WriteTypeOK
<1>11. QED BY <1>1, <1>5, <1>6, <1>7, <1>8, <1>9, <1>10 DEF RetryStep

LEMMA MenuTypeOK ==
  ASSUME TypeOK, MenuStep
  PROVE  TypeOK'
<1> USE DEF serverVars, linkVars, historyVars
<1>1. ASSUME NEW p \in Vote, SaveVote(p) PROVE TypeOK'
  <2>1. disk["path"].list \in Seq(Vote)
    BY DEF TypeOK, Content, Name
  <2>2. Append(disk["path"].list, p) \in Seq(Vote) /\ Append(disk["path"].list, p) # <<>>
    BY <2>1, RangeAppend
  <2>3. QED BY <1>1, <2>2 DEF SaveVote, TypeOK, Writer
<1>2. QED BY <1>1, WriteTypeOK DEF MenuStep, Writer

LEMMA NetworkTypeOK ==
  ASSUME TypeOK, Network
  PROVE  TypeOK'
<1> USE DEF serverVars, linkVars, historyVars, threadVars
<1>1. ASSUME NEW p \in Vote, Count(p), answer' \in {"none", "accepted", "rejected"}
      PROVE  TypeOK'
  <2>1. voter_id[p] \in Voter
    BY BufferAssumption
  <2>2. QED BY <1>1, <2>1 DEF Count, TypeOK
<1>2. CASE ReceiveRequest
  <2>1. Head(todo) \in Vote
    BY <1>2, RangeSplit DEF ReceiveRequest, TypeOK
  <2>2. QED BY <1>1, <1>2, <2>1 DEF ReceiveRequest, TypeOK
<1>3. ASSUME NEW p \in Vote, ReceiveLate(p) PROVE TypeOK'
  BY <1>1, <1>3 DEF ReceiveLate, TypeOK
<1>4. ASSUME NEW v \in Voter, VoteElsewhere(v) PROVE TypeOK'
  BY <1>4 DEF VoteElsewhere, TypeOK
<1>5. CASE LinkChanges
  BY <1>5 DEF LinkChanges, TypeOK
<1>6. QED BY <1>2, <1>3, <1>4, <1>5 DEF Network

LEMMA FailureTypeOK ==
  ASSUME TypeOK, Failure
  PROVE  TypeOK'
<1> USE DEF serverVars, linkVars, historyVars
<1>1. ASSUME NEW w \in Writer, WriteFails(w) PROVE TypeOK'
  <2>1. /\ disk' \in [Name -> Content]
        /\ \A f \in Name : disk'[f].kind # "list" => disk'[f].list = <<>>
    <3>1. CASE UNCHANGED disk BY <3>1 DEF TypeOK
    <3>2. CASE /\ handle[w] \in Name
               /\ disk' = [disk EXCEPT ![handle[w]] = Broken]
      BY <3>2, Contents DEF TypeOK
    <3>3. QED BY <1>1, <3>1, <3>2 DEF WriteFails
  <2>2. /\ handle' \in [Writer -> Name \cup {"closed", "unlinked"}]
        /\ \A u \in Writer : handle'[u] # "closed" => pc'[u] = "flush"
    BY <1>1 DEF WriteFails, EndWrite, TypeOK
  <2>3. saved' \in Seq(Vote) /\ faults' \in Nat /\ EndWrite(w)
    BY <1>1 DEF WriteFails, Fault, TypeOK
  <2>4. QED BY <2>1, <2>2, <2>3, EndWriteTypes DEF TypeOK
<1>2. CASE AuditFails
  <2>1. /\ items["retry"] \in Seq(Vote) /\ Head(todo) \in Vote /\ Tail(todo) \in Seq(Vote)
        /\ Append(items["retry"], Head(todo)) \in Seq(Vote)
    BY <1>2, RangeSplit, RangeAppend DEF AuditFails, TypeOK, Writer
  <2>2. QED BY <1>2, <2>1 DEF AuditFails, Fault, Keep, TypeOK, Writer
<1>3. CASE Crash
  BY <1>3 DEF Crash, Fault, TypeOK, Writer, Name
<1>4. QED BY <1>1, <1>2, <1>3 DEF Failure

LEMMA NextTypeOK == TypeOK /\ [Next]_bufferVars => TypeOK'
<1>1. CASE UNCHANGED bufferVars
  BY <1>1 DEF bufferVars, threadVars, serverVars, linkVars, historyVars, TypeOK
<1>2. QED
  BY <1>1, MenuTypeOK, RetryTypeOK, NetworkTypeOK, FailureTypeOK DEF Next

(* Type correctness of the booth's file and threads, overlapping or not: in   *)
(* particular a file is open only between open and close of _write_buffer.   *)
THEOREM BufferTypeCorrect == Spec => []TypeOK
  BY InitTypeOK, NextTypeOK, PTL DEF Spec

-----------------------------------------------------------------------------
(* Order.                                                                    *)

LEMMA OrderGrows ==
  ASSUME NEW S, NEW s \in Seq(S), NEW e \in S
  PROVE  /\ \A p, q : Before(s, p, q) => Before(Append(s, e), p, q)
         /\ \A p \in Range(s) : Before(Append(s, e), p, e)
         /\ \A f : InOrder(s, f) => InOrder(Append(s, e), f)
<1>1. /\ Len(Append(s, e)) = Len(s) + 1 /\ Append(s, e) \in Seq(S)
      /\ \A i \in 1..Len(s) : Append(s, e)[i] = s[i]
      /\ Append(s, e)[Len(s) + 1] = e
      /\ Len(s) \in Nat
  BY AppendProperties
<1>2. DOMAIN s = 1..Len(s) /\ DOMAIN Append(s, e) = 1..(Len(s) + 1)
  BY <1>1, LenProperties
<1>3. ASSUME NEW p, NEW q, Before(s, p, q) PROVE Before(Append(s, e), p, q)
  BY <1>1, <1>2, <1>3 DEF Before
<1>4. ASSUME NEW p \in Range(s) PROVE Before(Append(s, e), p, e)
  <2>1. PICK i \in 1..Len(s) : s[i] = p
    BY <1>2 DEF Range
  <2>2. i < Len(s) + 1 /\ i \in DOMAIN Append(s, e) /\ Len(s) + 1 \in DOMAIN Append(s, e)
    BY <1>1, <1>2
  <2>3. QED BY <1>1, <2>1, <2>2 DEF Before
<1>5. QED BY <1>3, <1>4 DEF InOrder

LEMMA OrderOfAppend ==
  ASSUME NEW S, NEW f \in Seq(S), NEW e \in S, NEW s, InOrder(s, f),
         \A p \in Range(f) : Before(s, p, e)
  PROVE  InOrder(s, Append(f, e))
<1>1. /\ Len(Append(f, e)) = Len(f) + 1 /\ Append(f, e) \in Seq(S)
      /\ \A i \in 1..Len(f) : Append(f, e)[i] = f[i]
      /\ Append(f, e)[Len(f) + 1] = e
      /\ Len(f) \in Nat
  BY AppendProperties
<1>2. DOMAIN f = 1..Len(f) /\ DOMAIN Append(f, e) = 1..(Len(f) + 1)
  BY <1>1, LenProperties
<1>3. ASSUME NEW i \in 1..(Len(f) + 1), NEW j \in 1..(Len(f) + 1), i < j
      PROVE  Before(s, Append(f, e)[i], Append(f, e)[j])
  <2>1. i \in 1..Len(f) /\ Append(f, e)[i] = f[i]
    BY <1>1, <1>3
  <2>2. CASE j = Len(f) + 1
    BY <1>1, <1>2, <2>1, <2>2 DEF Range
  <2>3. CASE j # Len(f) + 1
    <3>1. j \in 1..Len(f) /\ Append(f, e)[j] = f[j]
      BY <1>1, <2>3
    <3>2. QED BY <1>2, <1>3, <2>1, <3>1 DEF InOrder
  <2>4. QED BY <2>2, <2>3
<1>4. QED BY <1>2, <1>3 DEF InOrder

LEMMA OrderOfTail ==
  ASSUME NEW S, NEW f \in Seq(S), f # <<>>, NEW s, InOrder(s, f)
  PROVE  /\ InOrder(s, Tail(f))
         /\ \A q \in Range(Tail(f)) : Before(s, Head(f), q)
<1>1. /\ Tail(f) \in Seq(S) /\ Len(Tail(f)) = Len(f) - 1
      /\ \A i \in 1..(Len(f) - 1) : Tail(f)[i] = f[i + 1]
      /\ Head(f) = f[1] /\ Len(f) \in Nat \ {0}
  BY HeadTailProperties
<1>2. DOMAIN f = 1..Len(f) /\ DOMAIN Tail(f) = 1..(Len(f) - 1)
  BY <1>1, LenProperties
<1>3. \A i \in 1..(Len(f) - 1) : i + 1 \in 1..Len(f) /\ 1 < i + 1 /\ 1 \in 1..Len(f)
  BY <1>1
<1>4. ASSUME NEW i \in 1..(Len(f) - 1), NEW j \in 1..(Len(f) - 1), i < j
      PROVE  Before(s, Tail(f)[i], Tail(f)[j])
  <2>1. i + 1 < j + 1
    BY <1>4
  <2>2. QED BY <1>1, <1>2, <1>3, <2>1 DEF InOrder
<1>5. ASSUME NEW q \in Range(Tail(f)) PROVE Before(s, Head(f), q)
  <2>1. PICK i \in 1..(Len(f) - 1) : Tail(f)[i] = q
    BY <1>2 DEF Range
  <2>2. QED BY <1>1, <1>2, <1>3, <2>1 DEF InOrder
<1>6. QED BY <1>2, <1>4, <1>5 DEF InOrder

-----------------------------------------------------------------------------
(* The invariant of days on which no save overlaps a round.                  *)

(* What readers of the file rely on.                                         *)
FileInv ==
    /\ AlwaysReadable
    /\ StoredUntilCounted
    /\ Range(disk["path"].list) \subseteq Range(saved)
    /\ KeepsOrder

(* A writer alone owns the temporary file, and its text is the writer's list.  *)
WriterInv ==
    /\ pc["menu"] = "idle" \/ pc["retry"] = "idle"
    /\ \A w \in Writer :
         /\ pc[w] = "flush" => handle[w] = "tmp" /\ disk["tmp"] = Empty
         /\ pc[w] = "replace" => disk["tmp"] = Json(items[w])

(* What save_vote writes is the file with one vote behind it.                *)
DraftInv ==
    pc["menu"] # "idle" =>
        \E p \in Vote : items["menu"] = Append(disk["path"].list, p)

(* What a round has still to submit and has kept: all of the file but what    *)
(* the server counted, in the order of the file.                             *)
RoundInv ==
    /\ pc["retry"] # "wait" => answer = "none"
    /\ pc["retry"] = "idle" => items["retry"] = <<>>
    /\ pc["retry"] \in {"open", "flush", "replace"} => todo = <<>>
    /\ answer = "accepted" => Head(todo) \in counted
    /\ pc["retry"] # "idle" =>
         /\ Range(disk["path"].list) \subseteq
                Range(items["retry"]) \cup Range(todo) \cup counted
         /\ Range(items["retry"]) \cup Range(todo) \subseteq Range(saved)
         /\ InOrder(saved, items["retry"])
         /\ InOrder(saved, todo)
         /\ \A p \in Range(items["retry"]), q \in Range(todo) : Before(saved, p, q)

SerialInv == TypeOK /\ FileInv /\ WriterInv /\ DraftInv /\ RoundInv

LEMMA OrderOfEmpty == \A s : InOrder(s, <<>>)
  BY DEF InOrder

LEMMA InitSerial == Init => SerialInv
<1> SUFFICES ASSUME Init PROVE SerialInv
  OBVIOUS
<1>1. TypeOK BY InitTypeOK
<1>2. disk["path"].list = <<>> /\ disk["path"].kind = "list"
  BY DEF Init, StartWith, Name, Json
<1>3. FileInv
  BY <1>2, RangeEmpty, OrderOfEmpty
     DEF FileInv, Init, StartWith, AlwaysReadable, StoredUntilCounted, KeepsOrder
<1>4. WriterInv /\ DraftInv /\ RoundInv
  BY DEF Init, StartWith, WriterInv, DraftInv, RoundInv, Writer
<1>5. QED BY <1>1, <1>3, <1>4 DEF SerialInv

(* What does not touch threads, disk and saves, and forgets no count.        *)
LEMMA QuietSerial ==
  ASSUME SerialInv, TypeOK', UNCHANGED <<pc, items, handle, disk, todo, saved>>,
         counted \subseteq counted',
         answer' = answer \/ pc["retry"] = "wait",
         answer' = "accepted" => answer = "accepted" \/ Head(todo) \in counted'
  PROVE  SerialInv'
<1>1. FileInv'
  BY DEF SerialInv, FileInv, AlwaysReadable, StoredUntilCounted, KeepsOrder
<1>2. WriterInv' /\ DraftInv'
  BY DEF SerialInv, WriterInv, DraftInv
<1>3. RoundInv'
  BY DEF SerialInv, RoundInv
<1>4. QED BY <1>1, <1>2, <1>3 DEF SerialInv

LEMMA NetworkSerial == SerialInv /\ Network => SerialInv'
<1> SUFFICES ASSUME SerialInv, Network PROVE SerialInv'
  OBVIOUS
<1>1. TypeOK'
  BY NetworkTypeOK DEF SerialInv
<1>2. CASE ReceiveRequest
  BY <1>1, <1>2, QuietSerial DEF ReceiveRequest, Count, historyVars
<1>3. ASSUME NEW p \in Vote, ReceiveLate(p) PROVE SerialInv'
  BY <1>1, <1>3, QuietSerial DEF ReceiveLate, Count, historyVars
<1>4. ASSUME NEW v \in Voter, VoteElsewhere(v) PROVE SerialInv'
  BY <1>1, <1>4, QuietSerial DEF VoteElsewhere, threadVars, historyVars
<1>5. CASE LinkChanges
  BY <1>1, <1>5, QuietSerial DEF LinkChanges, threadVars, serverVars, historyVars
<1>6. QED BY <1>2, <1>3, <1>4, <1>5 DEF Network

(* Opening and writing the temporary file, by the only writer.               *)
LEMMA TmpSerial ==
  ASSUME SerialInv, TypeOK', NEW w \in Writer, OpenTmp(w) \/ Flush(w)
  PROVE  SerialInv'
<1> USE DEF serverVars, linkVars, historyVars
<1>1. /\ disk'["path"] = disk["path"] /\ disk' \in [Name -> Content]
      /\ \A u \in Writer : pc'[u] = "idle" <=> pc[u] = "idle"
      /\ \A u \in Writer : u # w => pc[u] = "idle"
      /\ pc'[w] = "flush" => handle'[w] = "tmp" /\ disk'["tmp"] = Empty
      /\ pc'[w] = "replace" => disk'["tmp"] = Json(items[w])
      /\ pc'[w] \in {"flush", "replace"} /\ pc[w] \in {"open", "flush"}
      /\ UNCHANGED <<items, todo, answer, counted, saved>>
  <2>1. CASE OpenTmp(w)
    BY <2>1 DEF OpenTmp, SerialInv, TypeOK, WriterInv, Writer, Name
  <2>2. CASE Flush(w)
    <3>1. handle[w] = "tmp" /\ disk["tmp"] = Empty /\ pc[w] = "flush"
      BY <2>2 DEF Flush, SerialInv, WriterInv
    <3>2. Over(items[w], Empty) = {Json(items[w])}
      BY DEF Over, Empty
    <3>3. disk' = [disk EXCEPT !["tmp"] = Json(items[w])]
      BY <2>2, <3>1, <3>2 DEF Flush, Name
    <3>4. QED
      BY <2>2, <3>1, <3>3 DEF Flush, SerialInv, TypeOK, WriterInv, Writer, Name
  <2>3. QED BY <2>1, <2>2
<1>2. FileInv'
  BY <1>1 DEF SerialInv, FileInv, AlwaysReadable, StoredUntilCounted, KeepsOrder
<1>3. WriterInv' /\ DraftInv'
  BY <1>1 DEF SerialInv, WriterInv, DraftInv, Writer
<1>4. RoundInv'
  BY <1>1 DEF SerialInv, RoundInv, Writer
<1>5. QED BY <1>2, <1>3, <1>4 DEF SerialInv

(* The end of a write without the rename: the file is what it was.           *)
LEMMA EndSerial ==
  ASSUME SerialInv, TypeOK', NEW w \in Writer, EndWrite(w),
         pc[w] \in {"open", "flush", "replace"},
         disk'["path"] = disk["path"], UNCHANGED saved
  PROVE  SerialInv'
<1> USE DEF serverVars, linkVars
<1>1. /\ \A u \in Writer : pc'[u] = "idle" /\ (u # w => items'[u] = items[u])
      /\ items'[w] = <<>>
      /\ UNCHANGED <<todo, answer, counted>>
  BY DEF EndWrite, SerialInv, TypeOK, WriterInv, Writer
<1>2. FileInv'
  BY <1>1 DEF SerialInv, FileInv, AlwaysReadable, StoredUntilCounted, KeepsOrder
<1>3. WriterInv' /\ DraftInv'
  BY <1>1 DEF WriterInv, DraftInv, Writer
<1>4. RoundInv'
  BY <1>1 DEF SerialInv, TypeOK, RoundInv, WriterInv, Writer
<1>5. QED BY <1>2, <1>3, <1>4 DEF SerialInv

(* The rename of a saved vote: the file grows by it.                         *)
LEMMA SavedSerial ==
  ASSUME SerialInv, TypeOK', Replace("menu")
  PROVE  SerialInv'
<1> USE DEF serverVars, linkVars
<1> DEFINE f == disk["path"].list
<1>1. PICK p \in Vote : items["menu"] = Append(f, p)
  BY DEF SerialInv, DraftInv, Replace
<1>2. f \in Seq(Vote) /\ saved \in Seq(Vote) /\ disk \in [Name -> Content]
  BY DEF SerialInv, TypeOK, Name, Content
<1>3. disk'["path"] = Json(Append(f, p)) /\ saved' = Append(saved, p)
  <2>1. disk["tmp"] = Json(items["menu"])
    BY DEF SerialInv, WriterInv, Replace, Writer
  <2>2. items["menu"][Len(items["menu"])] = p
    BY <1>1, <1>2, RangeAppend
  <2>3. QED BY <1>1, <1>2, <2>1, <2>2 DEF Replace, Name
<1>4. disk'["path"].list = Append(f, p) /\ disk'["path"].kind = "list"
  BY <1>3 DEF Json
<1>5. Range(Append(f, p)) = Range(f) \cup {p} /\ Range(saved') = Range(saved) \cup {p}
  BY <1>2, <1>3, RangeAppend
<1>6. /\ pc'["menu"] = "idle" /\ pc'["retry"] = "idle" /\ pc["retry"] = "idle"
      /\ UNCHANGED <<todo, answer, counted>> /\ items'["retry"] = items["retry"]
  BY DEF SerialInv, TypeOK, WriterInv, Replace, EndWrite, Writer
<1>7. InOrder(saved', Append(f, p))
  <2>1. InOrder(saved, f) /\ Range(f) \subseteq Range(saved)
    BY DEF SerialInv, FileInv, KeepsOrder
  <2>2. InOrder(saved', f) /\ \A q \in Range(f) : Before(saved', q, p)
    BY <1>2, <1>3, <2>1, OrderGrows
  <2>3. QED BY <1>2, <2>2, OrderOfAppend
<1>8. FileInv'
  BY <1>4, <1>5, <1>6, <1>7
     DEF SerialInv, FileInv, AlwaysReadable, StoredUntilCounted, KeepsOrder
<1>9. WriterInv' /\ DraftInv' /\ RoundInv'
  BY <1>6 DEF SerialInv, WriterInv, DraftInv, RoundInv, Writer
<1>10. QED BY <1>8, <1>9 DEF SerialInv

(* The rename at the end of a round: the file is what the round kept.        *)
LEMMA RoundSerial ==
  ASSUME SerialInv, TypeOK', Replace("retry")
  PROVE  SerialInv'
<1> USE DEF serverVars, linkVars
<1>1. /\ pc["retry"] = "replace" /\ todo = <<>> /\ disk["tmp"] = Json(items["retry"])
      /\ disk \in [Name -> Content]
  BY DEF SerialInv, TypeOK, WriterInv, RoundInv, Replace, Writer
<1>2. disk'["path"].list = items["retry"] /\ disk'["path"].kind = "list"
  BY <1>1 DEF Replace, Json, Name
<1>3. /\ pc'["menu"] = "idle" /\ pc'["retry"] = "idle" /\ items'["retry"] = <<>>
      /\ UNCHANGED <<todo, answer, counted, saved>>
  BY DEF SerialInv, TypeOK, WriterInv, Replace, EndWrite, Writer
<1>4. FileInv'
  BY <1>1, <1>2, <1>3, RangeEmpty
     DEF SerialInv, FileInv, RoundInv, AlwaysReadable, StoredUntilCounted, KeepsOrder
<1>5. WriterInv' /\ DraftInv' /\ RoundInv'
  BY <1>1, <1>3 DEF SerialInv, WriterInv, DraftInv, RoundInv, Writer
<1>6. QED BY <1>4, <1>5 DEF SerialInv

(* A writer alone finds its temporary file.                                  *)
LEMMA NoTmpGone ==
  ASSUME SerialInv, NEW w \in Writer
  PROVE  ~ TmpGone(w)
<1> SUFFICES ASSUME TmpGone(w) PROVE FALSE
  OBVIOUS
<1>1. pc[w] = "replace" /\ disk["tmp"].kind = "absent"
  BY DEF TmpGone
<1>2. disk["tmp"] = Json(items[w])
  BY <1>1 DEF SerialInv, WriterInv
<1>3. Json(items[w]).kind = "list"
  BY DEF Json
<1>4. QED BY <1>1, <1>2, <1>3

LEMMA WriteSerial ==
  ASSUME SerialInv, NEW w \in Writer, WriteStep(w)
  PROVE  SerialInv'
<1>1. TypeOK'
  BY WriteTypeOK DEF SerialInv
<1>2. QED
  BY <1>1, NoTmpGone, TmpSerial, SavedSerial, RoundSerial DEF WriteStep, Writer

LEMMA MenuSerial == SerialInv /\ MenuStep /\ Alone => SerialInv'
<1> SUFFICES ASSUME SerialInv, MenuStep, Alone PROVE SerialInv'
  OBVIOUS
<1> USE DEF serverVars, linkVars, historyVars
<1>1. ASSUME NEW p \in Vote, SaveVote(p) PROVE SerialInv'
  <2>1. TypeOK'
    BY MenuTypeOK DEF SerialInv
  <2>2. /\ pc'["menu"] = "open" /\ pc'["retry"] = "idle" /\ pc["retry"] = "idle"
        /\ items'["menu"] = Append(disk["path"].list, p)
        /\ items'["retry"] = items["retry"]
        /\ UNCHANGED <<disk, handle, todo, answer, counted, saved>>
    BY <1>1 DEF SaveVote, Alone, SerialInv, TypeOK, Writer
  <2>3. FileInv'
    BY <2>2 DEF SerialInv, FileInv, AlwaysReadable, StoredUntilCounted, KeepsOrder
  <2>4. WriterInv' /\ DraftInv' /\ RoundInv'
    BY <2>2 DEF SerialInv, WriterInv, DraftInv, RoundInv, Writer
  <2>5. QED BY <2>1, <2>3, <2>4 DEF SerialInv
<1>2. QED BY <1>1, WriteSerial DEF MenuStep, Writer

(* A vote of the round is kept, or delivered and then counted.               *)
LEMMA VoteDoneSerial ==
  ASSUME SerialInv, TypeOK', pc["retry"] \in {"next", "wait"}, todo # <<>>,
         pc' = [pc EXCEPT !["retry"] = "next"], answer' = "none",
         UNCHANGED <<handle, disk, counted, saved>>,
         Keep \/ (Delivered /\ Head(todo) \in counted)
  PROVE  SerialInv'
<1> USE DEF serverVars, linkVars, historyVars
<1> DEFINE kept == items["retry"]
<1>1. kept \in Seq(Vote) /\ todo \in Seq(Vote)
  BY DEF SerialInv, TypeOK, Writer
<1>2. /\ Head(todo) \in Vote /\ todo' = Tail(todo) /\ Tail(todo) \in Seq(Vote)
      /\ Range(todo) = {Head(todo)} \cup Range(todo')
      /\ InOrder(saved, todo')
      /\ \A q \in Range(todo') : Before(saved, Head(todo), q)
  <2>1. todo' = Tail(todo) /\ InOrder(saved, todo)
    BY DEF Keep, Delivered, SerialInv, RoundInv
  <2>2. /\ Head(todo) \in Vote /\ Tail(todo) \in Seq(Vote)
        /\ Range(todo) = {Head(todo)} \cup Range(Tail(todo))
    BY <1>1, RangeSplit
  <2>3. /\ InOrder(saved, Tail(todo))
        /\ \A q \in Range(Tail(todo)) : Before(saved, Head(todo), q)
    BY <1>1, <2>1, OrderOfTail
  <2>4. QED BY <2>1, <2>2, <2>3
<1>3. /\ pc'["menu"] = "idle" /\ pc'["retry"] = "next" /\ pc["menu"] = "idle"
      /\ answer' = "none" /\ UNCHANGED <<disk, handle, counted, saved>>
  BY DEF SerialInv, TypeOK, WriterInv, Writer
<1>4. FileInv'
  BY <1>3 DEF SerialInv, FileInv, AlwaysReadable, StoredUntilCounted, KeepsOrder
<1>5. WriterInv' /\ DraftInv'
  BY <1>3 DEF WriterInv, DraftInv, Writer
<1>6. /\ Range(disk["path"].list) \subseteq Range(kept) \cup Range(todo) \cup counted
      /\ Range(kept) \cup Range(todo) \subseteq Range(saved)
      /\ InOrder(saved, kept)
      /\ \A p \in Range(kept), q \in Range(todo) : Before(saved, p, q)
  BY DEF SerialInv, RoundInv
<1>7. CASE Delivered /\ Head(todo) \in counted
  <2>1. items'["retry"] = kept
    BY <1>7 DEF Delivered
  <2>2. RoundInv'
    BY <1>2, <1>3, <1>6, <1>7, <2>1 DEF RoundInv
  <2>3. QED BY <1>4, <1>5, <2>2 DEF SerialInv
<1>8. CASE Keep
  <2>1. items'["retry"] = Append(kept, Head(todo))
    BY <1>8 DEF Keep, SerialInv, TypeOK, Writer
  <2>2. Range(Append(kept, Head(todo))) = Range(kept) \cup {Head(todo)}
    BY <1>1, <1>2, RangeAppend
  <2>3. InOrder(saved, Append(kept, Head(todo)))
    BY <1>1, <1>2, <1>6, OrderOfAppend
  <2>4. RoundInv'
    BY <1>2, <1>3, <1>6, <2>1, <2>2, <2>3 DEF RoundInv
  <2>5. QED BY <1>4, <1>5, <2>4 DEF SerialInv
<1>9. QED BY <1>7, <1>8

LEMMA RetrySerial == SerialInv /\ RetryStep /\ Alone => SerialInv'
<1> SUFFICES ASSUME SerialInv, RetryStep, Alone PROVE SerialInv'
  OBVIOUS
<1> USE DEF serverVars, linkVars, historyVars
<1>1. TypeOK'
  BY RetryTypeOK DEF SerialInv
<1>2. CASE ReadBuffer
  <2>1. /\ pc'["retry"] = "next" /\ pc'["menu"] = "idle" /\ pc["menu"] = "idle"
        /\ todo' = disk["path"].list /\ items'["retry"] = <<>> /\ answer' = "none"
        /\ UNCHANGED <<disk, handle, counted, saved>>
    BY <1>2 DEF ReadBuffer, Alone, SerialInv, TypeOK, RoundInv, Writer
  <2>2. FileInv'
    BY <2>1 DEF SerialInv, FileInv, AlwaysReadable, StoredUntilCounted, KeepsOrder
  <2>3. WriterInv' /\ DraftInv'
    BY <2>1 DEF WriterInv, DraftInv, Writer
  <2>4. RoundInv'
    BY <2>1, RangeEmpty, OrderOfEmpty DEF SerialInv, FileInv, KeepsOrder, RoundInv
  <2>5. QED BY <1>1, <2>2, <2>3, <2>4 DEF SerialInv
<1>3. CASE ConnectFails
  BY <1>1, <1>3, VoteDoneSerial DEF ConnectFails, NextVote
<1>4. CASE Publish
  <2>1. /\ pc["retry"] = "next" /\ pc'["retry"] = "wait" /\ pc'["menu"] = pc["menu"]
        /\ pc["menu"] = "idle" /\ UNCHANGED <<items, disk, handle, todo, answer, counted, saved>>
    BY <1>4 DEF Publish, SerialInv, TypeOK, WriterInv, Writer
  <2>2. FileInv'
    BY <2>1 DEF SerialInv, FileInv, AlwaysReadable, StoredUntilCounted, KeepsOrder
  <2>3. WriterInv' /\ DraftInv' /\ RoundInv'
    BY <2>1 DEF SerialInv, WriterInv, DraftInv, RoundInv, Writer
  <2>4. QED BY <1>1, <2>2, <2>3 DEF SerialInv
<1>5. CASE HandleAnswer
  <2>1. todo # <<>>
    BY <1>5 DEF HandleAnswer, SerialInv, TypeOK
  <2>2. answer = "accepted" => Head(todo) \in counted
    BY DEF SerialInv, RoundInv
  <2>3. QED BY <1>1, <1>5, <2>1, <2>2, VoteDoneSerial DEF HandleAnswer, NextVote
<1>6. CASE Timeout
  <2>1. todo # <<>>
    BY <1>6 DEF Timeout, SerialInv, TypeOK
  <2>2. QED BY <1>1, <1>6, <2>1, VoteDoneSerial DEF Timeout, NextVote
<1>7. CASE RoundEnds
  <2>1. /\ pc["retry"] = "next" /\ pc'["retry"] = "open" /\ pc'["menu"] = pc["menu"]
        /\ todo = <<>> /\ pc["menu"] = "idle"
        /\ UNCHANGED <<items, disk, handle, todo, answer, counted, saved>>
    BY <1>7 DEF RoundEnds, SerialInv, TypeOK, WriterInv, Writer
  <2>2. FileInv'
    BY <2>1 DEF SerialInv, FileInv, AlwaysReadable, StoredUntilCounted, KeepsOrder
  <2>3. WriterInv' /\ DraftInv' /\ RoundInv'
    BY <2>1 DEF SerialInv, WriterInv, DraftInv, RoundInv, Writer
  <2>4. QED BY <1>1, <2>2, <2>3 DEF SerialInv
<1>8. CASE WriteStep("retry")
  BY <1>8, WriteSerial DEF Writer
<1>9. QED BY <1>2, <1>3, <1>4, <1>5, <1>6, <1>7, <1>8 DEF RetryStep

(* A failing write and a crash leave the file alone, since no writer has it   *)
(* open; an answer whose audit row fails keeps its vote.                     *)
LEMMA FailureSerial == SerialInv /\ Failure => SerialInv'
<1> SUFFICES ASSUME SerialInv, Failure PROVE SerialInv'
  OBVIOUS
<1> USE DEF serverVars, linkVars, historyVars
<1>1. TypeOK'
  BY FailureTypeOK DEF SerialInv
<1>2. ASSUME NEW w \in Writer, WriteFails(w) PROVE SerialInv'
  <2>1. handle[w] \in Name => handle[w] = "tmp"
    BY DEF SerialInv, TypeOK, WriterInv, Name
  <2>2. disk'["path"] = disk["path"]
    <3>1. CASE UNCHANGED disk BY <3>1
    <3>2. CASE /\ handle[w] \in Name
               /\ disk' = [disk EXCEPT ![handle[w]] = Broken]
      BY <2>1, <3>2 DEF SerialInv, TypeOK, Name
    <3>3. QED BY <1>2, <3>1, <3>2 DEF WriteFails
  <2>3. QED BY <1>1, <1>2, <2>2, EndSerial DEF WriteFails
<1>3. CASE AuditFails
  <2>1. todo # <<>>
    BY <1>3 DEF AuditFails, SerialInv, TypeOK
  <2>2. QED BY <1>1, <1>3, <2>1, VoteDoneSerial DEF AuditFails
<1>4. CASE Crash
  <2>1. /\ \A w \in Writer : pc'[w] = "idle" /\ items'[w] = <<>>
        /\ answer' = "none" /\ todo' = <<>> /\ UNCHANGED <<disk, counted, saved>>
    BY <1>4 DEF Crash
  <2>2. FileInv'
    BY <2>1 DEF SerialInv, FileInv, AlwaysReadable, StoredUntilCounted, KeepsOrder
  <2>3. WriterInv' /\ DraftInv' /\ RoundInv'
    BY <2>1 DEF WriterInv, DraftInv, RoundInv, Writer
  <2>4. QED BY <1>1, <2>2, <2>3 DEF SerialInv
<1>5. QED BY <1>2, <1>3, <1>4 DEF Failure

LEMMA SerialStep == SerialInv /\ [Next /\ Alone]_bufferVars => SerialInv'
<1>1. SerialInv /\ UNCHANGED bufferVars => SerialInv'
  <2> SUFFICES ASSUME SerialInv, UNCHANGED bufferVars PROVE SerialInv'
    OBVIOUS
  <2>1. TypeOK'
    BY NextTypeOK DEF SerialInv
  <2>2. QED BY <2>1, QuietSerial
     DEF bufferVars, threadVars, serverVars, linkVars, historyVars
<1>2. QED
  BY <1>1, MenuSerial, RetrySerial, NetworkSerial, FailureSerial DEF Next

(* While no save overlaps a round, no stored vote is lost before the server   *)
(* has counted it, the file can always be read and the votes in it wait in    *)
(* the order of their saves, over any number of crashes and failing writes.  *)
THEOREM SerialHolds == SerialSpec => [](StoredUntilCounted /\ AlwaysReadable /\ KeepsOrder)
<1>1. SerialInv => StoredUntilCounted /\ AlwaysReadable /\ KeepsOrder
  BY DEF SerialInv, FileInv
<1>2. QED
  BY <1>1, InitSerial, SerialStep, PTL DEF SerialSpec

(* While no save overlaps a round, _read_buffer never finds half a list, which  *)
(* it would take for an empty one.                                              *)
THEOREM ReadableHolds == SerialSpec => []AlwaysReadable
  BY SerialHolds, PTL

(* While no save overlaps a round, the rewrites of the file keep the stored     *)
(* votes in the order of their saves.                                           *)
THEOREM OrderHolds == SerialSpec => []KeepsOrder
  BY SerialHolds, PTL

-----------------------------------------------------------------------------
(* The file as a store of votes.  A round works on votes of the file, since    *)
(* the file does not change before its rename; what it waits for is submitted; *)
(* a counted vote has its voter marked, so that no other one is counted.      *)
StoreInv ==
    /\ pc["retry"] # "idle" =>
         Range(items["retry"]) \cup Range(todo) \subseteq Range(disk["path"].list)
    /\ pc["retry"] = "wait" => Head(todo) \in sent
    /\ \A p \in counted : voter_id[p] \in has_voted

LEMMA InitStore == Init => StoreInv /\ Store!Init
<1> SUFFICES ASSUME Init PROVE StoreInv /\ Store!Init
  OBVIOUS
<1>1. disk["path"].list = <<>>
  BY DEF Init, StartWith, Name, Json
<1>2. QED BY <1>1, RangeEmpty DEF Init, StartWith, StoreInv, Store!Init, Writer

(* Steps that leave the file, and what was submitted and counted.             *)
LEMMA StoreStays ==
  ASSUME StoreInv, disk'["path"] = disk["path"], UNCHANGED <<sent, counted>>,
         has_voted \subseteq has_voted',
         pc'["retry"] = "wait" => pc["retry"] = "wait" /\ todo' = todo,
         pc'["retry"] # "idle" =>
            Range(items'["retry"]) \cup Range(todo') \subseteq Range(disk["path"].list)
  PROVE  StoreInv' /\ UNCHANGED Store!storeVars
  BY DEF StoreInv, Store!storeVars

(* Opening and writing the temporary file do not touch the file.              *)
LEMMA PathStays ==
  ASSUME SerialInv, NEW w \in Writer, OpenTmp(w) \/ Flush(w) \/ WriteFails(w)
  PROVE  /\ disk'["path"] = disk["path"]
         /\ pc'["retry"] # "idle" => pc["retry"] # "idle" /\ items'["retry"] = items["retry"]
         /\ pc'["retry"] = "wait" => pc["retry"] = "wait"
         /\ UNCHANGED <<sent, counted, has_voted, todo>>
<1> USE DEF serverVars, linkVars, historyVars
<1>1. handle[w] \in Name => handle[w] = "tmp"
  BY DEF SerialInv, TypeOK, WriterInv, Name
<1>2. pc \in [Writer -> {"idle", "next", "wait", "open", "flush", "replace"}]
      /\ disk \in [Name -> Content] /\ items \in [Writer -> Seq(Vote)]
  BY DEF SerialInv, TypeOK
<1>3. CASE OpenTmp(w)
  BY <1>2, <1>3 DEF OpenTmp, Writer, Name
<1>4. CASE Flush(w)
  <2>1. disk'["path"] = disk["path"]
    <3>1. CASE UNCHANGED disk BY <3>1
    <3>2. CASE handle[w] = "tmp" /\ \E c \in Over(items[w], disk[handle[w]]) :
                                      disk' = [disk EXCEPT ![handle[w]] = c]
      BY <1>2, <3>2 DEF Name
    <3>3. QED BY <1>1, <1>4, <3>1, <3>2 DEF Flush
  <2>2. QED BY <1>2, <1>4, <2>1 DEF Flush, Writer
<1>5. CASE WriteFails(w)
  <2>1. disk'["path"] = disk["path"]
    <3>1. CASE UNCHANGED disk BY <3>1
    <3>2. CASE handle[w] \in Name /\ disk' = [disk EXCEPT ![handle[w]] = Broken]
      BY <1>1, <1>2, <3>2 DEF Name
    <3>3. QED BY <1>5, <3>1, <3>2 DEF WriteFails
  <2>2. QED BY <1>2, <1>5, <2>1 DEF WriteFails, EndWrite, Writer
<1>6. QED BY <1>3, <1>4, <1>5

(* The rename of the menu stores one vote.                                   *)
LEMMA SavedStore ==
  ASSUME SerialInv, StoreInv, Replace("menu")
  PROVE  StoreInv' /\ \E p \in Vote : Store!Store(p)
<1> USE DEF serverVars, linkVars
<1> DEFINE f == disk["path"].list
<1>1. PICK p \in Vote : items["menu"] = Append(f, p)
  BY DEF SerialInv, DraftInv, Replace
<1>2. f \in Seq(Vote) /\ disk \in [Name -> Content]
  BY DEF SerialInv, TypeOK, Name, Content
<1>3. disk'["path"].list = Append(f, p)
  <2>1. disk["tmp"] = Json(items["menu"])
    BY DEF SerialInv, WriterInv, Replace, Writer
  <2>2. QED BY <1>1, <1>2, <2>1 DEF Replace, Json, Name
<1>4. Range(disk'["path"].list) = Range(f) \cup {p}
  BY <1>2, <1>3, RangeAppend
<1>5. pc'["retry"] = "idle" /\ UNCHANGED <<sent, counted, has_voted>>
  BY DEF SerialInv, TypeOK, WriterInv, Replace, EndWrite, Writer
<1>6. QED BY <1>4, <1>5 DEF StoreInv, Store!Store

(* The rename of a round releases what is neither kept nor uncounted.         *)
LEMMA RoundStore ==
  ASSUME SerialInv, StoreInv, Replace("retry")
  PROVE  StoreInv' /\ \E S \in SUBSET Vote : Store!Release(S)
<1> USE DEF serverVars, linkVars
<1> DEFINE f == disk["path"].list
           S == Range(f) \ Range(items["retry"])
<1>1. /\ pc["retry"] = "replace" /\ todo = <<>> /\ disk["tmp"] = Json(items["retry"])
      /\ disk \in [Name -> Content] /\ f \in Seq(Vote)
  BY DEF SerialInv, TypeOK, WriterInv, RoundInv, Replace, Writer, Name, Content
<1>2. disk'["path"].list = items["retry"]
  BY <1>1 DEF Replace, Json, Name
<1>3. pc'["retry"] = "idle" /\ UNCHANGED <<sent, counted, has_voted>>
  BY DEF SerialInv, TypeOK, WriterInv, Replace, EndWrite, Writer
<1>4. /\ Range(f) \subseteq Range(items["retry"]) \cup counted
      /\ Range(items["retry"]) \subseteq Range(f)
  BY <1>1, RangeEmpty DEF SerialInv, RoundInv, StoreInv
<1>5. S \in SUBSET Vote /\ S \subseteq counted /\ Range(items["retry"]) = Range(f) \ S
  <2>1. counted \subseteq Vote
    BY DEF SerialInv, TypeOK
  <2>2. QED BY <1>4, <2>1
<1>6. Store!Release(S)
  BY <1>2, <1>3, <1>5 DEF Store!Release
<1>7. StoreInv'
  BY <1>3 DEF StoreInv
<1>8. QED BY <1>5, <1>6, <1>7

(* A vote of the round is kept or done with.                                 *)
LEMMA VoteDoneStore ==
  ASSUME SerialInv, StoreInv, pc["retry"] \in {"next", "wait"}, todo # <<>>,
         pc'["retry"] = "next", UNCHANGED <<disk, sent, counted, has_voted>>,
         Keep \/ Delivered
  PROVE  StoreInv' /\ UNCHANGED Store!storeVars
<1> DEFINE kept == items["retry"]
<1>1. kept \in Seq(Vote) /\ todo \in Seq(Vote) /\ items \in [Writer -> Seq(Vote)]
  BY DEF SerialInv, TypeOK, Writer
<1>2. Head(todo) \in Vote /\ Range(todo) = {Head(todo)} \cup Range(Tail(todo))
  BY <1>1, RangeSplit
<1>3. Range(Append(kept, Head(todo))) = Range(kept) \cup {Head(todo)}
  BY <1>1, <1>2, RangeAppend
<1>4. /\ todo' = Tail(todo)
      /\ items'["retry"] \in {kept, Append(kept, Head(todo))}
  BY <1>1 DEF Keep, Delivered, Writer
<1>5. Range(items'["retry"]) \cup Range(todo') \subseteq Range(disk["path"].list)
  BY <1>2, <1>3, <1>4 DEF StoreInv
<1>6. QED BY <1>5, StoreStays

(* The server counts a submitted vote of a voter without a ballot, or nothing. *)
LEMMA CountStore ==
  ASSUME SerialInv, StoreInv, NEW p \in sent, Count(p), UNCHANGED pc
  PROVE  StoreInv' /\ (Store!Count(p) \/ UNCHANGED Store!storeVars)
<1> USE DEF serverVars, linkVars, historyVars
<1>1. UNCHANGED <<pc, items, todo, disk, sent>>
  BY DEF Count
<1>2. CASE Accepts(p)
  <2>1. counted' = counted \cup {p} /\ has_voted' = has_voted \cup {voter_id[p]}
        /\ voter_id[p] \notin has_voted
    BY <1>2 DEF Count, Accepts
  <2>2. QED BY <1>1, <2>1 DEF StoreInv, Store!Count
<1>3. CASE ~Accepts(p)
  BY <1>1, <1>3 DEF Count, StoreInv, Store!storeVars
<1>4. QED BY <1>2, <1>3

LEMMA NetworkStore ==
  ASSUME SerialInv, StoreInv, Network
  PROVE  StoreInv' /\ [Store!Next]_Store!storeVars
<1> USE DEF serverVars, linkVars, historyVars
<1>0. sent \subseteq Vote
  BY DEF SerialInv, TypeOK
<1>1. CASE ReceiveRequest
  <2>1. Head(todo) \in sent /\ Count(Head(todo)) /\ UNCHANGED pc
    BY <1>1 DEF ReceiveRequest, StoreInv, Count
  <2>2. QED BY <1>0, <2>1, CountStore DEF Store!Next
<1>2. ASSUME NEW p \in Vote, ReceiveLate(p)
      PROVE  StoreInv' /\ [Store!Next]_Store!storeVars
  <2>1. p \in sent /\ Count(p) /\ UNCHANGED pc
    BY <1>2 DEF ReceiveLate, Count
  <2>2. QED BY <1>0, <2>1, CountStore DEF Store!Next
<1>3. ASSUME NEW v \in Voter, VoteElsewhere(v)
      PROVE  StoreInv' /\ [Store!Next]_Store!storeVars
  BY <1>3, StoreStays DEF VoteElsewhere, threadVars, StoreInv
<1>4. CASE LinkChanges
  BY <1>4, StoreStays DEF LinkChanges, threadVars, StoreInv
<1>5. QED BY <1>1, <1>2, <1>3, <1>4 DEF Network

LEMMA RetryStore ==
  ASSUME SerialInv, StoreInv, RetryStep, Alone
  PROVE  StoreInv' /\ [Store!Next]_Store!storeVars
<1> USE DEF serverVars, linkVars, historyVars
<1>0. /\ pc \in [Writer -> {"idle", "next", "wait", "open", "flush", "replace"}]
      /\ todo \in Seq(Vote) /\ "retry" \in Writer
      /\ pc["retry"] = "wait" => todo # <<>>
  BY DEF SerialInv, TypeOK, Writer
<1>1. CASE ReadBuffer
  <2>1. /\ pc'["retry"] = "next" /\ todo' = disk["path"].list
        /\ items'["retry"] = <<>> /\ UNCHANGED <<disk, sent, counted, has_voted>>
    BY <1>0, <1>1 DEF ReadBuffer, SerialInv, RoundInv
  <2>2. QED BY <2>1, StoreStays, RangeEmpty
<1>2. CASE ConnectFails
  BY <1>0, <1>2, VoteDoneStore DEF ConnectFails, NextVote
<1>3. CASE Publish
  <2>1. Head(todo) \in Vote /\ pc["retry"] = "next" /\ sent' = sent \cup {Head(todo)}
        /\ UNCHANGED <<items, todo, disk, counted, has_voted>>
    BY <1>0, <1>3, RangeSplit DEF Publish
  <2>2. Store!Submit(Head(todo)) /\ StoreInv'
    BY <2>1 DEF Store!Submit, StoreInv
  <2>3. QED BY <2>1, <2>2 DEF Store!Next
<1>4. CASE HandleAnswer
  BY <1>0, <1>4, VoteDoneStore DEF HandleAnswer, NextVote
<1>5. CASE Timeout
  BY <1>0, <1>5, VoteDoneStore DEF Timeout, NextVote
<1>6. CASE RoundEnds
  BY <1>0, <1>6, StoreStays DEF RoundEnds, StoreInv
<1>7. CASE WriteStep("retry")
  <2>1. CASE OpenTmp("retry") \/ Flush("retry")
    BY <1>0, <2>1, PathStays, StoreStays DEF StoreInv
  <2>2. CASE Replace("retry")
    BY <2>2, RoundStore DEF Store!Next
  <2>3. ~ TmpGone("retry")
    BY <1>0, NoTmpGone
  <2>4. QED BY <1>7, <2>1, <2>2, <2>3 DEF WriteStep
<1>8. QED BY <1>1, <1>2, <1>3, <1>4, <1>5, <1>6, <1>7 DEF RetryStep

LEMMA MenuStore ==
  ASSUME SerialInv, StoreInv, MenuStep
  PROVE  StoreInv' /\ [Store!Next]_Store!storeVars
<1> USE DEF serverVars, linkVars, historyVars
<1>0. /\ pc \in [Writer -> {"idle", "next", "wait", "open", "flush", "replace"}]
      /\ items \in [Writer -> Seq(Vote)] /\ "menu" \in Writer /\ "retry" \in Writer
  BY DEF SerialInv, TypeOK, Writer
<1>1. ASSUME NEW p \in Vote, SaveVote(p)
      PROVE  StoreInv' /\ [Store!Next]_Store!storeVars
  <2>1. /\ pc'["retry"] = pc["retry"] /\ items'["retry"] = items["retry"]
        /\ UNCHANGED <<disk, todo, sent, counted, has_voted>>
    BY <1>0, <1>1 DEF SaveVote
  <2>2. QED BY <2>1, StoreStays DEF StoreInv
<1>2. CASE OpenTmp("menu") \/ Flush("menu")
  BY <1>0, <1>2, PathStays, StoreStays DEF StoreInv
<1>3. CASE Replace("menu")
  BY <1>3, SavedStore DEF Store!Next
<1>4. ~ TmpGone("menu")
  BY <1>0, NoTmpGone
<1>5. QED BY <1>1, <1>2, <1>3, <1>4 DEF MenuStep, WriteStep

LEMMA FailureStore ==
  ASSUME SerialInv, StoreInv, Failure
  PROVE  StoreInv' /\ [Store!Next]_Store!storeVars
<1> USE DEF serverVars, linkVars, historyVars
<1>0. /\ pc \in [Writer -> {"idle", "next", "wait", "open", "flush", "replace"}]
      /\ "retry" \in Writer /\ (pc["retry"] = "wait" => todo # <<>>)
  BY DEF SerialInv, TypeOK, Writer
<1>1. ASSUME NEW w \in Writer, WriteFails(w)
      PROVE  StoreInv' /\ [Store!Next]_Store!storeVars
  BY <1>1, PathStays, StoreStays DEF StoreInv
<1>2. CASE AuditFails
  BY <1>0, <1>2, VoteDoneStore DEF AuditFails
<1>3. CASE Crash
  BY <1>0, <1>3, StoreStays DEF Crash
<1>4. QED BY <1>1, <1>2, <1>3 DEF Failure

(* While no save overlaps a round, the buffer is a vote store: for any number *)
(* of votes, crashes and failing writes, a step of the booth or its network   *)
(* stores a vote, submits one, counts a submitted one of a voter without a    *)
(* ballot, releases counted ones, or changes none of these.                   *)
THEOREM BufferIsVoteStore == SerialSpec => IsVoteStore
<1>1. Init => SerialInv /\ StoreInv /\ Store!Init
  BY InitSerial, InitStore
<1>2. SerialInv /\ StoreInv /\ [Next /\ Alone]_bufferVars
        => StoreInv' /\ [Store!Next]_Store!storeVars
  <2> SUFFICES ASSUME SerialInv, StoreInv, [Next /\ Alone]_bufferVars
               PROVE  StoreInv' /\ [Store!Next]_Store!storeVars
    OBVIOUS
  <2>1. CASE UNCHANGED bufferVars
    BY <2>1, StoreStays DEF bufferVars, threadVars, serverVars, StoreInv
  <2>2. CASE Next /\ Alone
    BY <2>2, MenuStore, RetryStore, NetworkStore, FailureStore DEF Next
  <2>3. QED BY <2>1, <2>2
<1>3. QED
  BY <1>1, <1>2, SerialStep, PTL DEF SerialSpec, IsVoteStore, Store!Spec

-----------------------------------------------------------------------------
(* Threads that overlap, without faults: who opened the temporary file last   *)
(* decides its text, and a writer that is between open and rename makes the   *)
(* other one's rename fail or take its text along.                           *)
OwnerInv ==
    /\ TypeOK
    /\ \A w \in Writer : handle[w] = "tmp" => disk["tmp"].kind # "absent"
    /\ \A w, u \in Writer : u # w /\ pc[u] \notin {"flush", "replace"} =>
         /\ pc[w] = "flush" => disk["tmp"] = IF handle[w] = "tmp" THEN Empty ELSE Absent
         /\ pc[w] = "replace" /\ disk["tmp"].kind # "absent"
               => disk["tmp"] = Json(items[w])

LEMMA OverKind ==
  ASSUME NEW s, NEW c0, NEW c \in Over(s, c0)
  PROVE  c.kind # "absent"
  BY DEF Over, Json, Broken

LEMMA OwnerWrite ==
  ASSUME OwnerInv, NEW w \in Writer, WriteStep(w)
  PROVE  OwnerInv'
<1> USE DEF serverVars, linkVars, historyVars
<1>1. TypeOK'
  BY WriteTypeOK DEF OwnerInv
<1>2. TypeOK
  BY DEF OwnerInv
<1>3. CASE OpenTmp(w)
  <2>1. /\ disk'["tmp"] = Empty /\ Empty.kind # "absent"
        /\ handle'[w] = "tmp" /\ pc'[w] = "flush"
    BY <1>2, <1>3 DEF OpenTmp, TypeOK, Empty, Name
  <2>2. \A v, u \in Writer : u # v /\ pc'[u] \notin {"flush", "replace"} => v = w
    BY <2>1 DEF Writer
  <2>3. QED BY <1>1, <2>1, <2>2 DEF OwnerInv
<1>4. CASE Flush(w)
  <2>1. PICK c : \/ handle[w] \in Name /\ c \in Over(items[w], disk[handle[w]])
                    /\ disk' = [disk EXCEPT ![handle[w]] = c]
                 \/ handle[w] = "unlinked" /\ UNCHANGED disk
    BY <1>4 DEF Flush
  <2>2. handle[w] = "tmp" => c \in Over(items[w], disk["tmp"]) /\ disk'["tmp"] = c
    BY <1>2, <2>1 DEF TypeOK, Name
  <2>3. handle[w] # "tmp" => disk'["tmp"] = disk["tmp"]
    BY <1>2, <2>1 DEF TypeOK, Name
  <2>4. handle[w] = "tmp" => disk'["tmp"].kind # "absent"
    BY <2>2, OverKind
  <2>5. /\ pc[w] = "flush" /\ pc' = [pc EXCEPT ![w] = "replace"]
        /\ handle' = [handle EXCEPT ![w] = "closed"] /\ UNCHANGED items
    BY <1>4 DEF Flush
  <2>6. ASSUME NEW u \in Writer, u # w, pc[u] \notin {"flush", "replace"},
               disk'["tmp"].kind # "absent"
        PROVE  disk'["tmp"] = Json(items[w])
    <3>1. handle[w] = "tmp" /\ disk["tmp"] = Empty
      BY <2>3, <2>5, <2>6 DEF OwnerInv, Absent
    <3>2. Over(items[w], Empty) = {Json(items[w])}
      BY DEF Over, Empty
    <3>3. QED BY <2>2, <3>1, <3>2
  <2>7. /\ \A u \in Writer : u # w => pc'[u] = pc[u] /\ handle'[u] = handle[u]
        /\ pc'[w] = "replace" /\ handle'[w] = "closed"
    BY <1>2, <2>5 DEF TypeOK
  <2>8. ASSUME NEW u \in Writer, handle'[u] = "tmp" PROVE disk'["tmp"].kind # "absent"
    BY <2>3, <2>4, <2>7, <2>8 DEF OwnerInv
  <2>9. ASSUME NEW v \in Writer, NEW u \in Writer, u # v, pc'[u] \notin {"flush", "replace"}
        PROVE  /\ pc'[v] = "flush" => disk'["tmp"] = IF handle'[v] = "tmp" THEN Empty ELSE Absent
               /\ pc'[v] = "replace" /\ disk'["tmp"].kind # "absent"
                    => disk'["tmp"] = Json(items'[v])
    <3>1. u # w
      BY <2>7, <2>9
    <3>2. v = w
      BY <2>9, <3>1 DEF Writer
    <3>3. QED BY <2>5, <2>6, <2>7, <2>9, <3>1, <3>2
  <2>10. QED BY <1>1, <2>8, <2>9 DEF OwnerInv
<1>5. CASE Replace(w)
  <2>1. /\ disk'["tmp"] = Absent /\ \A u \in Writer : handle'[u] # "tmp"
        /\ \A u \in Writer : u # w => pc'[u] = pc[u]
        /\ pc'[w] = "idle"
    BY <1>2, <1>5 DEF Replace, EndWrite, TypeOK, Name
  <2>2. QED BY <1>1, <2>1 DEF OwnerInv, Absent
<1>6. CASE TmpGone(w)
  <2>1. /\ disk["tmp"].kind = "absent" /\ \A u \in Writer : handle[u] # "tmp"
        /\ UNCHANGED <<disk, handle>>
    BY <1>6 DEF TmpGone, OwnerInv
  <2>2. \A u \in Writer : pc'[u] = pc[u] \/ pc'[u] = "idle"
    BY <1>2, <1>6 DEF TmpGone, EndWrite, TypeOK
  <2>3. \A v, u \in Writer : u # v /\ pc'[u] \notin {"flush", "replace"} =>
           (pc'[v] = "flush" => pc[v] = "flush" /\ v # w)
    BY <1>2, <1>6, <2>2 DEF TmpGone, EndWrite, TypeOK
  <2>4. disk["tmp"] = Absent
    BY <1>2, <2>1, Contents DEF TypeOK, Name, Content, Absent
  <2>5. QED BY <1>1, <2>1, <2>3, <2>4 DEF OwnerInv
<1>7. QED BY <1>3, <1>4, <1>5, <1>6 DEF WriteStep

(* A step that touches neither disk nor handles and lets nobody write.       *)
LEMMA OwnerQuiet ==
  ASSUME OwnerInv, TypeOK', UNCHANGED <<disk, handle>>,
         \A w \in Writer : pc'[w] \in {"flush", "replace"} \/ pc[w] \in {"flush", "replace"}
                            => pc'[w] = pc[w] /\ items'[w] = items[w]
  PROVE  OwnerInv'
  BY DEF OwnerInv

LEMMA StartOwner ==
  ASSUME NEW s \in Seq(Vote), StartWith(s)
  PROVE  OwnerInv
  BY StartTypeOK DEF StartWith, OwnerInv, Writer

LEMMA InitOwner == Init => OwnerInv
  BY StartOwner, EmptySeq DEF Init

LEMMA OwnerStep ==
  OwnerInv /\ [MenuStep \/ RetryStep \/ Network]_bufferVars => OwnerInv'
<1> SUFFICES ASSUME OwnerInv, [MenuStep \/ RetryStep \/ Network]_bufferVars
             PROVE  OwnerInv'
  OBVIOUS
<1> USE DEF serverVars, linkVars, historyVars, threadVars
<1>1. TypeOK /\ TypeOK'
  BY NextTypeOK DEF OwnerInv, Next
<1>2. ASSUME NEW w \in Writer, WriteStep(w) PROVE OwnerInv'
  BY <1>2, OwnerWrite
<1>3. ASSUME NEW p \in Vote, SaveVote(p) PROVE OwnerInv'
  BY <1>1, <1>3, OwnerQuiet DEF SaveVote, TypeOK, Writer
<1>4. CASE ReadBuffer \/ Publish \/ RoundEnds
  BY <1>1, <1>4, OwnerQuiet DEF ReadBuffer, Publish, RoundEnds, TypeOK, Writer
<1>5. CASE ConnectFails \/ HandleAnswer \/ Timeout
  <2>1. /\ pc["retry"] \in {"next", "wait"} /\ NextVote /\ (Keep \/ Delivered)
    BY <1>5 DEF ConnectFails, HandleAnswer, Timeout
  <2>2. items'["menu"] = items["menu"]
    BY <1>1, <2>1 DEF Keep, Delivered, TypeOK, Writer
  <2>3. QED BY <1>1, <2>1, <2>2, OwnerQuiet DEF NextVote, TypeOK, Writer
<1>6. CASE Network
  <2>1. UNCHANGED <<pc, items, handle, disk>>
    BY <1>6 DEF Network, ReceiveRequest, ReceiveLate, Count, VoteElsewhere, LinkChanges
  <2>2. QED BY <1>1, <2>1, OwnerQuiet
<1>7. CASE UNCHANGED bufferVars
  BY <1>1, <1>7, OwnerQuiet DEF bufferVars
<1>8. QED
  BY <1>2, <1>3, <1>4, <1>5, <1>6, <1>7 DEF MenuStep, RetryStep, Writer

(* A save that returns while no round is under way has its vote in the file.  *)
ReturnsStored ==
    \A p \in Vote :
       /\ p \in Range(saved') \ Range(saved)
       /\ pc["retry"] = "idle"
       => p \in Range(disk'["path"].list)

LEMMA OwnerStored ==
  ASSUME OwnerInv, MenuStep \/ RetryStep \/ Network
  PROVE  ReturnsStored
<1> SUFFICES ASSUME NEW p \in Vote, p \in Range(saved') \ Range(saved), pc["retry"] = "idle"
             PROVE  p \in Range(disk'["path"].list)
  BY DEF ReturnsStored
<1>1. Replace("menu")
  <2>1. saved' # saved
    OBVIOUS
  <2>2. ASSUME NEW w \in Writer, WriteStep(w) PROVE Replace("menu")
    BY <2>1, <2>2
       DEF WriteStep, OpenTmp, Flush, Replace, TmpGone, historyVars, Writer
  <2>3. ~Network
    BY <2>1 DEF Network, ReceiveRequest, ReceiveLate, Count, VoteElsewhere,
                LinkChanges, historyVars
  <2>4. \A q \in Vote : ~SaveVote(q)
    BY <2>1 DEF SaveVote
  <2>5. RetryStep => WriteStep("retry")
    BY <2>1 DEF RetryStep, ReadBuffer, ConnectFails, Publish, HandleAnswer,
                Timeout, RoundEnds, NextVote, historyVars
  <2>6. QED BY <2>2, <2>3, <2>4, <2>5 DEF MenuStep, Writer
<1>2. /\ items["menu"] \in Seq(Vote) /\ items["menu"] # <<>> /\ saved \in Seq(Vote)
      /\ disk \in [Name -> Content]
  BY <1>1 DEF Replace, OwnerInv, TypeOK, Writer
<1>3. disk["tmp"] = Json(items["menu"])
  BY <1>1 DEF Replace, OwnerInv, Writer
<1>4. disk'["path"].list = items["menu"]
  BY <1>1, <1>2, <1>3 DEF Replace, Json, Name
<1>5. LET e == items["menu"][Len(items["menu"])] IN
      e \in Vote /\ e \in Range(items["menu"]) /\ saved' = Append(saved, e)
  <2>1. Len(items["menu"]) \in 1..Len(items["menu"])
    BY <1>2, EmptySeq, LenProperties
  <2>2. QED BY <1>1, <1>2, <2>1, ElementOfSeq, LenProperties DEF Replace, Range
<1>6. p = items["menu"][Len(items["menu"])]
  BY <1>2, <1>5, RangeAppend
<1>7. QED BY <1>4, <1>5, <1>6

(* However the two threads overlap, without faults, save_vote that returns    *)
(* while no round is under way has put its vote into the file.               *)
THEOREM SaveDurableHolds == OverlapSpec => SaveIsDurable
<1>1. OwnerInv /\ [MenuStep \/ RetryStep \/ Network]_bufferVars => [ReturnsStored]_bufferVars
  BY OwnerStored
<1>2. [ReturnsStored]_bufferVars
        => [\A p \in Vote :
              /\ p \in Range(saved') \ Range(saved)
              /\ pc["retry"] = "idle"
              => p \in Range(disk'["path"].list)]_bufferVars
  BY DEF ReturnsStored
<1>3. QED
  BY <1>1, <1>2, InitOwner, OwnerStep, PTL DEF OverlapSpec, SaveIsDurable
=============================================================================
