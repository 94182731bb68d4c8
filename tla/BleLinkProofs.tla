----------------------------- MODULE BleLinkProofs -----------------------------
(***************************************************************************)
(* Proofs about BleLink, for all depths, chunk sizes, lengths and limits:  *)
(* its types, that the mode is that of the connection, that a reply is not *)
(* announced as whole when it is not, and what one connection can leave    *)
(* behind for the next.                                                    *)
(***************************************************************************)
EXTENDS BleLink, FiniteSetTheorems, SequenceTheorems, TLAPS

Pcs == Sending \cup Quiets
Tasks == [pc : Pcs, conn : 0..MaxConnects, since : 0..MaxConnects, chunk : 0..MaxChunk,
          left : Nat, read : Nat, lines : Nat, line : Nat, size : Nat,
          retries : 0..NotifyRetryLimit]

\* Connections are counted from 1, and the command task knows of none to come.
EpochInv ==
  /\ connected => epoch > 0
  /\ task.since <= epoch

\* A mode other than "detecting" is set by the command task alone, so the mode stays
\* that while it tests the time.  What it took or read in an earlier connection is
\* still in its hands only if the new connection caught it there.
Timing == {"clock", "passed?", "judge", "detect"}
ModeInv ==
  /\ task.pc \in Timing => g_app_mode = "detecting"
  /\ connected =>
       /\ g_app_mode = "telematics" => took \/ caught = "command"
       /\ took => g_app_mode = "telematics"
       /\ g_app_mode = "speedo" \/ task.pc = "detect" => caught = "clock" \/ connect_time = "old"
       /\ task.pc \in {"passed?", "judge"} => task.since = epoch \/ caught = "clock"
       /\ task.pc = "taken" => task.since = epoch \/ caught = "command"

\* Of a file, what this connection accepted and what is left are all of it, if the file
\* was asked for in it; of the live stream, only a single line is longer than the chunk.
Own == task.since = epoch
FileInv ==
  /\ task.pc = "header" => sent = 0
  /\ task.pc \in {"file", "data"} /\ Own => sent + task.left = task.size
  /\ task.pc \in {"newline", "end"} /\ Own => sent = task.size \/ torn
  /\ task.pc = "data" => task.read <= task.left /\ task.read <= task.chunk
StreamInv ==
  /\ task.pc \in Packed \cup {"pack"} =>
       /\ task.left <= task.chunk \/ task.lines <= 1
       /\ task.left = 0 <=> task.lines = 0
       /\ task.lines * ShortestLine <= task.left
  /\ task.pc = "flush" => task.line >= ShortestLine

-----------------------------------------------------------------------------
(* The types. *)

\* What one notification carries at most is a length.
LEMMA ChunkType ==
  ASSUME LinkTypeOK
  PROVE  ChunkSize \in 0..MaxChunk
BY LinkLimits, LinkData DEF LinkTypeOK, ChunkSize, Least

\* The parts of LinkTypeOK that are not about the task.
Booleans == connected \in BOOLEAN /\ took \in BOOLEAN /\ torn \in BOOLEAN /\ hasty \in BOOLEAN
Mode == g_app_mode \in {"detecting", "telematics", "speedo"}
LinkFields == /\ negotiated_mtu \in Mtus \cup {DefaultChunk + 3}
              /\ connect_time \in {"zero", "recent", "old"} /\ epoch \in 0..MaxConnects
              /\ (connected <=> connect_time # "zero")
Commands == /\ cmd_queue \in Seq(1..MaxConnects) /\ Len(cmd_queue) <= CmdQueueDepth
            /\ written \in 0..MaxCommands
Stream == /\ g_ble_live_queue \in Seq(1..MaxConnects) /\ Len(g_ble_live_queue) <= LiveQueueDepth
          /\ offer \in 0..MaxConnects
Counts == /\ sent \in Nat /\ strangers \in Nat /\ relics \in Nat
          /\ caught \in {"none", "command", "clock"}
LinkParts == Booleans /\ Mode /\ LinkFields /\ Commands /\ Stream /\ Counts /\ task \in Tasks

LEMMA Divided == (LinkTypeOK /\ task \in Tasks) <=> LinkParts
<1>1. task \in Tasks => /\ task.pc \in Sending \cup Quiets
                        /\ task.conn \in 0..MaxConnects /\ task.since \in 0..MaxConnects
                        /\ task.chunk \in 0..MaxChunk /\ task.retries \in 0..NotifyRetryLimit
                        /\ {task.left, task.read, task.lines, task.line, task.size} \subseteq Nat
  BY DEF Tasks, Pcs
<1> QED BY <1>1 DEF LinkTypeOK, LinkParts, Booleans, Mode, LinkFields, Commands, Stream, Counts

\* The live frames in the hands of the command task are a number.
LEMMA PackedType == ASSUME task \in Tasks PROVE PackedFrames \in Nat
BY DEF Tasks, PackedFrames

\* What the host, the clock and the logger do keeps the types.
LEMMA HostType ==
  ASSUME LinkParts, EpochInv, Host \/ ThreeSeconds \/ OfferFrame \/ QueueFrame
  PROVE  LinkParts' /\ EpochInv'
<1> USE LinkLimits, LinkData DEF LinkParts, EpochInv, link, live, reply, inherited
<1>1. CASE Connect
  <2>1. Booleans' /\ Mode'
    <3>1. connected' = TRUE /\ took' = FALSE /\ torn' = torn /\ hasty' = hasty
      BY <1>1, Zenon DEF Connect, Meet
    <3> QED BY <1>1, <3>1 DEF Connect, Booleans, Mode
  <2>2. LinkFields'  BY <1>1 DEF Connect, Booleans, LinkFields
  <2>3. Commands' /\ Stream'  BY <1>1 DEF Connect, Commands, Stream
  <2>4. Counts'  BY <1>1, PackedType DEF Connect, Meet, Counts, Stream
  <2>5. EpochInv'  BY <1>1 DEF Connect, LinkFields, Tasks
  <2> QED BY <1>1, <2>1, <2>2, <2>3, <2>4, <2>5 DEF Connect, Tasks
<1>2. CASE Disconnect
  <2>1. Booleans' /\ Mode'  BY <1>2 DEF Disconnect, Booleans, Mode
  <2>2. LinkFields'  BY <1>2 DEF Disconnect, Booleans, LinkFields
  <2>3. Commands' /\ Stream' /\ Counts'  BY <1>2 DEF Disconnect, Commands, Stream, Counts
  <2>4. EpochInv'  BY <1>2 DEF Disconnect
  <2> QED BY <1>2, <2>1, <2>2, <2>3, <2>4 DEF Disconnect, Tasks
<1>3. CASE MtuExchanged
  <2>1. Booleans' /\ Mode' /\ LinkFields'  BY <1>3 DEF MtuExchanged, Booleans, Mode, LinkFields
  <2>2. Commands' /\ Stream' /\ Counts'  BY <1>3 DEF MtuExchanged, Commands, Stream, Counts
  <2> QED BY <1>3, <2>1, <2>2 DEF MtuExchanged, Tasks
<1>4. CASE ReceiveCommand
  <2>1. Booleans' /\ Mode' /\ LinkFields'  BY <1>4 DEF ReceiveCommand, Booleans, Mode, LinkFields
  <2>2. Stream' /\ Counts'  BY <1>4 DEF ReceiveCommand, Stream, Counts
  <2>3. Commands'
    <3>1. epoch \in 1..MaxConnects  BY <1>4 DEF ReceiveCommand, LinkFields
    <3>2. CASE Len(cmd_queue) < CmdQueueDepth
      <4>1. cmd_queue' = Append(cmd_queue, epoch)  BY <1>4, <3>2 DEF ReceiveCommand
      <4>2. Len(cmd_queue') = Len(cmd_queue) + 1  BY <4>1, <3>1 DEF Commands
      <4> QED BY <1>4, <3>1, <3>2, <4>1, <4>2 DEF ReceiveCommand, Commands
    <3>3. CASE ~(Len(cmd_queue) < CmdQueueDepth)
      BY <1>4, <3>3 DEF ReceiveCommand, Commands
    <3> QED BY <3>2, <3>3
  <2> QED BY <1>4, <2>1, <2>2, <2>3 DEF ReceiveCommand, Tasks
<1>5. CASE ThreeSeconds
  <2>1. Booleans' /\ Mode' /\ LinkFields'  BY <1>5 DEF ThreeSeconds, Booleans, Mode, LinkFields
  <2>2. Commands' /\ Stream' /\ Counts'  BY <1>5 DEF ThreeSeconds, Commands, Stream, Counts
  <2> QED BY <1>5, <2>1, <2>2 DEF ThreeSeconds, Tasks
<1>6. CASE OfferFrame
  <2>1. Booleans' /\ Mode' /\ LinkFields'  BY <1>6 DEF OfferFrame, Booleans, Mode, LinkFields
  <2>2. Commands' /\ Stream' /\ Counts'  BY <1>6 DEF OfferFrame, Commands, Stream, Counts, LinkFields
  <2> QED BY <1>6, <2>1, <2>2 DEF OfferFrame, Tasks
<1>7. CASE QueueFrame
  <2>1. Booleans' /\ Mode' /\ LinkFields'  BY <1>7 DEF QueueFrame, Booleans, Mode, LinkFields
  <2>2. Commands' /\ Counts'  BY <1>7 DEF QueueFrame, Commands, Counts
  <2>3. Stream'
    <3>1. offer \in 1..MaxConnects  BY <1>7 DEF QueueFrame, Stream
    <3>2. CASE Len(g_ble_live_queue) < LiveQueueDepth
      <4>1. g_ble_live_queue' = Append(g_ble_live_queue, offer)  BY <1>7, <3>2 DEF QueueFrame
      <4>2. Len(g_ble_live_queue') = Len(g_ble_live_queue) + 1  BY <4>1, <3>1 DEF Stream
      <4> QED BY <1>7, <3>1, <3>2, <4>1, <4>2 DEF QueueFrame, Stream
    <3>3. CASE ~(Len(g_ble_live_queue) < LiveQueueDepth)
      BY <1>7, <3>3 DEF QueueFrame, Stream
    <3> QED BY <3>2, <3>3
  <2> QED BY <1>7, <2>1, <2>2, <2>3 DEF QueueFrame, Tasks
<1> QED BY <1>1, <1>2, <1>3, <1>4, <1>5, <1>6, <1>7 DEF Host

\* A notification leaves everything alone but the task and what was sent.
Quiet == UNCHANGED <<connected, negotiated_mtu, connect_time, epoch, g_ble_live_queue, offer,
                     g_app_mode, cmd_queue, written, took, caught, strangers, relics, hasty>>

LEMMA QuietType ==
  ASSUME LinkParts, EpochInv, Quiet, task' \in Tasks, sent' \in Nat, torn' \in BOOLEAN,
         task'.since \in {0, task.since, epoch}
  PROVE  LinkParts' /\ EpochInv'
<1>1. Booleans' /\ Mode' /\ LinkFields'  BY DEF LinkParts, Quiet, Booleans, Mode, LinkFields
<1>2. Commands' /\ Stream' /\ Counts'  BY DEF LinkParts, Quiet, Commands, Stream, Counts
<1>3. EpochInv'  BY DEF EpochInv, Quiet, LinkParts, LinkFields
<1> QED BY <1>1, <1>2, <1>3 DEF LinkParts

\* A new thing to say, a task at rest, and what follows a string or piece, are tasks.
LEMMA Zero == 0 \in 0..NotifyRetryLimit /\ 0 \in 0..MaxChunk /\ 0 \in Nat /\ 1 \in Nat
BY LinkLimits

\* Of the control points these lead to none that is about the mode.
Deaf == Pcs \ (Timing \cup {"taken"})

LEMMA SayType ==
  ASSUME task \in Tasks, NEW pc \in Pcs, NEW n \in Nat
  PROVE  Say(pc, n) \in Tasks /\ Say(pc, n).pc = pc /\ Say(pc, n).since = task.since
BY Zero DEF Say, Tasks

LEMMA IdleType ==
  /\ Idle \in Tasks /\ Idle.pc = "wait" /\ Idle.since = 0
  /\ \A pc \in Pcs : /\ [Idle EXCEPT !.pc = pc] \in Tasks /\ [Idle EXCEPT !.pc = pc].pc = pc
                     /\ [Idle EXCEPT !.pc = pc].since = 0
BY LinkLimits, LinkData DEF Idle, Tasks, Pcs, Quiets

LEMMA Points ==
  /\ Sending \cup {"wait", "file", "pack"} \subseteq Deaf /\ Deaf \subseteq Pcs
  /\ Quiets \subseteq Pcs /\ Packed \subseteq Sending /\ Strings \subseteq Sending
BY DEF Deaf, Pcs, Quiets, Sending, Strings, Packed, Timing

LEMMA FollowedType ==
  ASSUME task \in Tasks, task.pc = "data" => task.read <= task.left
  PROVE  Followed \in Tasks /\ Followed.pc \in Deaf /\ Followed.since \in {0, task.since}
<1> USE DEF Followed
<1> DEFINE packing == [task EXCEPT !.pc = "pack", !.left = task.line, !.lines = 1,
                                   !.line = 0, !.retries = 0]
           rest == [task EXCEPT !.pc = "file", !.left = @ - task.read, !.read = 0, !.retries = 0]
<1>1. {"file", "end", "pack"} \subseteq Pcs \cap Deaf
  BY Points DEF Sending, Strings
<1>2. CASE task.pc = "header"
  <2>1. Followed = Say("file", task.size) /\ task.size \in Nat  BY <1>2 DEF Tasks
  <2> QED BY <1>1, <2>1, SayType
<1>3. CASE task.pc = "data"
  <2>1. Followed = rest /\ task.left - task.read \in Nat  BY <1>3 DEF Tasks
  <2>2. rest \in Tasks /\ rest.pc = "file" /\ rest.since = task.since
    BY <1>1, <2>1, Zero DEF Tasks
  <2> QED BY <1>1, <2>1, <2>2
<1>4. CASE task.pc = "newline"
  <2>1. Followed = Say("end", 1)  BY <1>4
  <2> QED BY <1>1, <2>1, SayType
<1>5. CASE task.pc = "flush"
  <2>1. Followed = packing  BY <1>5
  <2>2. packing \in Tasks /\ packing.pc = "pack" /\ packing.since = task.since
    BY <1>1, Zero DEF Tasks
  <2> QED BY <1>1, <2>1, <2>2
<1>6. CASE task.pc \notin {"header", "data", "newline", "flush"}
  <2>1. Followed = Idle  BY <1>6 DEF Ended
  <2> QED BY <2>1, IdleType, Points
<1> QED BY <1>2, <1>3, <1>4, <1>5, <1>6

\* The notifications keep the types.
LEMMA NotifyingType ==
  ASSUME LinkParts, EpochInv, FileInv, Notifying
  PROVE  LinkParts' /\ EpochInv' /\ Quiet /\ task'.pc \in Deaf
<1>0. /\ task \in Tasks /\ sent \in Nat /\ torn \in BOOLEAN
      /\ (task.pc = "data" => task.read <= task.left)
  BY DEF LinkParts, Counts, Booleans, FileInv
<1> USE Points
<1>1. CASE ReadChunk
  <2>1. ChunkSize \in 0..MaxChunk  BY ChunkType, Divided
  <2>2. task' \in Tasks /\ task'.pc = task.pc /\ task'.since = task.since
    BY <1>0, <1>1, <2>1 DEF ReadChunk, Tasks
  <2>3. Quiet /\ sent' = sent /\ torn' = torn  BY <1>1 DEF ReadChunk, Quiet, link, live, reply, inherited
  <2>4. task'.pc \in Deaf  BY <1>1, <2>2 DEF ReadChunk
  <2> QED BY <1>0, <2>2, <2>3, <2>4, QuietType
<1>2. CASE Accepted
  <2>1. Quiet /\ torn' = torn  BY <1>2 DEF Accepted, Quiet, link, live, inherited
  <2>2. Piece \in Nat /\ (task.pc \in Strings => Piece <= task.left)
    BY <1>0 DEF Piece, Least, Tasks, Strings, Packed
  <2>3. sent' \in Nat  BY <1>0, <1>2, <2>2 DEF Accepted
  <2>4. task' \in Tasks /\ task'.pc \in Deaf /\ task'.since \in {0, task.since}
    <3>1. CASE task.pc \in Strings /\ Piece < task.left
      <4>1. task' = [task EXCEPT !.left = @ - Piece, !.retries = 0]  BY <1>2, <3>1 DEF Accepted
      <4>2. task.left - Piece \in Nat  BY <1>0, <2>2, <3>1 DEF Tasks
      <4>3. task'.pc = task.pc /\ task'.since = task.since  BY <1>0, <4>1 DEF Tasks
      <4> QED BY <1>0, <3>1, <4>1, <4>2, <4>3, Zero DEF Tasks
    <3>2. CASE ~(task.pc \in Strings /\ Piece < task.left)
      <4>1. task' = Followed  BY <1>2, <3>2 DEF Accepted
      <4> QED BY <1>0, <4>1, FollowedType
    <3> QED BY <3>1, <3>2
  <2> QED BY <1>0, <2>1, <2>3, <2>4, QuietType
<1>3. CASE NoBuffer
  <2>1. Quiet /\ sent' = sent /\ torn' = torn  BY <1>3 DEF NoBuffer, Quiet, link, live, reply, inherited
  <2>2. task' = [task EXCEPT !.retries = @ + 1] /\ task.retries < NotifyRetryLimit
        /\ task.pc \in Sending
    BY <1>3 DEF NoBuffer
  <2>3. task.retries + 1 \in 0..NotifyRetryLimit  BY <1>0, <2>2, LinkLimits DEF Tasks
  <2>4. task' \in Tasks /\ task'.pc = task.pc /\ task'.since = task.since
    BY <1>0, <2>2, <2>3 DEF Tasks
  <2> QED BY <1>0, <2>1, <2>2, <2>4, QuietType
<1>4. CASE Refused
  <2>1. Quiet /\ sent' = sent /\ torn' = torn  BY <1>4 DEF Refused, Quiet, link, live, reply, inherited
  <2>2. "end" \in Pcs \cap Deaf  BY DEF Sending, Strings
  <2>3. task' = Say("end", 1) \/ task' = Idle  BY <1>4 DEF Refused, Ended
  <2>4. task' \in Tasks /\ task'.pc \in Deaf /\ task'.since \in {0, task.since}
    BY <1>0, <2>2, <2>3, SayType, IdleType
  <2> QED BY <1>0, <2>1, <2>4, QuietType
<1>5. CASE ReadFile
  <2>1. Quiet /\ sent' = sent  BY <1>5 DEF ReadFile, Quiet, link, live, inherited
  <2>2. torn' \in BOOLEAN
    <3>1. (task.left > 0) \in BOOLEAN
      OBVIOUS
    <3>2. torn' = torn \/ torn' = (task.left > 0)  BY <1>5 DEF ReadFile
    <3>3. CASE torn' = torn  BY <1>0, <3>3
    <3>4. CASE torn' = (task.left > 0)  BY <3>1, <3>4, Zenon
    <3> QED BY <3>2, <3>3, <3>4
  <2>3. {"data", "end", "newline"} \subseteq Pcs \cap Deaf  BY DEF Sending, Strings
  <2>4. \/ \E n \in 1..Least(task.chunk, task.left) :
             task' = [task EXCEPT !.pc = "data", !.read = n]
        \/ task' = Say("end", 1) \/ task' = Say("newline", 1)
    BY <1>5 DEF ReadFile
  <2>5. task' \in Tasks /\ task'.pc \in Deaf /\ task'.since = task.since
    <3>1. CASE \E n \in 1..Least(task.chunk, task.left) :
                 task' = [task EXCEPT !.pc = "data", !.read = n]
      <4>1. PICK n \in 1..Least(task.chunk, task.left) :
              task' = [task EXCEPT !.pc = "data", !.read = n]
        BY <3>1
      <4>2. n \in Nat
        <5>1. Least(task.chunk, task.left) \in Int  BY <1>0 DEF Least, Tasks
        <5> QED BY <5>1
      <4> QED BY <1>0, <2>3, <4>1, <4>2 DEF Tasks
    <3>2. CASE task' = Say("end", 1) \/ task' = Say("newline", 1)
      BY <1>0, <2>3, <3>2, SayType
    <3> QED BY <2>4, <3>1, <3>2
  <2> QED BY <1>0, <2>1, <2>2, <2>5, QuietType
<1> QED BY <1>1, <1>2, <1>3, <1>4, <1>5 DEF Notifying

LEMMA HeadType ==
  ASSUME NEW S, NEW q \in Seq(S), q # <<>>
  PROVE  Head(q) \in S
OBVIOUS

\* Taking a command and dispatching it keep the types.
LEMMA CommandType ==
  ASSUME LinkParts, EpochInv, Take \/ Dispatch
  PROVE  LinkParts' /\ EpochInv'
<1>0. task \in Tasks /\ "taken" \in Pcs /\ "text" \in Pcs /\ "header" \in Pcs
  BY DEF LinkParts, Pcs, Quiets, Sending, Strings
<1>1. CASE Take
  <2>0. cmd_queue \in Seq(1..MaxConnects) /\ cmd_queue # <<>>
    BY <1>1 DEF Take, LinkParts, Commands
  <2>h. Head(cmd_queue) \in 1..MaxConnects  BY <2>0, HeadType
  <2>1. Head(cmd_queue) \in 0..MaxConnects /\ epoch \in 0..MaxConnects
    BY <2>h DEF LinkParts, LinkFields
  <2>2. Booleans' /\ Mode' /\ LinkFields'
    BY <1>1 DEF Take, LinkParts, Booleans, Mode, LinkFields, link, reply
  <2>3. Commands'
    <3>1. cmd_queue' = Tail(cmd_queue) /\ written' = written  BY <1>1 DEF Take
    <3>2. cmd_queue' \in Seq(1..MaxConnects) /\ Len(cmd_queue') <= Len(cmd_queue)
      BY <2>0, <3>1
    <3> QED BY <3>1, <3>2, <2>0, LinkLimits DEF LinkParts, Commands
  <2>4. Stream' /\ Counts'
    <3>1. Stream' /\ UNCHANGED <<sent, caught, relics>>
      BY <1>1 DEF Take, LinkParts, Stream, live, reply
    <3>2. strangers \in Nat  BY DEF LinkParts, Counts
    <3>3. strangers' = strangers + 1 \/ strangers' = strangers  BY <1>1 DEF Take
    <3> QED BY <3>1, <3>2, <3>3 DEF LinkParts, Counts
  <2>5. task' \in Tasks /\ task'.since = epoch
    <3>1. task' = [Idle EXCEPT !.pc = "taken", !.conn = Head(cmd_queue), !.since = epoch]
      BY <1>1 DEF Take
    <3> QED BY <1>0, <2>1, <3>1, IdleType DEF Tasks
  <2>6. EpochInv'  BY <1>1, <2>1, <2>5 DEF Take, EpochInv, link
  <2> QED BY <2>2, <2>3, <2>4, <2>5, <2>6 DEF LinkParts
<1>2. CASE Dispatch
  <2>1. Booleans'
    <3>1. took' \in BOOLEAN /\ torn' = FALSE  BY <1>2, Zenon DEF Dispatch
    <3> QED BY <1>2, <3>1 DEF Dispatch, LinkParts, Booleans, link
  <2>2. Mode' /\ LinkFields'  BY <1>2 DEF Dispatch, LinkParts, Mode, LinkFields, link
  <2>3. Commands' /\ Stream' /\ Counts'
    BY <1>2 DEF Dispatch, LinkParts, Commands, Stream, Counts, live, inherited
  <2>4. task' \in Tasks /\ task'.since = task.since
    <3>1. CASE \E n \in ReplyLens : task' = [task EXCEPT !.pc = "text", !.left = n]
      <4>1. PICK n \in ReplyLens : task' = [task EXCEPT !.pc = "text", !.left = n]
        BY <3>1
      <4>2. n \in Nat  BY LinkData
      <4> QED BY <1>0, <4>1, <4>2 DEF Tasks
    <3>2. CASE \E n \in FileLens :
                 task' = [task EXCEPT !.pc = "header", !.left = 1, !.size = n]
      <4>1. PICK n \in FileLens :
              task' = [task EXCEPT !.pc = "header", !.left = 1, !.size = n]
        BY <3>2
      <4>2. n \in Nat  BY LinkData
      <4> QED BY <1>0, <4>1, <4>2, Zero DEF Tasks
    <3> QED BY <1>2, <3>1, <3>2 DEF Dispatch
  <2>5. EpochInv'  BY <1>2, <2>4 DEF Dispatch, EpochInv, link
  <2> QED BY <2>1, <2>2, <2>3, <2>4, <2>5 DEF LinkParts
<1> QED BY <1>1, <1>2

\* Where the tests lead.
LEMMA TestsType ==
  ASSUME LinkParts, EpochInv, TimedOut \/ TestLinkAndMode \/ TestTime
  PROVE  /\ Quiet /\ sent' = sent /\ torn' = torn
         /\ task' \in Tasks /\ task'.since \in {0, task.since, epoch}
         /\ task'.pc = "clock" => g_app_mode = "detecting"
         /\ task'.pc \in {"passed?", "judge", "detect"} => task.pc \in Timing
         /\ task'.pc = "passed?" => task'.since = epoch
         /\ task'.pc = "judge" => task.pc = "passed?" /\ task'.since = task.since
         /\ task'.pc = "detect" =>
              task.pc = "judge" /\ (connect_time \in {"old", "zero"} \/ task.since # epoch)
         /\ task'.pc \notin Packed \cup {"taken", "header", "file", "data", "newline", "end"}
         /\ task'.pc = "pack" => task'.left = 0 /\ task'.lines = 0 /\ task'.chunk = 0
<1>0. task \in Tasks /\ epoch \in 0..MaxConnects  BY DEF LinkParts, LinkFields
<1>p. {"link?", "detecting?", "clock", "speedo?", "pack", "telematics?", "heartbeat",
       "passed?", "judge", "detect"} \subseteq Pcs
  BY DEF Pcs, Quiets, Sending, Strings
<1>q. Quiet /\ sent' = sent /\ torn' = torn
  BY DEF TimedOut, TestLinkAndMode, TestTime, Quiet, link, live, reply, inherited
<1>1. CASE TimedOut
  <2>1. task' = [Idle EXCEPT !.pc = "link?"]  BY <1>1 DEF TimedOut
  <2> QED BY <1>p, <1>q, <2>1, IdleType DEF Packed
<1>2. CASE TestLinkAndMode
  <2>1. \/ task' = Idle
        \/ \E pc \in {"detecting?", "speedo?", "telematics?"} : task' = [Idle EXCEPT !.pc = pc]
        \/ task' = [Idle EXCEPT !.pc = "clock"] /\ g_app_mode = "detecting"
        \/ task' = [Idle EXCEPT !.pc = "pack"]
        \/ task' = [Idle EXCEPT !.pc = "heartbeat", !.left = 1]
    BY <1>2 DEF TestLinkAndMode
  <2>2. CASE task' = Idle
    BY <1>q, <2>2, IdleType DEF Packed
  <2>3. CASE \E pc \in {"detecting?", "speedo?", "telematics?"} : task' = [Idle EXCEPT !.pc = pc]
    <3>1. /\ task' \in Tasks /\ task'.since = 0
          /\ task'.pc \in {"detecting?", "speedo?", "telematics?"}
      BY <1>p, <2>3, IdleType
    <3> QED BY <1>q, <3>1 DEF Packed
  <2>4. CASE task' = [Idle EXCEPT !.pc = "clock"] /\ g_app_mode = "detecting"
    <3>1. task' \in Tasks /\ task'.since = 0 /\ task'.pc = "clock"  BY <1>p, <2>4, IdleType
    <3> QED BY <1>q, <2>4, <3>1 DEF Packed
  <2>5. CASE task' = [Idle EXCEPT !.pc = "pack"]
    <3>1. task' \in Tasks /\ task'.since = 0 /\ task'.pc = "pack"  BY <1>p, <2>5, IdleType
    <3>2. task'.left = 0 /\ task'.lines = 0 /\ task'.chunk = 0  BY <2>5 DEF Idle
    <3> QED BY <1>q, <3>1, <3>2 DEF Packed
  <2>6. CASE task' = [Idle EXCEPT !.pc = "heartbeat", !.left = 1]
    <3>1. task' \in Tasks /\ task'.since = 0 /\ task'.pc = "heartbeat"
      BY <1>p, <2>6, IdleType, Zero DEF Tasks
    <3> QED BY <1>q, <3>1 DEF Packed
  <2> QED BY <2>1, <2>2, <2>3, <2>4, <2>5, <2>6
<1>3. CASE TestTime
  <2>1. CASE task.pc = "clock" /\ task' = [Idle EXCEPT !.pc = "passed?", !.since = epoch]
    <3>1. task' \in Tasks /\ task'.pc = "passed?" /\ task'.since = epoch
      BY <1>0, <1>p, <2>1, IdleType DEF Tasks
    <3> QED BY <1>q, <2>1, <3>1 DEF Packed, Timing
  <2>2. CASE task.pc = "passed?" /\ task' = [task EXCEPT !.pc = "judge"]
    <3>1. task' \in Tasks /\ task'.pc = "judge" /\ task'.since = task.since
      BY <1>0, <1>p, <2>2 DEF Tasks
    <3> QED BY <1>q, <2>2, <3>1 DEF Packed, Timing
  <2>3. CASE /\ task.pc = "judge" /\ task' = [task EXCEPT !.pc = "detect"]
             /\ connect_time \in {"old", "zero"} \/ task.since # epoch
    <3>1. task' \in Tasks /\ task'.pc = "detect" /\ task'.since = task.since
      BY <1>0, <1>p, <2>3 DEF Tasks
    <3> QED BY <1>q, <2>3, <3>1 DEF Packed, Timing
  <2>4. CASE task' = Idle
    BY <1>q, <2>4, IdleType DEF Packed
  <2> QED BY <1>3, <2>1, <2>2, <2>3, <2>4 DEF TestTime
<1> QED BY <1>1, <1>2, <1>3

\* The rest of the loop keeps the types.
LEMMA LoopType ==
  ASSUME LinkParts, EpochInv, TimedOut \/ Detecting \/ PackLine \/ PackEnds
  PROVE  LinkParts' /\ EpochInv'
<1>0. task \in Tasks /\ sent \in Nat /\ torn \in BOOLEAN  BY DEF LinkParts, Counts, Booleans
<1>p. {"pack", "flush", "last"} \subseteq Pcs
  BY DEF Pcs, Quiets, Sending, Packed
<1>2. CASE TimedOut \/ TestLinkAndMode \/ TestTime
  BY <1>0, <1>2, TestsType, QuietType
<1>3. CASE EnterSpeedo
  <2>1. Booleans'
    <3>1. hasty' \in BOOLEAN  BY <1>3, Zenon DEF EnterSpeedo
    <3> QED BY <1>3, <3>1 DEF EnterSpeedo, LinkParts, Booleans, link, reply
  <2>2. Mode' /\ LinkFields'  BY <1>3 DEF EnterSpeedo, LinkParts, Mode, LinkFields, link
  <2>3. Commands' /\ Stream' /\ Counts'
    BY <1>3 DEF EnterSpeedo, LinkParts, Commands, Stream, Counts, live, reply, inherited
  <2>4. task' = Idle  BY <1>3 DEF EnterSpeedo
  <2>5. EpochInv'  BY <1>3, <2>4, IdleType DEF EnterSpeedo, EpochInv, link, LinkParts, LinkFields
  <2> QED BY <2>1, <2>2, <2>3, <2>4, <2>5, IdleType DEF LinkParts
<1>4. CASE PackLine
  <2>1. PICK n \in LineLens :
          task' = IF task.left > 0 /\ task.left + n > task.chunk
                  THEN [task EXCEPT !.pc = "flush", !.line = n]
                  ELSE [task EXCEPT !.left = @ + n, !.lines = @ + 1]
    BY <1>4 DEF PackLine
  <2>2. n \in Nat /\ task.left + n \in Nat /\ task.lines + 1 \in Nat
    BY <1>0, LinkData DEF Tasks
  <2>3. task' \in Tasks /\ task'.since = task.since
    <3>1. CASE task.left > 0 /\ task.left + n > task.chunk
      <4>1. task' = [task EXCEPT !.pc = "flush", !.line = n]  BY <2>1, <3>1
      <4> QED BY <1>0, <1>p, <2>2, <4>1 DEF Tasks
    <3>2. CASE ~(task.left > 0 /\ task.left + n > task.chunk)
      <4>1. task' = [task EXCEPT !.left = @ + n, !.lines = @ + 1]  BY <2>1, <3>2
      <4>2. task'.pc = "pack"  BY <1>0, <1>4, <4>1 DEF PackLine, Tasks
      <4> QED BY <1>0, <2>2, <4>1, <4>2 DEF Tasks
    <3> QED BY <3>1, <3>2
  <2>4. Stream'
    <3>1. g_ble_live_queue' = Tail(g_ble_live_queue) /\ g_ble_live_queue # <<>>
          /\ offer' = offer
      BY <1>4 DEF PackLine
    <3>2. g_ble_live_queue' \in Seq(1..MaxConnects)
          /\ Len(g_ble_live_queue') <= Len(g_ble_live_queue)
      BY <3>1 DEF LinkParts, Stream
    <3> QED BY <3>1, <3>2, LinkLimits DEF LinkParts, Stream
  <2>5. Booleans' /\ Mode' /\ LinkFields'  BY <1>4 DEF PackLine, LinkParts, Booleans, Mode, LinkFields, link, reply
  <2>6. Commands' /\ Counts'  BY <1>4 DEF PackLine, LinkParts, Commands, Counts, reply, inherited
  <2>7. EpochInv'  BY <1>4, <2>3 DEF PackLine, EpochInv, link
  <2> QED BY <2>3, <2>4, <2>5, <2>6, <2>7 DEF LinkParts
<1>5. CASE PackEnds
  <2>1. Quiet /\ sent' = sent /\ torn' = torn
    BY <1>5 DEF PackEnds, Quiet, link, live, reply, inherited
  <2>2. task' = [task EXCEPT !.pc = "last"] \/ task' = Idle  BY <1>5 DEF PackEnds
  <2>3. task' \in Tasks /\ task'.since \in {0, task.since}  BY <1>0, <1>p, <2>2, IdleType DEF Tasks
  <2> QED BY <1>0, <2>1, <2>3, QuietType
<1> QED BY <1>2, <1>3, <1>4, <1>5 DEF Detecting

-----------------------------------------------------------------------------
(* Replies and the live stream. *)

\* The rest of the host, the clock and the logger leave task, file and connection alone.
LEMMA OthersAside ==
  ASSUME Disconnect \/ MtuExchanged \/ ReceiveCommand \/ ThreeSeconds \/ OfferFrame \/ QueueFrame
  PROVE  task' = task /\ sent' = sent /\ torn' = torn /\ epoch' = epoch
BY DEF Disconnect, MtuExchanged, ReceiveCommand, ThreeSeconds, OfferFrame, QueueFrame, link,
       reply

LEMMA FollowedInv ==
  ASSUME task \in Tasks, sent \in Nat, FileInv, StreamInv, torn' = torn, epoch' = epoch,
         sent' = IF task.pc = "data" THEN sent + task.read ELSE sent, task' = Followed
  PROVE  FileInv' /\ StreamInv'
<1> USE DEF Followed, FileInv, StreamInv, Packed, Own
<1>1. CASE task.pc = "header"
  <2>1. /\ task'.pc = "file" /\ task'.left = task.size /\ task'.size = task.size
        /\ sent' = 0
    BY <1>1 DEF Say, Tasks
  <2> QED BY <2>1 DEF Tasks
<1>2. CASE task.pc = "data"
  <2>1. task' = [task EXCEPT !.pc = "file", !.left = @ - task.read, !.read = 0, !.retries = 0]
    BY <1>2
  <2>2. /\ task'.pc = "file" /\ task'.size = task.size /\ task'.since = task.since
        /\ task'.left = task.left - task.read /\ sent' = sent + task.read
    BY <1>2, <2>1 DEF Tasks
  <2> QED BY <1>2, <2>2 DEF Tasks
<1>3. CASE task.pc = "newline"
  <2>1. task'.pc = "end" /\ task'.size = task.size /\ sent' = sent /\ task'.since = task.since
    BY <1>3 DEF Say, Tasks
  <2> QED BY <1>3, <2>1
<1>4. CASE task.pc = "flush"
  <2>1. task' = [task EXCEPT !.pc = "pack", !.left = task.line, !.lines = 1, !.line = 0,
                             !.retries = 0]
    BY <1>4
  <2>2. task'.pc = "pack" /\ task'.left = task.line /\ task'.lines = 1
    BY <2>1 DEF Tasks
  <2>3. task.line >= ShortestLine /\ ShortestLine > 0 /\ 1 * ShortestLine = ShortestLine
    BY <1>4, LinkData
  <2>4. task'.lines * ShortestLine = task'.left \/ task'.lines * ShortestLine <= task'.left
    BY <2>2, <2>3
  <2>5. task.line \in Nat /\ ShortestLine \in Nat  BY LinkData DEF Tasks
  <2>6. task'.left # 0 /\ task'.lines = 1 /\ task'.left \in Nat  BY <2>2, <2>3, <2>5
  <2>7. task'.lines * ShortestLine <= task'.left  BY <2>4, <2>6
  <2> QED BY <2>2, <2>6, <2>7 DEF Tasks
<1>5. CASE task.pc \notin {"header", "data", "newline", "flush"}
  <2>1. task'.pc = "wait"  BY <1>5 DEF Ended, Idle
  <2> QED BY <2>1
<1> QED BY <1>1, <1>2, <1>3, <1>4, <1>5

LEMMA OneMore ==
  ASSUME NEW n \in Nat, NEW s \in Nat
  PROVE  (n + 1) * s = n * s + s /\ n * s \in Nat
BY SMT

LEMMA WholeStep ==
  ASSUME LinkParts, EpochInv, FileInv, StreamInv, LinkNext
  PROVE  FileInv' /\ StreamInv'
<1>0. task \in Tasks /\ sent \in Nat /\ epoch \in Nat /\ ShortestLine \in Nat /\ ShortestLine > 0
  BY LinkData DEF LinkParts, Counts, LinkFields
<1> USE DEF FileInv, StreamInv, Own
<1>1. CASE Disconnect \/ MtuExchanged \/ ReceiveCommand \/ ThreeSeconds \/ OfferFrame
           \/ QueueFrame
  BY <1>1, OthersAside
<1>2. CASE Connect
  <2>1. task' = task /\ sent' = 0 /\ epoch' = epoch + 1  BY <1>2 DEF Connect, Meet
  <2>2. task.since <= epoch /\ task.since \in Nat  BY <1>0 DEF EpochInv, Tasks
  <2> QED BY <1>0, <2>1, <2>2
<1>3. CASE ReadChunk
  <2>1. task' = [task EXCEPT !.chunk = ChunkSize] /\ task.chunk = 0 /\ UNCHANGED <<sent, torn, epoch>>
        /\ ChunkSize \in Nat
    BY <1>3, ChunkType, Divided DEF ReadChunk, link, reply
  <2>2. UNCHANGED <<task.pc, task.left, task.read, task.lines, task.line, task.size, task.since>>
        /\ task'.chunk = ChunkSize
    BY <1>0, <2>1 DEF Tasks
  <2> QED BY <1>0, <2>1, <2>2 DEF Tasks
<1>4. CASE Accepted
  <2>0. task.pc \in Sending /\ sent' = (IF task.pc = "data" THEN sent + Piece ELSE sent)
        /\ UNCHANGED <<torn, epoch>>
    BY <1>4 DEF Accepted, link
  <2>1. CASE task.pc \in Strings /\ Piece < task.left
    <3>1. task' = [task EXCEPT !.left = @ - Piece, !.retries = 0]  BY <1>4, <2>1 DEF Accepted
    <3>2. UNCHANGED <<task.pc, task.size, task.since>>
      BY <1>0, <3>1 DEF Tasks
    <3>3. task.pc \notin Packed \cup {"pack", "file", "data"}
      BY <2>1 DEF Strings, Packed
    <3> QED BY <2>0, <3>2, <3>3 DEF Packed
  <2>2. CASE ~(task.pc \in Strings /\ Piece < task.left)
    <3>1. task' = Followed  BY <1>4, <2>2 DEF Accepted
    <3>2. task.pc = "data" => Piece = task.read  BY DEF Piece, Packed
    <3>3. sent' = IF task.pc = "data" THEN sent + task.read ELSE sent
      BY <2>0, <3>2
    <3> QED BY <1>0, <2>0, <3>1, <3>3, FollowedInv
  <2> QED BY <2>1, <2>2
<1>5. CASE NoBuffer
  <2>1. task' = [task EXCEPT !.retries = @ + 1] /\ UNCHANGED <<sent, torn, epoch>>
    BY <1>5 DEF NoBuffer, link, reply
  <2>2. UNCHANGED <<task.pc, task.left, task.read, task.lines, task.line, task.size,
                    task.chunk, task.since>>
    BY <1>0, <2>1 DEF Tasks
  <2> QED BY <2>1, <2>2
<1>6. CASE Refused
  <2>1. CASE task.pc = "newline"
    <3>1. task'.pc = "end" /\ task'.size = task.size /\ task'.since = task.since
          /\ UNCHANGED <<sent, torn, epoch>>
      BY <1>0, <1>6, <2>1 DEF Refused, Say, Tasks, link, reply
    <3> QED BY <2>1, <3>1 DEF Packed
  <2>2. CASE task.pc # "newline"
    <3>1. task'.pc = "wait"  BY <1>6, <2>2 DEF Refused, Ended, Idle
    <3> QED BY <3>1 DEF Packed
  <2> QED BY <2>1, <2>2
<1>7. CASE ReadFile
  <2>1. task.pc = "file" /\ sent' = sent /\ epoch' = epoch  BY <1>7 DEF ReadFile, link
  <2>2. CASE \E n \in 1..Least(task.chunk, task.left) :
               task' = [task EXCEPT !.pc = "data", !.read = n]
    <3>1. PICK n \in 1..Least(task.chunk, task.left) :
            task' = [task EXCEPT !.pc = "data", !.read = n]
      BY <2>2
    <3>2. Least(task.chunk, task.left) \in Nat /\ Least(task.chunk, task.left) <= task.chunk
          /\ Least(task.chunk, task.left) <= task.left
      BY <1>0 DEF Least, Tasks
    <3>3. n \in Nat /\ n <= task.chunk /\ n <= task.left
      BY <1>0, <3>2 DEF Tasks
    <3>4. task'.pc = "data" /\ task'.read = n
          /\ UNCHANGED <<task.left, task.size, task.chunk, task.since>>
      BY <1>0, <3>1 DEF Tasks
    <3> QED BY <2>1, <3>3, <3>4 DEF Packed
  <2>3. CASE (task' = Say("end", 1) \/ task' = Say("newline", 1)) /\ torn' = (task.left > 0)
    <3>1. task'.pc \in {"end", "newline"} /\ UNCHANGED <<task.size, task.since>>
      BY <1>0, <2>3 DEF Say, Tasks
    <3>2. CASE task.left > 0
      <4>1. torn'  BY <2>3, <3>2, Zenon
      <4> QED BY <3>1, <4>1 DEF Packed
    <3>3. CASE ~(task.left > 0)
      <4>1. task.left = 0  BY <1>0, <3>3 DEF Tasks
      <4> QED BY <1>0, <2>1, <3>1, <4>1 DEF Packed
    <3> QED BY <3>2, <3>3
  <2> QED BY <1>7, <2>2, <2>3 DEF ReadFile
<1>8. CASE Take
  <2>1. task' = [Idle EXCEPT !.pc = "taken", !.conn = Head(cmd_queue), !.since = epoch]
    BY <1>8 DEF Take
  <2>2. task'.pc = "taken"  BY <2>1 DEF Idle
  <2> QED BY <2>2 DEF Packed
<1>9. CASE Dispatch
  <2>1. \/ \E n \in ReplyLens : task' = [task EXCEPT !.pc = "text", !.left = n]
        \/ \E n \in FileLens : task' = [task EXCEPT !.pc = "header", !.left = 1, !.size = n]
    BY <1>9 DEF Dispatch
  <2>2. task'.pc \in {"text", "header"}  BY <1>0, <2>1 DEF Tasks
  <2>3. sent' = 0  BY <1>9 DEF Dispatch
  <2> QED BY <2>2, <2>3 DEF Packed
<1>10. CASE TimedOut \/ TestLinkAndMode \/ TestTime
  <2>1. /\ task'.pc \notin Packed \cup {"taken", "header", "file", "data", "newline", "end"}
        /\ task'.pc = "pack" => task'.left = 0 /\ task'.lines = 0 /\ task'.chunk = 0
    BY <1>10, TestsType
  <2>2. 0 * ShortestLine = 0  BY <1>0
  <2> QED BY <2>1, <2>2 DEF Packed
<1>11. CASE EnterSpeedo
  <2>1. task'.pc = "wait"  BY <1>11, IdleType DEF EnterSpeedo
  <2> QED BY <2>1 DEF Packed
<1>12. CASE PackLine
  <2>1. PICK n \in LineLens :
          task' = IF task.left > 0 /\ task.left + n > task.chunk
                  THEN [task EXCEPT !.pc = "flush", !.line = n]
                  ELSE [task EXCEPT !.left = @ + n, !.lines = @ + 1]
    BY <1>12 DEF PackLine
  <2>2. n \in Nat /\ n > 0 /\ n >= ShortestLine /\ task.pc = "pack"
    BY <1>12, LinkData DEF PackLine
  <2>3. CASE task.left > 0 /\ task.left + n > task.chunk
    <3>1. task' = [task EXCEPT !.pc = "flush", !.line = n]  BY <2>1, <2>3
    <3>2. UNCHANGED <<task.left, task.lines, task.chunk>> /\ task'.pc = "flush"
          /\ task'.line = n
      BY <1>0, <3>1 DEF Tasks
    <3> QED BY <1>0, <2>2, <2>3, <3>2 DEF Tasks, Packed
  <2>4. CASE ~(task.left > 0 /\ task.left + n > task.chunk)
    <3>1. task' = [task EXCEPT !.left = @ + n, !.lines = @ + 1]  BY <2>1, <2>4
    <3>2. /\ task'.left = task.left + n /\ task'.lines = task.lines + 1
          /\ task'.pc = "pack" /\ task'.chunk = task.chunk
      BY <1>0, <2>2, <3>1 DEF Tasks
    <3>3. task.lines \in Nat /\ task.left \in Nat /\ task.chunk \in Nat  BY <1>0 DEF Tasks
    <3>4. task'.lines * ShortestLine <= task'.left
      <4>1. task'.lines * ShortestLine = task.lines * ShortestLine + ShortestLine
            /\ task.lines * ShortestLine \in Nat
        <5>1. /\ (task.lines + 1) * ShortestLine = task.lines * ShortestLine + ShortestLine
              /\ task.lines * ShortestLine \in Nat
          BY <1>0, <3>3, OneMore, Zenon
        <5> QED BY <3>2, <5>1, Zenon
      <4>2. task.lines * ShortestLine <= task.left  BY <2>2
      <4> DEFINE product == task.lines * ShortestLine
      <4>3. product \in Nat /\ product <= task.left
            /\ task'.lines * ShortestLine = product + ShortestLine
        BY <4>1, <4>2
      <4> HIDE DEF product
      <4> QED BY <1>0, <2>2, <3>2, <3>3, <4>3
    <3>5. task'.left <= task'.chunk \/ task'.lines <= 1
      BY <2>2, <2>4, <3>2, <3>3
    <3>6. task'.left # 0 /\ task'.lines # 0  BY <2>2, <3>2, <3>3
    <3> QED BY <3>2, <3>4, <3>5, <3>6 DEF Packed
  <2> QED BY <2>3, <2>4
<1>13. CASE PackEnds
  <2>1. CASE task.left > 0
    <3>1. task' = [task EXCEPT !.pc = "last"] /\ task.pc = "pack"
      BY <1>13, <2>1 DEF PackEnds
    <3>2. UNCHANGED <<task.left, task.lines, task.chunk>> /\ task'.pc = "last"
      BY <1>0, <3>1 DEF Tasks
    <3> QED BY <3>1, <3>2 DEF Packed
  <2>2. CASE ~(task.left > 0)
    <3>1. task'.pc = "wait"  BY <1>13, <2>2, IdleType DEF PackEnds
    <3> QED BY <3>1 DEF Packed
  <2> QED BY <2>1, <2>2
<1> QED BY <1>1, <1>2, <1>3, <1>4, <1>5, <1>6, <1>7, <1>8, <1>9, <1>10, <1>11, <1>12, <1>13
        DEF LinkNext, Host, CommandTask, Notifying, Detecting

\* The types, and what is known of the file and of the stream, always.
Sound == LinkParts /\ EpochInv /\ FileInv /\ StreamInv
LEMMA Typed == LinkSpec => []Sound
<1>1. LinkInit => Sound
  <2> SUFFICES ASSUME LinkInit PROVE Sound
    OBVIOUS
  <2>1. Booleans
    <3>1. connected = FALSE /\ took = FALSE /\ hasty = FALSE /\ torn = FALSE
      BY Zenon DEF LinkInit
    <3> QED BY <3>1 DEF Booleans
  <2>2. Mode /\ LinkFields /\ Commands /\ Stream /\ Counts
    BY LinkLimits, LinkData DEF LinkInit, Mode, LinkFields, Commands, Stream, Counts
  <2>3. task = Idle  BY DEF LinkInit
  <2>4. EpochInv
    <3>1. connected = FALSE  BY Zenon DEF LinkInit
    <3>2. epoch = 0 /\ task.since = 0  BY <2>3, IdleType DEF LinkInit
    <3> QED BY <3>1, <3>2 DEF EpochInv
  <2>5. FileInv /\ StreamInv  BY <2>3, IdleType DEF FileInv, StreamInv, Packed
  <2> QED BY <2>1, <2>2, <2>3, <2>4, <2>5, IdleType DEF LinkInit, LinkParts, Sound
<1>2. Sound /\ [LinkNext]_linkVars => Sound'
  <2> SUFFICES ASSUME Sound, [LinkNext]_linkVars PROVE Sound'
    OBVIOUS
  <2>1. CASE UNCHANGED linkVars
    <3>1. Quiet /\ task' = task /\ sent' = sent /\ torn' = torn
      BY <2>1 DEF linkVars, link, live, reply, inherited, Quiet
    <3>2. LinkParts' /\ EpochInv'
      BY <3>1, QuietType DEF Sound, LinkParts, Counts, Booleans
    <3>3. FileInv' /\ StreamInv'
      BY <3>1 DEF Quiet, Sound, FileInv, StreamInv, Own
    <3> QED BY <3>2, <3>3 DEF Sound
  <2>2. CASE LinkNext
    <3>1. LinkParts' /\ EpochInv'
      BY <2>2, HostType, NotifyingType, CommandType, LoopType DEF Sound, LinkNext, CommandTask
    <3> QED BY <2>2, <3>1, WholeStep DEF Sound
  <2> QED BY <2>1, <2>2
<1> QED BY <1>1, <1>2, PTL DEF LinkSpec

\* The state of the link stays within its types: LinkTypeOK, for all constants.
THEOREM LinkTyping == LinkSpec => []LinkTypeOK
<1>1. Sound => LinkTypeOK  BY Divided DEF Sound
<1> QED BY <1>1, Typed, PTL

\* To the connection that asked for a file its end is announced only when it accepted all
\* of it or a read failed, and a notification fits the link as far as the code can see:
\* RepliesWhole, for all constants.
THEOREM RepliesWholeAlways == LinkSpec => []RepliesWhole
<1>1. Sound => RepliesWhole
  <2> SUFFICES ASSUME Sound PROVE RepliesWhole
    OBVIOUS
  <2>1. task \in Tasks  BY DEF Sound, LinkParts
  <2>2. task.pc \in {"newline", "end"} /\ task.since = epoch => sent = task.size \/ torn
    BY DEF Sound, FileInv, Own
  <2>3. task.pc \in Sending /\ task.pc \notin Packed => Piece <= task.chunk
    BY <2>1 DEF Sound, FileInv, Piece, Least, Tasks
  <2>4. task.pc \in Packed => task.left <= task.chunk \/ task.lines = 1
    BY <2>1 DEF Sound, StreamInv, Tasks
  <2>5. task.pc \in Packed => Piece = task.left  BY DEF Piece, Packed
  <2>6. task.pc \in Sending /\ task.chunk = ChunkSize =>
          Piece <= ChunkSize \/ (task.pc \in Packed /\ task.lines = 1)
    BY <2>3, <2>4, <2>5
  <2> QED BY <2>2, <2>6 DEF RepliesWhole
<1> QED BY <1>1, Typed, PTL

-----------------------------------------------------------------------------
(* The mode. *)

LEMMA ModeStep ==
  ASSUME Sound, ModeInv, LinkNext
  PROVE  ModeInv'
<1>0. task \in Tasks /\ LinkFields /\ epoch \in Nat  BY DEF Sound, LinkParts, LinkFields
<1> USE DEF ModeInv, Timing
<1>1. CASE Connect
  <2>1. /\ g_app_mode' = "detecting" /\ took' = FALSE /\ task' = task
        /\ caught' = CASE task.pc = "taken" -> "command"
                       [] task.pc \in {"passed?", "judge", "detect"} -> "clock"
                       [] OTHER -> "none"
    BY <1>1, Zenon DEF Connect, Meet
  <2>2. task.pc = "taken" => caught' = "command"  BY <2>1
  <2>3. task.pc \in {"passed?", "judge", "detect"} => caught' = "clock"  BY <2>1
  <2> QED BY <2>1, <2>2, <2>3
<1>2. CASE Disconnect
  <2>1. connected' = FALSE /\ g_app_mode' = "detecting"  BY <1>2, Zenon DEF Disconnect
  <2> QED BY <2>1
<1>3. CASE MtuExchanged \/ ReceiveCommand \/ OfferFrame \/ QueueFrame
  BY <1>3 DEF MtuExchanged, ReceiveCommand, OfferFrame, QueueFrame, link, inherited
<1>4. CASE ThreeSeconds
  BY <1>4 DEF ThreeSeconds, inherited
<1>5. CASE Notifying
  <2>1. Quiet /\ task'.pc \in Deaf  BY <1>5, NotifyingType DEF Sound
  <2> QED BY <2>1 DEF Quiet, Deaf
<1>6. CASE Take
  <2>1. UNCHANGED <<connected, connect_time, epoch, g_app_mode, took, caught>>
    BY <1>6 DEF Take, link, reply
  <2>2. task' = [Idle EXCEPT !.pc = "taken", !.conn = Head(cmd_queue), !.since = epoch]
    BY <1>6 DEF Take
  <2>3. task'.pc = "taken" /\ task'.since = epoch  BY <2>2 DEF Idle
  <2> QED BY <2>1, <2>3
<1>7. CASE Dispatch
  <2>1. /\ UNCHANGED <<connected, connect_time, epoch, caught>> /\ task.pc = "taken"
        /\ g_app_mode' = "telematics"
    BY <1>7 DEF Dispatch, link, inherited
  <2>2. took' = (took \/ task.since = epoch)  BY <1>7, Zenon DEF Dispatch
  <2>3. \/ \E n \in ReplyLens : task' = [task EXCEPT !.pc = "text", !.left = n]
        \/ \E n \in FileLens : task' = [task EXCEPT !.pc = "header", !.left = 1, !.size = n]
    BY <1>7 DEF Dispatch
  <2>4. task'.pc \in {"text", "header"}  BY <1>0, <2>3 DEF Tasks
  <2>5. connected => took' \/ caught' = "command"
    <3>1. connected => task.since = epoch \/ caught = "command"  BY <2>1
    <3>2. task.since = epoch => took'  BY <2>2, Zenon
    <3> QED BY <2>1, <3>1, <3>2
  <2> QED BY <2>1, <2>4, <2>5
<1>8. CASE TimedOut \/ TestLinkAndMode \/ TestTime
  <2>1. /\ Quiet
        /\ task'.pc = "clock" => g_app_mode = "detecting"
        /\ task'.pc \in {"passed?", "judge", "detect"} => task.pc \in Timing
        /\ task'.pc = "passed?" => task'.since = epoch
        /\ task'.pc = "judge" => task.pc = "passed?" /\ task'.since = task.since
        /\ task'.pc = "detect" =>
             task.pc = "judge" /\ (connect_time \in {"old", "zero"} \/ task.since # epoch)
        /\ task'.pc # "taken"
    BY <1>8, TestsType DEF Sound
  <2>2. UNCHANGED <<connected, connect_time, epoch, g_app_mode, took, caught>>
    BY <2>1 DEF Quiet
  <2>3. connected => connect_time # "zero"  BY <1>0 DEF LinkFields
  <2>4. task'.pc \in Timing => g_app_mode' = "detecting"  BY <2>1, <2>2
  <2>5. connected /\ task'.pc = "detect" => caught = "clock" \/ connect_time = "old"
    BY <2>1, <2>3
  <2>6. connected /\ task'.pc \in {"passed?", "judge"} => task'.since = epoch \/ caught = "clock"
    BY <2>1
  <2> QED BY <2>1, <2>2, <2>4, <2>5, <2>6
<1>9. CASE EnterSpeedo
  <2>1. g_app_mode' = "speedo" /\ task.pc = "detect" /\ task'.pc = "wait"
    BY <1>9, IdleType DEF EnterSpeedo
  <2>2. UNCHANGED <<connected, took, connect_time, caught>>
    BY <1>9 DEF EnterSpeedo, link, reply, inherited
  <2>3. connected => ~took  BY <2>1
  <2> QED BY <2>1, <2>2, <2>3
<1>10. CASE PackLine \/ PackEnds
  <2>1. UNCHANGED <<connected, g_app_mode, took, caught, connect_time>>
    BY <1>10 DEF PackLine, PackEnds, link, reply, inherited
  <2>2. task'.pc \notin Timing \cup {"taken"}
    <3>1. CASE PackLine  BY <1>0, <3>1 DEF PackLine, Tasks
    <3>2. CASE PackEnds  BY <1>0, <3>2 DEF PackEnds, Tasks, Idle
    <3> QED BY <1>10, <3>1, <3>2
  <2> QED BY <2>1, <2>2
<1> QED BY <1>1, <1>2, <1>3, <1>4, <1>5, <1>6, <1>7, <1>8, <1>9, <1>10
        DEF LinkNext, Host, CommandTask, Detecting

\* The mode is that of this connection, although two tasks write it without a lock, but
\* for the two windows that the connection may have come in: ModeFitsLink, for all
\* constants.
THEOREM ModeFitsLinkAlways == LinkSpec => []ModeFitsLink
<1>1. LinkInit => ModeInv
  <2> SUFFICES ASSUME LinkInit PROVE ModeInv
    OBVIOUS
  <2>1. connected = FALSE /\ g_app_mode = "detecting"  BY Zenon DEF LinkInit
  <2> QED BY <2>1 DEF ModeInv
<1>2. Sound /\ ModeInv /\ [LinkNext]_linkVars => ModeInv'
  <2>1. ASSUME ModeInv, UNCHANGED linkVars PROVE ModeInv'
    BY <2>1 DEF ModeInv, linkVars, link, reply, inherited
  <2> QED BY <2>1, ModeStep
<1>3. Sound /\ ModeInv => ModeFitsLink
  <2> SUFFICES ASSUME Sound, ModeInv PROVE ModeFitsLink
    OBVIOUS
  <2>1. connected /\ g_app_mode = "speedo" => ~took  BY DEF ModeInv
  <2> QED BY <2>1 DEF ModeInv, ModeFitsLink
<1> QED BY <1>1, <1>2, <1>3, Typed, PTL DEF LinkSpec

-----------------------------------------------------------------------------
(* What earlier connections left behind. *)

\* Former, with the connection as a parameter.
Before(q, e) == {i \in 1..Len(q) : q[i] < e}
One(b) == IF b THEN 1 ELSE 0

LEMMA BeforeSize ==
  ASSUME NEW q \in Seq(1..MaxConnects), NEW e \in Int
  PROVE  /\ IsFiniteSet(Before(q, e)) /\ Cardinality(Before(q, e)) \in Nat
         /\ Cardinality(Before(q, e)) <= Len(q)
<1>1. Len(q) \in Nat /\ Before(q, e) \in SUBSET (1..Len(q))  BY DEF Before
<1>2. IsFiniteSet(1..Len(q)) /\ Cardinality(1..Len(q)) = Len(q)  BY <1>1, FS_Interval
<1>3. IsFiniteSet(Before(q, e)) /\ Cardinality(Before(q, e)) <= Len(q)
  BY <1>1, <1>2, FS_Subset
<1> QED BY <1>3, FS_CardinalityType

LEMMA BeforeAppend ==
  ASSUME NEW q \in Seq(1..MaxConnects), NEW x \in 1..MaxConnects, NEW e \in Int
  PROVE  /\ Cardinality(Before(Append(q, x), e)) <= Cardinality(Before(q, e)) + One(x < e)
         /\ Cardinality(Before(Append(q, x), e)) \in Nat
<1> DEFINE n == Len(q) + 1
<1>1. /\ Len(q) \in Nat /\ Len(Append(q, x)) = n /\ Append(q, x)[n] = x
      /\ \A i \in 1..Len(q) : Append(q, x)[i] = q[i]
  BY AppendProperties
<1>2. CASE x < e
  <2>1. Before(Append(q, x), e) = Before(q, e) \cup {n}  BY <1>1, <1>2 DEF Before
  <2>2. n \notin Before(q, e)  BY <1>1 DEF Before
  <2>3. IsFiniteSet(Before(q, e)) /\ Cardinality(Before(q, e)) \in Nat  BY BeforeSize
  <2>4. Cardinality(Before(q, e) \cup {n}) = Cardinality(Before(q, e)) + 1
    BY <2>2, <2>3, FS_AddElement
  <2> QED BY <1>2, <2>1, <2>3, <2>4 DEF One
<1>3. CASE ~(x < e)
  <2>1. Before(Append(q, x), e) = Before(q, e)  BY <1>1, <1>3 DEF Before
  <2>2. Cardinality(Before(q, e)) \in Nat  BY BeforeSize
  <2> QED BY <1>3, <2>1, <2>2 DEF One
<1> QED BY <1>2, <1>3

LEMMA BeforeTail ==
  ASSUME NEW q \in Seq(1..MaxConnects), q # <<>>, NEW e \in Int
  PROVE  /\ Cardinality(Before(Tail(q), e)) + One(Head(q) < e) <= Cardinality(Before(q, e))
         /\ Cardinality(Before(Tail(q), e)) \in Nat
<1> DEFINE S == Before(Tail(q), e)
           T == Before(q, e) \ {1}
           f == [i \in S |-> i + 1]
<1>1. /\ Tail(q) \in Seq(1..MaxConnects) /\ Len(Tail(q)) = Len(q) - 1 /\ Len(q) \in Nat
      /\ \A i \in 1..Len(Tail(q)) : Tail(q)[i] = q[i + 1]
  BY HeadTailProperties
<1>2. IsFiniteSet(Before(q, e)) /\ Cardinality(Before(q, e)) \in Nat
      /\ Cardinality(S) \in Nat
  BY <1>1, BeforeSize
<1>3. IsFiniteSet(T)
      /\ Cardinality(T) = IF 1 \in Before(q, e) THEN Cardinality(Before(q, e)) - 1
                                               ELSE Cardinality(Before(q, e))
  BY <1>2, FS_RemoveElement
<1>4. f \in Injection(S, T)
  <2>1. \A i \in S : i \in Nat /\ i >= 1 /\ i + 1 \in T  BY <1>1 DEF Before
  <2>2. f \in [S -> T]  BY <2>1
  <2>3. \A i, j \in S : f[i] = f[j] => i = j  BY <2>1
  <2> QED BY <2>2, <2>3 DEF Injection, IsInjective
<1>5. Cardinality(S) <= Cardinality(T)  BY <1>3, <1>4, FS_Injection
<1>6. Head(q) < e <=> 1 \in Before(q, e)
  <2>1. Head(q) = q[1] /\ 1 \in 1..Len(q)  BY <1>1
  <2> QED BY <2>1 DEF Before
<1> QED BY <1>2, <1>3, <1>5, <1>6 DEF One

\* A connection starts with at most one command running and a full queue.
CommandsLeft ==
  connected => strangers + Cardinality(Before(cmd_queue, epoch)) <= CmdQueueDepth + 1

LEMMA CommandsLeftStep ==
  ASSUME Sound, CommandsLeft, LinkNext
  PROVE  CommandsLeft'
<1> USE DEF CommandsLeft
<1> DEFINE old == Cardinality(Before(cmd_queue, epoch))
<1>1. /\ cmd_queue \in Seq(1..MaxConnects) /\ Len(cmd_queue) \in Nat
      /\ Len(cmd_queue) <= CmdQueueDepth /\ epoch \in Nat /\ strangers \in Nat
      /\ CmdQueueDepth \in Nat
  BY LinkLimits, LinkData DEF Sound, LinkParts, Commands, LinkFields, Counts
<1>2. old \in Nat  BY <1>1, BeforeSize
<1> HIDE DEF old
<1>3. CASE Connect
  <2>1. epoch' = epoch + 1 /\ cmd_queue' = cmd_queue /\ strangers' \in 0..1
    BY <1>3 DEF Connect, Meet
  <2>2. Cardinality(Before(cmd_queue, epoch + 1)) <= Len(cmd_queue)
        /\ Cardinality(Before(cmd_queue, epoch + 1)) \in Nat
    BY <1>1, BeforeSize
  <2> QED BY <1>1, <2>1, <2>2
<1>4. CASE Disconnect
  <2>1. ~connected'  BY <1>4, Zenon DEF Disconnect
  <2> QED BY <2>1
<1>5. CASE ReceiveCommand
  <2>1. UNCHANGED <<connected, epoch, strangers>> /\ epoch \in 1..MaxConnects
    BY <1>1, <1>5 DEF ReceiveCommand, link, inherited, Sound, EpochInv, LinkParts, LinkFields
  <2>2. Cardinality(Before(Append(cmd_queue, epoch), epoch)) <= old
    <3>1. One(epoch < epoch) = 0  BY <1>1 DEF One
    <3>2. Cardinality(Before(Append(cmd_queue, epoch), epoch)) <= old + One(epoch < epoch)
      BY <1>1, <2>1, BeforeAppend DEF old
    <3> QED BY <1>2, <3>1, <3>2
  <2>4. Cardinality(Before(Append(cmd_queue, epoch), epoch)) \in Nat
    BY <1>1, <2>1, BeforeAppend
  <2>5. cmd_queue' = Append(cmd_queue, epoch) \/ cmd_queue' = cmd_queue
    BY <1>5 DEF ReceiveCommand
  <2>6. CASE cmd_queue' = Append(cmd_queue, epoch)
    BY <1>1, <1>2, <1>5, <2>1, <2>2, <2>4, <2>6 DEF old, ReceiveCommand
  <2>7. CASE cmd_queue' = cmd_queue
    BY <2>1, <2>7
  <2> QED BY <2>5, <2>6, <2>7
<1>6. CASE Take
  <2>1. UNCHANGED <<connected, epoch>> /\ cmd_queue' = Tail(cmd_queue) /\ cmd_queue # <<>>
        /\ strangers' = IF Head(cmd_queue) < epoch THEN strangers + 1 ELSE strangers
    BY <1>6 DEF Take, link
  <2>2. Cardinality(Before(Tail(cmd_queue), epoch)) + One(Head(cmd_queue) < epoch) <= old
    BY <1>1, <2>1, BeforeTail DEF old
  <2>4. Cardinality(Before(Tail(cmd_queue), epoch)) \in Nat  BY <1>1, <2>1, BeforeTail
  <2>5. strangers' = strangers + One(Head(cmd_queue) < epoch)
        /\ One(Head(cmd_queue) < epoch) \in Nat
    BY <1>1, <2>1 DEF One
  <2>6. connected => strangers + old <= CmdQueueDepth + 1  BY DEF old
  <2>7. Cardinality(Before(cmd_queue', epoch'))
        = Cardinality(Before(Tail(cmd_queue), epoch))
    BY <2>1
  <2>8. connected => strangers' + Cardinality(Before(cmd_queue', epoch')) <= CmdQueueDepth + 1
    BY <1>1, <1>2, <2>2, <2>4, <2>5, <2>6, <2>7
  <2> QED BY <2>1, <2>8
<1>7. CASE MtuExchanged \/ ThreeSeconds \/ OfferFrame \/ QueueFrame \/ TimedOut \/ Dispatch
           \/ TestLinkAndMode \/ TestTime \/ EnterSpeedo \/ PackLine \/ PackEnds
  <2>1. UNCHANGED <<connected, epoch, cmd_queue, strangers>>
    BY <1>7 DEF MtuExchanged, ThreeSeconds, OfferFrame, QueueFrame, TimedOut, Dispatch,
                TestLinkAndMode, TestTime, EnterSpeedo, PackLine, PackEnds, link, inherited
  <2> QED BY <2>1
<1>8. CASE Notifying
  <2>1. Quiet  BY <1>8, NotifyingType DEF Sound
  <2> QED BY <2>1 DEF Quiet
<1> QED BY <1>3, <1>4, <1>5, <1>6, <1>7, <1>8 DEF LinkNext, Host, CommandTask, Detecting


\* Of the frames that a connection meets, all but a few are packed in one notification.
\* While no phone is there, nothing is offered unless the mode became speedo then, so
\* that of the frames not packed there is one.
Beside == IF hasty THEN LiveQueueDepth + 2 ELSE 2
Few(r, b) == r <= b + 1 \/ (r - b) * ShortestLine <= MaxChunk
FramesLeft ==
  /\ connected => Few(relics + One(offer # 0 /\ offer < epoch), Beside)
  /\ ~connected /\ ~hasty => /\ g_app_mode # "speedo"
                             /\ Len(g_ble_live_queue) + One(offer # 0) <= 1

LEMMA Times ==
  ASSUME NEW a \in Int, NEW b \in Int, NEW s \in Nat, a <= b
  PROVE  a * s <= b * s
<1>1. b - a \in Nat /\ b = a + (b - a)
  OBVIOUS
<1>2. (b - a) * s \in Nat  BY <1>1
<1>3. b * s = a * s + (b - a) * s  BY <1>1
<1> QED BY <1>2, <1>3

LEMMA FewLess ==
  ASSUME NEW r \in Int, NEW s \in Int, NEW b \in Int, r <= s, Few(s, b)
  PROVE  Few(r, b)
<1>1. CASE s <= b + 1  BY <1>1 DEF Few
<1>2. CASE (s - b) * ShortestLine <= MaxChunk
  <2>1. ShortestLine \in Nat /\ MaxChunk \in Nat  BY LinkLimits, LinkData
  <2>2. r - b \in Int /\ s - b \in Int /\ r - b <= s - b
    OBVIOUS
  <2>3. (r - b) * ShortestLine <= (s - b) * ShortestLine  BY <2>1, <2>2, Times
  <2> DEFINE less == (r - b) * ShortestLine
             more == (s - b) * ShortestLine
  <2>4. less \in Int /\ more \in Int /\ less <= more /\ more <= MaxChunk
    BY <1>2, <2>1, <2>2, <2>3
  <2> HIDE DEF less, more
  <2>5. less <= MaxChunk  BY <2>1, <2>4
  <2> QED BY <2>5 DEF Few, less
<1> QED BY <1>1, <1>2 DEF Few

\* What the command task has packed fits in a notification, but for the line to come and
\* a single one.
LEMMA PackedIsFew ==
  ASSUME Sound, NEW b \in Nat, NEW r \in Int, r <= PackedFrames + b - 1, b >= 1
  PROVE  Few(r, b)
<1>0. task \in Tasks /\ ShortestLine \in Nat /\ MaxChunk \in Nat
  BY LinkLimits, LinkData DEF Sound, LinkParts
<1>1. CASE task.pc \in {"pack", "flush", "last"}
  <2>1. PackedFrames \in Nat /\ PackedFrames <= task.lines + 1 /\ task.lines \in Nat
    BY <1>0, <1>1, PackedType DEF PackedFrames, Tasks
  <2>2. /\ task.left <= task.chunk \/ task.lines <= 1
        /\ task.lines * ShortestLine <= task.left
    BY <1>1 DEF Sound, StreamInv, Packed
  <2>3. CASE task.lines <= 1
    BY <2>1, <2>3 DEF Few
  <2>4. CASE task.left <= task.chunk
    <3>1. (task.lines + b) - b = task.lines  BY <2>1
    <3> DEFINE product == task.lines * ShortestLine
    <3>2. product \in Int /\ product <= task.left  BY <1>0, <2>1, <2>2
    <3> HIDE DEF product
    <3>3. product <= MaxChunk  BY <1>0, <2>4, <3>2 DEF Tasks
    <3>4. Few(task.lines + b, b)  BY <3>1, <3>3 DEF Few, product
    <3>5. task.lines + b \in Int /\ r <= task.lines + b  BY <2>1
    <3> QED BY <3>4, <3>5, FewLess
  <2> QED BY <2>2, <2>3, <2>4
<1>2. CASE task.pc \notin {"pack", "flush", "last"}
  <2>1. PackedFrames = 0  BY <1>2 DEF PackedFrames
  <2> QED BY <2>1 DEF Few
<1> QED BY <1>1, <1>2

LEMMA FramesLeftStep ==
  ASSUME Sound, FramesLeft, LinkNext
  PROVE  FramesLeft'
<1> USE DEF FramesLeft
<1> DEFINE q == g_ble_live_queue
           mine == One(offer # 0 /\ offer < epoch)
<1>1. /\ q \in Seq(1..MaxConnects) /\ Len(q) \in Nat /\ Len(q) <= LiveQueueDepth
      /\ epoch \in Nat /\ offer \in 0..MaxConnects /\ relics \in Nat /\ LiveQueueDepth \in Nat
  BY LinkLimits, LinkData DEF Sound, LinkParts, Stream, LinkFields, Counts
<1>2. One(offer # 0) \in 0..1 /\ mine \in 0..1  BY DEF One
<1>3. CASE Connect
  <2>1. epoch' = epoch + 1 /\ UNCHANGED <<g_ble_live_queue, offer, hasty>> /\ ~connected
        /\ connected' /\ relics' = Len(q) + PackedFrames
    <3>1. connected'  BY <1>3, Zenon DEF Connect
    <3> QED BY <1>3, <3>1 DEF Connect, Meet, live
  <2>2. One(offer # 0 /\ offer < epoch + 1) <= One(offer # 0)
        /\ One(offer # 0 /\ offer < epoch + 1) \in 0..1
    BY DEF One
  <2>3. PackedFrames \in Nat  BY PackedType DEF Sound, LinkParts
  <2>4. Beside \in Nat /\ Beside >= 1 /\ Len(q) + One(offer # 0) <= Beside - 1
    BY <1>1, <1>2, <2>1 DEF Beside
  <2> DEFINE r == relics' + One(offer # 0 /\ offer < epoch + 1)
  <2>5. r \in Int /\ r <= PackedFrames + Beside - 1
    BY <1>1, <1>2, <2>1, <2>2, <2>3, <2>4
  <2> HIDE DEF r
  <2>6. Few(r, Beside)  BY <2>4, <2>5, PackedIsFew
  <2>7. Beside' = Beside  BY <2>1 DEF Beside
  <2> QED BY <2>1, <2>6, <2>7 DEF r
<1>4. CASE Disconnect
  <2>1. ~connected' /\ g_app_mode' = "detecting" /\ q' = <<>> /\ offer' = offer
    <3>1. ~connected'  BY <1>4, Zenon DEF Disconnect
    <3> QED BY <1>4, <3>1 DEF Disconnect
  <2>2. Len(q') = 0  BY <2>1
  <2> QED BY <1>2, <2>1, <2>2
<1>5. CASE OfferFrame
  <2>1. UNCHANGED <<connected, epoch, g_ble_live_queue, hasty, relics>> /\ offer' = epoch
        /\ g_app_mode = "speedo" /\ offer = 0
    BY <1>5 DEF OfferFrame, link, inherited
  <2>2. One(epoch # 0 /\ epoch < epoch) = 0 /\ mine = 0
    BY <1>1, <2>1 DEF One
  <2>3. Beside' = Beside  BY <2>1 DEF Beside
  <2> QED BY <2>1, <2>2, <2>3
<1>6. CASE QueueFrame
  <2>1. UNCHANGED <<connected, epoch, g_app_mode, hasty>> /\ offer' = 0
        /\ offer \in 1..MaxConnects
    BY <1>1, <1>6 DEF QueueFrame, link
  <2>2. One(offer # 0) = 1 /\ One(offer' # 0) = 0 /\ One(offer' # 0 /\ offer' < epoch) = 0
    BY <2>1 DEF One
  <2>3. Beside' = Beside  BY <2>1 DEF Beside
  <2>4. connected => relics' <= relics + mine /\ relics' \in Nat
    BY <1>1, <1>6, <2>1 DEF QueueFrame, One
  <2>5. connected => Few(relics' + 0, Beside)
    <3>1. Beside \in Int /\ relics + mine \in Int  BY <1>1, <1>2 DEF Beside
    <3>2. connected => relics' + 0 \in Int /\ relics' + 0 <= relics + mine  BY <2>4
    <3> QED BY <3>1, <3>2, FewLess
  <2>6. ~connected /\ ~hasty => Len(q') <= 1
    <3>1. CASE q' = Append(q, offer)
      <4>1. Len(q') = Len(q) + 1  BY <1>1, <2>1, <3>1
      <4> QED BY <1>1, <2>2, <4>1
    <3>2. CASE q' = q
      BY <1>1, <2>2, <3>2
    <3> QED BY <1>6, <3>1, <3>2 DEF QueueFrame
  <2>7. Len(q') \in Nat
    <3>1. CASE q' = Append(q, offer)
      <4>1. Len(q') = Len(q) + 1  BY <1>1, <2>1, <3>1
      <4> QED BY <1>1, <4>1
    <3>2. CASE q' = q
      BY <1>1, <3>2
    <3> QED BY <1>6, <3>1, <3>2 DEF QueueFrame
  <2>8. Len(q') + 0 = Len(q')  BY <2>7
  <2> QED BY <2>1, <2>2, <2>3, <2>5, <2>6, <2>8
<1>7. CASE PackLine
  <2>1. UNCHANGED <<connected, epoch, offer, g_app_mode, hasty, relics>> /\ q' = Tail(q)
        /\ q # <<>>
    BY <1>7 DEF PackLine, link, inherited
  <2>2. Len(q') = Len(q) - 1  BY <1>1, <2>1
  <2>3. Beside' = Beside  BY <2>1 DEF Beside
  <2> QED BY <1>1, <1>2, <2>1, <2>2, <2>3
<1>8. CASE EnterSpeedo
  <2>1. UNCHANGED <<connected, epoch, g_ble_live_queue, offer, relics>>
    BY <1>8 DEF EnterSpeedo, link, live, inherited
  <2>2. (~connected => hasty') /\ (connected => (hasty' <=> hasty))
    <3>1. hasty' = (hasty \/ ~connected)  BY <1>8 DEF EnterSpeedo
    <3> QED BY <3>1, Zenon
  <2>3. connected => Beside' = Beside  BY <2>2 DEF Beside
  <2> QED BY <2>1, <2>2, <2>3
<1>9. CASE MtuExchanged \/ ThreeSeconds \/ ReceiveCommand \/ TimedOut \/ TestLinkAndMode
           \/ TestTime \/ PackEnds \/ Take \/ Dispatch
  <2>1. UNCHANGED <<connected, epoch, g_ble_live_queue, offer, hasty, relics>>
    BY <1>9 DEF MtuExchanged, ThreeSeconds, ReceiveCommand, TimedOut, TestLinkAndMode,
                TestTime, PackEnds, Take, Dispatch, link, live, inherited
  <2>2. g_app_mode' = g_app_mode \/ g_app_mode' = "telematics"
    BY <1>9 DEF MtuExchanged, ThreeSeconds, ReceiveCommand, TimedOut, TestLinkAndMode,
                TestTime, PackEnds, Take, Dispatch
  <2>3. Beside' = Beside  BY <2>1 DEF Beside
  <2> QED BY <2>1, <2>2, <2>3
<1>10. CASE Notifying
  <2>1. Quiet  BY <1>10, NotifyingType DEF Sound
  <2>2. Beside' = Beside  BY <2>1 DEF Beside, Quiet
  <2> QED BY <2>1, <2>2 DEF Quiet
<1> QED BY <1>3, <1>4, <1>5, <1>6, <1>7, <1>8, <1>9, <1>10
        DEF LinkNext, Host, CommandTask, Detecting

\* Of what earlier ones left, a connection meets a full queue of commands and a running
\* one at most, and of their frames one packed notification and two more, unless speedo
\* mode was entered with no phone connected: LeftoversBounded, for all constants.
THEOREM LeftoversBoundedAlways == LinkSpec => []LeftoversBounded
<1>1. LinkInit => CommandsLeft /\ FramesLeft
  <2> SUFFICES ASSUME LinkInit PROVE CommandsLeft /\ FramesLeft
    OBVIOUS
  <2>1. ~connected /\ g_app_mode = "detecting" /\ g_ble_live_queue = <<>> /\ offer = 0
    BY Zenon DEF LinkInit
  <2>2. Len(g_ble_live_queue) = 0 /\ One(offer # 0) = 0  BY <2>1 DEF One
  <2> QED BY <2>1, <2>2 DEF CommandsLeft, FramesLeft
<1>2. Sound /\ CommandsLeft /\ FramesLeft /\ [LinkNext]_linkVars => CommandsLeft' /\ FramesLeft'
  <2>1. ASSUME CommandsLeft, FramesLeft, UNCHANGED linkVars
        PROVE  CommandsLeft' /\ FramesLeft'
    <3>1. UNCHANGED <<connected, epoch, g_ble_live_queue, offer, hasty, relics, strangers,
                      cmd_queue, g_app_mode>>
      BY <2>1 DEF linkVars, link, live, inherited
    <3> QED BY <2>1, <3>1 DEF CommandsLeft, FramesLeft, Beside
  <2> QED BY <2>1, CommandsLeftStep, FramesLeftStep
<1>3. Sound /\ CommandsLeft /\ FramesLeft => LeftoversBounded
  <2> SUFFICES ASSUME Sound, CommandsLeft, FramesLeft, connected
               PROVE  LeftoversBounded
    BY DEF LeftoversBounded
  <2>1. Former(cmd_queue) = Before(cmd_queue, epoch)  BY DEF Former, Before
  <2>2. relics \in Int /\ Beside \in Int /\ One(offer # 0 /\ offer < epoch) \in 0..1
    BY LinkLimits DEF Sound, LinkParts, Counts, Beside, One
  <2>3. Few(relics, Beside)
    <3>1. Few(relics + One(offer # 0 /\ offer < epoch), Beside)  BY DEF FramesLeft
    <3>2. relics + One(offer # 0 /\ offer < epoch) \in Int
          /\ relics <= relics + One(offer # 0 /\ offer < epoch)
      BY <2>2
    <3> QED BY <2>2, <3>1, <3>2, FewLess
  <2> QED BY <2>1, <2>3 DEF CommandsLeft, LeftoversBounded, Few, Beside
<1> QED BY <1>1, <1>2, <1>3, Typed, PTL DEF LinkSpec

=============================================================================
