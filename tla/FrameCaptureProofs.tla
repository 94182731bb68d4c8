-------------------------- MODULE FrameCaptureProofs --------------------------
(***************************************************************************)
(* Proofs about FrameCapture, for every depth of the queue, every batch    *)
(* and commit limit and any number of frames, faults and rotations: the    *)
(* tally of drops is exact, the gaps of a file are covered, and the time   *)
(* for which rows can be lost is bounded.                                  *)
(***************************************************************************)
EXTENDS FrameCapture, TLAPS

Places == 1..Len(s_frame_queue)

\* The queued frames have arrived, and each in its place: behind the frame at i
\* there are Len - i others, all of higher numbers.
QueueInv == \A i \in Places : s_frame_queue[i] + (Len(s_frame_queue) - i) <= arrived

\* The drops that are in a row already, also before they are banked.
Tallied == IF pc = "bank" THEN drops ELSE s_reported_drops

\* A DROPPED row is printed to an open file, for drops that really happened.
TallyInv ==
  /\ pc \in {"print", "bank"} => s_file /\ s_reported_drops <= drops /\ drops <= s_drops
  /\ pc = "bank" => ~err
  /\ s_reported_drops <= s_drops
  /\ noted + forgotten = Tallied

\* Every frame that arrived since the first one of the file (arrived + 1 - First of
\* them) is in the file, in the queue, covered by its DROPPED rows, counted and not
\* tallied yet, or carried.  In an empty file the head of the queue will be the
\* first.  Written without differences.
First == rows.first
Last == rows.last
Frames == rows.frames
Marked == rows.marked
Queued == Len(s_frame_queue)
Room == Queued + Marked + s_drops + carried
GapInv ==
  s_file /\ ~err =>
    /\ Frames > 0 =>
         /\ arrived + 1 + Tallied <= First + Frames + Room
         /\ Last + Queued <= arrived
    /\ Frames = 0 /\ s_frame_queue # <<>> =>
         arrived + 1 + Tallied <= Head(s_frame_queue) + Room

\* Rows wait for one flush pass more than have failed.
WindowInv == pc # "reopen" => unsynced <= s_commit_fails + 1

Inv == TypeOK /\ QueueInv /\ TallyInv /\ GapInv /\ WindowInv

-----------------------------------------------------------------------------
(* Facts about the queue. *)

\* The first frame leaves: the others move up by one.
LEMMA Taken ==
  ASSUME TypeOK, s_frame_queue # <<>>
  PROVE  /\ Head(s_frame_queue) = s_frame_queue[1] /\ Head(s_frame_queue) \in Nat
         /\ Tail(s_frame_queue) \in Seq(Nat)
         /\ Len(s_frame_queue) \in Nat \ {0}
         /\ Len(Tail(s_frame_queue)) = Len(s_frame_queue) - 1
         /\ \A i \in 1..(Len(s_frame_queue) - 1) :
              Tail(s_frame_queue)[i] = s_frame_queue[i + 1]
BY DEF TypeOK

\* A frame joins at the end.
LEMMA Joined ==
  ASSUME TypeOK
  PROVE  /\ Append(s_frame_queue, arrived + 1) \in Seq(Nat)
         /\ Len(s_frame_queue) \in Nat
         /\ Len(Append(s_frame_queue, arrived + 1)) = Len(s_frame_queue) + 1
         /\ Append(s_frame_queue, arrived + 1)[Len(s_frame_queue) + 1] = arrived + 1
         /\ \A i \in Places : Append(s_frame_queue, arrived + 1)[i] = s_frame_queue[i]
                              /\ s_frame_queue[i] \in Nat
BY DEF TypeOK, Places

\* The drops among the queued frames are a number: a reopen takes it over.
LEMMA AheadNat == ASSUME TypeOK, QueueInv PROVE DropsAhead \in Nat
<1>1. CASE s_frame_queue = <<>>
  BY <1>1 DEF DropsAhead
<1>2. CASE s_frame_queue # <<>>
  <2>1. s_frame_queue[1] + (Len(s_frame_queue) - 1) <= arrived
    BY <1>2, Taken DEF QueueInv, Places
  <2> QED
    BY <1>2, <2>1, Taken DEF DropsAhead, TypeOK
<1> QED
  BY <1>1, <1>2

\* A row becomes the last, and the first if there was none.
LEMMA WithFrameTyped ==
  ASSUME NEW r \in Rows, NEW n \in Nat
  PROVE  /\ WithFrame(r, n) \in Rows
         /\ WithFrame(r, n).first = (IF r.frames = 0 THEN n ELSE r.first)
         /\ WithFrame(r, n).last = n
         /\ WithFrame(r, n).frames = r.frames + 1
         /\ WithFrame(r, n).marked = r.marked
<1>1. WithFrame(r, n) = [f \in {"first", "last", "frames", "marked"} |->
                           CASE f = "first"  -> IF r.frames = 0 THEN n ELSE r.first
                             [] f = "last"   -> n
                             [] f = "frames" -> r.frames + 1
                             [] OTHER        -> r[f]]
  BY DEF WithFrame, Rows
<1>2. \A g : g \in Rows <=> /\ g = [f \in {"first", "last", "frames", "marked"} |-> g[f]]
                           /\ g.first \in Nat /\ g.last \in Nat
                           /\ g.frames \in Nat /\ g.marked \in Nat
  BY DEF Rows
<1>3. WithFrame(r, n) \in Rows
  BY <1>1, <1>2 DEF Rows
<1> QED
  BY <1>1, <1>3

LEMMA Typed ==
  ASSUME TypeOK
  PROVE  /\ arrived \in Nat /\ s_drops \in Nat /\ s_reported_drops \in Nat /\ drops \in Nat
         /\ carried \in Nat /\ noted \in Nat /\ forgotten \in Nat /\ Tallied \in Nat
         /\ First \in Nat /\ Last \in Nat /\ Frames \in Nat /\ Marked \in Nat
         /\ Queued \in Nat /\ rows \in Rows
BY DEF TypeOK, Rows, Tallied, First, Last, Frames, Marked, Queued

\* A new file, or none, is empty, and takes over the drops among the queued frames.
LEMMA NewFileTyped ==
  ASSUME TypeOK, QueueInv, NEW open \in BOOLEAN, NewFile(open)
  PROVE  /\ s_file' = open /\ err' = FALSE /\ unsynced' = 0
         /\ rows' = NoRows /\ rows' \in Rows
         /\ carried' = DropsAhead /\ carried' \in Nat
         /\ s_commit_fails' \in 0..(CommitFailLimit - 1)
BY AheadNat, Limits DEF NewFile, NoRows, Rows, TypeOK

LEMMA SpendTyped ==
  ASSUME TypeOK, NEW f \in {"fault", "rotation"}, Spend(f)
  PROVE  left' \in [{"fault", "rotation"} -> Nat]
BY DEF TypeOK, Spend

-----------------------------------------------------------------------------

LEMMA InitInv == Init => Inv
<1> SUFFICES ASSUME Init PROVE Inv
  OBVIOUS
<1>1. TypeOK
  <2>1. s_file \in BOOLEAN /\ err \in BOOLEAN
    BY DEF Init
  <2>2. left \in [{"fault", "rotation"} -> Nat]
    BY Bounds DEF Init
  <2>3. rows \in Rows
    BY DEF Init, Rows, NoRows
  <2> QED
    BY <2>1, <2>2, <2>3, Limits DEF Init, TypeOK
<1>2. QueueInv /\ TallyInv /\ WindowInv
  BY DEF Init, QueueInv, Places, TallyInv, Tallied, WindowInv
<1>3. GapInv
  BY DEF Init, GapInv, NoRows, Frames
<1> QED
  BY <1>1, <1>2, <1>3 DEF Inv

\* A frame that is dropped adds one to the frames missing and one to the counter.
LEMMA ArriveInv == ASSUME Inv, Arrive PROVE Inv'
<1>y. /\ arrived \in Nat /\ s_drops \in Nat /\ s_reported_drops \in Nat /\ drops \in Nat
      /\ carried \in Nat /\ noted \in Nat /\ forgotten \in Nat /\ Tallied \in Nat
      /\ First \in Nat /\ Last \in Nat /\ Frames \in Nat /\ Marked \in Nat
      /\ Queued \in Nat /\ rows \in Rows
  BY Typed DEF Inv
<1>u. /\ UNCHANGED <<pc, batch, drops, s_file, err, rows, unsynced, carried>>
      /\ UNCHANGED <<s_reported_drops, noted, forgotten, s_commit_fails, left>>
      /\ arrived' = arrived + 1
  BY DEF Arrive, stream, tally
<1>j. /\ Append(s_frame_queue, arrived + 1) \in Seq(Nat)
      /\ Len(s_frame_queue) \in Nat
      /\ Len(Append(s_frame_queue, arrived + 1)) = Len(s_frame_queue) + 1
      /\ Append(s_frame_queue, arrived + 1)[Len(s_frame_queue) + 1] = arrived + 1
      /\ \A i \in Places : Append(s_frame_queue, arrived + 1)[i] = s_frame_queue[i]
                           /\ s_frame_queue[i] \in Nat
  BY Joined DEF Inv
<1>c. \/ /\ Len(s_frame_queue) < QueueDepth
         /\ s_frame_queue' = Append(s_frame_queue, arrived + 1) /\ s_drops' = s_drops
      \/ s_frame_queue' = s_frame_queue /\ s_drops' = s_drops + 1
  BY DEF Arrive
<1>d. s_frame_queue = <<>> => Len(s_frame_queue) = 0
  OBVIOUS
<1>e. Len(s_frame_queue) # 0 => s_frame_queue # <<>> /\ 1 \in Places
  BY <1>d, <1>j DEF Places
<1>f. s_frame_queue # <<>> => Len(s_frame_queue) # 0
  BY DEF Inv, TypeOK
<1>1. TypeOK'
  <2>1. s_frame_queue' \in Seq(Nat) /\ Len(s_frame_queue') <= QueueDepth
    <3>1. Len(s_frame_queue) <= QueueDepth /\ s_frame_queue \in Seq(Nat) /\ QueueDepth \in Nat
      BY Limits DEF Inv, TypeOK
    <3> QED
      BY <1>c, <1>j, <3>1
  <2>2. s_drops' \in Nat /\ arrived' \in Nat
    BY <1>c, <1>u, <1>y
  <2> QED
    BY <1>u, <2>1, <2>2 DEF Inv, TypeOK
<1>2. QueueInv'
  <2>1. CASE s_frame_queue' = Append(s_frame_queue, arrived + 1)
    BY <1>u, <1>j, <2>1 DEF Inv, TypeOK, QueueInv, Places
  <2>2. CASE s_frame_queue' = s_frame_queue
    BY <1>u, <1>j, <2>2 DEF Inv, TypeOK, QueueInv, Places
  <2> QED
    BY <1>c, <2>1, <2>2
<1>3. TallyInv'
  BY <1>u, <1>c DEF Inv, TypeOK, TallyInv, Tallied
<1>4. GapInv'
  <2>1. /\ First' = First /\ Last' = Last /\ Frames' = Frames /\ Marked' = Marked
        /\ Tallied' = Tallied
    BY <1>u DEF First, Last, Frames, Marked, Tallied
  <2>2. \/ Queued' = Queued + 1 /\ s_drops' = s_drops
        \/ Queued' = Queued /\ s_drops' = s_drops + 1
    BY <1>c, <1>j DEF Queued
  <2>3. Room' = Room + 1 /\ Room \in Nat
    BY <1>u, <1>y, <2>1, <2>2 DEF Room
  <2>4. Last + Queued <= arrived => Last' + Queued' <= arrived'
    BY <1>u, <1>y, <2>1, <2>2
  <2>5. CASE s_frame_queue = <<>>
    <3>1. s_frame_queue' = <<>> \/ (Head(s_frame_queue') = arrived + 1 /\ Queued' = 1)
      BY <1>c, <2>5 DEF Queued
    <3>2. Tallied <= s_drops
      BY DEF Inv, TallyInv, Tallied, TypeOK
    <3>5. Queued = 0
      BY <2>5 DEF Queued
    <3>3. Queued' = 1 => 1 + Tallied <= Room'
      BY <3>2, <3>5, <1>u, <1>y, <2>1, <2>2 DEF Room
    <3>4. s_frame_queue' # <<>> => arrived' + 1 + Tallied' <= Head(s_frame_queue') + Room'
      BY <3>1, <3>3, <2>1, <2>3, <1>u, <1>y
    <3> QED
      BY <3>4, <2>1, <2>3, <2>4, <1>u, <1>y DEF Inv, GapInv
  <2>6. CASE s_frame_queue # <<>>
    <3>1. Head(s_frame_queue') = Head(s_frame_queue) /\ Head(s_frame_queue) \in Nat
      BY <2>6, <1>c, <1>j, <1>f, <1>e, Taken DEF Inv
    <3> QED
      BY <3>1, <2>6, <2>1, <2>3, <2>4, <1>u, <1>y DEF Inv, GapInv
  <2> QED
    BY <2>5, <2>6
<1>5. WindowInv'
  BY <1>u DEF Inv, WindowInv
<1> QED
  BY <1>1, <1>2, <1>3, <1>4, <1>5 DEF Inv

\* The file continues where the queue began.
LEMMA DrainFrameInv == ASSUME Inv, DrainFrame PROVE Inv'
<1>y. /\ arrived \in Nat /\ s_drops \in Nat /\ s_reported_drops \in Nat /\ drops \in Nat
      /\ carried \in Nat /\ noted \in Nat /\ forgotten \in Nat /\ Tallied \in Nat
      /\ First \in Nat /\ Last \in Nat /\ Frames \in Nat /\ Marked \in Nat
      /\ Queued \in Nat /\ rows \in Rows
  BY Typed DEF Inv
<1>u. /\ UNCHANGED <<arrived, s_drops, pc, drops, s_file, carried>>
      /\ UNCHANGED <<s_reported_drops, noted, forgotten, s_commit_fails>>
      /\ pc = "drain" /\ batch' = batch + 1 /\ batch < BatchMax
      /\ s_frame_queue # <<>> /\ s_frame_queue' = Tail(s_frame_queue)
      /\ unsynced' = IF s_file /\ unsynced = 0 THEN 1 ELSE unsynced
  BY DEF DrainFrame, tally
<1>t. /\ Head(s_frame_queue) = s_frame_queue[1] /\ Head(s_frame_queue) \in Nat
      /\ Tail(s_frame_queue) \in Seq(Nat)
      /\ Len(s_frame_queue) \in Nat \ {0}
      /\ Len(Tail(s_frame_queue)) = Len(s_frame_queue) - 1
      /\ \A i \in 1..(Len(s_frame_queue) - 1) :
           Tail(s_frame_queue)[i] = s_frame_queue[i + 1]
  BY <1>u, Taken DEF Inv
<1>r. \/ /\ s_file /\ ~err /\ err' = FALSE /\ left' = left
         /\ rows' = WithFrame(rows, Head(s_frame_queue))
      \/ ~(s_file /\ ~err) /\ rows' = rows /\ err' = err /\ left' = left
      \/ rows' = rows /\ err' = TRUE /\ Spend("fault")
  BY DEF DrainFrame, Inv, TypeOK
<1>w. LET r == WithFrame(rows, Head(s_frame_queue))
      IN  /\ r \in Rows
          /\ r.first = (IF Frames = 0 THEN Head(s_frame_queue) ELSE First)
          /\ r.last = Head(s_frame_queue) /\ r.frames = Frames + 1
          /\ r.marked = Marked
  BY <1>t, <1>y, WithFrameTyped DEF First, Frames, Marked
<1>h. Head(s_frame_queue) + (Len(s_frame_queue) - 1) <= arrived
  BY <1>t DEF Inv, QueueInv, Places
<1>1. TypeOK'
  <2>1. left' \in [{"fault", "rotation"} -> Nat] /\ rows' \in Rows /\ err' \in BOOLEAN
    BY <1>r, <1>w, SpendTyped DEF Inv, TypeOK
  <2> QED
    BY <1>u, <1>t, <2>1, Limits DEF Inv, TypeOK
<1>2. QueueInv'
  <2> SUFFICES ASSUME NEW i \in 1..(Len(s_frame_queue) - 1)
               PROVE  s_frame_queue[i + 1] + (Len(s_frame_queue) - 1 - i) <= arrived
    BY <1>u, <1>t DEF QueueInv, Places
  <2>1. i + 1 \in Places /\ s_frame_queue[i + 1] \in Nat
    BY <1>t DEF Places, Inv, TypeOK
  <2>2. s_frame_queue[i + 1] + (Len(s_frame_queue) - (i + 1)) <= arrived
    BY <2>1 DEF Inv, QueueInv
  <2> QED
    BY <1>t, <2>1, <2>2
<1>3. TallyInv'
  BY <1>u DEF Inv, TallyInv, Tallied
<1>4. GapInv'
  <2> SUFFICES ASSUME s_file, ~err, rows' = WithFrame(rows, Head(s_frame_queue))
               PROVE  GapInv'
    BY <1>r, <1>u DEF GapInv
  <2>1. /\ First' = (IF Frames = 0 THEN Head(s_frame_queue) ELSE First)
        /\ Last' = Head(s_frame_queue) /\ Frames' = Frames + 1 /\ Marked' = Marked
    BY <1>w DEF First, Last, Frames, Marked
  <2>2. Tallied' = Tallied /\ Queued' = Queued - 1 /\ Queued >= 1
    BY <1>u, <1>t DEF Tallied, Queued
  <2>3. Room = Room' + 1 /\ Room \in Nat /\ Room' \in Nat
    BY <1>u, <1>y, <2>1, <2>2 DEF Room
  <2>4. Last' + Queued' <= arrived' /\ Frames' > 0
    BY <1>u, <1>y, <1>h, <2>1, <2>2 DEF Queued
  <2>5. CASE Frames = 0
    <3>1. arrived + 1 + Tallied <= Head(s_frame_queue) + Room
      BY <2>5, <1>u DEF Inv, GapInv
    <3>2. First' = Head(s_frame_queue) /\ Frames' = 1 /\ Head(s_frame_queue) \in Nat
      BY <2>1, <2>5, <1>t
    <3>3. First' + Frames' + Room' = Head(s_frame_queue) + Room
      BY <2>3, <3>2
    <3> QED
      BY <2>2, <2>4, <3>1, <3>2, <3>3, <1>u DEF GapInv
  <2>6. CASE Frames > 0
    <3>1. arrived + 1 + Tallied <= First + Frames + Room
      BY <2>6 DEF Inv, GapInv
    <3>2. First' = First /\ Frames' = Frames + 1
      BY <2>1, <2>6
    <3>3. First' + Frames' + Room' = First + Frames + Room
      BY <2>3, <3>2, <1>y
    <3>4. Frames' # 0
      BY <2>6, <3>2, <1>y
    <3> QED
      BY <2>2, <2>4, <3>1, <3>3, <3>4, <1>u DEF GapInv
  <2> QED
    BY <2>5, <2>6, <1>y
<1>5. WindowInv'
  BY <1>u DEF Inv, TypeOK, WindowInv
<1> QED
  BY <1>1, <1>2, <1>3, <1>4, <1>5 DEF Inv

LEMMA EndDrainInv == ASSUME Inv, EndDrain PROVE Inv'
<1>1. TypeOK'
  BY Limits DEF Inv, TypeOK, Rows, EndDrain, queue, stream, tally
<1>2. QueueInv'
  BY DEF Inv, QueueInv, Places, TypeOK, EndDrain, queue, stream, tally
<1>3. TallyInv'
  BY DEF Inv, TallyInv, Tallied, TypeOK, EndDrain, queue, stream, tally
<1>4. GapInv'
  BY DEF Inv, GapInv, First, Last, Frames, Marked, Queued, Room, Tallied, TallyInv,
     TypeOK, Rows, EndDrain, queue, stream, tally
<1>5. WindowInv'
  BY DEF Inv, WindowInv, TypeOK, EndDrain, queue, stream, tally
<1> QED
  BY <1>1, <1>2, <1>3, <1>4, <1>5 DEF Inv

LEMMA MarkersDoneInv == ASSUME Inv, MarkersDone PROVE Inv'
<1>1. TypeOK'
  BY Limits DEF Inv, TypeOK, Rows, MarkersDone, queue, stream, tally
<1>2. QueueInv'
  BY DEF Inv, QueueInv, Places, TypeOK, MarkersDone, queue, stream, tally
<1>3. TallyInv'
  BY DEF Inv, TallyInv, Tallied, TypeOK, MarkersDone, queue, stream, tally
<1>4. GapInv'
  BY DEF Inv, GapInv, First, Last, Frames, Marked, Queued, Room, Tallied, TallyInv,
     TypeOK, Rows, MarkersDone, queue, stream, tally
<1>5. WindowInv'
  BY DEF Inv, WindowInv, TypeOK, MarkersDone, queue, stream, tally
<1> QED
  BY <1>1, <1>2, <1>3, <1>4, <1>5 DEF Inv

LEMMA StatusPassInv == ASSUME Inv, StatusPass PROVE Inv'
<1>1. TypeOK'
  BY Limits DEF Inv, TypeOK, Rows, StatusPass, queue, stream, tally
<1>2. QueueInv'
  BY DEF Inv, QueueInv, Places, TypeOK, StatusPass, queue, stream, tally
<1>3. TallyInv'
  BY DEF Inv, TallyInv, Tallied, TypeOK, StatusPass, queue, stream, tally
<1>4. GapInv'
  BY DEF Inv, GapInv, First, Last, Frames, Marked, Queued, Room, Tallied, TallyInv,
     TypeOK, Rows, StatusPass, queue, stream, tally
<1>5. WindowInv'
  BY DEF Inv, WindowInv, TypeOK, StatusPass, queue, stream, tally
<1> QED
  BY <1>1, <1>2, <1>3, <1>4, <1>5 DEF Inv

LEMMA SampleDropsInv == ASSUME Inv, SampleDrops PROVE Inv'
<1>1. TypeOK'
  BY Limits DEF Inv, TypeOK, Rows, SampleDrops, queue, stream, tally
<1>2. QueueInv'
  BY DEF Inv, QueueInv, Places, TypeOK, SampleDrops, queue, stream, tally
<1>3. TallyInv'
  BY DEF Inv, TallyInv, Tallied, TypeOK, SampleDrops, queue, stream, tally
<1>4. GapInv'
  BY DEF Inv, GapInv, First, Last, Frames, Marked, Queued, Room, Tallied, TallyInv,
     TypeOK, Rows, SampleDrops, queue, stream, tally
<1>5. WindowInv'
  BY DEF Inv, WindowInv, TypeOK, SampleDrops, queue, stream, tally
<1> QED
  BY <1>1, <1>2, <1>3, <1>4, <1>5 DEF Inv

\* The row covers what it will be banked for.
LEMMA PrintDroppedInv == ASSUME Inv, PrintDropped PROVE Inv'
<1>y. /\ arrived \in Nat /\ s_drops \in Nat /\ s_reported_drops \in Nat /\ drops \in Nat
      /\ carried \in Nat /\ noted \in Nat /\ forgotten \in Nat /\ Tallied \in Nat
      /\ First \in Nat /\ Last \in Nat /\ Frames \in Nat /\ Marked \in Nat
      /\ Queued \in Nat /\ rows \in Rows
  BY Typed DEF Inv
<1>u. /\ UNCHANGED <<arrived, s_frame_queue, s_drops, batch, drops, s_file, carried>>
      /\ UNCHANGED <<s_reported_drops, forgotten, s_commit_fails>>
      /\ pc = "print" /\ unsynced' = IF unsynced = 0 THEN 1 ELSE unsynced
  BY DEF PrintDropped, queue
<1>r. \/ /\ ~err /\ err' = err /\ pc' = "bank" /\ left' = left
         /\ rows' = [rows EXCEPT !.marked = @ + (drops - s_reported_drops)]
         /\ noted' = noted + (drops - s_reported_drops)
      \/ /\ pc' = "commit" /\ err' = TRUE /\ rows' = rows /\ noted' = noted
         /\ left' = left \/ Spend("fault")
  BY DEF PrintDropped
<1>n. /\ drops - s_reported_drops \in Nat /\ s_file
      /\ drops \in Nat /\ s_reported_drops \in Nat /\ noted \in Nat /\ forgotten \in Nat
  BY <1>u DEF Inv, TypeOK, TallyInv
<1>w. LET r == [rows EXCEPT !.marked = @ + (drops - s_reported_drops)]
      IN  /\ r \in Rows /\ r.first = rows.first /\ r.last = rows.last
          /\ r.frames = rows.frames /\ r.marked = rows.marked + (drops - s_reported_drops)
  <2> rows \in Rows
    BY DEF Inv, TypeOK
  <2>1. [rows EXCEPT !.marked = @ + (drops - s_reported_drops)] =
          [first |-> rows.first, last |-> rows.last, frames |-> rows.frames,
           marked |-> rows.marked + (drops - s_reported_drops)]
    BY DEF Rows
  <2> QED
    BY <1>n, <1>y, <2>1 DEF Rows
<1>1. TypeOK'
  <2>1. left' \in [{"fault", "rotation"} -> Nat]
    BY <1>r, SpendTyped DEF Inv, TypeOK
  <2>2. rows' \in Rows /\ err' \in BOOLEAN /\ noted' \in Nat
        /\ pc' \in {"bank", "commit"}
    <3>1. rows \in Rows /\ err \in BOOLEAN
      BY DEF Inv, TypeOK
    <3>2. noted + (drops - s_reported_drops) \in Nat
      BY <1>n
    <3> QED
      BY <1>r, <1>w, <1>n, <3>1, <3>2
  <2>3. unsynced' \in Nat
    BY <1>u DEF Inv, TypeOK
  <2> QED
    BY <1>u, <2>1, <2>2, <2>3 DEF Inv, TypeOK
<1>2. QueueInv'
  BY DEF Inv, QueueInv, Places, TypeOK, PrintDropped, queue
<1>3. TallyInv'
  <2>1. s_reported_drops <= drops /\ drops <= s_drops /\ noted + forgotten = s_reported_drops
    BY <1>u DEF Inv, TallyInv, Tallied
  <2>2. noted' + forgotten' = Tallied'
    BY <1>u, <1>r, <1>n, <2>1 DEF Tallied
  <2>3. s_reported_drops <= s_drops
    BY DEF Inv, TallyInv
  <2> QED
    BY <1>u, <1>r, <1>n, <2>1, <2>2, <2>3 DEF TallyInv
<1>4. GapInv'
  <2>1. CASE err'
    BY <2>1 DEF GapInv
  <2>2. CASE ~err'
    <3>1. /\ ~err /\ pc' = "bank"
          /\ rows' = [rows EXCEPT !.marked = @ + (drops - s_reported_drops)]
      BY <1>r, <2>2
    <3>2. Tallied = s_reported_drops /\ Tallied' = drops
      BY <1>u, <3>1 DEF Tallied
    <3>3. /\ First' = First /\ Last' = Last /\ Frames' = Frames /\ Queued' = Queued
          /\ Marked' = Marked + (drops - s_reported_drops)
      BY <1>u, <1>w, <3>1 DEF First, Last, Frames, Marked, Queued
    <3>4. /\ Room' = Room + (drops - s_reported_drops) /\ Room \in Nat
          /\ Tallied' = Tallied + (drops - s_reported_drops)
      BY <1>u, <1>n, <1>y, <3>2, <3>3 DEF Room
    <3>5. s_frame_queue # <<>> => Head(s_frame_queue) \in Nat
      BY Taken DEF Inv
    <3>6. Frames > 0 => /\ arrived' + 1 + Tallied' <= First' + Frames' + Room'
                        /\ Last' + Queued' <= arrived'
      <4>1. Frames > 0 => /\ arrived + 1 + Tallied <= First + Frames + Room
                          /\ Last + Queued <= arrived
        BY <1>n, <3>1 DEF Inv, GapInv
      <4>2. arrived' = arrived /\ Tallied \in Nat /\ Tallied' \in Nat
        BY <1>u, <1>n, <3>2
      <4> QED
        BY <4>1, <4>2, <1>n, <1>y, <3>3, <3>4
    <3>7. Frames = 0 /\ s_frame_queue # <<>> =>
            arrived' + 1 + Tallied' <= Head(s_frame_queue) + Room'
      <4>1. Frames = 0 /\ s_frame_queue # <<>> =>
              arrived + 1 + Tallied <= Head(s_frame_queue) + Room
        BY <1>n, <3>1 DEF Inv, GapInv
      <4>2. arrived' = arrived /\ Tallied \in Nat /\ Tallied' \in Nat
        BY <1>u, <1>n, <3>2
      <4> QED
        BY <4>1, <4>2, <1>n, <1>y, <3>4, <3>5
    <3> QED
      BY <1>u, <3>3, <3>6, <3>7 DEF GapInv
  <2> QED
    BY <2>1, <2>2
<1>5. WindowInv'
  BY DEF Inv, WindowInv, TypeOK, PrintDropped, queue
<1> QED
  BY <1>1, <1>2, <1>3, <1>4, <1>5 DEF Inv

LEMMA BankDropsInv == ASSUME Inv, BankDrops PROVE Inv'
<1>1. TypeOK'
  BY Limits DEF Inv, TypeOK, Rows, BankDrops, queue, stream
<1>2. QueueInv'
  BY DEF Inv, QueueInv, Places, TypeOK, BankDrops, queue, stream
<1>3. TallyInv'
  BY DEF Inv, TallyInv, Tallied, TypeOK, BankDrops, queue, stream
<1>4. GapInv'
  BY DEF Inv, GapInv, First, Last, Frames, Marked, Queued, Room, Tallied, TallyInv,
     TypeOK, Rows, BankDrops, queue, stream
<1>5. WindowInv'
  BY DEF Inv, WindowInv, TypeOK, BankDrops, queue, stream
<1> QED
  BY <1>1, <1>2, <1>3, <1>4, <1>5 DEF Inv

LEMMA SkipCommitInv == ASSUME Inv, SkipCommit PROVE Inv'
<1>1. TypeOK'
  BY Limits DEF Inv, TypeOK, Rows, SkipCommit, queue, stream, tally
<1>2. QueueInv'
  BY DEF Inv, QueueInv, Places, TypeOK, SkipCommit, queue, stream, tally
<1>3. TallyInv'
  BY DEF Inv, TallyInv, Tallied, TypeOK, SkipCommit, queue, stream, tally
<1>4. GapInv'
  BY DEF Inv, GapInv, First, Last, Frames, Marked, Queued, Room, Tallied, TallyInv,
     TypeOK, Rows, SkipCommit, queue, stream, tally
<1>5. WindowInv'
  BY DEF Inv, WindowInv, TypeOK, SkipCommit, queue, stream, tally
<1> QED
  BY <1>1, <1>2, <1>3, <1>4, <1>5 DEF Inv

LEMMA CommitWorksInv == ASSUME Inv, CommitWorks PROVE Inv'
<1>1. TypeOK'
  BY Limits DEF Inv, TypeOK, Rows, CommitWorks, queue, tally
<1>2. QueueInv'
  BY DEF Inv, QueueInv, Places, TypeOK, CommitWorks, queue, tally
<1>3. TallyInv'
  BY DEF Inv, TallyInv, Tallied, TypeOK, CommitWorks, queue, tally
<1>4. GapInv'
  BY DEF Inv, GapInv, First, Last, Frames, Marked, Queued, Room, Tallied, TallyInv,
     TypeOK, Rows, CommitWorks, queue, tally
<1>5. WindowInv'
  BY DEF Inv, WindowInv, TypeOK, CommitWorks, queue, tally
<1> QED
  BY <1>1, <1>2, <1>3, <1>4, <1>5 DEF Inv

LEMMA CommitFailsInv == ASSUME Inv, CommitFails PROVE Inv'
<1>1. TypeOK'
  BY Limits DEF Inv, TypeOK, Rows, CommitFails, Spend, queue, tally
<1>2. QueueInv'
  BY DEF Inv, QueueInv, Places, TypeOK, CommitFails, Spend, queue, tally
<1>3. TallyInv'
  BY DEF Inv, TallyInv, Tallied, TypeOK, CommitFails, Spend, queue, tally
<1>4. GapInv'
  BY DEF Inv, GapInv, First, Last, Frames, Marked, Queued, Room, Tallied, TallyInv,
     TypeOK, Rows, CommitFails, Spend, queue, tally
<1>5. WindowInv'
  BY DEF Inv, WindowInv, TypeOK, CommitFails, Spend, queue, tally
<1> QED
  BY <1>1, <1>2, <1>3, <1>4, <1>5 DEF Inv

\* No file, so nothing to cover.
LEMMA CloseFileInv == ASSUME Inv, CloseFile PROVE Inv'
<1>n. /\ s_file' = FALSE /\ err' = FALSE /\ unsynced' = 0 /\ carried' \in Nat
      /\ rows' \in Rows
  BY NewFileTyped DEF CloseFile, Inv
<1>1. TypeOK'
  <2>1. s_commit_fails' = s_commit_fails /\ pc' = "open"
        /\ UNCHANGED <<arrived, s_frame_queue, s_drops, batch, drops, s_reported_drops, noted,
                       forgotten, left>>
    BY DEF CloseFile, NewFile, queue, tally
  <2> QED
    BY <1>n, <2>1 DEF Inv, TypeOK
<1>2. QueueInv'
  BY DEF Inv, QueueInv, Places, TypeOK, CloseFile, NewFile, NoRows, queue, tally
<1>3. TallyInv'
  BY DEF Inv, TallyInv, Tallied, TypeOK, CloseFile, NewFile, NoRows, queue, tally
<1>4. GapInv'
  BY <1>n DEF GapInv
<1>5. WindowInv'
  BY DEF Inv, WindowInv, TypeOK, CloseFile, NewFile, NoRows, queue, tally
<1> QED
  BY <1>1, <1>2, <1>3, <1>4, <1>5 DEF Inv

\* The drops between the queued frames are carried over.
LEMMA ReopenedInv == ASSUME Inv, Reopened PROVE Inv'
<1>y. /\ arrived \in Nat /\ s_drops \in Nat /\ s_reported_drops \in Nat /\ drops \in Nat
      /\ carried \in Nat /\ noted \in Nat /\ forgotten \in Nat /\ Tallied \in Nat
      /\ First \in Nat /\ Last \in Nat /\ Frames \in Nat /\ Marked \in Nat
      /\ Queued \in Nat /\ rows \in Rows
  BY Typed DEF Inv
<1>u. UNCHANGED <<arrived, s_frame_queue, s_drops, batch, drops, noted>>
      /\ pc \in {"open", "resume"} /\ pc' \in {"drain", "status"}
  BY DEF Reopened, queue
<1>r. \/ /\ NewFile(TRUE) /\ left' = left /\ s_reported_drops' = s_drops
         /\ forgotten' = forgotten + (s_drops - s_reported_drops)
      \/ /\ NewFile(FALSE) /\ Spend("fault") /\ s_reported_drops' = s_reported_drops
         /\ forgotten' = forgotten
  BY DEF Reopened
<1>n. /\ s_file' \in BOOLEAN /\ err' = FALSE /\ unsynced' = 0 /\ carried' = DropsAhead
      /\ carried' \in Nat /\ rows' = NoRows /\ rows' \in Rows
      /\ s_commit_fails' \in 0..(CommitFailLimit - 1)
  BY <1>r, NewFileTyped DEF Inv
<1>d. /\ s_drops - s_reported_drops \in Nat /\ s_drops \in Nat /\ s_reported_drops \in Nat
      /\ noted \in Nat /\ forgotten \in Nat /\ noted + forgotten = s_reported_drops
  BY <1>u DEF Inv, TypeOK, TallyInv, Tallied
<1>1. TypeOK'
  <2>1. left' \in [{"fault", "rotation"} -> Nat]
    BY <1>r, SpendTyped DEF Inv, TypeOK
  <2>2. s_reported_drops' \in Nat /\ forgotten' \in Nat
    <3>1. CASE forgotten' = forgotten + (s_drops - s_reported_drops)
               /\ s_reported_drops' = s_drops
      BY <3>1, <1>d
    <3>2. CASE forgotten' = forgotten /\ s_reported_drops' = s_reported_drops
      BY <3>2, <1>d
    <3> QED
      BY <1>r, <3>1, <3>2
  <2> QED
    BY <1>u, <1>n, <2>1, <2>2 DEF Inv, TypeOK
<1>2. QueueInv'
  BY DEF Inv, QueueInv, Places, TypeOK, Reopened, NewFile, NoRows, queue
<1>3. TallyInv'
  <2>1. Tallied' = s_reported_drops'
    BY <1>u DEF Tallied
  <2>2. CASE forgotten' = forgotten + (s_drops - s_reported_drops)
             /\ s_reported_drops' = s_drops
    BY <2>1, <2>2, <1>u, <1>d DEF TallyInv
  <2>3. CASE forgotten' = forgotten /\ s_reported_drops' = s_reported_drops
    BY <2>1, <2>3, <1>u, <1>d DEF TallyInv
  <2> QED
    BY <1>r, <2>2, <2>3
<1>4. GapInv'
  <2>1. Tallied' \in Nat /\ Tallied' <= s_drops'
    <3>1. s_drops' \in Nat /\ Tallied' = s_reported_drops' /\ s_reported_drops' \in Nat
      BY <1>u, <1>1 DEF Tallied, TypeOK
    <3> QED
      BY <3>1, <1>3 DEF TallyInv
  <2>2. Frames' = 0 /\ Marked' = 0 /\ Queued' = Queued
    BY <1>u, <1>n DEF NoRows, Frames, Marked, Queued
  <2>3. Room' = Queued + s_drops + DropsAhead /\ Room' \in Nat
    BY <1>u, <1>n, <1>y, <2>2 DEF Room
  <2>4. CASE s_frame_queue # <<>>
    <3>1. /\ Head(s_frame_queue) \in Nat
          /\ DropsAhead = arrived - Head(s_frame_queue) + 1 - Queued
      BY <2>4, Taken DEF Inv, DropsAhead, Queued
    <3>2. arrived + 1 = Head(s_frame_queue) + Queued + DropsAhead
      BY <3>1, <1>y
    <3>3. arrived + 1 + Tallied' <= Head(s_frame_queue) + Room'
      BY <2>1, <2>3, <3>1, <3>2, <1>u, <1>n, <1>y
    <3> QED
      BY <2>2, <3>3, <1>u DEF GapInv
  <2>5. CASE s_frame_queue = <<>>
    BY <2>2, <2>5, <1>u DEF GapInv
  <2> QED
    BY <2>4, <2>5
<1>5. WindowInv'
  BY DEF Inv, WindowInv, TypeOK, Reopened, NewFile, NoRows, queue
<1> QED
  BY <1>1, <1>2, <1>3, <1>4, <1>5 DEF Inv

LEMMA RotateInv == ASSUME Inv, Rotate PROVE Inv'
<1>y. /\ arrived \in Nat /\ s_drops \in Nat /\ s_reported_drops \in Nat /\ drops \in Nat
      /\ carried \in Nat /\ noted \in Nat /\ forgotten \in Nat /\ Tallied \in Nat
      /\ First \in Nat /\ Last \in Nat /\ Frames \in Nat /\ Marked \in Nat
      /\ Queued \in Nat /\ rows \in Rows
  BY Typed DEF Inv
<1>u. /\ UNCHANGED <<arrived, s_frame_queue, s_drops, batch, drops>> /\ pc = "markers"
      /\ UNCHANGED <<s_reported_drops, noted, forgotten>> /\ pc' = "markers"
  BY DEF Rotate, queue, tally
<1>r. (NewFile(TRUE) \/ NewFile(FALSE)) /\ left["rotation"] > 0
  BY DEF Rotate
<1>n. /\ s_file' \in BOOLEAN /\ err' = FALSE /\ unsynced' = 0 /\ carried' = DropsAhead
      /\ carried' \in Nat /\ rows' = NoRows /\ rows' \in Rows
      /\ s_commit_fails' \in 0..(CommitFailLimit - 1)
  BY <1>r, NewFileTyped DEF Inv
<1>1. TypeOK'
  <2>1. left' \in [{"fault", "rotation"} -> Nat]
    <3>1. left \in [{"fault", "rotation"} -> Nat]
      BY DEF Inv, TypeOK
    <3>2. CASE left' = [left EXCEPT !["rotation"] = @ - 1]
      BY <1>r, <3>1, <3>2
    <3>3. CASE left["fault"] > 0
               /\ left' = [left EXCEPT !["rotation"] = @ - 1, !["fault"] = @ - 1]
      BY <1>r, <3>1, <3>3
    <3> QED
      BY <3>2, <3>3 DEF Rotate
  <2> QED
    BY <1>u, <1>n, <2>1 DEF Inv, TypeOK
<1>2. QueueInv'
  BY DEF Inv, QueueInv, Places, TypeOK, Rotate, NewFile, NoRows, queue, tally
<1>3. TallyInv'
  BY <1>u DEF Inv, TallyInv, Tallied
<1>4. GapInv'
  <2>1. Tallied' \in Nat /\ Tallied' <= s_drops'
    <3>1. s_drops' \in Nat /\ Tallied' = s_reported_drops' /\ s_reported_drops' \in Nat
      BY <1>u, <1>1 DEF Tallied, TypeOK
    <3> QED
      BY <3>1, <1>3 DEF TallyInv
  <2>2. Frames' = 0 /\ Marked' = 0 /\ Queued' = Queued
    BY <1>u, <1>n DEF NoRows, Frames, Marked, Queued
  <2>3. Room' = Queued + s_drops + DropsAhead /\ Room' \in Nat
    BY <1>u, <1>n, <1>y, <2>2 DEF Room
  <2>4. CASE s_frame_queue # <<>>
    <3>1. /\ Head(s_frame_queue) \in Nat
          /\ DropsAhead = arrived - Head(s_frame_queue) + 1 - Queued
      BY <2>4, Taken DEF Inv, DropsAhead, Queued
    <3>2. arrived + 1 = Head(s_frame_queue) + Queued + DropsAhead
      BY <3>1, <1>y
    <3>3. arrived + 1 + Tallied' <= Head(s_frame_queue) + Room'
      BY <2>1, <2>3, <3>1, <3>2, <1>u, <1>n, <1>y
    <3> QED
      BY <2>2, <3>3, <1>u DEF GapInv
  <2>5. CASE s_frame_queue = <<>>
    BY <2>2, <2>5, <1>u DEF GapInv
  <2> QED
    BY <2>4, <2>5
<1>5. WindowInv'
  BY DEF Inv, WindowInv, TypeOK, Rotate, NewFile, NoRows, queue, tally
<1> QED
  BY <1>1, <1>2, <1>3, <1>4, <1>5 DEF Inv

LEMMA StepInv == Inv /\ [Next]_vars => Inv'
<1> SUFFICES ASSUME Inv, [Next]_vars PROVE Inv'
  OBVIOUS
<1>1. CASE Next
  BY <1>1, ArriveInv, DrainFrameInv, EndDrainInv, MarkersDoneInv, StatusPassInv,
     SampleDropsInv, PrintDroppedInv,
     BankDropsInv, SkipCommitInv, CommitWorksInv, CommitFailsInv, CloseFileInv,
     ReopenedInv, RotateInv
  DEF Next, Logger
<1>2. CASE UNCHANGED vars
  <2>1. TypeOK' /\ QueueInv' /\ WindowInv'
    BY <1>2 DEF vars, queue, stream, tally, Inv, TypeOK, QueueInv, Places, WindowInv
  <2>2. TallyInv' /\ GapInv'
    BY <1>2 DEF vars, queue, stream, tally, Inv, TallyInv, Tallied, GapInv, First, Last,
                Frames, Marked, Queued, Room
  <2> QED
    BY <2>1, <2>2 DEF Inv
<1> QED
  BY <1>1, <1>2

-----------------------------------------------------------------------------

\* The types, and that the queue, the batch and the failed commits stay in bounds.
THEOREM Typing == Spec => []TypeOK
<1>1. Inv => TypeOK
  BY DEF Inv
<1> QED
  BY InitInv, StepInv, <1>1, PTL DEF Spec

\* Whatever the interrupt counts while note_drops works, no drop is reported twice
\* and none is lost from the tally.
THEOREM DropsAccountedAlways == Spec => []DropsAccounted
<1>1. Inv => DropsAccounted
  BY DEF Inv, TallyInv, Tallied, DropsAccounted
<1> QED
  BY InitInv, StepInv, <1>1, PTL DEF Spec

\* The gaps of a file are covered by its DROPPED rows, the drops still to be
\* reported and those dropped before it was opened behind queued frames.
THEOREM GapsCoveredAlways == Spec => []GapsCovered
<1>1. Inv => GapsCovered
  <2> SUFFICES ASSUME Inv, s_file, ~err, rows.frames > 0
               PROVE  Gap <= rows.marked + (s_drops - s_reported_drops) + carried
    BY DEF GapsCovered
  <2>1. arrived + 1 + Tallied <= First + Frames + Room /\ Last + Queued <= arrived
    BY DEF Inv, GapInv, Frames
  <2>2. s_reported_drops <= Tallied
    BY DEF Inv, TallyInv, Tallied, TypeOK
  <2>3. Last - First + 1 - Frames <= Marked + (s_drops - s_reported_drops) + carried
    BY <2>1, <2>2, Typed DEF Inv, Room
  <2> QED
    BY <2>3 DEF Gap, First, Last, Frames, Marked
<1> QED
  BY InitInv, StepInv, <1>1, PTL DEF Spec

\* A row that is not on the card was printed at most COMMIT_FAIL_LIMIT passes ago.
THEOREM LossWindowAlways == Spec => []LossWindow
<1>1. Inv => LossWindow
  BY Limits DEF Inv, TypeOK, WindowInv, LossWindow
<1> QED
  BY InitInv, StepInv, <1>1, PTL DEF Spec

=============================================================================
