----------------------------- MODULE SessionSync -----------------------------
(***************************************************************************)
(* How finished sessions reach the phone: LIST, GET and DONE of            *)
(* src/main/ble_nus.c against the logger that goes on writing, rotating    *)
(* and reclaiming sessions on the same card.                               *)
(*                                                                         *)
(* The phone is external and modelled from how the handlers describe it:   *)
(* it fetches what LIST offers lowest first, keeps a session only if as    *)
(* many bytes came as DATA announced, confirms it with DONE, may confirm   *)
(* one again, and starts over with LIST when a command fails.              *)
(*                                                                         *)
(* A session is the number of committed rows of its snapshot file; that    *)
(* the raw log goes with it is CanLogger.                                  *)
(***************************************************************************)
EXTENDS Integers, FiniteSets

CONSTANTS
  Absent,     \* there is no file with this number
  MaxId,      \* the last number before the wrap (9999)
  MaxKept,    \* LIST_MAX_SESSIONS (64), sessions LIST considers
  MaxListed,  \* sessions that fit in the 512 bytes of a reply
  MaxRows,    \* bound: rows of a session
  MaxEvents   \* bound: rotations, deletions and failures of the link

Ids == 1..MaxId

ASSUME Sizes == /\ MaxId \in Nat /\ MaxId >= 2 /\ MaxKept \in Nat \ {0} /\ MaxListed \in Nat \ {0}
                /\ MaxRows \in Nat
                /\ MaxEvents \in Nat /\ Absent \notin Nat

VARIABLES
  snap,         \* committed rows of each snapshot file
  s_log_id,     \* the session being written
  last_synced,  \* NVS: the high-water mark
  pc,           \* the command task, or the phone between two commands:
                \* "idle", "sample", "readdir", "stat", "offered", "data", "done"
  floor,        \* handle_list_command: last_synced as it read it
  active,       \* the same for the session being written
  ids,          \* what LIST found, then what the phone has still to fetch
  cur,          \* the session being fetched
  size, sent,   \* rows announced, and rows sent
  have,         \* phone: rows of each session it keeps
  wrapped,      \* history: the numbers wrapped
  raced,        \* history: the session changed within a LIST
  left

card == <<snap, s_log_id, wrapped>>
command == <<pc, floor, active, ids, cur, size, sent>>
vars == <<card, last_synced, command, have, raced, left>>

Init ==
  /\ snap = [i \in Ids |-> IF i = 1 THEN 0 ELSE Absent] /\ s_log_id = 1
  /\ last_synced = 0 /\ have = [i \in Ids |-> Absent]
  /\ pc = "idle" /\ floor = 0 /\ active = 0 /\ ids = {} /\ cur = 0
  /\ size = 0 /\ sent = 0
  /\ wrapped = FALSE /\ raced = FALSE /\ left = MaxEvents

Present == {i \in Ids : snap[i] # Absent}
Spend == left > 0 /\ left' = left - 1
Lowest(S) == CHOOSE i \in S : \A j \in S : i <= j

-----------------------------------------------------------------------------
(* The logger. *)

\* A snapshot row is committed.
WriteRow ==
  /\ snap[s_log_id] < MaxRows
  /\ snap' = [snap EXCEPT ![s_log_id] = @ + 1]
  /\ UNCHANGED <<s_log_id, wrapped, last_synced, command, have, raced, left>>

\* The first number after the current one that is not in use: claim_log_id
\* starts from there, NVS holding the next number.
NextFree(i) ==
  IF \E j \in Ids \ Present : j > i THEN Lowest({j \in Ids \ Present : j > i})
                                    ELSE Lowest(Ids \ Present)

\* TRIP_END or an abandoned file: the next session is opened at once.
Rotate ==
  /\ Spend /\ Present # Ids
  /\ s_log_id' = NextFree(s_log_id)
  /\ snap' = [snap EXCEPT ![s_log_id'] = 0]
  /\ have' = [have EXCEPT ![s_log_id'] = Absent]
  /\ wrapped' = (wrapped \/ s_log_id' < s_log_id)
  /\ raced' = (raced \/ pc = "readdir")
  /\ UNCHANGED <<last_synced, command>>

\* sd_store_reclaim deletes the lowest session but the current one.
Reclaim ==
  /\ Spend /\ Present # {s_log_id}
  /\ snap' = [snap EXCEPT ![Lowest(Present \ {s_log_id})] = Absent]
  /\ UNCHANGED <<s_log_id, wrapped, last_synced, command, have, raced>>

-----------------------------------------------------------------------------
(* LIST. *)

\* The first reads: the high-water mark, then the session being written.
ListFloor ==
  /\ pc = "idle" /\ pc' = "sample"
  /\ floor' = last_synced
  /\ UNCHANGED <<card, last_synced, active, ids, cur, size, sent, have, raced, left>>

ListActive ==
  /\ pc = "sample" /\ pc' = "readdir"
  /\ active' = s_log_id
  /\ UNCHANGED <<card, last_synced, floor, ids, cur, size, sent, have, raced, left>>

\* Mutant of LowestOf: the highest.
HighestOf(n, S) == {i \in S : Cardinality({j \in S : j > i}) < n}

\* The bounded insertion into the sorted array keeps the lowest.
LowestOf(n, S) == {i \in S : Cardinality({j \in S : j < i}) < n}

\* The directory is read once; numbers up to the mark, and the active one, are
\* skipped.
ListRead ==
  /\ pc = "readdir" /\ pc' = "stat"
  /\ ids' = LowestOf(MaxKept, {i \in Present : i # active /\ i > floor})
  /\ UNCHANGED <<card, last_synced, floor, active, cur, size, sent, have, raced, left>>

\* Files that are gone or empty by now are left out of the reply, which ends before
\* the first entry that does not fit, and reaches the phone or not.
ListReply ==
  /\ pc = "stat"
  /\ \/ /\ ids' = LowestOf(MaxListed, {i \in ids : snap[i] # Absent /\ snap[i] # 0})
        /\ pc' = "offered" /\ UNCHANGED left
     \/ ids' = {} /\ pc' = "idle" /\ Spend
  /\ UNCHANGED <<card, last_synced, floor, active, cur, size, sent, have, raced>>

-----------------------------------------------------------------------------
(* GET. *)

StartOver == pc' = "idle" /\ ids' = {} /\ cur' = 0

\* All that was offered has been fetched.
SyncDone ==
  /\ pc = "offered" /\ ids = {} /\ StartOver
  /\ UNCHANGED <<card, last_synced, floor, active, size, sent, have, raced, left>>

\* The header with the size, or "ERR not_found".
GetHeader ==
  /\ pc = "offered" /\ ids # {}
  /\ IF snap[Lowest(ids)] # Absent
     THEN /\ pc' = "data" /\ cur' = Lowest(ids) /\ ids' = ids \ {cur'}
          /\ size' = snap[cur'] /\ sent' = 0
     ELSE StartOver /\ UNCHANGED <<size, sent>>
  /\ UNCHANGED <<card, last_synced, floor, active, have, raced, left>>

\* The file is read to its end, wherever that is by then.
GetChunk ==
  /\ pc = "data" /\ snap[cur] # Absent /\ sent < snap[cur]
  /\ sent' = sent + 1
  /\ UNCHANGED <<card, last_synced, pc, floor, active, ids, cur, size, have, raced, left>>

\* A read that fails is taken for the end of the file, so END follows also when
\* the file was deleted meanwhile.  The phone then misses announced rows.
GetEnd ==
  /\ pc = "data" /\ (snap[cur] = Absent \/ sent = snap[cur])
  /\ IF sent >= size
     THEN have' = [have EXCEPT ![cur] = sent] /\ pc' = "done" /\ UNCHANGED <<ids, cur>>
     ELSE StartOver /\ UNCHANGED have
  /\ UNCHANGED <<card, last_synced, floor, active, size, sent, raced, left>>

\* The phone is gone, a notification failed or the file cannot be opened: the
\* phone starts over, also with a session it keeps and could not confirm.
GetAborted ==
  /\ pc \in {"offered", "data", "done"} /\ Spend /\ StartOver
  /\ UNCHANGED <<card, last_synced, floor, active, size, sent, have, raced>>

-----------------------------------------------------------------------------
(* DONE. *)

\* Mutant of Confirmed: the mark names the next session.
ConfirmedNext(i) == IF i > last_synced THEN i + 1 ELSE last_synced

\* handle_done_command: the mark never goes back.
Confirmed(i) == IF i > last_synced THEN i ELSE last_synced

\* Mutant of Done: the confirmation is not stored.
DoneForgotten ==
  /\ pc = "done" /\ pc' = "offered"
  /\ UNCHANGED <<card, last_synced, floor, active, ids, cur, size, sent, have, raced, left>>

\* The answer is OK also when NVS cannot be written.
Done ==
  /\ pc = "done" /\ pc' = "offered"
  /\ \/ last_synced' = Confirmed(cur) /\ UNCHANGED left
     \/ UNCHANGED last_synced /\ Spend
  /\ UNCHANGED <<card, floor, active, ids, cur, size, sent, have, raced>>

\* The answer to an earlier DONE was lost, and the phone confirms again.
DoneAgain ==
  /\ pc \in {"idle", "offered"} /\ Spend
  /\ \E i \in {j \in Ids : have[j] # Absent} : last_synced' = Confirmed(i)
  /\ UNCHANGED <<card, command, have, raced>>

-----------------------------------------------------------------------------

Logger == WriteRow \/ Rotate \/ Reclaim
Sync == ListFloor \/ ListActive \/ ListRead \/ ListReply \/ SyncDone \/ GetHeader
          \/ GetChunk \/ GetEnd \/ Done

Next == Logger \/ Sync \/ GetAborted \/ DoneAgain

Spec == Init /\ [][Next]_vars

\* The phone keeps coming back to sync.
FairSpec == Spec /\ WF_vars(Sync)

-----------------------------------------------------------------------------
(* Properties. *)

TypeOK ==
  /\ snap \in [Ids -> 0..MaxRows \cup {Absent}]
  /\ s_log_id \in Present /\ last_synced \in 0..MaxId
  /\ pc \in {"idle", "sample", "readdir", "stat", "offered", "data", "done"}
  /\ floor \in 0..MaxId /\ active \in 0..MaxId
  /\ ids \subseteq Ids /\ Cardinality(ids) <= MaxKept
  /\ cur \in 0..MaxId /\ size \in 0..MaxRows /\ sent \in 0..MaxRows
  /\ have \in [Ids -> 0..MaxRows \cup {Absent}]
  /\ wrapped \in BOOLEAN /\ raced \in BOOLEAN /\ left \in 0..MaxEvents

\* What the high-water mark hides from LIST has reached the phone whole, or is
\* empty: a session is confirmed neither before its last row is written nor past
\* a lower one that was not fetched.  Not so once the numbers have wrapped, or
\* when the session changed between the two reads of a LIST.
SyncedIsComplete ==
  ~wrapped /\ ~raced =>
    \A i \in Present : i <= last_synced => snap[i] \in {0, have[i]}

\* A finished session with rows reaches the phone, unless retention deletes it
\* first: with the phone starting over none is passed over for ever, however many
\* wait, unless so many empty ones do that LIST considers nothing else.
Empty == {i \in Present : snap[i] = 0}
EverythingFetched ==
  \A i \in Ids :
    i \in Present \ (Empty \cup {s_log_id}) ~>
      \/ i \notin Present \/ have[i] # Absent
      \/ wrapped \/ raced \/ Cardinality(Empty) >= MaxKept

=============================================================================
