-------------------------- MODULE SessionSyncProofs --------------------------
(***************************************************************************)
(* Proofs about SessionSync, for every number of sessions, of rows, and of *)
(* places in LIST and in its reply: what the high-water mark hides from    *)
(* LIST has reached the phone whole.                                       *)
(***************************************************************************)
EXTENDS SessionSync, FiniteSetTheorems, WellFoundedInduction, TLAPS

-----------------------------------------------------------------------------
(* Numbers and the lowest of them. *)

\* A set of numbers that is not empty has a least one.
LEMMA LeastExists ==
  ASSUME NEW S, S \subseteq Nat, S # {}
  PROVE  \E i \in S : \A j \in S : i <= j
<1> DEFINE R == OpToRel(<, Nat)
<1>1. IsWellFoundedOn(R, Nat)
  BY NatLessThanWellFounded
<1>2. \E i \in S : \A j \in S : ~ (<<j, i>> \in R)
  <2> HIDE DEF R
  <2> QED
    BY <1>1, WFMin
<1>3. \A i, j \in S : ~ (<<j, i>> \in R) => i <= j
  BY DEF OpToRel
<1> QED
  BY <1>2, <1>3

\* Lowest is what its name says.
LEMMA LowestIsLeast ==
  ASSUME NEW S, S \subseteq Ids, S # {}
  PROVE  Lowest(S) \in S /\ \A j \in S : Lowest(S) <= j
<1>1. S \subseteq Nat
  BY Sizes DEF Ids
<1>2. \E i \in S : \A j \in S : i <= j
  BY <1>1, LeastExists
<1> QED
  BY <1>2 DEF Lowest

\* The last of a set of session numbers.
LEMMA HighestExists ==
  ASSUME NEW S, S \subseteq Ids, S # {}
  PROVE  \E i \in S : \A j \in S : j <= i
<1> DEFINE U == {u \in Ids : \A j \in S : j <= u}
<1>1. MaxId \in U
  BY Sizes DEF Ids
<1>2. PICK u \in U : \A v \in U : u <= v
  <2>1. U \subseteq Nat
    BY Sizes DEF Ids
  <2> HIDE DEF U
  <2> QED
    BY <1>1, <2>1, LeastExists
<1>3. u \in S
  <2> SUFFICES ASSUME u \notin S PROVE FALSE
    OBVIOUS
  <2>1. PICK k : k \in S
    OBVIOUS
  <2>2. u - 1 \in Ids /\ \A j \in S : j <= u - 1
    BY <1>2, <2>1, Sizes DEF Ids
  <2> QED
    BY <1>2, <2>2, Sizes DEF Ids
<1> QED
  BY <1>3

\* There are finitely many session numbers.
LEMMA IdsFinite == IsFiniteSet(Ids) /\ \A S : S \subseteq Ids => IsFiniteSet(S)
<1>1. IsFiniteSet(Ids)
  BY FS_Interval, Sizes DEF Ids
<1> QED
  BY <1>1, FS_Subset

\* LIST keeps as many as it has places for.
LEMMA LowestOfBounded ==
  ASSUME NEW n \in Nat, NEW S, S \subseteq Ids
  PROVE  IsFiniteSet(LowestOf(n, S)) /\ Cardinality(LowestOf(n, S)) <= n
<1> DEFINE T == LowestOf(n, S)
           Below(i) == {j \in S : j < i}
<1>1. T \subseteq S /\ \A i \in T : Cardinality(Below(i)) < n
  BY DEF LowestOf
<1>2. IsFiniteSet(T)
  BY <1>1, IdsFinite
<1>3. CASE T = {}
  BY <1>2, <1>3, FS_EmptySet
<1>4. CASE T # {}
  <2>1. PICK m \in T : \A j \in T : j <= m
    BY <1>1, <1>4, HighestExists
  <2>2. Cardinality(Below(m)) < n /\ IsFiniteSet(Below(m))
    BY <1>1, <2>1, IdsFinite
  <2>3. T \subseteq Below(m) \cup {m}
    <3> HIDE DEF T
    <3>1. S \subseteq Int
      BY Sizes DEF Ids
    <3>2. \A k \in T : k \in Below(m) \/ k = m
      BY <1>1, <2>1, <3>1
    <3> HIDE DEF T, Below
    <3> QED
      BY <3>2
  <2> HIDE DEF T
  <2>4. m \notin Below(m)
    BY <1>1, <2>1 DEF Ids
  <2> HIDE DEF Below
  <2>5. /\ IsFiniteSet(Below(m) \cup {m})
        /\ Cardinality(Below(m) \cup {m}) = Cardinality(Below(m)) + 1
    BY <2>2, <2>4, FS_AddElement
  <2>6. Cardinality(T) <= Cardinality(Below(m) \cup {m})
    BY <2>3, <2>5, FS_Subset
  <2>7. Cardinality(Below(m)) \in Nat /\ Cardinality(T) \in Nat
    BY <1>2, <2>2, FS_CardinalityType
  <2>8. Cardinality(T) <= n
    BY <2>2, <2>5, <2>6, <2>7
  <2> QED
    BY <1>2, <2>8 DEF T
<1> QED
  BY <1>3, <1>4

\* LIST passes over none below one that it keeps.
LEMMA LowestOfDownClosed ==
  ASSUME NEW n \in Nat, NEW S, S \subseteq Ids, NEW i \in LowestOf(n, S), NEW j \in S, j < i
  PROVE  j \in LowestOf(n, S)
<1> DEFINE Below(k) == {l \in S : l < k}
<1>1. i \in Ids /\ j \in Ids /\ Cardinality(Below(i)) < n
  BY DEF LowestOf
<1>2. Below(j) \subseteq Below(i)
  <2>1. S \subseteq Int /\ i \in Int /\ j \in Int
    BY <1>1, Sizes DEF Ids
  <2>2. \A l \in S : l < j => l < i
    BY <2>1
  <2> QED
    BY <2>2
<1>3. IsFiniteSet(Below(i)) /\ IsFiniteSet(Below(j))
  BY IdsFinite
<1>4. Cardinality(Below(j)) < n
  <2> HIDE DEF Below
  <2>1. Cardinality(Below(j)) <= Cardinality(Below(i))
    BY <1>2, <1>3, FS_Subset
  <2> QED
    BY <1>1, <1>3, <2>1, FS_CardinalityType
<1> QED
  BY <1>4 DEF LowestOf

\* The number of the next session is free, and a higher one unless they wrap.
LEMMA NextFreeIsFree ==
  ASSUME Present # Ids, NEW s \in Ids
  PROVE  /\ NextFree(s) \in Ids \ Present
         /\ NextFree(s) > s \/ NextFree(s) < s \/ s \notin Present
<1>1. Ids \ Present # {}
  BY DEF Present
<1>2. CASE \E j \in Ids \ Present : j > s
  <2>1. Lowest({j \in Ids \ Present : j > s}) \in {j \in Ids \ Present : j > s}
    BY <1>2, LowestIsLeast
  <2> QED
    BY <1>2, <2>1 DEF NextFree
<1>3. CASE ~ \E j \in Ids \ Present : j > s
  <2>1. Lowest(Ids \ Present) \in Ids \ Present
    BY <1>1, LowestIsLeast
  <2>2. NextFree(s) \in Ids \ Present
    BY <1>3, <2>1 DEF NextFree
  <2> QED
    BY <2>2 DEF Ids
<1> QED
  BY <1>2, <1>3

-----------------------------------------------------------------------------
(* The inductive invariant. *)

\* The phone keeps all of this session, or there is nothing in it.
Whole(j) == snap[j] \in {0, have[j]}
Quiet == ~wrapped /\ ~raced

\* Without a wrap every number that was given, listed, fetched or confirmed is below
\* that of the session being written, which LIST has not offered.
NumbersInv ==
  /\ Present \subseteq 1..s_log_id /\ last_synced < s_log_id
  /\ \A i \in Ids : have[i] # Absent => i < s_log_id
  /\ pc = "readdir" => active = s_log_id
  /\ pc \in {"stat", "offered", "data", "done"} => \A i \in ids : i < s_log_id
  /\ pc \in {"data", "done"} => cur < s_log_id
  /\ pc = "done" => have[cur] # Absent

\* Below one that the phone keeps, is fetching or has been offered, all are whole but
\* those that were offered with it.
WholeInv ==
  /\ \A i \in Ids, j \in Present : have[i] # Absent /\ j <= i => Whole(j)
  /\ \A j \in Present : j <= last_synced => Whole(j)
  /\ pc = "stat" => \A i \in ids, j \in Present : floor < j /\ j < i => j \in ids
  /\ pc \in {"offered", "data", "done"} =>
       \A i \in ids, j \in Present : j < i => j \in ids \/ Whole(j) \/ (pc = "data" /\ j = cur)
  /\ pc \in {"data", "done"} => \A j \in Present : j < cur => Whole(j)

CommandInv == floor <= last_synced /\ (pc \in {"data", "done"} => cur \in Ids)

SyncInv == TypeOK /\ CommandInv /\ (Quiet => NumbersInv /\ WholeInv)

-----------------------------------------------------------------------------
(* Types. *)

\* The types at the start.
LEMMA InitTypes == Init => TypeOK
<1> SUFFICES ASSUME Init PROVE TypeOK
  OBVIOUS
<1>1. snap \in [Ids -> 0..MaxRows \cup {Absent}] /\ have \in [Ids -> 0..MaxRows \cup {Absent}]
  BY Sizes DEF Init
<1>2. s_log_id \in Present /\ 1 \in Ids
  BY Sizes DEF Init, Present, Ids
<1>3. Cardinality(ids) <= MaxKept /\ ids \subseteq Ids
  BY FS_EmptySet, Sizes DEF Init
<1>4. wrapped \in BOOLEAN /\ raced \in BOOLEAN
  BY DEF Init
<1> QED
  BY <1>1, <1>2, <1>3, <1>4, Sizes DEF Init, TypeOK

\* A smaller set of offers.
LEMMA FewerOffers ==
  ASSUME TypeOK, NEW S \in SUBSET ids
  PROVE  S \subseteq Ids /\ Cardinality(S) <= MaxKept
<1>1. S \subseteq Ids /\ IsFiniteSet(ids) /\ IsFiniteSet(S)
  BY IdsFinite DEF TypeOK
<1>2. Cardinality(S) <= Cardinality(ids)
  BY <1>1, FS_Subset
<1> QED
  BY <1>1, <1>2, FS_CardinalityType, Sizes DEF TypeOK

\* Each step of the logger keeps them.
LEMMA LoggerTypes == TypeOK /\ Logger => TypeOK'
<1> SUFFICES ASSUME TypeOK, Logger PROVE TypeOK'
  OBVIOUS
<1>1. CASE WriteRow
  <2>1. snap[s_log_id] \in 0..MaxRows /\ s_log_id \in Ids
    BY DEF TypeOK, Present
  <2>2. snap' \in [Ids -> 0..MaxRows \cup {Absent}] /\ s_log_id' \in Present'
    BY <1>1, <2>1, Sizes DEF WriteRow, TypeOK, Present
  <2> QED
    BY <1>1, <2>2 DEF WriteRow, TypeOK, command
<1>2. CASE Rotate
  <2>1. s_log_id' \in Ids \ Present /\ s_log_id \in Ids
    BY <1>2, NextFreeIsFree DEF Rotate, TypeOK, Present
  <2>2. snap' \in [Ids -> 0..MaxRows \cup {Absent}] /\ s_log_id' \in Present'
    BY <1>2, <2>1, Sizes DEF Rotate, TypeOK, Present
  <2>3. have' \in [Ids -> 0..MaxRows \cup {Absent}]
    BY <1>2, <2>1, Sizes DEF Rotate, TypeOK
  <2>4. wrapped' \in BOOLEAN /\ raced' \in BOOLEAN /\ left' \in 0..MaxEvents
    BY <1>2, Sizes DEF Rotate, TypeOK, Spend
  <2> QED
    BY <1>2, <2>2, <2>3, <2>4 DEF Rotate, TypeOK, command
<1>3. CASE Reclaim
  <2> DEFINE i == Lowest(Present \ {s_log_id})
  <2>1. i \in Present \ {s_log_id}
    BY <1>3, LowestIsLeast DEF Reclaim, TypeOK, Present
  <2>2. snap' = [snap EXCEPT ![i] = Absent]
    BY <1>3 DEF Reclaim
  <2> HIDE DEF i
  <2>3. snap' \in [Ids -> 0..MaxRows \cup {Absent}] /\ s_log_id' \in Present'
    BY <1>3, <2>1, <2>2, Sizes DEF Reclaim, TypeOK, Present
  <2>4. left' \in 0..MaxEvents
    BY <1>3, Sizes DEF Reclaim, TypeOK, Spend
  <2> QED
    BY <1>3, <2>3, <2>4 DEF Reclaim, TypeOK, command
<1> QED
  BY <1>1, <1>2, <1>3 DEF Logger

\* Each step of the command task keeps them.
LEMMA SyncTypes == TypeOK /\ CommandInv /\ (Sync \/ GetAborted \/ DoneAgain) => TypeOK'
<1> SUFFICES ASSUME TypeOK, CommandInv, Sync \/ GetAborted \/ DoneAgain PROVE TypeOK'
  OBVIOUS
<1>0. /\ ids' \subseteq Ids /\ Cardinality(ids') <= MaxKept
  <2>1. CASE ListRead
    <3> DEFINE S == {i \in Present : i # active /\ i > floor}
    <3>1. S \subseteq Ids
      BY DEF Present
    <3>2. ids' = LowestOf(MaxKept, S)
      BY <2>1 DEF ListRead
    <3>3. ids' \subseteq S
      BY <3>2 DEF LowestOf
    <3> HIDE DEF S
    <3> QED
      BY <3>1, <3>2, <3>3, LowestOfBounded, Sizes
  <2>2. CASE ~ ListRead
    <3>1. ids' \in SUBSET ids
      BY <2>2 DEF Sync, ListFloor, ListActive, ListReply, SyncDone, GetHeader, GetChunk, GetEnd,
                 Done, GetAborted, DoneAgain, StartOver, command, LowestOf
    <3> QED
      BY <3>1, FewerOffers
  <2> QED
    BY <2>1, <2>2
<1>00. card' = card => snap' = snap /\ s_log_id' = s_log_id /\ wrapped' = wrapped /\ Present' = Present
  BY DEF card, Present
<1> USE DEF TypeOK
<1>1. CASE ListFloor
  BY <1>0, <1>00, <1>1 DEF ListFloor
<1>2. CASE ListActive
  BY <1>0, <1>00, <1>2, Sizes DEF ListActive, Present, Ids
<1>3. CASE ListRead
  BY <1>0, <1>00, <1>3 DEF ListRead
<1>4. CASE ListReply
  BY <1>0, <1>00, <1>4, Sizes DEF ListReply, Spend
<1>5. CASE SyncDone
  BY <1>0, <1>00, <1>5, Sizes DEF SyncDone, StartOver
<1>6. CASE GetHeader
  <2>1. CASE snap[Lowest(ids)] # Absent
    <3>1. Lowest(ids) \in Ids
      BY <1>6, LowestIsLeast DEF GetHeader
    <3>2. cur' \in 0..MaxId /\ size' \in 0..MaxRows /\ sent' \in 0..MaxRows /\ pc' = "data"
      BY <1>6, <2>1, <3>1, Sizes DEF GetHeader, Ids
    <3> QED
      BY <1>0, <1>00, <1>6, <3>2 DEF GetHeader
  <2>2. CASE ~ (snap[Lowest(ids)] # Absent)
    BY <1>0, <1>00, <1>6, <2>2, Sizes DEF GetHeader, StartOver
  <2> QED
    BY <2>1, <2>2
<1>7. CASE GetChunk
  <2>1. sent' \in 0..MaxRows
    BY <1>7, Sizes DEF GetChunk, CommandInv
  <2> QED
    BY <1>0, <1>00, <1>7, <2>1 DEF GetChunk
<1>8. CASE GetEnd
  <2>1. have' \in [Ids -> 0..MaxRows \cup {Absent}] /\ cur' \in 0..MaxId /\ pc' \in {"idle", "done"}
    BY <1>8, Sizes DEF GetEnd, StartOver
  <2> QED
    BY <1>0, <1>00, <1>8, <2>1 DEF GetEnd
<1>9. CASE Done
  <2>1. last_synced' \in 0..MaxId /\ left' \in 0..MaxEvents
    BY <1>9, Sizes DEF Done, Confirmed, Spend
  <2> QED
    BY <1>0, <1>00, <1>9, <2>1 DEF Done
<1>10. CASE GetAborted
  BY <1>0, <1>00, <1>10, Sizes DEF GetAborted, StartOver, Spend
<1>11. CASE DoneAgain
  <2>1. last_synced' \in 0..MaxId /\ left' \in 0..MaxEvents
    BY <1>11, Sizes DEF DoneAgain, Confirmed, Spend, Ids
  <2> QED
    BY <1>0, <1>00, <1>11, <2>1 DEF DoneAgain, command
<1> QED
  BY <1>1, <1>2, <1>3, <1>4, <1>5, <1>6, <1>7, <1>8, <1>9, <1>10, <1>11 DEF Sync

-----------------------------------------------------------------------------
(* What every step keeps. *)

\* The invariant holds at the start.
LEMMA InitSync == Init => SyncInv
<1> SUFFICES ASSUME Init PROVE SyncInv
  OBVIOUS
<1>1. TypeOK
  BY InitTypes
<1>2. \A i \in Ids : have[i] = Absent /\ (i # 1 => snap[i] = Absent)
  BY DEF Init
<1>3. Present \subseteq {1}
  BY <1>2 DEF Present
<1>4. s_log_id = 1 /\ last_synced = 0 /\ floor = 0 /\ pc = "idle"
  BY DEF Init
<1>5. NumbersInv
  BY <1>2, <1>3, <1>4 DEF NumbersInv
<1>6. WholeInv
  BY <1>2, <1>3, <1>4 DEF WholeInv
<1> QED
  BY <1>1, <1>4, <1>5, <1>6 DEF SyncInv, CommandInv

\* The history marks are never taken back.
LEMMA QuietBefore == TypeOK /\ Next /\ Quiet' => Quiet
<1> SUFFICES ASSUME TypeOK, Next, Quiet' PROVE Quiet
  OBVIOUS
<1>1. CASE Logger
  <2>1. CASE Rotate
    <3>1. (wrapped => wrapped') /\ (raced => raced')
      BY <2>1 DEF Rotate, TypeOK
    <3> QED
      BY <3>1 DEF Quiet
  <2>2. CASE WriteRow \/ Reclaim
    BY <2>2 DEF WriteRow, Reclaim, Quiet
  <2> QED
    BY <1>1, <2>1, <2>2 DEF Logger
<1>2. CASE ~ Logger
  <2>1. wrapped' = wrapped /\ raced' = raced
    BY <1>2 DEF Next, Sync, ListFloor, ListActive, ListRead, ListReply, SyncDone, GetHeader, GetChunk,
                GetEnd, Done, GetAborted, DoneAgain, card
  <2> QED
    BY <2>1 DEF Quiet
<1> QED
  BY <1>1, <1>2

\* The command task never looks below what was confirmed, and fetches a session there is.
LEMMA CommandStep == TypeOK /\ CommandInv /\ Next => CommandInv'
<1> SUFFICES ASSUME TypeOK, CommandInv, Next PROVE CommandInv'
  OBVIOUS
<1> USE DEF CommandInv
<1>1. CASE Logger
  BY <1>1 DEF Logger, WriteRow, Rotate, Reclaim, command
<1>2. CASE ListFloor \/ ListActive \/ ListRead \/ ListReply \/ SyncDone
  BY <1>2 DEF ListFloor, ListActive, ListRead, ListReply, SyncDone, StartOver, TypeOK
<1>3. CASE GetHeader
  <2>1. Lowest(ids) \in Ids
    BY <1>3, LowestIsLeast DEF GetHeader, TypeOK
  <2> QED
    BY <1>3, <2>1 DEF GetHeader, StartOver
<1>4. CASE GetChunk \/ GetEnd \/ GetAborted
  BY <1>4 DEF GetChunk, GetEnd, GetAborted, StartOver
<1>5. CASE Done
  BY <1>5, Sizes DEF Done, Confirmed, TypeOK
<1>6. CASE DoneAgain
  BY <1>6, Sizes DEF DoneAgain, Confirmed, TypeOK, command, Ids
<1> QED
  BY <1>1, <1>2, <1>3, <1>4, <1>5, <1>6 DEF Next, Sync

\* The logger writes only the session above all others, opens a higher one, or takes
\* one away.
LEMMA LoggerKeeps ==
  ASSUME TypeOK, CommandInv, NumbersInv, WholeInv, Logger, Quiet'
  PROVE  NumbersInv' /\ WholeInv'
<1>0. s_log_id \in Ids /\ s_log_id \in Present /\ Present \subseteq Ids /\ ids \subseteq Ids
  BY DEF TypeOK, Present
<1>00. \A i \in Ids : i \in Nat
  BY Sizes DEF Ids
<1>1. CASE WriteRow
  <2>1. snap[s_log_id] \in 0..MaxRows
    BY <1>0 DEF TypeOK, Present
  <2>2. Present' = Present /\ \A j \in Ids : j # s_log_id => snap'[j] = snap[j]
    BY <1>1, <2>1, Sizes DEF WriteRow, TypeOK, Present
  <2>3. \A j \in Present : j < s_log_id => (Whole(j)' <=> Whole(j))
    BY <1>0, <1>00, <1>1, <2>2 DEF WriteRow, Whole
  <2>4. /\ UNCHANGED <<s_log_id, last_synced, pc, floor, active, ids, cur, have>>
    BY <1>1 DEF WriteRow, command
  <2>5. NumbersInv'
    BY <2>2, <2>4 DEF NumbersInv
  <2>6. WholeInv'
    <3>1. \A i \in Ids, j \in Present' : have'[i] # Absent /\ j <= i => Whole(j)'
      BY <1>0, <1>00, <2>2, <2>3, <2>4 DEF WholeInv, NumbersInv
    <3>2. \A j \in Present' : j <= last_synced' => Whole(j)'
      BY <1>0, <1>00, <2>2, <2>3, <2>4 DEF WholeInv, NumbersInv, TypeOK
    <3>3. pc' = "stat" => \A i \in ids', j \in Present' : floor' < j /\ j < i => j \in ids'
      BY <2>2, <2>4 DEF WholeInv
    <3>4. pc' \in {"offered", "data", "done"} =>
       \A i \in ids', j \in Present' : j < i => j \in ids' \/ Whole(j)' \/ (pc' = "data" /\ j = cur')
      BY <1>0, <1>00, <2>2, <2>3, <2>4 DEF WholeInv, NumbersInv
    <3>5. pc' \in {"data", "done"} => \A j \in Present' : j < cur' => Whole(j)'
      BY <1>0, <1>00, <2>2, <2>3, <2>4 DEF WholeInv, NumbersInv, TypeOK
    <3> QED
      BY <3>1, <3>2, <3>3, <3>4, <3>5 DEF WholeInv
  <2> QED
    BY <2>5, <2>6
<1>2. CASE Rotate
  <2> DEFINE n == s_log_id'
  <2>1. n \in Ids /\ n \notin Present /\ n > s_log_id
    BY <1>0, <1>2, NextFreeIsFree DEF Rotate, Quiet
  <2>2. /\ UNCHANGED <<last_synced, pc, floor, active, ids, cur>> /\ pc # "readdir"
        /\ snap' = [snap EXCEPT ![n] = 0] /\ have' = [have EXCEPT ![n] = Absent]
    BY <1>2 DEF Rotate, command, Quiet
  <2> HIDE DEF n
  <2>3. /\ snap'[n] = 0 /\ have'[n] = Absent
        /\ \A j \in Ids : j # n => snap'[j] = snap[j] /\ have'[j] = have[j]
    BY <2>1, <2>2 DEF TypeOK
  <2>4. Present' = Present \cup {n}
    BY <2>1, <2>3, Sizes DEF Present
  <2>5. \A j \in Present : Whole(j)' <=> Whole(j)
    BY <1>0, <2>1, <2>3 DEF Whole
  <2>6. /\ n = s_log_id' /\ n \in Nat /\ s_log_id \in Nat
        /\ \A i \in Ids : i < s_log_id => i < n
    BY <1>0, <1>00, <2>1 DEF n
  <2>66. pc \in {"data", "done"} => cur \in Ids /\ cur < s_log_id /\ cur < n
    BY <2>6 DEF NumbersInv, CommandInv
  <2>7. NumbersInv'
    <3>1. Present' \subseteq 1..s_log_id' /\ last_synced' < s_log_id'
      BY <1>0, <1>00, <2>1, <2>2, <2>4, <2>6, Sizes DEF NumbersInv, TypeOK
    <3>2. \A i \in Ids : have'[i] # Absent => i < s_log_id'
      <4> SUFFICES ASSUME NEW i \in Ids, have'[i] # Absent PROVE i < n
        BY <2>6
      <4>1. i # n /\ have[i] # Absent
        BY <2>3
      <4> QED
        BY <2>6, <4>1 DEF NumbersInv
    <3>3. pc' \in {"stat", "offered", "data", "done"} => \A i \in ids' : i < s_log_id'
      BY <1>0, <1>00, <2>1, <2>2, <2>6 DEF NumbersInv
    <3>4. pc' \in {"data", "done"} => cur' < s_log_id'
      BY <2>2, <2>6, <2>66
    <3>5. pc' = "done" => have'[cur'] # Absent
      BY <1>0, <1>00, <2>1, <2>2, <2>3 DEF NumbersInv, CommandInv
    <3> QED
      BY <2>2, <3>1, <3>2, <3>3, <3>4, <3>5 DEF NumbersInv
  <2>8. WholeInv'
    <3>1. \A i \in Ids, j \in Present' : have'[i] # Absent /\ j <= i => Whole(j)'
      <4> SUFFICES ASSUME NEW i \in Ids, NEW j \in Present', have'[i] # Absent, j <= i
                   PROVE  Whole(j)'
        OBVIOUS
      <4>1. i # n /\ have[i] # Absent
        BY <2>3
      <4>2. i < s_log_id
        BY <4>1 DEF NumbersInv
      <4>3. j # n
        BY <1>00, <2>6, <4>2
      <4> QED
        BY <2>4, <2>5, <4>1, <4>3 DEF WholeInv
    <3>2. \A j \in Present' : j <= last_synced' => Whole(j)'
      <4> SUFFICES ASSUME NEW j \in Present', j <= last_synced PROVE Whole(j)'
        BY <2>2
      <4>1. last_synced < s_log_id /\ last_synced \in Nat /\ n > s_log_id
        BY <2>1, Sizes DEF NumbersInv, TypeOK
      <4>2. j # n
        BY <2>6, <4>1
      <4> QED
        BY <2>4, <2>5, <4>2 DEF WholeInv
    <3>3. pc' = "stat" => \A i \in ids', j \in Present' : floor' < j /\ j < i => j \in ids'
      BY <1>0, <1>00, <2>1, <2>2, <2>4 DEF WholeInv, NumbersInv
    <3>4. pc' \in {"offered", "data", "done"} =>
       \A i \in ids', j \in Present' : j < i => j \in ids' \/ Whole(j)' \/ (pc' = "data" /\ j = cur')
      BY <1>0, <1>00, <2>1, <2>2, <2>4, <2>5 DEF WholeInv, NumbersInv
    <3>5. pc' \in {"data", "done"} => \A j \in Present' : j < cur' => Whole(j)'
      <4>1. pc \in {"data", "done"} => ~ (n < cur)
        BY <1>00, <2>6, <2>66
      <4> QED
        BY <2>2, <2>4, <2>5, <4>1 DEF WholeInv
    <3> QED
      BY <3>1, <3>2, <3>3, <3>4, <3>5 DEF WholeInv
  <2> QED
    BY <2>7, <2>8
<1>3. CASE Reclaim
  <2> DEFINE i == Lowest(Present \ {s_log_id})
  <2>1. i \in Present \ {s_log_id}
    BY <1>0, <1>3, LowestIsLeast DEF Reclaim
  <2>2. snap' = [snap EXCEPT ![i] = Absent]
        /\ UNCHANGED <<s_log_id, last_synced, pc, floor, active, ids, cur, have>>
    BY <1>3 DEF Reclaim, command
  <2> HIDE DEF i
  <2>3. Present' \subseteq Present /\ \A j \in Present' : snap'[j] = snap[j]
    BY <1>0, <2>1, <2>2 DEF TypeOK, Present
  <2>4. \A j \in Present' : Whole(j)' <=> Whole(j)
    BY <2>2, <2>3 DEF Whole
  <2>5. NumbersInv'
    BY <2>2, <2>3 DEF NumbersInv
  <2>6. WholeInv'
    BY <2>2, <2>3, <2>4 DEF WholeInv
  <2> QED
    BY <2>5, <2>6
<1> QED
  BY <1>1, <1>2, <1>3 DEF Logger

\* What LIST offers leaves nothing out below it but what is whole.
LEMMA ListKeeps ==
  ASSUME TypeOK, CommandInv, NumbersInv, WholeInv, ListFloor \/ ListActive \/ ListRead \/ ListReply
  PROVE  NumbersInv' /\ WholeInv'
<1>0. s_log_id \in Ids /\ s_log_id \in Present /\ Present \subseteq Ids /\ ids \subseteq Ids
  BY DEF TypeOK, Present
<1>00. /\ \A i \in Ids : i \in Nat
       /\ floor \in Nat /\ last_synced \in Nat
  BY Sizes DEF Ids, TypeOK
<1>1. /\ UNCHANGED <<s_log_id, last_synced, have, cur, snap, wrapped>> /\ Present' = Present
      /\ \A j : Whole(j)' <=> Whole(j)
  BY DEF ListFloor, ListActive, ListRead, ListReply, card, Present, Whole
<1>2. CASE ListFloor
  <2>1. pc' = "sample"
    BY <1>2 DEF ListFloor
  <2> QED
    BY <1>1, <2>1 DEF NumbersInv, WholeInv
<1>3. CASE ListActive
  <2>1. pc' = "readdir" /\ active' = s_log_id
    BY <1>3 DEF ListActive
  <2> QED
    BY <1>1, <2>1 DEF NumbersInv, WholeInv
<1>4. CASE ListRead
  <2> DEFINE S == {i \in Present : i # active /\ i > floor}
  <2>1. pc' = "stat" /\ ids' = LowestOf(MaxKept, S) /\ S \subseteq Ids /\ active = s_log_id /\ floor' = floor
    BY <1>0, <1>4 DEF ListRead, NumbersInv
  <2>2. \A i \in ids' : i \in S
    BY <2>1 DEF LowestOf
  <2>3. \A i \in S : i < s_log_id
    BY <1>0, <1>00, <2>1 DEF NumbersInv
  <2>4. \A i \in ids', j \in S : j < i => j \in ids'
    <3> HIDE DEF S
    <3> QED
      BY <2>1, LowestOfDownClosed, Sizes
  <2>5. \A i \in ids', j \in Present' : floor' < j /\ j < i => j \in ids'
    <3> SUFFICES ASSUME NEW i \in ids', NEW j \in Present, floor < j, j < i PROVE j \in ids'
      BY <1>1, <2>1
    <3>1. i < s_log_id /\ j \in Nat /\ i \in Nat
      BY <1>0, <1>00, <2>2, <2>3
    <3>2. j \in S
      BY <1>0, <1>00, <2>1, <3>1
    <3> QED
      BY <2>4, <3>2
  <2> QED
    BY <1>1, <2>1, <2>2, <2>3, <2>5 DEF NumbersInv, WholeInv
<1>5. CASE ListReply
  <2>1. CASE ids' = {} /\ pc' = "idle"
    BY <1>1, <2>1 DEF NumbersInv, WholeInv
  <2>2. CASE ~ (ids' = {} /\ pc' = "idle")
    <3> DEFINE S == {i \in ids : snap[i] # Absent /\ snap[i] # 0}
    <3>1. ids' = LowestOf(MaxListed, S) /\ pc' = "offered" /\ pc = "stat" /\ S \subseteq Ids
      BY <1>0, <1>5, <2>2 DEF ListReply
    <3>2. \A i \in ids' : i \in S
      BY <3>1 DEF LowestOf
    <3>3. \A i \in ids', j \in S : j < i => j \in ids'
      <4> HIDE DEF S
      <4> QED
        BY <3>1, LowestOfDownClosed, Sizes
    <3>4. \A i \in ids', j \in Present : j < i => j \in ids' \/ Whole(j)
      <4> SUFFICES ASSUME NEW i \in ids', NEW j \in Present, j < i, j \notin ids' PROVE Whole(j)
        OBVIOUS
      <4>1. i \in ids /\ j \notin S
        BY <3>2, <3>3
      <4>2. CASE j \in ids
        BY <4>1, <4>2 DEF Present, Whole
      <4>3. CASE j \notin ids
        <5>1. ~ (floor < j)
          BY <3>1, <4>1, <4>3 DEF WholeInv
        <5>2. j <= last_synced
          BY <1>0, <1>00, <5>1 DEF CommandInv
        <5> QED
          BY <5>2 DEF WholeInv
      <4> QED
        BY <4>2, <4>3
    <3> QED
      BY <1>1, <3>1, <3>2, <3>4 DEF NumbersInv, WholeInv
  <2> QED
    BY <2>1, <2>2
<1> QED
  BY <1>2, <1>3, <1>4, <1>5

\* The phone fetches the lowest that it was offered.
LEMMA GetKeeps ==
  ASSUME TypeOK, CommandInv, NumbersInv, WholeInv,
         SyncDone \/ GetHeader \/ GetChunk \/ GetEnd \/ GetAborted
  PROVE  NumbersInv' /\ WholeInv'
<1>0. s_log_id \in Ids /\ s_log_id \in Present /\ Present \subseteq Ids /\ ids \subseteq Ids
  BY DEF TypeOK, Present
<1>00. \A i \in Ids : i \in Nat
  BY Sizes DEF Ids
<1>1. UNCHANGED <<s_log_id, last_synced, floor, active, snap, wrapped>> /\ Present' = Present
  BY DEF SyncDone, GetHeader, GetChunk, GetEnd, GetAborted, card, Present
<1>2. CASE StartOver /\ UNCHANGED have
  <2>1. pc' = "idle" /\ have' = have /\ \A j : Whole(j)' <=> Whole(j)
    BY <1>1, <1>2 DEF StartOver, Whole
  <2> QED
    BY <1>1, <2>1 DEF NumbersInv, WholeInv
<1>3. CASE GetHeader /\ ~ StartOver
  <2>1. Lowest(ids) \in ids /\ \A j \in ids : Lowest(ids) <= j
    BY <1>0, <1>3, LowestIsLeast DEF GetHeader
  <2>2. /\ pc = "offered" /\ pc' = "data" /\ cur' = Lowest(ids) /\ ids' = ids \ {cur'} /\ have' = have
    BY <1>3 DEF GetHeader
  <2>3. \A j : Whole(j)' <=> Whole(j)
    BY <1>1, <2>2 DEF Whole
  <2>4. \A j \in Present : j < cur' => Whole(j)
    BY <1>0, <1>00, <2>1, <2>2 DEF WholeInv
  <2>5. \A i \in ids', j \in Present : j < i => j \in ids' \/ Whole(j) \/ j = cur'
    BY <2>2 DEF WholeInv
  <2>6. NumbersInv'
    BY <1>1, <2>1, <2>2 DEF NumbersInv
  <2>7. WholeInv'
    BY <1>1, <2>2, <2>3, <2>4, <2>5 DEF WholeInv
  <2> QED
    BY <2>6, <2>7
<1>4. CASE GetChunk
  <2>1. UNCHANGED <<pc, ids, cur, have>> /\ \A j : Whole(j)' <=> Whole(j)
    BY <1>1, <1>4 DEF GetChunk, Whole
  <2> QED
    BY <1>1, <2>1 DEF NumbersInv, WholeInv
<1>5. CASE GetEnd /\ ~ StartOver
  <2>1. /\ pc = "data" /\ pc' = "done" /\ UNCHANGED <<ids, cur>> /\ cur \in Ids
        /\ have' = [have EXCEPT ![cur] = sent] /\ (snap[cur] = Absent \/ sent = snap[cur])
    BY <1>5 DEF GetEnd, CommandInv
  <2>2. have'[cur] = sent /\ \A i \in Ids : i # cur => have'[i] = have[i]
    BY <2>1 DEF TypeOK
  <2>3. sent # Absent
    BY Sizes DEF TypeOK
  <2>4. \A j \in Present : IF j = cur THEN Whole(j)' ELSE Whole(j)' <=> Whole(j)
    BY <1>0, <1>1, <2>1, <2>2 DEF Whole, Present
  <2>5. NumbersInv'
    BY <1>1, <2>1, <2>2, <2>3 DEF NumbersInv
  <2>6. \A j \in Present : j < cur => Whole(j)'
    BY <2>1, <2>4 DEF WholeInv
  <2>7. \A i \in Ids, j \in Present' : have'[i] # Absent /\ j <= i => Whole(j)'
    <3> SUFFICES ASSUME NEW i \in Ids, NEW j \in Present, have'[i] # Absent, j <= i PROVE Whole(j)'
      BY <1>1
    <3>1. CASE i = cur
      BY <1>0, <1>00, <2>4, <2>6, <3>1
    <3>2. CASE i # cur
      BY <2>2, <2>4, <3>2 DEF WholeInv
    <3> QED
      BY <3>1, <3>2
  <2>8. WholeInv'
    BY <1>1, <2>1, <2>4, <2>6, <2>7 DEF WholeInv
  <2> QED
    BY <2>5, <2>8
<1> QED
  BY <1>2, <1>3, <1>4, <1>5 DEF SyncDone, GetHeader, GetEnd, GetAborted, StartOver

\* A confirmation moves the mark to a session that the phone keeps, or not at all.
LEMMA DoneKeeps ==
  ASSUME TypeOK, CommandInv, NumbersInv, WholeInv, Done \/ DoneAgain
  PROVE  NumbersInv' /\ WholeInv'
<1>0. Present \subseteq Ids /\ \A i \in Ids : i \in Nat
  BY Sizes DEF TypeOK, Present, Ids
<1>1. /\ UNCHANGED <<s_log_id, have, cur, ids, floor, active, snap, wrapped>> /\ Present' = Present
      /\ \A j : Whole(j)' <=> Whole(j)
  BY DEF Done, DoneAgain, card, command, Present, Whole
<1>2. \/ last_synced' = last_synced
      \/ last_synced' \in Ids /\ have[last_synced'] # Absent
  BY DEF Done, DoneAgain, Confirmed, CommandInv, NumbersInv
<1>3. last_synced' < s_log_id
  BY <1>2 DEF NumbersInv
<1>4. \A j \in Present : j <= last_synced' => Whole(j)
  BY <1>2 DEF WholeInv
<1>5. pc' = pc \/ (pc = "done" /\ pc' = "offered")
  BY DEF Done, DoneAgain, command
<1>6. NumbersInv'
  BY <1>1, <1>3, <1>5 DEF NumbersInv
<1>7. WholeInv'
  BY <1>1, <1>4, <1>5 DEF WholeInv
<1> QED
  BY <1>6, <1>7

\* Every step keeps the invariant.
LEMMA NextSync == SyncInv /\ Next => SyncInv'
<1> SUFFICES ASSUME SyncInv, Next PROVE SyncInv'
  OBVIOUS
<1>1. TypeOK /\ CommandInv
  BY DEF SyncInv
<1>2. TypeOK'
  BY <1>1, LoggerTypes, SyncTypes DEF Next
<1>3. CommandInv'
  BY <1>1, CommandStep
<1>4. ASSUME Quiet' PROVE NumbersInv' /\ WholeInv'
  <2>1. NumbersInv /\ WholeInv
    BY <1>1, <1>4, QuietBefore DEF SyncInv
  <2> QED
    BY <1>1, <1>4, <2>1, LoggerKeeps, ListKeeps, GetKeeps, DoneKeeps DEF Next, Sync
<1> QED
  BY <1>2, <1>3, <1>4 DEF SyncInv

\* A stuttering step changes nothing.
LEMMA StutterSync == SyncInv /\ UNCHANGED vars => SyncInv'
BY DEF vars, card, command, SyncInv, TypeOK, CommandInv, Quiet, NumbersInv, WholeInv, Whole, Present

\* The sets of numbers, the rows and the marks of src/main/ble_nus.c keep their types,
\* and LIST never considers more sessions than its array has places.
THEOREM SyncTyping == Spec => []TypeOK
<1>1. SyncInv => TypeOK
  BY DEF SyncInv
<1> QED
  BY <1>1, InitSync, NextSync, StutterSync, PTL DEF Spec

\* Whatever the logger writes, rotates and reclaims meanwhile, and however often the
\* link fails or an answer is lost, the high-water mark hides only sessions that have
\* reached the phone whole, or are empty.
THEOREM SyncedIsCompleteAlways == Spec => []SyncedIsComplete
<1>1. SyncInv => SyncedIsComplete
  BY DEF SyncInv, SyncedIsComplete, Quiet, WholeInv, Whole
<1> QED
  BY <1>1, InitSync, NextSync, StutterSync, PTL DEF Spec

=============================================================================
