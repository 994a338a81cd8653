--------------------------- MODULE TrackerProofs ---------------------------
(***************************************************************************)
(* Theorems about Tracker and the frames read off it, for every value of   *)
(* their constants: the types, the marker and the baked days; that Tracker *)
(* implements DayBook; what a clean ledger stands on; that no instant is   *)
(* counted twice; that the buckets say what the recorder would; that the   *)
(* today frame shows the entity's real times, and no frame more than them; *)
(* that no frame exceeds its window; and that none runs backwards.         *)
(***************************************************************************)
EXTENDS TrackerDayBook, TrackerFrames, FiniteSums, FunctionTheorems

-----------------------------------------------------------------------------
(* Local days.                                                             *)

(* DayOf returns the day an instant lies in.                               *)
LEMMA DayOfInstant ==
    ASSUME NEW t \in Time
    PROVE  DayOf(t) \in Day /\ Midnight[DayOf(t)] <= t /\ t < Midnight[DayOf(t) + 1]
  BY LocalDaysAssumption DEF DayOf, Day

(* Days are integers, and so is the number of days that are kept.          *)
LEMMA DayIsInt == (\A d \in Day : d \in Int /\ 0 <= d) /\ KeepDays \in Int
<1>1. LastDay \in Nat
  BY LocalDaysAssumption
<1> QED
  BY <1>1, TrackerAssumption DEF Day

(* The later of two instants grows with either.                            *)
LEMMA LaterMonotone ==
    ASSUME NEW m \in Int, NEW x \in Int, NEW y \in Int, x <= y
    PROVE  Later(m, x) <= Later(m, y)
  BY DEF Later

(* Midnights are naturals.                                                 *)
LEMMA MidnightNat == \A d \in 0..(LastDay + 1) : Midnight[d] \in Nat
  BY LocalDaysAssumption

(* A later day begins no earlier.                                          *)
LEMMA MidnightMonotone ==
    \A d, e \in 0..(LastDay + 1) : d <= e => Midnight[d] <= Midnight[e]
<1> TAKE d, e \in 0..(LastDay + 1)
<1> HAVE d <= e
<1>1. CASE d = e
  BY <1>1, MidnightNat
<1>2. CASE d < e
  <2>1. Midnight[d] < Midnight[e]
    BY <1>2, LocalDaysAssumption
  <2> QED
    BY <2>1, MidnightNat
<1> QED
  BY <1>1, <1>2, LocalDaysAssumption

(* An instant no earlier than day d begins lies in day d or a later one.   *)
LEMMA DayOfAfter ==
    ASSUME NEW t \in Time, NEW d \in Day, Midnight[d] <= t
    PROVE  d <= DayOf(t)
<1> DEFINE e == DayOf(t)
<1>1. e \in Day /\ t < Midnight[e + 1]
  BY DayOfInstant
<1> HIDE DEF e
<1>2. e \in Int /\ d \in Int /\ t \in Int /\ e + 1 \in 0..(LastDay + 1) /\ d \in 0..(LastDay + 1)
  BY <1>1, LocalDaysAssumption DEF Day, Time
<1>3. Midnight[e + 1] \in Int /\ Midnight[d] \in Int
  BY <1>2, MidnightNat
<1>4. ASSUME e + 1 <= d PROVE FALSE
  <2>1. Midnight[e + 1] <= Midnight[d]
    BY <1>2, <1>4, MidnightMonotone
  <2> QED
    BY <2>1, <1>1, <1>2, <1>3
<1>5. d <= e
  BY <1>2, <1>4
<1> QED
  BY <1>5 DEF e

(* Later instants lie in later days.                                       *)
LEMMA DayOfMonotone ==
    ASSUME NEW t \in Time, NEW u \in Time, t <= u
    PROVE  DayOf(t) <= DayOf(u)
<1>1. DayOf(t) \in Day /\ Midnight[DayOf(t)] <= t
  BY DayOfInstant
<1>2. Midnight[DayOf(t)] \in Nat /\ t \in Int /\ u \in Int
  BY <1>1, MidnightNat, LocalDaysAssumption DEF Day, Time
<1>3. Midnight[DayOf(t)] <= u
  BY <1>1, <1>2
<1> QED
  BY <1>1, <1>3, DayOfAfter

(* The prune cutoff is a day, no later than the day of the instant.        *)
LEMMA CutoffDay ==
    ASSUME NEW t \in Time
    PROVE  Cutoff(t) \in Day /\ Cutoff(t) <= DayOf(t)
  BY DayOfInstant, TrackerAssumption, LocalDaysAssumption DEF Cutoff, Later, Day

(* The prune cutoff never moves back.                                      *)
LEMMA CutoffMonotone ==
    ASSUME NEW t \in Time, NEW u \in Time, t <= u
    PROVE  Cutoff(t) <= Cutoff(u)
<1>1. DayOf(t) <= DayOf(u) /\ DayOf(t) \in Day /\ DayOf(u) \in Day
  BY DayOfMonotone, DayOfInstant
<1> QED
  BY <1>1, DayIsInt, LaterMonotone DEF Cutoff
-----------------------------------------------------------------------------
(* What the operators of the ledger return.                                *)

(* A set of instants between two bounds has a natural cardinality.         *)
LEMMA CountNat ==
    ASSUME NEW a \in Int, NEW e \in Int, NEW S, S \subseteq a..e
    PROVE  Cardinality(S) \in Nat
  BY FS_Interval, FS_Subset, FS_CardinalityType

(* accumulate_blocks returns a bucket.                                     *)
LEMMA BlocksType ==
    ASSUME NEW timeline, NEW a \in Int, NEW e \in Int, NEW dur
    PROVE  Blocks(timeline, a, e, dur) \in Bucket
<1>1. e - 1 \in Int
  OBVIOUS
<1>2. \A S : S \subseteq a..(e - 1) => Cardinality(S) \in Nat
  BY <1>1, CountNat
<1> QED
  BY <1>2 DEF Blocks, Survivors, RowsOf, Bucket

(* What a backfill writes on a day is a bucket.                            *)
LEMMA BackfillBlocksType ==
    ASSUME NEW timeline, NEW d \in Day, NEW dur
    PROVE  BackfillBlocks(timeline, d, dur) \in Bucket
<1>1. Midnight[d] \in Int /\ Midnight[d + 1] \in Int
  BY MidnightNat, LocalDaysAssumption DEF Day
<1> QED
  BY <1>1, BlocksType DEF BackfillBlocks

(* An empty day is a bucket.                                               *)
LEMMA EmptyDayType == EmptyDay \in Bucket
  BY DEF EmptyDay, EmptyRow, Bucket

(* A ledger with nothing in it is a ledger.                                *)
LEMMA EmptyLedgerType == EmptyLedger \in Ledger
  BY EmptyDayType, LocalDaysAssumption DEF EmptyLedger, Ledger, Time, NoDay

(* A split gives a day a natural number of seconds.                        *)
LEMMA SplitSecsType ==
    ASSUME NEW start \in Int, NEW end \in Int, NEW d \in Day
    PROVE  SplitSecs(start, end, d) \in Nat
<1>1. Midnight[d] \in Int /\ Midnight[d + 1] \in Int
  BY MidnightNat, LocalDaysAssumption DEF Day
<1> QED
  BY <1>1 DEF SplitSecs, Later, Earlier

(* The backfill marker is a day or NoDay.                                  *)
LEMMA MarkerType ==
    ASSUME NEW L \in Ledger
    PROVE  L.last_updated_day \in Int /\ L.last_updated_day + 1 \in 0..(LastDay + 1)
<1>1. L.last_updated_day \in 0..LastDay \cup {-1}
  BY DEF Ledger, Day, NoDay
<1>2. LastDay \in Nat
  BY LocalDaysAssumption
<1> QED
  BY <1>1, <1>2

(* The unbaked part of a visit begins at an instant no earlier than it.    *)
LEMMA FoldStartType ==
    ASSUME NEW L \in Ledger, NEW start \in Time
    PROVE  /\ FoldStart(L, start) \in Nat
           /\ start <= FoldStart(L, start)
           /\ Midnight[L.last_updated_day + 1] <= FoldStart(L, start)
<1>1. L.last_updated_day + 1 \in 0..(LastDay + 1)
  BY MarkerType
<1>2. Midnight[L.last_updated_day + 1] \in Nat
  BY <1>1, MidnightNat
<1> QED
  BY <1>2, LocalDaysAssumption DEF FoldStart, Later, Time

(* A pruned ledger is a ledger.                                            *)
LEMMA PrunedType ==
    ASSUME NEW L \in Ledger
    PROVE  Pruned(L) \in Ledger
  BY EmptyDayType DEF Pruned, Ledger

(* A ledger whose threshold was reconciled is a ledger.                    *)
LEMMA ReconciledType ==
    ASSUME NEW L \in Ledger, minDur \in Thresholds
    PROVE  Reconciled(L) \in Ledger
  BY EmptyDayType DEF Reconciled, Ledger, EmptyLedger

LastFoldType == [state : Names, day : Day] \cup {NoFold}

(* A visit is counted a natural number of times.                           *)
LEMMA VisitCountType ==
    ASSUME NEW start, NEW head, NEW s, NEW d
    PROVE  VisitCount(start, head, s, d) \in Nat
  BY DEF VisitCount

(* A fold leaves a bucket on every day.                                    *)
LEMMA FoldedDailyType ==
    ASSUME NEW L \in Ledger, NEW s \in Names, NEW start \in Time, NEW end \in Time,
           lastFold \in LastFoldType
    PROVE  FoldedDaily(L, s, start, end) \in [Day -> Bucket]
<1> DEFINE head == FoldStart(L, start)
<1>1. head \in Nat /\ end \in Nat
  BY FoldStartType, LocalDaysAssumption DEF Time
<1>2. L.daily \in [Day -> Bucket]
  BY DEF Ledger
<1> HIDE DEF head
<1>3. CASE head >= end \/ (Glitch(L, start, end) /\ lastFold = NoFold)
  BY <1>2, <1>3 DEF FoldedDaily, head
<1>4. CASE head < end /\ Glitch(L, start, end) /\ lastFold # NoFold
  <2>1. end - head \in Nat
    BY <1>1, <1>4
  <2>2. lastFold.day \in Day /\ lastFold.state \in Names
    BY <1>4 DEF LastFoldType
  <2> DEFINE more == end - head
  <2>3. more \in Nat
    BY <2>1
  <2>4. FoldedDaily(L, s, start, end)
          = [L.daily EXCEPT ![lastFold.day][lastFold.state].secs = @ + more]
    BY <1>1, <1>4 DEF FoldedDaily, head
  <2> HIDE DEF more
  <2> QED
    BY <1>2, <2>2, <2>3, <2>4 DEF Bucket
<1>5. CASE head < end /\ ~Glitch(L, start, end)
  <2> DEFINE secs(d) == SplitSecs(head, end, d)
             count(d) == IF secs(d) = 0 THEN 0 ELSE VisitCount(start, head, s, d)
  <2>1. \A d \in Day : secs(d) \in Nat /\ count(d) \in Nat
    BY <1>1, SplitSecsType, VisitCountType
  <2>2. FoldedDaily(L, s, start, end) =
          [d \in Day |-> [L.daily[d] EXCEPT ![s].secs = @ + secs(d),
                                            ![s].count = @ + count(d)]]
    BY <1>1, <1>5 DEF FoldedDaily, head
  <2> HIDE DEF secs, count
  <2> QED
    BY <1>2, <2>1, <2>2 DEF Bucket
<1> QED
  BY <1>1, <1>3, <1>4, <1>5

(* A fold leaves the start of a visit, on a day no backfill wrote.         *)
LEMMA FoldedLastType ==
    ASSUME NEW L \in Ledger, NEW s \in Names, NEW start \in Time, NEW end \in Time,
           lastFold \in LastFoldType
    PROVE  /\ FoldedLast(L, s, start, end) \in LastFoldType
           /\ FoldedLast(L, s, start, end) # lastFold =>
                L.last_updated_day < FoldedLast(L, s, start, end).day
<1> DEFINE head == FoldStart(L, start)
<1> SUFFICES ASSUME head < end
             PROVE  DayOf(head) \in Day /\ L.last_updated_day < DayOf(head)
  BY FoldStartType DEF FoldedLast, LastFoldType, Time
<1>1. head \in Time
  BY FoldStartType, LocalDaysAssumption DEF Time
<1>2. DayOf(head) \in Day
  BY <1>1, DayOfInstant
<1>3. L.last_updated_day + 1 \in Day => L.last_updated_day + 1 <= DayOf(head)
  BY <1>1, FoldStartType, DayOfAfter
<1>4. L.last_updated_day + 1 \in Day
  <2>a. \A m \in 0..(LastDay + 1) : m # LastDay + 1 => m \in Day
    BY LocalDaysAssumption DEF Day
  <2> SUFFICES ASSUME L.last_updated_day + 1 = LastDay + 1 PROVE FALSE
    BY <2>a, MarkerType
  <2>1. Midnight[LastDay + 1] <= head
    BY FoldStartType
  <2>2. DayOf(head) + 1 <= LastDay + 1 /\ DayOf(head) + 1 \in 0..(LastDay + 1)
    BY <1>2, LocalDaysAssumption DEF Day
  <2>3. LastDay + 1 \in 0..(LastDay + 1)
    BY LocalDaysAssumption
  <2>4. Midnight[DayOf(head) + 1] <= Midnight[LastDay + 1]
    BY <2>2, <2>3, MidnightMonotone
  <2>5. head < Midnight[DayOf(head) + 1]
    BY <1>1, DayOfInstant
  <2> HIDE DEF head
  <2> QED
    BY <2>1, <2>2, <2>3, <2>4, <2>5, <1>1, MidnightNat, LocalDaysAssumption DEF Time
<1> QED
  BY <1>2, <1>3, <1>4, MarkerType DEF Day
-----------------------------------------------------------------------------
(* The inductive invariant.                                                *)

\* backfill captured today in the past, and marks only days before it.
SetupOrder ==
    /\ today <= DayOf(now)
    /\ pc = "mark" => day < today

\* No ledger, in memory, on disk or on its way there, marks today.
MarkersPast ==
    /\ MarkerBeforeToday
    /\ saving # NoSave => saving.last_updated_day < DayOf(now)

\* _last_fold lives only while the tracker is live, and names a day that no
\* backfill wrote.
FoldsAfterMarker ==
    lastFold # NoFold => pc = "live" /\ mem.last_updated_day < lastFold.day

IInv == TypeOK /\ SetupOrder /\ MarkersPast /\ FoldsAfterMarker

(* The inductive invariant holds when the tracker is first set up.         *)
LEMMA InitIInv == Init => IInv
<1> SUFFICES ASSUME Init PROVE IInv
  OBVIOUS
<1> USE LocalDaysAssumption, NamesAssumption, TrackerAssumption
<1>1. 0 \in Time /\ 0 \in Day
  BY DEF Time, Day
<1>2. line \in [Time -> Names \cup {NoState}]
  BY DEF Init
<1>3. TypeOK
  <2>1. recorder \in BOOLEAN /\ up \in BOOLEAN /\ dirty \in BOOLEAN
    BY Zenon DEF Init
  <2>2. /\ day \in 0..(LastDay + 1)
        /\ setups \in 0..MaxSetups
        /\ exact \in 0..NoTime
    BY DEF Init, NoTime
  <2> QED
    BY <1>1, <1>2, <2>1, <2>2, EmptyLedgerType DEF Init, TypeOK
<1>4. DayOf(0) \in Day /\ 0 <= DayOf(0) /\ -1 < DayOf(0)
  BY <1>1, DayOfInstant DEF Day
<1> QED
  BY <1>3, <1>4 DEF IInv, Init, SetupOrder, MarkersPast, MarkerBeforeToday,
     FoldsAfterMarker, EmptyLedger, NoDay

(* A state change leaves a ledger with the marker it had, and a _last_fold *)
(* after that marker.                                                      *)
LEMMA HandleStateChangeType ==
    ASSUME IInv, NEW s \in Names, NEW at \in Time, HandleStateChange(s, at), pc = "live"
    PROVE  /\ mem' \in Ledger
           /\ mem'.last_updated_day = mem.last_updated_day
           /\ lastFold' \in LastFoldType
           /\ lastFold' # NoFold => mem.last_updated_day < lastFold'.day
           /\ previous' \in Names \cup {NoState}
           /\ dirty' \in BOOLEAN
           /\ exact' \in 0..NoTime
<1>1. mem \in Ledger /\ lastFold \in LastFoldType
  BY DEF IInv, TypeOK, LastFoldType
<1>2. mem.last_ts \in Time /\ mem.last_state \in Names \cup {NoState}
  BY <1>1 DEF Ledger
<1>3. mem'.last_updated_day = mem.last_updated_day
  BY <1>1 DEF HandleStateChange, Ledger
<1>4. mem' \in Ledger
  <2>1. CASE mem.last_state = NoState
    BY <1>1, <2>1 DEF HandleStateChange, Ledger
  <2>2. CASE mem.last_state # NoState
    <3> DEFINE folded == FoldedDaily(mem, mem.last_state, mem.last_ts, at)
    <3>1. folded \in [Day -> Bucket]
      BY <1>1, <1>2, <2>2, FoldedDailyType
    <3>2. mem' = [mem EXCEPT !.daily = folded, !.last_state = s, !.last_ts = at]
      BY <2>2 DEF HandleStateChange
    <3> HIDE DEF folded
    <3> QED
      BY <1>1, <3>1, <3>2 DEF Ledger
  <2> QED
    BY <2>1, <2>2
<1>5. lastFold' \in LastFoldType /\ (lastFold' # NoFold => mem.last_updated_day < lastFold'.day)
  <2>1. CASE mem.last_state = NoState
    BY <1>1, <2>1 DEF HandleStateChange, IInv, FoldsAfterMarker
  <2>2. CASE mem.last_state # NoState
    <3> DEFINE folded == FoldedLast(mem, mem.last_state, mem.last_ts, at)
    <3>1. folded \in LastFoldType /\ (folded # lastFold => mem.last_updated_day < folded.day)
      BY <1>1, <1>2, <2>2, FoldedLastType
    <3>2. lastFold' = folded
      BY <2>2 DEF HandleStateChange
    <3> HIDE DEF folded
    <3> QED
      BY <3>1, <3>2 DEF IInv, FoldsAfterMarker
  <2> QED
    BY <2>1, <2>2
<1>6. exact' \in 0..NoTime
  BY LocalDaysAssumption DEF HandleStateChange, IInv, TypeOK, Earlier, Time, NoTime
<1> QED
  BY <1>2, <1>3, <1>4, <1>5, <1>6 DEF HandleStateChange, IInv, TypeOK

(* Dropping a coordinator leaves its variables well typed.                 *)
LEMMA DroppedType ==
    ASSUME Dropped
    PROVE  /\ mem' = EmptyLedger /\ mem' \in Ledger /\ mem'.last_updated_day = -1
           /\ dirty' = FALSE /\ saving' = NoSave /\ lastFold' = NoFold
           /\ previous' = NoState /\ exact' = NoTime /\ exact' \in 0..NoTime
           /\ today' = 0 /\ today' \in Day /\ day' = 0 /\ day' \in 0..(LastDay + 1)
  BY EmptyLedgerType, LocalDaysAssumption
     DEF Dropped, EmptyLedger, NoDay, NoTime, Day

(* No step of Tracker breaks the inductive invariant.                      *)
LEMMA NextIInv == IInv /\ [Next]_vars => IInv'
<1> SUFFICES ASSUME IInv, [Next]_vars PROVE IInv'
  OBVIOUS
<1> USE DEF IInv, SetupOrder, MarkersPast, MarkerBeforeToday, FoldsAfterMarker
<1>0. /\ now \in Time /\ DayOf(now) \in Day /\ mem \in Ledger /\ disk \in Ledger
      /\ DayOf(now) \in Nat /\ LastDay \in Nat /\ MaxTime \in Nat
  BY DayOfInstant, LocalDaysAssumption DEF TypeOK, Day
<1>1. CASE Tick
  <2>1. now' \in Time /\ now <= now' /\ DayOf(now) <= DayOf(now') /\ DayOf(now') \in Day
    <3>1. now' \in Time /\ now <= now'
      BY <1>0, <1>1 DEF Tick, Time
    <3> QED
      BY <1>0, <3>1, DayOfMonotone, DayOfInstant
  <2>2. line' \in [Time -> Names \cup {NoState}]
    BY <1>0, <1>1 DEF Tick, TypeOK
  <2>3. committed' \in Time
    BY <1>0, <1>1, TrackerAssumption DEF Tick, TypeOK, Time, Later
  <2>4. TypeOK'
    BY <1>1, <2>1, <2>2, <2>3 DEF Tick, TypeOK, backfill, config
  <2> QED
    BY <1>0, <1>1, <2>1, <2>4 DEF Tick, backfill, config, TypeOK, Day, Ledger, NoDay
<1>2. CASE Commit
  BY <1>0, <1>2 DEF Commit, TypeOK, backfill, config
<1>3. ASSUME NEW s \in Live, Transition(s) PROVE IInv'
  <2>1. s \in Names
    BY <1>3, TrackerAssumption
  <2>2. line' \in [Time -> Names \cup {NoState}] /\ changed' \in Time
    BY <1>0, <1>3, <2>1 DEF Transition, TypeOK
  <2>3. committed' \in Time
    BY <1>0, <1>3 DEF Transition, TypeOK, FreshInstant, Time, Earlier
  <2>4. CASE pc = "live" /\ HandleStateChange(s, now)
    BY <1>0, <1>3, <2>1, <2>2, <2>3, <2>4, HandleStateChangeType
       DEF Transition, TypeOK, backfill, config, LastFoldType
  <2>5. CASE UNCHANGED <<mem, lastFold, previous, dirty, exact>>
    BY <1>0, <1>3, <2>2, <2>3, <2>5 DEF Transition, TypeOK, backfill, config
  <2> QED
    BY <1>3, <2>4, <2>5 DEF Transition
<1>4. CASE AttributeUpdate
  <2>1. line[now] \in Names /\ changed \in Time
    BY <1>0, <1>4 DEF AttributeUpdate, TypeOK
  <2> QED
    BY <1>0, <1>4, <2>1, HandleStateChangeType
       DEF AttributeUpdate, TypeOK, environment, backfill, config, LastFoldType
<1>5. CASE Load
  <2> PICK L \in {disk} \cup (IF DiskMayFail THEN {EmptyLedger} ELSE {}) :
        /\ disk' = L
        /\ mem' = Reconciled(L)
        /\ day' = IF mem'.last_updated_day = NoDay THEN Cutoff(now)
                  ELSE mem'.last_updated_day + 1
    BY <1>5 DEF Load
  <2>1. L \in Ledger /\ L.last_updated_day < DayOf(now)
    BY <1>0, EmptyLedgerType DEF EmptyLedger, NoDay
  <2>2. mem' \in Ledger
    BY <2>1, ReconciledType DEF TypeOK
  <2>3. mem'.last_updated_day \in {L.last_updated_day, NoDay}
    BY <2>1 DEF Reconciled, Ledger
  <2>4. mem'.last_updated_day < DayOf(now)
    BY <1>0, <2>1, <2>3 DEF NoDay
  <2>5. day' \in 0..(LastDay + 1)
    BY <1>0, <2>2, MarkerType, CutoffDay DEF Day
  <2>6. setups' \in 0..MaxSetups
    BY <1>5, TrackerAssumption DEF Load, TypeOK
  <2> QED
    <3>1. disk' \in Ledger /\ disk'.last_updated_day < DayOf(now)
      BY <2>1
    <3>2. TypeOK'
      BY <1>0, <1>5, <2>2, <2>5, <2>6, <3>1 DEF Load, TypeOK, environment
    <3> QED
      BY <1>0, <1>5, <2>4, <3>1, <3>2 DEF Load, environment
<1>6. CASE BackfillReplace
  <2> DEFINE blocks == BackfillBlocks(Visible, day, minDur)
  <2>1. day \in Day /\ day < today
    BY <1>0, <1>6 DEF BackfillReplace, Pending, TypeOK, Day
  <2>2. blocks \in Bucket
    BY <2>1, BackfillBlocksType
  <2>3. CASE blocks = EmptyDay
    BY <1>0, <1>6, <2>1, <2>3
       DEF BackfillReplace, TypeOK, environment, config, backfill
  <2>4. CASE mem' = ReplaceDay(mem, day, blocks) /\ SaveAndGo("mark")
                 /\ UNCHANGED <<backfill, dirty, saving, lastFold, previous, exact>>
    <3> HIDE DEF blocks
    <3>1. mem' \in Ledger /\ mem'.last_updated_day = mem.last_updated_day
      BY <1>0, <2>1, <2>2, <2>4 DEF ReplaceDay, Ledger
    <3> QED
      BY <1>0, <1>6, <2>1, <2>4, <3>1
         DEF BackfillReplace, SaveAndGo, TypeOK, environment, config, backfill
  <2>5. CASE SetupFails
    BY <1>0, <1>6, <2>5, DroppedType
       DEF SetupFails, BackfillReplace, TypeOK, environment, config
  <2> HIDE DEF blocks
  <2> QED
    BY <1>6, <2>3, <2>4, <2>5 DEF BackfillReplace, blocks
<1>7. CASE BackfillMark
  <2>1. day \in Day /\ day < today /\ day < DayOf(now) /\ day + 1 \in 0..(LastDay + 1)
    BY <1>0, <1>7 DEF BackfillMark, TypeOK, Day
  <2>2. CASE /\ mem' = [mem EXCEPT !.last_updated_day = day]
             /\ day' = NextDay
             /\ SaveAndGo("backfill")
             /\ UNCHANGED <<today, dirty, saving, lastFold, previous, exact>>
    <3>1. mem' \in Ledger /\ mem'.last_updated_day = day
      BY <1>0, <2>1, <2>2 DEF Ledger
    <3> QED
      BY <1>0, <1>7, <2>1, <2>2, <3>1
         DEF BackfillMark, NextDay, SaveAndGo, TypeOK, environment, config
  <2>3. CASE SetupFails
    BY <1>0, <1>7, <2>3, DroppedType
       DEF SetupFails, BackfillMark, TypeOK, environment, config
  <2> QED
    BY <1>7, <2>2, <2>3 DEF BackfillMark
<1>8. CASE BackfillDone
  BY <1>0, <1>8 DEF BackfillDone, TypeOK, environment, backfill, config
<1>9. CASE FirstRefresh
  <2>1. mem' \in Ledger /\ mem'.last_updated_day = mem.last_updated_day
    BY <1>0, <1>9, PrunedType DEF FirstRefresh, Pruned, Ledger
  <2> QED
    BY <1>0, <1>9, <2>1 DEF FirstRefresh, TypeOK, environment, backfill, config
<1>10. CASE Subscribe
  <2>1. line[now] \in Names \cup {NoState}
    BY <1>0 DEF TypeOK
  <2>2. mem' \in Ledger /\ mem'.last_updated_day = mem.last_updated_day
    BY <1>0, <1>10, <2>1 DEF Subscribe, Ledger
  <2>3. exact' \in 0..NoTime
    BY <1>0, <1>10 DEF Subscribe, TypeOK, NoTime, Time
  <2> QED
    BY <1>0, <1>10, <2>2, <2>3 DEF Subscribe, TypeOK, environment, backfill, config
<1>11. CASE Poll
  <2>1. mem' \in Ledger /\ mem'.last_updated_day = mem.last_updated_day
    BY <1>0, <1>11, PrunedType DEF Poll, Pruned, Ledger
  <2> QED
    BY <1>0, <1>11, <2>1 DEF Poll, Flushed, TypeOK, environment, backfill, config
<1>12. CASE FlushDone
  BY <1>0, <1>12 DEF FlushDone, DirtyAfterSave, TypeOK, environment, backfill, config
<1>13. CASE FlushFails
  BY <1>0, <1>13 DEF FlushFails, TypeOK, environment, backfill, config
<1>14. CASE Unload
  <2>1. disk' \in {mem, disk}
    BY <1>14 DEF Unload
  <2>2. pc' \in {"absent", "failed_unload"}
    BY <1>14 DEF Unload
  <2> QED
    BY <1>0, <1>14, <2>1, <2>2, DroppedType DEF Unload, TypeOK, environment
<1>15. CASE Stop
  <2>1. disk' \in {mem, disk}
    BY <1>15 DEF Stop
  <2>2. line' \in [Time -> Names \cup {NoState}]
    BY <1>0, <1>15 DEF Stop, TypeOK, Names
  <2>3. up' \in BOOLEAN /\ recorder' \in BOOLEAN /\ changed' = now /\ committed' = now
    BY <1>15 DEF Stop, TypeOK
  <2>4. now' = now /\ pc' = "absent" /\ minDur' = minDur /\ setups' = setups
    BY <1>15 DEF Stop, config
  <2>5. Dropped
    BY <1>15 DEF Stop
  <2>6. TypeOK'
    BY <1>0, <2>1, <2>2, <2>3, <2>4, <2>5, DroppedType DEF TypeOK
  <2> QED
    BY <1>0, <2>1, <2>4, <2>5, <2>6, DroppedType
<1>16. CASE Crash
  <2>1. line' \in [Time -> Names \cup {NoState}]
    BY <1>0, <1>16 DEF Crash, TypeOK
  <2>3. up' \in BOOLEAN /\ recorder' \in BOOLEAN /\ changed' = now /\ committed' = now
    BY <1>16 DEF Crash, TypeOK
  <2>4. now' = now /\ pc' = "absent" /\ minDur' = minDur /\ setups' = setups
    BY <1>16 DEF Crash, config
  <2>5. Dropped /\ disk' = disk
    BY <1>16 DEF Crash
  <2>6. TypeOK'
    BY <1>0, <2>1, <2>3, <2>4, <2>5, DroppedType DEF TypeOK
  <2> QED
    BY <1>0, <2>4, <2>5, <2>6, DroppedType
<1>17. CASE Boot
  <2>1. line' \in [Time -> Names \cup {NoState}]
    BY <1>0, <1>17, TrackerAssumption DEF Boot, TypeOK
  <2>2. recorder' \in BOOLEAN
    BY <1>17 DEF Boot
  <2> QED
    BY <1>0, <1>17, <2>1, <2>2 DEF Boot, TypeOK, backfill, config
<1>18. CASE UNCHANGED vars
  BY <1>0, <1>18 DEF vars, TypeOK
<1> QED
  BY <1>1, <1>2, <1>3, <1>4, <1>5, <1>6, <1>7, <1>8, <1>9, <1>10, <1>11, <1>12,
     <1>13, <1>14, <1>15, <1>16, <1>17, <1>18 DEF Next, SetupRuns
-----------------------------------------------------------------------------
(* Theorems of the specification.                                          *)

(* The inductive invariant holds in every reachable state.                 *)
THEOREM Invariance == Spec => []IInv
<1>1. Init => IInv
  BY InitIInv
<1>2. IInv /\ [Next]_vars => IInv'
  BY NextIInv
<1> QED
  BY <1>1, <1>2, PTL DEF Spec

(* Every variable keeps its type: no fold, backfill, prune or restart      *)
(* leaves a negative number of seconds or a day that does not exist.       *)
THEOREM TypeCorrect == Spec => []TypeOK
<1>1. IInv => TypeOK
  BY DEF IInv
<1> QED
  BY <1>1, Invariance, PTL

(* The backfill marker never names today or a later day, whatever the      *)
(* lengths of the days, the number of restarts and the failures of saves   *)
(* (_async_backfill, which captures today once and may run past midnight). *)
THEOREM MarkerStaysBeforeToday == Spec => []MarkerBeforeToday
<1>1. IInv => MarkerBeforeToday
  BY DEF IInv, MarkersPast
<1> QED
  BY <1>1, Invariance, PTL

(* A fold leaves a day at or before the marker as it was: the segments of  *)
(* such days are dropped, and a glitch goes to a later day's bucket.       *)
LEMMA FoldedDailyFrozen ==
    ASSUME NEW L \in Ledger, NEW s \in Names, NEW start \in Time, NEW end \in Time,
           NEW d \in Day, d <= L.last_updated_day,
           lastFold \in LastFoldType,
           lastFold # NoFold => L.last_updated_day < lastFold.day
    PROVE  FoldedDaily(L, s, start, end)[d] = L.daily[d]
<1> DEFINE head == FoldStart(L, start)
<1>1. head \in Nat /\ end \in Nat /\ Midnight[L.last_updated_day + 1] <= head
  BY FoldStartType, LocalDaysAssumption DEF Time
<1>2. L.daily \in [Day -> Bucket] /\ L.last_updated_day \in Int
  BY MarkerType DEF Ledger
<1> HIDE DEF head
<1>3. CASE head >= end \/ (Glitch(L, start, end) /\ lastFold = NoFold)
  BY <1>3 DEF FoldedDaily, head
<1>4. CASE head < end /\ Glitch(L, start, end) /\ lastFold # NoFold
  <2>1. FoldedDaily(L, s, start, end)
          = [L.daily EXCEPT ![lastFold.day][lastFold.state].secs = @ + (end - head)]
    BY <1>1, <1>4 DEF FoldedDaily, head
  <2>2. lastFold.day # d
    BY <1>2, <1>4 DEF LastFoldType, Day
  <2> QED
    BY <1>2, <2>1, <2>2
<1>5. CASE head < end /\ ~Glitch(L, start, end)
  <2>1. SplitSecs(head, end, d) = 0
    <3>1. d + 1 \in 0..(LastDay + 1) /\ d \in 0..(LastDay + 1)
      BY LocalDaysAssumption DEF Day
    <3>2. L.last_updated_day + 1 \in 0..(LastDay + 1) /\ d + 1 <= L.last_updated_day + 1
      BY <1>2, MarkerType DEF Day
    <3>3. Midnight[d + 1] <= Midnight[L.last_updated_day + 1]
      BY <3>1, <3>2, MidnightMonotone
    <3>4. /\ Midnight[d + 1] \in Nat /\ Midnight[d] \in Nat
          /\ Midnight[L.last_updated_day + 1] \in Nat
      BY <3>1, <3>2, MidnightNat
    <3> QED
      BY <1>1, <3>3, <3>4 DEF SplitSecs, Earlier, Later
  <2>2. FoldedDaily(L, s, start, end)[d]
          = [L.daily[d] EXCEPT ![s].secs = @ + 0, ![s].count = @ + 0]
    BY <1>1, <1>5, <2>1 DEF FoldedDaily, head
  <2>3. L.daily[d] \in Bucket
    BY <1>2
  <2> QED
    BY <2>2, <2>3 DEF Bucket
<1> QED
  BY <1>1, <1>3, <1>4, <1>5

(* A state change leaves the days at or before the marker as they were.    *)
LEMMA HandleStateChangeFrozen ==
    ASSUME IInv, NEW s, NEW at \in Time, HandleStateChange(s, at),
           NEW d \in Day, d <= mem.last_updated_day
    PROVE  mem'.daily[d] = mem.daily[d]
<1>1. /\ mem \in Ledger /\ lastFold \in LastFoldType
      /\ lastFold # NoFold => mem.last_updated_day < lastFold.day
      /\ mem.last_ts \in Time /\ mem.last_state \in Names \cup {NoState}
  BY DEF IInv, TypeOK, LastFoldType, FoldsAfterMarker, Ledger
<1>2. CASE mem.last_state = NoState
  BY <1>1, <1>2 DEF HandleStateChange, Ledger
<1>3. CASE mem.last_state # NoState
  <2>1. mem'.daily = FoldedDaily(mem, mem.last_state, mem.last_ts, at)
    BY <1>1, <1>3 DEF HandleStateChange, Ledger
  <2> QED
    BY <1>1, <1>3, <2>1, FoldedDailyFrozen
<1> QED
  BY <1>2, <1>3

(* While the entry stays set up, a day at or before the marker changes     *)
(* only by the prune: the live path leaves to the backfill what the        *)
(* backfill wrote (_fold_visit's filter and _last_fold's bucket).          *)
THEOREM BakedDaysFrozen == Spec => BakedDayFrozen
<1> DEFINE Frozen ==
        SetUp /\ SetUp' =>
            \A d \in Day : d <= mem.last_updated_day
                => mem'.daily[d] \in {mem.daily[d], EmptyDay}
<1>1. IInv /\ [Next]_vars => [Frozen]_vars
  <2> SUFFICES ASSUME IInv, Next, SetUp, SetUp', NEW d \in Day, d <= mem.last_updated_day
               PROVE  mem'.daily[d] \in {mem.daily[d], EmptyDay}
    OBVIOUS
  <2>0. now \in Time /\ changed \in Time
    BY DEF IInv, TypeOK
  <2>1. CASE Tick \/ Commit \/ FlushDone \/ FlushFails \/ Boot
    BY <2>1 DEF Tick, Commit, FlushDone, FlushFails, Boot
  <2>2. ASSUME NEW s \in Live, Transition(s) PROVE mem'.daily[d] = mem.daily[d]
    BY <2>0, <2>2, HandleStateChangeFrozen DEF Transition
  <2>3. CASE AttributeUpdate
    BY <2>0, <2>3, HandleStateChangeFrozen DEF AttributeUpdate
  <2>4. CASE Load \/ BackfillReplace \/ BackfillMark \/ BackfillDone \/ FirstRefresh
    BY <2>4 DEF Load, BackfillReplace, BackfillMark, BackfillDone, FirstRefresh, SetUp
  <2>5. CASE Subscribe
    BY <2>5 DEF Subscribe, IInv, TypeOK, Ledger
  <2>6. CASE Poll
    BY <2>6 DEF Poll, Pruned, IInv, TypeOK, Ledger
  <2>7. CASE Unload \/ Stop \/ Crash
    BY <2>7 DEF Unload, Stop, Crash, SetUp
  <2> QED
    BY <2>1, <2>2, <2>3, <2>4, <2>5, <2>6, <2>7 DEF Next, SetupRuns
<1>2. Spec => [][Frozen]_vars
  BY <1>1, Invariance, PTL DEF Spec
<1> QED
  BY <1>2 DEF BakedDayFrozen
-----------------------------------------------------------------------------
(* The refinement of the day book.                                         *)

\* What the mapping needs beyond Tracker's own invariant: the backfill stands
\* at the day after the marker, only a tracker that is set up has a save in
\* flight, and no ledger outlives its coordinator.
BookInv ==
    /\ pc \in {"backfill", "mark"} => mem.last_updated_day \in {NoDay, day - 1}
    /\ ~SetUp => saving = NoSave
    /\ ~Held => mem = EmptyLedger

(* An empty ledger is a new book.                                          *)
LEMMA BookOfEmpty == BookOf(EmptyLedger) = Kept!NewBook
  BY DEF BookOf, EmptyLedger, Kept!NewBook

(* Every ledger is a book.                                                 *)
LEMMA BookOfLedger == \A L \in Ledger : BookOf(L) \in Kept!Book
  BY DEF BookOf, Ledger, Kept!Book

(* A threshold that changed empties the book, another leaves it.           *)
LEMMA BookOfReconciled ==
    ASSUME NEW L \in Ledger
    PROVE  BookOf(Reconciled(L)) \in {BookOf(L), Kept!NewBook}
  BY BookOfEmpty DEF Reconciled, BookOf, Ledger, EmptyLedger

(* A prune empties the pages before the cutoff.                            *)
LEMMA BookOfPruned ==
    ASSUME NEW L \in Ledger
    PROVE  BookOf(Pruned(L)) = [BookOf(L) EXCEPT !.pages =
                [d \in Day |-> IF d < Cutoff(now) THEN EmptyDay ELSE BookOf(L).pages[d]]]
  BY DEF Pruned, BookOf, Ledger

(* What the mapping needs holds at first.                                  *)
LEMMA InitBookInv == Init => BookInv
  BY DEF Init, BookInv

(* No step of Tracker breaks it.                                           *)
LEMMA NextBookInv == IInv /\ BookInv /\ [Next]_vars => BookInv'
<1> SUFFICES ASSUME IInv, BookInv, [Next]_vars PROVE BookInv'
  OBVIOUS
<1>0. mem \in Ledger /\ day \in 0..(LastDay + 1)
  BY DEF IInv, TypeOK
<1>1. CASE Tick \/ Commit \/ Boot
  BY <1>1 DEF Tick, Commit, Boot, backfill, BookInv, SetUp, Held
<1>2. ASSUME NEW s \in Live, Transition(s) PROVE BookInv'
  <2>1. pc' = pc /\ saving' = saving /\ day' = day /\ (mem' = mem \/ pc = "live")
    BY <1>2 DEF Transition, backfill
  <2> QED
    BY <2>1 DEF BookInv, SetUp, Held
<1>3. CASE AttributeUpdate
  BY <1>3 DEF AttributeUpdate, backfill, BookInv, SetUp, Held
<1>4. CASE Load
  <2>1. pc' = "backfill" /\ saving' = NoSave
    BY <1>4 DEF Load, BookInv, SetUp
  <2>2. mem'.last_updated_day = NoDay \/ day' = mem'.last_updated_day + 1
    BY <1>4 DEF Load
  <2>3. mem' \in Ledger
    BY NextIInv DEF IInv, TypeOK
  <2>4. mem'.last_updated_day \in {NoDay, day' - 1}
    BY <2>2, <2>3, MarkerType
  <2> QED
    BY <2>1, <2>4 DEF BookInv, Held
<1>5. CASE BackfillReplace
  BY <1>0, <1>5 DEF BackfillReplace, SetupFails, SaveAndGo, Dropped, ReplaceDay,
     backfill, BookInv, SetUp, Held, Ledger
<1>6. CASE BackfillMark
  <2>1. CASE Dropped /\ pc' = "absent"
    BY <2>1 DEF Dropped, BookInv, SetUp, Held
  <2>2. CASE pc' = "backfill" /\ mem'.last_updated_day = day /\ day' = day + 1 /\ saving' = saving
    BY <1>0, <1>6, <2>2 DEF BackfillMark, BookInv, SetUp, Held
  <2> QED
    BY <1>0, <1>6, <2>1, <2>2 DEF BackfillMark, SetupFails, SaveAndGo, NextDay, Ledger
<1>7. CASE BackfillDone \/ FirstRefresh \/ Subscribe \/ Poll \/ FlushDone \/ FlushFails
  BY <1>7 DEF BackfillDone, FirstRefresh, Subscribe, Poll, FlushDone, FlushFails,
     BookInv, SetUp, Held
<1>8. CASE Unload \/ Stop \/ Crash
  BY <1>8 DEF Unload, Stop, Crash, Dropped, BookInv, SetUp, Held
<1>9. CASE UNCHANGED vars
  BY <1>9 DEF vars, backfill, BookInv, SetUp, Held
<1> QED
  BY <1>1, <1>2, <1>3, <1>4, <1>5, <1>6, <1>7, <1>8, <1>9 DEF Next, SetupRuns

(* A tracker that was never set up keeps a new book.                       *)
LEMMA InitKept == Init => Kept!Init
<1> SUFFICES ASSUME Init PROVE Kept!Init
  OBVIOUS
<1>1. 0 \in Time
  BY LocalDaysAssumption DEF Time
<1> QED
  BY <1>1, DayOfInstant, BookOfEmpty DEF Init, Kept!Init, Held

(* Every step of the tracker is a step of the day book, or none.           *)
LEMMA NextKept == IInv /\ IInv' /\ BookInv /\ [Next]_vars => [Kept!Next]_Kept!vars
<1> SUFFICES ASSUME IInv, IInv', BookInv, Next PROVE [Kept!Next]_Kept!vars
  BY DEF vars, backfill, Kept!vars, Held
<1> DEFINE date == DayOf(now)
           waiting == IF saving = NoSave THEN {} ELSE {BookOf(saving)}
<1>0. /\ mem \in Ledger /\ disk \in Ledger /\ mem' \in Ledger /\ now \in Time /\ now' \in Time
      /\ date \in Day /\ date' \in Day /\ Cutoff(now) \in Day /\ Cutoff(now) <= date
      /\ BookOf(mem) \in Kept!Book /\ BookOf(mem') \in Kept!Book
  BY DayOfInstant, CutoffDay, BookOfLedger DEF IInv, TypeOK
(* A coordinator is dropped.                                               *)
<1>a. ASSUME Held, Dropped, ~Held', now' = now,
             disk' = disk \/ (disk' = mem /\ saving = NoSave)
      PROVE  Kept!Close
  BY <1>a, BookOfEmpty DEF Dropped, Kept!Close
(* The live path writes pages of days after the marker.                    *)
<1>b. ASSUME pc = "live", pc' = pc, NEW s, NEW at \in Time, HandleStateChange(s, at),
             disk' = disk, saving' = saving, now' = now
      PROVE  Kept!Write
  <2>1. \A d \in Day : d <= mem.last_updated_day => mem'.daily[d] = mem.daily[d]
    BY <1>b, HandleStateChangeFrozen
  <2>2. mem'.last_updated_day = mem.last_updated_day
    BY <1>0, <1>b DEF HandleStateChange, Ledger
  <2> QED
    BY <1>0, <1>b, <2>1, <2>2 DEF Kept!Write, Kept!SavedOrNot, BookOf, Held
<1>1. CASE Tick
  <2>1. date <= date'
    BY <1>0, <1>1, DayOfMonotone, LocalDaysAssumption DEF Tick, Time
  <2>2. date' = date => UNCHANGED Kept!vars
    BY <1>1 DEF Tick, Kept!vars, Held
  <2>3. date < date' => Kept!NewDay
    BY <1>0, <1>1 DEF Tick, Kept!NewDay, Held
  <2> HIDE DEF date
  <2> QED
    BY <1>0, <2>1, <2>2, <2>3, LocalDaysAssumption DEF Day, Kept!Next
<1>2. CASE Commit \/ Boot \/ BackfillDone
  BY <1>2 DEF Commit, Boot, BackfillDone, environment, Kept!vars, Held
<1>3. ASSUME NEW s \in Live, Transition(s) PROVE Kept!Write \/ UNCHANGED Kept!vars
  <2>1. CASE pc = "live"
    BY <1>0, <1>3, <2>1, <1>b DEF Transition
  <2>2. CASE pc # "live"
    BY <1>3, <2>2 DEF Transition, Kept!vars, Held
  <2> QED
    BY <2>1, <2>2
<1>4. CASE AttributeUpdate
  <2>1. changed \in Time
    BY DEF IInv, TypeOK
  <2> QED
    BY <1>4, <2>1, <1>b DEF AttributeUpdate, environment, Kept!Next
<1>5. CASE Load
  <2>1. PICK L \in {disk, EmptyLedger} : disk' = L /\ mem' = Reconciled(L)
    BY <1>5 DEF Load
  <2>2. L \in Ledger
    BY <1>0, <2>1, EmptyLedgerType
  <2>3. BookOf(disk') \in {BookOf(disk), Kept!NewBook}
    BY <2>1, BookOfEmpty
  <2>4. BookOf(mem') \in {BookOf(disk'), Kept!NewBook}
    BY <2>1, <2>2, BookOfReconciled
  <2>5. ~Held /\ Held' /\ date' = date /\ saving' = saving
    BY <1>5 DEF Load, environment, Held
  <2> HIDE DEF date
  <2>6. Kept!Open
    BY <2>3, <2>4, <2>5 DEF Kept!Open, Held, date
  <2> QED
    BY <2>6 DEF Kept!Next
<1>6. CASE BackfillReplace
  <2>1. /\ pc = "backfill" /\ saving = NoSave /\ day < today /\ today <= date
        /\ mem.last_updated_day \in {NoDay, day - 1} /\ Held /\ date' = date
    BY <1>6 DEF BackfillReplace, Pending, IInv, SetupOrder, BookInv, SetUp, Held, environment
  <2>2. CASE Dropped /\ pc' = "absent" /\ disk' = disk
    BY <2>1, <2>2, <1>6, <1>a DEF BackfillReplace, environment, Held, Kept!Next
  <2>3. CASE mem' = mem /\ saving' = saving /\ pc' = "mark" /\ disk' = disk
    BY <2>1, <2>3 DEF Kept!vars, Held
  <2>4. CASE \E blocks : /\ mem' = ReplaceDay(mem, day, blocks)
                         /\ disk' = mem' /\ pc' = "mark" /\ saving' = saving
    <3>1. \A d \in Day : d <= mem.last_updated_day => mem'.daily[d] = mem.daily[d]
      BY <1>0, <2>1, <2>4, MarkerType DEF ReplaceDay, Ledger, Day, NoDay
    <3>2. mem'.last_updated_day = mem.last_updated_day
      BY <1>0, <2>4 DEF ReplaceDay, Ledger
    <3>3. Held' /\ waiting = {} /\ waiting' = {}
      BY <2>1, <2>4 DEF Held
    <3> HIDE DEF waiting
    <3>4. Kept!Write
      BY <1>0, <2>1, <2>4, <3>1, <3>2, <3>3 DEF Kept!Write, Kept!SavedOrNot, BookOf, waiting
    <3> QED
      BY <3>4 DEF Kept!Next
  <2> QED
    BY <1>6, <2>2, <2>3, <2>4 DEF BackfillReplace, SetupFails, SaveAndGo
<1>7. CASE BackfillMark
  <2>1. /\ pc = "mark" /\ saving = NoSave /\ day < today /\ today <= date /\ today \in Day
        /\ mem.last_updated_day \in {NoDay, day - 1} /\ Held /\ date' = date
    BY <1>7 DEF BackfillMark, IInv, TypeOK, SetupOrder, BookInv, SetUp, Held, environment
  <2>2. CASE Dropped /\ pc' = "absent" /\ disk' = disk
    BY <2>1, <2>2, <1>7, <1>a DEF BackfillMark, environment, Held, Kept!Next
  <2>3. CASE /\ mem' = [mem EXCEPT !.last_updated_day = day]
             /\ disk' = mem' /\ pc' = "backfill" /\ saving' = saving
    <3>1. day \in Day /\ day < date
      <4>1. day \in Int /\ 0 <= day /\ today \in 0..LastDay /\ date \in 0..LastDay
        BY <1>0, <2>1, LocalDaysAssumption DEF IInv, TypeOK, Day
      <4> HIDE DEF date
      <4> QED
        BY <2>1, <4>1, LocalDaysAssumption DEF Day
    <3>2. BookOf(mem') = [BookOf(mem) EXCEPT !.sealed = day]
      BY <1>0, <2>3 DEF BookOf, Ledger
    <3>3. Kept!Seal(day)
      BY <2>1, <2>3, <3>1, <3>2 DEF Kept!Seal, BookOf, Held
    <3> QED
      BY <3>1, <3>3 DEF Kept!Next
  <2> QED
    BY <1>7, <2>2, <2>3 DEF BackfillMark, SetupFails, SaveAndGo
<1>8. CASE FirstRefresh
  <2>1. /\ Held /\ Held' /\ saving = NoSave /\ saving' = NoSave /\ date' = date
        /\ mem' = Pruned(mem) /\ disk' \in {disk, mem'}
    BY <1>8 DEF FirstRefresh, BookInv, SetUp, Held, environment
  <2> HIDE DEF date
  <2>2. Kept!Prune(Cutoff(now))
    BY <1>0, <2>1, BookOfPruned DEF Kept!Prune, Kept!SavedOrNot, date
  <2> QED
    BY <1>0, <2>2 DEF Kept!Next
<1>9. CASE Subscribe
  <2>1. BookOf(mem') = BookOf(mem)
    BY <1>0, <1>9 DEF Subscribe, BookOf, Ledger
  <2> QED
    BY <1>9, <2>1 DEF Subscribe, Kept!vars, Held, environment
<1>10. CASE Poll
  <2>1. /\ Held /\ Held' /\ saving = NoSave /\ saving' \in {NoSave, mem'} /\ date' = date
        /\ mem' = Pruned(mem) /\ disk' = disk
    BY <1>10 DEF Poll, Flushed, SetUp, Held, environment
  <2> HIDE DEF date
  <2>2. Kept!Prune(Cutoff(now))
    BY <1>0, <2>1, BookOfPruned DEF Kept!Prune, Kept!SavedOrNot, date
  <2> QED
    BY <1>0, <2>2 DEF Kept!Next
<1>11. CASE FlushDone \/ FlushFails
  <2>1. Kept!SaveEnds
    BY <1>11 DEF FlushDone, FlushFails, Kept!SaveEnds, Held, environment
  <2> QED
    BY <2>1 DEF Kept!Next
<1>12. CASE Unload
  <2>1. Held /\ ~Held' /\ now' = now /\ Dropped /\ disk' \in {disk, mem} /\ saving = NoSave
    BY <1>12 DEF Unload, SetUp, Held, environment
  <2> QED
    BY <2>1, <1>a DEF Kept!Next
<1>13. CASE Stop \/ Crash
  <2>1. /\ ~Held' /\ now' = now /\ Dropped
        /\ disk' = disk \/ (disk' = mem /\ saving = NoSave /\ Held)
    BY <1>13 DEF Stop, Crash, SetUp, Held
  <2>2. CASE Held
    BY <2>1, <2>2, <1>a DEF Kept!Next
  <2>3. CASE ~Held
    BY <2>1, <2>3 DEF Dropped, BookInv, SetUp, Held, Kept!vars
  <2> QED
    BY <2>2, <2>3
<1> QED
  BY <1>1, <1>2, <1>3, <1>4, <1>5, <1>6, <1>7, <1>8, <1>9, <1>10, <1>11, <1>12, <1>13
     DEF Next, SetupRuns, Kept!Next

(* The tracker keeps a day book: days are sealed one by one, a sealed day  *)
(* is final while the coordinator lives, and the file holds a ledger the   *)
(* coordinator had, or none, whatever fails, crashes or is restarted.      *)
THEOREM TrackerKeepsDayBook == Spec => KeepsDayBook
<1>1. Init => BookInv /\ Kept!Init
  BY InitBookInv, InitKept
<1>2. IInv /\ BookInv /\ [Next]_vars => BookInv'
  BY NextBookInv
<1>3. IInv /\ IInv' /\ BookInv /\ [Next]_vars => [Kept!Next]_Kept!vars
  BY NextKept
<1> QED
  BY <1>1, <1>2, <1>3, Invariance, PTL DEF Spec, KeepsDayBook, Kept!Spec
-----------------------------------------------------------------------------
(* What a clean ledger stands on.                                          *)

\* Ledger K holds what ledger L does, but for buckets that may be pruned at t.
Holds(K, L, t) ==
    /\ [K EXCEPT !.daily = L.daily] = L
    /\ \A d \in Day : Cutoff(t) <= d => K.daily[d] = L.daily[d]

\* Until the first flush the ledger is dirty; from then on, if it is not, the
\* file holds it, or will when the save in flight ends.
CleanInv ==
    /\ pc \in {"backfill", "mark", "refresh"} => dirty
    /\ SetUp /\ ~dirty => Holds(IF saving = NoSave THEN disk ELSE saving, mem, now)

(* A ledger holds its own pruned form, and what held it still does later.  *)
LEMMA HoldsPruned ==
    ASSUME NEW K \in Ledger, NEW L \in Ledger, now \in Time
    PROVE  /\ Holds(L, L, now)
           /\ Holds(K, L, now) => Holds(K, Pruned(L), now)
<1>1. Cutoff(now) \in Int /\ \A d \in Day : d \in Int
  BY CutoffDay DEF Day
<1>2. Holds(L, L, now)
  BY DEF Holds, Ledger
<1>3. ASSUME Holds(K, L, now) PROVE Holds(K, Pruned(L), now)
  <2>1. \A d \in Day : Cutoff(now) <= d => Pruned(L).daily[d] = L.daily[d]
    BY <1>1 DEF Pruned, Ledger
  <2>2. [K EXCEPT !.daily = Pruned(L).daily] = Pruned(L)
    BY <1>3 DEF Holds, Pruned, Ledger
  <2> QED
    BY <1>3, <2>1, <2>2 DEF Holds
<1> QED
  BY <1>2, <1>3
(* No step breaks it, if saves succeed.                                    *)
LEMMA NextClean ==
    ASSUME ~DiskMayFail, IInv, BookInv, CleanInv, [Next]_vars
    PROVE  CleanInv'
<1>0. /\ mem \in Ledger /\ disk \in Ledger /\ saving \in Ledger \cup {NoSave} /\ now \in Time
      /\ now' \in Time /\ mem' \in Ledger
  BY NextIInv DEF IInv, TypeOK
<1>1. CASE Tick
  <2>1. Cutoff(now) <= Cutoff(now') /\ Cutoff(now) \in Day /\ Cutoff(now') \in Day
    <3>1. now <= now'
      BY <1>0, <1>1 DEF Tick, Time
    <3> QED
      BY <1>0, <3>1, CutoffDay, CutoffMonotone
  <2>2. \A d \in Day : Cutoff(now') <= d => Cutoff(now) <= d
    BY <2>1 DEF Day
  <2> QED
    BY <1>1, <2>2 DEF Tick, CleanInv, SetUp, Holds
<1>2. CASE Commit \/ Boot \/ FlushFails
  BY <1>2 DEF Commit, Boot, FlushFails, CleanInv, SetUp, backfill
<1>3. ASSUME NEW s \in Live, Transition(s) PROVE CleanInv'
  <2>1. CASE HandleStateChange(s, now)
    BY <1>3, <2>1 DEF Transition, HandleStateChange, CleanInv
  <2>2. CASE UNCHANGED <<mem, dirty>>
    BY <1>3, <2>2 DEF Transition, CleanInv, SetUp
  <2> QED
    BY <1>3, <2>1, <2>2 DEF Transition
<1>4. CASE AttributeUpdate
  BY <1>4 DEF AttributeUpdate, HandleStateChange, CleanInv
<1>5. CASE Load
  BY <1>5 DEF Load, CleanInv
<1>6. CASE BackfillReplace \/ BackfillMark \/ BackfillDone
  BY <1>6 DEF BackfillReplace, BackfillMark, BackfillDone, SetupFails, SaveAndGo, CleanInv, SetUp
<1>7. CASE FirstRefresh
  <2>1. disk' = mem' /\ pc' = "wait" /\ saving' = saving /\ saving = NoSave /\ now' = now
    BY <1>7 DEF FirstRefresh, CleanInv, BookInv, SetUp, environment
  <2>2. Holds(mem', mem', now')
    BY <1>0 DEF Holds, Ledger
  <2> QED
    BY <2>1, <2>2 DEF CleanInv
<1>8. CASE Subscribe
  BY <1>8 DEF Subscribe, CleanInv, SetUp, environment
<1>9. CASE Poll
  <2>1. /\ mem' = Pruned(mem) /\ now' = now /\ disk' = disk /\ ~dirty' /\ saving = NoSave
        /\ saving' = IF dirty THEN mem' ELSE NoSave
        /\ SetUp /\ pc' = pc
    BY <1>9 DEF Poll, Flushed, environment
  <2>2. CASE dirty
    <3>1. Holds(mem', mem', now')
      BY <1>0 DEF Holds, Ledger
    <3> QED
      <4>1. saving' = mem' /\ saving' # NoSave
        BY <1>0, <2>1, <2>2, NoneAssumption
      <4> QED
        BY <2>1, <3>1, <4>1 DEF CleanInv, SetUp
  <2>3. CASE ~dirty
    <3>1. Holds(disk, mem', now')
      BY <1>0, <2>1, <2>3, HoldsPruned DEF CleanInv
    <3> QED
      BY <2>1, <2>3, <3>1 DEF CleanInv
  <2> QED
    BY <2>2, <2>3
<1>10. CASE FlushDone
  BY <1>10 DEF FlushDone, DirtyAfterSave, CleanInv, SetUp, environment
<1>11. CASE Unload \/ Stop \/ Crash
  BY <1>11 DEF Unload, Stop, Crash, Dropped, CleanInv, SetUp
<1>12. CASE UNCHANGED vars
  BY <1>12 DEF vars, CleanInv, SetUp
<1> QED
  BY <1>1, <1>2, <1>3, <1>4, <1>5, <1>6, <1>7, <1>8, <1>9, <1>10, <1>11, <1>12
     DEF Next, SetupRuns

(* If saves succeed, a tracker that is set up and neither dirty nor        *)
(* flushing has everything on disk: clearing _dirty before the await loses *)
(* no fold made while the file is written (_async_flush).                  *)
THEOREM CleanIsSaved == ~DiskMayFail /\ Spec => []CleanMeansSaved
<1>1. CleanInv => CleanMeansSaved
  BY DEF CleanInv, CleanMeansSaved, Saved, Holds
<1> SUFFICES ASSUME ~DiskMayFail PROVE Spec => []CleanMeansSaved
  OBVIOUS
<1>2. Init => CleanInv /\ BookInv
  BY InitBookInv DEF Init, CleanInv, SetUp
<1>3. IInv /\ BookInv /\ CleanInv /\ [Next]_vars => CleanInv' /\ BookInv'
  BY NextClean, NextBookInv
<1> QED
  BY <1>1, <1>2, <1>3, Invariance, PTL DEF Spec

-----------------------------------------------------------------------------
(***************************************************************************)
(* No instant is counted twice: no day of a ledger ever holds more seconds *)
(* than it lasts, for every value of the constants, if there is no glitch  *)
(* threshold and every start finds a recorder.  Without the first it is    *)
(* false (GlitchOverfills.cfg), and without the second after a crash       *)
(* between the two saves of a backfilled day.                              *)
(***************************************************************************)

-----------------------------------------------------------------------------
(* Counting the seconds of a bucket.                                       *)

\* One cell for each state and each second it has in bucket b.
Cells(b) == UNION {{s} \X (1..b[s].secs) : s \in Names}

(* The seconds of a day are the cells of its bucket.                       *)
LEMMA DaySecsCells == \A L, d : DaySecs(L, d) = Cardinality(Cells(L.daily[d]))
  BY DEF DaySecs, Cells

(* A cell is a state and one of its seconds.                               *)
LEMMA CellsMembers ==
    ASSUME NEW b
    PROVE  /\ \A p \in Cells(b) : p[1] \in Names /\ p[2] \in 1..b[p[1]].secs /\ p = <<p[1], p[2]>>
           /\ \A s \in Names : \A n \in 1..b[s].secs : <<s, n>> \in Cells(b)
  BY DEF Cells

(* k seconds of one state are at most k cells.                             *)
LEMMA CellsOfState ==
    ASSUME NEW s, NEW n \in Nat, NEW k \in Nat
    PROVE  LET cells == {s} \X ((n + 1)..(n + k))
           IN  IsFiniteSet(cells) /\ Cardinality(cells) \in Nat /\ Cardinality(cells) <= k
<1> DEFINE cells == {s} \X ((n + 1)..(n + k))
           f == [m \in 1..k |-> <<s, n + m>>]
<1>1. f \in [1..k -> cells]
  OBVIOUS
<1>2. \A p \in cells : \E m \in 1..k : f[m] = p
  <2> TAKE p \in cells
  <2>1. p[2] - n \in 1..k /\ p = <<s, n + (p[2] - n)>>
    OBVIOUS
  <2> QED
    BY <2>1
<1> HIDE DEF f, cells
<1>3. f \in Surjection(1..k, cells)
  BY <1>1, <1>2, Fun_IsSurj
<1>4. IsFiniteSet(1..k) /\ Cardinality(1..k) = k
  BY FS_Interval
<1>5. IsFiniteSet(cells) /\ Cardinality(cells) <= k
  BY <1>3, <1>4, FS_Surjection
<1>6. Cardinality(cells) \in Nat
  BY <1>5, FS_CardinalityType
<1> QED
  BY <1>5, <1>6 DEF cells

(* A bucket has finitely many cells.                                       *)
LEMMA CellsFinite ==
    ASSUME NEW b \in Bucket
    PROVE  IsFiniteSet(Cells(b)) /\ Cardinality(Cells(b)) \in Nat
<1> DEFINE Of(s) == {s} \X (1..b[s].secs)
           Images == {Of(s) : s \in Names}
           f == [s \in Names |-> Of(s)]
<1>1. IsFiniteSet(Names)
  BY NamesAssumption, FS_AddElement DEF Names
<1>2. f \in Surjection(Names, Images)
  BY Fun_IsSurj
<1>3. IsFiniteSet(Images)
  BY <1>1, <1>2, FS_Surjection
<1>4. \A s \in Names : IsFiniteSet(Of(s))
  <2> TAKE s \in Names
  <2>1. b[s].secs \in Nat /\ 0 \in Nat
    BY DEF Bucket
  <2>2. IsFiniteSet({s} \X ((0 + 1)..(0 + b[s].secs)))
    BY <2>1, CellsOfState
  <2>3. (0 + 1)..(0 + b[s].secs) = 1..b[s].secs
    BY <2>1
  <2> QED
    BY <2>2, <2>3, Zenon
<1>5. IsFiniteSet(UNION Images)
  BY <1>3, <1>4, FS_UNION
<1> QED
  BY <1>5, FS_CardinalityType DEF Cells

(* An empty bucket has none.                                               *)
LEMMA CellsEmpty == Cardinality(Cells(EmptyDay)) = 0
<1>1. Cells(EmptyDay) = {}
  BY DEF Cells, EmptyDay, EmptyRow
<1> QED
  BY <1>1, FS_EmptySet

(* A state's k seconds more are at most k cells more.                      *)
LEMMA CellsAdded ==
    ASSUME NEW b \in Bucket, NEW c \in Bucket, NEW s \in Names, NEW k \in Nat,
           c[s].secs = b[s].secs + k,
           \A r \in Names \ {s} : c[r].secs = b[r].secs
    PROVE  Cardinality(Cells(c)) <= Cardinality(Cells(b)) + k
<1> DEFINE n == b[s].secs
           more == {s} \X ((n + 1)..(n + k))
<1>1. n \in Nat
  BY DEF Bucket
<1>2. IsFiniteSet(more) /\ Cardinality(more) \in Nat /\ Cardinality(more) <= k
  BY <1>1, CellsOfState
<1>3. Cells(c) \subseteq Cells(b) \cup more
  <2> SUFFICES ASSUME NEW p \in Cells(c) PROVE p \in Cells(b) \/ p \in more
    OBVIOUS
  <2>1. p[1] \in Names /\ p[2] \in 1..c[p[1]].secs /\ p = <<p[1], p[2]>>
    BY CellsMembers
  <2>2. CASE p[1] # s
    BY <2>1, <2>2, CellsMembers
  <2>3. CASE p[1] = s /\ p[2] \in 1..n
    BY <2>1, <2>3, CellsMembers
  <2>4. CASE p[1] = s /\ p[2] \notin 1..n
    <3>1. p[2] \in (n + 1)..(n + k)
      BY <1>1, <2>1, <2>4
    <3> HIDE DEF n
    <3> QED
      BY <2>1, <2>4, <3>1
  <2> QED
    BY <2>2, <2>3, <2>4
<1> HIDE DEF more
<1>4. /\ IsFiniteSet(Cells(b) \cup more)
      /\ Cardinality(Cells(b) \cup more) <= Cardinality(Cells(b)) + k
  <2>1. IsFiniteSet(Cells(b)) /\ Cardinality(Cells(b)) \in Nat
    BY CellsFinite
  <2>2. Cells(b) \cap more \subseteq more
    OBVIOUS
  <2>3. Cardinality(Cells(b) \cap more) \in Nat
    BY <1>2, <2>2, FS_Subset, FS_CardinalityType
  <2>4. /\ IsFiniteSet(Cells(b) \cup more)
        /\ Cardinality(Cells(b) \cup more)
             = Cardinality(Cells(b)) + Cardinality(more) - Cardinality(Cells(b) \cap more)
    BY <1>2, <2>1, FS_Union
  <2> QED
    BY <1>2, <2>1, <2>3, <2>4
<1> QED
  BY <1>3, <1>4, CellsFinite, FS_Subset, FS_CardinalityType

(* If a bucket's seconds are the sizes of disjoint sets of instants, it    *)
(* has no more cells than there are instants.                              *)
LEMMA CellsOfInstants ==
    ASSUME NEW b \in Bucket, NEW T, IsFiniteSet(T), NEW own \in [Names -> SUBSET T],
           \A s \in Names : b[s].secs = Cardinality(own[s]),
           \A s, r \in Names : s # r => own[s] \cap own[r] = {}
    PROVE  Cardinality(Cells(b)) <= Cardinality(T)
<1> DEFINE g == [s \in Names |-> CHOOSE f : f \in Bijection(1..Cardinality(own[s]), own[s])]
           h == [p \in Cells(b) |-> g[p[1]][p[2]]]
<1>1. \A s \in Names : g[s] \in Bijection(1..b[s].secs, own[s])
  <2> TAKE s \in Names
  <2>1. IsFiniteSet(own[s])
    BY FS_Subset
  <2>2. Bijection(1..Cardinality(own[s]), own[s]) # {}
    BY <2>1, FS_CardinalityType, Fun_ExistsBij
  <2>3. g[s] \in Bijection(1..Cardinality(own[s]), own[s])
    BY <2>2
  <2> QED
    BY <2>3
<1>2. \A s \in Names : \A n, m \in 1..b[s].secs :
          g[s][n] \in own[s] /\ (g[s][n] = g[s][m] => n = m)
  <2> TAKE s \in Names
  <2>1. g[s] \in Injection(1..b[s].secs, own[s])
    BY <1>1, Zenon DEF Bijection
  <2> HIDE DEF g
  <2> QED
    BY <2>1 DEF Injection, IsInjective
<1> HIDE DEF g
<1>3. h \in [Cells(b) -> T]
  <2>1. \A p \in Cells(b) : g[p[1]][p[2]] \in T
    BY <1>2, CellsMembers
  <2> QED
    BY <2>1
<1>4. \A p, q \in Cells(b) : h[p] = h[q] => p = q
  <2> SUFFICES ASSUME NEW p \in Cells(b), NEW q \in Cells(b), g[p[1]][p[2]] = g[q[1]][q[2]]
               PROVE  p = q
    OBVIOUS
  <2>1. /\ p[1] \in Names /\ p[2] \in 1..b[p[1]].secs /\ p = <<p[1], p[2]>>
        /\ q[1] \in Names /\ q[2] \in 1..b[q[1]].secs /\ q = <<q[1], q[2]>>
    BY CellsMembers
  <2>2. p[1] = q[1]
    BY <1>2, <2>1
  <2> QED
    BY <1>2, <2>1, <2>2
<1>5. h \in Injection(Cells(b), T)
  BY <1>3, <1>4, Fun_IsInj
<1> QED
  BY <1>5, FS_Injection
-----------------------------------------------------------------------------
(* How many seconds the operators of the ledger put on a day.              *)

(* A backfill writes no more seconds than the day lasts: each instant of   *)
(* the day belongs to one block.                                           *)
LEMMA BackfillBlocksBounded ==
    ASSUME NEW timeline, NEW d \in Day, NEW dur
    PROVE  Cardinality(Cells(BackfillBlocks(timeline, d, dur))) <= DayLength(d)
<1> DEFINE a == Midnight[d]
           e == Midnight[d + 1]
           shown == CarryForward(timeline, a, e)
           kept == Survivors(shown, a, e, dur)
           own == [s \in Names |-> {t \in a..(e - 1) : GivenTo(shown, kept, t) = s}]
           b == BackfillBlocks(timeline, d, dur)
<1>1. a \in Nat /\ e \in Nat /\ a < e
  BY MidnightNat, LocalDaysAssumption DEF Day
<1>2. \A s \in Names : b[s].secs = Cardinality(own[s])
  BY DEF BackfillBlocks, Blocks
<1>3. own \in [Names -> SUBSET (a..(e - 1))]
  OBVIOUS
<1>4. \A s, r \in Names : s # r => own[s] \cap own[r] = {}
  OBVIOUS
<1>5. b \in Bucket
  BY BackfillBlocksType
<1> HIDE DEF own, b, a, e
<1>6. IsFiniteSet(a..(e - 1)) /\ Cardinality(a..(e - 1)) = e - a
  <2>1. e - 1 \in Int /\ a \in Int /\ ~(a > e - 1) /\ (e - 1) - a + 1 = e - a
    BY <1>1
  <2> QED
    BY <2>1, FS_Interval
<1> QED
  BY <1>2, <1>3, <1>4, <1>5, <1>6, CellsOfInstants DEF DayLength, b, a, e

(* The seconds of a day are a natural number.                              *)
LEMMA DaySecsType ==
    ASSUME NEW L \in Ledger, NEW d \in Day
    PROVE  DaySecs(L, d) \in Nat
  BY DaySecsCells, CellsFinite DEF Ledger

(* An empty ledger has none.                                               *)
LEMMA DaySecsEmpty ==
    ASSUME NEW L, NEW d \in Day, L.daily[d] = EmptyDay
    PROVE  DaySecs(L, d) = 0
  BY DaySecsCells, CellsEmpty

(* A prune adds none.                                                      *)
LEMMA DaySecsPruned ==
    ASSUME NEW L \in Ledger, NEW d \in Day
    PROVE  DaySecs(Pruned(L), d) <= DaySecs(L, d)
<1>1. Pruned(L).daily[d] \in {EmptyDay, L.daily[d]}
  BY DEF Pruned, Ledger
<1>2. DaySecs(L, d) \in Nat
  BY DaySecsType
<1>3. CASE Pruned(L).daily[d] = EmptyDay
  BY <1>2, <1>3, DaySecsEmpty
<1>4. CASE Pruned(L).daily[d] = L.daily[d]
  BY <1>2, <1>4, DaySecsCells
<1> QED
  BY <1>1, <1>3, <1>4

(* With no glitch threshold a fold adds to a day at most what the visit    *)
(* spent in it.                                                            *)
LEMMA DaySecsFolded ==
    ASSUME NEW L \in Ledger, NEW s \in Names, NEW start \in Time, NEW end \in Time,
           NEW d \in Day, minDur = 0
    PROVE  Cardinality(Cells(FoldedDaily(L, s, start, end)[d]))
             <= DaySecs(L, d) + SplitSecs(start, end, d)
<1> DEFINE head == FoldStart(L, start)
           b == L.daily[d]
           c == FoldedDaily(L, s, start, end)[d]
<1>1. head \in Nat /\ end \in Nat /\ start \in Nat /\ start <= head
  BY FoldStartType, LocalDaysAssumption DEF Time
<1>2. b \in Bucket /\ DaySecs(L, d) = Cardinality(Cells(b)) /\ DaySecs(L, d) \in Nat
  BY DaySecsCells, DaySecsType DEF Ledger
<1>3. SplitSecs(start, end, d) \in Nat /\ SplitSecs(head, end, d) \in Nat
  BY <1>1, SplitSecsType
<1>4. ~Glitch(L, start, end)
  BY DEF Glitch
<1> HIDE DEF head
<1>5. CASE head >= end
  <2>1. c = b
    BY <1>5 DEF FoldedDaily, head
  <2> HIDE DEF b
  <2> QED
    BY <1>2, <1>3, <2>1
<1>6. CASE head < end
  <2> DEFINE k == SplitSecs(head, end, d)
             n == IF k = 0 THEN 0 ELSE VisitCount(start, head, s, d)
  <2>1. c = [b EXCEPT ![s].secs = @ + k, ![s].count = @ + n]
    BY <1>1, <1>4, <1>6 DEF FoldedDaily, head
  <2>2. k \in Nat /\ n \in Nat
    BY <1>3, VisitCountType
  <2> HIDE DEF b, c, k, n
  <2>3. c \in Bucket /\ c[s].secs = b[s].secs + k /\ \A r \in Names \ {s} : c[r].secs = b[r].secs
    <3>1. b \in [Names -> [secs : Nat, count : Nat]] /\ b[s].secs + k \in Nat /\ b[s].count + n \in Nat
      BY <1>2, <2>2 DEF Bucket
    <3>2. c \in Bucket
      BY <2>1, <3>1 DEF Bucket
    <3>3. c[s].secs = b[s].secs + k
      BY <2>1, <3>1
    <3>4. \A r \in Names \ {s} : c[r].secs = b[r].secs
      BY <2>1, <3>1
    <3> QED
      BY <3>2, <3>3, <3>4
  <2>4. Cardinality(Cells(c)) <= Cardinality(Cells(b)) + k
    BY <1>2, <2>2, <2>3, CellsAdded
  <2>5. k <= SplitSecs(start, end, d)
    <3>1. Midnight[d] \in Nat /\ Midnight[d + 1] \in Nat
      BY MidnightNat, LocalDaysAssumption DEF Day
    <3> QED
      BY <1>1, <3>1 DEF k, SplitSecs, Earlier, Later
  <2>6. Cardinality(Cells(c)) \in Nat
    BY <2>3, CellsFinite
  <2> QED
    BY <1>2, <1>3, <2>2, <2>4, <2>5, <2>6 DEF c
<1> QED
  BY <1>1, <1>5, <1>6
-----------------------------------------------------------------------------
(* The inductive invariant.                                                *)

\* How much of day d is over at t.
Elapsed(t, d) == SplitSecs(0, t, d)

(* More of a day is over later, and never more than the day.               *)
LEMMA ElapsedBounds ==
    ASSUME NEW t \in Time, NEW u \in Time, NEW d \in Day, t <= u
    PROVE  /\ Elapsed(t, d) \in Nat
           /\ Elapsed(t, d) <= Elapsed(u, d)
           /\ Elapsed(u, d) <= DayLength(d)
<1>1. Midnight[d] \in Nat /\ Midnight[d + 1] \in Nat /\ Midnight[d] < Midnight[d + 1]
  BY LocalDaysAssumption DEF Day
<1>2. t \in Nat /\ u \in Nat
  BY LocalDaysAssumption DEF Time
<1> QED
  BY <1>1, <1>2 DEF Elapsed, SplitSecs, DayLength, Earlier, Later

(* What is over of a day is a natural number of seconds.                   *)
LEMMA ElapsedType ==
    ASSUME NEW t \in Time, NEW d \in Day
    PROVE  Elapsed(t, d) \in Nat
<1>1. t <= t
  BY LocalDaysAssumption DEF Time
<1> QED
  BY <1>1, ElapsedBounds

(* What was over before a visit and the visit together are no more than    *)
(* what is over after it.                                                  *)
LEMMA ElapsedSplit ==
    ASSUME NEW t \in Time, NEW start \in Time, NEW end \in Time, NEW d \in Day,
           t <= start, t <= end
    PROVE  Elapsed(t, d) + SplitSecs(start, end, d) <= Elapsed(end, d)
<1>1. Midnight[d] \in Nat /\ Midnight[d + 1] \in Nat /\ Midnight[d] < Midnight[d + 1]
  BY LocalDaysAssumption DEF Day
<1>2. t \in Nat /\ start \in Nat /\ end \in Nat
  BY LocalDaysAssumption DEF Time
<1> QED
  BY <1>1, <1>2 DEF Elapsed, SplitSecs, Earlier, Later

\* A day the live path folded holds no more than had passed of it when the
\* latest fold ended, which was a change of the entity, by c the latest.
Watched(L, d, c) == DaySecs(L, d) <= Elapsed(Earlier(L.last_ts, c), d)

\* A day that a backfill wrote and did not live to mark: at t, the next
\* backfill starts at it, or after it at a later cutoff.
Unmarked(L, d, t) ==
    /\ d < DayOf(t)
    /\ IF L.last_updated_day = NoDay THEN KeepDays > 0 /\ d <= Cutoff(t)
       ELSE d = L.last_updated_day + 1

\* What holds at t of every ledger, in memory, on disk, or on its way there,
\* if the entity changed last at c.
Accounted(L, t, c) ==
    \A d \in Day :
        /\ DaySecs(L, d) <= DayLength(d)
        /\ L.last_updated_day < d => Watched(L, d, c) \/ Unmarked(L, d, t)

\* Every day after the marker is the live path's.
AllWatched(L, c) == \A d \in Day : L.last_updated_day < d => Watched(L, d, c)

\* The backfill stands at the day after the marker, or began at the cutoff.
BackfillPlace ==
    pc \in {"backfill", "mark"} =>
        IF mem.last_updated_day = NoDay
        THEN day = Later(0, today - KeepDays)
        ELSE day = mem.last_updated_day + 1

\* Of the days after the marker it has written at most those up to `day'.
BackfillAhead ==
    pc \in {"backfill", "mark"} =>
        \A d \in Day : mem.last_updated_day < d =>
            \/ Watched(mem, d, changed)
            \/ /\ d <= day
               /\ d < today
               /\ mem.last_updated_day = NoDay => KeepDays > 0

Accounting ==
    /\ recorder
    /\ changed <= now
    /\ Accounted(mem, now, changed)
    /\ Accounted(disk, now, changed)
    /\ saving # NoSave => Accounted(saving, now, changed)
    /\ BackfillPlace
    /\ BackfillAhead
    /\ pc \in {"refresh", "wait", "live"} => AllWatched(mem, changed)
-----------------------------------------------------------------------------
(* How the parts of the invariant move with time and the ledger.           *)

(* A watched day stays watched when the entity changes.                    *)
LEMMA WatchedLater ==
    ASSUME NEW L \in Ledger, NEW d \in Day, NEW c \in Time, NEW e \in Time, c <= e,
           Watched(L, d, c)
    PROVE  Watched(L, d, e)
<1>1. L.last_ts \in Time
  BY DEF Ledger
<1>2. /\ Earlier(L.last_ts, c) \in Time /\ Earlier(L.last_ts, e) \in Time
      /\ Earlier(L.last_ts, c) <= Earlier(L.last_ts, e)
  BY <1>1, LocalDaysAssumption DEF Earlier, Time
<1>3. /\ Elapsed(Earlier(L.last_ts, c), d) <= Elapsed(Earlier(L.last_ts, e), d)
      /\ Elapsed(Earlier(L.last_ts, c), d) \in Nat
      /\ Elapsed(Earlier(L.last_ts, e), d) \in Nat
  BY <1>2, ElapsedBounds, ElapsedType
<1>4. DaySecs(L, d) \in Nat
  BY DaySecsType
<1> QED
  BY <1>3, <1>4 DEF Watched

(* A watched day is not overfull.                                          *)
LEMMA WatchedBounded ==
    ASSUME NEW L \in Ledger, NEW d \in Day, NEW c \in Time, Watched(L, d, c)
    PROVE  DaySecs(L, d) <= DayLength(d)
<1>1. L.last_ts \in Time
  BY DEF Ledger
<1>2. Earlier(L.last_ts, c) \in Time /\ Earlier(L.last_ts, c) <= Earlier(L.last_ts, c)
  BY <1>1, LocalDaysAssumption DEF Earlier, Time
<1>3. /\ Elapsed(Earlier(L.last_ts, c), d) \in Nat
      /\ Elapsed(Earlier(L.last_ts, c), d) <= DayLength(d)
  BY <1>2, ElapsedBounds
<1>4. DaySecs(L, d) \in Nat /\ DayLength(d) \in Int
  BY DaySecsType, MidnightNat, LocalDaysAssumption DEF DayLength, Day
<1> QED
  BY <1>3, <1>4 DEF Watched

(* An accounted ledger stays so as time passes and the entity changes.     *)
LEMMA AccountedLater ==
    ASSUME NEW L \in Ledger, NEW t \in Time, NEW u \in Time, t <= u,
           NEW c \in Time, NEW e \in Time, c <= e, Accounted(L, t, c)
    PROVE  Accounted(L, u, e)
<1> SUFFICES ASSUME NEW d \in Day, L.last_updated_day < d
             PROVE  Watched(L, d, e) \/ Unmarked(L, d, u)
  BY DEF Accounted
<1>1. CASE Watched(L, d, c)
  BY <1>1, WatchedLater
<1>2. CASE Unmarked(L, d, t)
  <2>1. /\ DayOf(t) \in Day /\ DayOf(u) \in Day /\ DayOf(t) <= DayOf(u)
        /\ Cutoff(t) \in Day /\ Cutoff(u) \in Day /\ Cutoff(t) <= Cutoff(u)
    BY DayOfInstant, DayOfMonotone, CutoffDay, CutoffMonotone
  <2>2. d < DayOf(u)
    BY <1>2, <2>1, LocalDaysAssumption DEF Unmarked, Day
  <2>3. d <= Cutoff(t) => d <= Cutoff(u)
    BY <2>1, LocalDaysAssumption DEF Day
  <2> QED
    BY <1>2, <2>2, <2>3 DEF Unmarked
<1> QED
  BY <1>1, <1>2 DEF Accounted

(* A ledger all of whose days after the marker are watched is accounted,   *)
(* if the days up to the marker are not overfull.                          *)
LEMMA WatchedAccounted ==
    ASSUME NEW L \in Ledger, NEW t \in Time, NEW c \in Time, AllWatched(L, c),
           \A d \in Day : d <= L.last_updated_day => DaySecs(L, d) <= DayLength(d)
    PROVE  Accounted(L, t, c)
<1>1. L.last_updated_day \in Int /\ \A d \in Day : d \in Int
  BY MarkerType, LocalDaysAssumption DEF Day
<1> QED
  BY <1>1, WatchedBounded DEF Accounted, AllWatched

(* A ledger without buckets is accounted.                                  *)
LEMMA EmptyLedgerAccounted ==
    ASSUME NEW t \in Time, NEW c \in Time, NEW L \in Ledger, L.daily = EmptyLedger.daily
    PROVE  Accounted(L, t, c) /\ AllWatched(L, c)
<1>1. \A d \in Day : DaySecs(L, d) = 0
  BY DaySecsEmpty DEF EmptyLedger
<1>2. \A d \in Day : Watched(L, d, c)
  <2> TAKE d \in Day
  <2>1. Earlier(L.last_ts, c) \in Time
    BY LocalDaysAssumption DEF Earlier, Time, Ledger
  <2>2. Elapsed(Earlier(L.last_ts, c), d) \in Nat
    BY <2>1, ElapsedType
  <2> QED
    BY <1>1, <2>2 DEF Watched
<1>3. AllWatched(L, c)
  BY <1>2 DEF AllWatched
<1>4. \A d \in Day : DaySecs(L, d) <= DayLength(d)
  BY <1>2, WatchedBounded
<1> QED
  BY <1>3, <1>4, WatchedAccounted

(* A prune leaves a ledger accounted, and its days watched.                *)
LEMMA PrunedAccounted ==
    ASSUME NEW L \in Ledger, NEW t \in Time, NEW c \in Time, Accounted(L, t, c)
    PROVE  Accounted(Pruned(L), t, c) /\ (AllWatched(L, c) => AllWatched(Pruned(L), c))
<1> DEFINE P == Pruned(L)
<1>1. P \in Ledger /\ P.last_ts = L.last_ts /\ P.last_updated_day = L.last_updated_day
  BY PrunedType DEF Pruned, Ledger
<1>2. \A d \in Day : DaySecs(P, d) <= DaySecs(L, d) /\ DaySecs(P, d) \in Nat /\ DaySecs(L, d) \in Nat
  BY <1>1, DaySecsPruned, DaySecsType
<1> HIDE DEF P
<1>3. \A d \in Day : Watched(L, d, c) => Watched(P, d, c)
  <2> TAKE d \in Day
  <2>1. Earlier(L.last_ts, c) \in Time
    BY LocalDaysAssumption DEF Earlier, Time, Ledger
  <2>2. Elapsed(Earlier(L.last_ts, c), d) \in Nat
    BY <2>1, ElapsedType
  <2> QED
    BY <1>1, <1>2, <2>2 DEF Watched
<1>4. \A d \in Day : DayLength(d) \in Int
  BY MidnightNat, LocalDaysAssumption DEF DayLength, Day
<1> QED
  BY <1>1, <1>2, <1>3, <1>4 DEF Accounted, AllWatched, Unmarked, P

(* With no glitch threshold a state change that the live path folds leaves *)
(* every day after the marker watched, and no day overfull.                *)
LEMMA HandleStateChangeAccounted ==
    ASSUME IInv, NEW s \in Names, NEW at \in Time, HandleStateChange(s, at), pc = "live",
           minDur = 0, changed <= at,
           Accounted(mem, now, changed), AllWatched(mem, changed)
    PROVE  AllWatched(mem', at) /\ Accounted(mem', now, at)
<1>1. /\ mem \in Ledger /\ mem.last_ts \in Time /\ mem.last_state \in Names \cup {NoState}
      /\ changed \in Time /\ now \in Time /\ mem.daily \in [Day -> Bucket]
  BY DEF IInv, TypeOK, Ledger
<1>2. /\ mem' \in Ledger /\ mem'.last_updated_day = mem.last_updated_day
      /\ mem.last_updated_day \in Int
  BY <1>1, HandleStateChangeType, MarkerType
<1>3. mem'.last_ts = at
  BY <1>1 DEF HandleStateChange, Ledger
<1>4. \A d \in Day : mem.last_updated_day < d => Watched(mem', d, at)
  <2> SUFFICES ASSUME NEW d \in Day, mem.last_updated_day < d
               PROVE  DaySecs(mem', d) <= Elapsed(Earlier(at, at), d)
    BY <1>3 DEF Watched
  <2> DEFINE before == Earlier(mem.last_ts, changed)
  <2>1. /\ before \in Time /\ before <= mem.last_ts /\ before <= at /\ Earlier(at, at) = at
    BY <1>1, LocalDaysAssumption DEF Earlier, Time
  <2>2. DaySecs(mem, d) <= Elapsed(before, d)
    BY DEF AllWatched, Watched
  <2>3. DaySecs(mem, d) \in Nat /\ DaySecs(mem', d) \in Nat
    BY <1>1, <1>2, DaySecsType
  <2> HIDE DEF before
  <2>4. CASE mem.last_state = NoState
    <3>1. mem'.daily = mem.daily
      BY <1>1, <2>4 DEF HandleStateChange, Ledger
    <3>2. DaySecs(mem', d) = DaySecs(mem, d)
      BY <3>1, DaySecsCells
    <3>3. Elapsed(before, d) \in Nat /\ Elapsed(at, d) \in Nat /\ Elapsed(before, d) <= Elapsed(at, d)
      BY <2>1, ElapsedBounds, ElapsedType
    <3> QED
      BY <2>1, <2>2, <2>3, <3>2, <3>3
  <2>5. CASE mem.last_state # NoState
    <3>1. mem'.daily = FoldedDaily(mem, mem.last_state, mem.last_ts, at)
      BY <1>1, <2>5 DEF HandleStateChange, Ledger
    <3>2. DaySecs(mem', d) <= DaySecs(mem, d) + SplitSecs(mem.last_ts, at, d)
      BY <1>1, <2>5, <3>1, DaySecsFolded, DaySecsCells
    <3>3. Elapsed(before, d) + SplitSecs(mem.last_ts, at, d) <= Elapsed(at, d)
      BY <1>1, <2>1, ElapsedSplit
    <3>4. SplitSecs(mem.last_ts, at, d) \in Nat /\ Elapsed(before, d) \in Nat /\ Elapsed(at, d) \in Nat
      <4>1. mem.last_ts \in Int /\ at \in Int
        BY <1>1, LocalDaysAssumption DEF Time
      <4> QED
        BY <2>1, <4>1, SplitSecsType, ElapsedType
    <3> QED
      BY <2>1, <2>2, <2>3, <3>2, <3>3, <3>4
  <2> QED
    BY <2>4, <2>5
<1>5. \A d \in Day : d <= mem.last_updated_day => DaySecs(mem', d) <= DayLength(d)
  <2> SUFFICES ASSUME NEW d \in Day, d <= mem.last_updated_day
               PROVE  DaySecs(mem', d) <= DayLength(d)
    OBVIOUS
  <2>1. mem'.daily[d] = mem.daily[d]
    BY HandleStateChangeFrozen
  <2> QED
    BY <2>1, DaySecsCells DEF Accounted
<1>6. AllWatched(mem', at)
  BY <1>2, <1>4 DEF AllWatched
<1> QED
  BY <1>1, <1>2, <1>5, <1>6, WatchedAccounted
-----------------------------------------------------------------------------
(* Every step keeps the accounting.                                        *)

\* No glitch threshold is ever set, and every start finds a recorder.
PlainSetting == Thresholds \subseteq {0} /\ ~RecorderMayBeOff

(* The accounting holds at the start.                                      *)
LEMMA InitAccounting ==
    ASSUME PlainSetting, Init
    PROVE  Accounting
<1>1. now \in Time /\ changed \in Time /\ changed <= now /\ recorder
  BY LocalDaysAssumption DEF Init, PlainSetting, Time
<1>2. Accounted(EmptyLedger, now, changed)
  BY <1>1, EmptyLedgerAccounted, EmptyLedgerType
<1>3. /\ mem = EmptyLedger /\ disk = EmptyLedger /\ saving = NoSave /\ pc = "absent"
  BY DEF Init
<1> QED
  BY <1>1, <1>2, <1>3 DEF Accounting, BackfillPlace, BackfillAhead

(* A dropped coordinator leaves only the disk to account for.              *)
LEMMA DroppedAccounting ==
    ASSUME Dropped, pc' \notin {"backfill", "mark", "refresh", "wait", "live"},
           recorder', now' \in Time, changed' \in Time, changed' <= now',
           Accounted(disk', now', changed')
    PROVE  Accounting'
<1>1. mem' = EmptyLedger /\ saving' = NoSave
  BY DroppedType
<1>2. Accounted(EmptyLedger, now', changed')
  BY EmptyLedgerAccounted, EmptyLedgerType
<1> QED
  BY <1>1, <1>2 DEF Accounting, BackfillPlace, BackfillAhead

(* What the backfill has written and not marked, the next one starts at.   *)
LEMMA AheadAccounted ==
    ASSUME NEW L \in Ledger, NEW t \in Time, NEW c \in Time,
           NEW e \in 0..(LastDay + 1), NEW n \in Day, n <= DayOf(t),
           IF L.last_updated_day = NoDay THEN e = Later(0, n - KeepDays)
           ELSE e = L.last_updated_day + 1,
           \A d \in Day :
               /\ DaySecs(L, d) <= DayLength(d)
               /\ L.last_updated_day < d =>
                    \/ Watched(L, d, c)
                    \/ d <= e /\ d < n /\ (L.last_updated_day = NoDay => KeepDays > 0)
    PROVE  Accounted(L, t, c)
<1> SUFFICES ASSUME NEW d \in Day, L.last_updated_day < d, ~Watched(L, d, c)
             PROVE  Unmarked(L, d, t)
  BY DEF Accounted
<1>1. d <= e /\ d < n /\ (L.last_updated_day = NoDay => KeepDays > 0)
  OBVIOUS
<1>2. /\ d \in Nat /\ n \in Nat /\ e \in Nat /\ DayOf(t) \in Nat /\ KeepDays \in Nat
      /\ L.last_updated_day \in Int
  <2>1. L.last_updated_day \in Int
    BY MarkerType
  <2>2. DayOf(t) \in Day
    BY DayOfInstant
  <2>3. LastDay \in Nat /\ KeepDays \in Nat
    BY LocalDaysAssumption, TrackerAssumption
  <2> QED
    BY <2>1, <2>2, <2>3 DEF Day
<1>3. d < DayOf(t)
  BY <1>1, <1>2
<1>4. L.last_updated_day = NoDay => d <= Cutoff(t)
  BY <1>1, <1>2 DEF Cutoff, Later
<1>5. L.last_updated_day # NoDay => d = L.last_updated_day + 1
  BY <1>1, <1>2
<1> QED
  BY <1>1, <1>3, <1>4, <1>5 DEF Unmarked

(* No step breaks the accounting.                                          *)
LEMMA NextAccounting ==
    ASSUME PlainSetting, IInv, Accounting, [Next]_vars
    PROVE  Accounting'
<1>0. /\ now \in Time /\ changed \in Time /\ changed <= now /\ recorder
      /\ mem \in Ledger /\ disk \in Ledger /\ saving \in Ledger \cup {NoSave}
      /\ today \in Day /\ minDur = 0 /\ day \in 0..(LastDay + 1)
      /\ today <= DayOf(now) /\ DayOf(now) \in Day
  BY DayOfInstant DEF IInv, TypeOK, SetupOrder, Accounting, PlainSetting
<1>00. /\ now' \in Time /\ changed' \in Time /\ mem' \in Ledger /\ disk' \in Ledger
       /\ saving' \in Ledger \cup {NoSave}
  BY NextIInv DEF IInv, TypeOK
<1>000. /\ Accounted(mem, now, changed) /\ Accounted(disk, now, changed)
        /\ saving # NoSave => Accounted(saving, now, changed)
        /\ pc \in {"refresh", "wait", "live"} => AllWatched(mem, changed)
  BY DEF Accounting
<1> DEFINE Untouched ==
        /\ mem' = mem /\ disk' = disk /\ saving' = saving /\ pc' = pc
        /\ today' = today /\ day' = day
(* Time passes, or the entity changes, and no ledger does.                 *)
<1>a. ASSUME Untouched, recorder', now <= now', changed <= changed', changed' <= now'
      PROVE  Accounting'
  <2>1. /\ Accounted(mem', now', changed') /\ Accounted(disk', now', changed')
        /\ saving' # NoSave => Accounted(saving', now', changed')
    BY <1>0, <1>00, <1>000, <1>a, AccountedLater
  <2>2. \A d \in Day : Watched(mem, d, changed) => Watched(mem, d, changed')
    BY <1>0, <1>00, <1>a, WatchedLater
  <2>3. pc' \in {"refresh", "wait", "live"} => AllWatched(mem', changed')
    BY <1>000, <1>a, <2>2 DEF AllWatched
  <2>4. BackfillPlace' /\ BackfillAhead'
    BY <1>a, <2>2 DEF Accounting, BackfillPlace, BackfillAhead
  <2> QED
    BY <1>a, <2>1, <2>3, <2>4 DEF Accounting
(* The coordinator is dropped and the disk holds mem or what it held.      *)
<1>b. ASSUME Dropped, pc' \notin {"backfill", "mark", "refresh", "wait", "live"},
             disk' \in {mem, disk}, recorder', now' = now,
             changed <= changed', changed' <= now'
      PROVE  Accounting'
  <2>0. /\ now' \in Time /\ changed' \in Time /\ now <= now' /\ changed <= changed'
    BY <1>0, <1>00, <1>b, LocalDaysAssumption DEF Time
  <2>1. Accounted(disk', now', changed')
    <3>1. Accounted(mem, now', changed') /\ Accounted(disk, now', changed')
      BY <1>0, <1>000, <2>0, AccountedLater
    <3> QED
      BY <1>b, <3>1
  <2> QED
    BY <1>00, <1>b, <2>1, DroppedAccounting
<1>n. now <= now /\ changed <= changed
  BY <1>0, LocalDaysAssumption DEF Time
<1>1. CASE Tick
  <2>1. Untouched /\ recorder' /\ changed' = changed /\ now' = now + 1
    BY <1>0, <1>1 DEF Tick, backfill
  <2>2. now <= now' /\ changed <= changed' /\ changed' <= now'
    BY <1>0, <1>n, <2>1, LocalDaysAssumption DEF Time
  <2> QED
    BY <1>a, <2>1, <2>2
<1>2. CASE Commit
  BY <1>0, <1>2, <1>n, <1>a DEF Commit, backfill
<1>3. ASSUME NEW s \in Live, Transition(s) PROVE Accounting'
  <2>1. /\ s \in Names /\ changed' = now /\ now' = now /\ recorder' /\ pc' = pc
        /\ disk' = disk /\ saving' = saving /\ today' = today /\ day' = day
    BY <1>0, <1>3, TrackerAssumption DEF Transition, backfill
  <2>2. CASE pc = "live" /\ HandleStateChange(s, now)
    <3>1. AllWatched(mem', now) /\ Accounted(mem', now, now)
      BY <1>0, <1>000, <2>1, <2>2, HandleStateChangeAccounted
    <3>2. Accounted(disk, now, now) /\ (saving # NoSave => Accounted(saving, now, now))
      BY <1>0, <1>n, <1>000, AccountedLater
    <3> QED
      BY <1>n, <2>1, <2>2, <3>1, <3>2 DEF Accounting, BackfillPlace, BackfillAhead
  <2>3. CASE mem' = mem
    BY <1>0, <1>a, <1>n, <2>1, <2>3
  <2> QED
    BY <1>3, <2>2, <2>3 DEF Transition
<1>4. CASE AttributeUpdate
  <2>1. /\ line[now] \in Names /\ changed' = changed /\ now' = now /\ recorder' /\ pc' = pc
        /\ disk' = disk /\ saving' = saving /\ pc = "live" /\ HandleStateChange(line[now], changed)
    BY <1>0, <1>4 DEF AttributeUpdate, environment, IInv, TypeOK
  <2>2. AllWatched(mem', changed) /\ Accounted(mem', now, changed)
    BY <1>0, <1>n, <1>000, <2>1, HandleStateChangeAccounted
  <2> QED
    BY <1>0, <1>000, <2>1, <2>2 DEF Accounting, BackfillPlace, BackfillAhead
<1>5. CASE Load
  <2> PICK L \in {disk} \cup (IF DiskMayFail THEN {EmptyLedger} ELSE {}) :
        /\ disk' = L
        /\ mem' = Reconciled(L)
        /\ day' = IF mem'.last_updated_day = NoDay THEN Cutoff(now)
                  ELSE mem'.last_updated_day + 1
    BY <1>5 DEF Load
  <2>1. /\ now' = now /\ changed' = changed /\ recorder' /\ saving' = saving
        /\ today' = DayOf(now) /\ pc' = "backfill"
    BY <1>0, <1>5 DEF Load, environment
  <2>2. L \in Ledger /\ Accounted(L, now, changed)
    BY <1>0, <1>000, EmptyLedgerType, EmptyLedgerAccounted
  <2>3. CASE mem'.daily = EmptyLedger.daily
    <3>1. Accounted(mem', now, changed) /\ AllWatched(mem', changed)
      BY <1>0, <1>00, <2>3, EmptyLedgerAccounted
    <3>2. BackfillPlace' /\ BackfillAhead'
      BY <2>1, <3>1 DEF BackfillPlace, BackfillAhead, AllWatched, Cutoff
    <3> QED
      BY <1>0, <1>000, <2>1, <2>2, <3>1, <3>2 DEF Accounting
  <2>4. CASE mem' = [L EXCEPT !.built = minDur]
    <3>1. /\ mem'.daily = L.daily /\ mem'.last_ts = L.last_ts
          /\ mem'.last_updated_day = L.last_updated_day
      BY <2>2, <2>4 DEF Ledger
    <3>2. \A d \in Day : DaySecs(mem', d) = DaySecs(L, d)
      BY <3>1, DaySecsCells
    <3>3. Accounted(mem', now, changed)
      BY <2>2, <3>1, <3>2 DEF Accounted, Watched, Unmarked
    <3>4. BackfillPlace'
      BY <2>1 DEF BackfillPlace, Cutoff
    <3>5. BackfillAhead'
      BY <2>1, <3>3 DEF BackfillAhead, Accounted, Unmarked, NoDay, Day
    <3> QED
      BY <1>0, <1>000, <2>1, <2>2, <3>3, <3>4, <3>5 DEF Accounting
  <2> QED
    BY <2>2, <2>3, <2>4 DEF Reconciled, Ledger
<1>6. CASE BackfillReplace
  <2> DEFINE blocks == BackfillBlocks(Visible, day, minDur)
  <2>1. /\ now' = now /\ changed' = changed /\ recorder' /\ day \in Day /\ day < today
        /\ pc = "backfill"
    BY <1>0, <1>6, LocalDaysAssumption DEF BackfillReplace, environment, Pending, Day
  <2>2. CASE /\ pc' = "mark"
             /\ UNCHANGED <<disk, backfill, mem, dirty, saving, lastFold, previous, exact>>
    BY <1>0, <1>000, <2>1, <2>2 DEF backfill, Accounting, BackfillPlace, BackfillAhead
  <2>3. CASE /\ mem' = ReplaceDay(mem, day, blocks)
             /\ SaveAndGo("mark")
             /\ UNCHANGED <<backfill, dirty, saving, lastFold, previous, exact>>
    <3>1. /\ disk' = mem' /\ pc' = "mark" /\ today' = today /\ day' = day /\ saving' = saving
      BY <2>3 DEF SaveAndGo, backfill
    <3> HIDE DEF blocks
    <3>2. /\ mem'.last_updated_day = mem.last_updated_day /\ mem'.last_ts = mem.last_ts
          /\ mem'.daily[day] = blocks
          /\ \A d \in Day \ {day} : mem'.daily[d] = mem.daily[d]
      BY <1>0, <2>1, <2>3 DEF ReplaceDay, Ledger
    <3>3. DaySecs(mem', day) <= DayLength(day)
      BY <2>1, <3>2, DaySecsCells, BackfillBlocksBounded DEF blocks
    <3>4. \A d \in Day \ {day} : DaySecs(mem', d) = DaySecs(mem, d)
      BY <3>2, DaySecsCells
    <3>5. BackfillPlace'
      BY <2>1, <3>1, <3>2 DEF Accounting, BackfillPlace
    <3>6. mem.last_updated_day = NoDay => KeepDays > 0
      BY <1>0, <2>1, TrackerAssumption, LocalDaysAssumption
         DEF Accounting, BackfillPlace, Later, Day
    <3>7. BackfillAhead'
      <4> SUFFICES ASSUME NEW d \in Day, mem.last_updated_day < d
                   PROVE  \/ Watched(mem', d, changed)
                          \/ /\ d <= day
                             /\ d < today
                             /\ mem.last_updated_day = NoDay => KeepDays > 0
        BY <2>1, <3>1, <3>2 DEF BackfillAhead
      <4>1. CASE d = day
        BY <2>1, <3>6, <4>1, LocalDaysAssumption DEF Day
      <4>2. CASE d # day
        BY <2>1, <3>2, <3>4, <4>2 DEF Accounting, BackfillAhead, Watched
      <4> QED
        BY <4>1, <4>2
    <3>8. \A d \in Day : DaySecs(mem', d) <= DayLength(d)
      BY <1>000, <3>3, <3>4 DEF Accounted
    <3>9. Accounted(mem', now, changed)
      <4>1. \A d \in Day : mem'.last_updated_day < d =>
              \/ Watched(mem', d, changed)
              \/ d <= day /\ d < today /\ (mem'.last_updated_day = NoDay => KeepDays > 0)
        BY <2>1, <3>1, <3>2, <3>7 DEF BackfillAhead
      <4>2. IF mem'.last_updated_day = NoDay THEN day = Later(0, today - KeepDays)
            ELSE day = mem'.last_updated_day + 1
        BY <2>1, <3>1, <3>5 DEF BackfillPlace
      <4> QED
        BY <1>0, <1>00, <3>8, <4>1, <4>2, AheadAccounted
    <3> QED
      BY <1>0, <1>000, <2>1, <3>1, <3>5, <3>7, <3>9 DEF Accounting
  <2>4. CASE SetupFails
    BY <1>0, <1>n, <1>b, <2>1, <2>4 DEF SetupFails
  <2> HIDE DEF blocks
  <2> QED
    BY <1>6, <2>2, <2>3, <2>4 DEF BackfillReplace, blocks
<1>7. CASE BackfillMark
  <2>1. /\ now' = now /\ changed' = changed /\ recorder' /\ pc = "mark"
        /\ day < today /\ day \in Day
    BY <1>0, <1>7, LocalDaysAssumption DEF BackfillMark, environment, IInv, SetupOrder, Day
  <2>2. CASE /\ mem' = [mem EXCEPT !.last_updated_day = day]
             /\ day' = NextDay
             /\ SaveAndGo("backfill")
             /\ UNCHANGED <<today, dirty, saving, lastFold, previous, exact>>
    <3>1. disk' = mem' /\ pc' = "backfill" /\ today' = today /\ day' = day + 1 /\ saving' = saving
      BY <2>2 DEF SaveAndGo, NextDay
    <3>2. /\ mem'.last_updated_day = day /\ mem'.last_ts = mem.last_ts
          /\ \A d \in Day : DaySecs(mem', d) = DaySecs(mem, d)
      BY <1>0, <2>2, DaySecsCells DEF Ledger
    <3>3. mem.last_updated_day < day /\ day \in Nat /\ mem.last_updated_day \in Int
      <4>1. day \in Nat /\ mem.last_updated_day \in Int
        BY <1>0, <2>1, MarkerType, LocalDaysAssumption DEF Day
      <4>2. mem.last_updated_day = NoDay \/ day = mem.last_updated_day + 1
        BY <2>1 DEF Accounting, BackfillPlace
      <4> QED
        BY <4>1, <4>2 DEF NoDay
    <3>4. AllWatched(mem', changed)
      <4> SUFFICES ASSUME NEW d \in Day, day < d PROVE Watched(mem', d, changed)
        BY <3>2 DEF AllWatched
      <4>1. mem.last_updated_day < d /\ ~(d <= day)
        BY <3>3, LocalDaysAssumption DEF Day
      <4>2. Watched(mem, d, changed)
        BY <2>1, <4>1 DEF Accounting, BackfillAhead
      <4> QED
        BY <3>2, <4>2 DEF Watched
    <3>5. Accounted(mem', now, changed)
      <4>1. \A d \in Day : DaySecs(mem', d) <= DayLength(d)
        BY <1>000, <3>2 DEF Accounted
      <4> QED
        BY <1>0, <1>00, <3>4, <4>1, WatchedAccounted
    <3>6. BackfillPlace' /\ BackfillAhead'
      BY <2>1, <3>1, <3>2, <3>4, LocalDaysAssumption
         DEF BackfillPlace, BackfillAhead, AllWatched, NoDay, Day
    <3> QED
      BY <1>0, <1>000, <2>1, <3>1, <3>5, <3>6 DEF Accounting
  <2>3. CASE SetupFails
    BY <1>0, <1>n, <1>b, <2>1, <2>3 DEF SetupFails
  <2> QED
    BY <1>7, <2>2, <2>3 DEF BackfillMark
<1>8. CASE BackfillDone
  <2>1. /\ now' = now /\ changed' = changed /\ recorder' /\ pc = "backfill" /\ pc' = "refresh"
        /\ mem' = mem /\ disk' = disk /\ saving' = saving /\ ~(day < today)
    BY <1>0, <1>8 DEF BackfillDone, environment, Pending
  <2>2. AllWatched(mem, changed)
    <3> SUFFICES ASSUME NEW d \in Day, mem.last_updated_day < d, ~Watched(mem, d, changed)
                 PROVE  FALSE
      BY DEF AllWatched
    <3>1. d <= day /\ d < today /\ (mem.last_updated_day = NoDay => KeepDays > 0)
      BY <2>1 DEF Accounting, BackfillAhead
    <3>2. /\ d \in Nat /\ day \in Nat /\ today \in Nat /\ KeepDays \in Nat
          /\ mem.last_updated_day \in Int
      BY <1>0, MarkerType, LocalDaysAssumption, TrackerAssumption DEF Day
    <3>3. CASE mem.last_updated_day = NoDay
      BY <2>1, <3>1, <3>2, <3>3 DEF Accounting, BackfillPlace, Later
    <3>4. CASE mem.last_updated_day # NoDay
      BY <2>1, <3>1, <3>2, <3>4 DEF Accounting, BackfillPlace
    <3> QED
      BY <3>3, <3>4
  <2> QED
    BY <1>0, <1>000, <2>1, <2>2 DEF Accounting, BackfillPlace, BackfillAhead
<1>9. CASE FirstRefresh
  <2>1. /\ now' = now /\ changed' = changed /\ recorder' /\ pc' = "wait" /\ saving' = saving
        /\ mem' = Pruned(mem) /\ disk' \in {mem', disk} /\ AllWatched(mem, changed)
    BY <1>0, <1>000, <1>9 DEF FirstRefresh, environment
  <2>2. Accounted(mem', now, changed) /\ AllWatched(mem', changed)
    BY <1>0, <1>000, <2>1, PrunedAccounted
  <2> QED
    BY <1>0, <1>000, <2>1, <2>2 DEF Accounting, BackfillPlace, BackfillAhead
<1>10. CASE Subscribe
  <2>1. /\ now' = now /\ changed' = changed /\ recorder' /\ pc' = "live" /\ saving' = saving
        /\ disk' = disk /\ AllWatched(mem, changed)
    BY <1>0, <1>000, <1>10 DEF Subscribe, environment
  <2>2. CASE mem' = mem
    BY <1>0, <1>000, <2>1, <2>2 DEF Accounting, BackfillPlace, BackfillAhead
  <2>3. CASE mem' = [mem EXCEPT !.last_state = line[now], !.last_ts = now]
    <3>1. /\ mem'.last_ts = now /\ mem'.last_updated_day = mem.last_updated_day
          /\ \A d \in Day : DaySecs(mem', d) = DaySecs(mem, d)
      BY <1>0, <2>3, DaySecsCells DEF Ledger
    <3> DEFINE before == Earlier(mem.last_ts, changed)
    <3>2. before \in Time /\ before <= changed /\ Earlier(now, changed) = changed
      BY <1>0, LocalDaysAssumption DEF Earlier, Time, Ledger
    <3>3. AllWatched(mem', changed)
      <4> SUFFICES ASSUME NEW d \in Day, mem.last_updated_day < d
                   PROVE  DaySecs(mem, d) <= Elapsed(changed, d)
        BY <3>1, <3>2 DEF AllWatched, Watched
      <4>1. DaySecs(mem, d) <= Elapsed(before, d)
        BY <2>1 DEF AllWatched, Watched
      <4> HIDE DEF before
      <4>2. /\ Elapsed(before, d) <= Elapsed(changed, d)
            /\ Elapsed(before, d) \in Nat /\ Elapsed(changed, d) \in Nat
        BY <1>0, <3>2, ElapsedBounds, ElapsedType
      <4>3. DaySecs(mem, d) \in Nat
        BY <1>0, DaySecsType
      <4> QED
        BY <4>1, <4>2, <4>3
    <3>4. Accounted(mem', now, changed)
      <4>1. \A d \in Day : DaySecs(mem', d) <= DayLength(d)
        BY <1>000, <3>1 DEF Accounted
      <4> QED
        BY <1>0, <1>00, <3>3, <4>1, WatchedAccounted
    <3> QED
      BY <1>0, <1>000, <2>1, <3>3, <3>4 DEF Accounting, BackfillPlace, BackfillAhead
  <2> QED
    BY <1>10, <2>2, <2>3 DEF Subscribe
<1>11. CASE Poll
  <2>1. /\ now' = now /\ changed' = changed /\ recorder' /\ pc' = pc /\ pc \in {"wait", "live"}
        /\ mem' = Pruned(mem) /\ saving' \in {mem', NoSave} /\ disk' = disk
        /\ AllWatched(mem, changed)
    BY <1>0, <1>000, <1>11 DEF Poll, environment, SetUp, Flushed
  <2>2. Accounted(mem', now, changed) /\ AllWatched(mem', changed)
    BY <1>0, <1>000, <2>1, PrunedAccounted
  <2> QED
    BY <1>0, <1>000, <2>1, <2>2 DEF Accounting, BackfillPlace, BackfillAhead
<1>12. CASE FlushDone
  BY <1>0, <1>000, <1>12
     DEF FlushDone, environment, backfill, Accounting, BackfillPlace, BackfillAhead
<1>13. CASE FlushFails
  BY <1>0, <1>000, <1>13
     DEF FlushFails, environment, backfill, Accounting, BackfillPlace, BackfillAhead
<1>14. CASE Unload
  <2>1. /\ Dropped /\ now' = now /\ changed' = changed /\ recorder'
        /\ disk' \in {mem, disk} /\ pc' \in {"absent", "failed_unload"}
    BY <1>0, <1>14 DEF Unload, environment
  <2> QED
    BY <1>0, <1>n, <1>b, <2>1
<1>15. CASE Stop
  <2>1. /\ Dropped /\ now' = now /\ changed' = now /\ recorder'
        /\ disk' \in {mem, disk} /\ pc' = "absent"
    BY <1>0, <1>15 DEF Stop
  <2> QED
    BY <1>0, <1>n, <1>b, <2>1
<1>16. CASE Crash
  <2>1. /\ Dropped /\ now' = now /\ changed' = now /\ recorder' /\ disk' = disk /\ pc' = "absent"
    BY <1>0, <1>16 DEF Crash
  <2> QED
    BY <1>0, <1>n, <1>b, <2>1
<1>17. CASE Boot
  <2>1. Untouched /\ recorder' /\ now' = now /\ changed' = now
    BY <1>0, <1>17 DEF Boot, backfill, PlainSetting
  <2> QED
    BY <1>0, <1>n, <1>a, <2>1
<1>18. CASE UNCHANGED vars
  BY <1>0, <1>18, <1>n, <1>a DEF vars
<1> QED
  BY <1>1, <1>2, <1>3, <1>4, <1>5, <1>6, <1>7, <1>8, <1>9, <1>10, <1>11, <1>12,
     <1>13, <1>14, <1>15, <1>16, <1>17, <1>18 DEF Next, SetupRuns
-----------------------------------------------------------------------------
(* The theorem.                                                            *)

(* No day of the ledger, in memory or on disk, ever holds more seconds     *)
(* than the day lasts: whatever is folded, backfilled, saved or not saved, *)
(* lost, corrupted and restored, no instant is counted twice.              *)
THEOREM NoDayOverfull == PlainSetting /\ Spec => []DayNeverOverfull
<1>1. Accounting => DayNeverOverfull
  BY DEF Accounting, Accounted, DayNeverOverfull
<1> SUFFICES ASSUME PlainSetting PROVE Spec => []DayNeverOverfull
  OBVIOUS
<1>2. Init => Accounting
  BY InitAccounting
<1>3. IInv /\ Accounting /\ [Next]_vars => Accounting'
  BY NextAccounting
<1> QED
  BY <1>1, <1>2, <1>3, Invariance, PTL DEF Spec
-----------------------------------------------------------------------------
(***************************************************************************)
(* What the tracker's buckets say is what the recorder would say: a day    *)
(* the backfill wrote, or rebuilt after an edit of the threshold, is the   *)
(* day its rows describe, and a closed day that was only ever folded live  *)
(* is the day a backfill would write.                                      *)
(***************************************************************************)

(* What a backfill computes depends on the days' rows alone.               *)

\* Two timelines are the same before instant e.
SameBefore(f, g, e) == \A t \in Time : t < e => f[t] = g[t]

(* The rows of a window lie in it, and two timelines that are the same to  *)
(* its end have the same rows.                                             *)
LEMMA RowsAgree ==
    ASSUME NEW f, NEW g, NEW a \in Nat, NEW e \in Time, SameBefore(f, g, e)
    PROVE  RowsOf(f, a, e) = RowsOf(g, a, e)
<1>1. \A t \in a..(e - 1) : t \in Time /\ t < e /\ (t # a => t - 1 \in Time /\ t - 1 < e)
  BY LocalDaysAssumption DEF Time
<1> QED
  BY <1>1 DEF RowsOf, SameBefore

(* What is shown of them, "unavailable" at the end of the window replaced. *)
LEMMA CarryForwardAgrees ==
    ASSUME NEW f \in [Time -> Names \cup {NoState}], NEW g \in [Time -> Names \cup {NoState}],
           NEW a \in Nat, NEW e \in Time, SameBefore(f, g, e)
    PROVE  SameBefore(CarryForward(f, a, e), CarryForward(g, a, e), e)
<1> DEFINE rows == RowsOf(f, a, e)
           last == Max(rows)
<1>1. RowsOf(g, a, e) = rows /\ rows \subseteq a..(e - 1)
  BY RowsAgree DEF RowsOf
<1>2. e \in Nat /\ Time = 0..MaxTime /\ MaxTime \in Nat
  BY LocalDaysAssumption DEF Time
<1>3. CASE Cardinality(rows) > 1
  <2>1. last \in rows /\ \A y \in rows : y <= last
    <3>1. rows \subseteq 0..e
      BY <1>1, <1>2
    <3>2. rows # {}
      BY <1>3, FS_EmptySet
    <3> HIDE DEF rows
    <3> QED
      BY <1>2, <3>1, <3>2, MaxMember
  <2>2. last # a
    <3> SUFFICES ASSUME last = a PROVE FALSE
      OBVIOUS
    <3>1. \A y \in rows : y = a
      <4>1. \A y \in rows : y \in Nat /\ a <= y /\ y <= a
        BY <1>1, <1>2, <2>1
      <4> QED
        BY <4>1
    <3>2. rows = {a}
      BY <2>1, <3>1
    <3> HIDE DEF rows, last
    <3>3. Cardinality(rows) = 1
      BY <3>2, FS_Singleton
    <3> QED
      BY <1>3, <3>3
  <2> HIDE DEF last
  <2>3. last \in Time /\ last < e /\ last - 1 \in Time /\ last - 1 < e
    BY <1>1, <1>2, <2>1, <2>2
  <2>4. f[last] = g[last] /\ f[last - 1] = g[last - 1]
    BY <2>3 DEF SameBefore
  <2>5. CarryForward(f, a, e) = IF f[last] = Unavailable
            THEN [t \in Time |-> IF t \in last..(e - 1) THEN f[last - 1] ELSE f[t]] ELSE f
    BY <1>3 DEF CarryForward, last
  <2>6. CarryForward(g, a, e) = IF g[last] = Unavailable
            THEN [t \in Time |-> IF t \in last..(e - 1) THEN g[last - 1] ELSE g[t]] ELSE g
    BY <1>1, <1>3 DEF CarryForward, last
  <2> QED
    BY <2>4, <2>5, <2>6 DEF SameBefore
<1>4. CASE ~(Cardinality(rows) > 1)
  BY <1>1, <1>4 DEF CarryForward
<1> QED
  BY <1>3, <1>4

(* The blocks of a window.                                                 *)
LEMMA BlocksAgree ==
    ASSUME NEW f, NEW g, NEW a \in Nat, NEW e \in Time, NEW dur, a < e, SameBefore(f, g, e)
    PROVE  Blocks(f, a, e, dur) = Blocks(g, a, e, dur)
<1> DEFINE kept == Survivors(f, a, e, dur)
<1>1. RowsOf(g, a, e) = RowsOf(f, a, e)
  BY RowsAgree
<1>2. Survivors(g, a, e, dur) = kept /\ kept \subseteq a..(e - 1)
  BY <1>1 DEF Survivors, RowsOf
<1>3. e \in Nat /\ Time = 0..MaxTime /\ MaxTime \in Nat
  BY LocalDaysAssumption DEF Time
<1> HIDE DEF kept
<1>4. \A k \in kept : k \in Time /\ f[k] = g[k]
  <2>1. \A k \in kept : k \in Time /\ k < e
    BY <1>2, <1>3
  <2> QED
    BY <2>1 DEF SameBefore
<1>5. \A t : GivenTo(f, kept, t) = GivenTo(g, kept, t)
  <2> TAKE t
  <2> DEFINE begun == {k \in kept : k <= t}
  <2>1. CASE begun = {}
    BY <2>1 DEF GivenTo
  <2>2. CASE begun # {}
    <3>a. kept \subseteq 0..e
      BY <1>2, <1>3
    <3>1. begun \subseteq 0..e /\ begun \subseteq kept
      BY <3>a
    <3>2. Max(begun) \in begun
      <4> HIDE DEF begun
      <4> QED
        BY <1>3, <2>2, <3>1, MaxMember
    <3>3. f[Max(begun)] = g[Max(begun)]
      <4> HIDE DEF begun
      <4> QED
        BY <1>4, <3>1, <3>2
    <3> QED
      BY <2>2, <3>3 DEF GivenTo
  <2> QED
    BY <2>1, <2>2
<1>6. (a > 0 /\ f[a - 1] = f[a]) = (a > 0 /\ g[a - 1] = g[a])
  <2>1. a \in Time /\ a < e /\ (a > 0 => a - 1 \in Time /\ a - 1 < e)
    BY <1>3
  <2> QED
    BY <2>1 DEF SameBefore
<1> QED
  BY <1>2, <1>4, <1>5, <1>6 DEF Blocks, kept

(* And what a backfill writes on a day that is over.                       *)
LEMMA BackfillBlocksAgree ==
    ASSUME NEW f \in [Time -> Names \cup {NoState}], NEW g \in [Time -> Names \cup {NoState}],
           NEW d \in Day, NEW dur, Midnight[d + 1] \in Time, SameBefore(f, g, Midnight[d + 1])
    PROVE  BackfillBlocks(f, d, dur) = BackfillBlocks(g, d, dur)
<1> DEFINE a == Midnight[d]
           e == Midnight[d + 1]
<1>1. a \in Nat /\ e \in Time /\ a < e
  BY MidnightNat, LocalDaysAssumption DEF Day
<1>2. SameBefore(CarryForward(f, a, e), CarryForward(g, a, e), e)
  BY <1>1, CarryForwardAgrees
<1> HIDE DEF a, e
<1>3. Blocks(CarryForward(f, a, e), a, e, dur) = Blocks(CarryForward(g, a, e), a, e, dur)
  BY <1>1, <1>2, BlocksAgree
<1> QED
  BY <1>3 DEF BackfillBlocks, a, e
-----------------------------------------------------------------------------
(* Closed days of a ledger and the recorder.                               *)

\* Day d of ledger L holds what timeline f tells of it with the threshold the
\* ledger was built with, if f tells anything.
Tells(L, d, f) ==
    LET blocks == BackfillBlocks(f, d, L.built)
    IN  blocks # EmptyDay => L.daily[d] = blocks

\* So do all days of L that are marked and not to be pruned at t.
RebuiltIn(L, t, f) ==
    \A d \in Day : Cutoff(t) <= d /\ d <= L.last_updated_day => Tells(L, d, f)

(* A day that is over ends at an instant of the past.                      *)
LEMMA ClosedDay ==
    ASSUME NEW t \in Time, NEW d \in Day, d < DayOf(t)
    PROVE  Midnight[d + 1] \in Time /\ Midnight[d + 1] <= t /\ Midnight[d] < Midnight[d + 1]
<1>1. DayOf(t) \in Day /\ Midnight[DayOf(t)] <= t
  BY DayOfInstant
<1>2. /\ d + 1 \in 0..(LastDay + 1) /\ DayOf(t) \in 0..(LastDay + 1) /\ d \in 0..(LastDay + 1)
      /\ d + 1 <= DayOf(t) /\ d < d + 1
  BY <1>1, LocalDaysAssumption DEF Day
<1>3. Midnight[d + 1] <= Midnight[DayOf(t)] /\ Midnight[d] < Midnight[d + 1]
  BY <1>2, MidnightMonotone, LocalDaysAssumption
<1>4. Midnight[d + 1] \in Nat /\ Midnight[DayOf(t)] \in Nat
  BY <1>2, MidnightNat
<1> QED
  BY <1>1, <1>3, <1>4, LocalDaysAssumption DEF Time

(* Rows of the future do not change what the recorder tells of the past.   *)
LEMMA RebuiltLater ==
    ASSUME NEW L \in Ledger, NEW t \in Time, NEW u \in Time, t <= u,
           NEW f \in [Time -> Names \cup {NoState}], NEW g \in [Time -> Names \cup {NoState}],
           SameBefore(f, g, t), L.last_updated_day < DayOf(t), RebuiltIn(L, t, f)
    PROVE  RebuiltIn(L, u, g)
<1> SUFFICES ASSUME NEW d \in Day, Cutoff(u) <= d, d <= L.last_updated_day
             PROVE  Tells(L, d, g)
  BY DEF RebuiltIn
<1>1. Cutoff(t) <= Cutoff(u) /\ Cutoff(t) \in Day /\ Cutoff(u) \in Day /\ DayOf(t) \in Day
  BY CutoffMonotone, CutoffDay, DayOfInstant
<1>2. Cutoff(t) <= d /\ d < DayOf(t)
  BY <1>1, MarkerType DEF Day
<1>3. Midnight[d + 1] \in Time /\ Midnight[d + 1] <= t
  BY <1>2, ClosedDay
<1>4. SameBefore(f, g, Midnight[d + 1])
  BY <1>3 DEF SameBefore, Time
<1>5. BackfillBlocks(f, d, L.built) = BackfillBlocks(g, d, L.built)
  BY <1>3, <1>4, BackfillBlocksAgree
<1>6. Tells(L, d, f)
  BY <1>2 DEF RebuiltIn
<1> QED
  BY <1>5, <1>6 DEF Tells

(* Nor does what happens to other days of the ledger.                      *)
LEMMA RebuiltSame ==
    ASSUME NEW L, NEW M, NEW t, NEW f, RebuiltIn(L, t, f),
           M.last_updated_day = L.last_updated_day, M.built = L.built,
           \A d \in Day : Cutoff(t) <= d /\ d <= L.last_updated_day => M.daily[d] = L.daily[d]
    PROVE  RebuiltIn(M, t, f)
  BY DEF RebuiltIn, Tells

(* A ledger that marks no day has nothing to hold.                         *)
LEMMA RebuiltUnmarked ==
    ASSUME NEW L, NEW t, NEW f, L.last_updated_day = NoDay
    PROVE  RebuiltIn(L, t, f)
  BY DEF RebuiltIn, NoDay, Day

\* The recorder lags behind by one instant at most.
Lagging == committed <= now /\ now <= committed + 1

(* So it goes on, and no row before now is ever lost or rewritten.         *)
LEMMA PastStays ==
    ASSUME MaxLag <= 1, IInv, Lagging, [Next]_vars
    PROVE  Lagging' /\ now <= now' /\ SameBefore(line, line', now)
<1>0. /\ now \in Nat /\ committed \in Nat /\ MaxLag \in Nat /\ now \in Time
      /\ line \in [Time -> Names \cup {NoState}] /\ committed \in Time
  BY TrackerAssumption, LocalDaysAssumption DEF IInv, TypeOK, Time
<1>1. CASE Tick
  <2>1. now' = now + 1 /\ line' = [line EXCEPT ![now + 1] = line[now]]
    BY <1>1 DEF Tick
  <2>2. committed' = IF up THEN Later(committed, now + 1 - MaxLag) ELSE now + 1
    BY <1>1 DEF Tick
  <2>3. Lagging'
    BY <1>0, <2>1, <2>2 DEF Lagging, Later
  <2>4. SameBefore(line, line', now)
    BY <1>0, <2>1 DEF SameBefore, Time
  <2> QED
    BY <1>0, <2>1, <2>3, <2>4
<1>2. CASE Commit
  BY <1>0, <1>2 DEF Commit, Lagging, SameBefore
<1>3. ASSUME NEW s \in Live, Transition(s)
      PROVE  Lagging' /\ now <= now' /\ SameBefore(line, line', now)
  <2>1. /\ now' = now /\ line' = [line EXCEPT ![now] = s] /\ now > 0
        /\ committed' = IF MaxLag = 0 THEN now ELSE Earlier(committed, now - 1)
    BY <1>3 DEF Transition, FreshInstant
  <2>2. Lagging'
    BY <1>0, <2>1 DEF Lagging, Earlier
  <2>3. SameBefore(line, line', now)
    BY <1>0, <2>1 DEF SameBefore
  <2> QED
    BY <1>0, <2>1, <2>2, <2>3
<1>4. CASE AttributeUpdate \/ Load \/ SetupRuns \/ Poll \/ FlushDone \/ FlushFails \/ Unload
  <2>1. UNCHANGED environment
    BY <1>4 DEF AttributeUpdate, Load, SetupRuns, BackfillReplace, BackfillMark, BackfillDone,
       FirstRefresh, Subscribe, Poll, FlushDone, FlushFails, Unload
  <2> QED
    BY <1>0, <2>1 DEF environment, Lagging, SameBefore
<1>5. CASE Stop
  <2>1. now' = now /\ committed' = now /\ \A t \in Time : t # now => line'[t] = line[t]
    BY <1>0, <1>5 DEF Stop
  <2> QED
    BY <1>0, <2>1 DEF Lagging, SameBefore
<1>6. CASE Crash
  <2>1. /\ now' = now /\ committed' = now
        /\ line' = [t \in Time |-> IF t \in committed..now THEN line[committed] ELSE line[t]]
    BY <1>6 DEF Crash
  <2>2. \A t \in Time : t < now => line'[t] = line[t]
    BY <1>0, <2>1 DEF Lagging, Time
  <2> QED
    BY <1>0, <2>1, <2>2 DEF Lagging, SameBefore
<1>7. CASE Boot
  <2>1. now' = now /\ committed' = now /\ \A t \in Time : t # now => line'[t] = line[t]
    BY <1>0, <1>7 DEF Boot
  <2> QED
    BY <1>0, <2>1 DEF Lagging, SameBefore
<1>8. CASE UNCHANGED vars
  BY <1>0, <1>8 DEF vars, Lagging, SameBefore
<1> QED
  BY <1>1, <1>2, <1>3, <1>4, <1>5, <1>6, <1>7, <1>8 DEF Next
-----------------------------------------------------------------------------
(* Every marked day is rebuilt.                                            *)

\* A ledger of which no threshold is known was not backfilled.
Built(L) == L.built = NoBuilt => L.last_updated_day = NoDay

\* What holds of every ledger, in memory, on disk, or on its way there.
Rebuilt(L) == RebuiltIn(L, now, line) /\ Built(L)

Rebuilding ==
    /\ Lagging
    /\ Rebuilt(mem)
    /\ Rebuilt(disk)
    /\ saving # NoSave => Rebuilt(saving)
    /\ Held => mem.built = minDur
    /\ BackfillPlace
    /\ pc = "mark" => Tells(mem, day, line)

(* It holds at the start.                                                  *)
LEMMA InitRebuilding == Init => Rebuilding
<1> SUFFICES ASSUME Init PROVE Rebuilding
  OBVIOUS
<1>1. Rebuilt(EmptyLedger)
  BY RebuiltUnmarked DEF Rebuilt, Built, EmptyLedger
<1> QED
  BY <1>1 DEF Init, Rebuilding, Lagging, Held, BackfillPlace

(* The backfill stays at the day after the marker.                         *)
LEMMA NextPlace == IInv /\ BackfillPlace /\ [Next]_vars => BackfillPlace'
<1> SUFFICES ASSUME IInv, BackfillPlace, [Next]_vars PROVE BackfillPlace'
  OBVIOUS
<1>0. mem \in Ledger /\ day \in 0..(LastDay + 1)
  BY DEF IInv, TypeOK
<1>1. CASE Tick \/ Commit \/ Boot \/ Poll \/ FlushDone \/ FlushFails
  BY <1>1 DEF Tick, Commit, Boot, Poll, FlushDone, FlushFails, backfill, BackfillPlace, SetUp
<1>2. ASSUME NEW s \in Live, Transition(s) PROVE BackfillPlace'
  <2>1. pc' = pc /\ day' = day /\ today' = today /\ (mem' = mem \/ pc = "live")
    BY <1>2 DEF Transition, backfill
  <2> QED
    BY <2>1 DEF BackfillPlace
<1>3. CASE AttributeUpdate \/ BackfillDone \/ FirstRefresh \/ Subscribe
  BY <1>3 DEF AttributeUpdate, BackfillDone, FirstRefresh, Subscribe, BackfillPlace
<1>4. CASE Load
  <2>1. today' = DayOf(now) /\ day' = IF mem'.last_updated_day = NoDay THEN Cutoff(now)
                                     ELSE mem'.last_updated_day + 1
    BY <1>4 DEF Load
  <2> QED
    BY <2>1 DEF BackfillPlace, Cutoff
<1>5. CASE BackfillReplace
  <2>1. CASE SetupFails
    BY <2>1 DEF SetupFails, BackfillPlace
  <2>2. CASE /\ day' = day /\ today' = today /\ pc = "backfill"
             /\ mem'.last_updated_day = mem.last_updated_day
    BY <2>2 DEF BackfillPlace
  <2> QED
    BY <1>0, <1>5, <2>1, <2>2 DEF BackfillReplace, ReplaceDay, Ledger, backfill
<1>6. CASE BackfillMark
  <2>1. CASE SetupFails
    BY <2>1 DEF SetupFails, BackfillPlace
  <2>2. CASE mem'.last_updated_day = day /\ day' = day + 1
    BY <1>0, <2>2 DEF BackfillPlace, NoDay
  <2> QED
    BY <1>0, <1>6, <2>1, <2>2 DEF BackfillMark, NextDay, Ledger
<1>7. CASE Unload \/ Stop \/ Crash
  BY <1>7 DEF Unload, Stop, Crash, BackfillPlace
<1>8. CASE UNCHANGED vars
  BY <1>8 DEF vars, backfill, BackfillPlace
<1> QED
  BY <1>1, <1>2, <1>3, <1>4, <1>5, <1>6, <1>7, <1>8 DEF Next, SetupRuns

(* What the backfill reads of a day that is over is what the recorder will *)
(* tell of it for ever.                                                    *)
LEMMA VisibleIsTold ==
    ASSUME IInv, Lagging, NEW d \in Day, d < DayOf(now), NEW dur
    PROVE  BackfillBlocks(Visible, d, dur) = BackfillBlocks(line, d, dur)
<1>1. /\ now \in Time /\ committed \in Time /\ line \in [Time -> Names \cup {NoState}]
      /\ now \in Nat /\ committed \in Nat /\ now <= MaxTime
  BY LocalDaysAssumption DEF IInv, TypeOK, Time
<1>2. Midnight[d + 1] \in Time /\ Midnight[d + 1] <= now
  BY <1>1, ClosedDay
<1>3. \A t \in Time : Earlier(t, committed) \in Time
  BY <1>1 DEF Earlier
<1>4. Visible \in [Time -> Names \cup {NoState}]
  BY <1>1, <1>3 DEF Visible
<1>5. SameBefore(Visible, line, Midnight[d + 1])
  BY <1>1, <1>2 DEF SameBefore, Visible, Earlier, Lagging, Time
<1> QED
  BY <1>1, <1>2, <1>4, <1>5, BackfillBlocksAgree

(* No step of Tracker breaks it, if the recorder lags by one instant at    *)
(* most.                                                                   *)
LEMMA NextRebuilding ==
    ASSUME MaxLag <= 1, IInv, BookInv, Rebuilding, [Next]_vars
    PROVE  Rebuilding'
<1>0. /\ now \in Time /\ mem \in Ledger /\ disk \in Ledger /\ saving \in Ledger \cup {NoSave}
      /\ line \in [Time -> Names \cup {NoState}] /\ today \in Day /\ day \in 0..(LastDay + 1)
      /\ minDur \in Thresholds /\ minDur # NoBuilt /\ DayOf(now) \in Day /\ today <= DayOf(now)
  BY DayOfInstant, TrackerAssumption DEF IInv, TypeOK, SetupOrder
<1>00. /\ now' \in Time /\ mem' \in Ledger /\ disk' \in Ledger
       /\ line' \in [Time -> Names \cup {NoState}]
  BY NextIInv DEF IInv, TypeOK
<1>b. Lagging' /\ now <= now' /\ SameBefore(line, line', now)
  BY PastStays DEF Rebuilding
<1>c. BackfillPlace' /\ BookInv'
  BY NextPlace, NextBookInv DEF Rebuilding
<1> DEFINE Still(L) == RebuiltIn(L, now', line') /\ Built(L)
(* The ledgers there are stay rebuilt as time and the entity go on.        *)
<1>d. Still(mem) /\ Still(disk) /\ (saving # NoSave => Still(saving))
  <2>1. \A L \in Ledger : L.last_updated_day < DayOf(now) /\ Rebuilt(L) => Still(L)
    BY <1>0, <1>00, <1>b, RebuiltLater DEF Rebuilt
  <2> QED
    BY <1>0, <2>1 DEF Rebuilding, IInv, MarkersPast, MarkerBeforeToday
<1>e. pc = "mark" => Tells(mem, day, line')
  <2> SUFFICES ASSUME pc = "mark" PROVE Tells(mem, day, line')
    OBVIOUS
  <2>1. day \in Day /\ day < DayOf(now)
    BY <1>0, LocalDaysAssumption DEF IInv, SetupOrder, Day
  <2>2. Midnight[day + 1] \in Time /\ Midnight[day + 1] <= now
    BY <1>0, <2>1, ClosedDay
  <2>3. SameBefore(line, line', Midnight[day + 1])
    BY <1>0, <1>b, <2>2 DEF SameBefore, Time
  <2>4. BackfillBlocks(line, day, mem.built) = BackfillBlocks(line', day, mem.built)
    BY <1>0, <1>00, <2>1, <2>2, <2>3, BackfillBlocksAgree
  <2> QED
    BY <2>4 DEF Rebuilding, Tells
(* A step that leaves the ledgers, but for what their marked days do not   *)
(* depend on.                                                              *)
<1>f. ASSUME mem' = mem \/ Still(mem'), Held' => mem'.built = minDur',
             disk' \in {disk, mem'} \/ Still(disk'),
             saving' \in {saving, mem', NoSave},
             pc' = "mark" => pc = "mark" /\ mem' = mem /\ day' = day
      PROVE  Rebuilding'
  <2>1. Still(mem')
    BY <1>d, <1>f
  <2>2. Still(disk')
    BY <1>d, <1>f, <2>1
  <2>3. saving' # NoSave => Still(saving')
    BY <1>d, <1>f, <2>1
  <2> QED
    BY <1>b, <1>c, <1>e, <1>f, <2>1, <2>2, <2>3 DEF Rebuilding, Rebuilt
<1>g. ASSUME Dropped PROVE Still(mem')
  BY <1>g, RebuiltUnmarked DEF Dropped, Built, EmptyLedger
<1>1. CASE Tick \/ Commit \/ Boot
  BY <1>1, <1>f DEF Tick, Commit, Boot, config, backfill, Rebuilding, Held
<1>2. ASSUME NEW s \in Names, NEW at \in Time, HandleStateChange(s, at), pc = "live"
      PROVE  Still(mem') /\ mem'.built = mem.built
  <2>1. mem'.last_updated_day = mem.last_updated_day /\ mem'.built = mem.built
    BY <1>0, <1>2, HandleStateChangeType DEF HandleStateChange, Ledger
  <2>2. \A d \in Day : d <= mem.last_updated_day => mem'.daily[d] = mem.daily[d]
    BY <1>2, HandleStateChangeFrozen
  <2> QED
    BY <1>d, <2>1, <2>2, RebuiltSame DEF Built
<1>3. ASSUME NEW s \in Live, Transition(s) PROVE Rebuilding'
  <2>1. /\ pc' = pc /\ disk' = disk /\ saving' = saving /\ minDur' = minDur /\ day' = day
        /\ s \in Names
    BY <1>3, TrackerAssumption DEF Transition, backfill, config
  <2>2. CASE pc = "live" /\ HandleStateChange(s, now)
    BY <1>0, <1>2, <1>f, <2>1, <2>2 DEF Rebuilding, Held
  <2>3. CASE mem' = mem
    BY <1>f, <2>1, <2>3 DEF Rebuilding, Held
  <2> QED
    BY <1>3, <2>2, <2>3 DEF Transition
<1>4. CASE AttributeUpdate
  <2>1. line[now] \in Names /\ changed \in Time
    BY <1>0, <1>4 DEF AttributeUpdate, IInv, TypeOK
  <2> QED
    BY <1>2, <1>4, <1>f, <2>1 DEF AttributeUpdate, environment, backfill, config, Rebuilding, Held
<1>5. CASE Load
  <2> PICK L \in {disk} \cup (IF DiskMayFail THEN {EmptyLedger} ELSE {}) :
        disk' = L /\ mem' = Reconciled(L)
    BY <1>5 DEF Load
  <2>1. Still(L) /\ L \in Ledger
    BY <1>0, <1>d, EmptyLedgerType, RebuiltUnmarked DEF Built, EmptyLedger
  <2>2. pc' = "backfill" /\ saving' = saving /\ minDur' = minDur
    BY <1>5 DEF Load
  <2>3. mem'.built = minDur
    BY <2>1 DEF Reconciled, Ledger
  <2>4. Still(mem')
    <3>1. CASE L.built = minDur
      <4>1. mem'.last_updated_day = L.last_updated_day /\ mem'.daily = L.daily
        BY <2>1, <3>1 DEF Reconciled, Ledger
      <4> QED
        BY <1>0, <2>1, <2>3, <3>1, <4>1, RebuiltSame DEF Built
    <3>2. CASE L.built # minDur
      <4>1. mem'.last_updated_day = NoDay
        BY <2>1, <3>2 DEF Reconciled, Ledger, Built
      <4> QED
        BY <4>1, RebuiltUnmarked DEF Built
    <3> QED
      BY <3>1, <3>2
  <2> QED
    BY <1>f, <2>1, <2>2, <2>3, <2>4
<1>6. CASE BackfillReplace
  <2> DEFINE blocks == BackfillBlocks(Visible, day, minDur)
  <2>1. /\ day \in Day /\ day < DayOf(now) /\ pc = "backfill" /\ minDur' = minDur
        /\ now' = now /\ line' = line /\ mem.built = minDur
    <3>1. pc = "backfill" /\ day < today /\ minDur' = minDur /\ now' = now /\ line' = line
      BY <1>6 DEF BackfillReplace, Pending, environment, config
    <3>2. day \in Day /\ day < DayOf(now)
      BY <1>0, <3>1, LocalDaysAssumption DEF Day
    <3> QED
      BY <3>1, <3>2 DEF Rebuilding, Held
  <2>2. blocks = BackfillBlocks(line, day, minDur)
    BY <2>1, VisibleIsTold DEF Rebuilding
  <2>3. CASE blocks = EmptyDay /\ pc' = "mark"
             /\ UNCHANGED <<disk, backfill, mem, dirty, saving, lastFold, previous, exact>>
    <3>1. Tells(mem, day, line)
      BY <2>1, <2>2, <2>3 DEF Tells
    <3> QED
      BY <1>b, <1>c, <1>d, <2>1, <2>3, <3>1 DEF Rebuilding, Rebuilt, backfill
  <2>4. CASE /\ mem' = ReplaceDay(mem, day, blocks)
             /\ SaveAndGo("mark")
             /\ UNCHANGED <<backfill, dirty, saving, lastFold, previous, exact>>
    <3> HIDE DEF blocks
    <3>1. /\ mem'.last_updated_day = mem.last_updated_day /\ mem'.built = mem.built
          /\ mem'.daily[day] = blocks
          /\ \A d \in Day : d # day => mem'.daily[d] = mem.daily[d]
      BY <1>0, <2>1, <2>4 DEF ReplaceDay, Ledger
    <3>2. Tells(mem', day, line)
      BY <2>1, <2>2, <3>1 DEF Tells
    <3>3. mem.last_updated_day = NoDay \/ day = mem.last_updated_day + 1
      BY <2>1 DEF Rebuilding, BackfillPlace
    <3>4. \A d \in Day : d <= mem.last_updated_day => d # day
      BY <1>0, <2>1, <3>3, MarkerType DEF NoDay, Day
    <3>5. Still(mem')
      BY <1>d, <3>1, <3>4, RebuiltSame DEF Built
    <3>6. disk' = mem' /\ pc' = "mark" /\ saving' = saving /\ day' = day
      BY <2>4 DEF SaveAndGo, backfill
    <3> QED
      BY <1>b, <1>c, <1>d, <2>1, <3>1, <3>2, <3>5, <3>6 DEF Rebuilding, Rebuilt
  <2>5. CASE SetupFails
    BY <1>f, <1>g, <2>5 DEF SetupFails, Dropped, Held
  <2> HIDE DEF blocks
  <2> QED
    BY <1>6, <2>3, <2>4, <2>5 DEF BackfillReplace, blocks
<1>7. CASE BackfillMark
  <2>1. pc = "mark" /\ minDur' = minDur /\ now' = now /\ line' = line /\ day \in Day
    BY <1>0, <1>7, LocalDaysAssumption DEF BackfillMark, environment, config, IInv, SetupOrder, Day
  <2>2. CASE mem' = [mem EXCEPT !.last_updated_day = day] /\ SaveAndGo("backfill")
             /\ UNCHANGED saving
    <3>1. /\ mem'.last_updated_day = day /\ mem'.built = mem.built /\ mem'.daily = mem.daily
          /\ mem.built = minDur /\ minDur # NoBuilt
      BY <1>0, <2>1, <2>2 DEF Ledger, Rebuilding, Held
    <3>2. RebuiltIn(mem', now, line)
      <4> SUFFICES ASSUME NEW d \in Day, Cutoff(now) <= d, d <= day PROVE Tells(mem', d, line)
        BY <3>1 DEF RebuiltIn
      <4>1. CASE d = day
        BY <2>1, <3>1, <4>1 DEF Rebuilding, Tells
      <4>2. CASE d # day /\ mem.last_updated_day # NoDay
        <5>1. d <= mem.last_updated_day
          BY <1>0, <2>1, <4>2, MarkerType DEF Rebuilding, BackfillPlace, Day
        <5> QED
          BY <3>1, <5>1 DEF Rebuilding, Rebuilt, RebuiltIn, Tells
      <4>3. CASE d # day /\ mem.last_updated_day = NoDay
        <5>1. day = Later(0, today - KeepDays) /\ Cutoff(now) = Later(0, DayOf(now) - KeepDays)
          BY <2>1, <4>3 DEF Rebuilding, BackfillPlace, Cutoff
        <5>2. day <= Cutoff(now)
          <6>1. today \in Day /\ DayOf(now) \in Day /\ today <= DayOf(now)
            BY <1>0
          <6> QED
            BY <5>1, <6>1, DayIsInt, LaterMonotone
        <5> QED
          BY <1>0, <2>1, <4>3, <5>2, CutoffDay, LocalDaysAssumption DEF Day
      <4> QED
        BY <4>1, <4>2, <4>3
    <3>3. Still(mem') /\ Still(disk') /\ pc' = "backfill"
      BY <2>1, <2>2, <3>1, <3>2 DEF Built, SaveAndGo
    <3> QED
      BY <1>f, <2>1, <2>2, <3>1, <3>3
  <2>3. CASE SetupFails
    BY <1>f, <1>g, <1>7, <2>3 DEF BackfillMark, SetupFails, Dropped, Held
  <2> QED
    BY <1>7, <2>2, <2>3 DEF BackfillMark
<1>8. CASE BackfillDone
  BY <1>8, <1>f DEF BackfillDone, config, Rebuilding, Held
<1>9. ASSUME mem' = Pruned(mem), now' = now, line' = line
      PROVE  Still(mem') /\ mem'.built = mem.built
  <2>1. /\ mem'.last_updated_day = mem.last_updated_day /\ mem'.built = mem.built
        /\ \A d \in Day : mem'.daily[d] = IF d < Cutoff(now) THEN EmptyDay ELSE mem.daily[d]
    BY <1>0, <1>9 DEF Pruned, Ledger
  <2>2. \A d \in Day : Cutoff(now) <= d => ~(d < Cutoff(now))
    BY <1>0, CutoffDay DEF Day
  <2> QED
    BY <1>9, <1>d, <2>1, <2>2, RebuiltSame DEF Built
<1>10. CASE FirstRefresh
  <2>1. Still(mem') /\ mem'.built = mem.built
    BY <1>10, <1>9 DEF FirstRefresh, environment
  <2> QED
    BY <1>10, <1>f, <2>1 DEF FirstRefresh, config, Rebuilding, Held
<1>11. CASE Subscribe
  <2>1. /\ mem'.last_updated_day = mem.last_updated_day /\ mem'.built = mem.built
        /\ mem'.daily = mem.daily
    BY <1>0, <1>11 DEF Subscribe, Ledger
  <2>2. Still(mem')
    BY <1>d, <2>1, RebuiltSame DEF Built
  <2> QED
    BY <1>11, <1>f, <2>1, <2>2 DEF Subscribe, config, Rebuilding, Held
<1>12. CASE Poll
  <2>1. Still(mem') /\ mem'.built = mem.built
    BY <1>12, <1>9 DEF Poll, environment
  <2> QED
    BY <1>12, <1>f, <2>1 DEF Poll, Flushed, SetUp, config, backfill, Rebuilding, Held
<1>13. CASE FlushDone \/ FlushFails
  BY <1>13, <1>d, <1>f DEF FlushDone, FlushFails, config, backfill, Rebuilding, Held
<1>14. CASE Unload
  <2>1. Still(disk')
    BY <1>14, <1>d DEF Unload
  <2>2. pc' \in {"absent", "failed_unload"} /\ Dropped
    BY <1>14 DEF Unload
  <2> QED
    BY <1>f, <1>g, <2>1, <2>2 DEF Dropped, Held
<1>15. CASE Stop
  <2>1. disk' \in {mem, disk} /\ pc' = "absent" /\ Dropped
    BY <1>15 DEF Stop
  <2> QED
    BY <1>d, <1>f, <1>g, <2>1 DEF Dropped, Held
<1>16. CASE Crash
  BY <1>16, <1>f, <1>g DEF Crash, Dropped, Held
<1>17. CASE UNCHANGED vars
  BY <1>17, <1>f DEF vars, config, backfill, Rebuilding, Held
<1> QED
  BY <1>1, <1>3, <1>4, <1>5, <1>6, <1>7, <1>8, <1>10, <1>11, <1>12, <1>13, <1>14, <1>15,
     <1>16, <1>17 DEF Next, SetupRuns

(* Every closed day that the recorder can tell of is rebuilt with the      *)
(* threshold in force, whatever options edits, failed saves, corrupt files,*)
(* missing recorders, restarts and crashes come between                    *)
(* (_reconcile_min_state_duration, _async_backfill), if rows are committed *)
(* within an instant.                                                      *)
THEOREM EveryThresholdRebuilt == MaxLag <= 1 /\ Spec => []ThresholdRebuilt
<1>1. IInv /\ BookInv /\ Rebuilding => ThresholdRebuilt
  <2> SUFFICES ASSUME IInv, BookInv, Rebuilding, NEW d \in Day,
                      Cutoff(now) <= d, d <= mem.last_updated_day,
                      BackfillBlocks(line, d, minDur) # EmptyDay
               PROVE  mem.daily[d] = BackfillBlocks(line, d, minDur)
    BY DEF ThresholdRebuilt
  <2>1. Held
    BY DEF BookInv, EmptyLedger, NoDay, Day
  <2> QED
    BY <2>1 DEF Rebuilding, Rebuilt, RebuiltIn, Tells
<1> SUFFICES ASSUME MaxLag <= 1 PROVE Spec => []ThresholdRebuilt
  OBVIOUS
<1>2. Init => BookInv /\ Rebuilding
  BY InitBookInv, InitRebuilding
<1>3. IInv /\ BookInv /\ Rebuilding /\ [Next]_vars => BookInv' /\ Rebuilding'
  BY NextBookInv, NextRebuilding
<1> QED
  BY <1>1, <1>2, <1>3, Invariance, PTL DEF Spec
-----------------------------------------------------------------------------
(* The recorder tells of a day just when the entity had a state in it.     *)

(* The end of a row's block comes after the row, so that with no threshold *)
(* every row survives.                                                     *)
LEMMA AllSurvive ==
    ASSUME NEW f, NEW a \in Nat, NEW e \in Nat
    PROVE  Survivors(f, a, e, 0) = RowsOf(f, a, e)
<1> DEFINE starts == RowsOf(f, a, e)
           Ends(t) == {u \in starts : u > t} \cup {e}
<1>1. starts \subseteq a..(e - 1)
  BY DEF RowsOf
<1>2. ASSUME NEW t \in starts PROVE Min(Ends(t)) - t >= 0
  <2>1. t \in Nat /\ t < e
    BY <1>1
  <2>2. \A u \in starts : u \in Nat
    BY <1>1
  <2>3. Ends(t) \subseteq Nat /\ Ends(t) # {} /\ \A u \in Ends(t) : u > t
    <3> HIDE DEF starts
    <3> QED
      BY <2>1, <2>2
  <2> HIDE DEF Ends
  <2>4. Min(Ends(t)) \in Ends(t)
    BY <2>3, MinMember
  <2>5. Min(Ends(t)) \in Nat /\ Min(Ends(t)) > t
    BY <2>3, <2>4
  <2> QED
    BY <2>1, <2>5
<1>3. Survivors(f, a, e, 0) = {t \in starts : Min(Ends(t)) - t >= 0}
  BY DEF Survivors
<1> HIDE DEF starts, Ends
<1>4. Survivors(f, a, e, 0) = starts
  BY <1>2, <1>3
<1> QED
  BY <1>4 DEF starts

(* The state a row begins with is given to the row's instant.              *)
LEMMA GivenAtRow ==
    ASSUME NEW f, NEW e \in Nat, NEW kept, kept \subseteq 0..e, NEW k \in kept
    PROVE  GivenTo(f, kept, k) = f[k]
<1> DEFINE begun == {j \in kept : j <= k}
<1>1. begun \subseteq 0..e /\ k \in begun /\ begun # {}
  <2>1. k \in 0..e /\ k <= k
    OBVIOUS
  <2>2. k \in begun
    BY <2>1
  <2>3. begun \subseteq kept
    OBVIOUS
  <2> HIDE DEF begun
  <2> QED
    BY <2>2, <2>3
<1>2. Max(begun) = k
  <2>1. \A j \in begun : j <= k /\ j \in Int
    BY <1>1
  <2> HIDE DEF begun
  <2>2. Max(begun) \in begun /\ \A y \in begun : y <= Max(begun)
    BY <1>1, MaxMember
  <2>3. Max(begun) <= k /\ k <= Max(begun) /\ Max(begun) \in Int /\ k \in Int
    BY <1>1, <2>1, <2>2
  <2> QED
    BY <2>3
<1> HIDE DEF begun
<1> QED
  BY <1>1, <1>2 DEF GivenTo, begun

(* A window with a row has a bucket that is not empty.                     *)
LEMMA RowCounts ==
    ASSUME NEW f \in [Time -> Names \cup {NoState}], NEW a \in Nat, NEW e \in Time,
           NEW k \in RowsOf(f, a, e)
    PROVE  Blocks(f, a, e, 0) # EmptyDay
<1> DEFINE kept == Survivors(f, a, e, 0)
           own == {t \in a..(e - 1) : GivenTo(f, kept, t) = f[k]}
<1>1. e \in Nat /\ Time = 0..MaxTime /\ MaxTime \in Nat
  BY LocalDaysAssumption DEF Time
<1>2. k \in a..(e - 1) /\ k \in Time /\ f[k] # NoState
  BY <1>1 DEF RowsOf
<1>3. f[k] \in Names
  BY <1>2
<1>4. kept = RowsOf(f, a, e)
  BY <1>1, AllSurvive
<1>5. kept \subseteq 0..e /\ k \in kept
  <2>1. RowsOf(f, a, e) \subseteq a..(e - 1)
    BY DEF RowsOf
  <2>2. a..(e - 1) \subseteq 0..e
    BY <1>1
  <2> QED
    BY <1>4, <2>1, <2>2
<1>6. GivenTo(f, kept, k) = f[k]
  <2> HIDE DEF kept
  <2> QED
    BY <1>1, <1>5, GivenAtRow
<1>7. Blocks(f, a, e, 0)[f[k]].secs = Cardinality(own)
  BY <1>3 DEF Blocks
<1>8. Cardinality(own) # 0
  <2>1. IsFiniteSet(own)
    <3>1. own \subseteq a..(e - 1) /\ a \in Int /\ e - 1 \in Int
      BY <1>1
    <3> HIDE DEF own
    <3> QED
      BY <3>1, FS_Interval, FS_Subset
  <2>2. k \in own
    BY <1>2, <1>6
  <2> HIDE DEF own
  <2> QED
    BY <2>1, <2>2, FS_EmptySet
<1> HIDE DEF own
<1> QED
  BY <1>3, <1>7, <1>8 DEF EmptyDay, EmptyRow

(* A day in which the entity had a state is told of.                       *)
LEMMA StateIsTold ==
    ASSUME NEW f \in [Time -> Names \cup {NoState}], NEW d \in Day, Midnight[d + 1] \in Time,
           NEW t \in Time, Midnight[d] <= t, t < Midnight[d + 1], f[t] # NoState
    PROVE  BackfillBlocks(f, d, 0) # EmptyDay
<1> DEFINE a == Midnight[d]
           e == Midnight[d + 1]
           rows == RowsOf(f, a, e)
           shown == CarryForward(f, a, e)
           last == Max(rows)
<1>1. a \in Nat /\ e \in Time /\ e \in Nat /\ Time = 0..MaxTime /\ MaxTime \in Nat /\ t \in a..(e - 1)
  BY MidnightNat, LocalDaysAssumption DEF Day, Time
<1> HIDE DEF a, e
<1>2. rows \subseteq a..(e - 1)
  BY DEF RowsOf
<1>3. PICK k \in rows : TRUE
  <2> DEFINE U == {u \in a..(e - 1) : f[u] # NoState}
  <2>1. U \subseteq Nat /\ U # {}
    BY <1>1
  <2>2. PICK u \in U : \A v \in U : u <= v
    <3> HIDE DEF U
    <3> QED
      BY <2>1, LeastNatural
  <2>3. u = a \/ (u - 1 \in a..(e - 1) /\ ~(u <= u - 1))
    BY <1>1
  <2>4. u = a \/ f[u - 1] = NoState
    BY <2>2, <2>3
  <2>5. u \in rows
    BY <2>2, <2>4 DEF RowsOf
  <2> QED
    BY <2>5
<1>4. shown \in [Time -> Names \cup {NoState}] /\ \E j : j \in RowsOf(shown, a, e)
  <2>1. CASE ~(Cardinality(rows) > 1 /\ f[last] = Unavailable)
    <3>1. shown = f
      BY <2>1 DEF CarryForward
    <3> QED
      BY <1>3, <3>1
  <2>2. CASE Cardinality(rows) > 1 /\ f[last] = Unavailable
    <3>1. last \in rows /\ \A y \in rows : y <= last
      <4>1. rows \subseteq 0..e /\ rows # {}
        BY <1>1, <1>2, <1>3
      <4> HIDE DEF rows
      <4> QED
        BY <1>1, <4>1, MaxMember
    <3>2. PICK j \in rows : j # last
      <4> SUFFICES ASSUME \A j \in rows : j = last PROVE FALSE
        OBVIOUS
      <4>1. rows = {last}
        BY <3>1
      <4> HIDE DEF rows, last
      <4>2. Cardinality(rows) = 1
        BY <4>1, FS_Singleton
      <4> QED
        BY <2>2, <4>2
    <3>3. shown = [u \in Time |-> IF u \in last..(e - 1) THEN f[last - 1] ELSE f[u]]
      BY <2>2 DEF CarryForward
    <3> HIDE DEF last
    <3>4. /\ j \in a..(e - 1) /\ last \in a..(e - 1) /\ j < last
          /\ j \in Time /\ last - 1 \in Time /\ j \notin last..(e - 1)
          /\ j # a => j - 1 \in Time /\ j - 1 \notin last..(e - 1)
      <4>1. j \in a..(e - 1) /\ last \in a..(e - 1) /\ j <= last
        BY <1>2, <3>1, <3>2
      <4> QED
        BY <1>1, <3>2, <4>1
    <3>5. f[last - 1] \in Names \cup {NoState} /\ f[j] # NoState /\ (j = a \/ f[j] # f[j - 1])
      BY <3>2, <3>4 DEF RowsOf
    <3>6. shown \in [Time -> Names \cup {NoState}]
      BY <3>3, <3>5
    <3>7. shown[j] = f[j] /\ (j # a => shown[j - 1] = f[j - 1])
      BY <3>3, <3>4
    <3>8. j \in RowsOf(shown, a, e)
      BY <3>4, <3>5, <3>7 DEF RowsOf
    <3> QED
      BY <3>6, <3>8
  <2> QED
    BY <2>1, <2>2
<1> HIDE DEF shown
<1>5. Blocks(shown, a, e, 0) # EmptyDay
  BY <1>1, <1>4, RowCounts
<1> QED
  BY <1>5 DEF BackfillBlocks, shown, a, e

(* And a day in which it had none is not.                                  *)
LEMMA NothingIsTold ==
    ASSUME NEW f \in [Time -> Names \cup {NoState}], NEW d \in Day, Midnight[d + 1] \in Time,
           \A t \in Time : Midnight[d] <= t /\ t < Midnight[d + 1] => f[t] = NoState, NEW dur
    PROVE  BackfillBlocks(f, d, dur) = EmptyDay
<1> DEFINE a == Midnight[d]
           e == Midnight[d + 1]
<1>1. a \in Nat /\ e \in Nat /\ Time = 0..MaxTime /\ MaxTime \in Nat /\ e <= MaxTime
  <2>1. a \in Nat
    BY MidnightNat, LocalDaysAssumption DEF Day
  <2>2. e \in Time
    OBVIOUS
  <2> HIDE DEF a, e
  <2> QED
    BY <2>1, <2>2, LocalDaysAssumption DEF Time
<1>2. RowsOf(f, a, e) = {}
  BY <1>1 DEF RowsOf
<1> HIDE DEF a, e
<1>3. CarryForward(f, a, e) = f
  <2>1. Cardinality({}) = 0
    BY FS_EmptySet
  <2> QED
    BY <1>2, <2>1 DEF CarryForward
<1>4. Survivors(f, a, e, dur) = {}
  BY <1>2 DEF Survivors
<1>5. \A t : GivenTo(f, {}, t) = NoState
  BY DEF GivenTo
<1>6. \A s \in Names : /\ {t \in a..(e - 1) : GivenTo(f, {}, t) = s} = {}
                       /\ Cardinality({}) = 0
  BY <1>5, NamesAssumption, FS_EmptySet
<1>7. Blocks(f, a, e, dur) = EmptyDay
  BY <1>4, <1>6 DEF Blocks, EmptyDay, EmptyRow
<1> QED
  BY <1>3, <1>7 DEF BackfillBlocks, a, e
-----------------------------------------------------------------------------
(* Every day with a bucket is one in which the entity had a state.         *)

\* Timeline f has a state on day d at an instant up to c.
Occupied(d, c, f) ==
    \E t \in Time : Midnight[d] <= t /\ t < Midnight[d + 1] /\ t <= c /\ f[t] # NoState

\* Only a tracker that is gone outlives Home Assistant, and the entity's state
\* has been in force since last_changed.
Surroundings ==
    /\ up \/ pc = "absent"
    /\ changed <= now
    /\ \A t \in changed..now : line[t] = line[now]

(* So it stays.                                                            *)
LEMMA NextSurroundings ==
    ASSUME IInv, Surroundings, [Next]_vars
    PROVE  Surroundings'
<1>0. /\ now \in Time /\ now \in Nat /\ changed \in Time /\ changed \in Nat
      /\ line \in [Time -> Names \cup {NoState}]
  BY LocalDaysAssumption DEF IInv, TypeOK, Time
<1>1. CASE Tick
  <2>1. /\ now' = now + 1 /\ now' \in Time /\ changed' = changed
        /\ line' = [line EXCEPT ![now + 1] = line[now]] /\ up' = up /\ pc' = pc
    BY <1>0, <1>1, LocalDaysAssumption DEF Tick, Time
  <2>2. \A t \in changed..now : t \in Time /\ t # now + 1
    BY <1>0, LocalDaysAssumption DEF Time
  <2>3. \A t \in changed'..now' : line'[t] = line'[now']
    BY <1>0, <2>1, <2>2 DEF Surroundings
  <2> QED
    BY <1>0, <2>1, <2>3 DEF Surroundings
<1>2. ASSUME changed' = now, now' = now, up' \/ pc' = "absent" PROVE Surroundings'
  <2>1. \A t \in now..now : t = now
    BY <1>0
  <2> QED
    BY <1>0, <1>2, <2>1 DEF Surroundings
<1>3. ASSUME NEW s \in Live, Transition(s) PROVE Surroundings'
  <2>1. changed' = now /\ now' = now /\ up' = up /\ up
    BY <1>3 DEF Transition
  <2> QED
    BY <1>2, <2>1 DEF Surroundings
<1>4. CASE Stop \/ Crash
  BY <1>2, <1>4 DEF Stop, Crash, Surroundings
<1>5. CASE Boot
  BY <1>2, <1>5 DEF Boot
<1>6. ASSUME UNCHANGED <<now, line, changed, up>>, up \/ pc' = "absent"
      PROVE  Surroundings'
  BY <1>6 DEF Surroundings
<1>7. CASE UNCHANGED vars \/ Commit \/ Poll \/ FlushDone \/ FlushFails
  BY <1>6, <1>7 DEF vars, Commit, Poll, FlushDone, FlushFails, environment, Surroundings
<1>8. CASE Load \/ AttributeUpdate \/ SetupRuns \/ Unload
  <2>1. UNCHANGED environment /\ up
    BY <1>8 DEF Load, AttributeUpdate, SetupRuns, BackfillReplace, BackfillMark, BackfillDone,
       FirstRefresh, Subscribe, Unload, Surroundings
  <2> QED
    BY <1>6, <2>1 DEF environment
<1> QED
  BY <1>1, <1>3, <1>4, <1>5, <1>7, <1>8 DEF Next

(* The clock and the recorder before and after a step.                     *)
LEMMA ClockTypes ==
    ASSUME IInv, [Next]_vars
    PROVE  /\ now \in Time /\ now \in Nat /\ now' \in Time /\ now' \in Nat
           /\ committed \in Time /\ committed \in Nat /\ committed' \in Time /\ committed' \in Nat
           /\ line \in [Time -> Names \cup {NoState}] /\ line' \in [Time -> Names \cup {NoState}]
<1>1. /\ now \in Time /\ now' \in Time /\ committed \in Time /\ committed' \in Time
      /\ line \in [Time -> Names \cup {NoState}] /\ line' \in [Time -> Names \cup {NoState}]
  BY NextIInv DEF IInv, TypeOK
<1>2. \A t \in Time : t \in Nat
  BY LocalDaysAssumption DEF Time
<1> QED
  BY <1>1, <1>2

(* A recorder that lags by one instant answers with all before this one.   *)
LEMMA LaggingAnswers ==
    ASSUME IInv, [Next]_vars
    PROVE  /\ Lagging => \A u \in Nat : u < now => u <= committed
           /\ Lagging' => \A u \in Nat : u < now' => u <= committed'
  BY ClockTypes DEF Lagging

(* A day that has a state in the recorder goes on having one: only a row   *)
(* of the instant at hand can be rewritten, and the instant before then    *)
(* has the state it had.                                                   *)
LEMMA OccupiedStays ==
    ASSUME MaxLag <= 1, IInv, Lagging, [Next]_vars,
           NEW d \in Day, Midnight[d] < now, Occupied(d, committed, line)
    PROVE  Occupied(d, committed', line')
<1>0. /\ now \in Nat /\ committed \in Nat /\ now \in Time
      /\ line \in [Time -> Names \cup {NoState}] /\ now' \in Nat /\ committed' \in Nat
  BY ClockTypes
<1>00. Midnight[d] \in Nat /\ Midnight[d + 1] \in Nat
  BY MidnightNat, LocalDaysAssumption DEF Day
<1>1. Lagging' /\ now <= now' /\ SameBefore(line, line', now)
  BY PastStays
<1>2. PICK t \in Time : /\ Midnight[d] <= t /\ t < Midnight[d + 1]
                        /\ t <= committed /\ line[t] # NoState
  BY DEF Occupied
<1>3. ASSUME NEW u \in Time, Midnight[d] <= u, u < Midnight[d + 1], u < now, line[u] # NoState
      PROVE  Occupied(d, committed', line')
  <2>1. line'[u] = line[u]
    BY <1>1, <1>3 DEF SameBefore
  <2>2. u \in Nat
    BY LocalDaysAssumption DEF Time
  <2>3. u < now'
    BY <1>0, <1>1, <1>3, <2>2
  <2>4. u <= committed'
    BY <1>1, <2>2, <2>3, LaggingAnswers
  <2> QED
    BY <1>3, <2>1, <2>4 DEF Occupied
<1>4. CASE t < now
  BY <1>2, <1>3, <1>4
<1>5. CASE t = now /\ FreshInstant
  <2>1. now - 1 \in Time /\ Midnight[d] <= now - 1 /\ now - 1 < Midnight[d + 1] /\ now - 1 < now
    BY <1>0, <1>00, <1>2, <1>5, LocalDaysAssumption DEF FreshInstant, Time
  <2> QED
    BY <1>2, <1>3, <1>5, <2>1 DEF FreshInstant
<1>6. CASE t = now /\ line'[now] = line[now] /\ now <= committed'
  BY <1>2, <1>6 DEF Occupied
<1>7. t = now => FreshInstant \/ (line'[now] = line[now] /\ now <= committed')
  <2> SUFFICES ASSUME t = now
               PROVE  FreshInstant \/ (line'[now] = line[now] /\ now <= committed')
    OBVIOUS
  <2>0. committed = now
    BY <1>0, <1>2 DEF Lagging
  <2>1. CASE Tick
    <3>1. line'[now] = line[now] /\ now' = now + 1
      BY <1>0, <2>1 DEF Tick, Time
    <3> QED
      BY <1>0, <1>1, <3>1 DEF Lagging
  <2>2. CASE (\E s \in Live : Transition(s)) \/ Stop \/ Boot
    BY <2>2 DEF Transition, Stop, Boot
  <2>3. CASE Crash
    <3>1. now \in committed..now
      BY <1>0, <2>0
    <3> QED
      BY <1>0, <2>0, <2>3, <3>1 DEF Crash
  <2>4. CASE UNCHANGED vars \/ Commit
    BY <1>0, <2>0, <2>4 DEF vars, Commit
  <2>5. CASE Load \/ AttributeUpdate \/ SetupRuns \/ Unload \/ Poll \/ FlushDone \/ FlushFails
    <3>1. UNCHANGED environment
      BY <2>5 DEF Load, AttributeUpdate, SetupRuns, BackfillReplace, BackfillMark,
         BackfillDone, FirstRefresh, Subscribe, Unload, Poll, FlushDone, FlushFails
    <3> QED
      BY <1>0, <2>0, <3>1 DEF environment
  <2> QED
    BY <2>1, <2>2, <2>3, <2>4, <2>5 DEF Next
<1>8. t < now \/ t = now
  BY <1>0, <1>2 DEF Lagging, Time
<1> QED
  BY <1>4, <1>5, <1>6, <1>7, <1>8

\* An anchored ledger of a running Home Assistant: the entity has a state,
\* and it had one today if today began before now and the anchor is older.
Known(L, t, c, f) ==
    L.last_state # NoState =>
        /\ f[t] # NoState
        /\ Midnight[DayOf(t)] < t /\ L.last_ts < t => Occupied(DayOf(t), c, f)

Anchored ==
    up => /\ Known(mem, now, committed, line)
          /\ Known(disk, now, committed, line)
          /\ saving # NoSave => Known(saving, now, committed, line)

(* A ledger's anchor stays known as time and the entity go on.             *)
LEMMA KnownStays ==
    ASSUME MaxLag <= 1, IInv, Lagging, [Next]_vars, up', NEW L \in Ledger,
           up => Known(L, now, committed, line)
    PROVE  Known(L, now', committed', line')
<1> SUFFICES ASSUME L.last_state # NoState
             PROVE  /\ line'[now'] # NoState
                    /\ Midnight[DayOf(now')] < now' /\ L.last_ts < now'
                         => Occupied(DayOf(now'), committed', line')
  BY DEF Known
<1>0. /\ now \in Nat /\ committed \in Nat /\ now \in Time /\ now' \in Time /\ now' \in Nat
      /\ line \in [Time -> Names \cup {NoState}] /\ committed' \in Nat
      /\ DayOf(now) \in Day /\ DayOf(now') \in Day
      /\ Midnight[DayOf(now')] \in Nat /\ Midnight[DayOf(now') + 1] \in Nat
      /\ Midnight[DayOf(now')] <= now' /\ now' < Midnight[DayOf(now') + 1]
  <2>1. \A d \in Day : Midnight[d] \in Nat /\ Midnight[d + 1] \in Nat
    BY MidnightNat, LocalDaysAssumption DEF Day
  <2> QED
    BY <2>1, ClockTypes, DayOfInstant
<1>1. Lagging' /\ now <= now' /\ SameBefore(line, line', now)
  BY PastStays
<1>2. CASE Boot
  <2>1. now' = now /\ committed' = now /\ line'[now] # NoState
    BY <1>0, <1>2, TrackerAssumption, NamesAssumption DEF Boot
  <2> QED
    BY <1>0, <2>1 DEF Occupied
<1>3. CASE Tick
  <2>1. now' = now + 1 /\ line'[now] = line[now] /\ line'[now + 1] = line[now] /\ up
    BY <1>0, <1>3 DEF Tick
  <2>2. line[now] # NoState
    BY <2>1 DEF Known
  <2>3. now <= committed'
    <3>1. now < now'
      BY <1>0, <2>1
    <3> QED
      BY <1>0, <1>1, <3>1, LaggingAnswers
  <2>4. Midnight[DayOf(now')] < now' => Midnight[DayOf(now')] <= now
    BY <1>0, <2>1
  <2>5. now < Midnight[DayOf(now') + 1]
    BY <1>0, <2>1
  <2> QED
    BY <1>0, <2>1, <2>2, <2>3, <2>4, <2>5 DEF Occupied
<1>4. ASSUME now' = now, up, line'[now] # NoState
      PROVE  /\ line'[now'] # NoState
             /\ Midnight[DayOf(now')] < now' /\ L.last_ts < now'
                  => Occupied(DayOf(now'), committed', line')
  BY <1>0, <1>4, OccupiedStays DEF Known
<1>5. CASE \E s \in Live : Transition(s)
  <2>1. now' = now /\ up /\ line'[now] # NoState
    BY <1>0, <1>5, TrackerAssumption, NamesAssumption DEF Transition
  <2> QED
    BY <1>4, <2>1
<1>6. CASE UNCHANGED vars \/ Commit
  BY <1>4, <1>6 DEF vars, Commit, Known
<1>7. CASE Load \/ AttributeUpdate \/ SetupRuns \/ Unload \/ Poll \/ FlushDone \/ FlushFails
  <2>1. UNCHANGED environment
    BY <1>7 DEF Load, AttributeUpdate, SetupRuns, BackfillReplace, BackfillMark,
       BackfillDone, FirstRefresh, Subscribe, Unload, Poll, FlushDone, FlushFails
  <2> QED
    BY <1>4, <2>1 DEF environment, Known
<1>8. CASE Stop \/ Crash
  BY <1>8 DEF Stop, Crash
<1> QED
  BY <1>2, <1>3, <1>5, <1>6, <1>7, <1>8 DEF Next

(* Whatever has a ledger's anchor is as known as the ledger.               *)
LEMMA KnownSame ==
    ASSUME NEW L, NEW M, NEW t, NEW c, NEW f, Known(L, t, c, f),
           M.last_state = L.last_state, M.last_ts = L.last_ts
    PROVE  Known(M, t, c, f)
  BY DEF Known

(* No step of Tracker gives a ledger an anchor that is not.                *)
LEMMA NextAnchored ==
    ASSUME MaxLag <= 1, IInv, Lagging, Surroundings, Anchored, [Next]_vars
    PROVE  Anchored'
<1> SUFFICES ASSUME up' PROVE Anchored'
  BY DEF Anchored
<1>0. /\ now \in Time /\ now \in Nat /\ now' \in Nat /\ committed \in Nat /\ changed \in Nat
      /\ mem \in Ledger /\ disk \in Ledger /\ saving \in Ledger \cup {NoSave}
      /\ mem' \in Ledger /\ line \in [Time -> Names \cup {NoState}] /\ changed \in Time
  <2>1. mem' \in Ledger /\ changed \in Time
    BY NextIInv DEF IInv, TypeOK
  <2>2. changed \in Nat
    BY <2>1, LocalDaysAssumption DEF Time
  <2> QED
    BY <2>1, <2>2, ClockTypes DEF IInv, TypeOK
<1> DEFINE K(L) == Known(L, now', committed', line')
<1>d. K(mem) /\ K(disk) /\ (saving # NoSave => K(saving))
  BY <1>0, KnownStays DEF Anchored
<1>e. \A L, M : K(L) /\ M.last_state = L.last_state /\ M.last_ts = L.last_ts => K(M)
  BY KnownSame
<1>f. ASSUME mem' = mem \/ K(mem'), disk' \in {disk, mem'} \/ K(disk'),
             saving' \in {saving, mem', NoSave}
      PROVE  Anchored'
  BY <1>d, <1>f DEF Anchored
<1>g. ASSUME NEW L, L.last_state = NoState PROVE K(L)
  BY <1>g DEF Known
<1>1. CASE Tick \/ Commit \/ Boot \/ BackfillDone \/ FlushDone \/ FlushFails \/ UNCHANGED vars
  BY <1>1, <1>d, <1>f
     DEF Tick, Commit, Boot, BackfillDone, FlushDone, FlushFails, vars
<1>2. ASSUME NEW s \in Live, Transition(s) PROVE Anchored'
  <2>1. now' = now /\ line'[now] # NoState /\ disk' = disk /\ saving' = saving
    BY <1>0, <1>2, TrackerAssumption, NamesAssumption DEF Transition
  <2>2. CASE mem' = mem
    BY <1>f, <2>1, <2>2
  <2>3. CASE HandleStateChange(s, now)
    <3>1. mem'.last_ts = now
      BY <1>0, <2>3 DEF HandleStateChange, Ledger
    <3>2. K(mem')
      BY <1>0, <2>1, <3>1 DEF Known
    <3> QED
      BY <1>f, <2>1, <3>2
  <2> QED
    BY <1>2, <2>2, <2>3 DEF Transition
<1>3. CASE AttributeUpdate
  <2>1. /\ now' = now /\ line' = line /\ committed' = committed /\ line[now] # NoState
        /\ disk' = disk /\ saving' = saving /\ mem'.last_ts = changed
    BY <1>0, <1>3 DEF AttributeUpdate, environment, HandleStateChange, Ledger
  <2>2. ASSUME Midnight[DayOf(now)] < now, changed < now
        PROVE  Occupied(DayOf(now), committed, line)
    <3>1. /\ DayOf(now) \in Day /\ Midnight[DayOf(now)] \in Nat /\ Midnight[DayOf(now) + 1] \in Nat
          /\ now < Midnight[DayOf(now) + 1]
      <4>1. \A d \in Day : Midnight[d] \in Nat /\ Midnight[d + 1] \in Nat
        BY MidnightNat, LocalDaysAssumption DEF Day
      <4> QED
        BY <1>0, <4>1, DayOfInstant
    <3>2. /\ now - 1 \in Time /\ Midnight[DayOf(now)] <= now - 1
          /\ now - 1 < Midnight[DayOf(now) + 1] /\ now - 1 <= committed
          /\ now - 1 \in changed..now
      BY <1>0, <2>2, <3>1, LocalDaysAssumption DEF Time, Lagging
    <3>3. line[now - 1] = line[now]
      BY <3>2 DEF Surroundings
    <3> QED
      BY <2>1, <3>2, <3>3 DEF Occupied
  <2>3. K(mem')
    BY <2>1, <2>2 DEF Known
  <2> QED
    BY <1>f, <2>1, <2>3
<1>4. CASE Load
  <2> PICK L \in {disk} \cup (IF DiskMayFail THEN {EmptyLedger} ELSE {}) :
        disk' = L /\ mem' = Reconciled(L)
    BY <1>4 DEF Load
  <2>1. K(L) /\ L \in Ledger
    BY <1>0, <1>d, <1>g, EmptyLedgerType DEF EmptyLedger
  <2>2. mem'.last_state = L.last_state /\ mem'.last_ts = L.last_ts
    BY <2>1 DEF Reconciled, Ledger
  <2> QED
    BY <1>4, <1>e, <1>f, <2>1, <2>2 DEF Load
<1>5. ASSUME Dropped PROVE K(mem') /\ saving' = NoSave
  BY <1>5, <1>g DEF Dropped, EmptyLedger
<1>6. CASE BackfillReplace
  <2>1. CASE SetupFails
    BY <1>5, <1>f, <2>1 DEF SetupFails
  <2>2. CASE disk' \in {disk, mem'} /\ saving' = saving
             /\ mem'.last_state = mem.last_state /\ mem'.last_ts = mem.last_ts
    BY <1>d, <1>e, <1>f, <2>2
  <2> QED
    BY <1>0, <1>6, <2>1, <2>2 DEF BackfillReplace, ReplaceDay, SaveAndGo, Ledger
<1>7. CASE BackfillMark
  <2>1. CASE SetupFails
    BY <1>5, <1>f, <2>1 DEF SetupFails
  <2>2. CASE disk' \in {disk, mem'} /\ saving' = saving
             /\ mem'.last_state = mem.last_state /\ mem'.last_ts = mem.last_ts
    BY <1>d, <1>e, <1>f, <2>2
  <2> QED
    BY <1>0, <1>7, <2>1, <2>2 DEF BackfillMark, SaveAndGo, Ledger
<1>8. CASE FirstRefresh \/ Poll
  <2>1. /\ mem'.last_state = mem.last_state /\ mem'.last_ts = mem.last_ts
        /\ disk' \in {disk, mem'} /\ saving' \in {saving, mem', NoSave}
    BY <1>0, <1>8 DEF FirstRefresh, Poll, Flushed, Pruned, Ledger
  <2> QED
    BY <1>d, <1>e, <1>f, <2>1
<1>9. CASE Subscribe
  <2>1. now' = now /\ line' = line /\ disk' = disk /\ saving' = saving
    BY <1>9 DEF Subscribe, environment
  <2>2. CASE mem' = mem
    BY <1>f, <2>1, <2>2
  <2>3. CASE mem' = [mem EXCEPT !.last_state = line[now], !.last_ts = now] /\ line[now] # NoState
    <3>1. mem'.last_ts = now
      BY <1>0, <2>3 DEF Ledger
    <3>2. K(mem')
      BY <1>0, <2>1, <2>3, <3>1 DEF Known
    <3> QED
      BY <1>f, <2>1, <3>2
  <2> QED
    BY <1>9, <2>2, <2>3 DEF Subscribe
<1>10. CASE Unload
  <2>1. disk' \in {mem, disk} /\ Dropped
    BY <1>10 DEF Unload
  <2> QED
    BY <1>5, <1>d, <1>f, <2>1
<1>11. CASE Stop \/ Crash
  BY <1>11 DEF Stop, Crash
<1> QED
  BY <1>1, <1>2, <1>3, <1>4, <1>6, <1>7, <1>8, <1>9, <1>10, <1>11 DEF Next, SetupRuns

\* Of each day since its setup began, but for today's rows after the anchor,
\* an anchored tracker has seen a state.
Recalled ==
    Held /\ mem.last_state # NoState =>
        \A d \in Day : /\ today <= d
                       /\ Midnight[d] < now
                       /\ mem.last_ts < Midnight[d + 1]
                       /\ mem.last_ts < now
                       => Occupied(d, committed, line)

(* That holds of each day it goes on to, and of each day the anchor is     *)
(* moved to.                                                               *)
LEMMA NextRecalled ==
    ASSUME MaxLag <= 1, IInv, Lagging, Surroundings, Anchored, Recalled, [Next]_vars
    PROVE  Recalled'
<1> SUFFICES ASSUME Held', mem'.last_state # NoState, NEW d \in Day,
                    today' <= d, Midnight[d] < now',
                    mem'.last_ts < Midnight[d + 1], mem'.last_ts < now'
             PROVE  Occupied(d, committed', line')
  BY DEF Recalled
<1>0. /\ now \in Time /\ now \in Nat /\ now' \in Nat /\ committed \in Nat /\ changed \in Nat
      /\ mem \in Ledger /\ mem' \in Ledger /\ mem.last_ts \in Nat
      /\ line \in [Time -> Names \cup {NoState}] /\ today \in Day
      /\ Midnight[d] \in Nat /\ Midnight[d + 1] \in Nat /\ Midnight[d] < Midnight[d + 1]
  <2>1. mem \in Ledger /\ mem' \in Ledger /\ changed \in Time /\ today \in Day
    BY NextIInv DEF IInv, TypeOK
  <2>2. mem.last_ts \in Time
    BY <2>1 DEF Ledger
  <2>3. changed \in Nat /\ mem.last_ts \in Nat
    BY <2>1, <2>2, LocalDaysAssumption DEF Time
  <2>4. d \in 0..(LastDay + 1) /\ d + 1 \in 0..(LastDay + 1) /\ d < d + 1
    BY LocalDaysAssumption DEF Day
  <2> QED
    BY <2>1, <2>3, <2>4, ClockTypes, MidnightNat, LocalDaysAssumption
<1>1. ASSUME Held, today' = today, now' = now,
             mem'.last_state = mem.last_state, mem'.last_ts = mem.last_ts
      PROVE  Occupied(d, committed', line')
  BY <1>1, OccupiedStays DEF Recalled
<1>2. CASE Tick
  <2>1. /\ now' = now + 1 /\ line'[now] = line[now] /\ mem' = mem /\ Held /\ today' = today
    BY <1>0, <1>2 DEF Tick, Held, backfill
  <2>2. line[now] # NoState
    BY <2>1 DEF Anchored, Known, Held, Surroundings
  <2>3. now <= committed'
    <3>1. Lagging' /\ now < now'
      BY <1>0, <2>1, PastStays
    <3> QED
      BY <1>0, <3>1, LaggingAnswers
  <2>4. CASE Midnight[d] < now /\ mem.last_ts < now
    BY <2>1, <2>4, OccupiedStays DEF Recalled
  <2>5. CASE ~(Midnight[d] < now /\ mem.last_ts < now)
    <3>1. Midnight[d] <= now /\ now < Midnight[d + 1]
      BY <1>0, <2>1, <2>5
    <3> QED
      BY <1>0, <2>1, <2>2, <2>3, <3>1 DEF Occupied
  <2> QED
    BY <2>4, <2>5
<1>3. ASSUME NEW s \in Live, Transition(s) PROVE Occupied(d, committed', line')
  <2>1. now' = now /\ today' = today /\ pc' = pc
    BY <1>3 DEF Transition, backfill
  <2>2. CASE mem' = mem
    BY <1>1, <2>1, <2>2 DEF Held
  <2>3. CASE HandleStateChange(s, now)
    <3>1. mem'.last_ts = now
      BY <1>0, <2>3 DEF HandleStateChange, Ledger
    <3> QED
      BY <1>0, <2>1, <3>1
  <2> QED
    BY <1>3, <2>2, <2>3 DEF Transition
(* An attribute's event moves the anchor back to last_changed: since then  *)
(* the entity's state has been in force.                                   *)
<1>4. CASE AttributeUpdate
  <2>1. /\ now' = now /\ line' = line /\ committed' = committed /\ line[now] # NoState
        /\ mem'.last_ts = changed
    BY <1>0, <1>4 DEF AttributeUpdate, environment, HandleStateChange, Ledger
  <2> DEFINE u == Later(changed, Midnight[d])
  <2>2. /\ u \in Nat /\ u \in changed..now /\ Midnight[d] <= u /\ u < Midnight[d + 1] /\ u < now
    BY <1>0, <2>1 DEF Later
  <2> HIDE DEF u
  <2>3. u \in Time /\ u <= committed
    <3>1. u \in Time
      BY <1>0, <2>2, LocalDaysAssumption DEF Time
    <3>2. u <= committed
      BY <2>2, LaggingAnswers
    <3> QED
      BY <3>1, <3>2
  <2>4. line[u] = line[now]
    BY <2>2 DEF Surroundings
  <2> QED
    BY <2>1, <2>2, <2>3, <2>4 DEF Occupied
(* A setup that begins sees today alone.                                   *)
<1>5. CASE Load
  <2>1. now' = now /\ line' = line /\ committed' = committed /\ today' = DayOf(now) /\ up' /\ up
    BY <1>5 DEF Load, environment
  <2>2. d = DayOf(now)
    <3>1. /\ DayOf(now) \in Day /\ now < Midnight[DayOf(now) + 1]
          /\ Midnight[DayOf(now) + 1] \in Nat
      <4>1. \A e \in Day : Midnight[e + 1] \in Nat
        BY MidnightNat, LocalDaysAssumption DEF Day
      <4> QED
        BY <1>0, <4>1, DayOfInstant
    <3>2. ~(Midnight[DayOf(now) + 1] <= Midnight[d])
      BY <1>0, <2>1, <3>1
    <3>3. DayOf(now) < d =>
            /\ DayOf(now) + 1 \in 0..(LastDay + 1) /\ d \in 0..(LastDay + 1)
            /\ DayOf(now) + 1 <= d
      BY <3>1, LocalDaysAssumption DEF Day
    <3>4. ~(DayOf(now) < d)
      BY <3>2, <3>3, MidnightMonotone
    <3> QED
      BY <2>1, <3>1, <3>4, LocalDaysAssumption DEF Day
  <2>3. Known(mem', now', committed', line')
    BY <2>1, NextAnchored DEF Anchored
  <2> QED
    BY <2>1, <2>2, <2>3 DEF Known
<1>6. CASE BackfillReplace \/ BackfillMark
  <2>1. ~SetupFails
    BY DEF SetupFails, Held
  <2> QED
    BY <1>0, <1>1, <1>6, <2>1
       DEF BackfillReplace, BackfillMark, ReplaceDay, environment, backfill, Held, Ledger
<1>7. CASE BackfillDone \/ FirstRefresh \/ Poll \/ Commit \/ FlushDone \/ FlushFails \/ UNCHANGED vars
  <2>1. /\ now' = now /\ today' = today /\ Held
        /\ mem'.last_state = mem.last_state /\ mem'.last_ts = mem.last_ts
    BY <1>0, <1>7 DEF BackfillDone, FirstRefresh, Poll, Commit, FlushDone, FlushFails, vars,
       Pruned, environment, backfill, Held, Ledger
  <2> QED
    BY <1>1, <2>1
<1>8. CASE Subscribe
  <2>1. now' = now /\ today' = today /\ Held
    BY <1>8 DEF Subscribe, environment, backfill, Held
  <2>2. CASE mem' = mem
    BY <1>1, <2>1, <2>2
  <2>3. CASE mem' = [mem EXCEPT !.last_state = line[now], !.last_ts = now]
    BY <1>0, <2>1, <2>3 DEF Ledger
  <2> QED
    BY <1>8, <2>2, <2>3 DEF Subscribe
<1>9. CASE Unload \/ Stop \/ Crash
  BY <1>9 DEF Unload, Stop, Crash, Held
<1>10. CASE Boot
  <2>1. ~Held
    BY <1>10 DEF Boot, Surroundings, Held
  <2> QED
    BY <1>10, <2>1 DEF Boot, Held
<1> QED
  BY <1>2, <1>3, <1>4, <1>5, <1>6, <1>7, <1>8, <1>9, <1>10 DEF Next, SetupRuns

\* A tracker past its backfill marks every day before its setup began.
Covered ==
    pc \in {"refresh", "wait", "live"} => today - 1 <= mem.last_updated_day \/ KeepDays = 0

(* For the backfill ends only there, if it has a recorder.                 *)
LEMMA NextCovered ==
    ASSUME IInv, BackfillPlace, recorder, Covered, [Next]_vars
    PROVE  Covered'
<1>0. /\ mem \in Ledger /\ today \in Day /\ day \in 0..(LastDay + 1) /\ KeepDays \in Nat
      /\ changed \in Time /\ now \in Time /\ line \in [Time -> Names \cup {NoState}]
  BY TrackerAssumption DEF IInv, TypeOK
<1>1. ASSUME pc' \in {"refresh", "wait", "live"} => pc \in {"refresh", "wait", "live"},
             today' = today, mem'.last_updated_day = mem.last_updated_day
      PROVE  Covered'
  BY <1>1 DEF Covered
<1>2. CASE BackfillDone
  <2>1. today' = today /\ mem' = mem /\ pc = "backfill" /\ ~(day < today)
    BY <1>2 DEF BackfillDone, backfill, Pending
  <2>2. CASE mem.last_updated_day = NoDay
    <3>1. ~(Later(0, today - KeepDays) < today)
      BY <2>1, <2>2 DEF BackfillPlace
    <3>2. today = 0 \/ KeepDays = 0
      BY <1>0, <3>1, LocalDaysAssumption DEF Later, Day
    <3> QED
      BY <2>1, <2>2, <3>2 DEF Covered, NoDay
  <2>3. CASE mem.last_updated_day # NoDay
    <3>0. /\ today \in Int /\ day \in Int /\ mem.last_updated_day \in Int
          /\ ~(day < today) /\ day = mem.last_updated_day + 1
      <4>1. mem.last_updated_day \in Int
        BY <1>0, MarkerType
      <4>2. today \in Int /\ day \in Int
        BY <1>0 DEF Day
      <4> QED
        BY <2>1, <2>3, <4>1, <4>2 DEF BackfillPlace
    <3>1. today - 1 <= mem.last_updated_day
      BY <3>0
    <3> QED
      BY <2>1, <3>1 DEF Covered
  <2> QED
    BY <2>2, <2>3
<1>3. CASE \E s \in Live : Transition(s)
  <2>1. pc' = pc /\ today' = today /\ mem'.last_updated_day = mem.last_updated_day
    BY <1>0, <1>3 DEF Transition, backfill, HandleStateChange, Ledger
  <2> QED
    BY <1>1, <2>1
<1>4. CASE AttributeUpdate
  <2>1. pc' = pc /\ today' = today /\ mem'.last_updated_day = mem.last_updated_day
    BY <1>0, <1>4 DEF AttributeUpdate, backfill, HandleStateChange, Ledger
  <2> QED
    BY <1>1, <2>1
<1>5. CASE Load \/ BackfillReplace \/ BackfillMark \/ Unload \/ Stop \/ Crash
  BY <1>5 DEF Load, BackfillReplace, BackfillMark, SaveAndGo, SetupFails, Unload, Stop, Crash,
     Covered
<1>6. CASE FirstRefresh \/ Subscribe \/ Poll
  BY <1>0, <1>1, <1>6 DEF FirstRefresh, Subscribe, Poll, Pruned, SetUp, backfill, Ledger
<1>7. CASE Tick \/ Commit \/ Boot \/ FlushDone \/ FlushFails \/ UNCHANGED vars
  BY <1>1, <1>7 DEF Tick, Commit, Boot, FlushDone, FlushFails, vars, backfill
<1> QED
  BY <1>2, <1>3, <1>4, <1>5, <1>6, <1>7 DEF Next, SetupRuns

\* Every bucket of ledger L that is not to be pruned traces back to a state
\* of its day.
TracedIn(L, t, c, f) ==
    \A d \in Day : Cutoff(t) <= d /\ L.daily[d] # EmptyDay
                     => Midnight[d] < t /\ Occupied(d, c, f)

Tracing ==
    /\ recorder
    /\ Surroundings
    /\ Anchored
    /\ Recalled
    /\ Covered
    /\ TracedIn(mem, now, committed, line)
    /\ TracedIn(disk, now, committed, line)
    /\ saving # NoSave => TracedIn(saving, now, committed, line)

(* The tracker begins with empty ledgers.                                  *)
LEMMA InitTracing == ~RecorderMayBeOff /\ Init => Tracing
<1> SUFFICES ASSUME ~RecorderMayBeOff, Init PROVE Tracing
  OBVIOUS
<1>1. TracedIn(EmptyLedger, now, committed, line) /\ Known(EmptyLedger, now, committed, line)
  BY DEF TracedIn, Known, EmptyLedger
<1>2. Surroundings
  BY DEF Init, Surroundings
<1>3. /\ mem = EmptyLedger /\ disk = EmptyLedger /\ saving = NoSave /\ pc = "absent"
      /\ ~Held /\ EmptyLedger.last_state = NoState
  BY DEF Init, Held, EmptyLedger
<1> QED
  BY <1>1, <1>2, <1>3 DEF Init, Tracing, Anchored, Recalled, Covered

(* A fold of an anchored tracker writes only to days in which it has seen  *)
(* a state.                                                                *)
LEMMA FoldTraced ==
    ASSUME PlainSetting, MaxLag <= 1, IInv, Lagging, Tracing, pc = "live", [Next]_vars,
           now' = now, NEW at \in Time, at <= now, mem.last_state # NoState,
           NEW d \in Day, Cutoff(now) <= d,
           FoldedDaily(mem, mem.last_state, mem.last_ts, at)[d] # EmptyDay
    PROVE  Midnight[d] < now /\ Occupied(d, committed', line')
<1> DEFINE head == FoldStart(mem, mem.last_ts)
<1>0. /\ mem \in Ledger /\ mem.last_ts \in Time /\ mem.last_state \in Names /\ minDur = 0
      /\ now \in Time /\ now \in Nat /\ today \in Day /\ today <= DayOf(now) /\ DayOf(now) \in Day
  <2>1. minDur \in Thresholds
    BY DEF IInv, TypeOK
  <2> QED
    BY <2>1, ClockTypes, DayOfInstant DEF IInv, TypeOK, SetupOrder, PlainSetting, Ledger
<1>1. /\ head \in Nat /\ mem.last_ts <= head /\ Midnight[mem.last_updated_day + 1] <= head
      /\ mem.last_ts \in Nat /\ at \in Nat /\ mem.last_updated_day \in Int
      /\ mem.last_updated_day + 1 \in 0..(LastDay + 1)
      /\ Midnight[mem.last_updated_day + 1] \in Nat
      /\ Midnight[d] \in Nat /\ Midnight[d + 1] \in Nat
  <2>1. mem.last_ts \in Nat /\ at \in Nat
    BY <1>0, LocalDaysAssumption DEF Time
  <2>2. Midnight[d] \in Nat /\ Midnight[d + 1] \in Nat
    BY MidnightNat, LocalDaysAssumption DEF Day
  <2> QED
    BY <1>0, <2>1, <2>2, FoldStartType, MarkerType, MidnightNat
<1> HIDE DEF head
<1>2. CASE mem.daily[d] # EmptyDay
  BY <1>2, OccupiedStays DEF Tracing, TracedIn
<1>3. CASE mem.daily[d] = EmptyDay
  <2>1. ~Glitch(mem, mem.last_ts, at) /\ head < at
    BY <1>0, <1>1, <1>3 DEF FoldedDaily, Glitch, head
  <2>2. SplitSecs(head, at, d) # 0
    <3> SUFFICES ASSUME SplitSecs(head, at, d) = 0
                 PROVE  FoldedDaily(mem, mem.last_state, mem.last_ts, at)[d] = mem.daily[d]
      BY <1>3
    <3>1. FoldedDaily(mem, mem.last_state, mem.last_ts, at)[d]
            = [mem.daily[d] EXCEPT ![mem.last_state].secs = @ + 0, ![mem.last_state].count = @ + 0]
      BY <1>1, <2>1 DEF FoldedDaily, head
    <3>2. mem.daily[d] \in Bucket
      BY <1>0 DEF Ledger
    <3> QED
      BY <1>0, <3>1, <3>2 DEF Bucket
  <2>3. Midnight[d] < at /\ head < Midnight[d + 1]
    BY <1>1, <2>2 DEF SplitSecs, Earlier, Later
  <2>4. Midnight[d] < now /\ mem.last_ts < Midnight[d + 1] /\ mem.last_ts < now
    BY <1>0, <1>1, <2>1, <2>3
  <2>5. mem.last_updated_day < d
    <3> SUFFICES ASSUME d <= mem.last_updated_day PROVE FALSE
      BY <1>1 DEF Day
    <3>1. d + 1 <= mem.last_updated_day + 1 /\ d + 1 \in 0..(LastDay + 1)
      <4>1. d \in 0..LastDay /\ LastDay \in Nat
        BY LocalDaysAssumption DEF Day
      <4> QED
        BY <1>1, <4>1
    <3>2. Midnight[d + 1] <= Midnight[mem.last_updated_day + 1]
      BY <1>1, <3>1, MidnightMonotone
    <3> QED
      BY <1>1, <2>3, <3>2
  <2>6. today <= d
    <3>0. d \in Nat /\ today \in Nat /\ DayOf(now) \in Nat
      <4>1. \A e \in Day : e \in Nat
        BY LocalDaysAssumption DEF Day
      <4> QED
        BY <1>0, <4>1
    <3>1. CASE today - 1 <= mem.last_updated_day
      BY <1>1, <2>5, <3>0, <3>1
    <3>2. CASE KeepDays = 0
      <4>1. Cutoff(now) = DayOf(now)
        BY <3>0, <3>2 DEF Cutoff, Later
      <4> QED
        BY <1>0, <3>0, <4>1
    <3> QED
      BY <3>1, <3>2 DEF Tracing, Covered
  <2>7. Occupied(d, committed, line)
    BY <2>4, <2>6 DEF Tracing, Recalled, Held
  <2> QED
    BY <2>4, <2>7, OccupiedStays
<1> QED
  BY <1>2, <1>3

(* So does the backfill.                                                   *)
LEMMA BackfillTraced ==
    ASSUME IInv, Lagging, NEW d \in Day, d < DayOf(now), NEW dur,
           BackfillBlocks(line, d, dur) # EmptyDay
    PROVE  Midnight[d] < now /\ Occupied(d, committed, line)
<1>1. /\ now \in Time /\ now \in Nat /\ committed \in Nat
      /\ line \in [Time -> Names \cup {NoState}] /\ Midnight[d] \in Nat
  <2>1. now \in Time /\ committed \in Time /\ line \in [Time -> Names \cup {NoState}]
    BY DEF IInv, TypeOK
  <2>2. Midnight[d] \in Nat
    BY MidnightNat, LocalDaysAssumption DEF Day
  <2> QED
    BY <2>1, <2>2, LocalDaysAssumption DEF Time
<1>2. /\ Midnight[d + 1] \in Time /\ Midnight[d + 1] \in Nat
      /\ Midnight[d + 1] <= now /\ Midnight[d] < Midnight[d + 1]
  <2>1. Midnight[d + 1] \in Nat
    BY MidnightNat, LocalDaysAssumption DEF Day
  <2> QED
    BY <1>1, <2>1, ClosedDay
<1>3. PICK t \in Time : Midnight[d] <= t /\ t < Midnight[d + 1] /\ line[t] # NoState
  BY <1>1, <1>2, NothingIsTold
<1>4. t <= committed
  <2>1. t \in Nat
    BY LocalDaysAssumption DEF Time
  <2> QED
    BY <1>1, <1>2, <1>3, <2>1 DEF Lagging
<1> QED
  BY <1>1, <1>2, <1>3, <1>4 DEF Occupied

(* No step of Tracker leaves a bucket that traces back to nothing.         *)
LEMMA NextTracing ==
    ASSUME PlainSetting, MaxLag <= 1, IInv, Rebuilding, Tracing, [Next]_vars
    PROVE  Tracing'
<1>0. /\ now \in Time /\ now' \in Time /\ now \in Nat /\ now' \in Nat
      /\ mem \in Ledger /\ disk \in Ledger /\ saving \in Ledger \cup {NoSave}
      /\ mem' \in Ledger /\ changed \in Time
      /\ Lagging /\ now <= now' /\ BackfillPlace
      /\ DayOf(now) \in Day /\ day \in 0..(LastDay + 1) /\ today <= DayOf(now) /\ today \in Day
  BY ClockTypes, NextIInv, PastStays, DayOfInstant DEF IInv, TypeOK, SetupOrder, Rebuilding
<1>a. Surroundings' /\ Anchored' /\ Recalled' /\ Covered' /\ recorder'
  <2>1. recorder'
    BY DEF PlainSetting, Tracing, Next, vars, environment, SetupRuns, Tick, Commit, Transition,
       AttributeUpdate, Load, BackfillReplace, BackfillMark, BackfillDone, FirstRefresh, Subscribe,
       Poll, FlushDone, FlushFails, Unload, Stop, Crash, Boot
  <2> QED
    BY <1>0, <2>1, NextSurroundings, NextAnchored, NextRecalled, NextCovered DEF Tracing
<1> DEFINE T(L) == TracedIn(L, now', committed', line')
(* The ledgers there are stay traced as time and the entity go on.         *)
<1>d. T(mem) /\ T(disk) /\ (saving # NoSave => T(saving))
  <2> SUFFICES ASSUME NEW L, TracedIn(L, now, committed, line) PROVE T(L)
    BY DEF Tracing
  <2> SUFFICES ASSUME NEW d \in Day, Cutoff(now') <= d, L.daily[d] # EmptyDay
               PROVE  Midnight[d] < now' /\ Occupied(d, committed', line')
    BY DEF TracedIn
  <2>1. Cutoff(now) <= Cutoff(now') /\ Cutoff(now) \in Day /\ Cutoff(now') \in Day
    BY <1>0, CutoffMonotone, CutoffDay
  <2>2. Cutoff(now) <= d
    BY <2>1, LocalDaysAssumption DEF Day
  <2>3. Midnight[d] < now /\ Occupied(d, committed, line)
    BY <2>2 DEF TracedIn
  <2>4. Midnight[d] \in Nat
    BY MidnightNat, LocalDaysAssumption DEF Day
  <2> QED
    BY <1>0, <2>3, <2>4, OccupiedStays
<1>e. \A L, M : T(L) /\ (\A d \in Day : M.daily[d] \in {L.daily[d], EmptyDay}) => T(M)
  BY DEF TracedIn
<1>f. ASSUME mem' = mem \/ T(mem'), disk' \in {disk, mem'} \/ T(disk'),
             saving' \in {saving, mem', NoSave}
      PROVE  Tracing'
  BY <1>a, <1>d, <1>f DEF Tracing
<1>g. T(EmptyLedger)
  BY DEF TracedIn, EmptyLedger
<1>1. CASE Tick \/ Commit \/ Boot \/ BackfillDone \/ FlushDone \/ FlushFails \/ UNCHANGED vars
  BY <1>1, <1>d, <1>f DEF Tick, Commit, Boot, BackfillDone, FlushDone, FlushFails, vars
<1>2. ASSUME NEW s, NEW at \in Time, at <= now, now' = now, pc = "live", HandleStateChange(s, at)
      PROVE  T(mem')
  <2>1. CASE mem.last_state = NoState
    <3>1. mem'.daily = mem.daily
      BY <1>0, <1>2, <2>1 DEF HandleStateChange, Ledger
    <3> QED
      BY <1>d, <1>e, <3>1
  <2>2. CASE mem.last_state # NoState
    <3>1. mem'.daily = FoldedDaily(mem, mem.last_state, mem.last_ts, at)
      BY <1>0, <1>2, <2>2 DEF HandleStateChange, Ledger
    <3> QED
      BY <1>0, <1>2, <2>2, <3>1, FoldTraced DEF TracedIn
  <2> QED
    BY <2>1, <2>2
<1>3. ASSUME NEW s \in Live, Transition(s) PROVE Tracing'
  <2>1. now' = now /\ disk' = disk /\ saving' = saving
    BY <1>3 DEF Transition
  <2>2. CASE mem' = mem
    BY <1>f, <2>1, <2>2
  <2>3. CASE pc = "live" /\ HandleStateChange(s, now)
    BY <1>0, <1>2, <1>f, <2>1, <2>3
  <2> QED
    BY <1>3, <2>2, <2>3 DEF Transition
<1>4. CASE AttributeUpdate
  <2>1. /\ now' = now /\ disk' = disk /\ saving' = saving /\ pc = "live" /\ changed <= now
        /\ HandleStateChange(line[now], changed)
    BY <1>4 DEF AttributeUpdate, environment, Tracing, Surroundings
  <2> QED
    BY <1>0, <1>2, <1>f, <2>1
<1>5. CASE Load
  <2> PICK L \in {disk} \cup (IF DiskMayFail THEN {EmptyLedger} ELSE {}) :
        disk' = L /\ mem' = Reconciled(L)
    BY <1>5 DEF Load
  <2>1. T(L) /\ L \in Ledger
    BY <1>0, <1>d, <1>g, EmptyLedgerType
  <2>2. \A d \in Day : mem'.daily[d] \in {L.daily[d], EmptyDay}
    BY <2>1 DEF Reconciled, Ledger, EmptyLedger
  <2> QED
    BY <1>5, <1>e, <1>f, <2>1, <2>2 DEF Load
<1>6. ASSUME Dropped PROVE T(mem') /\ saving' = NoSave
  BY <1>6, <1>g DEF Dropped
<1>7. CASE BackfillReplace
  <2> DEFINE blocks == BackfillBlocks(Visible, day, minDur)
  <2>1. CASE SetupFails
    BY <1>6, <1>f, <2>1 DEF SetupFails
  <2>2. CASE UNCHANGED <<disk, mem, saving>>
    BY <1>f, <2>2
  <2>3. CASE blocks # EmptyDay /\ mem' = ReplaceDay(mem, day, blocks) /\ SaveAndGo("mark")
             /\ UNCHANGED saving
    <3>1. /\ day \in Day /\ day < DayOf(now)
          /\ now' = now /\ line' = line /\ committed' = committed
      BY <1>0, <1>7, LocalDaysAssumption DEF BackfillReplace, Pending, environment, Day
    <3>2. blocks = BackfillBlocks(line, day, minDur)
      BY <1>0, <3>1, VisibleIsTold
    <3>3. Midnight[day] < now' /\ Occupied(day, committed', line')
      BY <1>0, <2>3, <3>1, <3>2, BackfillTraced
    <3> HIDE DEF blocks
    <3>4. \A d \in Day : d # day => mem'.daily[d] = mem.daily[d]
      BY <1>0, <2>3, <3>1 DEF ReplaceDay, Ledger
    <3>5. T(mem')
      BY <1>d, <3>3, <3>4 DEF TracedIn
    <3> QED
      BY <1>f, <2>3, <3>5 DEF SaveAndGo
  <2> HIDE DEF blocks
  <2> QED
    BY <1>7, <2>1, <2>2, <2>3 DEF BackfillReplace, blocks
<1>8. CASE BackfillMark
  <2>1. CASE SetupFails
    BY <1>6, <1>f, <2>1 DEF SetupFails
  <2>2. CASE mem' = [mem EXCEPT !.last_updated_day = day] /\ disk' = mem' /\ saving' = saving
    <3>1. mem'.daily = mem.daily
      BY <1>0, <2>2 DEF Ledger
    <3> QED
      BY <1>d, <1>e, <1>f, <2>2, <3>1
  <2> QED
    BY <1>8, <2>1, <2>2 DEF BackfillMark, SaveAndGo
<1>9. CASE FirstRefresh \/ Poll
  <2>1. /\ \A d \in Day : mem'.daily[d] \in {mem.daily[d], EmptyDay}
        /\ disk' \in {disk, mem'} /\ saving' \in {saving, mem', NoSave}
    BY <1>0, <1>9 DEF FirstRefresh, Poll, Flushed, Pruned, Ledger
  <2> QED
    BY <1>d, <1>e, <1>f, <2>1
<1>10. CASE Subscribe
  <2>1. mem'.daily = mem.daily /\ disk' = disk /\ saving' = saving
    BY <1>0, <1>10 DEF Subscribe, Ledger
  <2> QED
    BY <1>d, <1>e, <1>f, <2>1
<1>11. CASE Unload \/ Stop \/ Crash
  <2>1. disk' \in {mem, disk} /\ Dropped
    BY <1>11 DEF Unload, Stop, Crash
  <2> QED
    BY <1>6, <1>d, <1>f, <2>1
<1> QED
  BY <1>1, <1>3, <1>4, <1>5, <1>7, <1>8, <1>9, <1>10, <1>11 DEF Next, SetupRuns

(* A day at or before the marker holds just what the recorder tells of it, *)
(* through every unload, stop and crash, a failed save or a corrupt file:  *)
(* what the backfill did not write there, no fold wrote either             *)
(* (_async_backfill, _fold_visit's day filter).  Beyond what               *)
(* EveryThresholdRebuilt assumes, no glitch threshold is set and every     *)
(* start finds a recorder.                                                 *)
THEOREM BakedDaysMatch == PlainSetting /\ MaxLag <= 1 /\ Spec => []BakedMatchesRecorder
<1>1. ASSUME PlainSetting, IInv, BookInv, Rebuilding, Tracing PROVE BakedMatchesRecorder
  <2> SUFFICES ASSUME NEW d \in Day, Cutoff(now) <= d, d <= mem.last_updated_day
               PROVE  mem.daily[d] = BackfillBlocks(line, d, minDur)
    BY DEF BakedMatchesRecorder
  <2>0. /\ mem \in Ledger /\ now \in Time /\ line \in [Time -> Names \cup {NoState}]
        /\ DayOf(now) \in Day
    BY <1>1, DayOfInstant DEF IInv, TypeOK
  <2>1. mem.built = minDur /\ minDur = 0
    BY <1>1 DEF BookInv, EmptyLedger, NoDay, Day, Rebuilding, IInv, TypeOK, PlainSetting
  <2>2. BackfillBlocks(line, d, minDur) # EmptyDay => mem.daily[d] = BackfillBlocks(line, d, minDur)
    BY <1>1, <2>1 DEF Rebuilding, Rebuilt, RebuiltIn, Tells
  <2>3. mem.daily[d] # EmptyDay => BackfillBlocks(line, d, minDur) # EmptyDay
    <3> SUFFICES ASSUME mem.daily[d] # EmptyDay PROVE BackfillBlocks(line, d, 0) # EmptyDay
      BY <2>1
    <3>1. d < DayOf(now)
      BY <1>1, <2>0, MarkerType DEF IInv, MarkersPast, MarkerBeforeToday, Day
    <3>2. Midnight[d + 1] \in Time
      BY <2>0, <3>1, ClosedDay
    <3>3. PICK t \in Time : Midnight[d] <= t /\ t < Midnight[d + 1] /\ line[t] # NoState
      BY <1>1 DEF Tracing, TracedIn, Occupied
    <3> QED
      BY <2>0, <3>2, <3>3, StateIsTold
  <2> QED
    BY <2>2, <2>3
<1> SUFFICES ASSUME PlainSetting, MaxLag <= 1 PROVE Spec => []BakedMatchesRecorder
  OBVIOUS
<1>2. Init => BookInv /\ Rebuilding /\ Tracing
  BY InitBookInv, InitRebuilding, InitTracing DEF PlainSetting
<1>3. IInv /\ BookInv /\ Rebuilding /\ Tracing /\ [Next]_vars
        => BookInv' /\ Rebuilding' /\ Tracing'
  BY NextBookInv, NextRebuilding, NextTracing
<1>4. IInv /\ BookInv /\ Rebuilding /\ Tracing => BakedMatchesRecorder
  BY <1>1
<1> QED
  BY <1>2, <1>3, <1>4, Invariance, PTL DEF Spec
-----------------------------------------------------------------------------
(* What a backfill tells of a day full of states.                          *)

\* The instants of day d before t in which f is in state s, and those of them
\* in which a visit of s begins.
Spent(f, d, s, t) == {u \in Midnight[d]..(Midnight[d + 1] - 1) : u < t /\ f[u] = s}
Visits(f, d, s, t) == {u \in Spent(f, d, s, t) : f[u - 1] # s}

\* The row of a bucket that counts them.
Tally(f, d, s, t) ==
    [secs |-> Cardinality(Spent(f, d, s, t)), count |-> Cardinality(Visits(f, d, s, t))]

(* The ends of a day.                                                      *)
LEMMA DayEnds ==
    ASSUME NEW d \in Day
    PROVE  Midnight[d] \in Nat /\ Midnight[d + 1] \in Nat /\ Midnight[d] < Midnight[d + 1]
<1>1. d \in 0..(LastDay + 1) /\ d + 1 \in 0..(LastDay + 1) /\ d < d + 1
  BY LocalDaysAssumption DEF Day
<1> QED
  BY <1>1, MidnightNat, LocalDaysAssumption

(* An instant lies in one day only.                                        *)
LEMMA DayOfWithin ==
    ASSUME NEW t \in Time, NEW d \in Day, Midnight[d] <= t, t < Midnight[d + 1]
    PROVE  DayOf(t) = d
<1>1. DayOf(t) \in Day /\ Midnight[DayOf(t)] <= t /\ d <= DayOf(t)
  BY DayOfInstant, DayOfAfter
<1>2. /\ Midnight[d + 1] \in Nat /\ Midnight[DayOf(t)] \in Nat /\ t \in Nat
      /\ d \in Nat /\ DayOf(t) \in Nat
  BY <1>1, DayEnds, LocalDaysAssumption DEF Day, Time
<1>3. ~(d < DayOf(t))
  <2> SUFFICES ASSUME d < DayOf(t) PROVE FALSE
    OBVIOUS
  <2>1. d + 1 <= DayOf(t) /\ d + 1 \in 0..(LastDay + 1) /\ DayOf(t) \in 0..(LastDay + 1)
    BY <1>1, <1>2, LocalDaysAssumption DEF Day
  <2>2. Midnight[d + 1] <= Midnight[DayOf(t)]
    BY <2>1, MidnightMonotone
  <2> QED
    BY <1>1, <1>2, <2>2
<1> QED
  BY <1>1, <1>2, <1>3

(* The instants of a day that are counted are finitely many.               *)
LEMMA SpentFinite ==
    ASSUME NEW f, NEW d \in Day, NEW s, NEW t
    PROVE  /\ IsFiniteSet(Spent(f, d, s, t)) /\ Cardinality(Spent(f, d, s, t)) \in Nat
           /\ IsFiniteSet(Visits(f, d, s, t)) /\ Cardinality(Visits(f, d, s, t)) \in Nat
<1> DEFINE a == Midnight[d]
           e == Midnight[d + 1]
<1>1. a \in Int /\ e - 1 \in Int
  BY DayEnds
<1>2. Spent(f, d, s, t) \in SUBSET (a..(e - 1)) /\ Visits(f, d, s, t) \in SUBSET (a..(e - 1))
  BY DEF Spent, Visits
<1> HIDE DEF a, e
<1>3. IsFiniteSet(a..(e - 1))
  BY <1>1, FS_Interval
<1> QED
  BY <1>2, <1>3, FS_Subset, FS_CardinalityType

(* None are counted before the day begins.                                 *)
LEMMA EmptyTally ==
    ASSUME NEW f, NEW d \in Day, NEW s, NEW t \in Nat, t <= Midnight[d]
    PROVE  Tally(f, d, s, t) = EmptyRow
<1>1. Spent(f, d, s, t) = {}
  BY DayEnds DEF Spent
<1>2. Visits(f, d, s, t) = {}
  BY <1>1 DEF Visits
<1> QED
  BY <1>1, <1>2, FS_EmptySet DEF Tally, EmptyRow

(* What is counted before t depends on what came before t.                 *)
LEMMA TallyAgrees ==
    ASSUME NEW f, NEW g, NEW d \in Day, NEW s, NEW t \in Time, 0 < Midnight[d], SameBefore(f, g, t)
    PROVE  Tally(f, d, s, t) = Tally(g, d, s, t)
<1>1. \A u \in Midnight[d]..(Midnight[d + 1] - 1) :
        u < t => u \in Time /\ u - 1 \in Time /\ u - 1 < t
  BY DayEnds, LocalDaysAssumption DEF Time
<1>2. \A u \in Midnight[d]..(Midnight[d + 1] - 1) : u < t => f[u] = g[u] /\ f[u - 1] = g[u - 1]
  BY <1>1 DEF SameBefore
<1>3. Spent(f, d, s, t) = Spent(g, d, s, t)
  BY <1>2 DEF Spent
<1>4. Visits(f, d, s, t) = Visits(g, d, s, t)
  BY <1>2, <1>3 DEF Visits, Spent
<1> QED
  BY <1>3, <1>4 DEF Tally

(* After the day nothing more is counted.                                  *)
LEMMA TallyOver ==
    ASSUME NEW f, NEW d \in Day, NEW s, NEW t \in Nat, Midnight[d + 1] <= t
    PROVE  Tally(f, d, s, t) = Tally(f, d, s, Midnight[d + 1])
<1>1. Spent(f, d, s, t) = Spent(f, d, s, Midnight[d + 1])
  BY DayEnds DEF Spent
<1> QED
  BY <1>1 DEF Tally, Visits

(* In a window full of states every instant is given its own state.        *)
LEMMA GivenOwnState ==
    ASSUME NEW f, NEW a \in Nat, NEW e \in Nat, \A u \in a..(e - 1) : f[u] # NoState,
           NEW t \in a..(e - 1)
    PROVE  GivenTo(f, RowsOf(f, a, e), t) = f[t]
<1> DEFINE rows == RowsOf(f, a, e)
           begun == {k \in rows : k <= t}
           m == Max(begun)
<1>1. t \in Nat /\ a <= t /\ t < e
  OBVIOUS
<1>2. a \in begun
  BY <1>1 DEF RowsOf
<1>3. begun \subseteq 0..e /\ \A k \in begun : k \in a..(e - 1) /\ k <= t
  BY <1>1 DEF RowsOf
<1>4. m \in begun /\ \A y \in begun : y <= m
  <2> HIDE DEF begun
  <2> QED
    BY <1>2, <1>3, MaxMember
<1>5. m \in Nat /\ a <= m /\ m <= t
  <2>1. m \in a..(e - 1) /\ m <= t
    BY <1>3, <1>4
  <2> HIDE DEF m
  <2> QED
    BY <1>1, <2>1
<1>6. f[m] = f[t]
  <2> SUFFICES ASSUME f[m] # f[t] PROVE FALSE
    OBVIOUS
  <2> DEFINE T == {u \in m..t : f[u] # f[m]}
  <2> HIDE DEF m
  <2>1. T \subseteq Nat /\ T # {}
    BY <1>1, <1>5
  <2>2. PICK u \in T : \A v \in T : u <= v
    <3> HIDE DEF T
    <3> QED
      BY <2>1, LeastNatural
  <2>3. u \in m..t /\ f[u] # f[m] /\ u \in Nat
    BY <1>5, <2>2
  <2>4. m < u /\ u <= t /\ u - 1 \in m..t /\ ~(u <= u - 1) /\ u \in a..(e - 1)
    <3>1. u # m
      BY <2>3
    <3> QED
      BY <1>1, <1>5, <2>3, <3>1
  <2>5. f[u - 1] = f[m]
    BY <2>2, <2>4
  <2>6. u \in rows
    BY <2>3, <2>4, <2>5 DEF RowsOf
  <2>7. u \in begun
    BY <2>4, <2>6
  <2>8. u <= m
    BY <1>4, <2>7
  <2> QED
    BY <1>5, <2>3, <2>4, <2>8
<1> QED
  BY <1>2, <1>6 DEF GivenTo

(* Of a day that is full of states, and none of them "unavailable", a      *)
(* backfill with no glitch threshold writes each state's instants and the  *)
(* visits that began in the day.                                           *)
LEMMA FullDayIsTallied ==
    ASSUME NEW f, NEW d \in Day, NEW s \in Names, 0 < Midnight[d],
           \A u \in Midnight[d]..(Midnight[d + 1] - 1) : f[u] \notin {NoState, Unavailable}
    PROVE  BackfillBlocks(f, d, 0)[s] = Tally(f, d, s, Midnight[d + 1])
<1> DEFINE a == Midnight[d]
           e == Midnight[d + 1]
           rows == RowsOf(f, a, e)
<1>1. a \in Nat /\ e \in Nat /\ a < e /\ 0 < a
  BY DayEnds
<1> HIDE DEF a, e
<1>2. rows \subseteq a..(e - 1) /\ \A k \in a..(e - 1) : k \in rows <=> k = a \/ f[k] # f[k - 1]
  BY DEF RowsOf, a, e
<1>3. CarryForward(f, a, e) = f
  <2> SUFFICES ASSUME Cardinality(rows) > 1 PROVE f[Max(rows)] # Unavailable
    BY DEF CarryForward
  <2>1. rows \subseteq 0..e
    BY <1>1, <1>2
  <2>2. rows # {}
    BY FS_EmptySet
  <2>3. Max(rows) \in rows
    <3> HIDE DEF rows
    <3> QED
      BY <1>1, <2>1, <2>2, MaxMember
  <2> QED
    BY <1>2, <2>3 DEF a, e
<1>4. Survivors(f, a, e, 0) = rows
  BY <1>1, AllSurvive
<1>5. \A t \in a..(e - 1) : GivenTo(f, rows, t) = f[t]
  BY <1>1, GivenOwnState DEF a, e
<1>6. GivenTo(f, rows, a - 1) = NoState
  <2>1. {k \in rows : k <= a - 1} = {}
    BY <1>1, <1>2
  <2> QED
    BY <2>1 DEF GivenTo
<1> HIDE DEF rows
<1>7. {t \in a..(e - 1) : GivenTo(f, rows, t) = s} = Spent(f, d, s, e)
  <2>1. \A t \in a..(e - 1) : t < e
    BY <1>1
  <2> QED
    BY <1>5, <2>1 DEF Spent, a, e
<1>8. {k \in rows : /\ f[k] = s
                    /\ GivenTo(f, rows, k - 1) # s
                    /\ k = a => ~(a > 0 /\ f[a - 1] = f[a])} = Visits(f, d, s, e)
  <2>1. ASSUME NEW k \in a..(e - 1)
        PROVE  (/\ k \in rows /\ f[k] = s
                /\ GivenTo(f, rows, k - 1) # s
                /\ k = a => ~(a > 0 /\ f[a - 1] = f[a]))
                 <=> k < e /\ f[k] = s /\ f[k - 1] # s
    <3>1. CASE k = a
      BY <1>1, <1>2, <1>6, <3>1, NamesAssumption
    <3>2. CASE k # a
      <4>1. k - 1 \in a..(e - 1) /\ k < e
        BY <1>1, <3>2
      <4> QED
        BY <1>2, <1>5, <3>2, <4>1
    <3> QED
      BY <3>1, <3>2
  <2>2. Visits(f, d, s, e) = {k \in a..(e - 1) : k < e /\ f[k] = s /\ f[k - 1] # s}
    BY DEF Visits, Spent, a, e
  <2> QED
    BY <1>2, <2>1, <2>2
<1>9. Blocks(f, a, e, 0)[s] = Tally(f, d, s, e)
  BY <1>4, <1>7, <1>8 DEF Blocks, Tally
<1> QED
  BY <1>3, <1>9 DEF BackfillBlocks, a, e
-----------------------------------------------------------------------------
(* A day that the tracker watches from its midnight on.                    *)

\* Days that have not begun have no bucket in ledger L.
Ahead(L, t) == \A d \in Day : t <= Midnight[d] => L.daily[d] = EmptyDay

\* A coordinator whose anchor follows the entity since the instant `exact':
\* the anchor is in the entity's state; once moved past `exact' it is where
\* that state began, and no visit of that state was folded last; and of every
\* day that began after `exact' the ledger has just what came before the
\* anchor.
Watching ==
    /\ pc = "live"
    /\ exact <= now
    /\ Midnight[mem.last_updated_day + 1] <= exact
    /\ mem.last_state = line[now]
    /\ changed <= mem.last_ts /\ mem.last_ts <= now
    /\ mem.last_ts > exact =>
          /\ mem.last_ts = changed
          /\ line[mem.last_ts - 1] # mem.last_state
          /\ ~Coalesces(mem.last_state)
    /\ \A t \in exact..now : line[t] \notin {NoState, Unavailable}
    /\ \A d \in Day : exact < Midnight[d] /\ Cutoff(now) <= d =>
          \A s \in Names : mem.daily[d][s] = Tally(line, d, s, mem.last_ts)

Following ==
    /\ Surroundings
    /\ up => line[now] # Unavailable
    /\ Ahead(mem, now)
    /\ Ahead(disk, now)
    /\ saving # NoSave => Ahead(saving, now)
    /\ exact # NoTime => Watching

(* A fold with no glitch threshold adds to each day the seconds of it that *)
(* the visit covers, and at most one visit.                                *)
LEMMA PlainFold ==
    ASSUME IInv, minDur = 0, NEW L \in Ledger, NEW s \in Names,
           NEW start \in Time, NEW end \in Time, NEW d \in Day
    PROVE  LET head == FoldStart(L, start)
               n == SplitSecs(head, end, d)
           IN  FoldedDaily(L, s, start, end)[d]
                 = [L.daily[d] EXCEPT ![s].secs = @ + n,
                                      ![s].count = @ + IF n = 0 THEN 0
                                                       ELSE VisitCount(start, head, s, d)]
<1> DEFINE head == FoldStart(L, start)
           n == SplitSecs(head, end, d)
<1>1. head \in Nat /\ end \in Nat
  BY FoldStartType, LocalDaysAssumption DEF Time
<1>2. L.daily[d] \in Bucket
  BY DEF Ledger
<1>3. CASE head >= end
  <2>1. n = 0
    <3> HIDE DEF head
    <3> QED
      BY <1>1, <1>3, DayEnds DEF SplitSecs, Earlier, Later
  <2>2. FoldedDaily(L, s, start, end) = L.daily
    BY <1>3 DEF FoldedDaily
  <2>3. L.daily[d] = [L.daily[d] EXCEPT ![s].secs = @ + 0, ![s].count = @ + 0]
    BY <1>2 DEF Bucket
  <2> HIDE DEF n, head
  <2>4. FoldedDaily(L, s, start, end)[d]
          = [L.daily[d] EXCEPT ![s].secs = @ + n,
                ![s].count = @ + IF n = 0 THEN 0 ELSE VisitCount(start, head, s, d)]
    BY <2>1, <2>2, <2>3
  <2> QED
    BY <2>4 DEF n, head
<1>4. CASE head < end
  <2>1. ~(head >= end) /\ ~Glitch(L, start, end)
    BY <1>1, <1>4 DEF Glitch
  <2> QED
    BY <2>1 DEF FoldedDaily
<1> QED
  BY <1>1, <1>3, <1>4

(* That is, the seconds of the visit go to its own state.                  *)
LEMMA FoldAdds ==
    ASSUME IInv, minDur = 0, NEW L \in Ledger, NEW s \in Names,
           NEW start \in Time, NEW end \in Time, NEW d \in Day, NEW x \in Names
    PROVE  FoldedDaily(L, s, start, end)[d][x].secs
             = L.daily[d][x].secs
                 + IF x = s THEN SplitSecs(FoldStart(L, start), end, d) ELSE 0
<1> DEFINE head == FoldStart(L, start)
           n == SplitSecs(head, end, d)
           k == IF n = 0 THEN 0 ELSE VisitCount(start, head, s, d)
<1>1. FoldedDaily(L, s, start, end)[d]
        = [L.daily[d] EXCEPT ![s].secs = @ + n, ![s].count = @ + k]
  BY PlainFold
<1>2. L.daily[d] \in Bucket /\ L.daily[d][x].secs \in Nat
  BY DEF Ledger, Bucket
<1> HIDE DEF n, k
<1>3. FoldedDaily(L, s, start, end)[d][x].secs
        = IF x = s THEN L.daily[d][x].secs + n ELSE L.daily[d][x].secs
  BY <1>1, <1>2 DEF Bucket
<1> QED
  BY <1>2, <1>3 DEF n

\* The instants of day d that the anchor's visit has had so far.
Fresh(d) ==
    {u \in Midnight[d]..(Midnight[d + 1] - 1) : mem.last_ts <= u /\ u < now}

(* While the anchor follows the entity, the fold of a visit that ends now  *)
(* adds to a day that began later than the anchor does the instants that   *)
(* the entity's state had there since the anchor.                          *)
LEMMA FoldSpends ==
    ASSUME IInv, Surroundings, Watching, NEW d \in Day, exact < Midnight[d], NEW x \in Names
    PROVE  LET n == SplitSecs(FoldStart(mem, mem.last_ts), now, d)
           IN  /\ IsFiniteSet(Fresh(d)) /\ Cardinality(Fresh(d)) = n /\ n \in Nat
               /\ \A u \in Fresh(d) : line[u] = mem.last_state
               /\ Spent(line, d, x, now)
                    = Spent(line, d, x, mem.last_ts)
                        \cup (IF x = mem.last_state THEN Fresh(d) ELSE {})
               /\ Spent(line, d, x, mem.last_ts) \cap Fresh(d) = {}
               /\ Cardinality(Spent(line, d, x, now))
                    = Cardinality(Spent(line, d, x, mem.last_ts))
                        + IF x = mem.last_state THEN n ELSE 0
<1> DEFINE a == Midnight[d]
           e == Midnight[d + 1]
           q == mem.last_ts
           own == mem.last_state
           head == FoldStart(mem, q)
           n == SplitSecs(head, now, d)
           fresh == {u \in a..(e - 1) : q <= u /\ u < now}
<1>0. /\ a \in Nat /\ e \in Nat /\ a < e /\ now \in Nat /\ now \in Time /\ q \in Nat /\ q \in Time
      /\ exact \in Nat /\ changed \in Nat /\ mem \in Ledger /\ own \in Names
      /\ exact < a
  <2>1. /\ now \in Time /\ q \in Time /\ changed \in Time /\ exact \in 0..NoTime /\ mem \in Ledger
        /\ own \in Names \cup {NoState}
    BY DEF IInv, TypeOK, Ledger
  <2>2. now \in Nat /\ q \in Nat /\ changed \in Nat /\ exact \in Nat
    BY <2>1, LocalDaysAssumption DEF Time, NoTime
  <2>3. own # NoState
    <3>1. now \in exact..now
      BY <2>2 DEF Watching
    <3> QED
      BY <3>1 DEF Watching
  <2> QED
    BY <2>1, <2>2, <2>3, DayEnds
<1> HIDE DEF a, e, q, own
<1>1. /\ head \in Nat /\ q <= head
      /\ q > exact => head = q
      /\ q <= exact => head <= exact
  <2>1. Midnight[mem.last_updated_day + 1] \in Nat
    BY <1>0, MarkerType, MidnightNat
  <2> QED
    BY <1>0, <2>1 DEF FoldStart, Later, Watching
<1> HIDE DEF head
<1>2. n = Later(0, Earlier(now, e) - Later(q, a)) /\ n \in Nat
  BY <1>0, <1>1 DEF SplitSecs, Later, Earlier, a, e
<1> HIDE DEF n
<1>3. fresh = Later(q, a)..(Earlier(now, e) - 1)
  BY <1>0 DEF Later, Earlier
<1>4. IsFiniteSet(fresh) /\ Cardinality(fresh) = n
  <2>1. Later(q, a) \in Int /\ Earlier(now, e) - 1 \in Int
    BY <1>0 DEF Later, Earlier
  <2>2. /\ IsFiniteSet(fresh)
        /\ Cardinality(fresh) = IF Later(q, a) > Earlier(now, e) - 1 THEN 0
                                ELSE Earlier(now, e) - 1 - Later(q, a) + 1
    BY <1>3, <2>1, FS_Interval
  <2>3. Later(q, a) \in Nat /\ Earlier(now, e) \in Nat
    BY <1>0 DEF Later, Earlier
  <2> HIDE DEF fresh
  <2>4. n = IF Later(q, a) > Earlier(now, e) - 1 THEN 0 ELSE Earlier(now, e) - 1 - Later(q, a) + 1
    <3>1. \A i, j \in Nat : Later(0, j - i) = IF i > j - 1 THEN 0 ELSE j - 1 - i + 1
      BY DEF Later
    <3> QED
      BY <1>2, <2>3, <3>1
  <2> QED
    BY <2>2, <2>4
<1>5. \A u \in changed..now : line[u] = own
  BY DEF Surroundings, Watching, own
<1>6. changed <= q /\ q <= now /\ own = line[now]
  BY DEF Watching, q, own
<1>7. \A u \in fresh : line[u] = own
  <2> SUFFICES ASSUME NEW u \in fresh PROVE line[u] = own
    OBVIOUS
  <2>1. u \in Nat /\ q <= u /\ u < now
    BY <1>0
  <2>2. u \in changed..now
    BY <1>0, <1>6, <2>1
  <2> QED
    BY <1>5, <2>2
<1>8. Spent(line, d, x, now) = Spent(line, d, x, q) \cup (IF x = own THEN fresh ELSE {})
  <2>1. \A u \in a..(e - 1) : u < now <=> u < q \/ u \in fresh
    BY <1>0, <1>6
  <2>2. \A u \in fresh : line[u] = own
    BY <1>7
  <2>3. fresh \subseteq a..(e - 1)
    OBVIOUS
  <2> HIDE DEF fresh
  <2> QED
    BY <2>1, <2>2, <2>3 DEF Spent, a, e
<1>9. Spent(line, d, x, q) \cap fresh = {}
  <2>1. \A u \in Spent(line, d, x, q) : u < q /\ u \in Nat
    BY <1>0 DEF Spent, a, e
  <2>2. \A u \in fresh : q <= u
    OBVIOUS
  <2> HIDE DEF fresh
  <2> QED
    BY <1>0, <2>1, <2>2
<1>10. Cardinality(Spent(line, d, x, now))
         = Cardinality(Spent(line, d, x, q)) + IF x = own THEN n ELSE 0
  <2> HIDE DEF fresh
  <2>1. CASE x = own
    BY <1>2, <1>4, <1>8, <1>9, <2>1, SpentFinite, DisjointUnion
  <2>2. CASE x # own
    <3>1. Spent(line, d, x, now) = Spent(line, d, x, q)
      BY <1>8, <2>2
    <3>2. Cardinality(Spent(line, d, x, q)) \in Nat
      BY SpentFinite
    <3> QED
      BY <2>2, <3>1, <3>2
  <2> QED
    BY <2>1, <2>2
<1>11. Fresh(d) = fresh
  BY DEF Fresh, a, e, q
<1> HIDE DEF fresh
<1> QED
  BY <1>2, <1>4, <1>7, <1>8, <1>9, <1>10, <1>11 DEF n, head, own, q

(* While the anchor follows the entity, the fold of a visit that ends now  *)
(* brings a day's bucket from the anchor to now.                           *)
LEMMA FoldFollows ==
    ASSUME Thresholds \subseteq {0}, IInv, Surroundings, Watching,
           NEW d \in Day, exact < Midnight[d], Cutoff(now) <= d, NEW x \in Names
    PROVE  FoldedDaily(mem, mem.last_state, mem.last_ts, now)[d][x] = Tally(line, d, x, now)
<1> DEFINE a == Midnight[d]
           e == Midnight[d + 1]
           q == mem.last_ts
           own == mem.last_state
           head == FoldStart(mem, q)
           n == SplitSecs(head, now, d)
           fresh == Fresh(d)
           begins == IF q > exact /\ q \in fresh THEN {q} ELSE {}
<1>0. /\ a \in Nat /\ e \in Nat /\ a < e /\ now \in Nat /\ now \in Time /\ q \in Nat /\ q \in Time
      /\ exact \in Nat /\ changed \in Nat /\ mem \in Ledger /\ own \in Names /\ minDur = 0
      /\ exact < a
  <2>1. /\ now \in Time /\ q \in Time /\ changed \in Time /\ exact \in 0..NoTime /\ mem \in Ledger
        /\ own \in Names \cup {NoState} /\ minDur \in Thresholds
    BY DEF IInv, TypeOK, Ledger
  <2>2. now \in Nat /\ q \in Nat /\ changed \in Nat /\ exact \in Nat
    BY <2>1, LocalDaysAssumption DEF Time, NoTime
  <2>3. own # NoState
    <3>1. now \in exact..now
      BY <2>2 DEF Watching
    <3> QED
      BY <3>1 DEF Watching
  <2> QED
    BY <2>1, <2>2, <2>3, DayEnds
<1> HIDE DEF a, e, q, own
<1>1. /\ head \in Nat /\ q <= head
      /\ q > exact => head = q
      /\ q <= exact => head <= exact
  <2>1. Midnight[mem.last_updated_day + 1] \in Nat
    BY <1>0, MarkerType, MidnightNat
  <2> QED
    BY <1>0, <2>1 DEF FoldStart, Later, Watching
<1> HIDE DEF head
<1>2. n = Later(0, Earlier(now, e) - Later(q, a)) /\ n \in Nat
  BY <1>0, <1>1 DEF SplitSecs, Later, Earlier, a, e
<1> HIDE DEF n
<1>3. \A u \in a..(e - 1) : u \in fresh <=> q <= u /\ u < now
  BY DEF Fresh, a, e, q
<1>4. /\ IsFiniteSet(fresh) /\ Cardinality(fresh) = n
      /\ Spent(line, d, x, now) = Spent(line, d, x, q) \cup (IF x = own THEN fresh ELSE {})
      /\ Spent(line, d, x, q) \cap fresh = {}
      /\ Cardinality(Spent(line, d, x, now))
           = Cardinality(Spent(line, d, x, q)) + IF x = own THEN n ELSE 0
  BY FoldSpends DEF n, head, own, q, a
<1>5. \A u \in changed..now : line[u] = own
  BY DEF Surroundings, Watching, own
<1>6. changed <= q /\ q <= now /\ own = line[now]
  BY DEF Watching, q, own
<1>7. \A u \in fresh : line[u] = own /\ (line[u - 1] # own <=> u = q /\ q > exact)
  <2> TAKE u \in fresh
  <2>1. u \in Nat /\ q <= u /\ u < now /\ a <= u
    <3>1. u \in a..(e - 1)
      BY DEF Fresh, a, e
    <3> QED
      BY <1>0, <1>3, <3>1
  <2>2. u \in changed..now
    BY <1>0, <1>6, <2>1
  <2>3. CASE u = q
    <3>1. q > exact
      BY <1>0, <2>1, <2>3
    <3>2. line[q - 1] # own
      BY <3>1 DEF Watching, q, own
    <3> QED
      BY <1>5, <2>2, <2>3, <3>1, <3>2
  <2>4. CASE u # q
    <3>1. u - 1 \in changed..now
      BY <1>0, <1>6, <2>1, <2>4
    <3> QED
      BY <1>5, <2>2, <2>4, <3>1
  <2> QED
    BY <2>3, <2>4
<1>8. Visits(line, d, x, now) = Visits(line, d, x, q) \cup (IF x = own THEN begins ELSE {})
  <2>1. \A u \in fresh : line[u - 1] # own <=> u \in begins
    BY <1>7
  <2>2. begins \subseteq fresh
    OBVIOUS
  <2> HIDE DEF fresh, begins
  <2> QED
    BY <1>4, <2>1, <2>2 DEF Visits
<1>9. Visits(line, d, x, q) \cap begins = {}
  <2>1. Visits(line, d, x, q) \subseteq Spent(line, d, x, q) /\ begins \subseteq fresh
    BY DEF Visits
  <2> QED
    BY <1>4, <2>1
<1>10. IsFiniteSet(begins) /\ Cardinality(begins) \in Nat
  <2>1. begins = {} \/ begins = {q}
    OBVIOUS
  <2> HIDE DEF begins
  <2>2. CASE begins = {}
    BY <2>2, FS_EmptySet
  <2>3. CASE begins = {q}
    <3>1. IsFiniteSet({q}) /\ Cardinality({q}) = 1
      BY FS_Singleton
    <3> QED
      BY <2>3, <3>1
  <2> QED
    BY <2>1, <2>2, <2>3
<1>11. Cardinality(Visits(line, d, x, now))
         = Cardinality(Visits(line, d, x, q)) + IF x = own THEN Cardinality(begins) ELSE 0
  <2> HIDE DEF begins
  <2>1. CASE x = own
    BY <1>8, <1>9, <1>10, <2>1, SpentFinite, DisjointUnion
  <2>2. CASE x # own
    <3>1. Visits(line, d, x, now) = Visits(line, d, x, q)
      BY <1>8, <2>2
    <3>2. Cardinality(Visits(line, d, x, q)) \in Nat
      BY SpentFinite
    <3> QED
      BY <2>2, <3>1, <3>2
  <2> QED
    BY <2>1, <2>2
<1>12. Cardinality(begins) = IF n = 0 THEN 0 ELSE VisitCount(q, head, own, d)
  <2>1. CASE n = 0
    <3>1. fresh = {}
      <4> HIDE DEF fresh
      <4> QED
        BY <1>4, <2>1, FS_EmptySet
    <3> QED
      BY <2>1, <3>1, FS_EmptySet
  <2>2. CASE n # 0 /\ q > exact
    <3>1. ~Coalesces(own)
      BY <2>2 DEF Watching, q, own
    <3>2. head = q
      BY <1>1, <2>2
    <3>3. q < now /\ q < e
      BY <1>0, <1>2, <2>2 DEF Later, Earlier
    <3>4. d = DayOf(q) <=> q \in fresh
      <4>1. d = DayOf(q) => a <= q
        BY <1>0, DayOfInstant DEF a
      <4>2. a <= q => d = DayOf(q)
        BY <1>0, <3>3, DayOfWithin DEF a, e
      <4>3. q \in fresh <=> a <= q
        <5>1. fresh \subseteq a..(e - 1) /\ (q \in a..(e - 1) <=> a <= q)
          BY <1>0, <3>3 DEF Fresh, a, e
        <5> QED
          BY <1>0, <1>3, <3>3, <5>1
      <4> QED
        BY <4>1, <4>2, <4>3
    <3> HIDE DEF fresh
    <3>5. VisitCount(q, head, own, d) = IF q \in fresh THEN 1 ELSE 0
      BY <3>1, <3>2, <3>4 DEF VisitCount
    <3> QED
      BY <2>2, <3>5, FS_Singleton, FS_EmptySet
  <2>3. CASE n # 0 /\ q <= exact
    <3>1. head \in Time /\ head < a
      <4>1. head <= exact /\ exact <= now
        BY <1>1, <2>3 DEF Watching
      <4> QED
        BY <1>0, <1>1, <4>1, LocalDaysAssumption DEF Time
    <3>2. d # DayOf(head)
      BY <1>0, <1>1, <3>1, DayOfInstant DEF a
    <3>3. VisitCount(q, head, own, d) = 0
      BY <3>2 DEF VisitCount
    <3>4. begins = {}
      BY <1>0, <2>3
    <3> QED
      BY <2>3, <3>3, <3>4, FS_EmptySet
  <2> QED
    BY <1>0, <2>1, <2>2, <2>3
<1>13. mem.daily[d][x] = Tally(line, d, x, q)
  BY DEF Watching, q
<1>14. FoldedDaily(mem, own, q, now)[d]
         = [mem.daily[d] EXCEPT ![own].secs = @ + n,
                ![own].count = @ + IF n = 0 THEN 0 ELSE VisitCount(q, head, own, d)]
  BY <1>0, PlainFold DEF head, n
<1>15. mem.daily[d] \in Bucket
  BY <1>0 DEF Ledger
<1> HIDE DEF begins, fresh
<1> DEFINE k == IF n = 0 THEN 0 ELSE VisitCount(q, head, own, d)
<1>16. k \in Nat /\ k = Cardinality(begins)
  BY <1>10, <1>12
<1> HIDE DEF k
<1>17. FoldedDaily(mem, own, q, now)[d]
         = [mem.daily[d] EXCEPT ![own].secs = @ + n, ![own].count = @ + k]
  BY <1>14 DEF k
<1>18. FoldedDaily(mem, own, q, now)[d][x]
         = [secs |-> mem.daily[d][x].secs + IF x = own THEN n ELSE 0,
            count |-> mem.daily[d][x].count + IF x = own THEN k ELSE 0]
  BY <1>0, <1>2, <1>15, <1>16, <1>17 DEF Bucket
<1>19. FoldedDaily(mem, own, q, now)[d][x] = Tally(line, d, x, now)
  BY <1>4, <1>11, <1>13, <1>16, <1>18 DEF Tally
<1> QED
  BY <1>19 DEF own, q

(* It holds at the start.                                                  *)
LEMMA InitFollowing == Unavailable \notin Live /\ Init => Following
<1> SUFFICES ASSUME Unavailable \notin Live, Init PROVE Following
  OBVIOUS
<1>1. Ahead(EmptyLedger, now)
  BY DEF Ahead, EmptyLedger
<1>2. Surroundings
  BY DEF Init, Surroundings
<1>3. line[now] \in Live \cup {NoState}
  BY LocalDaysAssumption DEF Init, Time
<1>4. line[now] # Unavailable
  BY <1>3, NamesAssumption DEF Names
<1> QED
  BY <1>1, <1>2, <1>4 DEF Init, Following

(* No step gives a bucket to a day that has not begun.                     *)
LEMMA NextAhead ==
    ASSUME Thresholds \subseteq {0}, IInv, Following, [Next]_vars
    PROVE  /\ Ahead(mem', now')
           /\ Ahead(disk', now')
           /\ saving' # NoSave => Ahead(saving', now')
<1>0. /\ now \in Time /\ now \in Nat /\ now' \in Nat /\ now <= now'
      /\ mem \in Ledger /\ disk \in Ledger /\ saving \in Ledger \cup {NoSave} /\ mem' \in Ledger
      /\ changed \in Time /\ minDur = 0 /\ today <= DayOf(now) /\ today \in Day
      /\ DayOf(now) \in Day /\ day \in 0..(LastDay + 1)
  <2>1. /\ mem' \in Ledger /\ minDur \in Thresholds
    BY NextIInv DEF IInv, TypeOK
  <2>2. now <= now'
    <3>1. now' = now \/ now' = now + 1
      BY DEF Next, vars, environment, SetupRuns, Tick, Commit, Transition,
         AttributeUpdate, Load, BackfillReplace, BackfillMark, BackfillDone, FirstRefresh,
         Subscribe, Poll, FlushDone, FlushFails, Unload, Stop, Crash, Boot
    <3> QED
      BY <3>1, ClockTypes
  <2> QED
    BY <2>1, <2>2, ClockTypes, DayOfInstant DEF IInv, TypeOK, SetupOrder
<1> DEFINE B(L) == Ahead(L, now')
<1>d. B(mem) /\ B(disk) /\ (saving # NoSave => B(saving))
  <2> SUFFICES ASSUME NEW L, Ahead(L, now) PROVE B(L)
    BY DEF Following
  <2>1. \A d \in Day : now' <= Midnight[d] => now <= Midnight[d]
    BY <1>0, DayEnds
  <2> QED
    BY <2>1 DEF Ahead
<1>e. \A L, M : B(L) /\ (\A d \in Day : M.daily[d] \in {L.daily[d], EmptyDay}) => B(M)
  BY DEF Ahead
<1> DEFINE Remains == B(mem') /\ B(disk') /\ (saving' # NoSave => B(saving'))
<1>f. ASSUME mem' = mem \/ B(mem'), disk' \in {disk, mem'} \/ B(disk'),
             saving' \in {saving, mem', NoSave}
      PROVE  Remains
  BY <1>d, <1>f
<1>g. B(EmptyLedger)
  BY DEF Ahead, EmptyLedger
<1>1. CASE Tick \/ Commit \/ Boot \/ BackfillDone \/ FlushDone \/ FlushFails \/ UNCHANGED vars
  BY <1>1, <1>d, <1>f DEF Tick, Commit, Boot, BackfillDone, FlushDone, FlushFails, vars
<1>2. ASSUME NEW s, NEW at \in Time, at <= now, now' = now, HandleStateChange(s, at)
      PROVE  B(mem')
  <2> SUFFICES ASSUME NEW d \in Day, now <= Midnight[d] PROVE mem'.daily[d] = EmptyDay
    BY <1>2 DEF Ahead
  <2>1. mem.daily[d] = EmptyDay
    BY DEF Following, Ahead
  <2>2. CASE mem.last_state = NoState
    BY <1>0, <1>2, <2>1, <2>2 DEF HandleStateChange, Ledger
  <2>3. CASE mem.last_state # NoState
    <3> DEFINE head == FoldStart(mem, mem.last_ts)
    <3>1. mem.last_state \in Names /\ mem.last_ts \in Time
      BY <1>0, <2>3 DEF Ledger
    <3>2. mem'.daily = FoldedDaily(mem, mem.last_state, mem.last_ts, at)
      BY <1>0, <1>2, <2>3 DEF HandleStateChange, Ledger
    <3>3. SplitSecs(head, at, d) = 0
      <4>1. head \in Nat /\ at \in Nat /\ at <= Midnight[d]
        <5>1. head \in Nat
          BY <1>0, <3>1, FoldStartType
        <5>2. at \in Nat
          BY LocalDaysAssumption DEF Time
        <5> HIDE DEF head
        <5> QED
          BY <1>0, <1>2, <5>1, <5>2, DayEnds
      <4> HIDE DEF head
      <4> QED
        BY <4>1, DayEnds DEF SplitSecs, Earlier, Later
    <3>4. mem'.daily[d] = [mem.daily[d] EXCEPT ![mem.last_state].secs = @ + 0,
                                               ![mem.last_state].count = @ + 0]
      BY <1>0, <1>2, <3>1, <3>2, <3>3, PlainFold
    <3>5. mem.daily[d] \in Bucket
      BY <1>0 DEF Ledger
    <3>6. mem'.daily[d] = mem.daily[d]
      BY <3>1, <3>4, <3>5 DEF Bucket
    <3> QED
      BY <2>1, <3>6
  <2> QED
    BY <2>2, <2>3
<1>3. ASSUME NEW s \in Live, Transition(s) PROVE Remains
  <2>1. now' = now /\ disk' = disk /\ saving' = saving
    BY <1>3 DEF Transition
  <2>2. CASE mem' = mem
    BY <1>f, <2>1, <2>2
  <2>3. CASE HandleStateChange(s, now)
    BY <1>0, <1>2, <1>f, <2>1, <2>3
  <2> QED
    BY <1>3, <2>2, <2>3 DEF Transition
<1>4. CASE AttributeUpdate
  <2>1. /\ now' = now /\ disk' = disk /\ saving' = saving /\ changed <= now
        /\ HandleStateChange(line[now], changed)
    BY <1>4 DEF AttributeUpdate, environment, Following, Surroundings
  <2> QED
    BY <1>0, <1>2, <1>f, <2>1
<1>5. CASE Load
  <2> PICK L \in {disk} \cup (IF DiskMayFail THEN {EmptyLedger} ELSE {}) :
        disk' = L /\ mem' = Reconciled(L)
    BY <1>5 DEF Load
  <2>1. B(L) /\ L \in Ledger
    BY <1>0, <1>d, <1>g, EmptyLedgerType
  <2>2. \A d \in Day : mem'.daily[d] \in {L.daily[d], EmptyDay}
    BY <2>1 DEF Reconciled, Ledger, EmptyLedger
  <2> QED
    BY <1>5, <1>e, <1>f, <2>1, <2>2 DEF Load
<1>6. ASSUME Dropped PROVE B(mem') /\ saving' = NoSave
  BY <1>6, <1>g DEF Dropped
<1>7. CASE BackfillReplace
  <2> DEFINE blocks == BackfillBlocks(Visible, day, minDur)
  <2>1. CASE SetupFails
    BY <1>6, <1>f, <2>1 DEF SetupFails
  <2>2. CASE UNCHANGED <<disk, mem, saving>>
    BY <1>f, <2>2
  <2>3. CASE mem' = ReplaceDay(mem, day, blocks) /\ SaveAndGo("mark") /\ UNCHANGED saving
    <3>1. day \in Day /\ day < DayOf(now) /\ now' = now
      BY <1>0, <1>7, LocalDaysAssumption DEF BackfillReplace, Pending, environment, Day
    <3>2. ~(now <= Midnight[day])
      BY <1>0, <3>1, ClosedDay, DayEnds
    <3> HIDE DEF blocks
    <3>3. \A d \in Day : d # day => mem'.daily[d] = mem.daily[d]
      BY <1>0, <2>3, <3>1 DEF ReplaceDay, Ledger
    <3>4. B(mem')
      BY <1>d, <3>1, <3>2, <3>3 DEF Ahead
    <3> QED
      BY <1>f, <2>3, <3>4 DEF SaveAndGo
  <2> HIDE DEF blocks
  <2> QED
    BY <1>7, <2>1, <2>2, <2>3 DEF BackfillReplace, blocks
<1>8. CASE BackfillMark
  <2>1. CASE SetupFails
    BY <1>6, <1>f, <2>1 DEF SetupFails
  <2>2. CASE mem' = [mem EXCEPT !.last_updated_day = day] /\ disk' = mem' /\ saving' = saving
    <3>1. mem'.daily = mem.daily
      BY <1>0, <2>2 DEF Ledger
    <3> QED
      BY <1>d, <1>e, <1>f, <2>2, <3>1
  <2> QED
    BY <1>8, <2>1, <2>2 DEF BackfillMark, SaveAndGo
<1>9. CASE FirstRefresh \/ Poll
  <2>1. /\ \A d \in Day : mem'.daily[d] \in {mem.daily[d], EmptyDay}
        /\ disk' \in {disk, mem'} /\ saving' \in {saving, mem', NoSave}
    BY <1>0, <1>9 DEF FirstRefresh, Poll, Flushed, Pruned, Ledger
  <2> QED
    BY <1>d, <1>e, <1>f, <2>1
<1>10. CASE Subscribe
  <2>1. mem'.daily = mem.daily /\ disk' = disk /\ saving' = saving
    BY <1>0, <1>10 DEF Subscribe, Ledger
  <2> QED
    BY <1>d, <1>e, <1>f, <2>1
<1>11. CASE Unload \/ Stop \/ Crash
  <2>1. disk' \in {mem, disk} /\ Dropped
    BY <1>11 DEF Unload, Stop, Crash
  <2> QED
    BY <1>6, <1>d, <1>f, <2>1
<1> QED
  BY <1>1, <1>3, <1>4, <1>5, <1>7, <1>8, <1>9, <1>10, <1>11 DEF Next, SetupRuns

(* A coordinator that is told the entity's state for the first time        *)
(* follows it from then on.                                                *)
LEMMA WatchingBegins ==
    ASSUME IInv, exact' = now, now' = now, pc' = "live",
           mem'.last_updated_day = mem.last_updated_day, mem'.last_state = line'[now],
           mem'.last_ts \in Time, changed' <= mem'.last_ts, mem'.last_ts <= now,
           line'[now] \notin {NoState, Unavailable}, Ahead(mem', now)
    PROVE  Watching'
<1>1. /\ now \in Time /\ now \in Nat /\ mem.last_updated_day < DayOf(now) /\ mem \in Ledger
      /\ DayOf(now) \in Day /\ Midnight[DayOf(now)] <= now
  BY DayOfInstant, LocalDaysAssumption DEF IInv, TypeOK, MarkersPast, MarkerBeforeToday, Time
<1>2. Midnight[mem.last_updated_day + 1] <= now
  <2>1. /\ mem.last_updated_day + 1 \in 0..(LastDay + 1) /\ DayOf(now) \in 0..(LastDay + 1)
        /\ mem.last_updated_day + 1 <= DayOf(now)
    BY <1>1, MarkerType, LocalDaysAssumption DEF Day
  <2>2. Midnight[mem.last_updated_day + 1] <= Midnight[DayOf(now)]
    BY <2>1, MidnightMonotone
  <2> QED
    BY <1>1, <2>1, <2>2, MidnightNat
<1>3. mem'.last_ts \in Nat
  BY LocalDaysAssumption DEF Time
<1>4. \A t \in now..now : t = now
  BY <1>1
<1>5. \A d \in Day : now < Midnight[d] =>
        \A s \in Names : mem'.daily[d][s] = Tally(line', d, s, mem'.last_ts)
  <2> SUFFICES ASSUME NEW d \in Day, now < Midnight[d], NEW s \in Names
               PROVE  mem'.daily[d][s] = Tally(line', d, s, mem'.last_ts)
    OBVIOUS
  <2>1. now <= Midnight[d] /\ mem'.last_ts <= Midnight[d]
    BY <1>1, <1>3, DayEnds
  <2>2. mem'.daily[d] = EmptyDay
    BY <2>1 DEF Ahead
  <2> QED
    BY <1>3, <2>1, <2>2, EmptyTally DEF EmptyDay
<1> QED
  BY <1>1, <1>2, <1>3, <1>4, <1>5 DEF Watching

(* It goes on following the entity when the entity takes another state.    *)
LEMMA WatchingTransition ==
    ASSUME Thresholds \subseteq {0}, Unavailable \notin Live, IInv, Surroundings, Watching,
           NEW s \in Live, Transition(s), pc = "live", HandleStateChange(s, now)
    PROVE  Watching'
<1> DEFINE q == mem.last_ts
           own == mem.last_state
           head == FoldStart(mem, q)
<1>0. /\ now \in Time /\ now \in Nat /\ now > 0 /\ exact \in Nat /\ exact <= now /\ changed \in Nat
      /\ mem \in Ledger /\ q \in Time /\ q \in Nat /\ own \in Names /\ own = line[now]
      /\ changed <= q /\ q <= now /\ minDur = 0
      /\ line \in [Time -> Names \cup {NoState}] /\ s # own /\ s \notin {NoState, Unavailable}
      /\ line[now - 1] = own
  <2>1. /\ now \in Time /\ q \in Time /\ exact \in 0..NoTime /\ mem \in Ledger
        /\ own \in Names \cup {NoState} /\ minDur \in Thresholds /\ changed \in Time
        /\ line \in [Time -> Names \cup {NoState}]
    BY DEF IInv, TypeOK, Ledger
  <2>2. now \in Nat /\ q \in Nat /\ exact \in Nat /\ changed \in Nat
    BY <2>1, LocalDaysAssumption DEF Time, NoTime
  <2>3. now \in exact..now
    BY <2>2 DEF Watching
  <2>4. s \notin {NoState, Unavailable}
    BY TrackerAssumption, NamesAssumption
  <2> HIDE DEF q, own
  <2> QED
    BY <2>1, <2>2, <2>3, <2>4 DEF Watching, Transition, FreshInstant, q, own
<1>1. /\ now' = now /\ pc' = "live" /\ changed' = now /\ line' = [line EXCEPT ![now] = s]
      /\ line'[now] = s /\ \A t \in Time : t # now => line'[t] = line[t]
  BY <1>0 DEF Transition
<1>2. exact' = exact
  BY <1>0 DEF HandleStateChange, Earlier
<1>3. /\ mem'.last_state = s /\ mem'.last_ts = now
      /\ mem'.last_updated_day = mem.last_updated_day
      /\ mem'.daily = FoldedDaily(mem, own, q, now)
      /\ lastFold' = FoldedLast(mem, own, q, now)
  BY <1>0, NamesAssumption DEF HandleStateChange, Ledger
<1> HIDE DEF q, own
<1>4. ASSUME now > exact
      PROVE  line'[now - 1] # s /\ ~(lastFold' # NoFold /\ lastFold'.state = s)
  <2>1. now - 1 \in Time /\ line'[now - 1] = own
    BY <1>0, <1>1, LocalDaysAssumption DEF Time
  <2>2. head \in Nat /\ head < now
    <3>1. Midnight[mem.last_updated_day + 1] \in Nat /\ Midnight[mem.last_updated_day + 1] <= exact
      BY <1>0, MarkerType, MidnightNat DEF Watching
    <3>2. q # now
      <4> SUFFICES ASSUME q = now PROVE FALSE
        OBVIOUS
      <4>1. line[q - 1] # own
        BY <1>4 DEF Watching, q, own
      <4> QED
        BY <1>0, <4>1
    <3> QED
      BY <1>0, <1>4, <3>1, <3>2 DEF FoldStart, Later
  <2>3. ~(head >= now) /\ ~Glitch(mem, q, now)
    BY <1>0, <2>2 DEF Glitch
  <2> HIDE DEF head
  <2>4. lastFold' = IF Coalesces(own) THEN lastFold ELSE [state |-> own, day |-> DayOf(head)]
    BY <1>3, <2>3 DEF FoldedLast, head
  <2>5. ~(lastFold' # NoFold /\ lastFold'.state = s)
    BY <1>0, <2>4 DEF Coalesces
  <2> QED
    BY <1>0, <2>1, <2>5
<1>5. \A t \in exact..now : line'[t] \notin {NoState, Unavailable}
  <2> TAKE t \in exact..now
  <2>1. CASE t = now
    BY <1>0, <1>1, <2>1
  <2>2. CASE t # now
    <3>1. t \in Time
      BY <1>0, LocalDaysAssumption DEF Time
    <3> QED
      BY <1>1, <2>2, <3>1 DEF Watching
  <2> QED
    BY <2>1, <2>2
<1>6. ASSUME NEW d \in Day, exact < Midnight[d], Cutoff(now) <= d, NEW x \in Names
      PROVE  mem'.daily[d][x] = Tally(line', d, x, now)
  <2>1. mem'.daily[d][x] = Tally(line, d, x, now)
    BY <1>3, <1>6, FoldFollows DEF q, own
  <2>2. SameBefore(line, line', now)
    BY <1>0, <1>1 DEF SameBefore
  <2>3. 0 < Midnight[d]
    BY <1>0, <1>6, DayEnds
  <2> QED
    BY <1>0, <2>1, <2>2, <2>3, TallyAgrees
<1>7. Midnight[mem.last_updated_day + 1] <= exact
  BY DEF Watching
<1>8. mem'.last_ts > exact' =>
        /\ line'[mem'.last_ts - 1] # mem'.last_state
        /\ ~(lastFold' # NoFold /\ lastFold'.state = mem'.last_state)
  BY <1>2, <1>3, <1>4
<1>9. /\ pc' = "live" /\ exact' <= now'
      /\ Midnight[mem'.last_updated_day + 1] <= exact'
      /\ mem'.last_state = line'[now']
      /\ changed' <= mem'.last_ts /\ mem'.last_ts <= now' /\ mem'.last_ts = changed'
  BY <1>0, <1>1, <1>2, <1>3, <1>7
<1>10. \A t \in exact'..now' : line'[t] \notin {NoState, Unavailable}
  BY <1>1, <1>2, <1>5
<1>11. Cutoff(now)' = Cutoff(now)
  BY <1>1 DEF Cutoff
<1>12. \A d \in Day : exact' < Midnight[d] /\ Cutoff(now)' <= d =>
         \A x \in Names : mem'.daily[d][x] = Tally(line', d, x, mem'.last_ts)
  BY <1>2, <1>3, <1>6, <1>11
<1> QED
  BY <1>8, <1>9, <1>10, <1>12 DEF Watching, Coalesces

(* Nor does an event of an attribute alone disturb it.                     *)
LEMMA WatchingAttribute ==
    ASSUME Thresholds \subseteq {0}, IInv, Surroundings, Watching, AttributeUpdate
    PROVE  Watching'
<1> DEFINE q == mem.last_ts
           own == mem.last_state
           head == FoldStart(mem, q)
<1>0. /\ now \in Nat /\ exact \in Nat /\ exact <= now /\ changed \in Nat /\ changed \in Time
      /\ mem \in Ledger /\ q \in Time /\ q \in Nat /\ own \in Names /\ own = line[now]
      /\ changed <= q /\ q <= now
  <2>1. /\ now \in Time /\ q \in Time /\ exact \in 0..NoTime /\ mem \in Ledger
        /\ own \in Names \cup {NoState} /\ changed \in Time
    BY DEF IInv, TypeOK, Ledger
  <2>2. now \in Nat /\ q \in Nat /\ exact \in Nat /\ changed \in Nat
    BY <2>1, LocalDaysAssumption DEF Time, NoTime
  <2>3. own # NoState
    BY DEF Watching, AttributeUpdate
  <2> HIDE DEF q, own
  <2> QED
    BY <2>1, <2>2, <2>3 DEF Watching, q, own
<1>1. /\ now' = now /\ line' = line /\ changed' = changed /\ pc' = "live"
      /\ HandleStateChange(line[now], changed)
  BY DEF AttributeUpdate, environment, Watching
<1>2. exact' = exact
  BY <1>0, <1>1 DEF HandleStateChange, Earlier
<1>3. head >= changed
  BY <1>0, FoldStartType
<1>4. /\ FoldedDaily(mem, own, q, changed) = mem.daily
      /\ FoldedLast(mem, own, q, changed) = lastFold
  BY <1>3 DEF FoldedDaily, FoldedLast
<1>5. /\ mem'.last_state = own /\ mem'.last_ts = changed /\ mem'.daily = mem.daily
      /\ mem'.last_updated_day = mem.last_updated_day /\ lastFold' = lastFold
  BY <1>0, <1>1, <1>4, NamesAssumption DEF HandleStateChange, Ledger
<1> HIDE DEF q, own
<1>6. changed > exact => q = changed
  BY <1>0 DEF Watching, q
<1>7. mem'.last_ts > exact' =>
        /\ line'[mem'.last_ts - 1] # mem'.last_state
        /\ ~(lastFold' # NoFold /\ lastFold'.state = mem'.last_state)
  BY <1>1, <1>2, <1>5, <1>6 DEF Watching, Coalesces, q, own
<1>8. ASSUME NEW d \in Day, exact < Midnight[d], Cutoff(now) <= d, NEW x \in Names
      PROVE  mem'.daily[d][x] = Tally(line, d, x, changed)
  <2>1. mem.daily[d][x] = Tally(line, d, x, q)
    BY <1>8 DEF Watching, q
  <2>2. CASE q = changed
    BY <1>5, <2>1, <2>2
  <2>3. CASE q # changed
    <3>1. q <= Midnight[d] /\ changed <= Midnight[d]
      BY <1>0, <1>8, <2>3, DayEnds DEF Watching, q
    <3> QED
      BY <1>0, <1>5, <2>1, <3>1, EmptyTally
  <2> QED
    BY <2>2, <2>3
<1>9. /\ pc' = "live" /\ exact' <= now'
      /\ Midnight[mem'.last_updated_day + 1] <= exact'
      /\ mem'.last_state = line'[now']
      /\ changed' <= mem'.last_ts /\ mem'.last_ts <= now' /\ mem'.last_ts = changed'
  BY <1>0, <1>1, <1>2, <1>5 DEF Watching
<1>10. \A t \in exact'..now' : line'[t] \notin {NoState, Unavailable}
  BY <1>1, <1>2 DEF Watching
<1>11. Cutoff(now)' = Cutoff(now)
  BY <1>1 DEF Cutoff
<1>12. \A d \in Day : exact' < Midnight[d] /\ Cutoff(now)' <= d =>
         \A x \in Names : mem'.daily[d][x] = Tally(line', d, x, mem'.last_ts)
  BY <1>1, <1>2, <1>5, <1>8, <1>11
<1> QED
  BY <1>7, <1>9, <1>10, <1>12 DEF Watching, Coalesces

(* Nor the time that passes.                                               *)
LEMMA WatchingTick ==
    ASSUME IInv, Watching, Tick
    PROVE  Watching'
<1>0. /\ now \in Time /\ now \in Nat /\ now' \in Time /\ mem \in Ledger /\ exact \in Nat
      /\ mem.last_ts \in Time /\ mem.last_ts \in Nat /\ exact <= now /\ mem.last_ts <= now
      /\ line \in [Time -> Names \cup {NoState}]
  <2>1. /\ now \in Time /\ mem \in Ledger /\ exact \in 0..NoTime /\ mem.last_ts \in Time
        /\ line \in [Time -> Names \cup {NoState}]
    BY DEF IInv, TypeOK, Ledger
  <2>2. now \in Nat /\ exact \in Nat /\ mem.last_ts \in Nat
    BY <2>1, LocalDaysAssumption DEF Time, NoTime
  <2>3. now' \in Time
    BY ClockTypes DEF Next
  <2> QED
    BY <2>1, <2>2, <2>3 DEF Watching
<1>1. /\ now' = now + 1 /\ line' = [line EXCEPT ![now + 1] = line[now]]
      /\ UNCHANGED <<changed, mem, pc, lastFold, exact>>
  BY DEF Tick
<1>2. line'[now + 1] = line[now] /\ \A t \in Time : t # now + 1 => line'[t] = line[t]
  BY <1>0, <1>1
<1>3. \A t \in Time : t <= now => line'[t] = line[t]
  <2>1. \A t \in Time : t <= now => t # now + 1
    BY <1>0, LocalDaysAssumption DEF Time
  <2> QED
    BY <1>2, <2>1
<1>4. \A t \in exact..now' : line'[t] \notin {NoState, Unavailable}
  <2> TAKE t \in exact..now'
  <2>1. CASE t = now + 1
    <3>1. now \in exact..now
      BY <1>0
    <3> QED
      BY <1>2, <2>1, <3>1 DEF Watching
  <2>2. CASE t # now + 1
    <3>1. t \in exact..now /\ t \in Time /\ t <= now
      BY <1>0, <1>1, <2>2, LocalDaysAssumption DEF Time
    <3> QED
      BY <1>3, <3>1 DEF Watching
  <2> QED
    BY <2>1, <2>2
<1>5. ASSUME mem.last_ts > exact PROVE line'[mem.last_ts - 1] = line[mem.last_ts - 1]
  <2>1. mem.last_ts - 1 \in Time /\ mem.last_ts - 1 <= now
    BY <1>0, <1>5, LocalDaysAssumption DEF Time
  <2> QED
    BY <1>3, <2>1
<1>6. ASSUME NEW d \in Day, exact < Midnight[d], Cutoff(now') <= d, NEW s \in Names
      PROVE  mem.daily[d][s] = Tally(line', d, s, mem.last_ts)
  <2>1. Cutoff(now) <= d
    <3>1. Cutoff(now) <= Cutoff(now') /\ Cutoff(now) \in Day /\ Cutoff(now') \in Day
      BY <1>0, <1>1, CutoffMonotone, CutoffDay
    <3> QED
      BY <1>6, <3>1, LocalDaysAssumption DEF Day
  <2>2. mem.daily[d][s] = Tally(line, d, s, mem.last_ts)
    BY <1>6, <2>1 DEF Watching
  <2>3. SameBefore(line, line', mem.last_ts)
    <3>1. \A t \in Time : t < mem.last_ts => t <= now
      BY <1>0, LocalDaysAssumption DEF Time
    <3> QED
      BY <1>3, <3>1 DEF SameBefore
  <2>4. 0 < Midnight[d]
    BY <1>0, <1>6, DayEnds
  <2> QED
    BY <1>0, <2>2, <2>3, <2>4, TallyAgrees
<1>7. exact <= now' /\ mem.last_ts <= now'
  BY <1>0, <1>1
<1>8. Cutoff(now)' = Cutoff(now')
  BY DEF Cutoff
<1> QED
  BY <1>1, <1>2, <1>4, <1>5, <1>6, <1>7, <1>8 DEF Watching, Coalesces

(* No step of Tracker breaks it.                                           *)
LEMMA NextFollowing ==
    ASSUME Thresholds \subseteq {0}, Unavailable \notin Live, IInv, Following, [Next]_vars
    PROVE  Following'
<1>0. /\ now \in Time /\ now \in Nat /\ mem \in Ledger /\ changed \in Time /\ changed <= now
      /\ exact \in 0..NoTime /\ now < NoTime /\ line \in [Time -> Names \cup {NoState}]
  <2>1. now < NoTime
    BY ClockTypes, LocalDaysAssumption DEF NoTime, Time
  <2> QED
    BY <2>1, ClockTypes DEF IInv, TypeOK, Following, Surroundings
<1>1. Surroundings'
  BY NextSurroundings DEF Following
<1>2. up' => line'[now'] # Unavailable
  <2>1. CASE Tick
    <3>1. now' \in Time /\ now' = now + 1 /\ line' = [line EXCEPT ![now + 1] = line[now]]
      BY <2>1, ClockTypes DEF Tick
    <3>2. line'[now'] = line[now] /\ up' = up
      BY <1>0, <2>1, <3>1 DEF Tick
    <3> QED
      BY <3>2 DEF Following
  <2>2. CASE (\E s \in Live : Transition(s)) \/ Boot
    BY <1>0, <2>2 DEF Transition, Boot
  <2>3. CASE Stop \/ Crash
    BY <2>3 DEF Stop, Crash
  <2>4. CASE UNCHANGED vars \/ Commit
    BY <2>4 DEF vars, Commit, Following
  <2>5. CASE Load \/ AttributeUpdate \/ SetupRuns \/ Unload \/ Poll \/ FlushDone \/ FlushFails
    <3>1. UNCHANGED environment
      BY <2>5 DEF Load, AttributeUpdate, SetupRuns, BackfillReplace, BackfillMark,
         BackfillDone, FirstRefresh, Subscribe, Unload, Poll, FlushDone, FlushFails
    <3> QED
      BY <3>1 DEF environment, Following
  <2> QED
    BY <2>1, <2>2, <2>3, <2>4, <2>5 DEF Next
<1>3. /\ Ahead(mem', now')
      /\ Ahead(disk', now')
      /\ saving' # NoSave => Ahead(saving', now')
  BY NextAhead
<1>4. ASSUME exact' # NoTime PROVE Watching'
  <2>1. CASE Tick
    BY <1>4, <2>1, WatchingTick DEF Tick, Following
  <2>2. ASSUME Watching, UNCHANGED <<now, line, changed, mem, pc, lastFold, exact>>
        PROVE  Watching'
    BY <2>2 DEF Watching, Coalesces, Cutoff
  <2>3. CASE Commit \/ FlushDone \/ FlushFails \/ UNCHANGED vars
    <3>1. exact' = exact /\ UNCHANGED <<now, line, changed, mem, pc, lastFold, exact>>
      BY <2>3 DEF Commit, FlushDone, FlushFails, vars, environment
    <3> QED
      BY <1>4, <2>2, <3>1 DEF Following
  <2>4. ASSUME NEW s \in Live, Transition(s) PROVE Watching'
    <3>1. CASE pc # "live"
      BY <1>4, <2>4, <3>1 DEF Transition, Following, Watching
    <3>2. CASE pc = "live" /\ HandleStateChange(s, now) /\ exact # NoTime
      BY <2>4, <3>2, WatchingTransition DEF Following
    <3>3. CASE pc = "live" /\ HandleStateChange(s, now) /\ exact = NoTime
      <4>1. /\ exact' = now /\ now' = now /\ pc' = "live" /\ changed' = now /\ line'[now] = s
            /\ mem'.last_updated_day = mem.last_updated_day
            /\ mem'.last_state = s /\ mem'.last_ts = now
        BY <1>0, <2>4, <3>3 DEF Transition, HandleStateChange, Earlier, Ledger
      <4>2. s \notin {NoState, Unavailable}
        BY TrackerAssumption, NamesAssumption
      <4> QED
        BY <1>0, <1>3, <4>1, <4>2, WatchingBegins
    <3> QED
      BY <2>4, <3>1, <3>2, <3>3 DEF Transition
  <2>5. CASE AttributeUpdate
    <3>1. CASE exact # NoTime
      BY <2>5, <3>1, WatchingAttribute DEF Following
    <3>2. CASE exact = NoTime
      <4>1. /\ exact' = now /\ now' = now /\ pc' = "live" /\ changed' = changed /\ line' = line
            /\ mem'.last_updated_day = mem.last_updated_day
            /\ mem'.last_state = line[now] /\ mem'.last_ts = changed /\ line[now] # NoState
        BY <1>0, <2>5, <3>2
           DEF AttributeUpdate, environment, HandleStateChange, Earlier, Ledger
      <4>2. line[now] # Unavailable
        BY <2>5 DEF AttributeUpdate, Following, Surroundings
      <4> QED
        BY <1>0, <1>3, <4>1, <4>2, WatchingBegins
    <3> QED
      BY <3>1, <3>2
  <2>6. CASE Subscribe
    <3>1. CASE exact' = exact
      BY <1>4, <2>6, <3>1 DEF Subscribe, Following, Watching
    <3>2. CASE /\ mem' = [mem EXCEPT !.last_state = line[now], !.last_ts = now]
               /\ exact' = now /\ line[now] # NoState
      <4>1. /\ now' = now /\ pc' = "live" /\ changed' = changed /\ line' = line
            /\ mem'.last_updated_day = mem.last_updated_day
            /\ mem'.last_state = line[now] /\ mem'.last_ts = now
        BY <1>0, <2>6, <3>2 DEF Subscribe, environment, Ledger
      <4>2. line[now] # Unavailable
        BY <2>6 DEF Subscribe, Following, Surroundings
      <4> QED
        BY <1>0, <1>3, <3>2, <4>1, <4>2, WatchingBegins
    <3> QED
      BY <2>6, <3>1, <3>2 DEF Subscribe
  <2>7. CASE Poll
    <3>1. /\ UNCHANGED <<now, line, changed, pc, lastFold, exact>>
          /\ mem'.last_state = mem.last_state /\ mem'.last_ts = mem.last_ts
          /\ mem'.last_updated_day = mem.last_updated_day
          /\ \A d \in Day : mem'.daily[d] = IF d < Cutoff(now) THEN EmptyDay ELSE mem.daily[d]
      BY <1>0, <2>7 DEF Poll, Pruned, environment, Ledger
    <3>2. \A d \in Day : Cutoff(now) <= d => mem'.daily[d] = mem.daily[d]
      <4>1. \A d \in Day : Cutoff(now) <= d => ~(d < Cutoff(now))
        BY <1>0, CutoffDay, LocalDaysAssumption DEF Day
      <4> QED
        BY <3>1, <4>1
    <3>3. Cutoff(now)' = Cutoff(now)
      BY <3>1 DEF Cutoff
    <3> QED
      BY <1>4, <3>1, <3>2, <3>3 DEF Following, Watching, Coalesces
  <2>8. CASE Load \/ BackfillReplace \/ BackfillMark \/ BackfillDone \/ FirstRefresh \/ Boot
    <3>1. exact = NoTime
      BY <2>8 DEF Load, BackfillReplace, BackfillMark, BackfillDone, FirstRefresh, Boot,
         Following, Watching, Surroundings
    <3>2. exact' \in {exact, NoTime}
      BY <2>8 DEF Load, BackfillReplace, BackfillMark, BackfillDone, FirstRefresh, Boot,
         SetupFails, Dropped
    <3> QED
      BY <1>4, <3>1, <3>2
  <2>9. CASE Unload \/ Stop \/ Crash
    BY <1>4, <2>9 DEF Unload, Stop, Crash, Dropped
  <2> QED
    BY <2>1, <2>3, <2>4, <2>5, <2>6, <2>7, <2>8, <2>9 DEF Next, SetupRuns
<1> QED
  BY <1>1, <1>2, <1>3, <1>4 DEF Following

(* A closed day folded live from before its midnight to after its end      *)
(* holds what a backfill of it would write (_fold_visit's claim), with any *)
(* recorder and any failing disk: if no glitch threshold is set and the    *)
(* entity does not become unavailable while Home Assistant runs.           *)
THEOREM LiveDaysMatch ==
    Thresholds \subseteq {0} /\ Unavailable \notin Live /\ Spec => []LiveMatchesBackfill
<1>1. ASSUME Thresholds \subseteq {0}, IInv, Following PROVE LiveMatchesBackfill
  <2> SUFFICES ASSUME NEW d \in Day, exact < Midnight[d], Midnight[d + 1] <= mem.last_ts,
                      Cutoff(now) <= d
               PROVE  mem.daily[d] = BackfillBlocks(line, d, minDur)
    BY DEF LiveMatchesBackfill
  <2>1. /\ mem \in Ledger /\ mem.last_ts \in Time /\ mem.last_ts \in Nat /\ exact \in Nat
        /\ MaxTime \in Nat /\ mem.last_ts <= MaxTime /\ minDur = 0 /\ now \in Nat
    <3>1. mem \in Ledger /\ mem.last_ts \in Time /\ exact \in 0..NoTime /\ minDur \in Thresholds
          /\ now \in Time
      BY <1>1 DEF IInv, TypeOK, Ledger
    <3>2. mem.last_ts \in Nat /\ exact \in Nat /\ MaxTime \in Nat /\ mem.last_ts <= MaxTime
          /\ now \in Nat
      BY <3>1, LocalDaysAssumption DEF Time, NoTime
    <3> QED
      BY <1>1, <3>1, <3>2
  <2>2. exact # NoTime
    BY <2>1, DayEnds DEF NoTime
  <2>3. Watching
    BY <1>1, <2>2 DEF Following
  <2>4. 0 < Midnight[d]
    BY <2>1, DayEnds
  <2>5. \A u \in Midnight[d]..(Midnight[d + 1] - 1) : line[u] \notin {NoState, Unavailable}
    <3>1. \A u \in Midnight[d]..(Midnight[d + 1] - 1) : u \in exact..now
      BY <2>1, <2>3, DayEnds DEF Watching
    <3> QED
      BY <2>3, <3>1 DEF Watching
  <2>6. \A s \in Names : mem.daily[d][s] = BackfillBlocks(line, d, minDur)[s]
    <3> TAKE s \in Names
    <3>1. mem.daily[d][s] = Tally(line, d, s, mem.last_ts)
      BY <2>3 DEF Watching
    <3>2. Tally(line, d, s, mem.last_ts) = Tally(line, d, s, Midnight[d + 1])
      BY <2>1, TallyOver
    <3>3. BackfillBlocks(line, d, 0)[s] = Tally(line, d, s, Midnight[d + 1])
      BY <2>4, <2>5, FullDayIsTallied
    <3> QED
      BY <2>1, <3>1, <3>2, <3>3
  <2>7. mem.daily[d] \in Bucket
    BY <2>1 DEF Ledger
  <2>8. DOMAIN mem.daily[d] = Names
    BY <2>7 DEF Bucket
  <2>9. BackfillBlocks(line, d, minDur)
          = [s \in Names |-> BackfillBlocks(line, d, minDur)[s]]
    BY DEF BackfillBlocks, Blocks
  <2>10. mem.daily[d] = [s \in Names |-> mem.daily[d][s]]
    BY <2>7 DEF Bucket
  <2> QED
    BY <2>6, <2>9, <2>10
<1> SUFFICES ASSUME Thresholds \subseteq {0}, Unavailable \notin Live
             PROVE  Spec => []LiveMatchesBackfill
  OBVIOUS
<1>2. Init => Following
  BY InitFollowing
<1>3. IInv /\ Following /\ [Next]_vars => Following'
  BY NextFollowing
<1>4. IInv /\ Following => LiveMatchesBackfill
  BY <1>1
<1> QED
  BY <1>2, <1>3, <1>4, Invariance, PTL DEF Spec
-----------------------------------------------------------------------------
(* What a tick makes of the recorder's rows.                               *)

\* Of the instants in T, once timeline f has a state, it has one at all after.
StaysShown(f, T) == \A u, v \in T : u <= v /\ f[u] # NoState => f[v] # NoState

(* In a window in which the entity keeps having a state once it has one,   *)
(* every instant is given its own state.                                   *)
LEMMA GivenOwnOrNone ==
    ASSUME NEW f, NEW a \in Nat, NEW e \in Nat, StaysShown(f, a..(e - 1)), NEW t \in a..(e - 1)
    PROVE  GivenTo(f, RowsOf(f, a, e), t) = f[t]
<1>0. t \in Nat /\ a <= t /\ t <= e - 1 /\ t < e
  OBVIOUS
<1>1. CASE f[t] = NoState
  <2>1. \A k \in a..(e - 1) : k <= t => f[k] = NoState
    BY <1>1 DEF StaysShown
  <2>2. {k \in RowsOf(f, a, e) : k <= t} = {}
    BY <2>1 DEF RowsOf
  <2> QED
    BY <1>1, <2>2 DEF GivenTo
<1>2. CASE f[t] # NoState
  <2> DEFINE T == {u \in a..t : f[u] # NoState}
  <2>1. T \subseteq Nat /\ T # {}
    BY <1>0, <1>2
  <2>2. PICK b \in T : \A v \in T : b <= v
    <3> HIDE DEF T
    <3> QED
      BY <2>1, LeastNatural
  <2>3. b \in Nat /\ a <= b /\ b <= t /\ f[b] # NoState
    BY <1>0, <2>2
  <2>4. \A u \in a..(e - 1) : u < b => f[u] = NoState
    <3> SUFFICES ASSUME NEW u \in a..(e - 1), u < b, f[u] # NoState PROVE FALSE
      OBVIOUS
    <3>1. u \in T
      BY <1>0, <2>3
    <3> QED
      BY <2>2, <2>3, <3>1
  <2>5. \A u \in b..(e - 1) : u \in a..(e - 1) /\ f[u] # NoState
    <3> SUFFICES ASSUME NEW u \in b..(e - 1) PROVE u \in a..(e - 1) /\ f[u] # NoState
      OBVIOUS
    <3>1. u \in a..(e - 1) /\ b \in a..(e - 1) /\ b <= u
      BY <1>0, <2>3
    <3> QED
      BY <2>3, <3>1 DEF StaysShown
  <2>6. RowsOf(f, a, e) = RowsOf(f, b, e)
    <3>1. \A u \in a..(e - 1) : u < b => u \notin RowsOf(f, a, e)
      BY <2>4 DEF RowsOf
    <3>2. \A u \in b..(e - 1) : u # b => u # a
      BY <1>0, <2>3
    <3>3. b # a => b - 1 \in a..(e - 1) /\ b - 1 < b
      BY <1>0, <2>3
    <3>4. b # a => f[b] # f[b - 1]
      BY <2>3, <2>4, <3>3
    <3>5. b \in a..(e - 1) /\ b \in b..(e - 1)
      BY <1>0, <2>3
    <3>6. \A u \in b..(e - 1) : u \in RowsOf(f, a, e) <=> u \in RowsOf(f, b, e)
      BY <2>5, <3>2, <3>4, <3>5 DEF RowsOf
    <3>7. \A u \in RowsOf(f, a, e) : u \in b..(e - 1)
      <4>1. \A u \in RowsOf(f, a, e) : u \in a..(e - 1) /\ ~(u < b)
        BY <3>1 DEF RowsOf
      <4> QED
        BY <2>3, <4>1
    <3>8. \A u \in RowsOf(f, b, e) : u \in b..(e - 1)
      BY DEF RowsOf
    <3> QED
      BY <3>6, <3>7, <3>8
  <2>7. t \in b..(e - 1)
    BY <1>0, <2>3
  <2> HIDE DEF T
  <2> QED
    BY <2>3, <2>5, <2>6, <2>7, GivenOwnState
<1> QED
  BY <1>1, <1>2

\* The instants of [a, e) in which timeline f is in state s.
ShownIn(f, a, e, s) == {t \in a..(e - 1) : f[t] = s}

(* With no glitch threshold a state has the seconds in which it is shown.  *)
LEMMA ShownSeconds ==
    ASSUME NEW f, NEW a \in Nat, NEW e \in Nat, StaysShown(f, a..(e - 1)), NEW s \in Names
    PROVE  Blocks(f, a, e, 0)[s].secs = Cardinality(ShownIn(f, a, e, s))
<1>1. \A t \in a..(e - 1) : GivenTo(f, Survivors(f, a, e, 0), t) = f[t]
  BY AllSurvive, GivenOwnOrNone
<1>2. {t \in a..(e - 1) : GivenTo(f, Survivors(f, a, e, 0), t) = s}
        = ShownIn(f, a, e, s)
  BY <1>1 DEF ShownIn
<1> QED
  BY <1>2 DEF Blocks

(* Nothing is carried forward in a window that does not end "unavailable". *)
LEMMA NothingCarried ==
    ASSUME NEW f, NEW a \in Nat, NEW e \in Nat, StaysShown(f, a..(e - 1)),
           f[e - 1] # Unavailable
    PROVE  CarryForward(f, a, e) = f
<1> DEFINE rows == RowsOf(f, a, e)
<1>1. rows \subseteq a..(e - 1)
  BY DEF RowsOf
<1>2. CASE rows = {}
  <2>1. ~(Cardinality(rows) > 1)
    BY <1>2, FS_EmptySet
  <2> QED
    BY <2>1 DEF CarryForward
<1>3. CASE rows # {}
  <2>1. e - 1 \in a..(e - 1)
    BY <1>1, <1>3
  <2>2. {k \in rows : k <= e - 1} = rows
    BY <1>1
  <2>3. GivenTo(f, rows, e - 1) = f[Max(rows)]
    <3> HIDE DEF rows
    <3> QED
      BY <1>3, <2>2 DEF GivenTo
  <2>4. GivenTo(f, rows, e - 1) = f[e - 1]
    BY <2>1, GivenOwnOrNone
  <2>5. f[Max(rows)] # Unavailable
    BY <2>3, <2>4
  <2> QED
    BY <2>5 DEF CarryForward
<1> QED
  BY <1>2, <1>3

(* A sum over no days is zero.                                             *)
LEMMA NoDaysNoSeconds ==
    ASSUME NEW f, NEW s, f.lower..(f.upper - 1) = {} PROVE FromLedger(f, s) = 0
<1>1. DOMAIN [d \in f.lower..(f.upper - 1) |-> mem.daily[d][s].secs] = {}
  OBVIOUS
<1> QED
  BY <1>1, SumEmpty DEF FromLedger

(* Nor is there a tail in no days.                                         *)
LEMMA NoDaysNoTail ==
    ASSUME NEW f, NEW s, DayOf(f.start)..(f.upper - 1) = {} PROVE Tail(f, s) = 0
<1>1. TailDays(f) = {}
  BY DEF TailDays
<1>2. DOMAIN [d \in TailDays(f) |-> SplitSecs(Later(mem.last_ts, f.start), f.end, d)] = {}
  BY <1>1
<1> QED
  BY <1>2, SumEmpty DEF Tail
-----------------------------------------------------------------------------
(* The entity as the recorder shows it.                                    *)

\* The entity keeps having a state once it has one, and it is not "unavailable"
\* while Home Assistant runs, nor was it before a change the recorder has yet to
\* commit.
Present ==
    /\ Surroundings
    /\ committed <= now
    /\ StaysShown(line, 0..now)
    /\ up => line[now] # Unavailable
    /\ up /\ committed < changed => line[changed - 1] # Unavailable

(* It holds at the start.                                                  *)
LEMMA InitPresent == Unavailable \notin Live /\ Init => Present
<1> SUFFICES ASSUME Unavailable \notin Live, Init PROVE Present
  OBVIOUS
<1>1. now = 0 /\ changed = 0 /\ committed = 0
  BY DEF Init
<1>2. line[0] \in Live \cup {NoState}
  BY LocalDaysAssumption DEF Init, Time
<1>3. Surroundings
  BY DEF Init, Surroundings
<1>4. StaysShown(line, 0..now)
  BY <1>1 DEF StaysShown
<1>5. line[now] # Unavailable
  BY <1>1, <1>2, NamesAssumption DEF Names
<1> QED
  BY <1>1, <1>3, <1>4, <1>5 DEF Present

(* And every step keeps it.                                                *)
LEMMA NextPresent ==
    ASSUME Unavailable \notin Live, IInv, Present, [Next]_vars
    PROVE  Present'
<1>0. /\ now \in Time /\ now \in Nat /\ committed \in Nat /\ committed \in Time
      /\ line \in [Time -> Names \cup {NoState}]
      /\ changed \in Time /\ changed \in Nat /\ MaxLag \in Nat
      /\ Live \subseteq Names /\ NoState \notin Names /\ committed <= now
  BY ClockTypes, TrackerAssumption, NamesAssumption, LocalDaysAssumption
     DEF IInv, TypeOK, Time, Present
<1>1. Surroundings'
  BY NextSurroundings DEF Present
<1>2. \A t \in 0..now : t \in Time /\ t \in Nat
  BY <1>0, LocalDaysAssumption DEF Time
<1>3. CASE Tick
  <2>1. /\ now' = now + 1 /\ now' \in Time /\ changed' = changed /\ up' = up
        /\ line' = [line EXCEPT ![now + 1] = line[now]]
        /\ committed' = IF up THEN Later(committed, now + 1 - MaxLag) ELSE now + 1
    BY <1>0, <1>3, LocalDaysAssumption DEF Tick, Time
  <2>2. line'[now + 1] = line[now] /\ \A t \in 0..now : line'[t] = line[t]
    BY <1>0, <1>2, <2>1
  <2>3. committed' <= now' /\ (up => committed <= committed') /\ committed' \in Nat
    <3>1. now + 1 - MaxLag \in Int /\ now + 1 - MaxLag <= now + 1
      BY <1>0
    <3> QED
      BY <1>0, <2>1, <3>1 DEF Later
  <2>4. StaysShown(line', 0..now')
    <3> SUFFICES ASSUME NEW u \in 0..now', NEW v \in 0..now', u <= v, line'[u] # NoState
                 PROVE  line'[v] # NoState
      BY DEF StaysShown
    <3>1. CASE v = now + 1
      <4>1. line[now] # NoState
        <5>1. CASE u = now + 1
          BY <2>2, <5>1
        <5>2. CASE u # now + 1
          <6>1. u \in 0..now /\ now \in 0..now /\ u <= now
            BY <1>0, <2>1, <5>2
          <6> QED
            BY <2>2, <6>1 DEF Present, StaysShown
        <5> QED
          BY <5>1, <5>2
      <4> QED
        BY <2>2, <3>1, <4>1
    <3>2. CASE v # now + 1
      <4>1. u \in 0..now /\ v \in 0..now
        BY <1>0, <2>1, <3>2
      <4> QED
        BY <2>2, <4>1 DEF Present, StaysShown
    <3> QED
      BY <3>1, <3>2
  <2>5. up' => line'[now'] # Unavailable
    BY <2>1, <2>2 DEF Present
  <2>6. up' /\ committed' < changed' => line'[changed' - 1] # Unavailable
    <3> SUFFICES ASSUME up, committed' < changed PROVE line'[changed - 1] # Unavailable
      BY <2>1
    <3>1. committed < changed /\ changed <= now /\ changed - 1 \in 0..now
      BY <1>0, <2>3 DEF Present, Surroundings
    <3> QED
      BY <2>2, <3>1 DEF Present
  <2> QED
    BY <1>1, <2>3, <2>4, <2>5, <2>6 DEF Present
<1>4. ASSUME NEW x \in Names \cup {NoState}, line' = [line EXCEPT ![now] = x], now' = now,
             x = NoState => line[now] = NoState
      PROVE  StaysShown(line', 0..now')
  <2>1. line'[now] = x /\ \A t \in 0..now : t # now => line'[t] = line[t]
    BY <1>0, <1>2, <1>4
  <2> SUFFICES ASSUME NEW u \in 0..now, NEW v \in 0..now, u <= v, line'[u] # NoState
               PROVE  line'[v] # NoState
    BY <1>4 DEF StaysShown
  <2>2. CASE u = now
    BY <1>0, <2>2
  <2>3. CASE u # now
    <3>1. line[u] # NoState /\ line[v] # NoState /\ line[now] # NoState
      <4>1. now \in 0..now /\ u <= now
        BY <1>0
      <4> QED
        BY <2>1, <2>3, <4>1 DEF Present, StaysShown
    <3> QED
      BY <1>4, <2>1, <3>1
  <2> QED
    BY <2>2, <2>3
<1>5. ASSUME NEW s \in Live, Transition(s) PROVE Present'
  <2>1. /\ line' = [line EXCEPT ![now] = s] /\ now' = now /\ changed' = now /\ up
        /\ now > 0 /\ line[now] = line[now - 1]
        /\ committed' = IF MaxLag = 0 THEN now ELSE Earlier(committed, now - 1)
    BY <1>5 DEF Transition, FreshInstant
  <2>2. s \in Names /\ s # Unavailable /\ s # NoState
    BY <1>0
  <2>3. StaysShown(line', 0..now')
    BY <1>4, <2>1, <2>2
  <2>4. committed' <= now'
    BY <1>0, <2>1 DEF Earlier
  <2>5. line'[now] = s /\ line'[now - 1] = line[now]
    BY <1>0, <1>2, <2>1
  <2> QED
    BY <1>1, <2>1, <2>2, <2>3, <2>4, <2>5 DEF Present
<1>6. CASE Stop
  <2>1. /\ now' = now /\ committed' = now /\ up' = FALSE
        /\ line' = IF line[now] = NoState THEN line ELSE [line EXCEPT ![now] = Unavailable]
    BY <1>6 DEF Stop
  <2>2. StaysShown(line', 0..now')
    <3>1. CASE line[now] = NoState
      BY <2>1, <3>1 DEF Present
    <3>2. CASE line[now] # NoState
      <4>1. Unavailable \in Names /\ Unavailable # NoState
        BY <1>0 DEF Names
      <4> QED
        BY <1>4, <2>1, <3>2, <4>1
    <3> QED
      BY <3>1, <3>2
  <2> QED
    BY <1>0, <1>1, <2>1, <2>2 DEF Present
<1>7. CASE Crash
  <2>1. /\ now' = now /\ committed' = now /\ up' = FALSE
        /\ line' = [t \in Time |-> IF t \in committed..now THEN line[committed] ELSE line[t]]
    BY <1>7 DEF Crash
  <2>2. \A t \in 0..now : line'[t] = IF committed <= t THEN line[committed] ELSE line[t]
    BY <1>0, <1>2, <2>1
  <2>3. StaysShown(line', 0..now')
    <3> SUFFICES ASSUME NEW u \in 0..now, NEW v \in 0..now, u <= v, line'[u] # NoState
                 PROVE  line'[v] # NoState
      BY <2>1 DEF StaysShown
    <3>1. committed \in 0..now
      BY <1>0
    <3>2. CASE committed <= v
      <4>1. line[committed] # NoState
        BY <1>2, <2>2, <3>1, <3>2 DEF Present, StaysShown
      <4> QED
        BY <2>2, <3>2, <4>1
    <3>3. CASE ~(committed <= v)
      <4>1. ~(committed <= u)
        BY <1>0, <3>3
      <4> QED
        BY <2>2, <3>3, <4>1 DEF Present, StaysShown
    <3> QED
      BY <3>2, <3>3
  <2> QED
    BY <1>0, <1>1, <2>1, <2>3 DEF Present
<1>8. CASE Boot
  <2>1. /\ now' = now /\ committed' = now /\ changed' = now
    BY <1>8 DEF Boot
  <2>2. PICK s \in Live \ {Unavailable} : line' = [line EXCEPT ![now] = s]
    BY <1>8 DEF Boot
  <2>3. StaysShown(line', 0..now') /\ line'[now] = s
    BY <1>0, <1>4, <2>1, <2>2
  <2> QED
    BY <1>0, <1>1, <2>1, <2>2, <2>3 DEF Present
<1>9. CASE Commit
  <2>1. /\ committed' = now /\ up /\ UNCHANGED <<now, line, changed, up>>
    BY <1>9 DEF Commit
  <2>2. ~(committed' < changed')
    BY <1>0, <2>1 DEF Present, Surroundings
  <2> QED
    BY <1>0, <1>1, <2>1, <2>2 DEF Present
<1>10. ASSUME UNCHANGED <<now, line, changed, committed, up>> PROVE Present'
  BY <1>1, <1>10 DEF Present
<1>11. CASE UNCHANGED vars \/ Poll \/ FlushDone \/ FlushFails
  BY <1>10, <1>11 DEF vars, Poll, FlushDone, FlushFails, environment
<1>12. CASE Load \/ AttributeUpdate \/ SetupRuns \/ Unload
  BY <1>10, <1>12 DEF Load, AttributeUpdate, SetupRuns, BackfillReplace, BackfillMark,
     BackfillDone, FirstRefresh, Subscribe, Unload, environment
<1> QED
  BY <1>3, <1>5, <1>6, <1>7, <1>8, <1>9, <1>11, <1>12 DEF Next

(* Where the query of a tick starts.                                       *)
LEMMA QueryStartsInTime ==
    ASSUME recorder, NEW t \in Time PROVE QueryStart(t) \in Nat
<1>1. t \in Nat
  BY LocalDaysAssumption DEF Time
<1>2. Midnight[DayOf(t)] \in Nat
  BY <1>1, DayOfInstant, DayEnds
<1>3. \A f \in RollingFrames(t) : f.recent \in Nat
  <2> SUFFICES ASSUME NEW delta \in Deltas, delta <= t
               PROVE  Floor(t - delta, t) \in Nat
    BY DEF RollingFrames
  <2>1. t - delta \in Nat /\ t - Retention \in Int
    BY <1>1, FramesAssumption
  <2> QED
    BY <2>1 DEF Floor, Later
<1> DEFINE starts == {Midnight[DayOf(t)]} \cup {f.recent : f \in RollingFrames(t)}
<1>4. starts \subseteq Nat /\ starts # {}
  BY <1>2, <1>3
<1> HIDE DEF starts
<1>5. Min(starts) \in Nat
  BY <1>4, MinMember
<1> QED
  BY <1>5 DEF QueryStart, starts

(* Of what came before a tick the tick takes the entity to have shown just *)
(* what it did, if the ledger's anchor is the entity's visit, or from the  *)
(* anchor on if that is later, and no row before the latest is missing.    *)
(* So it does if the tick is an instant late and nothing happens.          *)
LEMMA WindowIsTrue ==
    ASSUME IInv, Present, pc = "live", recorder, mem.last_state = line[now],
           changed <= mem.last_ts, committed >= changed - 1,
           NEW t \in Time, t = now \/ t = now + 1,
           NEW u \in Time, u < t, mem.last_ts = changed \/ mem.last_ts <= u
    PROVE  WindowStates(t)[u] = line[u]
<1> DEFINE q == mem.last_ts
<1>0. /\ now \in Time /\ now \in Nat /\ committed \in Nat /\ committed \in Time
      /\ changed \in Nat /\ changed <= now /\ committed <= now /\ u \in Nat /\ up
      /\ q \in Nat /\ t \in Nat /\ u <= now /\ now <= t /\ changed <= q
  <2>1. q \in Time
    BY DEF IInv, TypeOK, Ledger
  <2> QED
    BY <2>1, LocalDaysAssumption DEF IInv, TypeOK, Time, Present, Surroundings
<1> HIDE DEF q
<1>1. \A v \in 0..t : v \in Time /\ v \in Nat
  BY <1>0, LocalDaysAssumption DEF Time
<1>2. \A v \in 0..t : Visible[v] = IF v <= committed THEN line[v] ELSE line[committed]
  BY <1>0, <1>1 DEF Visible, Earlier
<1>3. \A v \in changed..now : line[v] = line[now]
  BY DEF Present, Surroundings
<1>4. StaysShown(Visible, 0..t)
  <2> SUFFICES ASSUME NEW v \in 0..t, NEW w \in 0..t, v <= w, Visible[v] # NoState
               PROVE  Visible[w] # NoState
    BY DEF StaysShown
  <2>1. committed \in 0..now
    BY <1>0
  <2>2. CASE w <= committed
    <3>1. v <= committed /\ v \in 0..now /\ w \in 0..now
      BY <1>0, <1>1, <2>2
    <3> QED
      BY <1>2, <2>2, <3>1 DEF Present, StaysShown
  <2>3. CASE ~(w <= committed)
    <3>1. v <= committed => v \in 0..now
      BY <1>0
    <3> QED
      BY <1>2, <2>1, <2>3, <3>1 DEF Present, StaysShown
  <2> QED
    BY <2>2, <2>3
<1>5. Visible[t] = line[committed] /\ Visible[t] # Unavailable
  <2>1. Visible[t] = line[committed]
    <3>1. t \in 0..t /\ (t <= committed => t = committed)
      BY <1>0
    <3> QED
      BY <1>2, <3>1
  <2>2. CASE committed >= changed
    <3>1. committed \in changed..now
      BY <1>0, <2>2
    <3> QED
      BY <1>0, <1>3, <2>1, <3>1 DEF Present
  <2>3. CASE ~(committed >= changed)
    <3>1. committed < changed /\ committed = changed - 1
      BY <1>0, <2>3
    <3> QED
      BY <1>0, <2>1, <3>1 DEF Present
  <2> QED
    BY <2>1, <2>2, <2>3
<1>6. CarryForward(Visible, QueryStart(t), t + 1) = Visible
  <2>1. QueryStart(t) \in Nat /\ t + 1 \in Nat /\ (t + 1) - 1 = t
    BY <1>0, QueryStartsInTime
  <2>2. \A v \in QueryStart(t)..t : v \in 0..t
    BY <1>0, <2>1
  <2>3. StaysShown(Visible, QueryStart(t)..((t + 1) - 1))
    BY <1>4, <2>1, <2>2 DEF StaysShown
  <2> QED
    BY <1>5, <2>1, <2>3, NothingCarried
<1>7. WindowStates(t) = Overlay(Visible, t)
  BY <1>6 DEF WindowStates
<1>8. /\ u \in 0..now /\ u \in 0..t /\ now \in 0..now /\ committed \in 0..now
      /\ ~(changed <= u) => u <= committed
  BY <1>0
<1>9. changed <= u => line[u] = line[now]
  <2> SUFFICES ASSUME changed <= u PROVE line[u] = line[now]
    OBVIOUS
  <2>1. u \in changed..now
    BY <1>0
  <2> QED
    BY <1>3, <2>1
<1>10. q = changed \/ q <= u
  BY DEF q
<1>11. ASSUME line[now] = NoState \/ q >= t \/ Visible[t] = line[now]
       PROVE  Visible[u] = line[u]
  <2>1. CASE line[now] = NoState
    <3>1. line[u] = NoState /\ line[committed] = NoState
      BY <1>0, <1>8, <2>1 DEF Present, StaysShown
    <3> QED
      BY <1>2, <1>8, <3>1
  <2>2. CASE q >= t
    <3>1. u <= committed
      BY <1>0, <1>10, <2>2
    <3> QED
      BY <1>2, <1>8, <3>1
  <2>3. CASE Visible[t] = line[now]
    <3>1. line[committed] = line[now]
      BY <1>5, <2>3
    <3> QED
      BY <1>2, <1>8, <1>9, <3>1
  <2> QED
    BY <1>11, <2>1, <2>2, <2>3
<1>12. CASE \/ mem.last_state = NoState
            \/ mem.last_ts >= t
            \/ /\ Visible[t] = mem.last_state
               /\ VisitStart(Visible, t) >= mem.last_ts
  <2>1. Overlay(Visible, t) = Visible
    BY <1>12 DEF Overlay
  <2> QED
    BY <1>7, <1>11, <1>12, <2>1 DEF q
<1>13. CASE ~(\/ mem.last_state = NoState
              \/ mem.last_ts >= t
              \/ /\ Visible[t] = mem.last_state
                 /\ VisitStart(Visible, t) >= mem.last_ts)
  <2>1. Overlay(Visible, t)
          = [v \in Time |-> IF v \in q..t THEN line[now] ELSE Visible[v]]
    BY <1>13 DEF Overlay, q
  <2>2. u \in q..t <=> q <= u
    BY <1>0
  <2>3. CASE q <= u
    <3>1. changed <= u
      BY <1>0, <2>3
    <3> QED
      BY <1>7, <1>9, <2>1, <2>2, <2>3, <3>1
  <2>4. CASE ~(q <= u)
    <3>1. u <= committed
      BY <1>0, <1>10, <2>4
    <3> QED
      BY <1>2, <1>7, <1>8, <2>1, <2>2, <2>4, <3>1
  <2> QED
    BY <2>3, <2>4
<1> QED
  BY <1>12, <1>13

(* What a timeline shows of a window is finitely many instants.            *)
LEMMA ShownFinite ==
    ASSUME NEW f, NEW a \in Int, NEW e \in Int, NEW s
    PROVE  IsFiniteSet(ShownIn(f, a, e, s)) /\ Cardinality(ShownIn(f, a, e, s)) \in Nat
<1>1. IsFiniteSet(a..(e - 1)) /\ ShownIn(f, a, e, s) \subseteq a..(e - 1)
  BY FS_Interval DEF ShownIn
<1> QED
  BY <1>1, FS_Subset, FS_CardinalityType

(* So with a recorder a slice of it has the entity's real times.           *)
LEMMA RecentIsTrue ==
    ASSUME IInv, Present, pc = "live", recorder, minDur = 0, mem.last_state = line[now],
           changed <= mem.last_ts, committed >= changed - 1,
           NEW t \in Time, t = now \/ t = now + 1,
           NEW a \in Nat, mem.last_ts = changed \/ mem.last_ts <= a, NEW s \in Names
    PROVE  Recent(a, t)[s] = Cardinality(ShownIn(line, a, t, s))
<1>0. t \in Nat /\ mem.last_ts \in Nat /\ now \in Nat
  <2>1. mem.last_ts \in Time /\ now \in Time
    BY DEF IInv, TypeOK, Ledger
  <2> QED
    BY <2>1, LocalDaysAssumption DEF Time
<1>1. CASE a >= t
  <2>1. a..(t - 1) = {}
    BY <1>0, <1>1
  <2>2. ShownIn(line, a, t, s) = {}
    BY <2>1 DEF ShownIn
  <2> QED
    BY <1>1, <2>2, FS_EmptySet DEF Recent
<1>2. CASE ~(a >= t)
  <2>1. Recent(a, t)[s] = Blocks(WindowStates(t), a, t, 0)[s].secs
    BY <1>2 DEF Recent
  <2>2. \A u \in a..(t - 1) : WindowStates(t)[u] = line[u]
    <3> SUFFICES ASSUME NEW u \in a..(t - 1) PROVE WindowStates(t)[u] = line[u]
      OBVIOUS
    <3>1. u \in Time /\ u < t /\ (mem.last_ts <= a => mem.last_ts <= u)
      BY <1>0, LocalDaysAssumption DEF Time
    <3> QED
      BY <3>1, WindowIsTrue
  <2>3. StaysShown(WindowStates(t), a..(t - 1))
    <3>1. \A u \in a..(t - 1) : u \in 0..now
      BY <1>0
    <3> QED
      BY <2>2, <3>1 DEF Present, StaysShown
  <2>4. Blocks(WindowStates(t), a, t, 0)[s].secs
          = Cardinality(ShownIn(WindowStates(t), a, t, s))
    BY <1>0, <2>3, ShownSeconds
  <2>5. ShownIn(WindowStates(t), a, t, s) = ShownIn(line, a, t, s)
    BY <2>2 DEF ShownIn
  <2> QED
    BY <2>1, <2>4, <2>5
<1> QED
  BY <1>1, <1>2

(* With a recorder the today frame of a subscribed tracker shows the       *)
(* entity's real times, also while the recorder has not committed the      *)
(* latest row (_overlay_open_visit), for any lag, threshold edits apart    *)
(* (there are none but zero) and an entity that is not unavailable while   *)
(* Home Assistant runs.                                                    *)
THEOREM TodayStaysTrue ==
    Thresholds \subseteq {0} /\ Unavailable \notin Live /\ Spec => []TodayIsTrue
<1>1. ASSUME Thresholds \subseteq {0}, IInv, Present PROVE TodayIsTrue
  <2> SUFFICES ASSUME pc = "live", recorder, mem.last_state = line[now],
                      mem.last_ts = changed, committed >= changed - 1,
                      NEW f \in OpenFrames(now), f.lower = DayOf(now), NEW s \in Names
               PROVE  Breakdown(f, now)[s] = TrueSecs(f, s)
    BY DEF TodayIsTrue
  <2> DEFINE a == Midnight[DayOf(now)]
  <2>0. /\ now \in Time /\ now \in Nat /\ a \in Nat /\ a <= now /\ minDur = 0
        /\ DayOf(now) \in Int
    <3>1. now \in Time /\ now \in Nat /\ minDur \in Thresholds
      BY <1>1, LocalDaysAssumption DEF IInv, TypeOK, Time
    <3>2. DayOf(now) \in Day /\ a <= now
      BY <3>1, DayOfInstant
    <3> QED
      BY <1>1, <3>1, <3>2, DayEnds, DayIsInt
  <2>1. /\ f.start = a /\ f.end = now /\ f.upper = DayOf(now) /\ f.recent = a
        /\ DayOf(f.start) = DayOf(now)
    <3>1. PICK d \in 0..DayOf(now) :
            f = [start |-> Midnight[d], end |-> now, lower |-> d, upper |-> DayOf(now),
                 recent |-> Midnight[DayOf(now)]]
      BY DEF OpenFrames
    <3>2. d = DayOf(now)
      BY <3>1
    <3>3. DayOf(a) = DayOf(now)
      <4>1. DayOf(now) \in Day
        BY <2>0, DayOfInstant
      <4>2. a \in Time
        BY <2>0, LocalDaysAssumption DEF Time
      <4>3. a <= a /\ a < Midnight[DayOf(now) + 1]
        BY <2>0, <4>1, DayEnds
      <4> QED
        BY <4>1, <4>2, <4>3, DayOfWithin
    <3> QED
      BY <3>1, <3>2, <3>3
  <2>2. FromLedger(f, s) = 0 /\ Tail(f, s) = 0
    <3>1. DayOf(now)..(DayOf(now) - 1) = {}
      BY <2>0
    <3> QED
      BY <2>1, <3>1, NoDaysNoSeconds, NoDaysNoTail
  <2>3. Breakdown(f, now)[s] = FromLedger(f, s) + Recent(a, now)[s] + Tail(f, s)
    BY <2>1 DEF Breakdown
  <2>4. TrueSecs(f, s) = Cardinality(ShownIn(line, a, now, s))
    BY <2>1 DEF TrueSecs, ShownIn
  <2>5. Recent(a, now)[s] = Cardinality(ShownIn(line, a, now, s))
    <3>1. changed \in Nat
      BY <1>1, LocalDaysAssumption DEF IInv, TypeOK, Time
    <3> QED
      BY <1>1, <2>0, <3>1, RecentIsTrue
  <2>6. Cardinality(ShownIn(line, a, now, s)) \in Nat
    BY <2>0, ShownFinite
  <2> QED
    BY <2>2, <2>3, <2>4, <2>5, <2>6
<1> SUFFICES ASSUME Thresholds \subseteq {0}, Unavailable \notin Live
             PROVE  Spec => []TodayIsTrue
  OBVIOUS
<1>2. Init => Present
  BY InitPresent
<1>3. IInv /\ Present /\ [Next]_vars => Present'
  BY NextPresent
<1>4. IInv /\ Present => TodayIsTrue
  BY <1>1
<1> QED
  BY <1>2, <1>3, <1>4, Invariance, PTL DEF Spec
-----------------------------------------------------------------------------
(* What a ledger may hold of the days that began after the anchor follows  *)
(* the entity, those that are old enough to be dropped included.           *)

\* No such day has more seconds of a state than the entity had in it so far.
Modest ==
    exact # NoTime =>
        \A d \in Day : exact < Midnight[d] =>
            \A s \in Names :
                mem.daily[d][s].secs <= Cardinality(Spent(line, d, s, mem.last_ts))

(* The instants before t depend on what came before t.                     *)
LEMMA SpentSame ==
    ASSUME NEW f, NEW g, NEW d \in Day, NEW s, NEW t \in Time, SameBefore(f, g, t)
    PROVE  Spent(f, d, s, t) = Spent(g, d, s, t)
<1>1. \A u \in Midnight[d]..(Midnight[d + 1] - 1) : u < t => u \in Time
  BY DayEnds, LocalDaysAssumption DEF Time
<1> QED
  BY <1>1 DEF Spent, SameBefore

(* No step breaks it.                                                      *)
LEMMA NextModest ==
    ASSUME Thresholds \subseteq {0}, IInv, IInv', Following, Following', Modest, [Next]_vars
    PROVE  Modest'
<1> SUFFICES ASSUME exact' # NoTime, NEW d \in Day, exact' < Midnight[d], NEW s \in Names
             PROVE  mem'.daily[d][s].secs <= Cardinality(Spent(line', d, s, mem'.last_ts))
  BY DEF Modest
<1>0. /\ now \in Time /\ now \in Nat /\ mem \in Ledger /\ mem' \in Ledger /\ minDur = 0
      /\ mem.last_ts \in Time /\ mem.last_ts \in Nat /\ mem'.last_ts \in Nat
      /\ changed \in Time /\ changed \in Nat /\ exact \in 0..NoTime /\ now < NoTime
      /\ line \in [Time -> Names \cup {NoState}]
      /\ Surroundings /\ Ahead(mem, now) /\ Ahead(mem', now')
  <2>1. /\ now \in Time /\ mem \in Ledger /\ mem' \in Ledger /\ minDur \in Thresholds
        /\ mem.last_ts \in Time /\ mem'.last_ts \in Time /\ changed \in Time
        /\ exact \in 0..NoTime /\ line \in [Time -> Names \cup {NoState}]
    BY DEF IInv, TypeOK, Ledger
  <2>2. /\ now \in Nat /\ mem.last_ts \in Nat /\ mem'.last_ts \in Nat /\ changed \in Nat
        /\ now < NoTime
    BY <2>1, LocalDaysAssumption DEF Time, NoTime
  <2> QED
    BY <2>1, <2>2 DEF Following
<1>1. \A L \in Ledger : L.daily[d][s].secs \in Nat
  BY DEF Ledger, Bucket
<1>2. \A f, t : Cardinality(Spent(f, d, s, t)) \in Nat
  BY SpentFinite
<1>3. mem'.daily[d] = EmptyDay
        => mem'.daily[d][s].secs <= Cardinality(Spent(line', d, s, mem'.last_ts))
  BY <1>2 DEF EmptyDay, EmptyRow
<1>4. CASE exact = NoTime
  <2>1. exact' \in {exact, now} \/ exact' = NoTime
    <3>1. ASSUME NEW x, NEW at, HandleStateChange(x, at) PROVE exact' = now
      BY <1>0, <1>4, <3>1 DEF HandleStateChange, Earlier
    <3> QED
      BY <1>4, <3>1 DEF Next, vars, environment, SetupRuns, Tick, Commit, Transition,
         AttributeUpdate, Load, BackfillReplace, BackfillMark, BackfillDone, FirstRefresh,
         Subscribe, Poll, FlushDone, FlushFails, Unload, Stop, Crash, Boot, SetupFails, Dropped
  <2>2. exact' = now /\ now' = now
    <3>1. now' = now \/ Tick
      BY DEF Next, vars, environment, SetupRuns, Tick, Commit, Transition,
         AttributeUpdate, Load, BackfillReplace, BackfillMark, BackfillDone, FirstRefresh,
         Subscribe, Poll, FlushDone, FlushFails, Unload, Stop, Crash, Boot
    <3>2. Tick => exact' = NoTime
      BY <1>4 DEF Tick
    <3> QED
      BY <1>4, <2>1, <3>1, <3>2
  <2>3. now' <= Midnight[d]
    BY <1>0, <2>2, DayEnds
  <2> QED
    BY <1>0, <1>3, <2>3 DEF Ahead
<1>5. CASE exact # NoTime
  <2>0. Watching /\ pc = "live" /\ exact \in Nat /\ mem.last_ts <= now /\ changed <= mem.last_ts
    BY <1>0, <1>5, LocalDaysAssumption DEF Following, Watching, Time, NoTime
  <2>1. ASSUME exact' = exact, UNCHANGED <<line, mem>>
        PROVE  mem'.daily[d][s].secs <= Cardinality(Spent(line', d, s, mem'.last_ts))
    BY <1>5, <2>1 DEF Modest
  <2>2. CASE Commit \/ FlushDone \/ FlushFails \/ UNCHANGED vars
    BY <2>1, <2>2 DEF Commit, FlushDone, FlushFails, vars, environment
  <2>3. ASSUME exact' = exact, UNCHANGED mem, SameBefore(line, line', mem.last_ts)
        PROVE  mem'.daily[d][s].secs <= Cardinality(Spent(line', d, s, mem'.last_ts))
    <3>1. Spent(line, d, s, mem.last_ts) = Spent(line', d, s, mem.last_ts)
      BY <1>0, <2>3, SpentSame
    <3> QED
      BY <1>5, <2>3, <3>1 DEF Modest
  <2>4. CASE Tick
    <3>1. exact' = exact /\ mem' = mem /\ line' = [line EXCEPT ![now + 1] = line[now]]
      BY <2>4 DEF Tick
    <3>2. \A t \in Time : t < mem.last_ts => t # now + 1
      BY <1>0, <2>0, LocalDaysAssumption DEF Time
    <3>3. SameBefore(line, line', mem.last_ts)
      BY <1>0, <3>1, <3>2 DEF SameBefore
    <3> QED
      BY <2>3, <3>1, <3>3
  <2>5. ASSUME NEW x \in Live, Transition(x) PROVE
               mem'.daily[d][s].secs <= Cardinality(Spent(line', d, s, mem'.last_ts))
    <3> DEFINE own == mem.last_state
               n == SplitSecs(FoldStart(mem, mem.last_ts), now, d)
    <3>1. /\ HandleStateChange(x, now) /\ now' = now /\ line' = [line EXCEPT ![now] = x]
          /\ line[now] # x
      BY <2>0, <2>5 DEF Transition
    <3>2. exact' = exact
      BY <1>0, <1>5, <2>0, <3>1 DEF HandleStateChange, Earlier, Watching
    <3>3. own \in Names /\ own # NoState
      <4>1. now \in exact..now
        BY <1>0, <2>0 DEF Watching
      <4>2. own = line[now] /\ line[now] # NoState /\ line[now] \in Names \cup {NoState}
        BY <1>0, <2>0, <4>1 DEF Watching
      <4> QED
        BY <4>2
    <3>4. /\ mem'.last_ts = now
          /\ mem'.daily = FoldedDaily(mem, own, mem.last_ts, now)
      BY <1>0, <3>1, <3>3 DEF HandleStateChange, Ledger
    <3>5. SameBefore(line, line', now)
      BY <1>0, <3>1 DEF SameBefore
    <3>6. Spent(line', d, s, now) = Spent(line, d, s, now)
      BY <1>0, <3>5, SpentSame
    <3>7. /\ n \in Nat
          /\ Cardinality(Spent(line, d, s, now))
               = Cardinality(Spent(line, d, s, mem.last_ts)) + IF s = own THEN n ELSE 0
      BY <1>0, <2>0, <3>2, FoldSpends
    <3>8. mem.daily[d][s].secs <= Cardinality(Spent(line, d, s, mem.last_ts))
      BY <1>5, <3>2 DEF Modest
    <3>9. mem'.daily[d][s].secs = mem.daily[d][s].secs + IF s = own THEN n ELSE 0
      BY <1>0, <3>3, <3>4, FoldAdds
    <3> HIDE DEF n
    <3> QED
      BY <1>0, <1>1, <1>2, <3>4, <3>6, <3>7, <3>8, <3>9
  <2>6. CASE AttributeUpdate
    <3> DEFINE own == mem.last_state
    <3>1. HandleStateChange(line[now], changed) /\ now' = now /\ line' = line
      BY <2>6 DEF AttributeUpdate, environment
    <3>2. exact' = exact
      BY <1>0, <1>5, <2>0, <3>1 DEF HandleStateChange, Earlier, Watching
    <3>3. own # NoState
      BY <2>0, <2>6 DEF AttributeUpdate, Watching
    <3>4. FoldedDaily(mem, own, mem.last_ts, changed) = mem.daily
      <4>1. FoldStart(mem, mem.last_ts) >= changed
        BY <1>0, <2>0, FoldStartType
      <4> QED
        BY <4>1 DEF FoldedDaily
    <3>5. mem'.last_ts = changed /\ mem'.daily = mem.daily
      BY <1>0, <3>1, <3>3, <3>4 DEF HandleStateChange, Ledger
    <3>6. CASE mem.last_ts = changed
      BY <1>5, <3>1, <3>2, <3>5, <3>6 DEF Modest
    <3>7. CASE mem.last_ts # changed
      <4>1. mem.last_ts <= Midnight[d]
        BY <1>0, <2>0, <3>2, <3>7, DayEnds DEF Watching
      <4>2. Spent(line, d, s, mem.last_ts) = {}
        BY <1>0, <4>1, DayEnds DEF Spent
      <4>3. mem.daily[d][s].secs <= 0
        BY <1>5, <3>2, <4>2, FS_EmptySet DEF Modest
      <4> QED
        BY <1>0, <1>1, <1>2, <3>5, <4>3
    <3> QED
      BY <3>6, <3>7
  <2>7. CASE Poll
    <3>1. /\ exact' = exact /\ line' = line /\ mem'.last_ts = mem.last_ts
          /\ mem'.daily[d] \in {mem.daily[d], EmptyDay}
      BY <1>0, <2>7 DEF Poll, Pruned, environment, Ledger
    <3> QED
      BY <1>3, <1>5, <3>1 DEF Modest
  <2>8. CASE Unload \/ Stop \/ Crash
    BY <2>8 DEF Unload, Stop, Crash, Dropped
  <2>9. CASE Load \/ SetupRuns \/ Boot
    BY <1>0, <2>0, <2>9 DEF Load, SetupRuns, BackfillReplace, BackfillMark, BackfillDone,
       FirstRefresh, Subscribe, Boot, Surroundings
  <2> QED
    BY <2>2, <2>4, <2>5, <2>6, <2>7, <2>8, <2>9 DEF Next
<1> QED
  BY <1>4, <1>5
-----------------------------------------------------------------------------
(* The frames a tick computes.                                             *)

\* A tick at t takes the days of frame f that the ledger gives, and those to
\* which it may carry the open visit, from the window's part before the instant
\* from which it takes the recorder's slice; the slice, if it has any, ends with
\* the window.
WellCut(f, t) ==
    /\ f.start \in Nat /\ f.end \in Nat /\ f.recent \in Nat
    /\ f.start <= f.end /\ f.start <= f.recent /\ f.end <= t
    /\ f.start \in Time /\ DayOf(f.start) \in Day
    /\ f.lower \in Nat /\ f.upper \in Day
    /\ f.recent < t => f.end = t
    /\ Midnight[f.upper] <= f.recent /\ Midnight[f.upper] <= f.end
    /\ f.start <= Midnight[f.lower] /\ f.lower \in 0..(LastDay + 1)
    /\ DayOf(f.start) <= f.lower

\* No rolling frame is shorter than a day, but for the instant it ends.
LongFrames == \A delta \in Deltas : \A d \in Day : DayLength(d) <= delta + 1

(* Every frame is, unless there is no recorder and a rolling frame is      *)
(* shorter than a day.                                                     *)
LEMMA FramesWellCut ==
    ASSUME recorder \in BOOLEAN, recorder \/ LongFrames, NEW t \in Time, NEW f \in Frames(t)
    PROVE  WellCut(f, t)
<1>0. /\ t \in Nat /\ DayOf(t) \in Day /\ Midnight[DayOf(t)] <= t /\ Midnight[DayOf(t)] \in Nat
      /\ Day \subseteq Nat /\ LastDay \in Nat
      /\ \A d \in Day : d \in 0..(LastDay + 1)
      /\ \A d \in 0..DayOf(t) : d \in Day
  <2>1. DayOf(t) \in Day /\ Midnight[DayOf(t)] <= t
    BY DayOfInstant
  <2>2. t \in Nat /\ LastDay \in Nat
    BY LocalDaysAssumption DEF Time
  <2>3. Midnight[DayOf(t)] \in Nat
    BY <2>1, DayEnds
  <2>4. Day \subseteq Nat /\ \A d \in Day : d \in 0..(LastDay + 1)
    BY <2>2 DEF Day
  <2>5. \A d \in 0..DayOf(t) : d \in Day
    BY <2>1, <2>2 DEF Day
  <2> QED
    BY <2>1, <2>2, <2>3, <2>4, <2>5
<1>1. \A d \in Day : d <= DayOf(t) =>
        /\ Midnight[d] \in Nat /\ Midnight[d] <= Midnight[DayOf(t)] /\ Midnight[d] <= t
        /\ Midnight[d] \in Time /\ DayOf(Midnight[d]) = d
  <2> SUFFICES ASSUME NEW d \in Day, d <= DayOf(t)
               PROVE  /\ Midnight[d] \in Nat /\ Midnight[d] <= Midnight[DayOf(t)]
                      /\ Midnight[d] <= t /\ Midnight[d] \in Time /\ DayOf(Midnight[d]) = d
    OBVIOUS
  <2>1. Midnight[d] \in Nat /\ Midnight[d] < Midnight[d + 1]
    BY DayEnds
  <2>2. Midnight[d] <= Midnight[DayOf(t)]
    BY <1>0, MidnightMonotone
  <2>3. Midnight[d] <= t /\ Midnight[d] \in Time
    BY <1>0, <2>1, <2>2, LocalDaysAssumption DEF Time
  <2> QED
    BY <2>1, <2>2, <2>3, DayOfWithin
<1>2. CASE f \in OpenFrames(t)
  <2>1. PICK d \in 0..DayOf(t) :
          f = [start |-> Midnight[d], end |-> t, lower |-> d, upper |-> DayOf(t),
               recent |-> Midnight[DayOf(t)]]
    BY <1>2 DEF OpenFrames
  <2>2. d \in Day /\ d <= DayOf(t)
    BY <1>0
  <2> QED
    BY <1>0, <1>1, <2>1, <2>2 DEF WellCut
<1>3. CASE f \in ClosedFrames(t)
  <2>1. PICK d \in Day, e \in Day :
          /\ d < e /\ e <= DayOf(t)
          /\ f = [start |-> Midnight[d], end |-> Midnight[e], lower |-> d, upper |-> e,
                  recent |-> t]
    BY <1>3 DEF ClosedFrames
  <2>2. d \in Nat /\ e \in Nat /\ DayOf(t) \in Nat /\ d <= DayOf(t) /\ d <= e
    <3>1. d \in Nat /\ e \in Nat /\ DayOf(t) \in Nat
      BY <1>0
    <3> QED
      BY <2>1, <3>1
  <2>3. Midnight[d] <= Midnight[e]
    BY <1>0, <2>2, MidnightMonotone
  <2>4. /\ f.start = Midnight[d] /\ f.end = Midnight[e] /\ f.lower = d /\ f.upper = e
        /\ f.recent = t
    BY <2>1
  <2> QED
    BY <1>0, <1>1, <2>1, <2>2, <2>3, <2>4 DEF WellCut
<1>4. CASE f \in RollingFrames(t)
  <2>1. PICK delta \in Deltas : delta <= t /\
          f = [start |-> t - delta, end |-> t, lower |-> FirstWholeDay(t - delta),
               upper |-> IF recorder THEN DayOf(Floor(t - delta, t)) ELSE DayOf(t),
               recent |-> IF recorder THEN Floor(t - delta, t) ELSE Midnight[DayOf(t)]]
    BY <1>4 DEF RollingFrames
  <2> DEFINE start == t - delta
             D == DayOf(start)
             floor == Floor(start, t)
  <2>2. start \in Nat /\ start <= t /\ start \in Time
    BY <1>0, <2>1, FramesAssumption, LocalDaysAssumption DEF Time
  <2> HIDE DEF start
  <2>3. D \in Day /\ Midnight[D] <= start /\ start < Midnight[D + 1] /\ D <= DayOf(t)
    BY <2>2, DayOfInstant, DayOfMonotone
  <2>4. floor \in Nat /\ floor <= t /\ start <= floor /\ floor \in Time
    BY <1>0, <2>2, FramesAssumption, LocalDaysAssumption DEF Floor, Later, Time
  <2> HIDE DEF floor
  <2>5. DayOf(floor) \in Day /\ Midnight[DayOf(floor)] <= floor /\ Midnight[DayOf(floor)] \in Nat
    BY <2>4, DayOfInstant, DayEnds
  <2> DEFINE L == FirstWholeDay(start)
  <2>6. L \in 0..(LastDay + 1) /\ L \in Nat /\ start <= Midnight[L] /\ D <= L
    <3>1. CASE start = Midnight[D]
      <4>1. L = D
        BY <3>1 DEF FirstWholeDay
      <4> HIDE DEF D
      <4> QED
        BY <1>0, <2>2, <2>3, <3>1, <4>1
    <3>2. CASE start # Midnight[D]
      <4>1. L = D + 1
        BY <3>2 DEF FirstWholeDay
      <4>2. Midnight[D + 1] \in Nat /\ D \in Nat /\ D <= LastDay
        BY <1>0, <2>3, DayEnds DEF Day
      <4> HIDE DEF D
      <4> QED
        BY <1>0, <2>2, <2>3, <4>1, <4>2
    <3> QED
      BY <3>1, <3>2
  <2>7. ~recorder => start <= Midnight[DayOf(t)]
    <3> SUFFICES ASSUME ~recorder PROVE start <= Midnight[DayOf(t)]
      OBVIOUS
    <3>1. DayLength(DayOf(t)) <= delta + 1 /\ delta \in Nat
      BY <1>0, FramesAssumption DEF LongFrames
    <3>2. t < Midnight[DayOf(t) + 1] /\ Midnight[DayOf(t) + 1] \in Nat
      BY <1>0, DayOfInstant, DayEnds
    <3>3. DayLength(DayOf(t)) = Midnight[DayOf(t) + 1] - Midnight[DayOf(t)]
      BY DEF DayLength
    <3> QED
      BY <1>0, <3>1, <3>2, <3>3 DEF start
  <2> HIDE DEF L, D
  <2>8. /\ f.start = start /\ f.end = t /\ f.lower = L
        /\ f.upper = IF recorder THEN DayOf(floor) ELSE DayOf(t)
        /\ f.recent = IF recorder THEN floor ELSE Midnight[DayOf(t)]
    BY <2>1 DEF L, floor, start
  <2>9. CASE recorder
    BY <1>0, <2>2, <2>3, <2>4, <2>5, <2>6, <2>8, <2>9 DEF WellCut, D
  <2>10. CASE ~recorder
    BY <1>0, <2>2, <2>3, <2>6, <2>7, <2>8, <2>10 DEF WellCut, D
  <2> QED
    BY <2>9, <2>10
<1> QED
  BY <1>2, <1>3, <1>4 DEF Frames
-----------------------------------------------------------------------------
(* The parts of a breakdown, as instants of the entity.                    *)

(* Two days have no instant in common.                                     *)
LEMMA DaysApart ==
    ASSUME NEW d \in Day, NEW e \in Day, NEW u \in Midnight[d]..(Midnight[d + 1] - 1),
           u \in Midnight[e]..(Midnight[e + 1] - 1)
    PROVE  d = e
<1>0. ASSUME NEW x \in Day, NEW y \in Day, x < y,
             u \in Midnight[x]..(Midnight[x + 1] - 1), u \in Midnight[y]..(Midnight[y + 1] - 1)
      PROVE  FALSE
  <2>1. x + 1 <= y /\ x + 1 \in 0..(LastDay + 1) /\ y \in 0..(LastDay + 1)
    BY <1>0, LocalDaysAssumption DEF Day
  <2>2. Midnight[x + 1] <= Midnight[y]
    BY <2>1, MidnightMonotone
  <2> QED
    BY <1>0, <2>2, DayEnds
<1>1. d \in Nat /\ e \in Nat
  BY LocalDaysAssumption DEF Day
<1> QED
  BY <1>0, <1>1

\* The instants of day d from a to e.
DayPart(a, e, d) == {u \in Midnight[d]..(Midnight[d + 1] - 1) : a <= u /\ u < e}

(* The split of an interval gives each day its instants.                   *)
LEMMA SplitCovers ==
    ASSUME NEW a \in Nat, NEW e \in Nat, NEW d \in Day
    PROVE  IsFiniteSet(DayPart(a, e, d)) /\ Cardinality(DayPart(a, e, d)) = SplitSecs(a, e, d)
<1> DEFINE lo == Later(a, Midnight[d])
           hi == Earlier(e, Midnight[d + 1])
<1>1. lo \in Nat /\ hi \in Nat /\ hi - 1 \in Int
  BY DayEnds DEF Later, Earlier
<1>2. DayPart(a, e, d) = lo..(hi - 1)
  BY DayEnds DEF DayPart, Later, Earlier
<1>3. SplitSecs(a, e, d) = Later(0, hi - lo)
  BY DEF SplitSecs
<1> HIDE DEF lo, hi
<1>4. /\ IsFiniteSet(lo..(hi - 1))
      /\ Cardinality(lo..(hi - 1)) = IF lo > hi - 1 THEN 0 ELSE hi - 1 - lo + 1
  BY <1>1, FS_Interval
<1>5. Later(0, hi - lo) = IF lo > hi - 1 THEN 0 ELSE hi - 1 - lo + 1
  BY <1>1 DEF Later
<1> QED
  BY <1>2, <1>3, <1>4, <1>5

\* The instants of frame f's window in which the entity was in s.
InWindow(f, s) == ShownIn(line, f.start, f.end, s)

(* The days before a frame's seam end in its window, before the recorder's *)
(* slice begins.                                                           *)
LEMMA DaysBeforeSeam ==
    ASSUME NEW f, NEW t, WellCut(f, t), NEW d \in Nat, d <= f.upper - 1
    PROVE  d \in Day /\ Midnight[d + 1] <= f.end /\ Midnight[d + 1] <= f.recent
<1>1. /\ f.upper \in Nat /\ f.upper <= LastDay /\ f.end \in Nat /\ f.recent \in Nat
      /\ LastDay \in Nat
  BY LocalDaysAssumption DEF WellCut, Day
<1>2. d \in Day /\ d + 1 <= f.upper /\ d + 1 \in 0..(LastDay + 1) /\ f.upper \in 0..(LastDay + 1)
  BY <1>1 DEF Day
<1>3. /\ Midnight[d + 1] <= Midnight[f.upper] /\ Midnight[d + 1] \in Nat
      /\ Midnight[f.upper] \in Nat
  BY <1>2, MidnightMonotone, MidnightNat
<1> QED
  BY <1>1, <1>2, <1>3 DEF WellCut

(* Those the ledger gives it are whole days of the window.                 *)
LEMMA LedgerDays ==
    ASSUME NEW f, NEW t, WellCut(f, t), NEW d \in f.lower..(f.upper - 1)
    PROVE  /\ d \in Day /\ f.start <= Midnight[d] /\ Midnight[d + 1] <= f.end
           /\ Midnight[d + 1] <= f.recent
<1>0. f.start \in Nat /\ f.lower \in Nat /\ f.upper \in Nat
  BY LocalDaysAssumption DEF WellCut, Day
<1>1. d \in Nat /\ f.lower <= d /\ d <= f.upper - 1
  BY <1>0
<1>2. d \in Day /\ Midnight[d + 1] <= f.end /\ Midnight[d + 1] <= f.recent
  BY <1>1, DaysBeforeSeam
<1>3. f.start <= Midnight[f.lower] /\ Midnight[f.lower] \in Nat
  BY MidnightNat DEF WellCut
<1>4. Midnight[f.lower] <= Midnight[d]
  <2>1. f.lower \in 0..(LastDay + 1) /\ d \in 0..(LastDay + 1)
    BY <1>2, LocalDaysAssumption DEF WellCut, Day
  <2> QED
    BY <1>1, <2>1, MidnightMonotone
<1> QED
  BY <1>0, <1>2, <1>3, <1>4, DayEnds

(* What the ledger gives a frame that began after the anchor follows the   *)
(* entity is no more than the entity was in that state, in the window and  *)
(* before the anchor.                                                      *)
LEMMA LedgerPart ==
    ASSUME IInv, Modest, exact # NoTime, NEW f, NEW t, WellCut(f, t), exact < f.start,
           NEW s \in Names
    PROVE  /\ FromLedger(f, s) \in Int
           /\ \E P \in SUBSET InWindow(f, s) :
                /\ \A u \in P : u < mem.last_ts /\ u < f.recent
                /\ FromLedger(f, s) <= Cardinality(P)
<1> DEFINE days == f.lower..(f.upper - 1)
           given == [d \in days |-> mem.daily[d][s].secs]
           had == [d \in days |-> Spent(line, d, s, mem.last_ts)]
           P == {u \in InWindow(f, s) : u < mem.last_ts /\ u < f.recent}
<1>0. /\ f.start \in Nat /\ f.end \in Nat /\ f.recent \in Nat /\ f.lower \in Nat
      /\ f.upper \in Nat /\ mem \in Ledger /\ exact \in Nat /\ mem.last_ts \in Nat
  <2>1. mem \in Ledger /\ mem.last_ts \in Time /\ exact \in 0..NoTime
    BY DEF IInv, TypeOK, Ledger
  <2>2. mem.last_ts \in Nat /\ exact \in Nat
    BY <2>1, LocalDaysAssumption DEF Time, NoTime
  <2>3. \A d \in Day : d \in Nat
    BY LocalDaysAssumption DEF Day
  <2> QED
    BY <2>1, <2>2, <2>3 DEF WellCut
<1>1. ASSUME NEW d \in days
      PROVE  /\ d \in Day /\ f.start <= Midnight[d] /\ Midnight[d + 1] <= f.end
             /\ Midnight[d + 1] <= f.recent
  BY LedgerDays
<1>2. IsFiniteSet(days)
  <2>1. f.lower \in Int /\ f.upper - 1 \in Int
    BY <1>0
  <2> QED
    BY <2>1, FS_Interval
<1>3. \A d \in days : /\ given[d] \in Int /\ IsFiniteSet(had[d])
                      /\ given[d] <= Cardinality(had[d])
  <2> SUFFICES ASSUME NEW d \in days
               PROVE  /\ mem.daily[d][s].secs \in Int /\ IsFiniteSet(Spent(line, d, s, mem.last_ts))
                      /\ mem.daily[d][s].secs <= Cardinality(Spent(line, d, s, mem.last_ts))
    OBVIOUS
  <2>1. d \in Day /\ exact < Midnight[d]
    BY <1>0, <1>1, DayEnds
  <2>2. mem.daily[d][s].secs \in Nat
    BY <1>0, <2>1 DEF Ledger, Bucket
  <2> QED
    BY <2>1, <2>2, SpentFinite DEF Modest
<1>4. \A d, e \in days : d # e => had[d] \cap had[e] = {}
  <2> SUFFICES ASSUME NEW d \in days, NEW e \in days, NEW u \in had[d], u \in had[e]
               PROVE  d = e
    OBVIOUS
  <2>1. /\ u \in Midnight[d]..(Midnight[d + 1] - 1)
        /\ u \in Midnight[e]..(Midnight[e + 1] - 1)
    BY DEF Spent
  <2> QED
    BY <1>1, <2>1, DaysApart
<1>5. DOMAIN given = days
  OBVIOUS
<1>6. FromLedger(f, s) = SumFunction(given)
  BY DEF FromLedger
<1>7. \A d \in days : had[d] \subseteq P
  <2> SUFFICES ASSUME NEW d \in days, NEW u \in Spent(line, d, s, mem.last_ts)
               PROVE  u \in InWindow(f, s) /\ u < mem.last_ts /\ u < f.recent
    OBVIOUS
  <2>1. u \in Midnight[d]..(Midnight[d + 1] - 1) /\ u < mem.last_ts /\ line[u] = s
    BY DEF Spent
  <2>2. /\ d \in Day /\ f.start <= Midnight[d] /\ Midnight[d + 1] <= f.end
        /\ Midnight[d + 1] <= f.recent
    BY <1>1
  <2>3. u \in f.start..(f.end - 1) /\ u < f.recent
    BY <1>0, <2>1, <2>2, DayEnds
  <2> QED
    BY <2>1, <2>3 DEF InWindow, ShownIn
<1>8. IsFiniteSet(P)
  <2>1. IsFiniteSet(InWindow(f, s))
    BY <1>0, ShownFinite DEF InWindow
  <2> QED
    BY <2>1, FS_Subset
<1> HIDE DEF given, had, days, P
<1>9. SumFunction(given) \in Int /\ SumFunction(given) <= Cardinality(P)
  <2>1. \A d \in DOMAIN given : /\ given[d] \in Int /\ had[d] \subseteq P
                                /\ given[d] <= Cardinality(had[d])
    BY <1>3, <1>5, <1>7
  <2>2. IsFiniteSet(DOMAIN given) /\ \A d, e \in DOMAIN given : d # e => had[d] \cap had[e] = {}
    BY <1>2, <1>4, <1>5
  <2> QED
    BY <1>8, <2>1, <2>2, SumWithin
<1>10. P \in SUBSET InWindow(f, s) /\ \A u \in P : u < mem.last_ts /\ u < f.recent
  BY DEF P
<1> QED
  BY <1>6, <1>9, <1>10

(* Nor is the tail of the open visit that is carried into a frame's closed *)
(* days, in the window and from the anchor on.                             *)
LEMMA TailPart ==
    ASSUME IInv, Surroundings, mem.last_state = line[now], changed <= mem.last_ts,
           NEW f, NEW t, WellCut(f, t), f.end <= now, NEW s \in Names
    PROVE  /\ Tail(f, s) \in Int
           /\ \E H \in SUBSET InWindow(f, s) :
                /\ \A u \in H : mem.last_ts <= u /\ u < f.recent /\ DayOf(u) \in TailDays(f)
                /\ Tail(f, s) <= Cardinality(H)
<1> DEFINE a == Later(mem.last_ts, f.start)
           days == TailDays(f)
           given == [d \in days |-> SplitSecs(a, f.end, d)]
           had == [d \in days |-> DayPart(a, f.end, d)]
           H == {u \in InWindow(f, s) :
                    mem.last_ts <= u /\ u < f.recent /\ DayOf(u) \in days}
<1>0. /\ f.start \in Nat /\ f.end \in Nat /\ f.recent \in Nat /\ f.upper \in Nat
      /\ DayOf(f.start) \in Nat /\ mem.last_ts \in Nat /\ a \in Nat /\ now \in Nat
      /\ changed \in Nat /\ mem.last_ts <= a /\ f.start <= a /\ now <= MaxTime
      /\ MaxTime \in Nat
  <2>1. mem.last_ts \in Time /\ now \in Time /\ changed \in Time
    BY DEF IInv, TypeOK, Ledger
  <2>2. /\ mem.last_ts \in Nat /\ now \in Nat /\ changed \in Nat
        /\ now <= MaxTime /\ MaxTime \in Nat
    BY <2>1, LocalDaysAssumption DEF Time
  <2>3. \A d \in Day : d \in Nat
    BY LocalDaysAssumption DEF Day
  <2>4. /\ f.start \in Nat /\ f.end \in Nat /\ f.recent \in Nat /\ f.upper \in Nat
        /\ DayOf(f.start) \in Nat
    BY <2>3 DEF WellCut
  <2> QED
    BY <2>2, <2>4 DEF Later
<1> HIDE DEF a
<1>1. CASE s # mem.last_state \/ mem.last_ts >= f.end
  <2>1. Tail(f, s) = 0
    BY <1>1 DEF Tail
  <2>2. {} \in SUBSET InWindow(f, s)
    OBVIOUS
  <2> QED
    BY <2>1, <2>2, FS_EmptySet
<1>2. CASE ~(s # mem.last_state \/ mem.last_ts >= f.end)
  <2>1. ASSUME NEW d \in days
        PROVE  d \in Day /\ Midnight[d + 1] <= f.end /\ Midnight[d + 1] <= f.recent
    <3>1. d \in Nat /\ d <= f.upper - 1
      BY <1>0 DEF TailDays
    <3> QED
      BY <3>1, DaysBeforeSeam
  <2>2. IsFiniteSet(days)
    <3>1. DayOf(f.start) \in Int /\ f.upper - 1 \in Int
      BY <1>0
    <3>2. IsFiniteSet(DayOf(f.start)..(f.upper - 1))
      BY <3>1, FS_Interval
    <3> QED
      BY <3>2, FS_Subset DEF TailDays
  <2>3. \A d \in days : /\ given[d] \in Int /\ IsFiniteSet(had[d])
                        /\ given[d] <= Cardinality(had[d])
    <3> SUFFICES ASSUME NEW d \in days
                 PROVE  /\ SplitSecs(a, f.end, d) \in Int /\ IsFiniteSet(DayPart(a, f.end, d))
                        /\ SplitSecs(a, f.end, d) <= Cardinality(DayPart(a, f.end, d))
      OBVIOUS
    <3>1. /\ IsFiniteSet(DayPart(a, f.end, d))
          /\ Cardinality(DayPart(a, f.end, d)) = SplitSecs(a, f.end, d)
      BY <1>0, <2>1, SplitCovers
    <3>2. Cardinality(DayPart(a, f.end, d)) \in Nat
      BY <3>1, FS_CardinalityType
    <3> QED
      BY <3>1, <3>2
  <2>4. \A d, e \in days : d # e => had[d] \cap had[e] = {}
    <3> SUFFICES ASSUME NEW d \in days, NEW e \in days, NEW u \in had[d], u \in had[e]
                 PROVE  d = e
      OBVIOUS
    <3>1. /\ u \in Midnight[d]..(Midnight[d + 1] - 1)
          /\ u \in Midnight[e]..(Midnight[e + 1] - 1)
      BY DEF DayPart
    <3> QED
      BY <2>1, <3>1, DaysApart
  <2>5. DOMAIN given = days
    OBVIOUS
  <2>6. Tail(f, s) = SumFunction(given)
    BY <1>2 DEF Tail, a
  <2>7. \A d \in days : had[d] \subseteq H
    <3> SUFFICES ASSUME NEW d \in days, NEW u \in DayPart(a, f.end, d)
                 PROVE  /\ u \in InWindow(f, s) /\ mem.last_ts <= u /\ u < f.recent
                        /\ DayOf(u) \in days
      OBVIOUS
    <3>1. u \in Midnight[d]..(Midnight[d + 1] - 1) /\ a <= u /\ u < f.end
      BY DEF DayPart
    <3>2. d \in Day /\ Midnight[d + 1] <= f.recent
      BY <2>1
    <3>3. u \in Nat /\ u \in f.start..(f.end - 1) /\ u < f.recent /\ mem.last_ts <= u
      BY <1>0, <3>1, <3>2, DayEnds
    <3>4. u \in changed..now
      BY <1>0, <3>1, <3>3
    <3>5. line[u] = s
      BY <1>2, <3>4 DEF Surroundings
    <3>6. DayOf(u) = d
      <4>1. u \in Time
        BY <1>0, <3>1, <3>3, LocalDaysAssumption DEF Time
      <4>2. Midnight[d] <= u /\ u < Midnight[d + 1]
        BY <3>1, <3>2, DayEnds
      <4> QED
        BY <3>2, <4>1, <4>2, DayOfWithin
    <3> QED
      BY <3>3, <3>5, <3>6 DEF InWindow, ShownIn
  <2>8. IsFiniteSet(H)
    <3>1. IsFiniteSet(InWindow(f, s))
      BY <1>0, ShownFinite DEF InWindow
    <3> QED
      BY <3>1, FS_Subset
  <2> HIDE DEF given, had, days, H
  <2>9. SumFunction(given) \in Int /\ SumFunction(given) <= Cardinality(H)
    <3>1. \A d \in DOMAIN given : /\ given[d] \in Int /\ had[d] \subseteq H
                                  /\ given[d] <= Cardinality(had[d])
      BY <2>3, <2>5, <2>7
    <3>2. /\ IsFiniteSet(DOMAIN given)
          /\ \A d, e \in DOMAIN given : d # e => had[d] \cap had[e] = {}
      BY <2>2, <2>4, <2>5
    <3> QED
      BY <2>8, <3>1, <3>2, SumWithin
  <2>10. /\ H \in SUBSET InWindow(f, s)
         /\ \A u \in H : mem.last_ts <= u /\ u < f.recent /\ DayOf(u) \in TailDays(f)
    BY DEF H, days
  <2> QED
    BY <2>6, <2>9, <2>10
<1> QED
  BY <1>1, <1>2

(* Nor is what a tick takes from the recorder, or from the open visit when *)
(* there is none.                                                          *)
LEMMA RecentPart ==
    ASSUME IInv, Present, pc = "live", minDur = 0, mem.last_state = line[now],
           line[now] # NoState, changed <= mem.last_ts, committed >= changed - 1,
           NEW f, WellCut(f, now), mem.last_ts = changed \/ mem.last_ts <= f.recent,
           NEW s \in Names
    PROVE  /\ Recent(f.recent, now)[s] \in Int
           /\ \E N \in SUBSET InWindow(f, s) :
                /\ \A u \in N : f.recent <= u
                /\ Recent(f.recent, now)[s] <= Cardinality(N)
<1> DEFINE r == f.recent
           N == ShownIn(line, r, now, s)
<1>0. /\ now \in Nat /\ now \in Time /\ changed \in Nat /\ mem.last_ts \in Nat /\ r \in Nat
      /\ f.start \in Nat /\ f.start <= r /\ recorder \in BOOLEAN
      /\ r < now => f.end = now
  <2>1. now \in Time /\ changed \in Time /\ mem.last_ts \in Time /\ recorder \in BOOLEAN
    BY DEF IInv, TypeOK, Ledger
  <2>2. now \in Nat /\ changed \in Nat /\ mem.last_ts \in Nat
    BY <2>1, LocalDaysAssumption DEF Time
  <2>3. r \in Nat /\ f.start \in Nat /\ f.start <= r /\ (r < now => f.end = now)
    BY DEF WellCut
  <2> QED
    BY <2>1, <2>2, <2>3
<1> HIDE DEF r
<1>1. N \in SUBSET InWindow(f, s) /\ \A u \in N : r <= u
  <2> SUFFICES ASSUME NEW u \in r..(now - 1), line[u] = s PROVE u \in InWindow(f, s) /\ r <= u
    BY DEF ShownIn
  <2>0. u \in Nat /\ r <= u /\ u <= now - 1 /\ r < now
    BY <1>0
  <2>1. u \in f.start..(f.end - 1)
    BY <1>0, <2>0
  <2> QED
    BY <2>0, <2>1 DEF InWindow, ShownIn
<1>2. IsFiniteSet(N) /\ Cardinality(N) \in Nat
  BY <1>0, ShownFinite
<1>3. Recent(r, now)[s] \in Int /\ Recent(r, now)[s] <= Cardinality(N)
  <2>1. CASE recorder
    <3>1. Recent(r, now)[s] = Cardinality(N)
      BY <1>0, <2>1, RecentIsTrue DEF r
    <3> HIDE DEF N
    <3> QED
      BY <1>2, <3>1
  <2>2. CASE ~recorder /\ r >= now
    <3>1. Recent(r, now)[s] = 0
      BY <2>2 DEF Recent
    <3> HIDE DEF N
    <3> QED
      BY <1>2, <3>1
  <2>3. CASE ~recorder /\ ~(r >= now)
    <3> DEFINE a == Later(mem.last_ts, r)
    <3>1. Recent(r, now)[s] = IF s = mem.last_state THEN Later(0, now - a) ELSE 0
      BY <2>3 DEF Recent, LiveSlice
    <3>2. a \in Nat /\ mem.last_ts <= a /\ r <= a
      BY <1>0 DEF Later
    <3> HIDE DEF a
    <3>3. CASE s = mem.last_state
      <4>1. a..(now - 1) \subseteq N
        <5> SUFFICES ASSUME NEW u \in a..(now - 1) PROVE u \in r..(now - 1) /\ line[u] = s
          BY DEF ShownIn
        <5>1. u \in r..(now - 1) /\ u \in changed..now
          BY <1>0, <3>2
        <5> QED
          BY <3>3, <5>1 DEF Present, Surroundings
      <4>2. /\ IsFiniteSet(a..(now - 1))
            /\ Cardinality(a..(now - 1)) = IF a > now - 1 THEN 0 ELSE now - 1 - a + 1
        <5>1. a \in Int /\ now - 1 \in Int
          BY <1>0, <3>2
        <5> QED
          BY <5>1, FS_Interval
      <4>3. Cardinality(a..(now - 1)) <= Cardinality(N)
        BY <1>2, <4>1, FS_Subset
      <4> HIDE DEF N
      <4> QED
        BY <1>0, <1>2, <3>1, <3>2, <3>3, <4>2, <4>3 DEF Later
    <3>4. CASE s # mem.last_state
      <4> HIDE DEF N
      <4> QED
        BY <1>2, <3>1, <3>4
    <3> QED
      BY <3>3, <3>4
  <2> QED
    BY <1>0, <2>1, <2>2, <2>3
<1> HIDE DEF N
<1> QED
  BY <1>1, <1>3 DEF r

\* There is a recorder, unless a start may find none.
Recording == recorder \/ RecorderMayBeOff

(* So it stays.                                                            *)
LEMMA RecordingKept == (Init => Recording) /\ (Recording /\ [Next]_vars => Recording')
<1>1. Init => Recording
  BY DEF Init, Recording
<1>2. ASSUME Recording, [Next]_vars PROVE Recording'
  <2>1. CASE Boot
    BY <2>1 DEF Boot, Recording
  <2>2. CASE ~Boot
    <3>1. recorder' = recorder
      BY <1>2, <2>2 DEF Next, vars, environment, SetupRuns, Tick, Commit, Transition,
         AttributeUpdate, Load, BackfillReplace, BackfillMark, BackfillDone, FirstRefresh,
         Subscribe, Poll, FlushDone, FlushFails, Unload, Stop, Crash
    <3> QED
      BY <1>2, <3>1 DEF Recording
  <2> QED
    BY <2>1, <2>2
<1> QED
  BY <1>1, <1>2

(* No frame that began after the tracker knew the entity's visit gives a   *)
(* state more time than it had (compute_frame), with any disk and over any *)
(* restarts: if no glitch threshold is set, the entity is not unavailable  *)
(* while Home Assistant runs, and the rolling frames are no shorter than   *)
(* the longest day wherever there may be no recorder.                      *)
THEOREM NothingOverstated ==
    /\ Thresholds \subseteq {0}
    /\ Unavailable \notin Live
    /\ RecorderMayBeOff => LongFrames
    /\ Spec
    => []NeverOverstates
<1>1. ASSUME Thresholds \subseteq {0}, RecorderMayBeOff => LongFrames, Recording,
             IInv, Following, Present, Modest
      PROVE  NeverOverstates
  <2> SUFFICES ASSUME pc = "live", committed >= changed - 1,
                      NEW f \in Frames(now), exact < f.start, NEW s \in Names
               PROVE  Breakdown(f, now)[s] <= TrueSecs(f, s)
    BY DEF NeverOverstates
  <2>0. /\ now \in Time /\ now \in Nat /\ MaxTime \in Nat /\ now <= MaxTime /\ minDur = 0
        /\ recorder \in BOOLEAN /\ exact \in 0..NoTime /\ mem.last_ts \in Nat /\ changed \in Nat
    <3>1. /\ now \in Time /\ minDur \in Thresholds /\ recorder \in BOOLEAN
          /\ exact \in 0..NoTime /\ mem.last_ts \in Time /\ changed \in Time
      BY <1>1 DEF IInv, TypeOK, Ledger
    <3> QED
      BY <1>1, <3>1, LocalDaysAssumption DEF Time
  <2>1. WellCut(f, now)
    BY <1>1, <2>0, FramesWellCut DEF Recording
  <2>2. /\ f.start \in Nat /\ f.end \in Int /\ f.recent \in Nat /\ f.start <= f.recent
        /\ f.start <= now /\ f.end <= now
    BY <2>0, <2>1 DEF WellCut
  <2>3. exact # NoTime /\ exact \in Nat
    BY <2>0, <2>2 DEF NoTime
  <2>4. Watching
    BY <1>1, <2>3 DEF Following
  <2>5. /\ mem.last_state = line[now] /\ changed <= mem.last_ts /\ line[now] # NoState
        /\ mem.last_ts = changed \/ mem.last_ts <= f.recent
    <3>1. now \in exact..now
      BY <2>0, <2>3, <2>4 DEF Watching
    <3>2. mem.last_ts > exact => mem.last_ts = changed
      BY <2>4 DEF Watching
    <3>3. mem.last_ts = changed \/ mem.last_ts <= f.recent
      BY <2>0, <2>2, <2>3, <3>2
    <3> QED
      BY <2>4, <3>1, <3>3 DEF Watching
  <2>6. Surroundings
    BY <1>1 DEF Present
  <2>7. /\ FromLedger(f, s) \in Int
        /\ \E P \in SUBSET InWindow(f, s) :
             /\ \A u \in P : u < mem.last_ts /\ u < f.recent
             /\ FromLedger(f, s) <= Cardinality(P)
    BY <1>1, <2>1, <2>3, LedgerPart
  <2>8. /\ Tail(f, s) \in Int
        /\ \E H \in SUBSET InWindow(f, s) :
             /\ \A u \in H : mem.last_ts <= u /\ u < f.recent
             /\ Tail(f, s) <= Cardinality(H)
    BY <1>1, <2>1, <2>2, <2>5, <2>6, TailPart
  <2>9. /\ Recent(f.recent, now)[s] \in Int
        /\ \E N \in SUBSET InWindow(f, s) :
             /\ \A u \in N : f.recent <= u
             /\ Recent(f.recent, now)[s] <= Cardinality(N)
    BY <1>1, <2>0, <2>1, <2>5, RecentPart
  <2> PICK P \in SUBSET InWindow(f, s) :
        /\ \A u \in P : u < mem.last_ts /\ u < f.recent
        /\ FromLedger(f, s) <= Cardinality(P)
    BY <2>7
  <2> PICK H \in SUBSET InWindow(f, s) :
        /\ \A u \in H : mem.last_ts <= u /\ u < f.recent
        /\ Tail(f, s) <= Cardinality(H)
    BY <2>8
  <2> PICK N \in SUBSET InWindow(f, s) :
        /\ \A u \in N : f.recent <= u
        /\ Recent(f.recent, now)[s] <= Cardinality(N)
    BY <2>9
  <2>10. /\ IsFiniteSet(InWindow(f, s)) /\ Cardinality(InWindow(f, s)) \in Nat
         /\ \A u \in InWindow(f, s) : u \in Int
    <3>1. f.start \in Int /\ f.end \in Int
      BY <2>2
    <3>2. \A u \in InWindow(f, s) : u \in f.start..(f.end - 1)
      BY DEF InWindow, ShownIn
    <3> QED
      BY <3>1, <3>2, ShownFinite DEF InWindow
  <2>11. IsFiniteSet(P) /\ IsFiniteSet(H) /\ IsFiniteSet(N) /\ P \cup H \cup N \subseteq InWindow(f, s)
    BY <2>10, FS_Subset
  <2>12. P \cap H = {} /\ (P \cup H) \cap N = {}
    <3>1. \A u \in P : u \in Int /\ u < mem.last_ts /\ u < f.recent
      BY <2>10
    <3>2. \A u \in H : u \in Int /\ ~(u < mem.last_ts) /\ u < f.recent
      BY <2>0, <2>10
    <3>3. \A u \in N : ~(u < f.recent)
      BY <2>2, <2>10
    <3> QED
      BY <3>1, <3>2, <3>3
  <2>13. /\ IsFiniteSet(P \cup H)
         /\ Cardinality(P) \in Nat /\ Cardinality(H) \in Nat
         /\ Cardinality(P \cup H) = Cardinality(P) + Cardinality(H)
    BY <2>11, <2>12, DisjointUnion
  <2>14. /\ Cardinality(N) \in Nat
         /\ Cardinality(P \cup H \cup N) = Cardinality(P \cup H) + Cardinality(N)
    BY <2>11, <2>12, <2>13, DisjointUnion
  <2>15. Cardinality(P \cup H \cup N) <= Cardinality(InWindow(f, s))
    BY <2>10, <2>11, FS_Subset
  <2>16. TrueSecs(f, s) = Cardinality(InWindow(f, s))
    BY DEF TrueSecs, InWindow, ShownIn
  <2>17. Breakdown(f, now)[s] = FromLedger(f, s) + Recent(f.recent, now)[s] + Tail(f, s)
    BY DEF Breakdown
  <2> QED
    BY <2>7, <2>8, <2>9, <2>10, <2>13, <2>14, <2>15, <2>16, <2>17
<1> SUFFICES ASSUME Thresholds \subseteq {0}, Unavailable \notin Live,
                    RecorderMayBeOff => LongFrames
             PROVE  Spec => []NeverOverstates
  OBVIOUS
<1>2. Init => Following /\ Present /\ Modest /\ Recording
  BY InitFollowing, InitPresent, RecordingKept DEF Init, Modest
<1>3. IInv /\ IInv' /\ Following /\ Present /\ Modest /\ Recording /\ [Next]_vars
        => Following' /\ Present' /\ Modest' /\ Recording'
  BY NextFollowing, NextPresent, NextModest, RecordingKept
<1>4. IInv /\ Following /\ Present /\ Modest /\ Recording => NeverOverstates
  BY <1>1
<1> QED
  BY <1>2, <1>3, <1>4, Invariance, PTL DEF Spec
-----------------------------------------------------------------------------
(* No day holds more than what was over of it at the anchor, or it is one  *)
(* that the recorder tells of.                                             *)

\* At t every day of ledger L is watched, or it is over and as a backfill would
\* write it.
Settled(L, c, t, f) ==
    \A d \in Day : Watched(L, d, c) \/ (d < DayOf(t) /\ L.daily[d] = BackfillBlocks(f, d, 0))

\* So are those of every ledger.
Settling ==
    /\ Settled(mem, changed, now, line)
    /\ Settled(disk, changed, now, line)
    /\ saving # NoSave => Settled(saving, changed, now, line)

(* A day without a bucket is watched.                                      *)
LEMMA EmptyDayWatched ==
    ASSUME NEW L \in Ledger, NEW d \in Day, NEW c \in Time, L.daily[d] = EmptyDay
    PROVE  Watched(L, d, c)
<1>1. Earlier(L.last_ts, c) \in Time
  BY LocalDaysAssumption DEF Earlier, Time, Ledger
<1>2. Elapsed(Earlier(L.last_ts, c), d) \in Nat
  BY <1>1, ElapsedType
<1> QED
  BY <1>2, DaySecsEmpty DEF Watched

(* A watched day whose bucket stays is watched with a later anchor.        *)
LEMMA WatchedFollows ==
    ASSUME NEW L \in Ledger, NEW M \in Ledger, NEW d \in Day, NEW c \in Time, NEW e \in Time,
           Watched(L, d, c), M.daily[d] = L.daily[d],
           Earlier(L.last_ts, c) <= Earlier(M.last_ts, e)
    PROVE  Watched(M, d, e)
<1>1. Earlier(L.last_ts, c) \in Time /\ Earlier(M.last_ts, e) \in Time
  BY LocalDaysAssumption DEF Earlier, Time, Ledger
<1>2. /\ Elapsed(Earlier(L.last_ts, c), d) <= Elapsed(Earlier(M.last_ts, e), d)
      /\ Elapsed(Earlier(L.last_ts, c), d) \in Nat /\ Elapsed(Earlier(M.last_ts, e), d) \in Nat
  BY <1>1, ElapsedBounds, ElapsedType
<1>3. DaySecs(M, d) = DaySecs(L, d) /\ DaySecs(L, d) \in Nat
  BY DaySecsType DEF DaySecs
<1> QED
  BY <1>2, <1>3 DEF Watched

(* The tracker begins without buckets.                                     *)
LEMMA InitSettling == Init => Settling
<1> SUFFICES ASSUME Init PROVE Settling
  OBVIOUS
<1>1. /\ mem = EmptyLedger /\ disk = EmptyLedger /\ saving = NoSave /\ changed \in Time
      /\ \A d \in Day : EmptyLedger.daily[d] = EmptyDay
  BY InitIInv DEF Init, IInv, TypeOK, EmptyLedger
<1>2. Settled(EmptyLedger, changed, now, line)
  BY <1>1, EmptyLedgerType, EmptyDayWatched DEF Settled
<1> QED
  BY <1>1, <1>2 DEF Settling

(* No step of Tracker leaves a day that is neither.                        *)
LEMMA NextSettling ==
    ASSUME PlainSetting, MaxLag <= 1, IInv, Accounting, Accounting', Rebuilding, Settling,
           [Next]_vars
    PROVE  Settling'
<1>0. /\ now \in Time /\ now' \in Time /\ now \in Nat /\ changed \in Nat
      /\ mem \in Ledger /\ disk \in Ledger /\ saving \in Ledger \cup {NoSave}
      /\ mem' \in Ledger /\ disk' \in Ledger /\ changed \in Time /\ changed' \in Time
      /\ line \in [Time -> Names \cup {NoState}] /\ line' \in [Time -> Names \cup {NoState}]
      /\ Lagging /\ now <= now' /\ SameBefore(line, line', now) /\ changed <= now
      /\ minDur = 0 /\ mem.last_ts \in Nat
  <2>1. changed \in Time /\ changed' \in Time /\ minDur \in Thresholds /\ mem.last_ts \in Time
    BY NextIInv DEF IInv, TypeOK, Ledger
  <2>2. changed \in Nat /\ mem.last_ts \in Nat
    BY <2>1, LocalDaysAssumption DEF Time
  <2> QED
    BY <2>1, <2>2, ClockTypes, NextIInv, PastStays
       DEF IInv, TypeOK, Rebuilding, Accounting, PlainSetting
<1>a. changed' \in {changed, now} /\ changed <= changed'
  <2>1. changed' \in {changed, now}
    BY DEF Next, vars, environment, SetupRuns, Tick, Commit, Transition, AttributeUpdate, Load,
       BackfillReplace, BackfillMark, BackfillDone, FirstRefresh, Subscribe, Poll, FlushDone,
       FlushFails, Unload, Stop, Crash, Boot
  <2> QED
    BY <1>0, <2>1
<1> DEFINE S(L) == Settled(L, changed', now', line')
(* The ledgers there are stay settled as time and the entity go on.        *)
<1>d. S(mem) /\ S(disk) /\ (saving # NoSave => S(saving))
  <2> SUFFICES ASSUME NEW L \in Ledger, Settled(L, changed, now, line), NEW d \in Day
               PROVE  \/ Watched(L, d, changed')
                      \/ d < DayOf(now') /\ L.daily[d] = BackfillBlocks(line', d, 0)
    BY <1>0 DEF Settling, Settled
  <2>1. CASE Watched(L, d, changed)
    BY <1>0, <1>a, <2>1, WatchedLater
  <2>2. CASE d < DayOf(now) /\ L.daily[d] = BackfillBlocks(line, d, 0)
    <3>1. DayOf(now) \in Day /\ DayOf(now') \in Day /\ DayOf(now) <= DayOf(now')
      BY <1>0, DayOfInstant, DayOfMonotone
    <3>2. d < DayOf(now')
      BY <2>2, <3>1, LocalDaysAssumption DEF Day
    <3>3. Midnight[d + 1] \in Time /\ Midnight[d + 1] <= now
      BY <1>0, <2>2, ClosedDay
    <3>4. SameBefore(line, line', Midnight[d + 1])
      BY <1>0, <3>3, LocalDaysAssumption DEF SameBefore, Time
    <3>5. BackfillBlocks(line, d, 0) = BackfillBlocks(line', d, 0)
      BY <1>0, <3>3, <3>4, BackfillBlocksAgree
    <3> QED
      BY <2>2, <3>2, <3>5
  <2> QED
    BY <2>1, <2>2 DEF Settled
<1>e. ASSUME NEW L \in Ledger, NEW M \in Ledger, S(L), L.last_ts = M.last_ts,
             \A d \in Day : M.daily[d] \in {L.daily[d], EmptyDay}
      PROVE  S(M)
  <2> SUFFICES ASSUME NEW d \in Day
               PROVE  \/ Watched(M, d, changed')
                      \/ d < DayOf(now') /\ M.daily[d] = BackfillBlocks(line', d, 0)
    BY DEF Settled
  <2>1. CASE M.daily[d] = EmptyDay
    BY <1>0, <2>1, EmptyDayWatched
  <2>2. CASE M.daily[d] = L.daily[d]
    <3>1. Watched(L, d, changed') => Watched(M, d, changed')
      BY <1>e, <2>2 DEF Watched, DaySecs
    <3> QED
      BY <1>e, <2>2, <3>1 DEF Settled
  <2> QED
    BY <1>e, <2>1, <2>2
<1>f. ASSUME mem' = mem \/ S(mem'), disk' \in {disk, mem'} \/ S(disk'),
             saving' \in {saving, mem', NoSave}
      PROVE  Settling'
  BY <1>d, <1>f DEF Settling
<1>g. S(EmptyLedger)
  <2>1. \A d \in Day : EmptyLedger.daily[d] = EmptyDay
    BY DEF EmptyLedger
  <2> QED
    BY <1>0, <2>1, EmptyLedgerType, EmptyDayWatched DEF Settled
<1>1. CASE Tick \/ Commit \/ Boot \/ BackfillDone \/ FlushDone \/ FlushFails \/ UNCHANGED vars
  BY <1>1, <1>d, <1>f DEF Tick, Commit, Boot, BackfillDone, FlushDone, FlushFails, vars
(* A state change folds into days after the marker, and those are watched. *)
<1>2. ASSUME NEW s, NEW at \in Time, at = changed', pc' = "live", HandleStateChange(s, at)
      PROVE  S(mem')
  <2> SUFFICES ASSUME NEW d \in Day
               PROVE  \/ Watched(mem', d, changed')
                      \/ d < DayOf(now') /\ mem'.daily[d] = BackfillBlocks(line', d, 0)
    BY DEF Settled
  <2>1. mem'.last_ts = at /\ mem'.last_updated_day = mem.last_updated_day
    BY <1>0, <1>2 DEF HandleStateChange, Ledger
  <2>2. CASE mem.last_updated_day < d
    BY <1>2, <2>1, <2>2 DEF Accounting, AllWatched
  <2>3. CASE d <= mem.last_updated_day
    <3>1. mem'.daily[d] = mem.daily[d]
      BY <1>2, <2>3, HandleStateChangeFrozen
    <3>2. Earlier(mem.last_ts, changed') <= Earlier(mem'.last_ts, changed')
      BY <1>0, <1>2, <2>1, LocalDaysAssumption DEF Earlier, Time
    <3>3. Watched(mem, d, changed') => Watched(mem', d, changed')
      BY <1>0, <3>1, <3>2, WatchedFollows
    <3> QED
      BY <1>d, <3>1, <3>3 DEF Settled
  <2> QED
    BY <1>0, <2>2, <2>3, MarkerType, LocalDaysAssumption DEF Day
<1>3. ASSUME NEW s \in Live, Transition(s) PROVE Settling'
  <2>1. disk' = disk /\ saving' = saving /\ pc' = pc /\ changed' = now
    BY <1>3 DEF Transition
  <2>2. CASE mem' = mem
    BY <1>f, <2>1, <2>2
  <2>3. CASE pc = "live" /\ HandleStateChange(s, now)
    BY <1>0, <1>2, <1>f, <2>1, <2>3
  <2> QED
    BY <1>3, <2>2, <2>3 DEF Transition
<1>4. CASE AttributeUpdate
  <2>1. /\ disk' = disk /\ saving' = saving /\ pc' = "live" /\ changed' = changed
        /\ HandleStateChange(line[now], changed)
    BY <1>4 DEF AttributeUpdate, environment
  <2> QED
    BY <1>0, <1>2, <1>f, <2>1
<1>5. CASE Load
  <2> PICK L \in {disk} \cup (IF DiskMayFail THEN {EmptyLedger} ELSE {}) :
        disk' = L /\ mem' = Reconciled(L)
    BY <1>5 DEF Load
  <2>1. S(L) /\ L \in Ledger
    BY <1>0, <1>d, <1>g, EmptyLedgerType
  <2>2. mem'.last_ts = L.last_ts /\ \A d \in Day : mem'.daily[d] \in {L.daily[d], EmptyDay}
    BY <2>1 DEF Reconciled, Ledger, EmptyLedger
  <2>3. S(mem')
    BY <1>0, <1>e, <2>1, <2>2
  <2> QED
    BY <1>5, <1>f, <2>1, <2>3 DEF Load
<1>6. ASSUME Dropped PROVE S(mem') /\ saving' = NoSave
  BY <1>6, <1>g DEF Dropped
<1>7. CASE BackfillReplace
  <2> DEFINE blocks == BackfillBlocks(Visible, day, minDur)
  <2>1. CASE SetupFails
    BY <1>6, <1>f, <2>1 DEF SetupFails
  <2>2. CASE UNCHANGED <<disk, mem, saving>>
    BY <1>f, <2>2
  <2>3. CASE mem' = ReplaceDay(mem, day, blocks) /\ SaveAndGo("mark") /\ UNCHANGED saving
    <3>1. /\ day \in Day /\ day < DayOf(now) /\ now' = now /\ line' = line
      <4>1. day \in 0..(LastDay + 1) /\ today <= DayOf(now) /\ today \in Day /\ DayOf(now) \in Day
        BY <1>0, DayOfInstant DEF IInv, TypeOK, SetupOrder
      <4>2. day < today /\ now' = now /\ line' = line
        BY <1>7 DEF BackfillReplace, Pending, environment
      <4> QED
        BY <4>1, <4>2, LocalDaysAssumption DEF Day
    <3>2. blocks = BackfillBlocks(line, day, 0)
      BY <1>0, <3>1, VisibleIsTold
    <3> HIDE DEF blocks
    <3>3. /\ \A d \in Day : d # day => mem'.daily[d] = mem.daily[d]
          /\ mem'.daily[day] = blocks /\ mem'.last_ts = mem.last_ts
      BY <1>0, <2>3, <3>1 DEF ReplaceDay, Ledger
    <3>4. S(mem')
      <4> SUFFICES ASSUME NEW d \in Day
                   PROVE  \/ Watched(mem', d, changed')
                          \/ d < DayOf(now') /\ mem'.daily[d] = BackfillBlocks(line', d, 0)
        BY DEF Settled
      <4>1. CASE d = day
        BY <3>1, <3>2, <3>3, <4>1
      <4>2. CASE d # day
        <5>1. Watched(mem, d, changed') => Watched(mem', d, changed')
          BY <3>3, <4>2 DEF Watched, DaySecs
        <5> QED
          BY <1>d, <3>3, <4>2, <5>1 DEF Settled
      <4> QED
        BY <4>1, <4>2
    <3> QED
      BY <1>f, <2>3, <3>4 DEF SaveAndGo
  <2> HIDE DEF blocks
  <2> QED
    BY <1>7, <2>1, <2>2, <2>3 DEF BackfillReplace, blocks
<1>8. CASE BackfillMark
  <2>1. CASE SetupFails
    BY <1>6, <1>f, <2>1 DEF SetupFails
  <2>2. CASE mem' = [mem EXCEPT !.last_updated_day = day] /\ disk' = mem' /\ saving' = saving
    <3>1. mem'.daily = mem.daily /\ mem'.last_ts = mem.last_ts
      BY <1>0, <2>2 DEF Ledger
    <3> QED
      BY <1>0, <1>d, <1>e, <1>f, <2>2, <3>1
  <2> QED
    BY <1>8, <2>1, <2>2 DEF BackfillMark, SaveAndGo
<1>9. CASE FirstRefresh \/ Poll
  <2>1. /\ \A d \in Day : mem'.daily[d] \in {mem.daily[d], EmptyDay}
        /\ mem'.last_ts = mem.last_ts
        /\ disk' \in {disk, mem'} /\ saving' \in {saving, mem', NoSave}
    BY <1>0, <1>9 DEF FirstRefresh, Poll, Flushed, Pruned, Ledger
  <2> QED
    BY <1>0, <1>d, <1>e, <1>f, <2>1
<1>10. CASE Subscribe
  <2>1. /\ mem'.daily = mem.daily /\ disk' = disk /\ saving' = saving
        /\ mem'.last_ts \in {mem.last_ts, now} /\ changed' = changed
    BY <1>0, <1>10 DEF Subscribe, Ledger, environment
  <2>2. Earlier(mem.last_ts, changed') <= Earlier(mem'.last_ts, changed')
    BY <1>0, <2>1 DEF Earlier
  <2>3. \A d \in Day : Watched(mem, d, changed') => Watched(mem', d, changed')
    BY <1>0, <2>1, <2>2, WatchedFollows
  <2>4. S(mem')
    BY <1>d, <2>1, <2>3 DEF Settled
  <2> QED
    BY <1>f, <2>1, <2>4
<1>11. CASE Unload \/ Stop \/ Crash
  <2>1. disk' \in {mem, disk} /\ Dropped
    BY <1>11 DEF Unload, Stop, Crash
  <2> QED
    BY <1>6, <1>d, <1>f, <2>1
<1> QED
  BY <1>1, <1>3, <1>4, <1>5, <1>7, <1>8, <1>9, <1>10, <1>11 DEF Next, SetupRuns

-----------------------------------------------------------------------------
(* A tick's seconds fit in the frame's window.                             *)

(* The states are finitely many.                                           *)
LEMMA NamesFinite == IsFiniteSet(Names)
  BY NamesAssumption, FS_AddElement DEF Names

\* Before when the seconds are that the ledger has of day d.
Reach(d) == IF Watched(mem, d, changed) THEN Earlier(mem.last_ts, changed) ELSE Midnight[d + 1]

(* It has no more than there were.                                         *)
LEMMA DayFits ==
    ASSUME IInv, Settled(mem, changed, now, line), NEW d \in Day
    PROVE  /\ Reach(d) \in Nat /\ DaySecs(mem, d) \in Nat
           /\ IsFiniteSet(DayPart(0, Reach(d), d))
           /\ DaySecs(mem, d) <= Cardinality(DayPart(0, Reach(d), d))
<1>0. mem \in Ledger /\ changed \in Time /\ mem.last_ts \in Time
  BY DEF IInv, TypeOK, Ledger
<1>1. Earlier(mem.last_ts, changed) \in Nat
  BY <1>0, LocalDaysAssumption DEF Earlier, Time
<1>2. Midnight[d] \in Nat /\ Midnight[d + 1] \in Nat /\ Midnight[d] < Midnight[d + 1]
  BY DayEnds
<1>3. Reach(d) \in Nat
  BY <1>1, <1>2 DEF Reach
<1>4. DaySecs(mem, d) \in Nat
  BY <1>0, DaySecsType
<1>5. /\ IsFiniteSet(DayPart(0, Reach(d), d))
      /\ Cardinality(DayPart(0, Reach(d), d)) = SplitSecs(0, Reach(d), d)
  BY <1>3, SplitCovers
<1>6. DaySecs(mem, d) <= SplitSecs(0, Reach(d), d)
  <2>1. CASE Watched(mem, d, changed)
    BY <2>1 DEF Watched, Elapsed, Reach
  <2>2. CASE ~Watched(mem, d, changed)
    <3>1. mem.daily[d] = BackfillBlocks(line, d, 0)
      BY <2>2 DEF Settled
    <3>2. DaySecs(mem, d) <= DayLength(d)
      BY <3>1, DaySecsCells, BackfillBlocksBounded
    <3>3. SplitSecs(0, Midnight[d + 1], d) = DayLength(d)
      BY <1>2 DEF SplitSecs, DayLength, Earlier, Later
    <3> QED
      BY <2>2, <3>2, <3>3 DEF Reach
  <2> QED
    BY <2>1, <2>2
<1> QED
  BY <1>3, <1>4, <1>5, <1>6

(* Nor has it any since the anchor of a day that has none of the visit.    *)
LEMMA TailFits ==
    ASSUME IInv, Settled(mem, changed, now, line), Present, up, line[now] # NoState,
           mem.last_state = line[now], changed <= mem.last_ts,
           NEW d \in Day, mem.daily[d][mem.last_state].secs = 0
    PROVE  Reach(d) <= mem.last_ts
<1>0. /\ mem \in Ledger /\ changed \in Nat /\ mem.last_ts \in Nat /\ now \in Time
      /\ now \in Nat /\ line \in [Time -> Names \cup {NoState}]
  <2>1. mem \in Ledger /\ changed \in Time /\ mem.last_ts \in Time
    BY DEF IInv, TypeOK, Ledger
  <2> QED
    BY <2>1, LocalDaysAssumption DEF IInv, TypeOK, Time
<1>1. CASE Watched(mem, d, changed)
  BY <1>0, <1>1 DEF Reach, Earlier
<1>2. CASE ~Watched(mem, d, changed)
  <2> DEFINE a == Midnight[d]
             e == Midnight[d + 1]
             s == line[now]
  <2>1. a \in Nat /\ e \in Nat /\ a < e /\ e <= now /\ Reach(d) = e
    <3>1. d < DayOf(now)
      BY <1>2 DEF Settled
    <3> QED
      BY <1>0, <1>2, <3>1, ClosedDay, DayEnds DEF Reach
  <2>2. mem.daily[d] = BackfillBlocks(line, d, 0)
    BY <1>2 DEF Settled
  <2> SUFFICES ASSUME mem.last_ts < e PROVE FALSE
    BY <1>0, <2>1
  <2> HIDE DEF a, e
  <2>3. line[e - 1] = s
    <3>1. e - 1 \in changed..now
      BY <1>0, <2>1
    <3> QED
      BY <3>1 DEF Present, Surroundings
  <2>4. s # Unavailable /\ s \in Names
    BY <1>0 DEF Present
  <2>5. StaysShown(line, a..(e - 1))
    <3>1. \A u \in a..(e - 1) : u \in 0..now
      BY <1>0, <2>1
    <3> QED
      BY <3>1 DEF Present, StaysShown
  <2> HIDE DEF s
  <2>6. CarryForward(line, a, e) = line
    BY <2>1, <2>3, <2>4, <2>5, NothingCarried
  <2>7. BackfillBlocks(line, d, 0)[s].secs = Cardinality(ShownIn(line, a, e, s))
    <3>1. BackfillBlocks(line, d, 0) = Blocks(line, a, e, 0)
      BY <2>6 DEF BackfillBlocks, a, e
    <3> QED
      BY <2>1, <2>4, <2>5, <3>1, ShownSeconds
  <2>8. Cardinality(ShownIn(line, a, e, s)) # 0
    <3>1. e - 1 \in ShownIn(line, a, e, s)
      BY <2>1, <2>3 DEF ShownIn
    <3>2. IsFiniteSet(ShownIn(line, a, e, s))
      BY <2>1, ShownFinite
    <3> QED
      BY <3>1, <3>2, FS_EmptySet
  <2> QED
    BY <2>2, <2>7, <2>8 DEF s
<1> QED
  BY <1>1, <1>2

\* The instants of frame f's window.
WindowOf(f) == f.start..(f.end - 1)

(* The seconds the ledger gives a frame are as many as there were of its   *)
(* days, before the recorder's slice.                                      *)
LEMMA LedgerFits ==
    ASSUME IInv, Settled(mem, changed, now, line), NEW f, WellCut(f, now)
    PROVE  LET ledger == [s \in Names |-> FromLedger(f, s)]
               P == {u \in WindowOf(f) : u < f.recent /\ u < Reach(DayOf(u))}
           IN  /\ \A s \in Names : ledger[s] \in Int
               /\ SumFunction(ledger) \in Int /\ SumFunction(ledger) <= Cardinality(P)
<1> DEFINE days == f.lower..(f.upper - 1)
           table == [s \in Names |-> [d \in days |-> mem.daily[d][s].secs]]
           Row(s) == [d \in days |-> table[s][d]]
           Column(d) == [s \in Names |-> table[s][d]]
           columns == [d \in days |-> SumFunction(Column(d))]
           parts == [d \in days |-> DayPart(0, Reach(d), d)]
           ledger == [s \in Names |-> FromLedger(f, s)]
           P == {u \in WindowOf(f) : u < f.recent /\ u < Reach(DayOf(u))}
<1>0. /\ f.start \in Nat /\ f.end \in Nat /\ f.recent \in Nat /\ f.lower \in Nat
      /\ f.upper \in Nat /\ mem \in Ledger /\ now \in Nat /\ f.end <= now
      /\ now <= MaxTime /\ MaxTime \in Nat
  <2>1. mem \in Ledger /\ now \in Time
    BY DEF IInv, TypeOK
  <2>2. now \in Nat /\ now <= MaxTime /\ MaxTime \in Nat
    BY <2>1, LocalDaysAssumption DEF Time
  <2>3. \A d \in Day : d \in Nat
    BY LocalDaysAssumption DEF Day
  <2> QED
    BY <2>1, <2>2, <2>3 DEF WellCut
<1>1. ASSUME NEW d \in days
      PROVE  /\ d \in Day /\ f.start <= Midnight[d] /\ Midnight[d + 1] <= f.end
             /\ Midnight[d + 1] <= f.recent
  BY <1>0, LedgerDays
<1>2. IsFiniteSet(days) /\ IsFiniteSet(Names)
  <2>1. f.lower \in Int /\ f.upper - 1 \in Int
    BY <1>0
  <2> QED
    BY <2>1, FS_Interval, NamesFinite
<1>3. \A s \in Names : \A d \in days : table[s][d] = mem.daily[d][s].secs /\ table[s][d] \in Nat
  <2> TAKE s \in Names
  <2> TAKE d \in days
  <2>1. mem.daily[d] \in Bucket
    BY <1>0, <1>1 DEF Ledger
  <2> QED
    BY <2>1 DEF Bucket
<1>4. \A s \in Names : FromLedger(f, s) = SumFunction(Row(s))
  BY DEF FromLedger
<1>5. \A d \in days : /\ columns[d] \in Int /\ parts[d] \subseteq P
                      /\ columns[d] <= Cardinality(parts[d])
  <2> SUFFICES ASSUME NEW d \in days
               PROVE  /\ SumFunction(Column(d)) \in Int /\ DayPart(0, Reach(d), d) \subseteq P
                      /\ SumFunction(Column(d)) <= Cardinality(DayPart(0, Reach(d), d))
    OBVIOUS
  <2>1. d \in Day
    BY <1>1
  <2>2. SumFunction(Column(d)) \in Int /\ SumFunction(Column(d)) <= Cardinality(Cells(mem.daily[d]))
    <3> DEFINE column == Column(d)
               cells == [s \in Names |-> {s} \X (1..mem.daily[d][s].secs)]
    <3>1. mem.daily[d] \in Bucket
      BY <1>0, <2>1 DEF Ledger
    <3>2. IsFiniteSet(Cells(mem.daily[d]))
      BY <3>1, CellsFinite
    <3>3. ASSUME NEW s \in Names
          PROVE  /\ column[s] \in Int /\ cells[s] \subseteq Cells(mem.daily[d])
                 /\ column[s] <= Cardinality(cells[s])
      <4>1. column[s] = mem.daily[d][s].secs /\ mem.daily[d][s].secs \in Nat
        BY <1>3
      <4>2. cells[s] \subseteq Cells(mem.daily[d])
        BY DEF Cells
      <4>3. mem.daily[d][s].secs <= Cardinality(cells[s])
        <5> DEFINE k == mem.daily[d][s].secs
                   these == {s} \X (1..k)
                   g == [p \in these |-> p[2]]
        <5>1. cells[s] = these
          OBVIOUS
        <5>2. IsFiniteSet(these)
          BY <3>2, <4>2, <5>1, FS_Subset
        <5>3. k \in Nat
          BY <4>1
        <5> HIDE DEF k
        <5>4. g \in [these -> 1..k] /\ \A n \in 1..k : \E p \in these : g[p] = n
          <6>1. g \in [these -> 1..k]
            OBVIOUS
          <6>2. \A n \in 1..k : <<s, n>> \in these /\ g[<<s, n>>] = n
            OBVIOUS
          <6> QED
            BY <6>1, <6>2
        <5>5. IsFiniteSet(1..k) /\ Cardinality(1..k) = k
          BY <5>3, FS_Interval
        <5> HIDE DEF these, g
        <5>6. g \in Surjection(these, 1..k)
          BY <5>4, Fun_IsSurj
        <5>7. Cardinality(1..k) <= Cardinality(these)
          BY <5>2, <5>6, FS_Surjection
        <5> QED
          BY <5>1, <5>5, <5>7 DEF k
      <4> HIDE DEF column, cells
      <4> QED
        BY <4>1, <4>2, <4>3
    <3>4. \A s, r \in Names : s # r => cells[s] \cap cells[r] = {}
      OBVIOUS
    <3>5. DOMAIN column = Names
      OBVIOUS
    <3> HIDE DEF column, cells
    <3>6. /\ SumFunction(column) \in Int
          /\ SumFunction(column) <= Cardinality(Cells(mem.daily[d]))
      BY <1>2, <3>2, <3>3, <3>4, <3>5, SumWithin
    <3> QED
      BY <3>6 DEF column
  <2>3. /\ DaySecs(mem, d) <= Cardinality(DayPart(0, Reach(d), d))
        /\ DaySecs(mem, d) = Cardinality(Cells(mem.daily[d])) /\ DaySecs(mem, d) \in Nat
        /\ Cardinality(DayPart(0, Reach(d), d)) \in Nat
    BY <2>1, DayFits, DaySecsCells, FS_CardinalityType
  <2>4. DayPart(0, Reach(d), d) \subseteq P
    <3> SUFFICES ASSUME NEW u \in DayPart(0, Reach(d), d)
                 PROVE  u \in WindowOf(f) /\ u < f.recent /\ u < Reach(DayOf(u))
      OBVIOUS
    <3>1. /\ u \in Midnight[d]..(Midnight[d + 1] - 1) /\ u < Reach(d)
          /\ Midnight[d] \in Nat /\ Midnight[d + 1] \in Nat
      BY <2>1, DayEnds DEF DayPart
    <3>2. u \in f.start..(f.end - 1) /\ u < f.recent /\ u \in 0..MaxTime
      BY <1>0, <1>1, <3>1
    <3>3. DayOf(u) = d
      <4>1. u \in Time /\ Midnight[d] <= u /\ u < Midnight[d + 1]
        BY <3>1, <3>2 DEF Time
      <4> QED
        BY <2>1, <4>1, DayOfWithin
    <3> QED
      BY <3>1, <3>2, <3>3 DEF WindowOf
  <2> HIDE DEF Column, P
  <2> QED
    BY <2>2, <2>3, <2>4
<1>6. \A d, e \in days : d # e => parts[d] \cap parts[e] = {}
  <2> SUFFICES ASSUME NEW d \in days, NEW e \in days, NEW u \in parts[d], u \in parts[e]
               PROVE  d = e
    OBVIOUS
  <2>1. /\ u \in Midnight[d]..(Midnight[d + 1] - 1)
        /\ u \in Midnight[e]..(Midnight[e + 1] - 1)
    BY DEF DayPart
  <2> QED
    BY <1>1, <2>1, DaysApart
<1>7. IsFiniteSet(P)
  <2>1. IsFiniteSet(WindowOf(f))
    <3>1. f.start \in Int /\ f.end - 1 \in Int
      BY <1>0
    <3> QED
      BY <3>1, FS_Interval DEF WindowOf
  <2> QED
    BY <2>1, FS_Subset
<1>8. DOMAIN columns = days
  OBVIOUS
<1>9. \A s \in Names : ledger[s] \in Int /\ ledger[s] = SumFunction(table[s])
  <2> SUFFICES ASSUME NEW s \in Names
               PROVE  SumFunction(table[s]) \in Int /\ FromLedger(f, s) = SumFunction(table[s])
    OBVIOUS
  <2>1. table[s] = Row(s)
    OBVIOUS
  <2> DEFINE row == Row(s)
  <2>2. DOMAIN row = days /\ \A d \in days : row[d] \in Int
    BY <1>3
  <2> HIDE DEF row, days
  <2>3. SumFunction(row) \in Int
    BY <1>2, <2>2, SumType
  <2> QED
    BY <1>4, <2>1, <2>3 DEF row
<1>10. SumFunction(ledger) = SumFunction(columns)
  <2> DEFINE turned == [d \in days |-> Column(d)]
  <2>1. /\ table \in [Names -> [days -> Int]] /\ turned \in [days -> [Names -> Int]]
        /\ \A s \in Names : \A d \in days : turned[d][s] = table[s][d]
    <3>1. \A s \in Names : Row(s) \in [days -> Int]
      BY <1>3
    <3>2. \A d \in days : Column(d) \in [Names -> Int]
      BY <1>3
    <3>3. \A s \in Names : table[s] = Row(s)
      OBVIOUS
    <3>4. \A d \in days : turned[d] = Column(d)
      OBVIOUS
    <3>5. \A s \in Names : \A d \in days : Column(d)[s] = table[s][d]
      OBVIOUS
    <3>6. DOMAIN table = Names /\ DOMAIN turned = days
      OBVIOUS
    <3>7. table = [s \in Names |-> Row(s)]
      OBVIOUS
    <3> HIDE DEF Row, Column, table, days
    <3> QED
      BY <3>1, <3>2, <3>4, <3>5, <3>7
  <2>2. ledger \in [Names -> Int] /\ columns \in [days -> Int]
    BY <1>5, <1>9
  <2>3. \A d \in days : columns[d] = SumFunction(turned[d])
    OBVIOUS
  <2>4. \A s \in Names : ledger[s] = SumFunction(table[s])
    BY <1>9
  <2> HIDE DEF ledger, columns, table, turned, days
  <2>5. Turned(table, turned, Names, days)
    BY <2>1 DEF Turned
  <2>6. RowSums(ledger, table, Names) /\ RowSums(columns, turned, days)
    BY <2>2, <2>3, <2>4 DEF RowSums
  <2> QED
    BY <1>2, <2>5, <2>6, SumSwapped
<1> HIDE DEF columns, parts, P, days
<1>11. SumFunction(columns) \in Int /\ SumFunction(columns) <= Cardinality(P)
  BY <1>2, <1>5, <1>6, <1>7, <1>8, SumWithin
<1> QED
  BY <1>9, <1>10, <1>11 DEF P

-----------------------------------------------------------------------------
(* What the recorder's slice gives a frame is no more than it was long.    *)
LEMMA RecentFits ==
    ASSUME IInv, recorder, NEW f, WellCut(f, now)
    PROVE  LET recent == Recent(f.recent, now)
               N == {u \in WindowOf(f) : f.recent <= u}
           IN  /\ DOMAIN recent = Names /\ \A s \in Names : recent[s] \in Int
               /\ SumFunction(recent) \in Int /\ SumFunction(recent) <= Cardinality(N)
<1> DEFINE r == f.recent
           recent == Recent(r, now)
           N == {u \in WindowOf(f) : r <= u}
<1>0. /\ now \in Nat /\ r \in Nat /\ f.start \in Nat /\ f.end \in Nat /\ f.start <= r
      /\ r < now => f.end = now
  <2>1. now \in Nat
    BY LocalDaysAssumption DEF IInv, TypeOK, Time
  <2> QED
    BY <2>1 DEF WellCut
<1>1. IsFiniteSet(N) /\ IsFiniteSet(Names)
  <2>1. f.start \in Int /\ f.end - 1 \in Int
    BY <1>0
  <2>2. IsFiniteSet(WindowOf(f))
    BY <2>1, FS_Interval DEF WindowOf
  <2> QED
    BY <2>2, FS_Subset, NamesFinite
<1>2. CASE r >= now
  <2> DEFINE none == [s \in Names |-> {}]
  <2>1. recent = [s \in Names |-> 0]
    BY <1>2 DEF Recent
  <2>2. /\ DOMAIN recent = Names
        /\ \A s \in Names : /\ recent[s] \in Int /\ none[s] \subseteq N
                            /\ recent[s] <= Cardinality(none[s])
    BY <2>1, FS_EmptySet
  <2>3. \A s, x \in Names : s # x => none[s] \cap none[x] = {}
    OBVIOUS
  <2> HIDE DEF recent, none, N
  <2>4. SumFunction(recent) \in Int /\ SumFunction(recent) <= Cardinality(N)
    BY <1>1, <2>2, <2>3, SumWithin
  <2> QED
    BY <2>2, <2>4 DEF recent, N
<1>3. CASE ~(r >= now)
  <2> DEFINE shown == WindowStates(now)
             kept == Survivors(shown, r, now, minDur)
             own == [s \in Names |-> {u \in r..(now - 1) : GivenTo(shown, kept, u) = s}]
  <2>1. recent = [s \in Names |-> Blocks(shown, r, now, minDur)[s].secs]
    BY <1>3 DEF Recent
  <2>2. \A s \in Names : Blocks(shown, r, now, minDur)[s].secs = Cardinality(own[s])
    BY DEF Blocks
  <2>3. \A s \in Names : own[s] \subseteq N
    <3>1. \A u \in r..(now - 1) : u \in f.start..(f.end - 1) /\ r <= u
      BY <1>0, <1>3
    <3>2. r..(now - 1) \subseteq N
      BY <3>1 DEF WindowOf
    <3> QED
      BY <3>2
  <2>4. \A s, x \in Names : s # x => own[s] \cap own[x] = {}
    OBVIOUS
  <2> HIDE DEF shown, kept, own, recent, N
  <2>5. \A s \in Names : Cardinality(own[s]) \in Int
    <3>1. \A s \in Names : IsFiniteSet(own[s])
      BY <1>1, <2>3, FS_Subset
    <3> QED
      BY <3>1, FS_CardinalityType
  <2>6. DOMAIN recent = Names /\ \A s \in Names : recent[s] = Cardinality(own[s])
    BY <2>1, <2>2
  <2>7. \A s \in Names : recent[s] \in Int /\ recent[s] <= Cardinality(own[s])
    BY <2>5, <2>6
  <2>8. SumFunction(recent) \in Int /\ SumFunction(recent) <= Cardinality(N)
    BY <1>1, <2>3, <2>4, <2>6, <2>7, SumWithin
  <2> QED
    BY <2>6, <2>7, <2>8 DEF recent, N
<1> QED
  BY <1>2, <1>3

(* What the tail of the open visit gives it is no more than the instants   *)
(* since the anchor in the days it is carried into.                        *)
LEMMA TailsFit ==
    ASSUME IInv, Surroundings, mem.last_state = line[now], changed <= mem.last_ts,
           NEW f, WellCut(f, now)
    PROVE  LET tails == [s \in Names |-> Tail(f, s)]
               H == {u \in WindowOf(f) : /\ line[now] # NoState /\ mem.last_ts <= u
                                         /\ u < f.recent /\ DayOf(u) \in TailDays(f)}
           IN  /\ \A s \in Names : tails[s] \in Int
               /\ SumFunction(tails) \in Int /\ SumFunction(tails) <= Cardinality(H)
<1> DEFINE tails == [s \in Names |-> Tail(f, s)]
           H == {u \in WindowOf(f) : /\ line[now] # NoState /\ mem.last_ts <= u
                                     /\ u < f.recent /\ DayOf(u) \in TailDays(f)}
           parts == [s \in Names |-> IF s = line[now] THEN H ELSE {}]
<1>0. f.start \in Nat /\ f.end \in Nat /\ f.end <= now
  BY DEF WellCut
<1>1. IsFiniteSet(H) /\ IsFiniteSet(Names)
  <2>1. f.start \in Int /\ f.end - 1 \in Int
    BY <1>0
  <2>2. IsFiniteSet(WindowOf(f))
    BY <2>1, FS_Interval DEF WindowOf
  <2> QED
    BY <2>2, FS_Subset, NamesFinite
<1>2. ASSUME NEW s \in Names
      PROVE  /\ tails[s] \in Int /\ parts[s] \subseteq H
             /\ tails[s] <= Cardinality(parts[s])
  <2>1. CASE s = line[now]
    <3>1. Tail(f, s) \in Int
      BY <1>0, TailPart
    <3>2. PICK G \in SUBSET InWindow(f, s) :
            /\ \A u \in G : mem.last_ts <= u /\ u < f.recent /\ DayOf(u) \in TailDays(f)
            /\ Tail(f, s) <= Cardinality(G)
      BY <1>0, TailPart
    <3>3. line[now] # NoState
      BY <2>1, NamesAssumption
    <3>4. G \subseteq H
      BY <3>2, <3>3 DEF InWindow, ShownIn, WindowOf
    <3>5. /\ Cardinality(G) <= Cardinality(H)
          /\ Cardinality(G) \in Nat /\ Cardinality(H) \in Nat
      BY <1>1, <3>4, FS_Subset, FS_CardinalityType
    <3>6. tails[s] = Tail(f, s) /\ parts[s] = H
      BY <2>1
    <3> HIDE DEF H, tails, parts
    <3> QED
      BY <3>1, <3>2, <3>5, <3>6
  <2>2. CASE s # line[now]
    <3>1. tails[s] = 0 /\ parts[s] = {}
      BY <2>2 DEF Tail
    <3> HIDE DEF H, tails, parts
    <3> QED
      BY <3>1, FS_EmptySet
  <2> QED
    BY <2>1, <2>2
<1>3. \A s, x \in Names : s # x => parts[s] \cap parts[x] = {}
  OBVIOUS
<1>4. DOMAIN tails = Names
  OBVIOUS
<1> HIDE DEF tails, parts, H
<1>5. SumFunction(tails) \in Int /\ SumFunction(tails) <= Cardinality(H)
  BY <1>1, <1>2, <1>3, <1>4, SumWithin
<1> QED
  BY <1>2, <1>5 DEF tails, H

(* The three together stay within the frame's window: no instant is given  *)
(* by two of them.                                                         *)
LEMMA FrameFits ==
    ASSUME IInv, Settled(mem, changed, now, line), Present, up, recorder,
           mem.last_state = line[now], changed <= mem.last_ts,
           NEW f, WellCut(f, now)
    PROVE  Total(f, now) <= f.end - f.start
<1> DEFINE ledger == [s \in Names |-> FromLedger(f, s)]
           recent == Recent(f.recent, now)
           tails == [s \in Names |-> Tail(f, s)]
           both == [s \in DOMAIN ledger |-> ledger[s] + recent[s]]
           all == [s \in DOMAIN both |-> both[s] + tails[s]]
           P == {u \in WindowOf(f) : u < f.recent /\ u < Reach(DayOf(u))}
           N == {u \in WindowOf(f) : f.recent <= u}
           H == {u \in WindowOf(f) : /\ line[now] # NoState /\ mem.last_ts <= u
                                     /\ u < f.recent /\ DayOf(u) \in TailDays(f)}
<1>0. /\ f.start \in Nat /\ f.end \in Nat /\ f.recent \in Nat /\ f.start <= f.end
      /\ now \in Nat /\ now <= MaxTime /\ MaxTime \in Nat /\ f.end <= now
      /\ changed \in Nat /\ mem.last_ts \in Nat
  <2>1. now \in Time /\ changed \in Time /\ mem.last_ts \in Time
    BY DEF IInv, TypeOK, Ledger
  <2>2. /\ now \in Nat /\ now <= MaxTime /\ MaxTime \in Nat
        /\ changed \in Nat /\ mem.last_ts \in Nat
    BY <2>1, LocalDaysAssumption DEF Time
  <2> QED
    BY <2>2 DEF WellCut
<1>1. /\ \A s \in Names : ledger[s] \in Int
      /\ SumFunction(ledger) \in Int /\ SumFunction(ledger) <= Cardinality(P)
  BY LedgerFits
<1>2. /\ DOMAIN recent = Names /\ \A s \in Names : recent[s] \in Int
      /\ SumFunction(recent) \in Int /\ SumFunction(recent) <= Cardinality(N)
  BY RecentFits
<1>3. /\ \A s \in Names : tails[s] \in Int
      /\ SumFunction(tails) \in Int /\ SumFunction(tails) <= Cardinality(H)
  BY TailsFit DEF Present
<1>4. DOMAIN ledger = Names /\ DOMAIN tails = Names /\ IsFiniteSet(Names)
  BY NamesFinite
<1>5. Breakdown(f, now) = all
  BY DEF Breakdown
<1> HIDE DEF ledger, recent, tails
<1>6. SumFunction(all) = SumFunction(ledger) + SumFunction(recent) + SumFunction(tails)
  <2>1. SumFunction(both) = SumFunction(ledger) + SumFunction(recent)
    BY <1>1, <1>2, <1>4, SumAdded
  <2>2. DOMAIN both = Names /\ \A s \in Names : both[s] \in Int
    BY <1>1, <1>2, <1>4
  <2> HIDE DEF both
  <2>3. SumFunction(all) = SumFunction(both) + SumFunction(tails)
    BY <1>3, <1>4, <2>2, SumAdded
  <2> QED
    BY <2>1, <2>3
<1>7. IsFiniteSet(WindowOf(f)) /\ Cardinality(WindowOf(f)) = f.end - f.start
  <2>1. f.start \in Int /\ f.end - 1 \in Int
    BY <1>0
  <2>2. /\ IsFiniteSet(f.start..(f.end - 1))
        /\ Cardinality(f.start..(f.end - 1))
             = IF f.start > f.end - 1 THEN 0 ELSE f.end - 1 - f.start + 1
    BY <2>1, FS_Interval
  <2> QED
    BY <1>0, <2>2 DEF WindowOf
<1>8. P \cap H = {}
  <2> SUFFICES ASSUME NEW u \in P, u \in H PROVE FALSE
    OBVIOUS
  <2> DEFINE d == DayOf(u)
  <2>1. u \in Nat /\ u \in Time
    <3>1. u \in f.start..(f.end - 1)
      BY DEF WindowOf
    <3>2. u \in 0..MaxTime
      BY <1>0, <3>1
    <3> QED
      BY <3>2 DEF Time
  <2>2. d \in Day
    BY <2>1, DayOfInstant
  <2>3. line[now] # NoState /\ mem.last_ts <= u /\ mem.daily[d][mem.last_state].secs = 0
    BY DEF TailDays
  <2>4. Reach(d) <= mem.last_ts
    BY <2>2, <2>3, TailFits
  <2>5. u < Reach(d) /\ Reach(d) \in Nat
    BY <2>2, DayFits
  <2> QED
    BY <1>0, <2>1, <2>3, <2>4, <2>5
<1>9. (P \cup H) \cap N = {}
  <2> SUFFICES ASSUME NEW u \in WindowOf(f), u < f.recent, f.recent <= u PROVE FALSE
    OBVIOUS
  <2>1. u \in f.start..(f.end - 1)
    BY DEF WindowOf
  <2> QED
    BY <1>0, <2>1
<1>10. IsFiniteSet(P) /\ IsFiniteSet(H) /\ IsFiniteSet(N)
  BY <1>7, FS_Subset
<1>11. (P \cup H) \cup N \subseteq WindowOf(f)
  OBVIOUS
<1> HIDE DEF P, H, N, all
<1>12. /\ IsFiniteSet(P \cup H)
       /\ Cardinality(P \cup H) = Cardinality(P) + Cardinality(H)
       /\ Cardinality(P) \in Nat /\ Cardinality(H) \in Nat
  BY <1>8, <1>10, DisjointUnion
<1>13. /\ Cardinality((P \cup H) \cup N) = Cardinality(P \cup H) + Cardinality(N)
       /\ Cardinality(N) \in Nat
  BY <1>9, <1>10, <1>12, DisjointUnion
<1>14. Cardinality((P \cup H) \cup N) <= f.end - f.start
  BY <1>7, <1>11, FS_Subset
<1> QED
  BY <1>0, <1>1, <1>2, <1>3, <1>5, <1>6, <1>12, <1>13, <1>14 DEF Total

(* No frame's breakdown exceeds the frame's window, whatever the ledger,   *)
(* the recorder and the open visit each give it (compute_frame's invariant *)
(* v8), while the anchor is the entity's visit: if no glitch threshold is  *)
(* set, every start finds a recorder, which lags by one instant at most,   *)
(* and the entity is not unavailable while Home Assistant runs.            *)
THEOREM NoFrameOverfull ==
    PlainSetting /\ MaxLag <= 1 /\ Unavailable \notin Live /\ Spec => []WithinWindow
<1>1. ASSUME IInv, Accounting, Present, Settling PROVE WithinWindow
  <2> SUFFICES ASSUME Ticking, AnchorFollows, NEW f \in Frames(now)
               PROVE  Total(f, now) <= f.end - f.start
    BY DEF WithinWindow
  <2>1. up
    BY <1>1 DEF Ticking, Present, Surroundings
  <2>2. recorder /\ recorder \in BOOLEAN /\ now \in Time
    BY <1>1 DEF Accounting, IInv, TypeOK
  <2>3. WellCut(f, now)
    BY <2>2, FramesWellCut
  <2> QED
    BY <1>1, <2>1, <2>2, <2>3, FrameFits DEF Settling, AnchorFollows
<1> SUFFICES ASSUME PlainSetting, MaxLag <= 1, Unavailable \notin Live
             PROVE  Spec => []WithinWindow
  OBVIOUS
<1>2. Init => BookInv /\ Accounting /\ Rebuilding /\ Present /\ Settling
  BY InitBookInv, InitAccounting, InitRebuilding, InitPresent, InitSettling
<1>3. /\ IInv /\ BookInv /\ Accounting /\ Rebuilding /\ Present /\ Settling /\ [Next]_vars
      => BookInv' /\ Accounting' /\ Rebuilding' /\ Present' /\ Settling'
  BY NextBookInv, NextAccounting, NextRebuilding, NextPresent, NextSettling
<1>4. IInv /\ Accounting /\ Present /\ Settling => WithinWindow
  BY <1>1
<1> QED
  BY <1>2, <1>3, <1>4, Invariance, PTL DEF Spec
-----------------------------------------------------------------------------
(* Why a frame does not run backwards while the entity holds its state.    *)

\* The tracker has known the entity's visits since before today began.
Holding ==
    /\ Watching /\ exact \in Nat /\ now < MaxTime
    /\ exact < Midnight[DayOf(now)]

\* The calendar frame from day D on, at t.
FrameFrom(D, t) ==
    [start |-> Midnight[D], end |-> t, lower |-> D, upper |-> DayOf(t),
     recent |-> Midnight[DayOf(t)]]

(* Only one calendar frame that is open begins with a day.                 *)
LEMMA FrameChosen ==
    ASSUME NEW t \in Time, NEW D \in 0..DayOf(t)
    PROVE  (CHOOSE x \in OpenFrames(t) : x.start = Midnight[D]) = FrameFrom(D, t)
<1>0. DayOf(t) \in Day /\ LastDay \in Nat /\ DayOf(t) \in Nat
  BY DayOfInstant, LocalDaysAssumption DEF Day
<1>1. FrameFrom(D, t) \in OpenFrames(t) /\ FrameFrom(D, t).start = Midnight[D]
  BY DEF FrameFrom, OpenFrames
<1>2. ASSUME NEW x \in OpenFrames(t), x.start = Midnight[D] PROVE x = FrameFrom(D, t)
  <2>1. PICK E \in 0..DayOf(t) : x = FrameFrom(E, t)
    BY DEF FrameFrom, OpenFrames
  <2>2. Midnight[E] = Midnight[D]
    BY <1>2, <2>1 DEF FrameFrom
  <2>3. D \in 0..(LastDay + 1) /\ E \in 0..(LastDay + 1) /\ D \in Nat /\ E \in Nat
    BY <1>0 DEF Day
  <2>4. Midnight[D] \in Nat /\ (D < E => Midnight[D] < Midnight[E])
        /\ (E < D => Midnight[E] < Midnight[D])
    BY <2>3, LocalDaysAssumption, MidnightNat
  <2>5. D = E
    BY <2>2, <2>3, <2>4
  <2> QED
    BY <2>1, <2>5
<1> QED
  BY <1>1, <1>2

(* What Holding says of the instants and the days around now.              *)
LEMMA HoldingTypes ==
    ASSUME IInv, Present, Holding
    PROVE  /\ now \in Nat /\ now \in Time /\ now + 1 \in Time /\ DayOf(now) \in Day
           /\ DayOf(now) \in Nat /\ Midnight[DayOf(now)] \in Nat
           /\ Midnight[DayOf(now)] <= now /\ now + 1 <= Midnight[DayOf(now) + 1]
           /\ Midnight[DayOf(now) + 1] \in Nat
           /\ changed \in Nat /\ mem.last_ts \in Nat /\ mem.last_ts <= now
           /\ changed <= mem.last_ts /\ mem.last_state = line[now]
           /\ line[now] \in Names /\ line[now] # NoState
           /\ mem.last_ts = changed \/ mem.last_ts <= Midnight[DayOf(now)]
           /\ \A d \in Day : \A s \in Names : mem.daily[d][s].secs \in Nat
<1>1. now \in Time /\ changed \in Time /\ mem.last_ts \in Time /\ mem \in Ledger
      /\ line \in [Time -> Names \cup {NoState}]
  BY DEF IInv, TypeOK, Ledger
<1>2. /\ now \in Nat /\ changed \in Nat /\ mem.last_ts \in Nat /\ now + 1 \in Time
      /\ DayOf(now) \in Nat
  <2>1. now < MaxTime
    BY DEF Holding
  <2>2. DayOf(now) \in Nat
    BY <1>1, DayOfInstant, LocalDaysAssumption DEF Day
  <2>3. now \in Nat /\ changed \in Nat /\ mem.last_ts \in Nat
    BY <1>1, LocalDaysAssumption DEF Time
  <2>4. now + 1 \in Time
    BY <2>1, <2>3, LocalDaysAssumption DEF Time
  <2> QED
    BY <2>2, <2>3, <2>4
<1>3. /\ DayOf(now) \in Day /\ Midnight[DayOf(now)] \in Nat
      /\ Midnight[DayOf(now) + 1] \in Nat
      /\ Midnight[DayOf(now)] <= now /\ now < Midnight[DayOf(now) + 1]
  BY <1>1, DayOfInstant, DayEnds
<1>4. /\ mem.last_ts <= now /\ changed <= mem.last_ts /\ mem.last_state = line[now]
      /\ line[now] # NoState
      /\ mem.last_ts = changed \/ mem.last_ts <= exact
  <2>1. now \in exact..now
    BY <1>2 DEF Holding, Watching
  <2>2. exact \in Nat
    BY DEF Holding
  <2> QED
    BY <1>2, <2>1, <2>2 DEF Holding, Watching
<1>5. mem.last_ts = changed \/ mem.last_ts <= Midnight[DayOf(now)]
  BY <1>2, <1>3, <1>4 DEF Holding
<1>6. \A d \in Day : \A s \in Names : mem.daily[d][s].secs \in Nat
  <2> TAKE d \in Day
  <2> TAKE s \in Names
  <2>1. mem.daily[d] \in Bucket
    BY <1>1 DEF Ledger
  <2> QED
    BY <2>1 DEF Bucket
<1> QED
  BY <1>1, <1>2, <1>3, <1>4, <1>5, <1>6

(* Today's slice is no shorter an instant later.                           *)
LEMMA SliceGrows ==
    ASSUME IInv, Present, Lagging, Holding, minDur = 0, NEW s \in Names
    PROVE  LET a == Midnight[DayOf(now)]
           IN  /\ Recent(a, now)[s] \in Nat /\ Recent(a, now + 1)[s] \in Nat
               /\ Recent(a, now)[s] <= Recent(a, now + 1)[s]
<1> DEFINE a == Midnight[DayOf(now)]
<1>0. /\ a \in Nat /\ now \in Nat /\ now \in Time /\ now + 1 \in Time /\ a <= now
      /\ mem.last_ts \in Nat /\ mem.last_state # NoState
      /\ pc = "live" /\ committed >= changed - 1
  <2>1. committed \in Nat
    BY LocalDaysAssumption DEF IInv, TypeOK, Time
  <2>2. committed >= changed - 1
    BY <2>1, HoldingTypes DEF Lagging
  <2> QED
    BY <2>2, HoldingTypes DEF Holding, Watching
<1> HIDE DEF a
<1>1. CASE recorder
  <2>1. mem.last_state = line[now] /\ changed <= mem.last_ts
        /\ (mem.last_ts = changed \/ mem.last_ts <= a)
    BY HoldingTypes DEF a
  <2>2. /\ Recent(a, now)[s] = Cardinality(ShownIn(line, a, now, s))
        /\ Recent(a, now + 1)[s] = Cardinality(ShownIn(line, a, now + 1, s))
    BY <1>0, <1>1, <2>1, RecentIsTrue
  <2>3. /\ IsFiniteSet(ShownIn(line, a, now + 1, s))
        /\ Cardinality(ShownIn(line, a, now + 1, s)) \in Nat
        /\ Cardinality(ShownIn(line, a, now, s)) \in Nat
    <3>1. a \in Int /\ now \in Int /\ now + 1 \in Int
      BY <1>0
    <3> QED
      BY <3>1, ShownFinite
  <2>4. ShownIn(line, a, now, s) \subseteq ShownIn(line, a, now + 1, s)
    BY <1>0 DEF ShownIn
  <2>5. Cardinality(ShownIn(line, a, now, s)) <= Cardinality(ShownIn(line, a, now + 1, s))
    BY <2>3, <2>4, FS_Subset
  <2> QED
    BY <2>2, <2>3, <2>5 DEF a
<1>2. CASE ~recorder
  <2> DEFINE Slice(t) == IF s = mem.last_state THEN Later(0, t - Later(mem.last_ts, a)) ELSE 0
  <2>1. Recent(a, now + 1)[s] = Slice(now + 1)
    BY <1>0, <1>2 DEF Recent, LiveSlice
  <2>2. Recent(a, now)[s] = IF a >= now THEN 0 ELSE Slice(now)
    BY <1>0, <1>2 DEF Recent, LiveSlice
  <2>3. Slice(now) \in Nat /\ Slice(now + 1) \in Nat /\ Slice(now) <= Slice(now + 1)
    BY <1>0 DEF Later
  <2> HIDE DEF Slice
  <2> QED
    BY <2>1, <2>2, <2>3 DEF a
<1> QED
  BY <1>1, <1>2

(* When the day ends its bucket and the tail of the open visit make up for *)
(* the slice.                                                              *)
LEMMA SliceKept ==
    ASSUME IInv, Present, Lagging, Holding, minDur = 0, NEW s \in Names,
           Midnight[DayOf(now) + 1] = now + 1,
           NEW b \in Nat, b <= Midnight[DayOf(now)]
    PROVE  LET n == DayOf(now)
           IN  Recent(Midnight[n], now)[s]
                 <= mem.daily[n][s].secs
                      + IF s = mem.last_state
                        THEN SplitSecs(Later(mem.last_ts, b), now + 1, n) ELSE 0
<1> DEFINE D == DayOf(now)
           a == Midnight[D]
           rest == SplitSecs(Later(mem.last_ts, b), now + 1, D)
<1>0. /\ a \in Nat /\ now \in Nat /\ now \in Time /\ a <= now /\ D \in Day
      /\ mem.last_ts \in Nat /\ mem.last_ts <= now /\ mem.last_state # NoState
      /\ changed \in Nat /\ changed <= mem.last_ts /\ mem.last_state = line[now]
      /\ pc = "live" /\ committed >= changed - 1
      /\ mem.daily[D][s].secs \in Nat
  <2>1. committed \in Nat
    BY LocalDaysAssumption DEF IInv, TypeOK, Time
  <2>2. committed >= changed - 1
    BY <2>1, HoldingTypes DEF Lagging
  <2> QED
    BY <2>2, HoldingTypes DEF Holding, Watching
<1>1. rest = now + 1 - Later(mem.last_ts, a) /\ rest \in Nat
  BY <1>0 DEF SplitSecs, Later, Earlier
<1> HIDE DEF a, rest, D
<1>2. CASE recorder
  <2> DEFINE had == Spent(line, D, s, mem.last_ts)
             open == Later(mem.last_ts, a)..now
  <2>1. mem.last_ts = changed \/ mem.last_ts <= a
    BY HoldingTypes DEF a, D
  <2>2. Recent(a, now)[s] = Cardinality(ShownIn(line, a, now, s))
    BY <1>0, <1>2, <2>1, RecentIsTrue
  <2>3. mem.daily[D][s].secs = Cardinality(had)
    <3>1. Cutoff(now) <= D
      BY <1>0, DayIsInt, TrackerAssumption DEF Cutoff, Later, D
    <3>2. mem.daily[D][s] = Tally(line, D, s, mem.last_ts)
      BY <1>0, <3>1 DEF Holding, Watching, D
    <3> QED
      BY <3>2 DEF Tally
  <2>4. /\ IsFiniteSet(had) /\ Cardinality(had) \in Nat
        /\ IsFiniteSet(open) /\ Cardinality(open) = rest
    <3>1. IsFiniteSet(had) /\ Cardinality(had) \in Nat
      BY <1>0, SpentFinite
    <3>2. Later(mem.last_ts, a) \in Nat /\ Later(mem.last_ts, a) <= now
      BY <1>0 DEF Later
    <3>3. /\ IsFiniteSet(open)
          /\ Cardinality(open) = IF Later(mem.last_ts, a) > now THEN 0
                                 ELSE now - Later(mem.last_ts, a) + 1
      <4>1. Later(mem.last_ts, a) \in Int /\ now \in Int
        BY <1>0, <3>2
      <4> QED
        BY <4>1, FS_Interval
    <3> QED
      BY <1>0, <1>1, <3>1, <3>2, <3>3
  <2>5. ASSUME NEW u \in ShownIn(line, a, now, s), u \notin had
        PROVE  s = mem.last_state /\ u \in open
    <3>1. u \in a..(now - 1) /\ line[u] = s /\ u \in Nat
      BY <1>0 DEF ShownIn
    <3>2. u \in Midnight[D]..(Midnight[D + 1] - 1)
      BY <1>0, <3>1, DayEnds DEF a, D
    <3>3. mem.last_ts <= u
      BY <1>0, <2>5, <3>1, <3>2 DEF Spent
    <3>4. u \in changed..now /\ u \in open
      BY <1>0, <3>1, <3>3 DEF Later
    <3>5. line[u] = line[now]
      BY <3>4 DEF Present, Surroundings
    <3> QED
      BY <1>0, <3>1, <3>4, <3>5
  <2> HIDE DEF had, open
  <2>6. CASE s = mem.last_state
    <3>1. ShownIn(line, a, now, s) \subseteq had \cup open
      BY <2>5
    <3>2. /\ IsFiniteSet(had \cup open)
          /\ Cardinality(had \cup open)
               = Cardinality(had) + Cardinality(open) - Cardinality(had \cap open)
      BY <2>4, FS_Union
    <3>3. Cardinality(had \cap open) \in Nat
      <4>1. IsFiniteSet(had \cap open)
        BY <2>4, FS_Subset
      <4> QED
        BY <4>1, FS_CardinalityType
    <3>4. /\ Cardinality(ShownIn(line, a, now, s)) <= Cardinality(had \cup open)
          /\ Cardinality(ShownIn(line, a, now, s)) \in Nat
      <4>1. a \in Int /\ now \in Int
        BY <1>0
      <4> QED
        BY <3>1, <3>2, <4>1, FS_Subset, ShownFinite
    <3> QED
      BY <1>1, <2>2, <2>3, <2>4, <2>6, <3>2, <3>3, <3>4 DEF rest, a, D
  <2>7. CASE s # mem.last_state
    <3>1. ShownIn(line, a, now, s) \subseteq had
      BY <2>5, <2>7
    <3>2. Cardinality(ShownIn(line, a, now, s)) <= Cardinality(had)
      BY <2>4, <3>1, FS_Subset
    <3> QED
      BY <1>0, <2>2, <2>3, <2>4, <2>7, <3>2 DEF a, D
  <2> QED
    BY <2>6, <2>7
<1>3. CASE ~recorder
  <2> DEFINE slice == IF s = mem.last_state THEN Later(0, now - Later(mem.last_ts, a)) ELSE 0
  <2>1. Recent(a, now)[s] = IF a >= now THEN 0 ELSE slice
    BY <1>0, <1>3 DEF Recent, LiveSlice
  <2>2. slice <= (IF s = mem.last_state THEN rest ELSE 0) /\ slice \in Nat
    BY <1>0, <1>1 DEF Later
  <2>3. Recent(a, now)[s] <= mem.daily[D][s].secs + (IF s = mem.last_state THEN rest ELSE 0)
    <3> HIDE DEF slice
    <3> QED
      BY <1>0, <1>1, <2>1, <2>2
  <2> QED
    BY <2>3 DEF rest, a, D
<1> QED
  BY <1>2, <1>3

\* The tail that d's tail days have an instant later.
TailGrown(f, b) == [d \in TailDays(f) |-> SplitSecs(b, now + 1, d)]

(* The closed days of a frame that has been open since D.                  *)
LEMMA TailDaysOpen ==
    ASSUME IInv, Present, Holding, NEW D \in 0..DayOf(now), NEW t, NEW f,
           f = FrameFrom(D, t)
    PROVE  /\ TailDays(f) = {d \in D..(DayOf(t) - 1) : mem.daily[d][mem.last_state].secs = 0}
           /\ D \in Day /\ Midnight[D] \in Nat /\ Midnight[D] <= Midnight[DayOf(now)]
<1>0. D \in Day /\ D \in 0..(LastDay + 1) /\ DayOf(now) \in 0..(LastDay + 1) /\ D <= DayOf(now)
  <2>1. DayOf(now) \in Day
    BY HoldingTypes
  <2> QED
    BY <2>1, LocalDaysAssumption DEF Day
<1>1. /\ Midnight[D] \in Nat /\ Midnight[D] < Midnight[D + 1]
      /\ Midnight[D] <= Midnight[DayOf(now)]
  BY <1>0, DayEnds, MidnightMonotone
<1>2. Midnight[D] \in Time
  <2>1. Midnight[DayOf(now)] <= now /\ now \in Time /\ Midnight[DayOf(now)] \in Nat
    BY HoldingTypes
  <2> QED
    BY <1>1, <2>1, LocalDaysAssumption DEF Time
<1>3. DayOf(Midnight[D]) = D
  BY <1>0, <1>1, <1>2, DayOfWithin
<1> QED
  BY <1>0, <1>1, <1>3 DEF TailDays, FrameFrom

(* The tail is no shorter an instant later in the same closed days.        *)
LEMMA TailGrows ==
    ASSUME IInv, Present, Holding, NEW D \in 0..DayOf(now), NEW f, f = FrameFrom(D, now)
    PROVE  LET grown == TailGrown(f, Later(mem.last_ts, Midnight[D]))
           IN  /\ DOMAIN grown = TailDays(f) /\ IsFiniteSet(TailDays(f))
               /\ \A d \in TailDays(f) : grown[d] \in Nat
               /\ SumFunction(grown) \in Nat
               /\ \A s \in Names :
                    /\ Tail(f, s) \in Nat
                    /\ Tail(f, s) <= IF s = mem.last_state THEN SumFunction(grown) ELSE 0
<1> DEFINE b == Later(mem.last_ts, Midnight[D])
           days == TailDays(f)
           grown == TailGrown(f, b)
           given == [d \in days |-> SplitSecs(b, now, d)]
<1>0. /\ now \in Nat /\ DayOf(now) \in Nat /\ D \in Nat /\ mem.last_ts \in Nat
      /\ Midnight[D] \in Nat /\ DayOf(now) \in Day
  BY HoldingTypes, TailDaysOpen
<1>1. IsFiniteSet(days)
  <2>1. D \in Int /\ DayOf(now) - 1 \in Int
    BY <1>0
  <2>2. IsFiniteSet(D..(DayOf(now) - 1))
    BY <2>1, FS_Interval
  <2>3. days \subseteq D..(DayOf(now) - 1)
    BY TailDaysOpen
  <2> HIDE DEF days
  <2> QED
    BY <2>2, <2>3, FS_Subset
<1>2. b \in Nat
  BY <1>0 DEF Later
<1>3. ASSUME NEW d \in days
      PROVE  /\ SplitSecs(b, now + 1, d) \in Nat
             /\ SplitSecs(b, now, d) = SplitSecs(b, now + 1, d)
  <2>1. d \in D..(DayOf(now) - 1)
    BY TailDaysOpen
  <2>2. d \in Day /\ d < DayOf(now)
    <3>1. DayOf(now) <= LastDay /\ LastDay \in Nat
      BY <1>0, LocalDaysAssumption DEF Day
    <3> QED
      BY <1>0, <2>1, <3>1 DEF Day
  <2>3. Midnight[d + 1] <= now /\ Midnight[d + 1] \in Nat /\ Midnight[d] \in Nat
    <3>1. now \in Time
      BY HoldingTypes
    <3> QED
      BY <2>2, <3>1, ClosedDay, DayEnds
  <2> HIDE DEF b
  <2> QED
    BY <1>0, <1>2, <2>3 DEF SplitSecs, Earlier, Later
<1>4. DOMAIN grown = days /\ \A d \in days : grown[d] \in Nat
  BY <1>3 DEF TailGrown
<1>5. given = grown
  BY <1>3 DEF TailGrown
<1> HIDE DEF grown, given, b
<1>6. SumFunction(grown) \in Nat
  BY <1>1, <1>4, SumNat
<1>7. ASSUME NEW s \in Names
      PROVE  /\ Tail(f, s) \in Nat
             /\ Tail(f, s) <= IF s = mem.last_state THEN SumFunction(grown) ELSE 0
  <2>1. f.start = Midnight[D] /\ f.end = now
    BY DEF FrameFrom
  <2>2. Tail(f, s) = IF s # mem.last_state \/ mem.last_ts >= now THEN 0 ELSE SumFunction(given)
    BY <2>1 DEF Tail, given, b
  <2> QED
    BY <1>5, <1>6, <2>2
<1> QED
  BY <1>1, <1>4, <1>6, <1>7 DEF grown, b

(* Within a day no frame's part is less an instant later.                  *)
LEMMA FrameGrows ==
    ASSUME IInv, Present, Lagging, Holding, minDur = 0, NEW s \in Names,
           DayOf(now + 1) = DayOf(now), NEW D \in 0..DayOf(now)
    PROVE  /\ Breakdown(FrameFrom(D, now), now)[s] <= Breakdown(FrameFrom(D, now + 1), now + 1)[s]
           /\ Breakdown(FrameFrom(D, now + 1), now + 1)[s] \in Int
<1> DEFINE f == FrameFrom(D, now)
           g == FrameFrom(D, now + 1)
           a == Midnight[DayOf(now)]
           b == Later(mem.last_ts, Midnight[D])
           grown == TailGrown(f, b)
<1>0. now \in Nat /\ mem.last_ts \in Nat /\ mem.last_ts <= now
  BY HoldingTypes
<1>1. FromLedger(g, s) = FromLedger(f, s)
  BY DEF FromLedger, FrameFrom
<1>2. f.recent = a /\ g.recent = a
  BY DEF FrameFrom
<1>3. /\ Recent(a, now)[s] \in Nat /\ Recent(a, now + 1)[s] \in Nat
      /\ Recent(a, now)[s] <= Recent(a, now + 1)[s]
  BY SliceGrows
<1>4. /\ SumFunction(grown) \in Nat /\ Tail(f, s) \in Nat
      /\ Tail(f, s) <= IF s = mem.last_state THEN SumFunction(grown) ELSE 0
  BY TailGrows
<1>5. TailDays(g) = TailDays(f)
  BY DEF TailDays, FrameFrom
<1>6. Tail(g, s) = IF s = mem.last_state THEN SumFunction(grown) ELSE 0
  <2>1. g.start = Midnight[D] /\ g.end = now + 1 /\ ~(mem.last_ts >= now + 1)
    BY <1>0 DEF FrameFrom
  <2> QED
    BY <1>5, <2>1 DEF Tail, TailGrown
<1>7. FromLedger(f, s) \in Int
  <2> DEFINE given == [d \in D..(DayOf(now) - 1) |-> mem.daily[d][s].secs]
  <2>1. D \in Nat /\ DayOf(now) \in Nat /\ DayOf(now) \in Day
    BY HoldingTypes
  <2>2. IsFiniteSet(D..(DayOf(now) - 1))
    <3>1. D \in Int /\ DayOf(now) - 1 \in Int
      BY <2>1
    <3> QED
      BY <3>1, FS_Interval
  <2>3. \A d \in D..(DayOf(now) - 1) : d \in Day
    <3>1. LastDay \in Nat /\ DayOf(now) <= LastDay
      BY <2>1, LocalDaysAssumption DEF Day
    <3> QED
      BY <2>1, <3>1 DEF Day
  <2>4. DOMAIN given = D..(DayOf(now) - 1)
    OBVIOUS
  <2>5. \A d \in D..(DayOf(now) - 1) : given[d] \in Int
    <3>1. \A d \in Day : mem.daily[d][s].secs \in Nat
      BY HoldingTypes
    <3> QED
      BY <2>3, <3>1
  <2>6. FromLedger(f, s) = SumFunction(given)
    BY DEF FromLedger, FrameFrom
  <2> HIDE DEF given
  <2> QED
    BY <2>2, <2>4, <2>5, <2>6, SumType
<1>8. /\ Breakdown(f, now)[s] = FromLedger(f, s) + Recent(a, now)[s] + Tail(f, s)
      /\ Breakdown(g, now + 1)[s] = FromLedger(g, s) + Recent(a, now + 1)[s] + Tail(g, s)
  BY <1>2 DEF Breakdown
<1> HIDE DEF f, g, a, grown
<1> QED
  BY <1>1, <1>3, <1>4, <1>6, <1>7, <1>8 DEF f, g

(* Nor is it when the day ends, but for what the midnight sheds.           *)
LEMMA FrameKept ==
    ASSUME IInv, Present, Lagging, Holding, minDur = 0, NEW s \in Names,
           DayOf(now + 1) = DayOf(now) + 1, Midnight[DayOf(now) + 1] = now + 1,
           NEW D \in 0..DayOf(now)
    PROVE  Breakdown(FrameFrom(D, now), now)[s]
             <= Breakdown(FrameFrom(D, now + 1), now + 1)[s] + Shed(s)
<1> DEFINE f == FrameFrom(D, now)
           g == FrameFrom(D, now + 1)
           n == DayOf(now)
           a == Midnight[n]
           b == Later(mem.last_ts, Midnight[D])
           grown == TailGrown(f, b)
           more == TailGrown(g, b)
           rest == SplitSecs(b, now + 1, n)
           given == [d \in D..(n - 1) |-> mem.daily[d][s].secs]
           gained == [d \in D..n |-> mem.daily[d][s].secs]
<1>0. /\ now \in Nat /\ mem.last_ts \in Nat /\ mem.last_ts <= now
      /\ D \in Nat /\ n \in Nat /\ n \in Day /\ D <= n
      /\ Midnight[D] \in Nat /\ Midnight[D] <= a /\ mem.daily[n][s].secs \in Nat
      /\ \A d \in Day : mem.daily[d][s].secs \in Nat
      /\ Midnight[n] \in Nat /\ Midnight[n] <= now
  <2>1. D \in Nat /\ D <= n
    BY HoldingTypes
  <2> QED
    BY <2>1, HoldingTypes, TailDaysOpen
<1>1. D..n = (D..(n - 1)) \cup {n} /\ n \notin D..(n - 1)
  BY <1>0
<1>2. /\ FromLedger(g, s) = FromLedger(f, s) + mem.daily[n][s].secs /\ FromLedger(f, s) \in Int
  <2>1. FromLedger(f, s) = SumFunction(given)
    BY DEF FromLedger, FrameFrom
  <2>2. FromLedger(g, s) = SumFunction(gained)
    <3>1. g.lower = D /\ g.upper - 1 = n
      BY <1>0 DEF FrameFrom
    <3> QED
      BY <3>1 DEF FromLedger
  <2>3. IsFiniteSet(D..(n - 1))
    <3>1. D \in Int /\ n - 1 \in Int
      BY <1>0
    <3> QED
      BY <3>1, FS_Interval
  <2>4. \A d \in D..n : d \in Day
    <3>1. LastDay \in Nat /\ n <= LastDay
      BY <1>0, LocalDaysAssumption DEF Day
    <3> QED
      BY <1>0, <3>1 DEF Day
  <2>5. /\ DOMAIN given = D..(n - 1) /\ DOMAIN gained = D..n
        /\ \A d \in D..(n - 1) : gained[d] = given[d]
        /\ gained[n] = mem.daily[n][s].secs
    BY <1>1
  <2>6. \A d \in D..n : gained[d] \in Int
    BY <1>0, <2>4
  <2> HIDE DEF given, gained, n
  <2>7. SumFunction(gained) = SumFunction(given) + gained[n]
    <3>1. IsFiniteSet(DOMAIN given) /\ n \notin DOMAIN given
      BY <1>1, <2>3, <2>5
    <3>2. DOMAIN gained = (DOMAIN given) \cup {n}
      BY <1>1, <2>5
    <3>3. /\ \A d \in DOMAIN given : gained[d] = given[d]
          /\ \A d \in DOMAIN gained : gained[d] \in Int
      BY <2>5, <2>6
    <3> QED
      BY <3>1, <3>2, <3>3, SumExtended
  <2>8. SumFunction(given) \in Int
    <3>1. IsFiniteSet(DOMAIN given) /\ \A d \in DOMAIN given : given[d] \in Int
      BY <1>1, <2>3, <2>5, <2>6
    <3> QED
      BY <3>1, SumType
  <2> QED
    BY <2>1, <2>2, <2>5, <2>7, <2>8
<1>3. f.recent = a /\ Recent(g.recent, now + 1)[s] = 0
  <2>1. g.recent = now + 1
    BY DEF FrameFrom
  <2>2. now + 1 >= now + 1
    BY <1>0
  <2> QED
    BY <2>1, <2>2 DEF FrameFrom, Recent
<1>4. Recent(a, now)[s] <= mem.daily[n][s].secs + IF s = mem.last_state THEN rest ELSE 0
  <2>1. Later(mem.last_ts, Midnight[D]) = b
    OBVIOUS
  <2> QED
    BY <1>0, SliceKept
<1>5. Recent(a, now)[s] \in Nat
  BY SliceGrows
<1>6. rest \in Nat
  BY <1>0, SplitSecsType DEF Later
<1>7. /\ DOMAIN grown = TailDays(f) /\ IsFiniteSet(TailDays(f))
      /\ \A d \in TailDays(f) : grown[d] \in Nat
      /\ SumFunction(grown) \in Nat /\ Tail(f, s) \in Nat
      /\ Tail(f, s) <= IF s = mem.last_state THEN SumFunction(grown) ELSE 0
  BY TailGrows
<1>8. /\ n \notin TailDays(f)
      /\ mem.daily[n][mem.last_state].secs = 0 => TailDays(g) = TailDays(f) \cup {n}
      /\ mem.daily[n][mem.last_state].secs # 0 => TailDays(g) = TailDays(f)
  <2>1. TailDays(f) = {d \in D..(n - 1) : mem.daily[d][mem.last_state].secs = 0}
    BY TailDaysOpen
  <2>2. TailDays(g) = {d \in D..(DayOf(now + 1) - 1) : mem.daily[d][mem.last_state].secs = 0}
    BY TailDaysOpen
  <2>3. DayOf(now + 1) - 1 = n
    BY <1>0
  <2> HIDE DEF n, f, g
  <2> QED
    BY <1>0, <1>1, <2>1, <2>2, <2>3
<1>9. ASSUME mem.daily[n][mem.last_state].secs = 0
      PROVE  SumFunction(more) = SumFunction(grown) + rest
  <2>1. /\ DOMAIN more = TailDays(f) \cup {n} /\ more[n] = rest
        /\ \A d \in TailDays(f) : more[d] = grown[d]
    BY <1>8, <1>9 DEF TailGrown
  <2>2. \A d \in DOMAIN more : more[d] \in Int
    <3> HIDE DEF more, grown, rest
    <3> QED
      BY <1>6, <1>7, <2>1
  <2> HIDE DEF more, grown, rest, n
  <2> QED
    BY <1>7, <1>8, <2>1, <2>2, SumExtended
<1>10. mem.daily[n][mem.last_state].secs # 0 => more = grown
  BY <1>8 DEF TailGrown
<1>11. Tail(g, s) = IF s = mem.last_state THEN SumFunction(more) ELSE 0
  <2>1. g.start = Midnight[D] /\ g.end = now + 1 /\ ~(mem.last_ts >= now + 1)
    BY <1>0 DEF FrameFrom
  <2> QED
    BY <2>1 DEF Tail, TailGrown
<1>12. /\ Breakdown(f, now)[s] = FromLedger(f, s) + Recent(a, now)[s] + Tail(f, s)
       /\ Breakdown(g, now + 1)[s] = FromLedger(g, s) + 0 + Tail(g, s)
  BY <1>3 DEF Breakdown
<1>13. Shed(s) = IF s = mem.last_state /\ mem.daily[n][s].secs > 0 THEN rest ELSE 0
  <2>1. rest = now + 1 - Later(mem.last_ts, a)
    BY <1>0 DEF SplitSecs, Later, Earlier
  <2>2. SplitSecs(mem.last_ts, now + 1, n) = now + 1 - Later(mem.last_ts, a)
    BY <1>0 DEF SplitSecs, Later, Earlier
  <2> QED
    BY <2>1, <2>2 DEF Shed
<1> HIDE DEF f, g, a, grown, more, rest, n
<1> DEFINE old == FromLedger(f, s)
           slice == Recent(a, now)[s]
           dy == mem.daily[n][s].secs
           before == Tail(f, s)
           S == SumFunction(grown)
<1>14. /\ old \in Int /\ slice \in Nat /\ dy \in Nat /\ before \in Nat /\ S \in Nat
       /\ Breakdown(f, now)[s] = old + slice + before
       /\ Breakdown(g, now + 1)[s] = old + dy + Tail(g, s)
  <2>1. Breakdown(g, now + 1)[s] = old + dy + 0 + Tail(g, s)
    BY <1>2, <1>12
  <2>2. old + dy + 0 = old + dy
    BY <1>0, <1>2
  <2> QED
    BY <1>0, <1>2, <1>5, <1>7, <1>12, <2>1, <2>2
<1>15. /\ slice <= dy + (IF s = mem.last_state THEN rest ELSE 0)
       /\ before <= IF s = mem.last_state THEN S ELSE 0
       /\ Tail(g, s) = IF s = mem.last_state THEN (IF dy = 0 THEN S + rest ELSE S) ELSE 0
       /\ Shed(s) = IF s = mem.last_state /\ dy # 0 THEN rest ELSE 0
  <2>1. s = mem.last_state => Tail(g, s) = IF dy = 0 THEN S + rest ELSE S
    BY <1>9, <1>10, <1>11
  <2>2. dy > 0 <=> dy # 0
    BY <1>0
  <2> QED
    BY <1>4, <1>7, <1>11, <1>13, <2>1, <2>2
<1> HIDE DEF old, slice, dy, before, S
<1>16. Breakdown(f, now)[s] <= Breakdown(g, now + 1)[s] + Shed(s)
  BY <1>6, <1>14, <1>15
<1> QED
  BY <1>16 DEF f, g

(* A calendar frame does not run backwards while the entity holds its      *)
(* state, a visit held over midnight included (compute_frame's carry of    *)
(* the open visit), but at a midnight that ends a day with an earlier      *)
(* visit of that state, and then by the open visit's part of the day at    *)
(* most.  With or without a recorder and over any restarts, on days that   *)
(* the tracker knew the entity's visits of from the first instant on: if   *)
(* no glitch threshold is set, the recorder lags by one instant at most    *)
(* and the entity is not unavailable while Home Assistant runs.            *)
THEOREM HeldVisitsKeepTails ==
    Thresholds \subseteq {0} /\ MaxLag <= 1 /\ Unavailable \notin Live /\ Spec
        => []HeldVisitKeepsTail
<1>1. ASSUME Thresholds \subseteq {0}, IInv, Following, Present, Lagging
      PROVE  HeldVisitKeepsTail
  <2> SUFFICES ASSUME pc = "live", now < MaxTime, exact < Midnight[DayOf(now)],
                      NEW f \in OpenFrames(now), NEW s \in Names
               PROVE  LET g == CHOOSE x \in OpenFrames(now + 1) : x.start = f.start
                      IN  Breakdown(f, now)[s] <= Breakdown(g, now + 1)[s] + Shed(s)
    BY DEF HeldVisitKeepsTail
  <2>0. /\ now \in Time /\ now \in Nat /\ MaxTime \in Nat /\ now <= MaxTime /\ minDur = 0
        /\ exact \in Nat /\ exact # NoTime
    <3>1. now \in Time /\ minDur \in Thresholds /\ exact \in 0..NoTime
      BY <1>1 DEF IInv, TypeOK
    <3>2. now \in Nat /\ MaxTime \in Nat /\ now <= MaxTime /\ NoTime = MaxTime + 1
      BY <3>1, LocalDaysAssumption DEF Time, NoTime
    <3>3. Midnight[DayOf(now)] <= now /\ Midnight[DayOf(now)] \in Nat
      BY <3>1, DayOfInstant, DayEnds
    <3> QED
      BY <1>1, <3>1, <3>2, <3>3
  <2>1. Holding
    BY <1>1, <2>0 DEF Following, Holding
  <2>2. /\ now + 1 \in Time /\ DayOf(now) \in Day /\ DayOf(now) \in Nat
        /\ Midnight[DayOf(now)] <= now /\ Midnight[DayOf(now)] \in Nat
        /\ now + 1 <= Midnight[DayOf(now) + 1] /\ Midnight[DayOf(now) + 1] \in Nat
    BY <1>1, <2>1, HoldingTypes
  <2>3. \/ DayOf(now + 1) = DayOf(now)
        \/ DayOf(now + 1) = DayOf(now) + 1 /\ Midnight[DayOf(now) + 1] = now + 1
    <3>1. CASE now + 1 < Midnight[DayOf(now) + 1]
      BY <2>0, <2>2, <3>1, DayOfWithin
    <3>2. CASE ~(now + 1 < Midnight[DayOf(now) + 1])
      <4> DEFINE m == DayOf(now + 1)
      <4>1. Midnight[DayOf(now) + 1] = now + 1
        BY <2>0, <2>2, <3>2
      <4>2. /\ m \in Day /\ m \in Nat /\ Midnight[m] <= now + 1 /\ now + 1 < Midnight[m + 1]
            /\ DayOf(now) <= m
        <5>1. m \in Day /\ Midnight[m] <= now + 1 /\ now + 1 < Midnight[m + 1]
          BY <2>2, DayOfInstant
        <5>2. m \in Nat
          BY <5>1, LocalDaysAssumption DEF Day
        <5>3. DayOf(now) <= m
          BY <2>0, <2>2, DayOfMonotone
        <5> QED
          BY <5>1, <5>2, <5>3
      <4> HIDE DEF m
      <4>3. m # DayOf(now)
        BY <2>0, <4>1, <4>2
      <4>4. DayOf(now) + 1 \in Day /\ Midnight[DayOf(now) + 1] < Midnight[DayOf(now) + 1 + 1]
        <5>1. DayOf(now) + 1 \in Day
          <6>1. LastDay \in Nat /\ m <= LastDay
            BY <4>2, LocalDaysAssumption DEF Day
          <6>2. DayOf(now) + 1 \in Nat /\ DayOf(now) + 1 <= m
            BY <2>2, <4>2, <4>3
          <6> QED
            BY <4>2, <6>1, <6>2 DEF Day
        <5> QED
          BY <5>1, DayEnds
      <4>5. DayOf(now + 1) = DayOf(now) + 1
        BY <2>0, <2>2, <4>1, <4>4, DayOfWithin
      <4> QED
        BY <4>1, <4>5
    <3> QED
      BY <3>1, <3>2
  <2>4. PICK D \in 0..DayOf(now) : f = FrameFrom(D, now)
    BY DEF OpenFrames, FrameFrom
  <2>5. (CHOOSE x \in OpenFrames(now + 1) : x.start = f.start) = FrameFrom(D, now + 1)
    <3>1. D \in 0..DayOf(now + 1) /\ f.start = Midnight[D]
      BY <2>2, <2>3, <2>4 DEF FrameFrom
    <3> QED
      BY <2>2, <3>1, FrameChosen
  <2>6. Breakdown(FrameFrom(D, now), now)[s]
          <= Breakdown(FrameFrom(D, now + 1), now + 1)[s] + Shed(s)
    <3>1. CASE DayOf(now + 1) = DayOf(now)
      <4>1. Shed(s) = 0
        BY <2>2, <3>1, DayOfInstant DEF Shed
      <4> DEFINE x == Breakdown(FrameFrom(D, now), now)[s]
                 y == Breakdown(FrameFrom(D, now + 1), now + 1)[s]
      <4>2. x <= y /\ y \in Int
        BY <1>1, <2>0, <2>1, <3>1, FrameGrows
      <4> HIDE DEF x, y
      <4>3. x <= y + 0
        BY <4>2
      <4> QED
        BY <4>1, <4>3 DEF x, y
    <3>2. CASE DayOf(now + 1) = DayOf(now) + 1 /\ Midnight[DayOf(now) + 1] = now + 1
      BY <1>1, <2>0, <2>1, <3>2, FrameKept
    <3> QED
      BY <2>3, <3>1, <3>2
  <2> QED
    BY <2>4, <2>5, <2>6
<1> SUFFICES ASSUME Thresholds \subseteq {0}, MaxLag <= 1, Unavailable \notin Live
             PROVE  Spec => []HeldVisitKeepsTail
  OBVIOUS
<1>2. Init => Following /\ Present /\ Lagging
  BY InitFollowing, InitPresent, InitRebuilding DEF Rebuilding
<1>3. IInv /\ Following /\ Present /\ Lagging /\ [Next]_vars => Following' /\ Present' /\ Lagging'
  BY NextFollowing, NextPresent, PastStays
<1>4. IInv /\ Following /\ Present /\ Lagging => HeldVisitKeepsTail
  BY <1>1
<1> QED
  BY <1>2, <1>3, <1>4, Invariance, PTL DEF Spec
=============================================================================
