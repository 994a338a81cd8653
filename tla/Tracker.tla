------------------------------ MODULE Tracker ------------------------------
(***************************************************************************)
(* One tracker of the integration: its ledger in memory and on disk, the   *)
(* coordinator that writes it, and what surrounds them: the entity, the    *)
(* recorder and Home Assistant starting, stopping and crashing.            *)
(*                                                                         *)
(* Between two awaits the event loop runs the coordinator alone, so an     *)
(* action is the code from one await to the next.                          *)
(***************************************************************************)
EXTENDS DayBlocks

CONSTANTS
    Live,           \* the states the running entity can show
    Thresholds,     \* the min_state_duration values the options can hold
    KeepDays,       \* how many days before today the enabled frames reach
    MaxLag,         \* how long the recorder may hold a row uncommitted
    MaxSetups,      \* bound: how often the entry is set up
    Quiet,          \* TRUE: the entity changes only while it is subscribed to
    RecorderMayBeOff,   \* TRUE: a start may find no recorder
    DiskMayFail,    \* TRUE: a save may fail and a file may be corrupt
    NoBuilt,        \* built_min_state_duration = None
    NoFold,         \* _last_fold = None
    NoSave          \* no save is in flight

ASSUME TrackerAssumption ==
    /\ Live \subseteq Names
    /\ Thresholds \subseteq Nat
    /\ KeepDays \in Nat
    /\ MaxLag \in Nat
    /\ MaxSetups \in Nat
    /\ {Quiet, RecorderMayBeOff, DiskMayFail} \subseteq BOOLEAN
    /\ NoBuilt \notin Nat

VARIABLES
    \* the surroundings
    now,        \* the instant it is
    line,       \* line[t]: the state in force from t to t + 1
    changed,    \* last_changed of the entity's current state
    committed,  \* the recorder answers with the rows up to this instant
    up,         \* Home Assistant runs
    recorder,   \* this run of Home Assistant has a recorder
    disk,       \* the ledger in .storage
    \* the coordinator
    pc,         \* where setup is, or "live"
    today,      \* backfill's today_local
    day,        \* backfill's day
    mem,        \* the ledger the coordinator holds
    dirty,      \* _dirty
    saving,     \* what the flush in flight will have written
    lastFold,   \* _last_fold
    previous,   \* _previous_state
    minDur,     \* the configured min_state_duration
    setups,     \* bound: how often the entry was set up
    exact       \* history: since when the anchor follows the entity

environment == <<now, line, changed, committed, up, recorder>>
backfill == <<today, day>>
config == <<minDur, setups>>
vars == <<now, line, changed, committed, up, recorder, disk, pc, today, day, mem, dirty,
          saving, lastFold, previous, minDur, setups, exact>>

NoTime == MaxTime + 1

\* TrackerLedger: per-day buckets, the open visit's anchor, the last day
\* backfilled, and the threshold the buckets were built with.
Ledger ==
    [daily : [Day -> Bucket],
     last_state : Names \cup {NoState},
     last_ts : Time,
     last_updated_day : Day \cup {NoDay},
     built : Thresholds \cup {NoBuilt}]

\* The two values None of the coordinator are no ledger and no fold.
ASSUME NoneAssumption ==
    /\ NoSave \notin Ledger
    /\ NoFold \notin [state : Names, day : Day]

EmptyLedger ==
    [daily |-> [d \in Day |-> EmptyDay], last_state |-> NoState, last_ts |-> 0,
     last_updated_day |-> NoDay, built |-> NoBuilt]

Init ==
    /\ now = 0
    /\ \E s \in Live \cup {NoState} :
          line = [t \in Time |-> IF t = 0 THEN s ELSE NoState]
    /\ changed = 0
    /\ committed = 0
    /\ up = TRUE
    /\ recorder \in IF RecorderMayBeOff THEN BOOLEAN ELSE {TRUE}
    /\ disk = EmptyLedger
    /\ pc = "absent"
    /\ today = 0 /\ day = 0
    /\ mem = EmptyLedger
    /\ dirty = FALSE
    /\ saving = NoSave
    /\ lastFold = NoFold
    /\ previous = NoState
    /\ minDur \in Thresholds
    /\ setups = 0
    /\ exact = NoTime
-----------------------------------------------------------------------------
(* The ledger's operations.                                                *)

\* prune_cutoff_iso: buckets of days before it may be dropped.
Cutoff(t) == Later(0, DayOf(t) - KeepDays)

Pruned(L) ==
    [L EXCEPT !.daily = [d \in Day |->
        IF d < Cutoff(now) THEN EmptyDay ELSE L.daily[d]]]

\* Mutant: the segments of days a backfill wrote are folded again.
FoldStartUnfiltered(L, start) == start

\* Where the part of a visit since start begins that no backfill has written:
\* _fold_visit drops the segments of days up to last_updated_day.
FoldStart(L, start) == Later(start, Midnight[L.last_updated_day + 1])

Glitch(L, start, end) == minDur > 0 /\ end - FoldStart(L, start) < minDur

Coalesces(s) == lastFold # NoFold /\ lastFold.state = s

\* Mutant: the visit is counted on every day it covers.
VisitCountEachDay(start, head, s, d) == IF Coalesces(s) THEN 0 ELSE 1

\* Whether the fold of a visit of s from start, written from head on, counts
\* it on day d: once, on its start day, unless that day was backfilled or the
\* visit continues the one before.
VisitCount(start, head, s, d) ==
    IF ~Coalesces(s) /\ DayOf(head) = DayOf(start) /\ d = DayOf(head) THEN 1 ELSE 0

\* _fold_visit's effect on daily: a glitch goes to the bucket of the visit
\* before it, any other visit to each day it covers.
FoldedDaily(L, s, start, end) ==
    LET head == FoldStart(L, start)
        WithVisit(d) == [L.daily[d] EXCEPT
            ![s].secs = @ + SplitSecs(head, end, d),
            ![s].count = @ + IF SplitSecs(head, end, d) = 0 THEN 0
                             ELSE VisitCount(start, head, s, d)]
    IN  IF head >= end \/ (Glitch(L, start, end) /\ lastFold = NoFold)
        THEN L.daily
        ELSE IF Glitch(L, start, end)
        THEN [L.daily EXCEPT ![lastFold.day][lastFold.state].secs = @ + (end - head)]
        ELSE [d \in Day |-> WithVisit(d)]

\* _fold_visit's effect on _last_fold.
FoldedLast(L, s, start, end) ==
    IF FoldStart(L, start) >= end \/ Glitch(L, start, end) \/ Coalesces(s)
    THEN lastFold
    ELSE [state |-> s, day |-> DayOf(FoldStart(L, start))]

\* _handle_state_change for a new state s whose last_changed is at.
HandleStateChange(s, at) ==
    /\ mem' = [mem EXCEPT
            !.daily = IF mem.last_state = NoState THEN @
                      ELSE FoldedDaily(mem, mem.last_state, mem.last_ts, at),
            !.last_state = s,
            !.last_ts = at]
    /\ lastFold' = IF mem.last_state = NoState THEN lastFold
                   ELSE FoldedLast(mem, mem.last_state, mem.last_ts, at)
    /\ previous' = IF mem.last_state = NoState THEN previous ELSE mem.last_state
    /\ dirty' = TRUE
    /\ exact' = Earlier(exact, now)
-----------------------------------------------------------------------------
(* The surroundings: time, the entity, the recorder.                       *)

\* No row of the entity bears this instant yet.
FreshInstant == now > 0 /\ line[now] = line[now - 1]

Tick ==
    /\ now < MaxTime
    /\ now' = now + 1
    /\ line' = [line EXCEPT ![now + 1] = line[now]]
    /\ committed' = IF up THEN Later(committed, now + 1 - MaxLag) ELSE now + 1
    /\ UNCHANGED <<changed, up, recorder, disk, pc, backfill, mem, dirty,
                   saving, lastFold, previous, config, exact>>

Commit ==
    /\ up
    /\ committed < now
    /\ committed' = now
    /\ UNCHANGED <<now, line, changed, up, recorder, disk, pc, backfill, mem,
                   dirty, saving, lastFold, previous, config, exact>>

\* The entity takes another state; the coordinator sees it if subscribed.
Transition(s) ==
    /\ up
    /\ FreshInstant
    /\ line[now] # s
    /\ line' = [line EXCEPT ![now] = s]
    /\ changed' = now
    /\ committed' = IF MaxLag = 0 THEN now ELSE Earlier(committed, now - 1)
    /\ \/ /\ pc = "live"
          /\ HandleStateChange(s, now)
       \/ /\ pc # "live"
          /\ ~Quiet
          /\ UNCHANGED <<mem, lastFold, previous, dirty, exact>>
    /\ UNCHANGED <<now, up, recorder, disk, pc, backfill, saving, config>>

\* A state_changed event of an attribute alone: same state, same last_changed.
AttributeUpdate ==
    /\ pc = "live"
    /\ line[now] # NoState
    /\ HandleStateChange(line[now], changed)
    /\ UNCHANGED <<environment, disk, pc, backfill, saving, config>>
-----------------------------------------------------------------------------
(* Setup: async_config_entry_first_refresh.                                *)

\* The coordinator object is gone, and all it held.
Dropped ==
    /\ mem' = EmptyLedger
    /\ dirty' = FALSE
    /\ saving' = NoSave
    /\ lastFold' = NoFold
    /\ previous' = NoState
    /\ exact' = NoTime
    /\ today' = 0 /\ day' = 0

\* Mutant: a changed threshold leaves the old buckets.
ReconciledInPlace(L) == [L EXCEPT !.built = minDur]

\* _reconcile_min_state_duration: buckets built with another threshold go.
Reconciled(L) ==
    IF L.built = NoBuilt \/ L.built = minDur
    THEN [L EXCEPT !.built = minDur]
    ELSE [L EXCEPT !.daily = EmptyLedger.daily,
                   !.last_updated_day = NoDay,
                   !.built = minDur]

\* store.load (a corrupt file loads as empty), get_or_create_tracker (which
\* saves a ledger it creates; if it cannot, setup fails before it began) and
\* _reconcile_min_state_duration; then backfill captures today and its start.
Load ==
    /\ up
    /\ pc = "absent"
    /\ setups < MaxSetups
    /\ setups' = setups + 1
    /\ \E L \in {disk} \cup (IF DiskMayFail THEN {EmptyLedger} ELSE {}) :
        /\ disk' = L
        /\ mem' = Reconciled(L)
        /\ day' = IF mem'.last_updated_day = NoDay THEN Cutoff(now)
                  ELSE mem'.last_updated_day + 1
    /\ today' = DayOf(now)
    /\ dirty' = TRUE
    /\ pc' = "backfill"
    /\ UNCHANGED <<environment, saving, lastFold, previous, minDur, exact>>

\* The rows a query answers with.
Visible == [t \in Time |-> line[Earlier(t, committed)]]

\* Mutant: the day that is still open is backfilled too.
PendingThroughToday == day <= today

\* backfill's loop condition.
Pending == day < today

\* Mutant: the recomputed blocks are added to what the day holds.
ReplaceDayByAdding(L, d, blocks) ==
    [L EXCEPT !.daily[d] = [s \in Names |->
        [secs |-> L.daily[d][s].secs + blocks[s].secs,
         count |-> L.daily[d][s].count + blocks[s].count]]]

\* replace_day: the day is written wholesale.
ReplaceDay(L, d, blocks) == [L EXCEPT !.daily[d] = blocks]

\* A save of mem' that succeeds, and one that fails and ends setup.
SaveAndGo(next) == disk' = mem' /\ pc' = next
SetupFails == DiskMayFail /\ Dropped /\ pc' = "absent" /\ UNCHANGED disk

BackfillReplace ==
    /\ pc = "backfill"
    /\ recorder
    /\ Pending
    /\ LET blocks == BackfillBlocks(Visible, day, minDur) IN
         IF blocks = EmptyDay
         THEN pc' = "mark"
              /\ UNCHANGED <<disk, backfill, mem, dirty, saving, lastFold, previous, exact>>
         ELSE \/ /\ mem' = ReplaceDay(mem, day, blocks)
                 /\ SaveAndGo("mark")
                 /\ UNCHANGED <<backfill, dirty, saving, lastFold, previous, exact>>
              \/ SetupFails
    /\ UNCHANGED <<environment, config>>

\* Mutant: the loop marks the day but does not move on.
NextDayForgotten == day

\* backfill's day += 1.
NextDay == day + 1

BackfillMark ==
    /\ pc = "mark"
    /\ \/ /\ mem' = [mem EXCEPT !.last_updated_day = day]
          /\ day' = NextDay
          /\ SaveAndGo("backfill")
          /\ UNCHANGED <<today, dirty, saving, lastFold, previous, exact>>
       \/ SetupFails
    /\ UNCHANGED <<environment, config>>

BackfillDone ==
    /\ pc = "backfill"
    /\ ~Pending \/ ~recorder
    /\ pc' = "refresh"
    /\ UNCHANGED <<environment, disk, backfill, mem, dirty, saving, lastFold,
                   previous, config, exact>>

\* The first tick: prune, then a flush whose failure is caught.
FirstRefresh ==
    /\ pc = "refresh"
    /\ mem' = Pruned(mem)
    /\ dirty' = FALSE
    /\ \/ dirty /\ disk' = mem'
       \/ (DiskMayFail \/ ~dirty) /\ UNCHANGED disk
    /\ pc' = "wait"
    /\ UNCHANGED <<environment, backfill, saving, lastFold, previous, config, exact>>

\* _async_subscribe_at_start: seed a ledger that has no anchor, and subscribe.
Subscribe ==
    /\ pc = "wait"
    /\ IF mem.last_state = NoState /\ line[now] # NoState
       THEN /\ mem' = [mem EXCEPT !.last_state = line[now], !.last_ts = now]
            /\ dirty' = TRUE
            /\ exact' = now
       ELSE UNCHANGED <<mem, dirty, exact>>
    /\ pc' = "live"
    /\ UNCHANGED <<environment, disk, backfill, saving, lastFold, previous, config>>
-----------------------------------------------------------------------------
(* A tracker that is set up: ticks, flushes, unload, stop, crash.          *)

SetUp == pc \in {"wait", "live"}

\* Mutant: the flag is cleared but nothing is handed to the save.
FlushedNothing(L) == NoSave

\* What _async_flush hands to the save.
Flushed(L) == IF dirty THEN L ELSE NoSave

\* _async_update_data's prune and the start of its flush.
Poll ==
    /\ SetUp
    /\ saving = NoSave
    /\ mem' = Pruned(mem)
    /\ saving' = Flushed(mem')
    /\ dirty' = FALSE
    /\ UNCHANGED <<environment, disk, pc, backfill, lastFold, previous, config, exact>>

\* Mutant: the flag is cleared after the await, with the folds made meanwhile.
DirtyWiped == FALSE

\* The flag when the save's await ends: cleared before it, a fold re-sets it.
DirtyAfterSave == dirty

FlushDone ==
    /\ saving # NoSave
    /\ disk' = saving
    /\ saving' = NoSave
    /\ dirty' = DirtyAfterSave
    /\ UNCHANGED <<environment, pc, backfill, mem, lastFold, previous, config,
                   exact>>

FlushFails ==
    /\ DiskMayFail
    /\ saving # NoSave
    /\ saving' = NoSave
    /\ UNCHANGED <<environment, disk, pc, backfill, mem, dirty, lastFold,
                   previous, config, exact>>

\* An unload: cancel the subscription, flush, drop the coordinator; an options
\* edit unloads too and may change the threshold.  After a flush that fails
\* Home Assistant may keep the entry in FAILED_UNLOAD until it restarts.
Unload ==
    /\ up
    /\ SetUp
    /\ saving = NoSave
    /\ minDur' \in Thresholds
    /\ \/ /\ disk' = IF dirty THEN mem ELSE disk
          /\ pc' = "absent"
       \/ /\ DiskMayFail /\ dirty
          /\ pc' \in {"absent", "failed_unload"}
          /\ UNCHANGED disk
    /\ Dropped
    /\ UNCHANGED <<environment, setups>>

\* A clean stop: the STOP listener flushes, the entity's row turns unavailable.
Stop ==
    /\ up
    /\ saving = NoSave
    /\ FreshInstant
    /\ disk' \in IF SetUp /\ dirty
                 THEN {mem} \cup (IF DiskMayFail THEN {disk} ELSE {})
                 ELSE {disk}
    /\ up' = FALSE
    /\ line' = IF line[now] = NoState THEN line ELSE [line EXCEPT ![now] = Unavailable]
    /\ changed' = now
    /\ committed' = now
    /\ pc' = "absent"
    /\ Dropped
    /\ UNCHANGED <<now, recorder, config>>

\* A crash: memory is gone, and so are the rows not yet committed.
Crash ==
    /\ up
    /\ up' = FALSE
    /\ line' = [t \in Time |-> IF t \in committed..now THEN line[committed] ELSE line[t]]
    /\ changed' = now
    /\ committed' = now
    /\ pc' = "absent"
    /\ Dropped
    /\ UNCHANGED <<now, recorder, disk, config>>

\* Home Assistant starts again; the entity shows some state.
Boot ==
    /\ ~up
    /\ FreshInstant
    /\ up' = TRUE
    /\ \E s \in Live \ {Unavailable} : line' = [line EXCEPT ![now] = s]
    /\ changed' = now
    /\ committed' = now
    /\ recorder' \in IF RecorderMayBeOff THEN BOOLEAN ELSE {TRUE}
    /\ UNCHANGED <<now, disk, pc, backfill, mem, dirty, saving, lastFold,
                   previous, config, exact>>
-----------------------------------------------------------------------------
\* What runs of the setup coroutine once it has started.
SetupRuns ==
    \/ BackfillReplace
    \/ BackfillMark
    \/ BackfillDone
    \/ FirstRefresh
    \/ Subscribe

Next ==
    \/ Tick
    \/ Commit
    \/ \E s \in Live : Transition(s)
    \/ AttributeUpdate
    \/ Load
    \/ SetupRuns
    \/ Poll
    \/ FlushDone
    \/ FlushFails
    \/ Unload
    \/ Stop
    \/ Crash
    \/ Boot

Spec == Init /\ [][Next]_vars

\* The event loop resumes a coroutine whose await is over, the poll timer
\* fires while the entry is set up, and a disk write ends.  Nothing obliges
\* the entity to change, or Home Assistant to stop, to start or to load.
Fairness ==
    /\ WF_vars(SetupRuns)
    /\ WF_vars(Poll)
    /\ WF_vars(FlushDone \/ FlushFails)

FairSpec == Spec /\ Fairness
-----------------------------------------------------------------------------
(* Properties.                                                             *)

TypeOK ==
    /\ now \in Time
    /\ line \in [Time -> Names \cup {NoState}]
    /\ changed \in Time
    /\ committed \in Time
    /\ up \in BOOLEAN
    /\ recorder \in BOOLEAN
    /\ disk \in Ledger
    /\ pc \in {"absent", "backfill", "mark", "refresh", "wait", "live", "failed_unload"}
    /\ today \in Day
    /\ day \in 0..(LastDay + 1)
    /\ mem \in Ledger
    /\ dirty \in BOOLEAN
    /\ saving \in Ledger \cup {NoSave}
    /\ lastFold \in [state : Names, day : Day] \cup {NoFold}
    /\ previous \in Names \cup {NoState}
    /\ minDur \in Thresholds
    /\ setups \in 0..MaxSetups
    /\ exact \in 0..NoTime

\* The seconds a bucket holds, of all states together: one for each state
\* and each second it has there.
DaySecs(L, d) == Cardinality(UNION {{s} \X (1..L.daily[d][s].secs) : s \in Names})

(* No local day of the ledger, in memory or on disk, holds more seconds    *)
(* than the day lasts: folds, backfills, crashes and restarts never count  *)
(* an instant twice (the over-count _fold_visit's day filter prevents).    *)
DayNeverOverfull ==
    \A d \in Day : /\ DaySecs(mem, d) <= DayLength(d)
                   /\ DaySecs(disk, d) <= DayLength(d)

(* The backfill marker never names today or a later day, also when         *)
(* midnight passes during the backfill: today's bucket stays the live      *)
(* path's.                                                                 *)
MarkerBeforeToday ==
    /\ mem.last_updated_day < DayOf(now)
    /\ disk.last_updated_day < DayOf(now)

(* A day at or before the marker holds just what the recorder tells of     *)
(* it, whatever was folded, saved, lost and reloaded before and after.     *)
BakedMatchesRecorder ==
    \A d \in Day :
        Cutoff(now) <= d /\ d <= mem.last_updated_day
            => mem.daily[d] = BackfillBlocks(line, d, minDur)

(* A closed day folded live from before its midnight to after its end      *)
(* holds what a backfill of it would write (_fold_visit's claim).          *)
LiveMatchesBackfill ==
    \A d \in Day :
        /\ pc = "live"
        /\ exact < Midnight[d]
        /\ Midnight[d + 1] <= mem.last_ts
        /\ Cutoff(now) <= d
        => mem.daily[d] = BackfillBlocks(line, d, minDur)

(* After the threshold changed, every closed day the recorder can still    *)
(* tell of is rebuilt with the new one (_reconcile_min_state_duration).    *)
ThresholdRebuilt ==
    \A d \in Day :
        LET blocks == BackfillBlocks(line, d, minDur) IN
        Cutoff(now) <= d /\ d <= mem.last_updated_day /\ blocks # EmptyDay
            => mem.daily[d] = blocks

\* The file holds the ledger, except buckets already pruned from memory.
Saved ==
    /\ [disk EXCEPT !.daily = mem.daily] = mem
    /\ \A d \in Day : Cutoff(now) <= d => disk.daily[d] = mem.daily[d]

(* When nothing is marked dirty and no flush is in flight, a stop now      *)
(* loses nothing (_async_flush: persist if there are unsaved mutations).   *)
CleanMeansSaved == SetUp /\ ~dirty /\ saving = NoSave => Saved

(* While the entry stays set up, a day at or before the marker never       *)
(* changes except that the prune drops it.                                 *)
BakedDayFrozen ==
    [][SetUp /\ SetUp' =>
        \A d \in Day : d <= mem.last_updated_day
            => mem'.daily[d] \in {mem.daily[d], EmptyDay}]_vars

(* A setup that began ends: the tracker is live, or setup failed or was    *)
(* cut short.  The backfill loop does not run for ever, also when days     *)
(* close while it runs.                                                    *)
SetupEnds ==
    pc \in {"backfill", "mark", "refresh", "wait"} ~> pc \in {"live", "absent"}

(* A mutation of the ledger reaches the disk while the entry stays set up, *)
(* also when folds come between a flush's start and its end.               *)
EventuallySaved == SetUp /\ dirty ~> ~SetUp \/ Saved
=============================================================================
