--------------------------- MODULE TrackerFrames ---------------------------
(***************************************************************************)
(* The frames a tick computes from a tracker's ledger and the recorder:    *)
(* _async_update_data and compute_frame, read off the state of Tracker.    *)
(* Every state in which a tick may run has a value for every frame.        *)
(***************************************************************************)
EXTENDS Tracker

CONSTANTS
    Deltas,         \* the lengths of the rolling frames
    Retention       \* keep_days, as a length of time

ASSUME FramesAssumption ==
    /\ Deltas \subseteq Nat \ {0}
    /\ Retention \in Nat

\* A tick may run: _async_update_data.
Ticking == pc \in {"refresh", "wait", "live"}

-----------------------------------------------------------------------------
(* resolve_frame_bounds for a tick at t: calendar frames that reach t,     *)
(* calendar frames that ended at a midnight, and rolling frames.           *)

\* A frame: its window, the first whole day the ledger may give, the day
\* from which it gives none, and where the recorder's slice starts.
OpenFrames(t) ==
    {[start |-> Midnight[d], end |-> t, lower |-> d, upper |-> DayOf(t),
      recent |-> Midnight[DayOf(t)]] : d \in 0..DayOf(t)}

ClosedFrames(t) ==
    {[start |-> Midnight[p[1]], end |-> Midnight[p[2]], lower |-> p[1],
      upper |-> p[2], recent |-> t] :
        p \in {q \in Day \X Day : q[1] < q[2] /\ q[2] <= DayOf(t)}}

\* Mutant: the partial day a rolling window starts in counts as a whole day.
FirstWholeDayRounded(start) == DayOf(start)

\* The ledger's first whole day of a window: a day it starts within is left out.
FirstWholeDay(start) ==
    IF start = Midnight[DayOf(start)] THEN DayOf(start) ELSE DayOf(start) + 1

\* _rolling_floors: where the recorder can be trusted from.
Floor(start, t) == Later(start, t - Retention)

RollingFrames(t) ==
    {LET start == t - delta IN
     [start |-> start, end |-> t, lower |-> FirstWholeDay(start),
      upper |-> IF recorder THEN DayOf(Floor(start, t)) ELSE DayOf(t),
      recent |-> IF recorder THEN Floor(start, t) ELSE Midnight[DayOf(t)]] :
        delta \in {x \in Deltas : x <= t}}

Frames(t) == OpenFrames(t) \cup ClosedFrames(t) \cup RollingFrames(t)
-----------------------------------------------------------------------------
\* Where the one query of a tick at t starts.
QueryStart(t) == Min({Midnight[DayOf(t)]} \cup {f.recent : f \in RollingFrames(t)})

\* When the visit began that the timeline shows at t.
VisitStart(timeline, t) ==
    Max({u \in 0..t : timeline[u] = timeline[t] /\ (u = 0 \/ timeline[u - 1] # timeline[u])})

\* Mutant: the ledger's open visit is not laid over the recorder's rows.
NoOverlay(timeline, t) == timeline

\* _overlay_open_visit: from the anchor on the ledger's open visit replaces
\* what the recorder shows, unless the last row is that visit or a later one
\* of its state.
Overlay(timeline, t) ==
    IF \/ mem.last_state = NoState
       \/ mem.last_ts >= t
       \/ /\ timeline[t] = mem.last_state
          /\ VisitStart(timeline, t) >= mem.last_ts
    THEN timeline
    ELSE [u \in Time |-> IF u \in mem.last_ts..t THEN mem.last_state ELSE timeline[u]]

\* _window_states: what the tick takes the entity to have shown.  A row that
\* bears the instant t came before the tick, so the query lists it.
WindowStates(t) == Overlay(CarryForward(Visible, QueryStart(t), t + 1), t)

\* _live_today_blocks: the open visit alone, when there is no recorder.
LiveSlice(s, from, t) ==
    IF mem.last_state # NoState
    THEN IF s = mem.last_state THEN Later(0, t - Later(mem.last_ts, from)) ELSE 0
    ELSE IF s = line[now] THEN Later(0, t - Later(changed, from)) ELSE 0

\* The slice of every state from `from' on.
Recent(from, t) ==
    IF from >= t THEN [s \in Names |-> 0]
    ELSE IF recorder
    THEN LET blocks == Blocks(WindowStates(t), from, t, minDur)
         IN  [s \in Names |-> blocks[s].secs]
    ELSE [s \in Names |-> LiveSlice(s, from, t)]

\* _ledger_days_before.
FromLedger(f, s) == SumFunction([d \in f.lower..(f.upper - 1) |-> mem.daily[d][s].secs])

\* Mutant: the open visit stays out of the closed days.
NoTailDays(f) == {}

\* The closed days of a frame to which the open visit's tail is carried.
TailDays(f) ==
    {d \in DayOf(f.start)..(f.upper - 1) : mem.daily[d][mem.last_state].secs = 0}

\* Mutant: the tail is not clipped to the window's start.
TailUnclipped(f, s) ==
    IF s # mem.last_state \/ mem.last_ts >= f.end THEN 0
    ELSE SumFunction([d \in TailDays(f) |-> SplitSecs(mem.last_ts, f.end, d)])

\* compute_frame's carry of the open visit into closed days not yet folded.
Tail(f, s) ==
    IF s # mem.last_state \/ mem.last_ts >= f.end THEN 0
    ELSE SumFunction([d \in TailDays(f) |-> SplitSecs(Later(mem.last_ts, f.start), f.end, d)])

\* compute_frame's breakdown_seconds, for a tick at t.
Breakdown(f, t) ==
    LET recent == Recent(f.recent, t)
    IN  [s \in Names |-> FromLedger(f, s) + recent[s] + Tail(f, s)]

Total(f, t) == SumFunction(Breakdown(f, t))
-----------------------------------------------------------------------------
(* Properties.                                                             *)

\* The ledger's anchor is the visit the entity is in.
AnchorFollows == mem.last_state = line[now] /\ changed <= mem.last_ts

(* A tick's breakdown never exceeds the frame's window (compute_frame's    *)
(* invariant v8), for every frame, as long as the anchor is the entity's   *)
(* visit.                                                                  *)
WithinWindow ==
    Ticking /\ AnchorFollows => \A f \in Frames(now) : Total(f, now) <= f.end - f.start

\* How long the entity was in s in a window.
TrueSecs(f, s) == Cardinality({t \in f.start..(f.end - 1) : line[t] = s})

(* With a recorder the today frame of a subscribed tracker shows the       *)
(* entity's real times, also while the recorder has not committed the      *)
(* latest row: the overlay of the open visit makes up for it.              *)
TodayIsTrue ==
    /\ pc = "live" /\ recorder
    /\ mem.last_state = line[now] /\ mem.last_ts = changed
    /\ committed >= changed - 1
    => \A f \in {g \in OpenFrames(now) : g.lower = DayOf(now)} :
           LET b == Breakdown(f, now) IN \A s \in Names : b[s] = TrueSecs(f, s)

(* No frame that began after the tracker knew the entity's visit gives a   *)
(* state more time than it had, once every row but the latest is           *)
(* committed: late bookkeeping may lose time, never invent it.             *)
NeverOverstates ==
    pc = "live" /\ committed >= changed - 1 =>
        \A f \in {g \in Frames(now) : exact < g.start} :
            LET b == Breakdown(f, now) IN \A s \in Names : b[s] <= TrueSecs(f, s)

\* What a midnight at the next instant takes from the held state: the open
\* visit's part of the day that ends, if that day already holds an earlier
\* visit of the state, whose bucket keeps the tail out until the next fold.
Shed(s) ==
    IF /\ s = mem.last_state
       /\ mem.daily[DayOf(now)][s].secs > 0
       /\ now + 1 = Midnight[DayOf(now) + 1]
    THEN SplitSecs(mem.last_ts, now + 1, DayOf(now)) ELSE 0

(* A cumulative frame does not run backwards while the entity holds its    *)
(* state (the changelog's "the counter stays monotonic"), once the tracker *)
(* knew the entity's visits for the whole day: if nothing happens but that *)
(* time passes, no calendar frame gives any state less at the next         *)
(* instant.  The one exception is a midnight that ends a day with an       *)
(* earlier visit of the held state; it takes no more than the open visit's *)
(* part of that day, and nothing from any other state.                     *)
HeldVisitKeepsTail ==
    pc = "live" /\ now < MaxTime /\ exact < Midnight[DayOf(now)] =>
        \A f \in OpenFrames(now) :
            LET g == CHOOSE x \in OpenFrames(now + 1) : x.start = f.start
                before == Breakdown(f, now)
                after == Breakdown(g, now + 1)
            IN  \A s \in Names : before[s] <= after[s] + Shed(s)
=============================================================================
