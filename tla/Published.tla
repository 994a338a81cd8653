------------------------------ MODULE Published ------------------------------
(***************************************************************************)
(* From the seconds of a frame to the state of its sensor.  A tick gives   *)
(* compute_frame the seconds each state held in a window; it makes shares  *)
(* of them that add up, and picks the dominant state with hysteresis.  The *)
(* sensor publishes the result, but for what it published before.          *)
(*                                                                         *)
(* Two entities stand for those of a tracker: that of a frame, which reads *)
(* the coordinator's data, and Currently in state, which reads the live    *)
(* state of the source and writes at each change of it as well.            *)
(***************************************************************************)
EXTENDS Integers, FiniteSets, Functions

CONSTANTS
    States,         \* the recorded states
    Lives,          \* the live states of the source, its absence among them
    NoState,        \* no dominant state
    Windows,        \* the lengths the frame's window can have
    Whole,          \* 100 percent, in units of the last decimal
    Epsilon,        \* _UNACCOUNTED_EPSILON_SECS
    Hysteresis,     \* DOMINANT_HYSTERESIS_PCT, in the units of Whole
    NoResult,       \* a frame without a result
    Absent,         \* an entity that is not added
    Unavailable,    \* what Home Assistant writes of an entity not available
    Unset           \* the empty cache

ASSUME PublishedAssumption ==
    /\ NoState \notin States
    /\ Windows \subseteq Nat
    /\ {Whole, Epsilon, Hysteresis} \subseteq Nat
    /\ Whole > 0

VARIABLES
    source,         \* the source's live state
    data,           \* the frame's result in coordinator.data
    success,        \* last_update_success
    up,             \* the entry is set up
    published,      \* what Home Assistant holds of each entity
    cache           \* the last triple of each entity's WriteDedupMixin

vars == <<source, data, success, up, published, cache>>

Entities == {"frame", "live"}

\* A window, and seconds of some states, at most the window in all.
Inputs == UNION {{[window |-> w, secs |-> b] :
                    b \in {c \in UNION {[S -> 0..w] : S \in SUBSET States} : SumFunction(c) <= w}} :
                    w \in Windows}
-----------------------------------------------------------------------------
(* The result of a frame.                                                  *)

\* round: to the nearest, from the middle to the even one.
Rounded(n, d) ==
    LET q == n \div d IN
    IF 2 * (n % d) > d \/ (2 * (n % d) = d /\ q % 2 = 1) THEN q + 1 ELSE q

\* _pct: a slice that holds time never shows as zero.
Pct(secs, w) ==
    IF w > 0 /\ secs > 0 /\ Rounded(secs * Whole, w) = 0 THEN 1
    ELSE IF w = 0 THEN 0 ELSE Rounded(secs * Whole, w)

\* The largest slice, by name if several are.
Largest(b) == CHOOSE s \in DOMAIN b : \A t \in DOMAIN b : b[t] <= b[s]

\* Mutant: the drift always goes to the remainder.
BalancedByRest(each, b, w) ==
    [slices |-> each, rest |-> IF SumFunction(each) < Whole THEN Whole - SumFunction(each) ELSE 0]

\* breakdown_pct: the rounding's drift goes to the largest slice of a covered
\* window, and else to the remainder, which is never negative.
Balanced(each, b, w) ==
    LET drift == Whole - SumFunction(each) IN
    CASE w = 0 -> [slices |-> each, rest |-> 0]
      [] w > 0 /\ w - SumFunction(b) <= Epsilon ->
            [slices |-> IF b = <<>> THEN each ELSE [each EXCEPT ![Largest(b)] = @ + drift],
             rest |-> 0]
      [] OTHER -> [slices |-> each, rest |-> IF drift > 0 THEN drift ELSE 0]

Shares == [i \in Inputs |->
            Balanced([s \in DOMAIN i.secs |-> Pct(i.secs[s], i.window)], i.secs, i.window)]

\* The states max(breakdown_seconds) may find: of equals, the one recorded first.
Leaders(b) == {s \in DOMAIN b : \A t \in DOMAIN b : b[t] <= b[s]}

\* Mutant: an incumbent that left the window stays.
PickedSticky(b, w, prior, leader) ==
    IF prior = NoState THEN leader
    ELSE IF prior \in DOMAIN b /\ (b[leader] - b[prior]) * Whole > w * Hysteresis
         THEN leader ELSE prior

\* _pick_dominant: a leader replaces the incumbent only if it exceeds it by
\* more than the hysteresis.
Picked(b, w, prior, leader) ==
    IF \/ prior \notin DOMAIN b
       \/ (b[leader] - b[prior]) * Whole > w * Hysteresis
    THEN leader ELSE prior

\* The results compute_frame may return.
Results(i, prior) ==
    {[window |-> i.window, secs |-> i.secs, shares |-> Shares[i], dominant |-> d] :
        d \in IF i.secs = <<>> THEN {NoState}
              ELSE {Picked(i.secs, i.window, prior, l) : l \in Leaders(i.secs)}}

\* What coordinator.data may hold of the frame, but for no result.
Result == UNION {Results(i, prior) : i \in Inputs, prior \in States \cup {NoState}}

(* An entity that is not added, and an empty cache, are told from every    *)
(* state that is published and every triple that is cached.                *)
ASSUME SentinelAssumption ==
    /\ Absent \notin Lives \cup Result \cup {NoResult, Unavailable}
    /\ Unset \notin [value : Lives \cup Result \cup {NoResult}, available : BOOLEAN]

Prior == IF data = NoResult THEN NoState ELSE data.dominant
-----------------------------------------------------------------------------
(* The entities.                                                           *)

\* The triple of value, attributes and availability, as a step leaves it.
Triple(e) == [value |-> IF e = "frame" THEN data' ELSE source', available |-> success']

\* async_write_ha_state
Written(e) == IF success' THEN Triple(e).value ELSE Unavailable

Added == {e \in Entities : published[e] # Absent}

\* Mutant: availability is not compared.
ShouldWriteValue(e) == cache[e] = Unset \/ cache[e].value # Triple(e).value

\* _est_should_write
ShouldWrite(e) == cache[e] # Triple(e)

\* Every entity's _handle_coordinator_update.
UpdateListeners ==
    LET writing == {e \in Added : ShouldWrite(e)} IN
    /\ published' = [e \in Entities |-> IF e \in writing THEN Written(e) ELSE published[e]]
    /\ cache' = [e \in Entities |-> IF e \in writing THEN Triple(e) ELSE cache[e]]

Init ==
    /\ source \in Lives
    /\ data = NoResult /\ success = TRUE
    /\ up = FALSE
    /\ published = [e \in Entities |-> Absent]
    /\ cache = [e \in Entities |-> Unset]

\* A tick ends with the frame computed.
Tick(i) ==
    /\ up
    /\ data' \in Results(i, Prior)
    /\ success' = TRUE
    /\ UNCHANGED <<source, up>>
    /\ UpdateListeners

\* A tick ends, and the frame failed: what it was is kept.
FrameFails ==
    /\ up
    /\ success' = TRUE
    /\ UNCHANGED <<source, data, up>>
    /\ UpdateListeners

\* A tick fails; listeners hear of the first of a row of failures.
TickFails ==
    /\ up
    /\ success
    /\ success' = FALSE
    /\ UNCHANGED <<source, data, up>>
    /\ UpdateListeners

\* The first refresh, which must succeed, by a new coordinator.
SetUp(i) ==
    /\ ~up
    /\ up' = TRUE
    /\ data' \in Results(i, NoState) \cup {NoResult}
    /\ success' = TRUE
    /\ UNCHANGED <<source, published, cache>>

\* An entity is added, for the first time or again, and published.
Add(e) ==
    /\ up
    /\ published[e] = Absent
    /\ UNCHANGED <<source, data, success, up, cache>>
    /\ published' = [published EXCEPT ![e] = Written(e)]

\* _est_reset_cache: an entity is removed, to be added again under another entity_id.
Remove(e) ==
    /\ published[e] # Absent
    /\ published' = [published EXCEPT ![e] = Absent]
    /\ cache' = [cache EXCEPT ![e] = Unset]
    /\ UNCHANGED <<source, data, success, up>>

\* The entry is unloaded; a next setup makes a new coordinator and new entities.
Unload ==
    /\ up
    /\ up' = FALSE
    /\ data' = NoResult /\ success' = TRUE
    /\ published' = [e \in Entities |-> Absent]
    /\ cache' = [e \in Entities |-> Unset]
    /\ UNCHANGED source

\* The source changes, appears or goes: _source_changed writes at once.
SourceChanges(s) ==
    /\ s # source
    /\ source' = s
    /\ UNCHANGED <<data, success, up, cache>>
    /\ published' = IF "live" \in Added THEN [published EXCEPT !["live"] = Written("live")]
                    ELSE published

Next ==
    \/ \E i \in Inputs : SetUp(i) \/ Tick(i)
    \/ FrameFails
    \/ TickFails
    \/ \E e \in Entities : Add(e) \/ Remove(e)
    \/ Unload
    \/ \E s \in Lives : SourceChanges(s)

Spec == Init /\ [][Next]_vars
-----------------------------------------------------------------------------
(* Properties.                                                             *)

(* The shares of a window make a whole: exactly of a covered one, and of   *)
(* one with a gap at least, and by rounding at most one unit per state     *)
(* more; and exactly the states that hold time have a share.               *)
SharesAddUp ==
    data # NoResult /\ data.window > 0 =>
        LET b == data.secs
            slices == data.shares.slices
            total == SumFunction(slices) + data.shares.rest
        IN  /\ total >= Whole
            /\ total <= Whole + Cardinality(DOMAIN b)
            /\ data.window - SumFunction(b) <= Epsilon /\ b # <<>> => total = Whole
            /\ \A s \in DOMAIN b : slices[s] > 0 <=> b[s] > 0

(* The dominant state is one of the breakdown, and no other leads it by    *)
(* more than the hysteresis: an incumbent is kept through ties and failing *)
(* frames, not beyond (_pick_dominant).                                    *)
DominantLeads ==
    data # NoResult =>
        IF data.secs = <<>> THEN data.dominant = NoState
        ELSE /\ data.dominant \in DOMAIN data.secs
             /\ \A s \in DOMAIN data.secs :
                   (data.secs[s] - data.secs[data.dominant]) * Whole
                        <= data.window * Hysteresis

(* What Home Assistant holds of an entity is its value now, or that it is  *)
(* not available: no skipped write leaves an old one, after failed ticks,  *)
(* direct writes, and removals followed by an add of the same entity.      *)
PublishedIsCurrent ==
    \A e \in Added :
        published[e] = IF ~success THEN Unavailable
                       ELSE IF e = "frame" THEN data ELSE source
=============================================================================
