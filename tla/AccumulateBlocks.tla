-------------------------- MODULE AccumulateBlocks --------------------------
(***************************************************************************)
(* accumulate_blocks as it runs: one pass over the recorder's rows that    *)
(* collects blocks, one over the blocks that filters glitches.  DayBlocks  *)
(* says what comes out; this module shows that the loops compute it.       *)
(***************************************************************************)
EXTENDS DayBlocks, Sequences, Functions

CONSTANTS Durations     \* the glitch thresholds

ASSUME DurationsAssumption == Durations \subseteq Nat
ASSUME AvailableAssumption == Unavailable \notin States

VARIABLES
    line,       \* the timeline the recorder holds
    repeats,    \* instants at which a row repeats an available state
    query,      \* where the recorder query starts
    start,      \* window_start
    end,        \* measure_end = min(window_end, now)
    dur,        \* min_state_duration
    phase,      \* the part of the function that runs next
    rows,       \* the instants of the rows not yet read
    first,      \* no row has been read yet: i = 0
    raw,        \* the blocks collected and not yet filtered
    filtered    \* the blocks that survived

input == <<line, repeats, query, start, end, dur>>
vars == <<line, repeats, query, start, end, dur, phase, rows, first, raw, filtered>>

\* state_changes_during_period with include_start_time_state: the state in
\* force at the query's start, then a row for each change before its end.
Queried == RowsOf(line, query, end) \cup repeats

\* When the state in force at t began.
Since(t) == Max({u \in 0..t : u = 0 \/ line[u - 1] # line[u]})

\* last_changed of the row at t.
Changed(t) == IF t = query THEN Since(t) ELSE t

\* Timelines in which the entity, once it has a state, keeps having one.
Timelines ==
    {f \in [Time -> Names \cup {NoState}] :
        \A t \in Time \ {0} : f[t] = NoState => f[t - 1] = NoState}

Init ==
    /\ line \in {f \in Timelines : f[MaxTime] = f[MaxTime - 1]}
    /\ query \in Time /\ start \in query..MaxTime /\ end \in start..MaxTime
    /\ dur \in Durations
    /\ repeats \in SUBSET (query + 1 .. end - 1)
    /\ \A t \in repeats : line[t] = line[t - 1] /\ line[t] \in States
    /\ phase = "carry"
    /\ rows = Queried
    /\ first = TRUE
    /\ raw = <<>> /\ filtered = <<>>

\* carry_forward_states: a trailing shutdown row goes unless it is the only one.
Carry ==
    /\ phase = "carry"
    /\ rows' = IF Cardinality(rows) > 1 /\ line[Max(rows)] = Unavailable
               THEN rows \ {Max(rows)} ELSE rows
    /\ phase' = IF end <= start THEN "done" ELSE "collect"
    /\ UNCHANGED <<input, first, raw, filtered>>

\* The row that is read next, and those after it.
Row == Min(rows)
Following == rows \ {Row}

\* Where its block ends.
BlockEnd == IF Following = {} THEN end ELSE Earlier(Changed(Min(Following)), end)

\* Mutant: a block begins where its row does, before the window too.
BlockStartUnclamped == Changed(Row)

\* Where it starts, clamped to the window.
BlockStart == Later(start, Changed(Row))

\* One row of the collecting loop.
Collect ==
    /\ phase = "collect"
    /\ rows # {}
    /\ BlockStart < end
    /\ raw' = IF BlockEnd <= BlockStart THEN raw
              ELSE IF raw # <<>> /\ raw[Len(raw)].state = line[Row]
              THEN [raw EXCEPT ![Len(raw)].to = BlockEnd]
              ELSE Append(raw, [state |-> line[Row], from |-> BlockStart, to |-> BlockEnd,
                                counts |-> ~(first /\ Changed(Row) < start)])
    /\ rows' = Following
    /\ first' = FALSE
    /\ UNCHANGED <<input, phase, filtered>>

\* The loop ends after the last row, or breaks at one past the window.
Collected ==
    /\ phase = "collect"
    /\ rows # {} => BlockStart >= end
    /\ phase' = "filter"
    /\ UNCHANGED <<input, rows, first, raw, filtered>>

\* Mutant: the block after a glitch opens a visit of its own.
ExtendsOnlyGlitch(block) == block.to - block.from < dur

\* A block that the filter lays onto the surviving one before it: a glitch, or
\* a return to the same state.
Extends(block) ==
    block.to - block.from < dur \/ filtered[Len(filtered)].state = block.state

\* One block of the filtering loop.
Filter ==
    /\ phase = "filter"
    /\ raw # <<>>
    /\ LET block == Head(raw)
           secs == block.to - block.from
       IN filtered' = IF filtered # <<>> /\ Extends(block)
                      THEN [filtered EXCEPT ![Len(filtered)].secs = @ + secs]
                      ELSE IF secs < dur THEN filtered
                      ELSE Append(filtered, [state |-> block.state, secs |-> secs,
                                             counts |-> block.counts])
    /\ raw' = Tail(raw)
    /\ UNCHANGED <<input, phase, rows, first>>

Filtered ==
    /\ phase = "filter"
    /\ raw = <<>>
    /\ phase' = "done"
    /\ UNCHANGED <<input, rows, first, raw, filtered>>

Next == Carry \/ Collect \/ Collected \/ Filter \/ Filtered

Spec == Init /\ [][Next]_vars

\* The sum over the surviving blocks.
Of(s) == {k \in DOMAIN filtered : filtered[k].state = s}

Result ==
    [s \in Names |->
        [secs |-> SumFunction([k \in Of(s) |-> filtered[k].secs]),
         count |-> Cardinality({k \in Of(s) : filtered[k].counts})]]
-----------------------------------------------------------------------------
(* What the function should return. *)
Expected ==
    IF start = end THEN EmptyDay
    ELSE Blocks(CarryForward(line, query, end), start, end, dur)

(* On rows queried from the window's start, as backfill queries a day, the *)
(* two loops return the declarative blocks: real seconds per state, a      *)
(* glitch's time with the visit before it, each visit counted where it     *)
(* began, a visit that was interrupted by glitches alone counted once.     *)
QueriedDayMatches == phase = "done" /\ query = start => Result = Expected

(* On rows queried from earlier, as a tick shares one query among frames,  *)
(* the seconds are those of the window.                                    *)
SharedQuerySecs ==
    phase = "done" => \A s \in Names : Result[s].secs = Expected[s].secs
=============================================================================
