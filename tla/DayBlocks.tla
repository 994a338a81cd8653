----------------------------- MODULE DayBlocks -----------------------------
(***************************************************************************)
(* What accumulate_blocks computes from the recorder's rows for one        *)
(* window, said of the timeline the rows describe: line[t] is the state    *)
(* in force from t to t + 1.  AccumulateBlocks.tla follows the code's loop *)
(* row by row and is checked to give these same values.                    *)
(***************************************************************************)
EXTENDS LocalDays, FiniteSetsExt

CONSTANTS
    States,         \* the states the entity takes while it is available
    Unavailable,    \* the row Home Assistant writes at a clean shutdown
    NoState         \* the entity has no row yet; the code's None

Names == States \cup {Unavailable}

ASSUME NamesAssumption ==
    /\ NoState \notin Names
    /\ IsFiniteSet(States)

\* The bucket of a local day.
Bucket == [Names -> [secs : Nat, count : Nat]]

EmptyRow == [secs |-> 0, count |-> 0]
EmptyDay == [s \in Names |-> EmptyRow]

\* The rows of the window [a, e): where a state name begins, the state in
\* force at a included.
RowsOf(line, a, e) ==
    {t \in a..(e - 1) : line[t] # NoState /\ (t = a \/ line[t] # line[t - 1])}

\* carry_forward_states: a last row "unavailable" is dropped unless it is the
\* only row, so the state before it holds to the end of the window.
CarryForward(line, a, e) ==
    LET rows == RowsOf(line, a, e)
        last == Max(rows)
    IN  IF Cardinality(rows) > 1 /\ line[last] = Unavailable
        THEN [t \in DOMAIN line |-> IF t \in last..(e - 1) THEN line[last - 1] ELSE line[t]]
        ELSE line

\* The rows of [a, e) whose block lasts at least dur.
Survivors(line, a, e, dur) ==
    LET starts == RowsOf(line, a, e)
        EndOf(t) == Min({u \in starts : u > t} \cup {e})
    IN  {t \in starts : EndOf(t) - t >= dur}

\* The state instant t is given to: the latest surviving block's that began.
GivenTo(line, survivors, t) ==
    LET begun == {k \in survivors : k <= t}
    IN  IF begun = {} THEN NoState ELSE line[Max(begun)]

\* accumulate_blocks over [a, e) with glitch threshold dur: a state has the
\* instants given to it, and a survivor counts as a visit unless the block
\* before has its state or it is the continuation of a visit from before a.
Blocks(line, a, e, dur) ==
    LET kept == Survivors(line, a, e, dur)
        continuation == a > 0 /\ line[a - 1] = line[a]
    IN  [s \in Names |->
            [secs |-> Cardinality({t \in a..(e - 1) : GivenTo(line, kept, t) = s}),
             count |-> Cardinality(
                {k \in kept : /\ line[k] = s
                              /\ GivenTo(line, kept, k - 1) # s
                              /\ k = a => ~continuation})]]

\* What a backfill of closed day d writes.
BackfillBlocks(line, d, dur) ==
    LET a == Midnight[d]
        e == Midnight[d + 1]
    IN  Blocks(CarryForward(line, a, e), a, e, dur)
=============================================================================
