----------------------------- MODULE LocalDays -----------------------------
(***************************************************************************)
(* Local days of the Entity State Tracker.  Time is a bounded line of      *)
(* instants; a local day is an interval of it that begins at that day's    *)
(* local midnight.  Days need not have the same length: the code measures  *)
(* them by local midnights, so a day with a clock change is shorter or     *)
(* longer than its neighbours.                                             *)
(***************************************************************************)
EXTENDS Integers

CONSTANTS
    MaxTime,    \* bound: the last instant of a behaviour
    LastDay,    \* bound: the last local day
    Midnight    \* Midnight[d] is the instant local day d begins

Time == 0..MaxTime
Day == 0..LastDay

(* Every instant lies in a day, and a later day begins later.              *)
ASSUME LocalDaysAssumption ==
    /\ MaxTime \in Nat
    /\ LastDay \in Nat
    /\ Midnight \in [0..(LastDay + 1) -> Nat]
    /\ Midnight[0] = 0
    /\ \A d, e \in 0..(LastDay + 1) : d < e => Midnight[d] < Midnight[e]
    /\ \A t \in Time : \E d \in Day : Midnight[d] <= t /\ t < Midnight[d + 1]

NoDay == -1             \* the code's last_updated_day = None

Earlier(a, b) == IF a <= b THEN a ELSE b
Later(a, b) == IF a <= b THEN b ELSE a

\* The local calendar day of an instant.
DayOf(t) == CHOOSE d \in Day : Midnight[d] <= t /\ t < Midnight[d + 1]

\* How long day d really lasts.
DayLength(d) == Midnight[d + 1] - Midnight[d]

\* Mutant: a reversed interval gives negative seconds.
SplitSecsSigned(start, end, d) ==
    Earlier(end, Midnight[d + 1]) - Later(start, Midnight[d])

\* The seconds of [start, end) that split_visit_across_days gives to day d;
\* 0 stands for a day the split does not list.
SplitSecs(start, end, d) ==
    Later(0, Earlier(end, Midnight[d + 1]) - Later(start, Midnight[d]))
=============================================================================
