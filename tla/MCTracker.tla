----------------------------- MODULE MCTracker -----------------------------
(* Small instances of Tracker for TLC.                                     *)
EXTENDS TrackerDayBook, TLC

CONSTANTS on, off, unavailable, noState, none

TwoStates == {on, off}
NoThreshold == {0}
TwoThresholds == {0, 2}

\* Three local days of different lengths, as around a clock change.
ThreeDays == [d \in 0..3 |-> <<0, 2, 4, 7>>[d + 1]]

\* The first day nearly over, so that the second is watched from its start.
LongSecondDay == [d \in 0..3 |-> <<0, 1, 3, 6>>[d + 1]]

Symmetry == Permutations(TwoStates)
=============================================================================
