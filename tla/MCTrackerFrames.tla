-------------------------- MODULE MCTrackerFrames --------------------------
(* Small instances of TrackerFrames for TLC.                               *)
EXTENDS TrackerFrames, TLC

CONSTANTS on, off, unavailable, noState, none

TwoStates == {on, off}
NoThreshold == {0}

\* Three local days of different lengths, as around a clock change.
ThreeDays == [d \in 0..3 |-> <<0, 2, 4, 7>>[d + 1]]

\* The first day nearly over, so that the second is watched from its start.
LongSecondDay == [d \in 0..3 |-> <<0, 1, 4, 7>>[d + 1]]

\* Days of one instant, so that several close during a backfill, and a longer one.
ShortDays == [d \in 0..3 |-> <<0, 1, 2, 4>>[d + 1]]

\* Rolling frames that are longer than the shortest day.
OneDelta == {3}
TwoDeltas == {2, 3}

Symmetry == Permutations(TwoStates)
=============================================================================
