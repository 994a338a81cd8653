------------------------- MODULE MCAccumulateBlocks -------------------------
(* Small instance of AccumulateBlocks for TLC.                             *)
EXTENDS AccumulateBlocks, TLC

CONSTANTS on, off, unavailable, noState

TwoStates == {on, off}
ThreeDurations == {0, 2, 3}

\* The window is what matters here: the whole line is one day.
OneDay == [d \in 0..1 |-> d * (MaxTime + 1)]

Symmetry == Permutations(TwoStates)
=============================================================================
