---------------------------- MODULE MCSeenStates ----------------------------
(* Small instances of SeenStates for TLC.                                  *)
EXTENDS SeenStates, TLC

CONSTANTS home, work, away

ThreeStates == {home, work, away}
Symmetry == Permutations(ThreeStates)
=============================================================================
