---------------------------- MODULE MCPublished ----------------------------
(* Small instances of Published for TLC.                                   *)
EXTENDS Published, TLC

CONSTANTS home, work, away, gone

ThreeStates == {home, work, away}
SomeWindows == {0, 8}
TwoLives == {home, gone}
=============================================================================
