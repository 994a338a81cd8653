-------------------------- MODULE MCEntryLifecycle --------------------------
(* Small instances of EntryLifecycle for TLC.                              *)
EXTENDS EntryLifecycle, TLC

CONSTANTS today, week

TwoFrames == {today, week}
OneFrame == {today}
=============================================================================
