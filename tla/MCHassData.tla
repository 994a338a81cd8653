---------------------------- MODULE MCHassData ----------------------------
(* Small instances of HassData for TLC.                                    *)
EXTENDS HassData, TLC

CONSTANTS home, work_trip

TwoEntries == {home, work_trip}
TwoVersions == {1, 2}
NoneInstalled == 0
=============================================================================
