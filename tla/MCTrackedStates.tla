-------------------------- MODULE MCTrackedStates --------------------------
(* Small instances of TrackedStates for TLC.                               *)
EXTENDS TrackedStates

\* Outside every zone, and in a zone that is called "Not home".
Siblings == {"not_home", "not home"}

SomeNames == Siblings \cup {"the_office", "the office", "zone.office", "___", ""}

SomeFold ==
    [n \in SomeNames |->
        CASE n \in Siblings -> "not home"
          [] n \in {"the_office", "the office"} -> "the office"
          [] n = "___" -> ""
          [] OTHER -> n]

SomeShown == Siblings \cup {"the office"}
SomeTyped == Siblings \cup {"the_office", "zone.office", "___"}

\* The id of the zone whose name is "The office".
SomeZones == [z \in {"zone.office"} |-> "the office"]

Specials == {"not_home"}
=============================================================================
