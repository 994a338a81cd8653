\* Two entries set up, unloaded and set up again while the other installs.
SPECIFICATION FairSpec
CONSTANTS
    home = home
    work_trip = work_trip
    Entries <- TwoEntries
    Versions <- TwoVersions
    NoVersion <- NoneInstalled
    MaxItems = 3
    MaxSetups = 6
INVARIANT InstalledOnce
PROPERTY CardStays IssueFollowsRecorder
CHECK_DEADLOCK FALSE
