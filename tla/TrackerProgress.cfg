\* Liveness: days close while a backfill runs and the recorder lags; one setup,
\* a sound disk.
SPECIFICATION FairSpec
CONSTANTS
    on = on
    off = off
    unavailable = unavailable
    noState = noState
    none = none
    MaxTime = 3
    LastDay = 2
    Midnight <- ShortDays
    States <- TwoStates
    Live <- TwoStates
    Thresholds <- NoThreshold
    KeepDays = 2
    MaxLag = 2
    MaxSetups = 1
    Quiet = FALSE
    RecorderMayBeOff = FALSE
    DiskMayFail = FALSE
    Deltas <- OneDelta
    Retention = 2
    Unavailable = unavailable
    NoState = noState
    NoBuilt = none
    NoFold = none
    NoSave = none
INVARIANT CleanMeansSaved TodayIsTrue
PROPERTY SetupEnds EventuallySaved
CHECK_DEADLOCK FALSE
