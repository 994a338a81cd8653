\* Saves that fail, corrupt files, a recorder that lags, restarts and crashes.
SPECIFICATION Spec
CONSTANTS
    on = on
    off = off
    unavailable = unavailable
    noState = noState
    none = none
    MaxTime = 5
    LastDay = 2
    Midnight <- LongSecondDay
    States <- TwoStates
    Live <- TwoStates
    Thresholds <- NoThreshold
    KeepDays = 1
    MaxLag = 1
    MaxSetups = 2
    Quiet = FALSE
    RecorderMayBeOff = FALSE
    DiskMayFail = TRUE
    Unavailable = unavailable
    NoState = noState
    NoBuilt = none
    NoFold = none
    NoSave = none
INVARIANT TypeOK DayNeverOverfull MarkerBeforeToday BakedMatchesRecorder LiveMatchesBackfill
PROPERTY BakedDayFrozen
SYMMETRY Symmetry
CHECK_DEADLOCK FALSE
