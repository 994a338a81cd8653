\* A visit shorter than the glitch threshold just after midnight.
SPECIFICATION Spec
CONSTANTS
    on = on
    off = off
    unavailable = unavailable
    noState = noState
    none = none
    MaxTime = 5
    LastDay = 2
    Midnight <- ThreeDays
    States <- TwoStates
    Live <- TwoStates
    Thresholds <- TwoThresholds
    KeepDays = 1
    MaxLag = 0
    MaxSetups = 1
    Quiet = FALSE
    RecorderMayBeOff = FALSE
    DiskMayFail = FALSE
    Unavailable = unavailable
    NoState = noState
    NoBuilt = none
    NoFold = none
    NoSave = none
INVARIANT DayNeverOverfull
SYMMETRY Symmetry
CHECK_DEADLOCK FALSE
