\* Every frame of every tick, with and without a recorder that lags, over restarts and crashes.
SPECIFICATION Spec
CONSTANTS
    on = on
    off = off
    unavailable = unavailable
    noState = noState
    none = none
    MaxTime = 4
    LastDay = 2
    Midnight <- LongSecondDay
    States <- TwoStates
    Live <- TwoStates
    Thresholds <- NoThreshold
    KeepDays = 1
    MaxLag = 1
    MaxSetups = 2
    Quiet = FALSE
    RecorderMayBeOff = TRUE
    DiskMayFail = FALSE
    Deltas <- TwoDeltas
    Retention = 1
    Unavailable = unavailable
    NoState = noState
    NoBuilt = none
    NoFold = none
    NoSave = none
INVARIANT WithinWindow NeverOverstates HeldVisitKeepsTail
SYMMETRY Symmetry
CHECK_DEADLOCK FALSE
