\* Every timeline, window, query start and threshold on a short line.
SPECIFICATION Spec
CONSTANTS
    on = on
    off = off
    unavailable = unavailable
    noState = noState
    MaxTime = 5
    LastDay = 0
    Midnight <- OneDay
    States <- TwoStates
    Unavailable = unavailable
    NoState = noState
    Durations <- ThreeDurations
INVARIANT QueriedDayMatches SharedQuerySecs
SYMMETRY Symmetry
CHECK_DEADLOCK FALSE
