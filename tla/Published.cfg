\* A window so long that a second is less than half a unit of the shares.
SPECIFICATION Spec
CONSTANTS
    home = home
    work = work
    away = away
    gone = gone
    Lives <- TwoLives
    States <- ThreeStates
    NoState = NoState
    Windows <- SomeWindows
    Whole = 3
    Epsilon = 1
    Hysteresis = 1
    NoResult = NoResult
    Absent = Absent
    Unavailable = Unavailable
    Unset = Unset
INVARIANT SharesAddUp DominantLeads PublishedIsCurrent
CHECK_DEADLOCK FALSE
