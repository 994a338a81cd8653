\* Two sessions over three states, of which _seen holds two.
SPECIFICATION Spec
CONSTANTS
    home = home
    work = work
    away = away
    States <- ThreeStates
    NoState = NoState
    Cap = 2
    MaxTime = 5
    MaxSessions = 2
INVARIANT TypeOK AnnouncedOnce NewIsAnnounced StampsBounded StampsTellVisits
SYMMETRY Symmetry
CHECK_DEADLOCK FALSE
