\* Edits, reloads, failing frames, users, failures and restarts.
SPECIFICATION FairSpec
CONSTANTS
    today = today
    week = week
    Frames <- TwoFrames
    Fragile <- OneFrame
    Escalate = 3
    MaxTicks = 2
    MaxEvents = 2
INVARIANT TypeOK IssueHasOwner EntitiesFollowFrames EditsReachCoordinator
PROPERTY IssuesSettle ReloadsEnd
CHECK_DEADLOCK FALSE
