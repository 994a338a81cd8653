\* Three starts and four folds.
SPECIFICATION FileSpec
CONSTANTS
    NoFile = NoFile
    MaxFolds = 4
    MaxStarts = 3
INVARIANT FoldsKept FileFollowsEntry
CHECK_DEADLOCK FALSE
