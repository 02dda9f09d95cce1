\* Ids from the rowid (SQLite): a crashed run is started again.
SPECIFICATION FairSpec
CONSTANTS
    v1 = v1
    Viewers = {v1}
    NCriteria = 2
    ReuseIds = TRUE
    MaxRuns = 3
    MaxBreaks = 2
    MaxCrashes = 1
INVARIANT NothingSkipped
CHECK_DEADLOCK FALSE
