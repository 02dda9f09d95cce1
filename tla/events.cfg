\* Ids from a sequence (PostgreSQL): two runs, a crash, broken connections.
SPECIFICATION FairSpec
CONSTANTS
    v1 = v1
    Viewers = {v1}
    NCriteria = 1
    ReuseIds = FALSE
    MaxRuns = 2
    MaxBreaks = 2
    MaxCrashes = 1
INVARIANTS NothingSkipped InOrderOnce ShownFromOneRun
PROPERTY OutcomeReachesViewers
CHECK_DEADLOCK FALSE
