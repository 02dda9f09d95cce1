\* Two processes share the database.
SPECIFICATION PipelineSpec
CONSTANTS
    p1 = p1  p2 = p2  r1 = r1  r2 = r2  q1 = q1  q2 = q2  None = None
    Procs = {p1, p2}
    Reviews = {r1}
    Requests = {q1, q2}
    Home <- TwoHomes
    MaxAttempts = 2
    LeaseTime = 1
    Backoff = 1
    PatientRestart = FALSE
    MaxPosts = 1
    MaxCrashes = 1
    MaxLost = 0
    NCriteria = 1
    MaxFaults = 0
    MaxBadCommits = 1
INVARIANTS UntouchedSound DoneHasDecision
CHECK_DEADLOCK FALSE
