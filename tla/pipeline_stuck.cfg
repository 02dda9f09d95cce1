\* Two commits of the runner raise, in two attempts of one job.
SPECIFICATION PipelineSpec
CONSTANTS
    p1 = p1  p2 = p2  r1 = r1  r2 = r2  q1 = q1  q2 = q2  None = None
    Procs = {p1}
    Reviews = {r1}
    Requests = {q1, q2}
    Home <- OneHome
    MaxAttempts = 2
    LeaseTime = 1
    Backoff = 1
    PatientRestart = FALSE
    MaxPosts = 1
    MaxCrashes = 0
    MaxLost = 0
    NCriteria = 1
    MaxFaults = 0
    MaxBadCommits = 2
INVARIANT FailureRecorded
CHECK_DEADLOCK FALSE
