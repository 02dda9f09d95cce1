\* The shipped deployment: one process with one worker.
SPECIFICATION PipelineSpec
CONSTANTS
    p1 = p1  p2 = p2  r1 = r1  r2 = r2  q1 = q1  q2 = q2  None = None
    Procs = {p1}
    Reviews = {r1}
    Requests = {q1, q2}
    Home <- OneHome
    MaxAttempts = 2
    LeaseTime = 1
    Backoff = 1
    PatientRestart = FALSE
    MaxPosts = 3
    MaxCrashes = 2
    MaxLost = 1
    NCriteria = 2
    MaxFaults = 2
    MaxBadCommits = 0
INVARIANTS PipelineTypeOK ReviewsSound LogsSound
CHECK_DEADLOCK FALSE
