\* Two processes, one review posted twice, crashes and a lost settlement.
SPECIFICATION Spec
CONSTANTS
    p1 = p1  p2 = p2  r1 = r1  r2 = r2  q1 = q1  q2 = q2  None = None
    Procs = {p1, p2}
    Reviews = {r1}
    Requests = {q1, q2}
    Home <- TwoHomes
    MaxAttempts = 2
    LeaseTime = 1
    Backoff = 1
    PatientRestart = FALSE
    MaxPosts = 3
    MaxCrashes = 2
    MaxLost = 1
INVARIANTS TypeOK RunsBounded AttemptsBounded GivesUpOnlySpent
CHECK_DEADLOCK FALSE
