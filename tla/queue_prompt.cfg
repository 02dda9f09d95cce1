\* A process may restart before its leases have expired.
SPECIFICATION FairSpec
CONSTANTS
    p1 = p1  p2 = p2  r1 = r1  r2 = r2  q1 = q1  q2 = q2  None = None
    Procs = {p1}
    Reviews = {r1}
    Requests = {q1, q2}
    Home <- OneHome
    MaxAttempts = 2
    LeaseTime = 1
    Backoff = 1
    PatientRestart = FALSE
    MaxPosts = 1
    MaxCrashes = 1
    MaxLost = 0
PROPERTY NoWorkLost
CHECK_DEADLOCK FALSE
