\* One process that stays down until its leases have expired, two reviews, two requests at once.
SPECIFICATION FairSpec
CONSTANTS
    p1 = p1  p2 = p2  r1 = r1  r2 = r2  q1 = q1  q2 = q2  None = None
    Procs = {p1}
    Reviews = {r1, r2}
    Requests = {q1, q2}
    Home <- OneHome
    MaxAttempts = 2
    LeaseTime = 1
    Backoff = 1
    PatientRestart = TRUE
    MaxPosts = 3
    MaxCrashes = 2
    MaxLost = 0
PROPERTIES ImplementsLedger NoWorkLost
CHECK_DEADLOCK FALSE
