------------------------------ MODULE JobQueue ------------------------------
(***************************************************************************)
(* The durable job queue (backend/app/jobs/queue.py) and the workers that  *)
(* drive it (backend/app/jobs/worker.py), run by the API processes of      *)
(* backend/app/main.py.  There is one job row per review.                  *)
(*                                                                         *)
(* A queue operation that reads a row and commits a change later is two    *)
(* actions here, because other sessions run between the read and the       *)
(* commit: EnqueueLoad/EnqueueStore, SettleLoad/SettleStore (complete and  *)
(* fail_or_retry) and BootLoad/BootStore (reclaim_orphans).  The commit    *)
(* writes only the columns whose value differs from the one read, which is *)
(* what the ORM session does.  claim_next is one action: its row is locked *)
(* FOR UPDATE SKIP LOCKED from the read to the commit.                     *)
(*                                                                         *)
(* Times are kept relative to the current time: lease is leased_until-now  *)
(* (-1 once it has passed) and wait is available_at-now (0 once it has).   *)
(***************************************************************************)
EXTENDS Integers, FiniteSets

CONSTANTS
    Procs,           \* API processes, each with one embedded worker
    Reviews,         \* review ids (at most one job each)
    Requests,        \* concurrent HTTP requests that enqueue
    Home,            \* the process that serves a request
    None,            \* not a review and not a process
    MaxAttempts,     \* settings.job_max_attempts
    LeaseTime,       \* settings.job_lease_seconds, in clock steps
    Backoff,         \* fail_or_retry's backoff_seconds, in clock steps
    PatientRestart,  \* TRUE: a process restarts only after its leases expired
    MaxPosts,        \* bound: requests that reach enqueue
    MaxCrashes,      \* bound: process deaths
    MaxLost          \* bound: settling transactions that raise

ASSUME ProcsAssumption    == IsFiniteSet(Procs) /\ None \notin Procs
ASSUME ReviewsAssumption  == IsFiniteSet(Reviews) /\ None \notin Reviews
ASSUME HomeAssumption     == Home \in [Requests -> Procs]
ASSUME AttemptsAssumption == MaxAttempts \in Nat \ {0}
ASSUME TimesAssumption    == LeaseTime \in Nat /\ Backoff \in Nat
ASSUME FlagsAssumption    == PatientRestart \in BOOLEAN
ASSUME BoundsAssumption   == MaxPosts \in Nat /\ MaxCrashes \in Nat /\ MaxLost \in Nat

VARIABLES
    job,       \* the job table, by review
    pc,        \* where each process's worker is
    doing,     \* the review whose job the worker holds, as it remembers it
    plan,      \* what the settling transaction is about to write
    orphans,   \* the expired jobs the boot transaction has read
    req,       \* the enqueue in progress of each request
    rearms,    \* history: how often a job's row was put back to queued from outside its run
    posts, crashes, lost    \* the bounded counters

qvars == <<job, pc, doing, plan, orphans, req, rearms, posts, crashes, lost>>

JobStates == {"queued", "leased", "done", "failed"}
RowStates == JobStates \union {"absent"}

Job  == [state : RowStates, attempts : Nat, owner : Procs \union {None},
         lease : -1..LeaseTime, wait : 0..Backoff, born : Nat]
Plan == [to : JobStates, dirty : BOOLEAN]
Req  == [at : {"idle", "enqueue"}, review : Reviews \union {None}, seen : RowStates]

NoJob  == [state |-> "absent", attempts |-> 0, owner |-> None,
           lease |-> -1, wait |-> 0, born |-> 0]
NoPlan == [to |-> "done", dirty |-> FALSE]
NoReq  == [at |-> "idle", review |-> None, seen |-> "absent"]

Init ==
    /\ job = [r \in Reviews |-> NoJob]
    /\ pc = [p \in Procs |-> "down"]
    /\ doing = [p \in Procs |-> None]
    /\ plan = [p \in Procs |-> NoPlan]
    /\ orphans = [p \in Procs |-> {}]
    /\ req = [q \in Requests |-> NoReq]
    /\ rearms = [r \in Reviews |-> 0]
    /\ posts = 0
    /\ crashes = 0
    /\ lost = 0

-----------------------------------------------------------------------------
(* queue.enqueue, called by the create-review service.                      *)

Enqueued == {r \in Reviews : job[r].state # "absent"}

EnqueueLoad(q, r) ==
    /\ req[q].at = "idle"
    /\ pc[Home[q]] # "down"
    /\ posts < MaxPosts
    /\ posts' = posts + 1
    /\ req' = [req EXCEPT ![q] = [at |-> "enqueue", review |-> r, seen |-> job[r].state]]
    /\ UNCHANGED <<job, pc, doing, plan, orphans, rearms, crashes, lost>>

\* The select found no row: insert one.
InsertJob(q, r) ==
    /\ req[q].seen = "absent"
    /\ job[r].state = "absent"
    /\ job' = [job EXCEPT ![r] = [NoJob EXCEPT !.state = "queued",
                                               !.born = Cardinality(Enqueued) + 1]]
    /\ UNCHANGED rearms

\* The select found no row but another request inserted it since: the unique
\* key on review_id rejects the insert and the request ends with an error.
InsertConflict(q, r) ==
    /\ req[q].seen = "absent"
    /\ job[r].state # "absent"
    /\ UNCHANGED <<job, rearms>>

\* The select found the row: set state and available_at.  A state read as
\* queued is not written again, so what happened to it since then stands.
Rearm(q, r) ==
    /\ req[q].seen # "absent"
    /\ IF req[q].seen = "queued"
       THEN /\ job' = [job EXCEPT ![r].wait = 0]
            /\ UNCHANGED rearms
       ELSE /\ job' = [job EXCEPT ![r].state = "queued", ![r].wait = 0]
            /\ rearms' = [rearms EXCEPT ![r] = @ + 1]

EnqueueStore(q) ==
    /\ req[q].at = "enqueue"
    /\ LET r == req[q].review IN
         InsertJob(q, r) \/ InsertConflict(q, r) \/ Rearm(q, r)
    /\ req' = [req EXCEPT ![q] = NoReq]
    /\ UNCHANGED <<pc, doing, plan, orphans, posts, crashes, lost>>

-----------------------------------------------------------------------------
(* Worker.run_forever: reclaim_orphans once, then run_once in a loop.       *)

OwnLeasesExpired(p) ==
    \A r \in Reviews : job[r].state = "leased" /\ job[r].owner = p => job[r].lease < 0

\* Seeded fault: reclaim_orphans does not ask for state LEASED.
BootLoad_AnyState(p) ==
    /\ pc[p] = "down"
    /\ PatientRestart => OwnLeasesExpired(p)
    /\ orphans' = [orphans EXCEPT ![p] = {r \in Enqueued : job[r].lease < 0}]
    /\ pc' = [pc EXCEPT ![p] = "boot"]
    /\ UNCHANGED <<job, doing, plan, req, rearms, posts, crashes, lost>>

BootLoad(p) ==
    /\ pc[p] = "down"
    /\ PatientRestart => OwnLeasesExpired(p)
    /\ orphans' = [orphans EXCEPT ![p] =
                      {r \in Reviews : job[r].state = "leased" /\ job[r].lease < 0}]
    /\ pc' = [pc EXCEPT ![p] = "boot"]
    /\ UNCHANGED <<job, doing, plan, req, rearms, posts, crashes, lost>>

\* Seeded fault: reclaim_orphans does not commit.
BootStore_Uncommitted(p) ==
    /\ pc[p] = "boot"
    /\ orphans' = [orphans EXCEPT ![p] = {}]
    /\ pc' = [pc EXCEPT ![p] = "idle"]
    /\ UNCHANGED <<job, doing, plan, req, rearms, posts, crashes, lost>>

BootStore(p) ==
    /\ pc[p] = "boot"
    /\ job' = [r \in Reviews |-> IF r \in orphans[p]
                                 THEN [job[r] EXCEPT !.state = "queued", !.wait = 0]
                                 ELSE job[r]]
    /\ rearms' = [r \in Reviews |-> IF r \in orphans[p] THEN rearms[r] + 1 ELSE rearms[r]]
    /\ orphans' = [orphans EXCEPT ![p] = {}]
    /\ pc' = [pc EXCEPT ![p] = "idle"]
    /\ UNCHANGED <<doing, plan, req, posts, crashes, lost>>

\* Seeded fault: claim_next also takes over leases that have expired.
Claimable_Expired ==
    {r \in Reviews : \/ (job[r].state = "queued" /\ job[r].wait = 0)
                    \/ (job[r].state = "leased" /\ job[r].lease < 0)}

Claimable == {r \in Reviews : job[r].state = "queued" /\ job[r].wait = 0}

\* Rows that a commit in progress may have locked: another worker's claim or settling,
\* a boot or an enqueue.
MayBeLocked(p) ==
    {r \in Reviews :
        \/ \E o \in Procs \ {p} : pc[o] = "idle" \/ (pc[o] = "settling" /\ doing[o] = r) \/ r \in orphans[o]
        \/ \E q \in Requests : req[q].at = "enqueue" /\ req[q].review = r}

\* The oldest claimable job, of those whose rows are not locked.  (SQLite locks no rows.)
Claim(p, r) ==
    /\ pc[p] = "idle"
    /\ r \in Claimable
    /\ \A s \in Claimable \ MayBeLocked(p) : job[r].born <= job[s].born
    /\ job' = [job EXCEPT ![r].state = "leased", ![r].owner = p,
                          ![r].lease = LeaseTime, ![r].attempts = @ + 1]
    /\ pc' = [pc EXCEPT ![p] = "running"]
    /\ doing' = [doing EXCEPT ![p] = r]
    /\ UNCHANGED <<plan, orphans, req, rearms, posts, crashes, lost>>

\* Seeded faults: the attempt limit compared one off, in either direction.
Verdict_OneMore(ok, row) ==
    IF ok THEN "done"
    ELSE IF row.attempts > MaxAttempts THEN "failed" ELSE "queued"

Verdict_OneLess(ok, row) ==
    IF ok THEN "done"
    ELSE IF row.attempts + 1 >= MaxAttempts THEN "failed" ELSE "queued"

\* The state complete (after a completed run) or fail_or_retry writes, decided
\* on the row as it is read now.
Verdict(ok, row) ==
    IF ok THEN "done"
    ELSE IF row.attempts >= MaxAttempts THEN "failed" ELSE "queued"

SettleLoad(p, ok) ==
    /\ pc[p] = "running"
    /\ LET row == job[doing[p]] IN
         plan' = [plan EXCEPT ![p] = [to |-> Verdict(ok, row),
                                      dirty |-> row.state # Verdict(ok, row)]]
    /\ pc' = [pc EXCEPT ![p] = "settling"]
    /\ UNCHANGED <<job, doing, orphans, req, rearms, posts, crashes, lost>>

\* Seeded fault: the worker settles the job but goes on holding it.
LetGo_KeepsJob(p) ==
    /\ plan' = [plan EXCEPT ![p] = NoPlan]
    /\ UNCHANGED doing

\* The worker forgets the job: it has settled it, or has lost it.
LetGo(p) ==
    /\ doing' = [doing EXCEPT ![p] = None]
    /\ plan' = [plan EXCEPT ![p] = NoPlan]

SettleStore(p) ==
    /\ pc[p] = "settling"
    /\ LET row == job[doing[p]] IN
         job' = [job EXCEPT ![doing[p]] =
                   [row EXCEPT !.state = IF plan[p].dirty THEN plan[p].to ELSE @,
                               !.wait  = IF plan[p].to = "queued" THEN Backoff ELSE @]]
    /\ pc' = [pc EXCEPT ![p] = "idle"]
    /\ LetGo(p)
    /\ UNCHANGED <<orphans, req, rearms, posts, crashes, lost>>

\* The settling transaction raises: run_forever logs "Worker loop error" and
\* goes on, the row untouched.
SettleLost(p) ==
    /\ pc[p] = "settling"
    /\ lost < MaxLost
    /\ lost' = lost + 1
    /\ pc' = [pc EXCEPT ![p] = "idle"]
    /\ LetGo(p)
    /\ UNCHANGED <<job, orphans, req, rearms, posts, crashes>>

\* The process dies, or is stopped and cancelled after lifespan's ten seconds:
\* its worker and the requests it was serving are gone, the rows stay.
Crash(p) ==
    /\ pc[p] # "down"
    /\ crashes < MaxCrashes
    /\ crashes' = crashes + 1
    /\ pc' = [pc EXCEPT ![p] = "down"]
    /\ LetGo(p)
    /\ orphans' = [orphans EXCEPT ![p] = {}]
    /\ req' = [q \in Requests |-> IF Home[q] = p THEN NoReq ELSE req[q]]
    /\ UNCHANGED <<job, rearms, posts, lost>>

-----------------------------------------------------------------------------
(* The passing of time.                                                     *)

Older(row) == [row EXCEPT !.lease = IF @ > -1 THEN @ - 1 ELSE @,
                          !.wait  = IF @ > 0 THEN @ - 1 ELSE @]

Tick ==
    /\ \E r \in Reviews : job[r].lease > -1 \/ job[r].wait > 0
    /\ job' = [r \in Reviews |-> Older(job[r])]
    /\ UNCHANGED <<pc, doing, plan, orphans, req, rearms, posts, crashes, lost>>

-----------------------------------------------------------------------------

Next ==
    \/ \E q \in Requests, r \in Reviews : EnqueueLoad(q, r)
    \/ \E q \in Requests : EnqueueStore(q)
    \/ \E p \in Procs : BootLoad(p)
    \/ \E p \in Procs : BootStore(p)
    \/ \E p \in Procs, r \in Reviews : Claim(p, r)
    \/ \E p \in Procs, ok \in BOOLEAN : SettleLoad(p, ok)
    \/ \E p \in Procs : SettleStore(p)
    \/ \E p \in Procs : SettleLost(p)
    \/ \E p \in Procs : Crash(p)
    \/ Tick

Spec == Init /\ [][Next]_qvars

\* A live process keeps polling, a run ends (the model calls have timeouts), a
\* transaction commits, time passes, and someone restarts a dead process.
\* Nothing obliges a request to arrive, a process to die or a commit to raise.
Fairness ==
    /\ \A q \in Requests : WF_qvars(EnqueueStore(q))
    /\ \A p \in Procs :
         /\ WF_qvars(BootLoad(p))
         /\ WF_qvars(BootStore(p))
         /\ WF_qvars(\E r \in Reviews : Claim(p, r))
         /\ WF_qvars(\E ok \in BOOLEAN : SettleLoad(p, ok))
         /\ WF_qvars(SettleStore(p))
    /\ WF_qvars(Tick)

FairSpec == Spec /\ Fairness

-----------------------------------------------------------------------------
(* Correctness.                                                             *)

Busy(r) == {p \in Procs : doing[p] = r}

\* Every variable keeps its type, a row exists for every review somebody works
\* on or is about to requeue, and a worker holds a job exactly while it runs or
\* settles it.
TypeOK ==
    /\ job \in [Reviews -> Job]
    /\ pc \in [Procs -> {"down", "boot", "idle", "running", "settling"}]
    /\ doing \in [Procs -> Reviews \union {None}]
    /\ plan \in [Procs -> Plan]
    /\ orphans \in [Procs -> SUBSET Enqueued]
    /\ req \in [Requests -> Req]
    /\ rearms \in [Reviews -> Nat]
    /\ posts \in 0..MaxPosts /\ crashes \in 0..MaxCrashes /\ lost \in 0..MaxLost
    /\ \A p \in Procs : pc[p] \in {"running", "settling"} <=> doing[p] # None
    /\ \A p \in Procs : doing[p] # None => doing[p] \in Enqueued
    /\ \A q \in Requests : req[q].at = "enqueue" =>
          /\ req[q].review # None
          /\ req[q].seen # "absent" => req[q].review \in Enqueued

Queued(r) == IF job[r].state = "queued" THEN 1 ELSE 0

\* At most one worker holds a job beyond those a re-arm or a reclaim explains:
\* the lease is exclusive as long as nobody else touches the row, although
\* complete, fail_or_retry and reclaim_orphans never check who owns it.
RunsBounded ==
    \A r \in Reviews : Cardinality(Busy(r)) + Queued(r) <= 1 + rearms[r]

\* The retry budget: a job is claimed at most MaxAttempts times, plus once for
\* each time enqueue or reclaim_orphans put it back without looking at attempts.
AttemptsBounded ==
    \A r \in Reviews : job[r].attempts <= MaxAttempts + rearms[r]

\* A job is given up only when its attempts are used up, whatever the
\* interleaving of the read and the commit of fail_or_retry with other workers.
GivesUpOnlySpent ==
    \A r \in Reviews : job[r].state = "failed" => job[r].attempts >= MaxAttempts

\* The inductive invariant behind the three bounds above.  A worker that has
\* decided to put its job back but has not committed yet has already read
\* attempts, so the budget must also count those workers.
Requeuing(r) == {p \in Procs : doing[p] = r /\ plan[p].dirty /\ plan[p].to = "queued"}

BudgetBounded ==
    \A r \in Reviews :
        job[r].attempts + Queued(r) + Cardinality(Requeuing(r)) <= MaxAttempts + rearms[r]

PlansSettle == \A p \in Procs : pc[p] # "settling" => plan[p] = NoPlan

PlansSpent ==
    \A p \in Procs : pc[p] = "settling" /\ plan[p].to = "failed" =>
                     job[doing[p]].attempts >= MaxAttempts

QueueInv ==
    TypeOK /\ RunsBounded /\ PlansSettle /\ BudgetBounded /\ PlansSpent /\ GivesUpOnlySpent

\* No work is lost: a job that is waiting or leased is eventually done or given
\* up, through crashes, restarts and retries.
NoWorkLost ==
    \A r \in Reviews : job[r].state \in {"queued", "leased"} ~>
                       job[r].state \in {"done", "failed"}

\* One process implements the ledger: a job leaves the ledger only when a run
\* of it completed or its attempts are used up, and a settled job is reopened
\* only by a request.  (Two processes do not: see the README.)
Ledger == INSTANCE JobLedger WITH
    entry <- [r \in Reviews |-> CASE job[r].state = "absent" -> "none"
                                  [] job[r].state \in {"queued", "leased"} -> "todo"
                                  [] OTHER -> job[r].state],
    tries <- [r \in Reviews |-> job[r].attempts],
    asked <- {req[q].review : q \in {x \in Requests : req[x].at = "enqueue"}}

ImplementsLedger == Ledger!Spec

=============================================================================
