--------------------------- MODULE ReviewPipeline ---------------------------
(***************************************************************************)
(* A review from the POST that creates it to its decision: the create-     *)
(* review service (backend/app/services/reviews.py), the job queue and the *)
(* workers (JobQueue), and the runner (backend/app/engine/runner.py) with  *)
(* the rows it commits and the events it emits.  Every point where the     *)
(* runner awaits the database is a step of its own.                        *)
(*                                                                         *)
(* One review stands for one idempotency key (rubric version, submission,  *)
(* model, prompt version).  What a grade or a decision says is abstracted  *)
(* to the run that produced it: the number of the claim that started the   *)
(* run.  RUNNING, COMPLETED ... are the values of ReviewStatus.            *)
(***************************************************************************)
EXTENDS JobQueue, Sequences

CONSTANTS
    NCriteria,     \* criteria of the rubric version
    MaxFaults,     \* bound: exceptions that leave the runner's session usable
    MaxBadCommits  \* bound: commits of the runner's session that raise

ASSUME CriteriaAssumption == NCriteria \in Nat \ {0}
ASSUME FaultsAssumption   == MaxFaults \in Nat /\ MaxBadCommits \in Nat

VARIABLES
    review,    \* the review table: status and the run that wrote the decision
    results,   \* the criterion_result table: the run that wrote each row, or 0
    log,       \* the review_event table, by review in id order
    run,       \* run_review as executed by each worker
    post,      \* create_review as executed by each request, before enqueue
    faults, badCommits

rvars == <<review, results, log, run, post, faults, badCommits>>
vars  == <<qvars, rvars>>

Criteria == 1..NCriteria
Statuses == {"absent", "QUEUED", "RUNNING", "COMPLETED", "FAILED"}

NoRun  == [at |-> "off", num |-> 0, crit |-> 1, poisoned |-> FALSE, ok |-> FALSE]
NoPost == [at |-> "idle", review |-> None]
NoResults == [c \in Criteria |-> 0]

PipelineInit ==
    /\ Init
    /\ review = [r \in Reviews |-> [status |-> "absent", decision |-> 0]]
    /\ results = [r \in Reviews |-> NoResults]
    /\ log = [r \in Reviews |-> <<>>]
    /\ run = [p \in Procs |-> NoRun]
    /\ post = [q \in Requests |-> NoPost]
    /\ faults = 0
    /\ badCommits = 0

-----------------------------------------------------------------------------
(* services.reviews.create_review.                                          *)

\* Requests already let in that have not reached enqueue yet.
Inbound == {q \in Requests : post[q].at \in {"insert", "arm"}}

\* Look the review up by its idempotency key.  A completed one is returned as
\* it is: that request changes nothing, and is not a step here.
PostRead(q, r) ==
    /\ post[q].at = "idle"
    /\ pc[Home[q]] # "down"
    /\ posts + Cardinality(Inbound) < MaxPosts
    /\ review[r].status # "COMPLETED"
    /\ post' = [post EXCEPT ![q] =
                  [at |-> IF review[r].status = "absent" THEN "insert" ELSE "arm",
                   review |-> r]]
    /\ UNCHANGED <<qvars, review, results, log, run, faults, badCommits>>

\* Insert the review; a review inserted since the lookup has the same unique
\* idempotency key and the request ends with an error.
PostInsert(q) ==
    /\ post[q].at = "insert"
    /\ LET r == post[q].review IN
         \/ /\ review[r].status = "absent"
            /\ review' = [review EXCEPT ![r].status = "QUEUED"]
            /\ post' = [post EXCEPT ![q].at = "arm"]
         \/ /\ review[r].status # "absent"
            /\ post' = [post EXCEPT ![q] = NoPost]
            /\ UNCHANGED review
    /\ UNCHANGED <<qvars, results, log, run, faults, badCommits>>

PostEnqueueLoad(q) ==
    /\ post[q].at = "arm"
    /\ EnqueueLoad(q, post[q].review)
    /\ post' = [post EXCEPT ![q].at = "arming"]
    /\ UNCHANGED <<review, results, log, run, faults, badCommits>>

PostEnqueueStore(q) ==
    /\ EnqueueStore(q)
    /\ post' = [post EXCEPT ![q] = NoPost]
    /\ UNCHANGED <<review, results, log, run, faults, badCommits>>

-----------------------------------------------------------------------------
(* engine.runner.run_review, from the claim to its return.                  *)

ClaimAndRun(p, r) ==
    /\ Claim(p, r)
    /\ run' = [run EXCEPT ![p] = [NoRun EXCEPT !.at = "start", !.num = job'[r].attempts]]
    /\ UNCHANGED <<review, results, log, post, faults, badCommits>>

At(p, place) == run[p].at = place
Goto(p, place) == run' = [run EXCEPT ![p].at = place]
OutsideRunner == UNCHANGED <<qvars, post, faults, badCommits>>

\* RUNNING is committed before anything of an earlier run is cleared; the
\* earlier run's decision stays in the row.  (The row is read before the try: no
\* one deletes it, and a read that raises escapes as a commit here does.)
StartRun(p) ==
    /\ At(p, "start")
    /\ review' = [review EXCEPT ![doing[p]].status = "RUNNING"]
    /\ Goto(p, "clear")
    /\ UNCHANGED <<results, log>>
    /\ OutsideRunner

\* Seeded faults: a re-run keeps the earlier results, or the earlier events.
ClearPrior_KeepsResults(p) ==
    /\ At(p, "clear")
    /\ log' = [log EXCEPT ![doing[p]] = <<>>]
    /\ Goto(p, "load")
    /\ UNCHANGED <<review, results>>
    /\ OutsideRunner

ClearPrior_KeepsEvents(p) ==
    /\ At(p, "clear")
    /\ results' = [results EXCEPT ![doing[p]] = NoResults]
    /\ Goto(p, "load")
    /\ UNCHANGED <<review, log>>
    /\ OutsideRunner

ClearPrior(p) ==
    /\ At(p, "clear")
    /\ results' = [results EXCEPT ![doing[p]] = NoResults]
    /\ log' = [log EXCEPT ![doing[p]] = <<>>]
    /\ Goto(p, "load")
    /\ UNCHANGED review
    /\ OutsideRunner

\* The rubric version and the file set are there; otherwise Raise.
LoadInput(p) ==
    /\ At(p, "load")
    /\ Goto(p, "review_started")
    /\ UNCHANGED <<review, results, log>>
    /\ OutsideRunner

Event(p, type) == [type |-> type, run |-> run[p].num,
                   crit |-> IF type \in {"criterion_started", "criterion_completed"}
                            THEN run[p].crit ELSE 0]

\* The emit callback commits the event in a session of its own.
Emit(p, type) == log' = [log EXCEPT ![doing[p]] = Append(@, Event(p, type))]

EmitStarted(p) ==
    /\ At(p, "review_started")
    /\ Emit(p, "review_started")
    /\ Goto(p, "criterion_started")
    /\ UNCHANGED <<review, results>>
    /\ OutsideRunner

EmitCriterionStarted(p) ==
    /\ At(p, "criterion_started")
    /\ Emit(p, "criterion_started")
    /\ Goto(p, "grade")
    /\ UNCHANGED <<review, results>>
    /\ OutsideRunner

\* Grade one criterion, verify its evidence, flush and commit its result.
GradeCriterion(p) ==
    /\ At(p, "grade")
    /\ results[doing[p]][run[p].crit] = 0
    /\ results' = [results EXCEPT ![doing[p]][run[p].crit] = run[p].num]
    /\ Goto(p, "criterion_completed")
    /\ UNCHANGED <<review, log>>
    /\ OutsideRunner

\* Another run has a result for this criterion: the flush violates
\* uq_review_criterion, and the session must be rolled back before it is used.
GradeConflict(p) ==
    /\ At(p, "grade")
    /\ results[doing[p]][run[p].crit] # 0
    /\ run' = [run EXCEPT ![p].at = "handle", ![p].poisoned = TRUE]
    /\ UNCHANGED <<review, results, log>>
    /\ OutsideRunner

\* Seeded fault: the loop runs once too often.
EmitCriterionCompleted_OneMore(p) ==
    /\ At(p, "criterion_completed")
    /\ Emit(p, "criterion_completed")
    /\ run' = [run EXCEPT ![p].at   = IF run[p].crit <= NCriteria
                                      THEN "criterion_started" ELSE "decide",
                          ![p].crit = @ + 1]
    /\ UNCHANGED <<review, results>>
    /\ OutsideRunner

EmitCriterionCompleted(p) ==
    /\ At(p, "criterion_completed")
    /\ Emit(p, "criterion_completed")
    /\ run' = [run EXCEPT ![p].at   = IF run[p].crit < NCriteria
                                      THEN "criterion_started" ELSE "decide",
                          ![p].crit = IF @ < NCriteria THEN @ + 1 ELSE @]
    /\ UNCHANGED <<review, results>>
    /\ OutsideRunner

\* The decision is computed from the grades the run remembers, not from the
\* rows, and committed together with COMPLETED.
Decide(p) ==
    /\ At(p, "decide")
    /\ review' = [review EXCEPT ![doing[p]] = [status |-> "COMPLETED", decision |-> run[p].num]]
    /\ Goto(p, "decision_computed")
    /\ UNCHANGED <<results, log>>
    /\ OutsideRunner

EmitDecision(p) ==
    /\ At(p, "decision_computed")
    /\ Emit(p, "decision_computed")
    /\ Goto(p, "review_completed")
    /\ UNCHANGED <<review, results>>
    /\ OutsideRunner

EmitCompleted(p) ==
    /\ At(p, "review_completed")
    /\ Emit(p, "review_completed")
    /\ run' = [run EXCEPT ![p].at = "returned", ![p].ok = TRUE]
    /\ UNCHANGED <<review, results>>
    /\ OutsideRunner

EmitPlaces == {"review_started", "criterion_started", "criterion_completed",
               "decision_computed", "review_completed"}

\* Something inside the try raises with the session still usable: a missing
\* version or file set, the grading, the decision, or an emit whose own session
\* fails.  This may happen after COMPLETED was committed.
RaisePlaces == EmitPlaces \union {"load", "grade", "decide"}

Raise(p) ==
    /\ run[p].at \in RaisePlaces
    /\ faults < MaxFaults
    /\ faults' = faults + 1
    /\ Goto(p, "handle")
    /\ UNCHANGED <<qvars, review, results, log, post, badCommits>>

\* A commit or a query of the runner's session raises, the commit of the except branch
\* included; its changes are rolled back.
CommitPlaces == {"start", "clear", "load", "grade", "decide", "handle"}

RaiseInCommit(p) ==
    /\ run[p].at \in CommitPlaces
    /\ ~run[p].poisoned
    /\ badCommits < MaxBadCommits
    /\ badCommits' = badCommits + 1
    /\ run' = [run EXCEPT ![p].at = "handle", ![p].poisoned = TRUE]
    /\ UNCHANGED <<qvars, review, results, log, post, faults>>

\* Seeded fault: the except branch does not commit the failure.
RecordFailure_Uncommitted(p) ==
    /\ At(p, "handle")
    /\ ~run[p].poisoned
    /\ Goto(p, "review_failed")
    /\ UNCHANGED <<review, results, log>>
    /\ OutsideRunner

\* The except branch records the failure ...
RecordFailure(p) ==
    /\ At(p, "handle")
    /\ ~run[p].poisoned
    /\ review' = [review EXCEPT ![doing[p]].status = "FAILED"]
    /\ Goto(p, "review_failed")
    /\ UNCHANGED <<results, log>>
    /\ OutsideRunner

\* Seeded fault: the worker takes an escaped exception for a completed run.
FailureEscapes_AsSuccess(p) ==
    /\ At(p, "handle")
    /\ run[p].poisoned
    /\ run' = [run EXCEPT ![p].at = "returned", ![p].ok = TRUE]
    /\ UNCHANGED <<review, results, log>>
    /\ OutsideRunner

\* ... unless the session was left in a failed flush: the commit of the except
\* branch raises too, and run_review ends in an exception.
FailureEscapes(p) ==
    /\ At(p, "handle")
    /\ run[p].poisoned
    /\ Goto(p, "returned")
    /\ UNCHANGED <<review, results, log>>
    /\ OutsideRunner

EmitFailed(p) ==
    /\ At(p, "review_failed")
    /\ Emit(p, "review_failed")
    /\ Goto(p, "returned")
    /\ UNCHANGED <<review, results>>
    /\ OutsideRunner

\* The emit of the except branch itself raises: the exception escapes too.
RaiseInHandler(p) ==
    /\ At(p, "review_failed")
    /\ faults < MaxFaults
    /\ faults' = faults + 1
    /\ Goto(p, "returned")
    /\ UNCHANGED <<qvars, review, results, log, post, badCommits>>

-----------------------------------------------------------------------------
(* Worker.run_once after run_review, and the process around it.             *)

SettleRun(p) ==
    /\ At(p, "returned")
    /\ SettleLoad(p, run[p].ok)
    /\ run' = [run EXCEPT ![p] = NoRun]
    /\ UNCHANGED <<review, results, log, post, faults, badCommits>>

CrashAll(p) ==
    /\ Crash(p)
    /\ run' = [run EXCEPT ![p] = NoRun]
    /\ post' = [q \in Requests |-> IF Home[q] = p THEN NoPost ELSE post[q]]
    /\ UNCHANGED <<review, results, log, faults, badCommits>>

QueueStep ==
    /\ \/ \E p \in Procs : BootLoad(p) \/ BootStore(p) \/ SettleStore(p) \/ SettleLost(p)
       \/ Tick
    /\ UNCHANGED rvars

RunnerStep(p) ==
    \/ StartRun(p)               \/ ClearPrior(p)             \/ LoadInput(p)
    \/ EmitStarted(p)            \/ EmitCriterionStarted(p)   \/ GradeCriterion(p)
    \/ GradeConflict(p)          \/ EmitCriterionCompleted(p) \/ Decide(p)
    \/ EmitDecision(p)           \/ EmitCompleted(p)          \/ RecordFailure(p)
    \/ FailureEscapes(p)         \/ EmitFailed(p)

RequestStep(q) == PostInsert(q) \/ PostEnqueueLoad(q) \/ PostEnqueueStore(q)

PipelineNext ==
    \/ \E q \in Requests, r \in Reviews : PostRead(q, r)
    \/ \E q \in Requests : RequestStep(q)
    \/ \E p \in Procs, r \in Reviews : ClaimAndRun(p, r)
    \/ \E p \in Procs : RunnerStep(p)
    \/ \E p \in Procs : Raise(p) \/ RaiseInCommit(p) \/ RaiseInHandler(p)
    \/ \E p \in Procs : SettleRun(p) \/ CrashAll(p)
    \/ QueueStep

PipelineSpec == PipelineInit /\ [][PipelineNext]_vars

\* As in JobQueue; the runner's awaits return (model calls have timeouts).
PipelineFairness ==
    /\ \A q \in Requests : WF_vars(RequestStep(q))
    /\ \A p \in Procs :
         /\ WF_vars(BootLoad(p) /\ UNCHANGED rvars)
         /\ WF_vars(BootStore(p) /\ UNCHANGED rvars)
         /\ WF_vars(\E r \in Reviews : ClaimAndRun(p, r))
         /\ WF_vars(RunnerStep(p))
         /\ WF_vars(SettleRun(p))
         /\ WF_vars(SettleStore(p) /\ UNCHANGED rvars)
    /\ WF_vars(Tick /\ UNCHANGED rvars)

FairPipelineSpec == PipelineSpec /\ PipelineFairness
-----------------------------------------------------------------------------
(* Correctness.                                                             *)

RunPlaces == RaisePlaces \union CommitPlaces \union
             {"off", "review_failed", "returned"}
EventTypes == EmitPlaces \union {"review_failed"}

\* Types of the review, result and event tables, of the runs and the requests;
\* a run is in progress exactly while its worker runs the job, and a request
\* that reads the job row is past the review row.
PipelineTypeOK ==
    /\ TypeOK
    /\ review \in [Reviews -> [status : Statuses, decision : Nat]]
    /\ results \in [Reviews -> [Criteria -> Nat]]
    /\ \A r \in Reviews : \A i \in DOMAIN log[r] :
          log[r][i] \in [type : EventTypes, run : Nat \ {0}, crit : 0..NCriteria]
    /\ run \in [Procs -> [at : RunPlaces, num : Nat, crit : Criteria,
                          poisoned : BOOLEAN, ok : BOOLEAN]]
    /\ post \in [Requests -> [at : {"idle", "insert", "arm", "arming"},
                              review : Reviews \union {None}]]
    /\ faults \in 0..MaxFaults /\ badCommits \in 0..MaxBadCommits
    /\ \A p \in Procs : pc[p] = "running" <=> run[p].at # "off"
    /\ \A q \in Requests : req[q].at = "enqueue" <=> post[q].at = "arming"
    /\ \A r \in Reviews : job[r].state # "absent" => review[r].status # "absent"

\* A completed review shows a result for every criterion, all of them from the
\* very run whose decision it shows.  The decision is computed from the run's
\* memory, so nothing in Decide makes the rows agree with it.
ReportConsistent(r) ==
    review[r].status = "COMPLETED" => \A c \in Criteria : results[r][c] = review[r].decision

\* A settled job tells the truth about its review: done only for a completed
\* review, failed only for a review recorded as failed.  Job and review are
\* written by different transactions of different components.
SettledAgrees(r) ==
    /\ job[r].state = "done" => review[r].status = "COMPLETED"
    /\ job[r].state = "failed" => review[r].status = "FAILED"

\* The events of a complete run n, in order.
RunEvent(type, n, c) == [type |-> type, run |-> n, crit |-> c]
FullLog(n) ==
    LET half == [i \in 1..(2 * NCriteria) |->
                   RunEvent(IF i % 2 = 1 THEN "criterion_started" ELSE "criterion_completed",
                            n, (i + 1) \div 2)]
    IN  <<RunEvent("review_started", n, 0)>> \o half \o
        <<RunEvent("decision_computed", n, 0), RunEvent("review_completed", n, 0)>>

UpTo(s, k) == SubSeq(s, 1, k)

\* The event log replays exactly one run: the events of one run in order, cut
\* short where that run stopped, with review_failed at the end if it failed.
LogReplaysOneRun(r) ==
    \A n \in {log[r][i].run : i \in DOMAIN log[r]} :
        \E k \in 0..Len(FullLog(n)) :
            log[r] \in {UpTo(FullLog(n), k),
                       Append(UpTo(FullLog(n), k), RunEvent("review_failed", n, 0))}

\* A done job's log is the complete log of the run that took the decision.
DoneHasFullLog(r) == job[r].state = "done" => log[r] = FullLog(review[r].decision)

\* Report, job and log of every review agree, in the deployment the project
\* ships: one process with one worker, whatever crashes, retries and requests.
ReviewsSound ==
    \A r \in Reviews : ReportConsistent(r) /\ SettledAgrees(r)
LogsSound ==
    \A r \in Reviews : LogReplaysOneRun(r) /\ DoneHasFullLog(r)

\* With several processes the same holds of every review whose job row nobody
\* touched from outside its run, even when commits of the runner raise: the
\* lease alone serialises its runs.  (A failed job may then leave its review
\* RUNNING: see FailureRecorded.)
UntouchedSound ==
    \A r \in Reviews : rearms[r] = 0 =>
        /\ ReportConsistent(r)
        /\ job[r].state = "done" => review[r].status = "COMPLETED"
        /\ LogReplaysOneRun(r)
        /\ DoneHasFullLog(r)

\* Whatever the overlap, a job is never marked done for a review no run of which
\* ever committed a decision.
DoneHasDecision ==
    \A r \in Reviews : job[r].state = "done" => review[r].decision # 0

\* Every review that is accepted is settled: its job done or given up, and its
\* status final.
EveryReviewSettles ==
    \A r \in Reviews : review[r].status = "QUEUED" ~>
        /\ job[r].state \in {"done", "failed"}
        /\ review[r].status \in {"COMPLETED", "FAILED"}

\* "record failure, never crash the worker" (engine/runner.py): a job that was
\* given up, with no run or settlement of it left, has its review marked failed
\* or completed, never left running.
FailureRecorded ==
    \A r \in Reviews : job[r].state = "failed" /\ Busy(r) = {} =>
                        review[r].status # "RUNNING"

=============================================================================
