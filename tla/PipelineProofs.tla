--------------------------- MODULE PipelineProofs ---------------------------
(***************************************************************************)
(* Theorems about a review on its way from the POST to its decision, for   *)
(* any number of processes, requests, reviews and criteria, any attempt    *)
(* limit and any bound on the faults.                                      *)
(***************************************************************************)
EXTENDS ReviewPipeline, JobQueueProofs, SequenceTheorems

Rows   == [status : Statuses, decision : Nat]
Runs   == [at : RunPlaces, num : Nat, crit : Criteria, poisoned : BOOLEAN, ok : BOOLEAN]
Posts  == [at : {"idle", "insert", "arm", "arming"}, review : Reviews \union {None}]
Events == [type : EventTypes, run : Nat \ {0}, crit : 0..NCriteria]

\* The tables, the runs and the requests have their types.
Tables ==
    /\ review \in [Reviews -> Rows]
    /\ results \in [Reviews -> [Criteria -> Nat]]
    /\ log \in [Reviews -> Seq(Events)]
    /\ run \in [Procs -> Runs]
    /\ post \in [Requests -> Posts]
    /\ faults \in 0..MaxFaults /\ badCommits \in 0..MaxBadCommits

\* A run is in progress exactly while its worker runs the job, and knows the
\* number of its claim.
RunsLinked ==
    \A p \in Procs : /\ pc[p] = "running" <=> run[p].at # "off"
                     /\ run[p].at # "off" => run[p].num # 0

\* A request that got past the review row has one, and reads the job row of the
\* review it is about.
PostsLinked ==
    \A q \in Requests :
        /\ post[q].at # "idle" => post[q].review \in Reviews
        /\ post[q].at \in {"arm", "arming"} => review[post[q].review].status # "absent"
        /\ post[q].at = "arming" => req[q].review = post[q].review
        /\ req[q].at = "enqueue" <=> post[q].at = "arming"

JobsReviewed == \A r \in Reviews : job[r].state # "absent" => review[r].status # "absent"

\* The inductive form of PipelineTypeOK.
Typed == TypeOK /\ Tables /\ RunsLinked /\ PostsLinked /\ JobsReviewed

LEMMA PlaceNames ==
  /\ RunPlaces = {"off", "start", "clear", "load", "review_started", "criterion_started",
                  "grade", "criterion_completed", "decide", "decision_computed",
                  "review_completed", "handle", "review_failed", "returned"}
  /\ EventTypes = {"review_started", "criterion_started", "criterion_completed",
                   "decision_computed", "review_completed", "review_failed"}
  /\ 1 \in Criteria /\ NCriteria \in Criteria
<1> QED  BY CriteriaAssumption DEF RunPlaces, RaisePlaces, EmitPlaces, CommitPlaces, EventTypes, Criteria

LEMMA EmptyRecords ==
  /\ NoRun \in Runs /\ NoRun.at = "off" /\ NoRun.crit = 1 /\ NoRun.ok = FALSE
  /\ NoRun.poisoned = FALSE
  /\ NoPost \in Posts /\ NoPost.at = "idle"
  /\ NoResults \in [Criteria -> Nat] /\ \A c \in Criteria : NoResults[c] = 0
<1> QED  BY PlaceNames DEF NoRun, Runs, NoPost, Posts, NoResults

LEMMA TypedInit == PipelineInit => Typed
<1> SUFFICES ASSUME PipelineInit PROVE Typed
  OBVIOUS
<1>1. TypeOK  BY TypeInit DEF PipelineInit
<1>2. Tables
  <2>1. [status |-> "absent", decision |-> 0] \in Rows  BY DEF Rows, Statuses
  <2>2. <<>> \in Seq(Events)  OBVIOUS
  <2> QED  BY <2>1, <2>2, EmptyRecords, FaultsAssumption DEF PipelineInit, Tables
<1>3. RunsLinked  BY EmptyRecords DEF PipelineInit, Init, RunsLinked
<1>4. PostsLinked  BY EmptyRecords DEF PipelineInit, Init, PostsLinked, NoReq
<1>5. JobsReviewed  BY DEF PipelineInit, Init, JobsReviewed, NoJob
<1> QED  BY <1>1, <1>2, <1>3, <1>4, <1>5 DEF Typed

-----------------------------------------------------------------------------
(* The pipeline drives the queue: every step of it is a step of the queue   *)
(* or leaves the queue alone.                                               *)

QueueUntouched == UNCHANGED <<qvars, post>>

\* A step of the runner of process p, an exception included.
RunnerAct(p) == RunnerStep(p) \/ Raise(p) \/ RaiseInCommit(p) \/ RaiseInHandler(p)

LEMMA RunnerLeavesQueue ==
  ASSUME NEW p, RunnerAct(p)
  PROVE  QueueUntouched
<1>1. CASE RunnerStep(p)
  BY <1>1 DEF RunnerStep, OutsideRunner, QueueUntouched, StartRun, ClearPrior, LoadInput, EmitStarted,
       EmitCriterionStarted, GradeCriterion, GradeConflict, EmitCriterionCompleted, Decide,
       EmitDecision, EmitCompleted, RecordFailure, FailureEscapes, EmitFailed
<1>2. CASE Raise(p) \/ RaiseInCommit(p) \/ RaiseInHandler(p)
  BY <1>2 DEF Raise, RaiseInCommit, RaiseInHandler, QueueUntouched
<1> QED  BY <1>1, <1>2 DEF RunnerAct

LEMMA QueueStepInPipeline == Typed /\ [PipelineNext]_vars => [Next]_qvars
<1> SUFFICES ASSUME Typed, [PipelineNext]_vars PROVE Next \/ UNCHANGED qvars
  OBVIOUS
<1>1. ASSUME NEW q \in Requests, NEW r \in Reviews, PostRead(q, r) PROVE UNCHANGED qvars
  BY <1>1 DEF PostRead
<1>2. ASSUME NEW q \in Requests, RequestStep(q) PROVE Next \/ UNCHANGED qvars
  <2>1. CASE PostInsert(q)
    BY <2>1 DEF PostInsert
  <2>2. CASE PostEnqueueLoad(q)
    <3>1. post[q].review \in Reviews  BY <2>2 DEF PostEnqueueLoad, Typed, PostsLinked
    <3> QED  BY <2>2, <3>1 DEF PostEnqueueLoad, Next
  <2>3. CASE PostEnqueueStore(q)
    BY <2>3 DEF PostEnqueueStore, Next
  <2> QED  BY <1>2, <2>1, <2>2, <2>3 DEF RequestStep
<1>3. ASSUME NEW p \in Procs, NEW r \in Reviews, ClaimAndRun(p, r) PROVE Next
  BY <1>3 DEF ClaimAndRun, Next
<1>4. ASSUME NEW p \in Procs, RunnerAct(p) PROVE UNCHANGED qvars
  BY <1>4, RunnerLeavesQueue DEF QueueUntouched
<1>5. ASSUME NEW p \in Procs, SettleRun(p) \/ CrashAll(p) PROVE Next
  <2>1. run[p].ok \in BOOLEAN  BY DEF Typed, Tables, Runs
  <2> QED  BY <1>5, <2>1 DEF SettleRun, CrashAll, Next
<1>6. ASSUME QueueStep PROVE Next
  BY <1>6 DEF QueueStep, Next
<1>7. ASSUME UNCHANGED vars PROVE UNCHANGED qvars
  BY <1>7 DEF vars
<1> QED
  BY <1>1, <1>2, <1>3, <1>4, <1>5, <1>6, <1>7 DEF PipelineNext, RunnerAct

-----------------------------------------------------------------------------
(* What one step of a runner may change: its own run, and the rows of the   *)
(* review it holds.                                                         *)

RunnerTouches(p) ==
    /\ run[p].at # "off" /\ doing[p] \in Reviews
    /\ review[doing[p]].status # "absent"
    /\ Tables'
    /\ \A w \in Procs \ {p} : run'[w] = run[w]
    /\ run'[p].at # "off" /\ run'[p].num = run[p].num
    /\ \A r \in Reviews \ {doing[p]} :
          review'[r] = review[r] /\ results'[r] = results[r] /\ log'[r] = log[r]
    /\ review'[doing[p]].status # "absent"

LEMMA RunnerHolds ==
  ASSUME Typed, NEW p \in Procs, run[p].at # "off"
  PROVE  /\ pc[p] = "running" /\ doing[p] \in Reviews
         /\ review[doing[p]] \in Rows /\ review[doing[p]].status # "absent"
         /\ results[doing[p]] \in [Criteria -> Nat] /\ log[doing[p]] \in Seq(Events)
         /\ run[p] \in Runs /\ run[p].num \in Nat \ {0} /\ run[p].crit \in Criteria
<1>1. pc[p] = "running" /\ run[p].num # 0  BY DEF Typed, RunsLinked
<1>2. doing[p] \in Reviews /\ doing[p] \in Enqueued  BY <1>1 DEF Typed, TypeOK
<1>3. review[doing[p]].status # "absent"  BY <1>2 DEF Typed, JobsReviewed, Enqueued
<1> QED  BY <1>1, <1>2, <1>3 DEF Typed, Tables, Runs

LEMMA EventTyped ==
  ASSUME Typed, NEW p \in Procs, run[p].at # "off", NEW type \in EventTypes
  PROVE  Event(p, type) \in Events
<1>1. run[p].num \in Nat \ {0} /\ run[p].crit \in Criteria  BY RunnerHolds
<1>2. run[p].crit \in 0..NCriteria /\ 0 \in 0..NCriteria
  BY <1>1, CriteriaAssumption DEF Criteria
<1> QED  BY <1>1, <1>2 DEF Event, Events

\* The two ways a runner writes: an emit, and everything else.
LEMMA EmitTouches ==
  ASSUME Typed, NEW p \in Procs, run[p].at # "off", NEW type \in EventTypes, Emit(p, type),
         run' \in [Procs -> Runs], \A w \in Procs \ {p} : run'[w] = run[w],
         run'[p].at # "off", run'[p].num = run[p].num,
         UNCHANGED <<review, results>>, OutsideRunner
  PROVE  RunnerTouches(p)
<1>1. log \in [Reviews -> Seq(Events)] /\ doing[p] \in Reviews /\ Event(p, type) \in Events
  BY RunnerHolds, EventTyped DEF Typed, Tables
<1>2. log' \in [Reviews -> Seq(Events)] /\ \A r \in Reviews \ {doing[p]} : log'[r] = log[r]
  BY <1>1 DEF Emit
<1> QED  BY <1>1, <1>2, RunnerHolds DEF RunnerTouches, OutsideRunner, Typed, Tables

LEMMA QuietTouches ==
  ASSUME Typed, NEW p \in Procs, run[p].at # "off",
         run' \in [Procs -> Runs], \A w \in Procs \ {p} : run'[w] = run[w],
         run'[p].at # "off", run'[p].num = run[p].num,
         review' \in [Reviews -> Rows], results' \in [Reviews -> [Criteria -> Nat]],
         log' \in [Reviews -> Seq(Events)],
         \A r \in Reviews \ {doing[p]} :
            review'[r] = review[r] /\ results'[r] = results[r] /\ log'[r] = log[r],
         review'[doing[p]].status # "absent",
         faults' \in 0..MaxFaults, badCommits' \in 0..MaxBadCommits, UNCHANGED post
  PROVE  RunnerTouches(p)
<1> QED  BY RunnerHolds DEF RunnerTouches, Typed, Tables

LEMMA RunnerStepTouches ==
  ASSUME Typed, NEW p \in Procs, RunnerAct(p)
  PROVE  RunnerTouches(p)
<1> USE PlaceNames
<1>a. run[p].at # "off"
  BY DEF RunnerAct, RunnerStep, At, StartRun, ClearPrior, LoadInput, EmitStarted,
       EmitCriterionStarted, GradeCriterion, GradeConflict, EmitCriterionCompleted, Decide,
       EmitDecision, EmitCompleted, RecordFailure, FailureEscapes, EmitFailed,
       Raise, RaiseInCommit, RaiseInHandler, RaisePlaces, EmitPlaces, CommitPlaces
<1>b. /\ doing[p] \in Reviews /\ run[p] \in Runs /\ review[doing[p]] \in Rows
      /\ review[doing[p]].status # "absent"
      /\ run[p].num \in Nat \ {0} /\ run[p].crit \in Criteria
      /\ run \in [Procs -> Runs] /\ review \in [Reviews -> Rows]
      /\ results \in [Reviews -> [Criteria -> Nat]] /\ log \in [Reviews -> Seq(Events)]
      /\ faults \in 0..MaxFaults /\ badCommits \in 0..MaxBadCommits
  BY <1>a, RunnerHolds DEF Typed, Tables
<1>g. ASSUME NEW place \in RunPlaces \ {"off"}, Goto(p, place)
      PROVE  /\ run' \in [Procs -> Runs] /\ \A w \in Procs \ {p} : run'[w] = run[w]
             /\ run'[p].at # "off" /\ run'[p].num = run[p].num
  BY <1>b, <1>g DEF Goto, Runs
<1>h. ASSUME run' = [run EXCEPT ![p].at = "handle", ![p].poisoned = TRUE]
      PROVE  /\ run' \in [Procs -> Runs] /\ \A w \in Procs \ {p} : run'[w] = run[w]
             /\ run'[p].at # "off" /\ run'[p].num = run[p].num
  BY <1>b, <1>h DEF Runs
<1>s. ASSUME NEW s \in Statuses \ {"absent"}, review' = [review EXCEPT ![doing[p]].status = s]
      PROVE  /\ review' \in [Reviews -> Rows] /\ review'[doing[p]].status # "absent"
             /\ \A r \in Reviews \ {doing[p]} : review'[r] = review[r]
  BY <1>b, <1>s DEF Rows
<1>n. {"RUNNING", "COMPLETED", "FAILED"} \subseteq Statuses \ {"absent"}  BY DEF Statuses
<1>1. CASE StartRun(p)
  BY <1>1, <1>a, <1>b, <1>g, <1>s, <1>n, QuietTouches DEF StartRun, OutsideRunner
<1>2. CASE ClearPrior(p)
  <2>1. /\ results' \in [Reviews -> [Criteria -> Nat]] /\ log' \in [Reviews -> Seq(Events)]
        /\ \A r \in Reviews \ {doing[p]} : results'[r] = results[r] /\ log'[r] = log[r]
    BY <1>2, <1>b, EmptyRecords DEF ClearPrior
  <2> QED  BY <1>2, <2>1, <1>a, <1>b, <1>g, QuietTouches DEF ClearPrior, OutsideRunner
<1>3. CASE LoadInput(p)
  BY <1>3, <1>a, <1>b, <1>g, QuietTouches DEF LoadInput, OutsideRunner
<1>4. CASE EmitStarted(p)
  BY <1>4, <1>a, <1>g, EmitTouches DEF EmitStarted
<1>5. CASE EmitCriterionStarted(p)
  BY <1>5, <1>a, <1>g, EmitTouches DEF EmitCriterionStarted
<1>6. CASE GradeCriterion(p)
  <2>1. /\ results' \in [Reviews -> [Criteria -> Nat]]
        /\ \A r \in Reviews \ {doing[p]} : results'[r] = results[r]
    BY <1>6, <1>b DEF GradeCriterion
  <2> QED  BY <1>6, <2>1, <1>a, <1>b, <1>g, QuietTouches DEF GradeCriterion, OutsideRunner
<1>7. CASE GradeConflict(p)
  BY <1>7, <1>a, <1>b, <1>h, QuietTouches DEF GradeConflict, OutsideRunner
<1>8. CASE EmitCriterionCompleted(p)
  <2>1. (IF run[p].crit < NCriteria THEN run[p].crit + 1 ELSE run[p].crit) \in Criteria
    BY <1>b, CriteriaAssumption DEF Criteria
  <2>2. /\ run' \in [Procs -> Runs] /\ \A w \in Procs \ {p} : run'[w] = run[w]
        /\ run'[p].at # "off" /\ run'[p].num = run[p].num
    BY <1>8, <1>b, <2>1 DEF EmitCriterionCompleted, Runs
  <2> QED  BY <1>8, <2>2, <1>a, EmitTouches DEF EmitCriterionCompleted
<1>9. CASE Decide(p)
  <2>1. [status |-> "COMPLETED", decision |-> run[p].num] \in Rows
    BY <1>b, <1>n DEF Rows
  <2>2. /\ review' \in [Reviews -> Rows] /\ review'[doing[p]].status # "absent"
        /\ \A r \in Reviews \ {doing[p]} : review'[r] = review[r]
    BY <1>9, <1>b, <2>1 DEF Decide
  <2> QED  BY <1>9, <2>2, <1>a, <1>b, <1>g, QuietTouches DEF Decide, OutsideRunner
<1>10. CASE EmitDecision(p)
  BY <1>10, <1>a, <1>g, EmitTouches DEF EmitDecision
<1>11. CASE EmitCompleted(p)
  <2>1. /\ run' \in [Procs -> Runs] /\ \A w \in Procs \ {p} : run'[w] = run[w]
        /\ run'[p].at # "off" /\ run'[p].num = run[p].num
    BY <1>11, <1>b DEF EmitCompleted, Runs
  <2> QED  BY <1>11, <2>1, <1>a, EmitTouches DEF EmitCompleted
<1>12. CASE RecordFailure(p)
  BY <1>12, <1>a, <1>b, <1>g, <1>s, <1>n, QuietTouches DEF RecordFailure, OutsideRunner
<1>13. CASE FailureEscapes(p)
  BY <1>13, <1>a, <1>b, <1>g, QuietTouches DEF FailureEscapes, OutsideRunner
<1>14. CASE EmitFailed(p)
  BY <1>14, <1>a, <1>g, EmitTouches DEF EmitFailed
<1>15. CASE Raise(p)
  <2>1. faults' \in 0..MaxFaults  BY <1>15, <1>b, FaultsAssumption DEF Raise
  <2> QED  BY <1>15, <2>1, <1>a, <1>b, <1>g, QuietTouches DEF Raise
<1>16. CASE RaiseInCommit(p)
  <2>1. badCommits' \in 0..MaxBadCommits  BY <1>16, <1>b, FaultsAssumption DEF RaiseInCommit
  <2> QED  BY <1>16, <2>1, <1>a, <1>b, <1>h, QuietTouches DEF RaiseInCommit
<1>17. CASE RaiseInHandler(p)
  <2>1. faults' \in 0..MaxFaults  BY <1>17, <1>b, FaultsAssumption DEF RaiseInHandler
  <2> QED  BY <1>17, <2>1, <1>a, <1>b, <1>g, QuietTouches DEF RaiseInHandler
<1> QED
  BY <1>1, <1>2, <1>3, <1>4, <1>5, <1>6, <1>7, <1>8, <1>9, <1>10, <1>11, <1>12, <1>13, <1>14,
     <1>15, <1>16, <1>17 DEF RunnerAct, RunnerStep

-----------------------------------------------------------------------------
(* The types.                                                               *)

LEMMA TypedRunner ==
  ASSUME Typed, TypeOK', NEW p \in Procs, RunnerAct(p)
  PROVE  Typed'
<1>1. QueueUntouched /\ RunnerTouches(p)  BY RunnerLeavesQueue, RunnerStepTouches
<1>2. \A r \in Reviews : review[r].status # "absent" => review'[r].status # "absent"
  BY <1>1 DEF RunnerTouches
<1>3. RunsLinked'
  <2>1. run[p].at # "off" /\ run'[p].at # "off" /\ run'[p].num = run[p].num
    BY <1>1 DEF RunnerTouches
  <2>2. \A w \in Procs \ {p} : run'[w] = run[w]  BY <1>1 DEF RunnerTouches
  <2>3. pc' = pc  BY <1>1 DEF QueueUntouched, qvars
  <2> QED  BY <2>1, <2>2, <2>3 DEF RunsLinked, Typed
<1>4. PostsLinked' /\ JobsReviewed'
  BY <1>1, <1>2 DEF QueueUntouched, qvars, Typed, PostsLinked, JobsReviewed
<1> QED  BY <1>1, <1>3, <1>4 DEF RunnerTouches, Typed

LEMMA TypedPost ==
  ASSUME Typed, TypeOK', NEW q \in Requests,
         RequestStep(q) \/ \E r \in Reviews : PostRead(q, r)
  PROVE  Typed'
<1> USE DEF Typed
<1>0. post \in [Requests -> Posts] /\ post[q] \in Posts  BY DEF Tables
<1>1. ASSUME NEW r \in Reviews, PostRead(q, r) PROVE Typed'
  <2>1. /\ post' \in [Requests -> Posts] /\ \A x \in Requests \ {q} : post'[x] = post[x]
        /\ post'[q].review = r /\ post'[q].at \in {"insert", "arm"}
        /\ post'[q].at = "arm" => review[r].status # "absent"
    BY <1>0, <1>1 DEF PostRead, Posts
  <2>2. req[q].at # "enqueue"  BY <1>1 DEF PostRead, PostsLinked
  <2>3. UNCHANGED <<qvars, review>>  BY <1>1 DEF PostRead
  <2>4. Tables'  BY <1>1, <2>1 DEF PostRead, Tables
  <2>5. RunsLinked'  BY <1>1 DEF PostRead, qvars, RunsLinked
  <2>6. PostsLinked'  BY <2>1, <2>2, <2>3 DEF PostsLinked, qvars
  <2>7. JobsReviewed'  BY <2>3 DEF JobsReviewed, qvars
  <2> QED  BY <2>4, <2>5, <2>6, <2>7
<1>2. CASE PostInsert(q)
  <2> DEFINE r == post[q].review
  <2>1. r \in Reviews /\ UNCHANGED qvars  BY <1>2 DEF PostInsert, PostsLinked
  <2>2. /\ review' \in [Reviews -> Rows]
        /\ \A s \in Reviews : review[s].status # "absent" => review'[s].status # "absent"
    <3>1. CASE review' = [review EXCEPT ![r].status = "QUEUED"]
      <4>1. review \in [Reviews -> Rows] /\ "QUEUED" \in Statuses \ {"absent"}
        BY DEF Tables, Statuses
      <4> QED  BY <2>1, <3>1, <4>1 DEF Rows
    <3>2. CASE UNCHANGED review
      BY <3>2 DEF Tables
    <3> QED  BY <1>2, <3>1, <3>2 DEF PostInsert
  <2>3. /\ post' \in [Requests -> Posts] /\ \A x \in Requests \ {q} : post'[x] = post[x]
        /\ \/ post'[q].at = "idle"
           \/ post'[q].at = "arm" /\ post'[q].review = r /\ review'[r].status # "absent"
    <3>1. CASE review' = [review EXCEPT ![r].status = "QUEUED"] /\ post' = [post EXCEPT ![q].at = "arm"]
      BY <1>0, <2>1, <3>1 DEF Posts, Tables, Rows
    <3>2. CASE post' = [post EXCEPT ![q] = NoPost]
      BY <1>0, <3>2, EmptyRecords
    <3> QED  BY <1>2, <3>1, <3>2 DEF PostInsert
  <2>4. Tables'  BY <1>2, <2>2, <2>3 DEF PostInsert, Tables
  <2>5. RunsLinked'  BY <1>2 DEF PostInsert, qvars, RunsLinked
  <2>6. req[q].at # "enqueue"  BY <1>2 DEF PostInsert, PostsLinked
  <2>7. PostsLinked'
    <3> HIDE DEF r
    <3> QED  BY <2>1, <2>2, <2>3, <2>6 DEF PostsLinked, qvars, r
  <2>8. JobsReviewed'  BY <2>1, <2>2 DEF JobsReviewed, qvars
  <2> QED  BY <2>4, <2>5, <2>7, <2>8
<1>3. CASE PostEnqueueLoad(q)
  <2>1. /\ post' \in [Requests -> Posts] /\ \A x \in Requests \ {q} : post'[x] = post[x]
        /\ post'[q].at = "arming" /\ post'[q].review = post[q].review
    BY <1>0, <1>3 DEF PostEnqueueLoad, Posts
  <2>2. post[q].at = "arm" /\ UNCHANGED <<job, pc, review>>
    BY <1>3 DEF PostEnqueueLoad, EnqueueLoad
  <2>3. /\ req'[q].at = "enqueue" /\ req'[q].review = post[q].review
        /\ \A x \in Requests \ {q} : req'[x] = req[x]
    BY <1>3 DEF PostEnqueueLoad, EnqueueLoad, TypeOK
  <2>4. Tables'  BY <1>3, <2>1 DEF PostEnqueueLoad, Tables
  <2>5. RunsLinked'  BY <1>3, <2>2 DEF PostEnqueueLoad, RunsLinked
  <2>6. PostsLinked'  BY <2>1, <2>2, <2>3 DEF PostsLinked
  <2>7. JobsReviewed'  BY <2>2 DEF JobsReviewed
  <2> QED  BY <2>4, <2>5, <2>6, <2>7
<1>4. CASE PostEnqueueStore(q)
  <2>0. EnqueueStore(q) /\ UNCHANGED <<review, results, log, run, faults, badCommits>>
    BY <1>4 DEF PostEnqueueStore
  <2>1. /\ post' \in [Requests -> Posts] /\ \A x \in Requests \ {q} : post'[x] = post[x]
        /\ post'[q].at = "idle"
    BY <1>0, <1>4, EmptyRecords DEF PostEnqueueStore
  <2>2. req'[q].at = "idle" /\ \A x \in Requests \ {q} : req'[x] = req[x]
    BY <2>0 DEF EnqueueStore, TypeOK, NoReq
  <2>3. pc' = pc  BY <2>0 DEF EnqueueStore
  <2>4. Tables'  BY <2>0, <2>1 DEF Tables
  <2>5. RunsLinked'  BY <2>0, <2>3 DEF RunsLinked
  <2>6. PostsLinked'  BY <2>0, <2>1, <2>2 DEF PostsLinked
  <2>7. review[req[q].review].status # "absent"
    <3>1. req[q].at = "enqueue"  BY <2>0 DEF EnqueueStore
    <3> QED  BY <3>1 DEF PostsLinked
  <2>8. JobsReviewed'  BY <2>0, <2>7, StateAfterEnqueue DEF JobsReviewed
  <2> QED  BY <2>4, <2>5, <2>6, <2>8
<1> QED  BY <1>1, <1>2, <1>3, <1>4 DEF RequestStep

LEMMA TypedWorker ==
  ASSUME Typed, TypeOK', NEW p \in Procs,
         SettleRun(p) \/ CrashAll(p) \/ \E r \in Reviews : ClaimAndRun(p, r)
  PROVE  Typed'
<1> USE DEF Typed
<1>0. run \in [Procs -> Runs]  BY DEF Tables
<1>1. ASSUME NEW s \in Reviews, ClaimAndRun(p, s) PROVE Typed'
  <2>0. Claim(p, s) /\ UNCHANGED <<review, results, log, post, faults, badCommits, req>>
    BY <1>1 DEF ClaimAndRun, Claim
  <2>1. job'[s].attempts \in Nat \ {0}  BY <2>0, StateAfterClaim
  <2>2. /\ run' \in [Procs -> Runs] /\ \A w \in Procs \ {p} : run'[w] = run[w]
        /\ run'[p].at # "off" /\ run'[p].num # 0
    <3>1. [NoRun EXCEPT !.at = "start", !.num = job'[s].attempts] \in Runs
      BY <2>1, PlaceNames DEF NoRun, Runs
    <3> QED  BY <1>0, <1>1, <2>1, <3>1 DEF ClaimAndRun, NoRun
  <2>3. pc'[p] = "running" /\ \A w \in Procs \ {p} : pc'[w] = pc[w]
    BY <2>0 DEF Claim, TypeOK
  <2>4. Tables'  BY <2>0, <2>2 DEF Tables
  <2>5. RunsLinked'  BY <2>2, <2>3 DEF RunsLinked
  <2>6. PostsLinked'  BY <2>0 DEF PostsLinked
  <2>7. JobsReviewed'
    <3>1. \A r \in Reviews : job'[r].state # "absent" => job[r].state # "absent"
      BY <2>0, StateAfterClaim
    <3> QED  BY <2>0, <3>1 DEF JobsReviewed
  <2> QED  BY <2>4, <2>5, <2>6, <2>7
<1>2. CASE SettleRun(p)
  <2>0. /\ SettleLoad(p, run[p].ok) /\ UNCHANGED <<review, results, log, post, faults, badCommits>>
        /\ UNCHANGED <<job, req>>
    BY <1>2 DEF SettleRun, SettleLoad
  <2>1. /\ run' \in [Procs -> Runs] /\ \A w \in Procs \ {p} : run'[w] = run[w]
        /\ run'[p].at = "off"
    BY <1>0, <1>2, EmptyRecords DEF SettleRun
  <2>2. pc'[p] = "settling" /\ \A w \in Procs \ {p} : pc'[w] = pc[w]
    BY <2>0 DEF SettleLoad, TypeOK
  <2>3. Tables'  BY <2>0, <2>1 DEF Tables
  <2>4. RunsLinked'  BY <2>1, <2>2 DEF RunsLinked
  <2>5. PostsLinked' /\ JobsReviewed'  BY <2>0 DEF PostsLinked, JobsReviewed
  <2> QED  BY <2>3, <2>4, <2>5
<1>3. CASE CrashAll(p)
  <2>0. Crash(p) /\ UNCHANGED <<review, results, log, faults, badCommits, job>>
    BY <1>3 DEF CrashAll, Crash
  <2>1. /\ run' \in [Procs -> Runs] /\ \A w \in Procs \ {p} : run'[w] = run[w]
        /\ run'[p].at = "off"
    BY <1>0, <1>3, EmptyRecords DEF CrashAll
  <2>2. pc'[p] = "down" /\ \A w \in Procs \ {p} : pc'[w] = pc[w]
    BY <2>0 DEF Crash, TypeOK
  <2>3. /\ post' \in [Requests -> Posts]
        /\ \A q \in Requests :
              \/ post'[q] = post[q] /\ req'[q] = req[q]
              \/ post'[q] = NoPost /\ req'[q] = NoReq
    BY <1>3, <2>0, EmptyRecords DEF CrashAll, Crash, Tables
  <2>4. Tables'  BY <2>0, <2>1, <2>3 DEF Tables
  <2>5. RunsLinked'  BY <2>1, <2>2 DEF RunsLinked
  <2>6. PostsLinked'
    <3>1. NoPost.at = "idle" /\ NoReq.at = "idle"  BY DEF NoPost, NoReq
    <3> QED  BY <2>0, <2>3, <3>1 DEF PostsLinked
  <2>7. JobsReviewed'  BY <2>0 DEF JobsReviewed
  <2> QED  BY <2>4, <2>5, <2>6, <2>7
<1> QED  BY <1>1, <1>2, <1>3

LEMMA TypedQueue ==
  ASSUME Typed, TypeOK', QueueStep
  PROVE  Typed'
<1> USE DEF Typed
<1>1. UNCHANGED <<review, results, log, run, post, faults, badCommits>>
  BY DEF QueueStep, rvars
<1>2. req' = req /\ \A w \in Procs : pc'[w] = "running" <=> pc[w] = "running"
  BY DEF QueueStep, BootLoad, BootStore, SettleStore, SettleLost, Tick, TypeOK
<1>3. \A r \in Reviews : job'[r].state # "absent" => job[r].state # "absent"
  <2> TAKE r \in Reviews
  <2>1. ASSUME NEW p \in Procs, BootLoad(p) PROVE job' = job
    BY <2>1 DEF BootLoad
  <2>2. ASSUME NEW p \in Procs, SettleLost(p) PROVE job' = job
    BY <2>2 DEF SettleLost
  <2> QED
    BY <2>1, <2>2, StateAfterBoot, StateAfterSettle, StateAfterTick DEF QueueStep
<1>4. Tables'  BY <1>1 DEF Tables
<1>5. RunsLinked'  BY <1>1, <1>2 DEF RunsLinked
<1>6. PostsLinked' /\ JobsReviewed'  BY <1>1, <1>2, <1>3 DEF PostsLinked, JobsReviewed
<1> QED  BY <1>4, <1>5, <1>6

LEMMA TypedStep == Typed /\ [PipelineNext]_vars => Typed'
<1> SUFFICES ASSUME Typed, [PipelineNext]_vars PROVE Typed'
  OBVIOUS
<1>1. TypeOK'  BY QueueStepInPipeline, TypeStep DEF Typed
<1>2. CASE UNCHANGED vars
  BY <1>1, <1>2 DEF vars, rvars, qvars, Typed, Tables, RunsLinked, PostsLinked, JobsReviewed
<1> QED
  BY <1>1, <1>2, TypedRunner, TypedPost, TypedWorker, TypedQueue DEF PipelineNext, RunnerAct

LEMMA TypedAlways == PipelineSpec => []Typed
<1> QED  BY TypedInit, TypedStep, PTL DEF PipelineSpec

\* Every variable of the pipeline keeps its type; a run is in progress exactly
\* while its worker runs the job, a request that reads the job row is past the
\* review row, and no job is without its review.
THEOREM PipelineTypeCorrect == PipelineSpec => []PipelineTypeOK
<1>1. Typed => PipelineTypeOK
  <2> SUFFICES ASSUME Typed PROVE PipelineTypeOK
    OBVIOUS
  <2>1. ASSUME NEW r \in Reviews, NEW i \in DOMAIN log[r] PROVE log[r][i] \in Events
    BY DEF Typed, Tables
  <2> QED
    BY <2>1 DEF Typed, Tables, RunsLinked, PostsLinked, JobsReviewed, PipelineTypeOK, Rows, Runs,
         Posts, Events
<1> QED  BY <1>1, TypedAlways, PTL

\* The pipeline implements the queue it drives: seen through the queue's
\* variables, every behaviour of posts, runs and workers is a behaviour of the
\* queue specification, so every theorem about the queue holds of the pipeline.
THEOREM PipelineImplementsQueue == PipelineSpec => Spec
<1>1. PipelineInit => Init  BY DEF PipelineInit
<1> QED  BY <1>1, QueueStepInPipeline, TypedAlways, PTL DEF PipelineSpec, Spec

-----------------------------------------------------------------------------
(* A job is never done for a review without a decision.                     *)

\* A run that is past its decision has left one in the review's row, and so has
\* a worker that is about to mark the job done; a decision is replaced by
\* another one but never erased.
RunsDecided ==
    \A p \in Procs :
        /\ run[p].ok => run[p].at = "returned"
        /\ run[p].at \in {"decision_computed", "review_completed"} \/ run[p].ok =>
              review[doing[p]].decision # 0

PlansDecided ==
    \A p \in Procs : pc[p] = "settling" /\ plan[p].to = "done" => review[doing[p]].decision # 0

DecisionInv == RunsDecided /\ PlansDecided /\ DoneHasDecision

LEMMA DecisionInit == PipelineInit => DecisionInv
<1> QED
  BY EmptyRecords DEF PipelineInit, Init, DecisionInv, RunsDecided, PlansDecided, DoneHasDecision,
     NoJob

LEMMA DecisionRunner ==
  ASSUME Typed, DecisionInv, NEW p \in Procs, RunnerAct(p)
  PROVE  DecisionInv'
<1>1. QueueUntouched /\ RunnerTouches(p)  BY RunnerLeavesQueue, RunnerStepTouches
<1>2. UNCHANGED <<job, pc, doing, plan>>  BY <1>1 DEF QueueUntouched, qvars
<1>3. doing[p] \in Reviews /\ run[p] \in Runs /\ run[p].num \in Nat \ {0}
  BY <1>1, RunnerHolds DEF RunnerTouches
<1>4. run \in [Procs -> Runs] /\ review \in [Reviews -> Rows]  BY DEF Typed, Tables
<1>5. /\ review[doing[p]].decision # 0 => review'[doing[p]].decision # 0
      /\ run'[p].ok => run'[p].at = "returned"
      /\ run'[p].at \in {"decision_computed", "review_completed"} \/ run'[p].ok =>
            review'[doing[p]].decision # 0
  <2>0. /\ run[p].ok => run[p].at = "returned"
        /\ run[p].at \in {"decision_computed", "review_completed"} \/ run[p].ok =>
              review[doing[p]].decision # 0
    BY DEF DecisionInv, RunsDecided
  <2>g. \A place : Goto(p, place) => run'[p].at = place /\ run'[p].ok = run[p].ok
    BY <1>3, <1>4 DEF Goto, Runs
  <2>h. run' = [run EXCEPT ![p].at = "handle", ![p].poisoned = TRUE] =>
           run'[p].at = "handle" /\ run'[p].ok = run[p].ok
    BY <1>3, <1>4 DEF Runs
  <2>s. \A s : review' = [review EXCEPT ![doing[p]].status = s] =>
           review'[doing[p]].decision = review[doing[p]].decision
    BY <1>3, <1>4 DEF Rows
  <2>1. CASE StartRun(p) \/ ClearPrior(p) \/ LoadInput(p) \/ EmitStarted(p)
             \/ EmitCriterionStarted(p) \/ GradeCriterion(p)
    BY <2>1, <2>0, <2>g, <2>s DEF At, StartRun, ClearPrior, LoadInput, EmitStarted,
         EmitCriterionStarted, GradeCriterion
  <2>2. CASE GradeConflict(p)
    BY <2>2, <2>0, <2>h DEF At, GradeConflict
  <2>3. CASE EmitCriterionCompleted(p)
    <3>1. run'[p].at \in {"criterion_started", "decide"} /\ run'[p].ok = run[p].ok
      BY <2>3, <1>3, <1>4 DEF EmitCriterionCompleted, Runs
    <3> QED  BY <2>3, <2>0, <3>1 DEF At, EmitCriterionCompleted
  <2>4. CASE Decide(p)
    <3>1. review'[doing[p]].decision # 0
      BY <2>4, <1>3, <1>4 DEF Decide
    <3> QED  BY <2>4, <2>0, <2>g, <3>1 DEF At, Decide
  <2>5. CASE EmitDecision(p)
    BY <2>5, <2>0, <2>g DEF At, EmitDecision
  <2>6. CASE EmitCompleted(p)
    <3>1. run'[p].at = "returned"
      BY <2>6, <1>3, <1>4 DEF EmitCompleted, Runs
    <3> QED  BY <2>6, <2>0, <3>1 DEF At, EmitCompleted
  <2>7. CASE RecordFailure(p) \/ FailureEscapes(p) \/ EmitFailed(p)
    BY <2>7, <2>0, <2>g, <2>s DEF At, RecordFailure, FailureEscapes, EmitFailed
  <2>8. CASE Raise(p) \/ RaiseInHandler(p)
    <3>1. run[p].at # "returned"  BY <2>8 DEF Raise, RaiseInHandler, RaisePlaces, EmitPlaces, At
    <3> QED  BY <2>8, <2>0, <2>g, <3>1 DEF Raise, RaiseInHandler
  <2>9. CASE RaiseInCommit(p)
    <3>1. run[p].at # "returned"  BY <2>9 DEF RaiseInCommit, CommitPlaces
    <3> QED  BY <2>9, <2>0, <2>h, <3>1 DEF RaiseInCommit
  <2> QED
    BY <2>1, <2>2, <2>3, <2>4, <2>5, <2>6, <2>7, <2>8, <2>9 DEF RunnerAct, RunnerStep
<1>6. \A r : review[r].decision # 0 /\ r \in Reviews => review'[r].decision # 0
  BY <1>1, <1>5 DEF RunnerTouches
<1>7. \A w \in Procs : pc[w] \in {"running", "settling"} => doing[w] \in Reviews
  BY DEF Typed, TypeOK
<1>8. \A w \in Procs : run[w].at # "off" => pc[w] = "running"
  BY DEF Typed, RunsLinked
<1>9. RunsDecided'
  <2>1. ASSUME NEW w \in Procs \ {p}
        PROVE  /\ run'[w].ok => run'[w].at = "returned"
               /\ run'[w].at \in {"decision_computed", "review_completed"} \/ run'[w].ok =>
                     review'[doing'[w]].decision # 0
    <3>1. run'[w] = run[w] /\ doing'[w] = doing[w]  BY <1>1, <1>2, <2>1 DEF RunnerTouches
    <3>2. /\ run[w].ok => run[w].at = "returned"
          /\ run[w].at \in {"decision_computed", "review_completed"} \/ run[w].ok =>
                review[doing[w]].decision # 0
      BY DEF DecisionInv, RunsDecided
    <3>3. run[w].at \in {"decision_computed", "review_completed", "returned"} => doing[w] \in Reviews
      BY <1>7, <1>8
    <3> QED  BY <1>6, <3>1, <3>2, <3>3
  <2> QED  BY <1>2, <1>5, <2>1 DEF RunsDecided
<1>10. PlansDecided' /\ DoneHasDecision'
  BY <1>2, <1>6, <1>7 DEF DecisionInv, PlansDecided, DoneHasDecision
<1> QED  BY <1>9, <1>10 DEF DecisionInv

\* A step of a request leaves the runs and the decisions alone, and makes no
\* job done.
LEMMA DecisionPost ==
  ASSUME Typed, DecisionInv, NEW q \in Requests,
         RequestStep(q) \/ \E r \in Reviews : PostRead(q, r)
  PROVE  DecisionInv'
<1>1. UNCHANGED <<run, pc, doing, plan>>
  BY DEF RequestStep, PostRead, PostInsert, PostEnqueueLoad, PostEnqueueStore, EnqueueLoad,
       EnqueueStore, qvars
<1>2. \A r \in Reviews : review'[r].decision = review[r].decision
  <2>1. CASE PostInsert(q)
    <3>1. post[q].review \in Reviews  BY <2>1 DEF PostInsert, Typed, PostsLinked
    <3>2. review \in [Reviews -> Rows]  BY DEF Typed, Tables
    <3> QED  BY <2>1, <3>1, <3>2 DEF PostInsert, Rows
  <2>2. CASE ~PostInsert(q)
    BY <2>2 DEF RequestStep, PostRead, PostEnqueueLoad, PostEnqueueStore
  <2> QED  BY <2>1, <2>2
<1>3. \A r \in Reviews : job'[r].state = "done" => job[r].state = "done"
  <2>1. CASE EnqueueStore(q)
    BY <2>1, StateAfterEnqueue DEF Typed
  <2>2. CASE ~EnqueueStore(q)
    BY <2>2 DEF RequestStep, PostRead, PostInsert, PostEnqueueLoad, PostEnqueueStore, EnqueueLoad,
         qvars
  <2> QED  BY <2>1, <2>2
<1>4. \A w \in Procs : pc[w] \in {"running", "settling"} => doing[w] \in Reviews
  BY DEF Typed, TypeOK
<1>5. \A w \in Procs : run[w].at # "off" => pc[w] = "running"
  BY DEF Typed, RunsLinked
<1>6. RunsDecided'
  BY <1>1, <1>2, <1>4, <1>5 DEF DecisionInv, RunsDecided
<1> QED
  BY <1>1, <1>2, <1>3, <1>4, <1>6 DEF DecisionInv, PlansDecided, DoneHasDecision

LEMMA DecisionWorker ==
  ASSUME Typed, Typed', DecisionInv, UNCHANGED review, NEW p \in Procs,
         \A w \in Procs \ {p} : /\ run'[w] = run[w] /\ pc'[w] = pc[w]
                                /\ doing'[w] = doing[w] /\ plan'[w] = plan[w],
         \/ run'[p] = run[p] /\ doing'[p] = doing[p]
         \/ ~run'[p].ok /\ run'[p].at \in {"off", "start"},
         pc'[p] = "settling" /\ plan'[p].to = "done" => review[doing'[p]].decision # 0,
         \A r \in Reviews : job'[r].state = "done" =>
            job[r].state = "done" \/ review[r].decision # 0
  PROVE  DecisionInv'
<1> QED  BY DEF DecisionInv, RunsDecided, PlansDecided, DoneHasDecision

LEMMA DecisionQueue ==
  ASSUME Typed, Typed', DecisionInv, NEW p \in Procs,
         \/ SettleRun(p) \/ CrashAll(p) \/ \E r \in Reviews : ClaimAndRun(p, r)
         \/ /\ BootLoad(p) \/ BootStore(p) \/ SettleStore(p) \/ SettleLost(p)
            /\ UNCHANGED rvars
  PROVE  DecisionInv'
<1> USE DEF Typed
<1>0. /\ pc \in [Procs -> {"down", "boot", "idle", "running", "settling"}]
      /\ doing \in [Procs -> Reviews \union {None}] /\ plan \in [Procs -> Plan]
      /\ run \in [Procs -> Runs]
  BY DEF TypeOK, Tables
<1>1. ASSUME NEW s \in Reviews, ClaimAndRun(p, s) PROVE DecisionInv'
  <2>1. UNCHANGED <<review, plan>> /\ Claim(p, s)  BY <1>1 DEF ClaimAndRun, Claim
  <2>2. \A w \in Procs \ {p} : run'[w] = run[w] /\ pc'[w] = pc[w] /\ doing'[w] = doing[w]
    BY <1>0, <1>1, <2>1 DEF ClaimAndRun, Claim
  <2>3. run'[p].at = "start" /\ ~run'[p].ok  BY <1>0, <1>1 DEF ClaimAndRun, NoRun
  <2>4. pc'[p] = "running"  BY <1>0, <2>1 DEF Claim
  <2>5. \A r \in Reviews : job'[r].state = "done" => job[r].state = "done"
    BY <2>1, StateAfterClaim
  <2> QED  BY <2>1, <2>2, <2>3, <2>4, <2>5, DecisionWorker
<1>2. CASE SettleRun(p)
  <2>1. UNCHANGED <<review, job, doing>> /\ SettleLoad(p, run[p].ok)
    BY <1>2 DEF SettleRun, SettleLoad
  <2>2. \A w \in Procs \ {p} : run'[w] = run[w] /\ pc'[w] = pc[w] /\ plan'[w] = plan[w]
    BY <1>0, <1>2, <2>1 DEF SettleRun, SettleLoad
  <2>3. run'[p].at = "off" /\ ~run'[p].ok  BY <1>0, <1>2, EmptyRecords DEF SettleRun
  <2>4. plan'[p].to = "done" => run[p].ok
    BY <1>0, <2>1 DEF SettleLoad, Verdict
  <2>5. run[p].ok => review[doing[p]].decision # 0  BY DEF DecisionInv, RunsDecided
  <2> QED  BY <2>1, <2>2, <2>3, <2>4, <2>5, DecisionWorker
<1>3. CASE CrashAll(p)
  <2>1. UNCHANGED <<review, job>> /\ Crash(p)  BY <1>3 DEF CrashAll, Crash
  <2>2. \A w \in Procs \ {p} : /\ run'[w] = run[w] /\ pc'[w] = pc[w]
                               /\ doing'[w] = doing[w] /\ plan'[w] = plan[w]
    BY <1>0, <1>3, <2>1 DEF CrashAll, Crash, LetGo
  <2>3. run'[p].at = "off" /\ ~run'[p].ok /\ pc'[p] = "down"
    BY <1>0, <1>3, <2>1, EmptyRecords DEF CrashAll, Crash
  <2> QED  BY <2>1, <2>2, <2>3, DecisionWorker
<1>4. ASSUME BootLoad(p) \/ BootStore(p), UNCHANGED rvars PROVE DecisionInv'
  <2>1. UNCHANGED <<review, run, doing, plan>>  BY <1>4 DEF BootLoad, BootStore, rvars
  <2>2. pc'[p] \in {"boot", "idle"} /\ \A w \in Procs \ {p} : pc'[w] = pc[w]
    BY <1>0, <1>4 DEF BootLoad, BootStore
  <2>3. \A r \in Reviews : job'[r].state = "done" => job[r].state = "done"
    <3>1. CASE BootLoad(p)
      BY <3>1 DEF BootLoad
    <3>2. CASE BootStore(p)
      BY <3>2, StateAfterBoot
    <3> QED  BY <1>4, <3>1, <3>2
  <2>4. UNCHANGED review /\ run'[p] = run[p] /\ doing'[p] = doing[p] /\ pc'[p] # "settling"
    BY <2>1, <2>2
  <2>5. \A w \in Procs \ {p} : /\ run'[w] = run[w] /\ pc'[w] = pc[w]
                               /\ doing'[w] = doing[w] /\ plan'[w] = plan[w]
    BY <2>1, <2>2
  <2> QED  BY <2>3, <2>4, <2>5, DecisionWorker
<1>5. ASSUME SettleStore(p) \/ SettleLost(p), UNCHANGED rvars PROVE DecisionInv'
  <2>1. UNCHANGED <<review, run>>  BY <1>5 DEF rvars
  <2>2. /\ pc'[p] = "idle"
        /\ \A w \in Procs \ {p} : pc'[w] = pc[w] /\ doing'[w] = doing[w] /\ plan'[w] = plan[w]
    BY <1>0, <1>5 DEF SettleStore, SettleLost, LetGo
  <2>3. run'[p].at = "off" /\ ~run'[p].ok
    <3>1. pc[p] = "settling"  BY <1>5 DEF SettleStore, SettleLost
    <3>2. run[p].at = "off"  BY <3>1 DEF RunsLinked
    <3> QED  BY <2>1, <3>2 DEF DecisionInv, RunsDecided
  <2>4. \A r \in Reviews : job'[r].state = "done" =>
           job[r].state = "done" \/ review[r].decision # 0
    <3>1. CASE SettleLost(p)
      BY <3>1 DEF SettleLost
    <3>2. CASE SettleStore(p)
      BY <3>2, StateAfterSettle DEF DecisionInv, PlansDecided
    <3> QED  BY <1>5, <3>1, <3>2
  <2> QED  BY <2>1, <2>2, <2>3, <2>4, DecisionWorker
<1> QED  BY <1>1, <1>2, <1>3, <1>4, <1>5

LEMMA DecisionStep == Typed /\ Typed' /\ DecisionInv /\ [PipelineNext]_vars => DecisionInv'
<1> SUFFICES ASSUME Typed, Typed', DecisionInv, [PipelineNext]_vars PROVE DecisionInv'
  OBVIOUS
<1>1. ASSUME Tick, UNCHANGED rvars PROVE DecisionInv'
  <2>1. UNCHANGED <<run, review, pc, doing, plan>>  BY <1>1 DEF Tick, rvars
  <2>2. \A r \in Reviews : job'[r].state = job[r].state  BY <1>1, StateAfterTick DEF Typed
  <2> QED  BY <2>1, <2>2 DEF DecisionInv, RunsDecided, PlansDecided, DoneHasDecision
<1>2. CASE UNCHANGED vars
  BY <1>2 DEF vars, rvars, qvars, DecisionInv, RunsDecided, PlansDecided, DoneHasDecision
<1> QED
  BY <1>1, <1>2, DecisionRunner, DecisionPost, DecisionQueue DEF PipelineNext, RunnerAct, QueueStep

\* However many processes overlap, crash and re-run, a job is never marked done
\* for a review whose row holds no decision.
THEOREM DoneIsDecided == PipelineSpec => []DoneHasDecision
<1>1. DecisionInv => DoneHasDecision  BY DEF DecisionInv
<1> QED  BY <1>1, DecisionInit, DecisionStep, TypedAlways, PTL DEF PipelineSpec

-----------------------------------------------------------------------------
(* The event log of a run.                                                  *)

LogEnd == 2 * NCriteria + 3

\* The complete log of a run, item by item.
LEMMA FullLogItems ==
  ASSUME NEW n \in Nat \ {0}
  PROVE  /\ FullLog(n) \in Seq(Events) /\ Len(FullLog(n)) = LogEnd /\ LogEnd \in Nat
         /\ FullLog(n)[1] = RunEvent("review_started", n, 0)
         /\ \A c \in Criteria :
               /\ FullLog(n)[2 * c] = RunEvent("criterion_started", n, c)
               /\ FullLog(n)[2 * c + 1] = RunEvent("criterion_completed", n, c)
         /\ FullLog(n)[LogEnd - 1] = RunEvent("decision_computed", n, 0)
         /\ FullLog(n)[LogEnd] = RunEvent("review_completed", n, 0)
         /\ \A i \in 1..LogEnd : FullLog(n)[i].run = n
<1> DEFINE N2 == 2 * NCriteria
           head == <<RunEvent("review_started", n, 0)>>
           half == [i \in 1..N2 |->
                      RunEvent(IF i % 2 = 1 THEN "criterion_started" ELSE "criterion_completed",
                               n, (i + 1) \div 2)]
           tail == <<RunEvent("decision_computed", n, 0), RunEvent("review_completed", n, 0)>>
<1>1. N2 \in Nat /\ LogEnd = N2 + 3 /\ NCriteria \in Nat
  BY CriteriaAssumption DEF LogEnd
<1>2. FullLog(n) = head \o half \o tail
  BY DEF FullLog
<1>3. ASSUME NEW t \in EventTypes, NEW c \in 0..NCriteria
      PROVE  RunEvent(t, n, c) \in Events /\ RunEvent(t, n, c).run = n
  BY DEF RunEvent, Events
<1>4. ASSUME NEW i \in 1..N2
      PROVE  half[i] \in Events /\ half[i].run = n
  <2>1. (i + 1) \div 2 \in 0..NCriteria  BY <1>1
  <2>2. half[i] = RunEvent(IF i % 2 = 1 THEN "criterion_started" ELSE "criterion_completed",
                           n, (i + 1) \div 2)
    OBVIOUS
  <2>3. (IF i % 2 = 1 THEN "criterion_started" ELSE "criterion_completed") \in EventTypes
    BY PlaceNames
  <2> QED  BY <1>3, <2>1, <2>2, <2>3
<1>5. head \in Seq(Events) /\ Len(head) = 1 /\ head[1] = RunEvent("review_started", n, 0)
  BY <1>1, <1>3, PlaceNames
<1>6. half \in Seq(Events) /\ Len(half) = N2
  BY <1>1, <1>4
<1>7. /\ tail \in Seq(Events) /\ Len(tail) = 2
      /\ tail[1] = RunEvent("decision_computed", n, 0)
      /\ tail[2] = RunEvent("review_completed", n, 0)
  BY <1>1, <1>3, PlaceNames
<1>8. ASSUME NEW c \in Criteria
      PROVE  /\ 2 * c - 1 \in 1..N2 /\ 2 * c \in 1..N2
             /\ half[2 * c - 1] = RunEvent("criterion_started", n, c)
             /\ half[2 * c] = RunEvent("criterion_completed", n, c)
  <2>1. c \in 1..NCriteria  BY DEF Criteria
  <2>2. 2 * c - 1 \in 1..N2 /\ 2 * c \in 1..N2  BY <1>1, <2>1
  <2>3. (2 * c - 1) % 2 = 1 /\ ((2 * c - 1) + 1) \div 2 = c  BY <2>1
  <2>4. (2 * c) % 2 = 0 /\ ((2 * c) + 1) \div 2 = c  BY <2>1
  <2> QED  BY <2>2, <2>3, <2>4
<1> HIDE DEF N2, head, half, tail
<1>9. /\ FullLog(n) \in Seq(Events) /\ Len(FullLog(n)) = N2 + 3
      /\ FullLog(n)[1] = head[1]
      /\ \A i \in 1..N2 : FullLog(n)[i + 1] = half[i]
      /\ FullLog(n)[N2 + 2] = tail[1] /\ FullLog(n)[N2 + 3] = tail[2]
  <2>1. /\ head \o half \in Seq(Events) /\ Len(head \o half) = N2 + 1
        /\ (head \o half)[1] = head[1]
        /\ \A i \in 1..N2 : (head \o half)[i + 1] = half[i]
    <3>1. /\ head \o half \in Seq(Events) /\ Len(head \o half) = N2 + 1
          /\ \A i \in 1..(N2 + 1) : (head \o half)[i] = IF i <= 1 THEN head[i] ELSE half[i - 1]
      <4>1. Len(head) + Len(half) = N2 + 1  BY <1>1, <1>5, <1>6
      <4>2. /\ head \o half \in Seq(Events) /\ Len(head \o half) = Len(head) + Len(half)
            /\ \A i \in 1..(Len(head) + Len(half)) :
                  (head \o half)[i] = IF i <= Len(head) THEN head[i] ELSE half[i - Len(head)]
        BY <1>5, <1>6, ConcatProperties
      <4> QED  BY <1>5, <4>1, <4>2
    <3>2. ASSUME NEW i \in 1..N2 PROVE (head \o half)[i + 1] = half[i]
      <4>1. i + 1 \in 1..(N2 + 1) /\ ~(i + 1 <= 1) /\ (i + 1) - 1 = i  BY <1>1
      <4> QED  BY <3>1, <4>1
    <3> QED  BY <1>1, <3>1, <3>2
  <2> DEFINE front == head \o half
  <2> HIDE DEF front
  <2>2. /\ front \o tail \in Seq(Events) /\ Len(front \o tail) = N2 + 3
        /\ \A i \in 1..(N2 + 1) : (front \o tail)[i] = front[i]
        /\ (front \o tail)[N2 + 2] = tail[1] /\ (front \o tail)[N2 + 3] = tail[2]
    <3>1. /\ front \o tail \in Seq(Events) /\ Len(front \o tail) = N2 + 3
          /\ \A i \in 1..(N2 + 3) :
                (front \o tail)[i] = IF i <= N2 + 1 THEN front[i] ELSE tail[i - (N2 + 1)]
      <4>1. front \in Seq(Events) /\ Len(front) = N2 + 1  BY <2>1 DEF front
      <4>2. Len(front) + Len(tail) = N2 + 3  BY <1>1, <1>7, <4>1
      <4>3. /\ front \o tail \in Seq(Events) /\ Len(front \o tail) = Len(front) + Len(tail)
            /\ \A i \in 1..(Len(front) + Len(tail)) :
                  (front \o tail)[i] = IF i <= Len(front) THEN front[i] ELSE tail[i - Len(front)]
        BY <1>7, <4>1, ConcatProperties
      <4> QED  BY <4>1, <4>2, <4>3
    <3>2. N2 + 2 \in 1..(N2 + 3) /\ ~(N2 + 2 <= N2 + 1) /\ (N2 + 2) - (N2 + 1) = 1
      BY <1>1
    <3>3. N2 + 3 \in 1..(N2 + 3) /\ ~(N2 + 3 <= N2 + 1) /\ (N2 + 3) - (N2 + 1) = 2
      BY <1>1
    <3>4. \A i \in 1..(N2 + 1) : i \in 1..(N2 + 3) /\ i <= N2 + 1  BY <1>1
    <3> QED  BY <3>1, <3>2, <3>3, <3>4
  <2>3. FullLog(n) = front \o tail  BY <1>2 DEF front
  <2>4. FullLog(n)[1] = head[1]
    <3>1. 1 \in 1..(N2 + 1)  BY <1>1
    <3> QED  BY <2>1, <2>2, <2>3, <3>1 DEF front
  <2>5. ASSUME NEW i \in 1..N2 PROVE FullLog(n)[i + 1] = half[i]
    <3>1. i + 1 \in 1..(N2 + 1)  BY <1>1
    <3> QED  BY <2>1, <2>2, <2>3, <3>1 DEF front
  <2> QED  BY <2>2, <2>3, <2>4, <2>5
<1>10. ASSUME NEW c \in Criteria
       PROVE  /\ FullLog(n)[2 * c] = RunEvent("criterion_started", n, c)
              /\ FullLog(n)[2 * c + 1] = RunEvent("criterion_completed", n, c)
  <2>1. FullLog(n)[(2 * c - 1) + 1] = half[2 * c - 1] /\ FullLog(n)[2 * c + 1] = half[2 * c]
    BY <1>8, <1>9
  <2>2. (2 * c - 1) + 1 = 2 * c  BY DEF Criteria
  <2> QED  BY <1>8, <2>1, <2>2
<1>11. ASSUME NEW i \in 1..LogEnd PROVE FullLog(n)[i].run = n
  <2>1. head[1].run = n /\ tail[1].run = n /\ tail[2].run = n
    BY <1>5, <1>7 DEF RunEvent
  <2>2. i = 1 \/ i - 1 \in 1..N2 \/ i = N2 + 2 \/ i = N2 + 3  BY <1>1
  <2>3. CASE i - 1 \in 1..N2
    <3>1. FullLog(n)[(i - 1) + 1] = half[i - 1] /\ (i - 1) + 1 = i  BY <1>9, <2>3
    <3> QED  BY <1>4, <2>3, <3>1
  <2> QED  BY <1>9, <2>1, <2>2, <2>3
<1> QED  BY <1>1, <1>5, <1>7, <1>9, <1>10, <1>11

\* A log cut short, one event further, and at its ends.
LEMMA UpToNext ==
  ASSUME NEW S, NEW s \in Seq(S), NEW k \in 0..Len(s), k < Len(s)
  PROVE  Append(UpTo(s, k), s[k + 1]) = UpTo(s, k + 1)
<1> QED  BY DEF UpTo

LEMMA UpToEnds ==
  ASSUME NEW S, NEW s \in Seq(S)
  PROVE  UpTo(s, 0) = <<>> /\ UpTo(s, Len(s)) = s
<1> QED  BY DEF UpTo

LEMMA UpToItems ==
  ASSUME NEW S, NEW s \in Seq(S), NEW k \in 0..Len(s)
  PROVE  UpTo(s, k) \in Seq(S) /\ Len(UpTo(s, k)) = k /\ \A i \in 1..k : UpTo(s, k)[i] = s[i]
<1> QED  BY DEF UpTo

\* A log that is the beginning of a run's complete log, or such a beginning
\* followed by review_failed.
LogIs(l, n) ==
    \E k \in 0..LogEnd :
        \/ l = UpTo(FullLog(n), k)
        \/ l = Append(UpTo(FullLog(n), k), RunEvent("review_failed", n, 0))

OneRun(r) == \E n \in Nat \ {0} : LogIs(log[r], n)

LEMMA LogOfRun ==
  ASSUME NEW n \in Nat \ {0}, NEW l, LogIs(l, n)
  PROVE  \A i \in DOMAIN l : l[i].run = n
<1> DEFINE f == RunEvent("review_failed", n, 0)
<1>0. f \in Events /\ f.run = n
  BY PlaceNames, CriteriaAssumption DEF RunEvent, Events
<1>1. PICK k \in 0..LogEnd : l = UpTo(FullLog(n), k) \/ l = Append(UpTo(FullLog(n), k), f)
  BY DEF LogIs
<1> DEFINE u == UpTo(FullLog(n), k)
<1>2. u \in Seq(Events) /\ Len(u) = k /\ \A i \in 1..k : u[i].run = n
  <2>1. /\ FullLog(n) \in Seq(Events) /\ Len(FullLog(n)) = LogEnd /\ LogEnd \in Nat
        /\ \A i \in 1..LogEnd : FullLog(n)[i].run = n
    BY FullLogItems
  <2>2. u \in Seq(Events) /\ Len(u) = k /\ \A i \in 1..k : u[i] = FullLog(n)[i]
    BY <2>1, UpToItems
  <2>3. \A i \in 1..k : i \in 1..LogEnd  BY <2>1
  <2> QED  BY <2>1, <2>2, <2>3
<1> HIDE DEF f, u
<1>3. CASE l = u
  BY <1>2, <1>3
<1>4. CASE l = Append(u, f)
  <2>1. /\ DOMAIN l = 1..(k + 1) /\ l[k + 1] = f /\ \A i \in 1..k : l[i] = u[i]
    BY <1>0, <1>2, <1>4
  <2> QED  BY <1>0, <1>2, <2>1
<1> QED  BY <1>1, <1>3, <1>4 DEF u

LEMMA OneRunReplays ==
  ASSUME NEW r \in Reviews, OneRun(r)
  PROVE  LogReplaysOneRun(r)
<1>1. PICK n \in Nat \ {0} : LogIs(log[r], n)  BY DEF OneRun
<1>2. \A i \in DOMAIN log[r] : log[r][i].run = n  BY <1>1, LogOfRun
<1>3. Len(FullLog(n)) = LogEnd  BY FullLogItems
<1> QED  BY <1>1, <1>2, <1>3 DEF LogReplaysOneRun, LogIs

-----------------------------------------------------------------------------
(* Where a review stands while one run at a time works on it.               *)

\* Runs of r cannot overlap: nobody put its job row back from outside its run,
\* or there is only one process.
Sole(r) == rearms[r] = 0 \/ \A p, w \in Procs : p = w

Graded(r, n, k) == \A i \in Criteria : results[r][i] = IF i <= k THEN n ELSE 0
Logged(r, n, k) == log[r] = UpTo(FullLog(n), k)
Partly(r, n)    == \E k \in 0..LogEnd : Logged(r, n, k)
Decided(r, n)   ==
    review[r] = [status |-> "COMPLETED", decision |-> n] /\ Graded(r, n, NCriteria)
Finished(r)     == review[r].status = "COMPLETED" /\ log[r] = FullLog(review[r].decision)

\* With no commit of the runner raising, a failed run has recorded its failure.
Recorded(r) == MaxBadCommits = 0 => review[r].status = "FAILED"

\* How far the rows of r are when the run x has got to its place, or when its
\* worker is about to settle the job as planned in pl.
Progress(x, pl, r) ==
    /\ x.at \in {"start", "clear", "load", "review_started"} => x.crit = 1
    /\ x.at \in {"clear", "load", "review_started", "criterion_started", "grade",
                 "criterion_completed", "decide"} => review[r].status = "RUNNING"
    /\ x.at \in {"load", "review_started"} => Graded(r, x.num, 0) /\ Logged(r, x.num, 0)
    /\ x.at = "criterion_started" =>
          Graded(r, x.num, x.crit - 1) /\ Logged(r, x.num, 2 * x.crit - 1)
    /\ x.at = "grade" => Graded(r, x.num, x.crit - 1) /\ Logged(r, x.num, 2 * x.crit)
    /\ x.at = "criterion_completed" =>
          Graded(r, x.num, x.crit) /\ Logged(r, x.num, 2 * x.crit)
    /\ x.at = "decide" => Graded(r, x.num, NCriteria) /\ Logged(r, x.num, LogEnd - 2)
    /\ x.at = "decision_computed" => Decided(r, x.num) /\ Logged(r, x.num, LogEnd - 2)
    /\ x.at = "review_completed" => Decided(r, x.num) /\ Logged(r, x.num, LogEnd - 1)
    /\ x.ok => x.at = "returned" /\ Finished(r)
    /\ x.at = "handle" /\ ~x.poisoned => Partly(r, x.num)
    /\ x.at = "review_failed" => review[r].status = "FAILED" /\ Partly(r, x.num)
    /\ x.at = "returned" /\ ~x.ok => Recorded(r)
    /\ MaxBadCommits = 0 => ~x.poisoned
    /\ x.at = "off" /\ pl.to = "done" => Finished(r)
    /\ x.at = "off" /\ pl.to # "done" => Recorded(r)

\* The report and the log of r are sound, and its job tells the truth.
RowSound(r) ==
    /\ ReportConsistent(r)
    /\ OneRun(r)
    /\ job[r].state = "done" => Finished(r)
    /\ job[r].state = "failed" => Recorded(r)

Open(r) == job[r].state \in {"queued", "leased"}

ReviewSound(r) ==
    Sole(r) => /\ RowSound(r)
               /\ \A p \in Procs : doing[p] = r => Open(r) /\ Progress(run[p], plan[p], r)

ReviewInv == \A r \in Reviews : ReviewSound(r)

LEMMA ReviewInvInit == PipelineInit => ReviewInv
<1> SUFFICES ASSUME PipelineInit, NEW r \in Reviews PROVE ReviewSound(r)
  BY DEF ReviewInv
<1>1. review[r].status = "absent" /\ log[r] = <<>> /\ job[r].state = "absent"
  BY DEF PipelineInit, Init, NoJob
<1>2. OneRun(r)
  <2>1. UpTo(FullLog(1), 0) = <<>> /\ 0 \in 0..LogEnd
    BY FullLogItems, UpToEnds
  <2> QED  BY <1>1, <2>1 DEF OneRun, LogIs
<1>3. \A p \in Procs : doing[p] # r
  BY ReviewsAssumption DEF PipelineInit, Init
<1> QED  BY <1>1, <1>2, <1>3 DEF ReviewSound, RowSound, ReportConsistent

\* Work on a review never becomes exclusive again.
LEMMA SoleBefore ==
  ASSUME TypeOK, [Next]_qvars, NEW r \in Reviews, Sole(r)'
  PROVE  Sole(r)
<1>1. rearms \in [Reviews -> Nat]  BY DEF TypeOK
<1>2. rearms'[r] = rearms[r] \/ rearms'[r] = rearms[r] + 1
  <2>1. ASSUME NEW q \in Requests, EnqueueStore(q)
        PROVE  rearms'[r] = rearms[r] \/ rearms'[r] = rearms[r] + 1
    BY <1>1, <2>1 DEF EnqueueStore, InsertJob, InsertConflict, Rearm
  <2>2. ASSUME NEW p \in Procs, BootStore(p)
        PROVE  rearms'[r] = rearms[r] \/ rearms'[r] = rearms[r] + 1
    BY <2>2 DEF BootStore
  <2>3. CASE UNCHANGED rearms
    BY <2>3
  <2> QED
    BY <2>1, <2>2, <2>3 DEF Next, qvars, EnqueueLoad, BootLoad, Claim, SettleLoad, SettleStore,
         SettleLost, Crash, Tick
<1> QED  BY <1>1, <1>2 DEF Sole

\* While work is exclusive at most one worker holds the review.
LEMMA SoleHolder ==
  ASSUME QueueInv, NEW r \in Reviews, Sole(r), NEW p \in Procs, NEW w \in Procs,
         doing[p] = r, doing[w] = r
  PROVE  p = w
<1> SUFFICES ASSUME rearms[r] = 0, p # w PROVE FALSE
  BY DEF Sole
<1>1. Cardinality(Busy(r)) <= 1
  <2>1. Cardinality(Busy(r)) + Queued(r) <= 1 + rearms[r] /\ Queued(r) \in 0..1
    BY DEF QueueInv, RunsBounded, Queued
  <2> QED  BY <2>1, WorkCounts
<1>2. p \in Busy(r) /\ w \in Busy(r) \ {p}  BY DEF Busy
<1>3. IsFiniteSet(Busy(r)) /\ Cardinality(Busy(r) \ {p}) = Cardinality(Busy(r)) - 1
  BY <1>2, WorkCounts, FS_RemoveElement
<1>4. IsFiniteSet(Busy(r) \ {p}) /\ Cardinality(Busy(r) \ {p}) = 0
  <2>1. IsFiniteSet(Busy(r) \ {p})  BY <1>3, FS_RemoveElement
  <2>2. Cardinality(Busy(r) \ {p}) \in Nat  BY <2>1, FS_CardinalityType
  <2>3. Cardinality(Busy(r)) \in Nat  BY WorkCounts
  <2> QED  BY <1>1, <1>3, <2>1, <2>2, <2>3
<1>5. Busy(r) \ {p} = {}  BY <1>4, FS_EmptySet
<1> QED  BY <1>2, <1>5

\* A step that leaves the rows of r alone keeps it sound, as long as its job is
\* closed only truthfully and a worker that takes it up begins at the start.
LEMMA ReviewKept ==
  ASSUME NEW r \in Reviews, ReviewSound(r), Sole(r)' => Sole(r),
         review'[r] = review[r], results'[r] = results[r], log'[r] = log[r],
         \/ job'[r].state = job[r].state
         \/ Open(r)'
         \/ Sole(r) /\ Sole(r)' => /\ job'[r].state = "done" => Finished(r)
                                   /\ job'[r].state = "failed" => Recorded(r)
                                   /\ \A w \in Procs : doing'[w] # r,
         \A w \in Procs : Sole(r) /\ Sole(r)' /\ doing'[w] = r =>
            \/ doing[w] = r /\ run'[w] = run[w] /\ plan'[w] = plan[w]
            \/ Open(r)' /\ Progress(run'[w], plan'[w], r)
  PROVE  ReviewSound(r)'
<1> SUFFICES ASSUME Sole(r), Sole(r)'
             PROVE  /\ RowSound(r)'
                    /\ \A p \in Procs : doing'[p] = r => Open(r)' /\ Progress(run[p], plan[p], r)'
  BY DEF ReviewSound
<1>1. RowSound(r) /\ \A p \in Procs : doing[p] = r => Open(r) /\ Progress(run[p], plan[p], r)
  BY DEF ReviewSound
<1>2. /\ Finished(r)' <=> Finished(r)
      /\ Recorded(r)' <=> Recorded(r)
      /\ ReportConsistent(r)' <=> ReportConsistent(r)
      /\ OneRun(r)' <=> OneRun(r)
      /\ \A n, k : (Graded(r, n, k)' <=> Graded(r, n, k)) /\ (Logged(r, n, k)' <=> Logged(r, n, k))
      /\ \A n : (Partly(r, n)' <=> Partly(r, n)) /\ (Decided(r, n)' <=> Decided(r, n))
  BY DEF Finished, Recorded, ReportConsistent, OneRun, Graded, Logged, Partly, Decided
<1>3. ASSUME NEW p \in Procs
      PROVE  Progress(run[p], plan[p], r)' <=> Progress(run'[p], plan'[p], r)
  BY <1>2 DEF Progress
<1>4. RowSound(r)'
  BY <1>1, <1>2 DEF RowSound, Open
<1>5. ASSUME NEW p \in Procs, doing'[p] = r
      PROVE  Open(r)' /\ Progress(run[p], plan[p], r)'
  <2>1. CASE doing[p] = r /\ run'[p] = run[p] /\ plan'[p] = plan[p]
    <3>1. Progress(run[p], plan[p], r)'  BY <1>1, <1>3, <2>1
    <3>2. Open(r)  BY <1>1, <2>1
    <3>3. Open(r)'  BY <1>5, <3>2 DEF Open
    <3> QED  BY <3>1, <3>3
  <2>2. CASE Open(r)' /\ Progress(run'[p], plan'[p], r)
    BY <1>3, <2>2
  <2> QED  BY <1>5, <2>1, <2>2
<1> QED  BY <1>4, <1>5


\* Steps outside the runner.
Invs == Typed /\ QueueInv /\ ReviewInv

LEMMA KeptByRequest ==
  ASSUME Invs, NEW q \in Requests, RequestStep(q) \/ \E r \in Reviews : PostRead(q, r),
         \A r \in Reviews : Sole(r)' => Sole(r)
  PROVE  ReviewInv'
<1> SUFFICES ASSUME NEW r \in Reviews PROVE ReviewSound(r)'
  BY DEF ReviewInv
<1>0. ReviewSound(r) /\ Typed  BY DEF Invs, ReviewInv
<1>1. UNCHANGED <<run, doing, plan, results, log>>
  BY DEF RequestStep, PostRead, PostInsert, PostEnqueueLoad, PostEnqueueStore, EnqueueLoad,
       EnqueueStore, qvars
<1>2. job'[r].state = job[r].state \/ Open(r)'
  <2>1. CASE EnqueueStore(q)
    BY <2>1, <1>0, StateAfterEnqueue DEF Typed, Open
  <2>2. CASE ~EnqueueStore(q)
    BY <2>2 DEF RequestStep, PostRead, PostInsert, PostEnqueueLoad, PostEnqueueStore, EnqueueLoad,
         qvars
  <2> QED  BY <2>1, <2>2
<1>3. CASE review'[r] = review[r]
  BY <1>0, <1>1, <1>2, <1>3, ReviewKept
<1>4. CASE review'[r] # review[r]
  <2>1. CASE PostInsert(q)
    <3>1. /\ review[r].status = "absent" /\ review'[r].status = "QUEUED"
          /\ UNCHANGED job
      <4>1. post[q].review \in Reviews  BY <1>0, <2>1 DEF PostInsert, Typed, PostsLinked
      <4>2. review \in [Reviews -> Rows]  BY <1>0 DEF Typed, Tables
      <4> QED  BY <1>4, <2>1, <4>1, <4>2 DEF PostInsert, Rows, qvars
    <3>2. job[r].state = "absent"  BY <1>0, <3>1 DEF Typed, JobsReviewed
    <3>3. \A w \in Procs : doing'[w] # r
      <4>1. r \notin Enqueued /\ r # None  BY <3>2, ReviewsAssumption DEF Enqueued
      <4> QED  BY <1>0, <1>1, <4>1 DEF Typed, TypeOK
    <3>4. ReportConsistent(r)'  BY <3>1 DEF ReportConsistent
    <3>5. OneRun(r)' <=> OneRun(r)  BY <1>1 DEF OneRun
    <3> QED  BY <1>0, <3>1, <3>2, <3>3, <3>4, <3>5 DEF ReviewSound, RowSound
  <2>2. CASE ~PostInsert(q)
    BY <1>4, <2>2 DEF RequestStep, PostRead, PostEnqueueLoad, PostEnqueueStore
  <2> QED  BY <2>1, <2>2
<1> QED  BY <1>3, <1>4

LEMMA KeptByClaim ==
  ASSUME Invs, NEW p \in Procs, NEW s \in Reviews, ClaimAndRun(p, s),
         \A r \in Reviews : Sole(r)' => Sole(r)
  PROVE  ReviewInv'
<1> SUFFICES ASSUME NEW r \in Reviews PROVE ReviewSound(r)'
  BY DEF ReviewInv
<1>0. ReviewSound(r) /\ Typed  BY DEF Invs, ReviewInv
<1>1. Claim(p, s) /\ UNCHANGED <<plan, review, results, log>>
  BY DEF ClaimAndRun, Claim
<1>2. /\ \A w \in Procs \ {p} : run'[w] = run[w] /\ doing'[w] = doing[w]
      /\ doing'[p] = s /\ run'[p] = [NoRun EXCEPT !.at = "start", !.num = job'[s].attempts]
  BY <1>0, <1>1 DEF ClaimAndRun, Claim, Typed, Tables, TypeOK
<1>3. Progress(run'[p], plan'[p], s)
  <2>1. /\ run'[p].at = "start" /\ run'[p].crit = 1 /\ ~run'[p].ok /\ ~run'[p].poisoned
    BY <1>2 DEF NoRun
  <2> QED  BY <2>1 DEF Progress
<1>4. job'[s].state = "leased" /\ (r # s => job'[r] = job[r])
  BY <1>0, <1>1, StateAfterClaim DEF Typed
<1>5. ASSUME NEW w \in Procs, doing'[w] = r, Sole(r)'
      PROVE  \/ doing[w] = r /\ run'[w] = run[w] /\ plan'[w] = plan[w]
             \/ Open(r)' /\ Progress(run'[w], plan'[w], r)
  <2>1. CASE w = p
    <3>1. r = s  BY <1>2, <1>5, <2>1
    <3> QED  BY <1>3, <1>4, <2>1, <3>1 DEF Open
  <2>2. CASE w # p
    BY <1>1, <1>2, <1>5, <2>2
  <2> QED  BY <2>1, <2>2
<1>6. job'[r].state = job[r].state \/ Open(r)'
  BY <1>4 DEF Open
<1> QED  BY <1>0, <1>1, <1>5, <1>6, ReviewKept

LEMMA KeptBySettleRun ==
  ASSUME Invs, NEW p \in Procs, SettleRun(p), \A r \in Reviews : Sole(r)' => Sole(r)
  PROVE  ReviewInv'
<1> SUFFICES ASSUME NEW r \in Reviews PROVE ReviewSound(r)'
  BY DEF ReviewInv
<1>0. ReviewSound(r) /\ Typed  BY DEF Invs, ReviewInv
<1>1. /\ SettleLoad(p, run[p].ok) /\ UNCHANGED <<job, doing, review, results, log>>
      /\ run[p].at = "returned"
  BY DEF SettleRun, SettleLoad, At
<1>2. /\ \A w \in Procs \ {p} : run'[w] = run[w] /\ plan'[w] = plan[w]
      /\ run'[p] = NoRun /\ plan'[p].to = Verdict(run[p].ok, job[doing[p]])
  BY <1>0, <1>1 DEF SettleRun, SettleLoad, Typed, Tables, TypeOK
<1>3. plan'[p].to = "done" <=> run[p].ok
  BY <1>2 DEF Verdict
<1>4. ASSUME NEW w \in Procs, doing'[w] = r, Sole(r)
      PROVE  \/ doing[w] = r /\ run'[w] = run[w] /\ plan'[w] = plan[w]
             \/ Open(r)' /\ Progress(run'[w], plan'[w], r)
  <2>1. CASE w = p
    <3>1. Open(r) /\ Progress(run[p], plan[p], r)
      BY <1>0, <1>1, <1>4, <2>1 DEF ReviewSound
    <3>2. (run[p].ok => Finished(r)) /\ (~run[p].ok => Recorded(r))
      BY <1>1, <3>1 DEF Progress
    <3>3. Open(r)'  BY <1>1, <3>1 DEF Open
    <3>4. Progress(NoRun, plan'[p], r)
      BY <1>3, <3>2, EmptyRecords DEF Progress
    <3> QED  BY <1>2, <2>1, <3>3, <3>4
  <2>2. CASE w # p
    BY <1>1, <1>2, <1>4, <2>2
  <2> QED  BY <2>1, <2>2
<1> QED  BY <1>0, <1>1, <1>4, ReviewKept

\* A worker that lets its job go without touching any row.
LEMMA KeptByLoss ==
  ASSUME Invs, NEW p \in Procs, LetGo(p), UNCHANGED <<job, review, results, log>>,
         \A w \in Procs \ {p} : run'[w] = run[w],
         \A r \in Reviews : Sole(r)' => Sole(r)
  PROVE  ReviewInv'
<1> SUFFICES ASSUME NEW r \in Reviews PROVE ReviewSound(r)'
  BY DEF ReviewInv
<1>0. ReviewSound(r) /\ Typed  BY DEF Invs, ReviewInv
<1>1. doing'[p] = None /\ \A w \in Procs \ {p} : doing'[w] = doing[w] /\ plan'[w] = plan[w]
  BY <1>0 DEF LetGo, Typed, TypeOK
<1>2. r # None  BY ReviewsAssumption
<1>3. ASSUME NEW w \in Procs, doing'[w] = r
      PROVE  doing[w] = r /\ run'[w] = run[w] /\ plan'[w] = plan[w]
  BY <1>1, <1>2, <1>3
<1> QED  BY <1>0, <1>3, ReviewKept

LEMMA KeptBySettleStore ==
  ASSUME Invs, NEW p \in Procs, SettleStore(p), UNCHANGED rvars,
         \A r \in Reviews : Sole(r)' => Sole(r)
  PROVE  ReviewInv'
<1> SUFFICES ASSUME NEW r \in Reviews PROVE ReviewSound(r)'
  BY DEF ReviewInv
<1>0. ReviewSound(r) /\ Typed /\ TypeOK /\ QueueInv  BY DEF Invs, ReviewInv, Typed
<1>1. UNCHANGED <<run, review, results, log>>  BY DEF rvars
<1>2. /\ doing'[p] = None /\ pc[p] = "settling"
      /\ \A w \in Procs \ {p} : doing'[w] = doing[w] /\ plan'[w] = plan[w]
  BY <1>0 DEF SettleStore, LetGo, TypeOK
<1>3. r # None  BY ReviewsAssumption
<1>4. ASSUME NEW w \in Procs, doing'[w] = r
      PROVE  doing[w] = r /\ run'[w] = run[w] /\ plan'[w] = plan[w]
  BY <1>1, <1>2, <1>3, <1>4
<1>5. job'[r].state = IF r = doing[p] /\ plan[p].dirty THEN plan[p].to ELSE job[r].state
  BY <1>0, StateAfterSettle
<1>6. CASE job'[r].state = job[r].state
  BY <1>0, <1>1, <1>4, <1>6, ReviewKept
<1>7. CASE r = doing[p] /\ job'[r].state = plan[p].to
  <2>1. ASSUME Sole(r)
        PROVE  /\ job'[r].state = "done" => Finished(r)
               /\ job'[r].state = "failed" => Recorded(r)
               /\ \A w \in Procs : doing'[w] # r
    <3>1. Progress(run[p], plan[p], r)  BY <1>0, <1>7, <2>1 DEF ReviewSound
    <3>2. run[p].at = "off"  BY <1>0, <1>2 DEF Typed, RunsLinked
    <3>3. /\ plan[p].to = "done" => Finished(r)
          /\ plan[p].to = "failed" => Recorded(r)
      BY <3>1, <3>2 DEF Progress
    <3>4. \A w \in Procs : doing'[w] # r
      <4>1. \A w \in Procs : doing[w] = r => w = p  BY <1>0, <1>7, <2>1, SoleHolder
      <4> QED  BY <1>2, <1>3, <4>1
    <3> QED  BY <1>7, <3>3, <3>4
  <2> QED  BY <1>0, <1>1, <1>4, <2>1, ReviewKept
<1> QED  BY <1>5, <1>6, <1>7

LEMMA KeptByQueue ==
  ASSUME Invs, QueueStep, \A r \in Reviews : Sole(r)' => Sole(r)
  PROVE  ReviewInv'
<1>0. Typed /\ TypeOK /\ ReviewInv  BY DEF Invs, Typed
<1>1. UNCHANGED rvars /\ UNCHANGED <<run, review, results, log>>  BY DEF QueueStep, rvars
<1>2. ASSUME UNCHANGED <<doing, plan>>,
             \A r \in Reviews : job'[r].state = job[r].state \/ Open(r)'
      PROVE  ReviewInv'
  <2> SUFFICES ASSUME NEW r \in Reviews PROVE ReviewSound(r)'
    BY DEF ReviewInv
  <2>1. ReviewSound(r)  BY <1>0 DEF ReviewInv
  <2> QED  BY <1>1, <1>2, <2>1, ReviewKept
<1>3. ASSUME NEW p \in Procs, BootLoad(p) PROVE ReviewInv'
  BY <1>2, <1>3 DEF BootLoad
<1>4. ASSUME NEW p \in Procs, BootStore(p) PROVE ReviewInv'
  <2>1. \A r \in Reviews : job'[r].state = job[r].state \/ Open(r)'
    BY <1>0, <1>4, StateAfterBoot DEF Open
  <2> QED  BY <1>2, <1>4, <2>1 DEF BootStore
<1>5. ASSUME NEW p \in Procs, SettleStore(p) PROVE ReviewInv'
  BY <1>1, <1>5, KeptBySettleStore
<1>6. ASSUME NEW p \in Procs, SettleLost(p) PROVE ReviewInv'
  <2>1. LetGo(p) /\ UNCHANGED job  BY <1>6 DEF SettleLost
  <2> QED  BY <1>1, <2>1, KeptByLoss
<1>7. ASSUME Tick PROVE ReviewInv'
  <2>1. \A r \in Reviews : job'[r].state = job[r].state  BY <1>0, <1>7, StateAfterTick
  <2> QED  BY <1>2, <1>7, <2>1 DEF Tick
<1> QED  BY <1>3, <1>4, <1>5, <1>6, <1>7 DEF QueueStep


-----------------------------------------------------------------------------
(* Steps of the runner, on the review it works on.                          *)

\* An emit extends the log by the next event of the run.
LEMMA EmitExtends ==
  ASSUME Typed, NEW p \in Procs, run[p].at # "off", NEW r \in Reviews, doing[p] = r,
         NEW n, n = run[p].num, NEW type, Emit(p, type),
         NEW k \in 0..LogEnd, k < LogEnd, Logged(r, n, k),
         Event(p, type) = FullLog(n)[k + 1]
  PROVE  Logged(r, n, k + 1)' /\ k + 1 \in 0..LogEnd /\ OneRun(r)'
<1>1. n \in Nat \ {0} /\ log \in [Reviews -> Seq(Events)]
  BY RunnerHolds DEF Typed, Tables
<1>2. log'[r] = Append(log[r], Event(p, type))
  BY <1>1 DEF Emit
<1>3. /\ FullLog(n) \in Seq(Events) /\ Len(FullLog(n)) = LogEnd /\ LogEnd \in Nat
  BY <1>1, FullLogItems
<1>4. Append(UpTo(FullLog(n), k), FullLog(n)[k + 1]) = UpTo(FullLog(n), k + 1)
  BY <1>3, UpToNext
<1>5. log'[r] = UpTo(FullLog(n), k + 1)
  BY <1>2, <1>4 DEF Logged
<1>6. k + 1 \in 0..LogEnd  BY <1>3
<1> QED  BY <1>1, <1>5, <1>6 DEF OneRun, LogIs, Logged

\* Where run[p] gets to.
LEMMA GotoFields ==
  ASSUME NEW p \in Procs, run \in [Procs -> Runs], NEW place, Goto(p, place)
  PROVE  /\ run'[p].at = place /\ run'[p].num = run[p].num /\ run'[p].crit = run[p].crit
         /\ run'[p].ok = run[p].ok /\ run'[p].poisoned = run[p].poisoned
<1>1. run'[p] = [run[p] EXCEPT !.at = place] /\ run[p] \in Runs  BY DEF Goto
<1> QED  BY <1>1 DEF Runs

\* The rows of r as they are keep r's report and log as sound as they are.
LEMMA RowsKept ==
  ASSUME NEW r \in Reviews
  PROVE  /\ log'[r] = log[r] => /\ OneRun(r)' <=> OneRun(r)
                                /\ \A n, k : Logged(r, n, k)' <=> Logged(r, n, k)
                                /\ \A n : Partly(r, n)' <=> Partly(r, n)
         /\ results'[r] = results[r] => \A n, k : Graded(r, n, k)' <=> Graded(r, n, k)
         /\ review'[r] = review[r] /\ results'[r] = results[r] =>
               /\ ReportConsistent(r)' <=> ReportConsistent(r)
               /\ \A n : Decided(r, n)' <=> Decided(r, n)
<1> QED  BY DEF OneRun, Logged, Partly, Graded, ReportConsistent, Decided

LEMMA RunnerAdvances ==
  ASSUME Typed, NEW p \in Procs, RunnerAct(p), NEW r \in Reviews, doing[p] = r,
         ReportConsistent(r), OneRun(r), Progress(run[p], plan[p], r)
  PROVE  ReportConsistent(r)' /\ OneRun(r)' /\ Progress(run[p], plan[p], r)'
<1>a. run[p].at # "off"
  BY RunnerStepTouches DEF RunnerTouches
<1>n. PICK n \in Nat \ {0} : n = run[p].num
  BY <1>a, RunnerHolds
<1>d. PICK c \in 1..NCriteria : c = run[p].crit
  BY <1>a, RunnerHolds DEF Criteria
<1>b. /\ run[p] \in Runs /\ run \in [Procs -> Runs] /\ review \in [Reviews -> Rows]
      /\ results \in [Reviews -> [Criteria -> Nat]] /\ log \in [Reviews -> Seq(Events)]
  BY <1>a, RunnerHolds DEF Typed, Tables
<1>c. NCriteria \in Nat \ {0} /\ LogEnd = 2 * NCriteria + 3 /\ LogEnd \in Nat
  BY CriteriaAssumption DEF LogEnd
<1>f. FullLog(n) \in Seq(Events) /\ Len(FullLog(n)) = LogEnd
  BY FullLogItems
<1>p. Progress(run[p], plan[p], r)  OBVIOUS
<1>o. run[p].at # "returned" => ~run[p].ok
  BY <1>p DEF Progress
<1>z. MaxBadCommits = 0 => ~run[p].poisoned
  BY <1>p DEF Progress
<1>1. CASE StartRun(p)
  <2>0. run[p].at = "start" /\ Goto(p, "clear") /\ UNCHANGED <<results, log>>
    BY <1>1 DEF StartRun, At
  <2>1. /\ run'[p].at = "clear" /\ run'[p].crit = 1 /\ ~run'[p].ok
        /\ run'[p].poisoned = run[p].poisoned
    <3>1. run[p].crit = 1  BY <2>0, <1>p DEF Progress
    <3> QED  BY <2>0, <3>1, <1>b, <1>o, GotoFields
  <2>2. review'[r].status = "RUNNING"
    BY <1>1, <1>b DEF StartRun, Rows
  <2>3. ReportConsistent(r)' /\ OneRun(r)'
    BY <2>0, <2>2, RowsKept DEF ReportConsistent
  <2>4. Progress(run[p], plan[p], r)'
    BY <2>1, <2>2, <1>z DEF Progress
  <2> QED  BY <2>3, <2>4
<1>2. CASE ClearPrior(p)
  <2>0. run[p].at = "clear" /\ Goto(p, "load") /\ UNCHANGED review
    BY <1>2 DEF ClearPrior, At
  <2>1. /\ run'[p].at = "load" /\ run'[p].crit = 1 /\ ~run'[p].ok
        /\ run'[p].poisoned = run[p].poisoned /\ run'[p].num = n
    <3>1. run[p].crit = 1  BY <2>0, <1>p DEF Progress
    <3> QED  BY <2>0, <3>1, <1>b, <1>n, <1>o, GotoFields
  <2>2. review'[r].status = "RUNNING"
    BY <2>0, <1>p DEF Progress
  <2>3. results'[r] = NoResults /\ log'[r] = <<>>
    BY <1>2, <1>b DEF ClearPrior
  <2>4. Graded(r, n, 0)'
    BY <2>3, EmptyRecords DEF Graded, Criteria
  <2>5. Logged(r, n, 0)'
    BY <2>3, <1>f, UpToEnds DEF Logged
  <2>6. OneRun(r)'
    BY <2>5, <1>c DEF OneRun, LogIs, Logged
  <2>7. Progress(run[p], plan[p], r)'
    BY <2>1, <2>2, <2>4, <2>5, <1>z DEF Progress
  <2> QED  BY <2>2, <2>6, <2>7 DEF ReportConsistent
<1>3. CASE LoadInput(p)
  <2>0. run[p].at = "load" /\ Goto(p, "review_started") /\ UNCHANGED <<review, results, log>>
    BY <1>3 DEF LoadInput, At
  <2>1. /\ run[p].crit = 1 /\ review[r].status = "RUNNING"
        /\ Graded(r, n, 0) /\ Logged(r, n, 0)
    BY <2>0, <1>n, <1>p DEF Progress
  <2>2. /\ run'[p].at = "review_started" /\ run'[p].crit = 1 /\ ~run'[p].ok
        /\ run'[p].poisoned = run[p].poisoned /\ run'[p].num = n
    BY <2>0, <2>1, <1>b, <1>n, <1>o, GotoFields
  <2>3. Progress(run[p], plan[p], r)'
    BY <2>0, <2>1, <2>2, <1>z, RowsKept DEF Progress
  <2> QED  BY <2>0, <2>3, RowsKept
<1>4. CASE EmitStarted(p)
  <2>0. /\ run[p].at = "review_started" /\ Goto(p, "criterion_started")
        /\ Emit(p, "review_started") /\ UNCHANGED <<review, results>>
    BY <1>4 DEF EmitStarted, At
  <2>1. /\ run[p].crit = 1 /\ review[r].status = "RUNNING"
        /\ Graded(r, n, 0) /\ Logged(r, n, 0)
    BY <2>0, <1>n, <1>p DEF Progress
  <2>2. /\ run'[p].at = "criterion_started" /\ run'[p].crit = 1 /\ ~run'[p].ok
        /\ run'[p].poisoned = run[p].poisoned /\ run'[p].num = n
    BY <2>0, <2>1, <1>b, <1>n, <1>o, GotoFields
  <2>3. Event(p, "review_started") = FullLog(n)[1]
    BY <1>n, FullLogItems DEF Event, RunEvent
  <2>4. Logged(r, n, 1)' /\ OneRun(r)'
    <3>1. 0 \in 0..LogEnd /\ 0 < LogEnd /\ 0 + 1 = 1  BY <1>c
    <3> QED  BY <2>0, <2>1, <2>3, <3>1, <1>a, <1>n, EmitExtends
  <2>5. Progress(run[p], plan[p], r)'
    BY <2>0, <2>1, <2>2, <2>4, <1>z, RowsKept DEF Progress
  <2> QED  BY <2>0, <2>4, <2>5, RowsKept
<1>5. CASE EmitCriterionStarted(p)
  <2>0. /\ run[p].at = "criterion_started" /\ Goto(p, "grade")
        /\ Emit(p, "criterion_started") /\ UNCHANGED <<review, results>>
    BY <1>5 DEF EmitCriterionStarted, At
  <2>1. /\ review[r].status = "RUNNING"
        /\ Graded(r, n, c - 1) /\ Logged(r, n, 2 * c - 1)
    BY <2>0, <1>n, <1>d, <1>p DEF Progress
  <2>2. /\ run'[p].at = "grade" /\ run'[p].crit = c /\ ~run'[p].ok
        /\ run'[p].poisoned = run[p].poisoned /\ run'[p].num = n
    BY <2>0, <1>b, <1>d, <1>n, <1>o, GotoFields
  <2>3. Event(p, "criterion_started") = FullLog(n)[2 * c]
    BY <1>n, <1>d, FullLogItems DEF Event, RunEvent, Criteria
  <2>4. Logged(r, n, 2 * c)' /\ OneRun(r)'
    <3>1. 2 * c - 1 \in 0..LogEnd /\ 2 * c - 1 < LogEnd /\ (2 * c - 1) + 1 = 2 * c  BY <1>c
    <3> QED  BY <2>0, <2>1, <2>3, <3>1, <1>a, <1>n, EmitExtends
  <2>5. Progress(run[p], plan[p], r)'
    BY <2>0, <2>1, <2>2, <2>4, <1>z, RowsKept DEF Progress
  <2> QED  BY <2>0, <2>4, <2>5, RowsKept
<1>6. CASE GradeCriterion(p)
  <2>0. run[p].at = "grade" /\ Goto(p, "criterion_completed") /\ UNCHANGED <<review, log>>
    BY <1>6 DEF GradeCriterion, At
  <2>1. /\ review[r].status = "RUNNING"
        /\ Graded(r, n, c - 1) /\ Logged(r, n, 2 * c)
    BY <2>0, <1>n, <1>d, <1>p DEF Progress
  <2>2. /\ run'[p].at = "criterion_completed" /\ run'[p].crit = c /\ ~run'[p].ok
        /\ run'[p].poisoned = run[p].poisoned /\ run'[p].num = n
    BY <2>0, <1>b, <1>d, <1>n, <1>o, GotoFields
  <2>3. Graded(r, n, c)'
    <3>1. \A i \in Criteria : results'[r][i] = IF i = c THEN n ELSE results[r][i]
      BY <1>6, <1>b, <1>d, <1>n DEF GradeCriterion, Criteria
    <3> QED  BY <2>1, <3>1 DEF Graded, Criteria
  <2>4. Progress(run[p], plan[p], r)'
    BY <2>0, <2>1, <2>2, <2>3, <1>z, RowsKept DEF Progress
  <2> QED  BY <2>0, <2>1, <2>4, RowsKept DEF ReportConsistent
<1>7. CASE GradeConflict(p)
  <2>1. run[p].at = "grade" /\ results[r][c] # 0
    BY <1>7, <1>d DEF GradeConflict, At
  <2>2. Graded(r, n, c - 1)  BY <2>1, <1>n, <1>d, <1>p DEF Progress
  <2>3. results[r][c] = 0  BY <2>2 DEF Graded, Criteria
  <2> QED  BY <2>1, <2>3
<1>8. CASE EmitCriterionCompleted(p)
  <2>0. /\ run[p].at = "criterion_completed"
        /\ Emit(p, "criterion_completed") /\ UNCHANGED <<review, results>>
    BY <1>8 DEF EmitCriterionCompleted, At
  <2>1. /\ review[r].status = "RUNNING"
        /\ Graded(r, n, c) /\ Logged(r, n, 2 * c)
    BY <2>0, <1>n, <1>d, <1>p DEF Progress
  <2>2. /\ run'[p].at = IF c < NCriteria THEN "criterion_started" ELSE "decide"
        /\ run'[p].crit = IF c < NCriteria THEN c + 1 ELSE c
        /\ ~run'[p].ok /\ run'[p].poisoned = run[p].poisoned /\ run'[p].num = n
    <3>1. run'[p] = [run[p] EXCEPT
             !.at = IF run[p].crit < NCriteria THEN "criterion_started" ELSE "decide",
             !.crit = IF run[p].crit < NCriteria THEN run[p].crit + 1 ELSE run[p].crit]
      BY <1>8, <1>b DEF EmitCriterionCompleted, Runs
    <3> QED  BY <2>0, <3>1, <1>b, <1>d, <1>n, <1>o DEF Runs
  <2>3. Event(p, "criterion_completed") = FullLog(n)[2 * c + 1]
    BY <1>n, <1>d, FullLogItems DEF Event, RunEvent, Criteria
  <2>4. Logged(r, n, 2 * c + 1)' /\ OneRun(r)'
    <3>1. 2 * c \in 0..LogEnd /\ 2 * c < LogEnd  BY <1>c
    <3> QED  BY <2>0, <2>1, <2>3, <3>1, <1>a, <1>n, EmitExtends
  <2>5. CASE c < NCriteria
    <3>1. (c + 1) - 1 = c /\ 2 * (c + 1) - 1 = 2 * c + 1  OBVIOUS
    <3>2. Progress(run[p], plan[p], r)'
      BY <2>0, <2>1, <2>2, <2>4, <2>5, <3>1, <1>z, RowsKept DEF Progress
    <3> QED  BY <2>0, <2>4, <3>2, RowsKept
  <2>6. CASE ~(c < NCriteria)
    <3>1. c = NCriteria /\ 2 * c + 1 = LogEnd - 2  BY <2>6, <1>c
    <3>2. Progress(run[p], plan[p], r)'
      BY <2>0, <2>1, <2>2, <2>4, <2>6, <3>1, <1>z, RowsKept DEF Progress
    <3> QED  BY <2>0, <2>4, <3>2, RowsKept
  <2> QED  BY <2>5, <2>6
<1>9. CASE Decide(p)
  <2>0. run[p].at = "decide" /\ Goto(p, "decision_computed") /\ UNCHANGED <<results, log>>
    BY <1>9 DEF Decide, At
  <2>1. Graded(r, n, NCriteria) /\ Logged(r, n, LogEnd - 2)
    BY <2>0, <1>n, <1>p DEF Progress
  <2>2. /\ run'[p].at = "decision_computed" /\ ~run'[p].ok
        /\ run'[p].poisoned = run[p].poisoned /\ run'[p].num = n
    BY <2>0, <1>b, <1>n, <1>o, GotoFields
  <2>3. review'[r] = [status |-> "COMPLETED", decision |-> n]
    BY <1>9, <1>b, <1>n DEF Decide
  <2>4. Decided(r, n)' /\ Logged(r, n, LogEnd - 2)'
    BY <2>0, <2>1, <2>3 DEF Decided, Graded, Logged
  <2>5. ReportConsistent(r)'
    <3>1. \A i \in Criteria : results'[r][i] = n
      BY <2>0, <2>1 DEF Graded, Criteria
    <3> QED  BY <2>3, <3>1 DEF ReportConsistent
  <2>6. Progress(run[p], plan[p], r)'
    BY <2>2, <2>4, <1>z DEF Progress
  <2> QED  BY <2>0, <2>5, <2>6, RowsKept
<1>10. CASE EmitDecision(p)
  <2>0. /\ run[p].at = "decision_computed" /\ Goto(p, "review_completed")
        /\ Emit(p, "decision_computed") /\ UNCHANGED <<review, results>>
    BY <1>10 DEF EmitDecision, At
  <2>1. Decided(r, n) /\ Logged(r, n, LogEnd - 2)
    BY <2>0, <1>n, <1>p DEF Progress
  <2>2. /\ run'[p].at = "review_completed" /\ ~run'[p].ok
        /\ run'[p].poisoned = run[p].poisoned /\ run'[p].num = n
    BY <2>0, <1>b, <1>n, <1>o, GotoFields
  <2>3. Event(p, "decision_computed") = FullLog(n)[LogEnd - 1]
    BY <1>n, FullLogItems DEF Event, RunEvent
  <2>4. Logged(r, n, LogEnd - 1)' /\ OneRun(r)'
    <3>1. LogEnd - 2 \in 0..LogEnd /\ LogEnd - 2 < LogEnd /\ (LogEnd - 2) + 1 = LogEnd - 1
      BY <1>c
    <3> QED  BY <2>0, <2>1, <2>3, <3>1, <1>a, <1>n, EmitExtends
  <2>5. Progress(run[p], plan[p], r)'
    BY <2>0, <2>1, <2>2, <2>4, <1>z, RowsKept DEF Progress
  <2> QED  BY <2>0, <2>4, <2>5, RowsKept
<1>11. CASE EmitCompleted(p)
  <2>0. /\ run[p].at = "review_completed"
        /\ Emit(p, "review_completed") /\ UNCHANGED <<review, results>>
    BY <1>11 DEF EmitCompleted, At
  <2>1. Decided(r, n) /\ Logged(r, n, LogEnd - 1)
    BY <2>0, <1>n, <1>p DEF Progress
  <2>2. /\ run'[p].at = "returned" /\ run'[p].ok /\ run'[p].poisoned = run[p].poisoned
    <3>1. run'[p] = [run[p] EXCEPT !.at = "returned", !.ok = TRUE]
      BY <1>11, <1>b DEF EmitCompleted, Runs
    <3> QED  BY <3>1, <1>b DEF Runs
  <2>3. Event(p, "review_completed") = FullLog(n)[LogEnd]
    BY <1>n, FullLogItems DEF Event, RunEvent
  <2>4. Logged(r, n, LogEnd)' /\ OneRun(r)'
    <3>1. LogEnd - 1 \in 0..LogEnd /\ LogEnd - 1 < LogEnd /\ (LogEnd - 1) + 1 = LogEnd
      BY <1>c
    <3> QED  BY <2>0, <2>1, <2>3, <3>1, <1>a, <1>n, EmitExtends
  <2>5. Finished(r)'
    <3>1. log'[r] = FullLog(n)  BY <2>4, <1>f, UpToEnds DEF Logged
    <3> QED  BY <2>0, <2>1, <3>1 DEF Decided, Finished
  <2>6. Progress(run[p], plan[p], r)'
    BY <2>2, <2>5, <1>z DEF Progress
  <2> QED  BY <2>0, <2>4, <2>6, RowsKept
<1>12. CASE RecordFailure(p)
  <2>0. /\ run[p].at = "handle" /\ ~run[p].poisoned /\ Goto(p, "review_failed")
        /\ UNCHANGED <<results, log>>
    BY <1>12 DEF RecordFailure, At
  <2>1. Partly(r, n)  BY <2>0, <1>n, <1>p DEF Progress
  <2>2. /\ run'[p].at = "review_failed" /\ ~run'[p].ok
        /\ run'[p].poisoned = run[p].poisoned /\ run'[p].num = n
    BY <2>0, <1>b, <1>n, <1>o, GotoFields
  <2>3. review'[r].status = "FAILED"
    BY <1>12, <1>b DEF RecordFailure, Rows
  <2>4. Progress(run[p], plan[p], r)'
    BY <2>0, <2>1, <2>2, <2>3, <1>z, RowsKept DEF Progress
  <2> QED  BY <2>0, <2>3, <2>4, RowsKept DEF ReportConsistent
<1>13. CASE FailureEscapes(p)
  <2>0. /\ run[p].at = "handle" /\ run[p].poisoned /\ Goto(p, "returned")
        /\ UNCHANGED <<review, results, log>>
    BY <1>13 DEF FailureEscapes, At
  <2>1. /\ run'[p].at = "returned" /\ ~run'[p].ok
    BY <2>0, <1>b, <1>o, GotoFields
  <2>2. Recorded(r)' /\ MaxBadCommits # 0
    BY <2>0, <1>z DEF Recorded
  <2>3. Progress(run[p], plan[p], r)'
    BY <2>1, <2>2 DEF Progress
  <2> QED  BY <2>0, <2>3, RowsKept
<1>14. CASE EmitFailed(p)
  <2>0. /\ run[p].at = "review_failed" /\ Goto(p, "returned")
        /\ Emit(p, "review_failed") /\ UNCHANGED <<review, results>>
    BY <1>14 DEF EmitFailed, At
  <2>1. review[r].status = "FAILED" /\ Partly(r, n)
    BY <2>0, <1>n, <1>p DEF Progress
  <2>2. /\ run'[p].at = "returned" /\ ~run'[p].ok /\ run'[p].poisoned = run[p].poisoned
    BY <2>0, <1>b, <1>o, GotoFields
  <2>3. log'[r] = Append(log[r], RunEvent("review_failed", n, 0))
    BY <2>0, <1>b, <1>n DEF Emit, Event, RunEvent
  <2>4. OneRun(r)'
    BY <2>1, <2>3 DEF OneRun, LogIs, Partly, Logged
  <2>5. Recorded(r)'
    BY <2>0, <2>1 DEF Recorded
  <2>6. Progress(run[p], plan[p], r)'
    BY <2>2, <2>5, <1>z DEF Progress
  <2> QED  BY <2>0, <2>4, <2>6, RowsKept
<1>15. CASE Raise(p)
  <2>0. /\ run[p].at \in RaisePlaces /\ Goto(p, "handle") /\ UNCHANGED <<review, results, log>>
    BY <1>15 DEF Raise
  <2>1. Partly(r, n)
    <3>1. \E k : k \in 0..LogEnd /\ Logged(r, n, k)
      <4>1. CASE run[p].at \in {"load", "review_started"}
        BY <4>1, <1>c, <1>n, <1>p DEF Progress
      <4>2. CASE run[p].at = "criterion_started"
        <5>1. Logged(r, n, 2 * c - 1) /\ 2 * c - 1 \in 0..LogEnd
          BY <4>2, <1>c, <1>d, <1>n, <1>p DEF Progress
        <5> QED  BY <5>1
      <4>3. CASE run[p].at \in {"grade", "criterion_completed"}
        <5>1. Logged(r, n, 2 * c) /\ 2 * c \in 0..LogEnd
          BY <4>3, <1>c, <1>d, <1>n, <1>p DEF Progress
        <5> QED  BY <5>1
      <4>4. CASE run[p].at \in {"decide", "decision_computed"}
        <5>1. Logged(r, n, LogEnd - 2) /\ LogEnd - 2 \in 0..LogEnd
          BY <4>4, <1>c, <1>n, <1>p DEF Progress
        <5> QED  BY <5>1
      <4>5. CASE run[p].at = "review_completed"
        <5>1. Logged(r, n, LogEnd - 1) /\ LogEnd - 1 \in 0..LogEnd
          BY <4>5, <1>c, <1>n, <1>p DEF Progress
        <5> QED  BY <5>1
      <4> QED  BY <2>0, <4>1, <4>2, <4>3, <4>4, <4>5 DEF RaisePlaces, EmitPlaces
    <3> QED  BY <3>1 DEF Partly
  <2>2. /\ run'[p].at = "handle" /\ ~run'[p].ok
        /\ run'[p].poisoned = run[p].poisoned /\ run'[p].num = n
    BY <2>0, <1>b, <1>n, <1>o, GotoFields DEF RaisePlaces, EmitPlaces
  <2>3. Progress(run[p], plan[p], r)'
    BY <2>0, <2>1, <2>2, <1>z, RowsKept DEF Progress
  <2> QED  BY <2>0, <2>3, RowsKept
<1>16. CASE RaiseInCommit(p)
  <2>0. /\ run[p].at \in CommitPlaces /\ UNCHANGED <<review, results, log>>
        /\ badCommits < MaxBadCommits
    BY <1>16 DEF RaiseInCommit
  <2>1. MaxBadCommits # 0
    BY <2>0, FaultsAssumption DEF Typed, Tables
  <2>2. run'[p].at = "handle" /\ ~run'[p].ok /\ run'[p].poisoned
    <3>1. run'[p] = [run[p] EXCEPT !.at = "handle", !.poisoned = TRUE]
      BY <1>16, <1>b DEF RaiseInCommit, Runs
    <3> QED  BY <2>0, <3>1, <1>b, <1>o DEF Runs, CommitPlaces
  <2>3. Progress(run[p], plan[p], r)'
    BY <2>1, <2>2 DEF Progress
  <2> QED  BY <2>0, <2>3, RowsKept
<1>17. CASE RaiseInHandler(p)
  <2>0. /\ run[p].at = "review_failed" /\ Goto(p, "returned")
        /\ UNCHANGED <<review, results, log>>
    BY <1>17 DEF RaiseInHandler, At
  <2>1. review[r].status = "FAILED"  BY <2>0, <1>p DEF Progress
  <2>2. /\ run'[p].at = "returned" /\ ~run'[p].ok /\ run'[p].poisoned = run[p].poisoned
    BY <2>0, <1>b, <1>o, GotoFields
  <2>3. Recorded(r)'  BY <2>0, <2>1 DEF Recorded
  <2>4. Progress(run[p], plan[p], r)'
    BY <2>2, <2>3, <1>z DEF Progress
  <2> QED  BY <2>0, <2>4, RowsKept
<1> QED
  BY <1>1, <1>2, <1>3, <1>4, <1>5, <1>6, <1>7, <1>8, <1>9, <1>10, <1>11, <1>12, <1>13, <1>14,
     <1>15, <1>16, <1>17 DEF RunnerAct, RunnerStep

LEMMA KeptByRunner ==
  ASSUME Invs, NEW p \in Procs, RunnerAct(p)
  PROVE  ReviewInv'
<1> SUFFICES ASSUME NEW r \in Reviews, Sole(r)
             PROVE  /\ RowSound(r)'
                    /\ \A w \in Procs : doing'[w] = r => Open(r)' /\ Progress(run[w], plan[w], r)'
  <2>1. \A r \in Reviews : Sole(r)' <=> Sole(r)
    BY RunnerLeavesQueue DEF QueueUntouched, qvars, Sole
  <2> QED  BY <2>1 DEF ReviewInv, ReviewSound
<1>0. ReviewSound(r) /\ Typed /\ QueueInv  BY DEF Invs, ReviewInv
<1>1. RunnerTouches(p) /\ UNCHANGED <<job, doing, plan, rearms>>
  BY <1>0, RunnerStepTouches, RunnerLeavesQueue DEF QueueUntouched, qvars
<1>2. CASE r # doing[p]
  <2>1. review'[r] = review[r] /\ results'[r] = results[r] /\ log'[r] = log[r]
    BY <1>1, <1>2 DEF RunnerTouches
  <2>2. \A w \in Procs : doing'[w] = r =>
           doing[w] = r /\ run'[w] = run[w] /\ plan'[w] = plan[w]
    BY <1>1, <1>2 DEF RunnerTouches
  <2>3. Sole(r)' <=> Sole(r)  BY <1>1 DEF Sole
  <2>4. ReviewSound(r)'  BY <1>0, <1>1, <2>1, <2>2, <2>3, ReviewKept
  <2> QED  BY <2>3, <2>4 DEF ReviewSound
<1>3. CASE r = doing[p]
  <2>1. RowSound(r) /\ Open(r) /\ Progress(run[p], plan[p], r)
    BY <1>0, <1>3 DEF ReviewSound
  <2>2. ReportConsistent(r)' /\ OneRun(r)' /\ Progress(run[p], plan[p], r)'
    BY <1>0, <1>3, <2>1, RunnerAdvances DEF RowSound
  <2>3. Open(r)'  BY <1>1, <2>1 DEF Open
  <2>4. RowSound(r)'  BY <2>2, <2>3 DEF RowSound, Open
  <2>5. \A w \in Procs : doing'[w] = r => w = p
    BY <1>0, <1>1, <1>3, SoleHolder
  <2> QED  BY <2>2, <2>3, <2>4, <2>5
<1> QED  BY <1>2, <1>3

LEMMA ReviewInvStep ==
  Typed /\ QueueInv /\ ReviewInv /\ [PipelineNext]_vars => ReviewInv'
<1> SUFFICES ASSUME Typed, QueueInv, ReviewInv, [PipelineNext]_vars PROVE ReviewInv'
  OBVIOUS
<1>1. Invs /\ TypeOK  BY DEF Invs, Typed
<1>2. \A r \in Reviews : Sole(r)' => Sole(r)
  BY <1>1, QueueStepInPipeline, SoleBefore
<1>3. ASSUME NEW p \in Procs, CrashAll(p) PROVE ReviewInv'
  <2>1. LetGo(p) /\ UNCHANGED <<job, review, results, log>>
    BY <1>3 DEF CrashAll, Crash
  <2>2. \A w \in Procs \ {p} : run'[w] = run[w]
    BY <1>3 DEF CrashAll, Typed, Tables
  <2> QED  BY <1>1, <1>2, <2>1, <2>2, KeptByLoss
<1>4. CASE UNCHANGED vars
  <2> SUFFICES ASSUME NEW r \in Reviews PROVE ReviewSound(r)'
    BY DEF ReviewInv
  <2>1. ReviewSound(r) /\ UNCHANGED <<job, doing, run, plan, review, results, log>>
    BY <1>4 DEF ReviewInv, vars, qvars, rvars
  <2> QED  BY <1>2, <2>1, ReviewKept
<1> QED
  BY <1>1, <1>2, <1>3, <1>4, KeptByRequest, KeptByClaim, KeptByRunner, KeptBySettleRun,
     KeptByQueue DEF PipelineNext, RunnerAct

LEMMA QueueInvAlways == PipelineSpec => []QueueInv
<1> QED  BY PipelineImplementsQueue, QueueInvariant, PTL

\* The inductive invariant of the pipeline.
THEOREM ReviewInvariant == PipelineSpec => []ReviewInv
<1> QED  BY ReviewInvInit, ReviewInvStep, TypedAlways, QueueInvAlways, PTL DEF PipelineSpec

\* What the invariant says of a review whose runs did not overlap.
LEMMA SoundParts ==
  ASSUME ReviewInv, NEW r \in Reviews, Sole(r)
  PROVE  /\ ReportConsistent(r) /\ LogReplaysOneRun(r) /\ DoneHasFullLog(r)
         /\ job[r].state = "done" => review[r].status = "COMPLETED"
         /\ MaxBadCommits = 0 => SettledAgrees(r)
<1>1. RowSound(r)  BY DEF ReviewInv, ReviewSound
<1> QED
  BY <1>1, OneRunReplays DEF RowSound, Finished, Recorded, DoneHasFullLog, SettledAgrees

\* Any number of processes, crashes, re-posts and raising commits: the report,
\* the log and the settled job of a review whose job row nobody touched from
\* outside its run agree with one run of it.  The lease serialises the runs.
THEOREM UntouchedReviews == PipelineSpec => []UntouchedSound
<1>1. ReviewInv => UntouchedSound
  BY SoundParts DEF UntouchedSound, Sole
<1> QED  BY <1>1, ReviewInvariant, PTL

\* In the deployment the project ships, one process with one worker, the log of
\* every review replays one run and the log of a done job is complete, whatever
\* crashes, reclaims and re-posts there are.
THEOREM LogsReplay ==
  ASSUME \A p, w \in Procs : p = w
  PROVE  PipelineSpec => []LogsSound
<1>1. ReviewInv => LogsSound
  BY SoundParts DEF LogsSound, Sole
<1> QED  BY <1>1, ReviewInvariant, PTL

\* In that deployment, as long as no commit of the runner raises, the report of
\* a completed review is that of the run that decided it, and a settled job
\* tells the truth about its review.
THEOREM ReviewsAgree ==
  ASSUME \A p, w \in Procs : p = w, MaxBadCommits = 0
  PROVE  PipelineSpec => []ReviewsSound
<1>1. ReviewInv => ReviewsSound
  BY SoundParts DEF ReviewsSound, Sole
<1> QED  BY <1>1, ReviewInvariant, PTL

=============================================================================
