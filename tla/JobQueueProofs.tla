--------------------------- MODULE JobQueueProofs ---------------------------
(***************************************************************************)
(* Theorems about the job queue, for any number of processes, reviews and  *)
(* requests and any lease, backoff and attempt limit.                      *)
(***************************************************************************)
EXTENDS JobQueue, FiniteSetTheorems, TLAPS

\* The states by name.
LEMMA StateNames ==
  /\ JobStates \subseteq RowStates
  /\ "absent" \in RowStates /\ "absent" \notin JobStates
  /\ "queued" \in JobStates /\ "leased" \in JobStates
  /\ "done" \in JobStates /\ "failed" \in JobStates
<1> QED  BY DEF JobStates, RowStates

\* The ends of the ranges of the timers.
LEMMA TimerEnds ==
  /\ -1 \in -1..LeaseTime /\ LeaseTime \in -1..LeaseTime
  /\ 0 \in 0..Backoff /\ Backoff \in 0..Backoff
<1> QED  BY TimesAssumption

\* The number of rows is a number: reviews are finitely many.
LEMMA EnqueuedFinite == IsFiniteSet(Enqueued) /\ Cardinality(Enqueued) \in Nat
<1>1. Enqueued \subseteq Reviews  BY DEF Enqueued
<1> QED  BY <1>1, ReviewsAssumption, FS_Subset, FS_CardinalityType

\* What the operations do to a row leaves it a row.
LEMMA RowUpdate ==
  ASSUME NEW row \in Job, NEW s \in RowStates, NEW w \in 0..Backoff
  PROVE  [row EXCEPT !.state = s, !.wait = w] \in Job
<1> QED  BY DEF Job

LEMMA RowOlder ==
  ASSUME NEW row \in Job
  PROVE  Older(row) \in Job /\ Older(row).state = row.state
<1> DEFINE l == IF row.lease > -1 THEN row.lease - 1 ELSE row.lease
           w == IF row.wait > 0 THEN row.wait - 1 ELSE row.wait
<1>1. row.lease \in -1..LeaseTime /\ row.wait \in 0..Backoff  BY DEF Job
<1>2. l \in -1..LeaseTime /\ w \in 0..Backoff
  BY <1>1, TimesAssumption
<1>3. Older(row) = [row EXCEPT !.lease = l, !.wait = w]
  BY DEF Older, Job
<1> HIDE DEF l, w
<1> QED  BY <1>2, <1>3 DEF Job

LEMMA RowNew ==
  ASSUME NEW n \in Nat
  PROVE  /\ NoJob \in Job
         /\ [NoJob EXCEPT !.state = "queued", !.born = n] \in Job
<1>1. ASSUME NEW row \in Job, NEW s \in RowStates
      PROVE  [row EXCEPT !.state = s, !.born = n] \in Job
  BY DEF Job
<1>2. NoJob \in Job
  BY TimerEnds, StateNames DEF NoJob, Job
<1>3. "queued" \in RowStates
  BY StateNames
<1> QED  BY <1>1, <1>2, <1>3

LEMMA TypeInit == Init => TypeOK
<1> SUFFICES ASSUME Init PROVE TypeOK
  OBVIOUS
<1>1. NoJob \in Job  BY RowNew
<1>2. NoPlan \in Plan  BY StateNames DEF NoPlan, Plan
<1>3. NoReq \in Req  BY StateNames DEF NoReq, Req
<1> QED
  BY <1>1, <1>2, <1>3, BoundsAssumption, ProcsAssumption, ReviewsAssumption DEF Init, TypeOK, NoReq

LEMMA TypeStep == TypeOK /\ [Next]_qvars => TypeOK'
<1> SUFFICES ASSUME TypeOK, [Next]_qvars PROVE TypeOK'
  OBVIOUS
<1> USE StateNames, TimerEnds, TypeOK, ProcsAssumption, ReviewsAssumption, HomeAssumption, AttemptsAssumption,
        TimesAssumption, BoundsAssumption
<1>1. ASSUME NEW q \in Requests, NEW r \in Reviews, EnqueueLoad(q, r) PROVE TypeOK'
  BY <1>1 DEF TypeOK, EnqueueLoad, Enqueued, Req, Job
<1>2. ASSUME NEW q \in Requests, EnqueueStore(q) PROVE TypeOK'
  <2> DEFINE r == req[q].review
  <2>0. r \in Reviews
    BY <1>2 DEF TypeOK, EnqueueStore, Req
  <2>1. CASE InsertJob(q, r)
    <3>1. [NoJob EXCEPT !.state = "queued", !.born = Cardinality(Enqueued) + 1] \in Job
      <4>1. Cardinality(Enqueued) + 1 \in Nat  BY EnqueuedFinite
      <4> QED  BY <4>1, RowNew
    <3>2. job' \in [Reviews -> Job] /\ Enqueued' = Enqueued \union {r}
      BY <2>0, <2>1, <3>1 DEF TypeOK, InsertJob, Enqueued, NoJob
    <3> QED
      BY <1>2, <2>0, <2>1, <3>2 DEF TypeOK, EnqueueStore, InsertJob, NoReq, Req
  <2>2. CASE InsertConflict(q, r)
    BY <1>2, <2>0, <2>2 DEF TypeOK, EnqueueStore, InsertConflict, Enqueued, NoReq, Req
  <2>3. CASE Rearm(q, r)
    <3>1. job[r] \in Job /\ job[r].state # "absent"
      BY <1>2, <2>0, <2>3 DEF TypeOK, EnqueueStore, Rearm, Enqueued
    <3>2. \A s \in RowStates : [job[r] EXCEPT !.state = s, !.wait = 0] \in Job
      BY <3>1, RowUpdate
    <3>3. [job[r] EXCEPT !.wait = 0] = [job[r] EXCEPT !.state = job[r].state, !.wait = 0]
      BY <3>1 DEF Job
    <3>4. job[r].state \in RowStates
      BY <3>1 DEF Job
    <3>5. \E s \in RowStates : /\ s # "absent"
                             /\ job' = [job EXCEPT ![r] = [job[r] EXCEPT !.state = s, !.wait = 0]]
      <4>1. CASE req[q].seen = "queued"
        <5>1. job' = [job EXCEPT ![r].wait = 0]  BY <2>3, <4>1 DEF Rearm
        <5> QED  BY <5>1, <3>1, <3>3, <3>4
      <4>2. CASE req[q].seen # "queued"
        <5>1. job' = [job EXCEPT ![r].state = "queued", ![r].wait = 0]
          BY <2>3, <4>2 DEF Rearm
        <5>2. job' = [job EXCEPT ![r] = [job[r] EXCEPT !.state = "queued", !.wait = 0]]
          BY <5>1 DEF TypeOK
        <5> QED  BY <5>2
      <4> QED  BY <4>1, <4>2
    <3>6. job' \in [Reviews -> Job] /\ Enqueued' = Enqueued
      <4>1. PICK s \in RowStates :
               /\ s # "absent"
               /\ job' = [job EXCEPT ![r] = [job[r] EXCEPT !.state = s, !.wait = 0]]
        BY <3>5
      <4>2. [job[r] EXCEPT !.state = s, !.wait = 0].state = s
        BY <3>1 DEF Job
      <4>3. job' \in [Reviews -> Job]
        BY <2>0, <3>2, <4>1 DEF TypeOK
      <4>4. Enqueued' = Enqueued
        BY <2>0, <3>1, <4>1, <4>2 DEF TypeOK, Enqueued
      <4> QED  BY <4>3, <4>4
    <3>7. rearms' \in [Reviews -> Nat]
      BY <2>0, <2>3 DEF TypeOK, Rearm
    <3> QED
      BY <1>2, <2>0, <3>6, <3>7 DEF TypeOK, EnqueueStore, NoReq, Req
  <2> QED  BY <1>2, <2>1, <2>2, <2>3 DEF EnqueueStore
<1>3. ASSUME NEW p \in Procs, BootLoad(p) PROVE TypeOK'
  BY <1>3 DEF TypeOK, BootLoad, Enqueued, Job
<1>4. ASSUME NEW p \in Procs, BootStore(p) PROVE TypeOK'
  <2>1. \A r \in Reviews : [job[r] EXCEPT !.state = "queued", !.wait = 0] \in Job
    BY RowUpdate DEF TypeOK
  <2>2. job' \in [Reviews -> Job]
    BY <1>4, <2>1 DEF TypeOK, BootStore
  <2>3. Enqueued' = Enqueued
    <3>1. \A r \in Reviews : [job[r] EXCEPT !.state = "queued", !.wait = 0].state = "queued"
      BY DEF TypeOK, Job
    <3>2. \A r \in Reviews : job'[r].state = IF r \in orphans[p] THEN "queued" ELSE job[r].state
      BY <1>4, <3>1 DEF BootStore
    <3>3. \A r \in orphans[p] : job[r].state # "absent"
      BY DEF TypeOK, Enqueued
    <3> QED  BY <3>2, <3>3 DEF Enqueued
  <2>4. rearms' \in [Reviews -> Nat]
    <3>1. \A r \in Reviews : rearms[r] \in Nat /\ rearms[r] + 1 \in Nat  BY DEF TypeOK
    <3>2. rearms' = [r \in Reviews |-> IF r \in orphans[p] THEN rearms[r] + 1 ELSE rearms[r]]
      BY <1>4 DEF BootStore
    <3> QED  BY <3>1, <3>2
  <2>5. orphans' \in [Procs -> SUBSET Enqueued']
    BY <1>4, <2>3 DEF TypeOK, BootStore
  <2> QED
    BY <1>4, <2>2, <2>3, <2>4, <2>5 DEF TypeOK, BootStore
<1>5. ASSUME NEW p \in Procs, NEW r \in Reviews, Claim(p, r) PROVE TypeOK'
  <2>1. job' \in [Reviews -> Job] /\ Enqueued' = Enqueued /\ r \in Enqueued
    BY <1>5 DEF TypeOK, Claim, Claimable, Enqueued, Job
  <2> QED
    BY <1>5, <2>1 DEF TypeOK, Claim
<1>6. ASSUME NEW p \in Procs, NEW ok \in BOOLEAN, SettleLoad(p, ok) PROVE TypeOK'
  <2>1. plan' \in [Procs -> Plan]
    BY <1>6 DEF TypeOK, SettleLoad, Verdict, Plan
  <2> QED
    BY <1>6, <2>1 DEF TypeOK, SettleLoad, Enqueued
<1>7. ASSUME NEW p \in Procs, SettleStore(p) PROVE TypeOK'
  <2>1. doing[p] \in Reviews /\ job[doing[p]].state # "absent"
    BY <1>7 DEF TypeOK, SettleStore, Enqueued
  <2> DEFINE row == job[doing[p]]
             s == IF plan[p].dirty THEN plan[p].to ELSE row.state
             w == IF plan[p].to = "queued" THEN Backoff ELSE row.wait
  <2>a. row \in Job
    BY <2>1 DEF TypeOK
  <2>b. s \in JobStates /\ w \in 0..Backoff
    <3>1. plan[p] \in Plan  BY DEF TypeOK
    <3>2. plan[p].to \in JobStates /\ row.state \in RowStates /\ row.wait \in 0..Backoff
      BY <3>1, <2>a DEF Plan, Job
    <3>3. row.state \in JobStates
      BY <2>1, <3>2 DEF JobStates, RowStates
    <3> QED  BY <3>2, <3>3
  <2>c. job' = [job EXCEPT ![doing[p]] = [row EXCEPT !.state = s, !.wait = w]]
    BY <1>7, <2>a DEF SettleStore, Job
  <2>d. [row EXCEPT !.state = s, !.wait = w] \in Job
    BY <2>a, <2>b, RowUpdate
  <2>e. [row EXCEPT !.state = s, !.wait = w].state # "absent"
    BY <2>a, <2>b DEF Job
  <2>2. job' \in [Reviews -> Job] /\ Enqueued' = Enqueued
    <3> HIDE DEF row, s, w
    <3> QED
      BY <2>1, <2>c, <2>d, <2>e DEF TypeOK, Enqueued
  <2>3. plan' \in [Procs -> Plan]
    BY <1>7 DEF TypeOK, SettleStore, LetGo, NoPlan, Plan
  <2> QED
    BY <1>7, <2>2, <2>3 DEF TypeOK, SettleStore, LetGo
<1>8. ASSUME NEW p \in Procs, SettleLost(p) PROVE TypeOK'
  <2>1. plan' \in [Procs -> Plan]
    BY <1>8 DEF TypeOK, SettleLost, LetGo, NoPlan, Plan
  <2> QED
    BY <1>8, <2>1 DEF TypeOK, SettleLost, LetGo, Enqueued
<1>9. ASSUME NEW p \in Procs, Crash(p) PROVE TypeOK'
  <2>1. plan' \in [Procs -> Plan]
    BY <1>9 DEF TypeOK, Crash, LetGo, NoPlan, Plan
  <2>2. req' \in [Requests -> Req]
    BY <1>9 DEF TypeOK, Crash, NoReq, Req
  <2> QED
    BY <1>9, <2>1, <2>2 DEF TypeOK, Crash, LetGo, Enqueued, NoReq
<1>10. ASSUME Tick PROVE TypeOK'
  <2>1. job' \in [Reviews -> Job] /\ Enqueued' = Enqueued
    BY <1>10, RowOlder DEF TypeOK, Tick, Enqueued
  <2> QED
    BY <1>10, <2>1 DEF TypeOK, Tick
<1>11. CASE UNCHANGED qvars
  BY <1>11 DEF TypeOK, qvars, Enqueued
<1> QED
  BY <1>1, <1>2, <1>3, <1>4, <1>5, <1>6, <1>7, <1>8, <1>9, <1>10, <1>11 DEF Next

\* The type invariant holds in every behaviour of the queue, for every number
\* of processes, requests and reviews.
THEOREM TypeCorrect == Spec => []TypeOK
<1> QED  BY TypeInit, TypeStep, PTL DEF Spec

-----------------------------------------------------------------------------
(* Exclusion and the retry budget.                                          *)

\* What a step does to the sets of workers the invariant counts.
LEMMA WorkCounts ==
  \A r : /\ IsFiniteSet(Busy(r)) /\ Cardinality(Busy(r)) \in Nat
        /\ IsFiniteSet(Requeuing(r)) /\ Cardinality(Requeuing(r)) \in Nat
        /\ Cardinality(Requeuing(r)) <= Cardinality(Busy(r))
<1> TAKE r
<1>1. Busy(r) \subseteq Procs /\ Requeuing(r) \subseteq Busy(r)
  BY DEF Busy, Requeuing
<1>2. IsFiniteSet(Busy(r))  BY <1>1, ProcsAssumption, FS_Subset
<1>3. IsFiniteSet(Requeuing(r)) /\ Cardinality(Requeuing(r)) <= Cardinality(Busy(r))
  BY <1>1, <1>2, FS_Subset
<1> QED  BY <1>2, <1>3, FS_CardinalityType

LEMMA SameWork ==
  ASSUME UNCHANGED <<doing, plan>>
  PROVE  \A r : Busy(r)' = Busy(r) /\ Requeuing(r)' = Requeuing(r)
<1> QED  BY DEF Busy, Requeuing

LEMMA LetGoWork ==
  ASSUME TypeOK, NEW p \in Procs, LetGo(p)
  PROVE  \A r \in Reviews : Busy(r)' = Busy(r) \ {p} /\ Requeuing(r)' = Requeuing(r) \ {p}
<1> TAKE r \in Reviews
<1>1. doing'[p] = None /\ \A s \in Procs \ {p} : doing'[s] = doing[s] /\ plan'[s] = plan[s]
  BY DEF TypeOK, LetGo
<1>2. r # None  BY ReviewsAssumption
<1> QED  BY <1>1, <1>2 DEF Busy, Requeuing

\* The counts of a worker that lets its job go.
LEMMA LetGoCounts ==
  ASSUME TypeOK, NEW p \in Procs, LetGo(p), NEW r \in Reviews
  PROVE  /\ Cardinality(Busy(r)') = Cardinality(Busy(r)) - (IF p \in Busy(r) THEN 1 ELSE 0)
         /\ Cardinality(Requeuing(r)') =
              Cardinality(Requeuing(r)) - (IF p \in Requeuing(r) THEN 1 ELSE 0)
<1>1. Busy(r)' = Busy(r) \ {p} /\ Requeuing(r)' = Requeuing(r) \ {p}  BY LetGoWork
<1>2. Cardinality(Busy(r) \ {p}) =
        IF p \in Busy(r) THEN Cardinality(Busy(r)) - 1 ELSE Cardinality(Busy(r))
  BY WorkCounts, FS_RemoveElement
<1>3. Cardinality(Requeuing(r) \ {p}) =
        IF p \in Requeuing(r) THEN Cardinality(Requeuing(r)) - 1 ELSE Cardinality(Requeuing(r))
  BY WorkCounts, FS_RemoveElement
<1> QED  BY <1>1, <1>2, <1>3, WorkCounts

LEMMA RowNumbers ==
  ASSUME TypeOK, NEW r \in Reviews
  PROVE  /\ job[r].attempts \in Nat /\ rearms[r] \in Nat /\ Queued(r) \in 0..1
         /\ job[r].state \in RowStates
<1> QED  BY DEF TypeOK, Job, Queued

\* The part of the invariant about one review.
Counted(r) ==
    /\ Cardinality(Busy(r)) + Queued(r) <= 1 + rearms[r]
    /\ job[r].attempts + Queued(r) + Cardinality(Requeuing(r)) <= MaxAttempts + rearms[r]

\* A step that touches neither the workers' memory nor the part of the row that
\* is counted keeps the counts, and so does one that accounts for a re-arm.
LEMMA CountedSame ==
  ASSUME TypeOK, TypeOK', NEW r \in Reviews, Counted(r),
         Busy(r)' = Busy(r), Requeuing(r)' = Requeuing(r),
         job'[r].attempts = job[r].attempts,
         \/ job'[r].state = job[r].state /\ rearms'[r] = rearms[r]
         \/ rearms'[r] = rearms[r] + 1
  PROVE  Counted(r)'
<1>1. /\ job[r].attempts \in Nat /\ rearms[r] \in Nat /\ rearms'[r] \in Nat
      /\ Queued(r) \in 0..1 /\ Queued(r)' \in 0..1
  BY RowNumbers DEF TypeOK, Queued
<1>2. \/ Queued(r)' = Queued(r) /\ rearms'[r] = rearms[r]
      \/ rearms'[r] = rearms[r] + 1
  BY DEF Queued
<1>3. Cardinality(Busy(r)) \in Nat /\ Cardinality(Requeuing(r)) \in Nat  BY WorkCounts
<1> QED  BY <1>1, <1>2, <1>3, AttemptsAssumption DEF Counted

LEMMA CountedEnqueueStore ==
  ASSUME TypeOK, TypeOK', NEW q \in Requests, EnqueueStore(q), NEW r \in Reviews, Counted(r)
  PROVE  Counted(r)'
<1>1. Busy(r)' = Busy(r) /\ Requeuing(r)' = Requeuing(r)
  BY SameWork DEF EnqueueStore
<1> DEFINE s == req[q].review
<1>2. s \in Reviews  BY DEF TypeOK, EnqueueStore, Req
<1>3. CASE InsertJob(q, s) /\ r = s
  <2>1. job[r].state = "absent" /\ rearms'[r] = rearms[r]
    BY <1>3 DEF InsertJob
  <2>2. job'[r].state = "queued" /\ job'[r].attempts = 0
    BY <1>2, <1>3 DEF InsertJob, TypeOK, NoJob
  <2>3. Busy(r) = {} /\ Requeuing(r) = {}
    <3>1. r \notin Enqueued /\ r # None  BY <2>1, ReviewsAssumption DEF Enqueued
    <3>2. \A p \in Procs : doing[p] # r  BY <3>1 DEF TypeOK
    <3> QED  BY <3>2 DEF Busy, Requeuing
  <2>4. Cardinality(Busy(r)') = 0 /\ Cardinality(Requeuing(r)') = 0 /\ Queued(r)' = 1
    BY <1>1, <2>2, <2>3, FS_EmptySet DEF Queued
  <2> QED  BY <2>1, <2>2, <2>4, RowNumbers, AttemptsAssumption DEF Counted
<1>4. CASE InsertJob(q, s) /\ r # s
  <2>1. job'[r] = job[r] /\ rearms'[r] = rearms[r]
    BY <1>2, <1>4 DEF InsertJob, TypeOK
  <2> QED  BY <1>1, <2>1, CountedSame
<1>5. CASE InsertConflict(q, s)
  <2>1. job'[r] = job[r] /\ rearms'[r] = rearms[r]
    BY <1>5 DEF InsertConflict
  <2> QED  BY <1>1, <2>1, CountedSame
<1>6. CASE Rearm(q, s)
  <2>1. job[r] \in Job  BY DEF TypeOK
  <2>2. CASE req[q].seen = "queued"
    <3>1. job'[r] \in {job[r], [job[r] EXCEPT !.wait = 0]} /\ rearms'[r] = rearms[r]
      BY <1>2, <1>6, <2>2 DEF Rearm, TypeOK
    <3>2. job'[r].attempts = job[r].attempts /\ job'[r].state = job[r].state
      BY <2>1, <3>1 DEF Job
    <3> QED  BY <1>1, <3>1, <3>2, CountedSame
  <2>3. CASE req[q].seen # "queued" /\ r = s
    <3>1. job'[r] = [job[r] EXCEPT !.state = "queued", !.wait = 0] /\ rearms'[r] = rearms[r] + 1
      BY <1>2, <1>6, <2>3 DEF Rearm, TypeOK
    <3>2. job'[r].attempts = job[r].attempts
      BY <2>1, <3>1 DEF Job
    <3> QED  BY <1>1, <3>1, <3>2, CountedSame
  <2>4. CASE req[q].seen # "queued" /\ r # s
    <3>1. job'[r] = job[r] /\ rearms'[r] = rearms[r]
      BY <1>2, <1>6, <2>4 DEF Rearm, TypeOK
    <3> QED  BY <1>1, <3>1, CountedSame
  <2> QED  BY <2>2, <2>3, <2>4
<1> QED  BY <1>3, <1>4, <1>5, <1>6 DEF EnqueueStore

LEMMA CountedBootStore ==
  ASSUME TypeOK, TypeOK', NEW p \in Procs, BootStore(p), NEW r \in Reviews, Counted(r)
  PROVE  Counted(r)'
<1>1. Busy(r)' = Busy(r) /\ Requeuing(r)' = Requeuing(r)
  BY SameWork DEF BootStore
<1>2. job[r] \in Job  BY DEF TypeOK
<1>3. CASE r \in orphans[p]
  <2>1. job'[r] = [job[r] EXCEPT !.state = "queued", !.wait = 0] /\ rearms'[r] = rearms[r] + 1
    BY <1>3 DEF BootStore
  <2>2. job'[r].attempts = job[r].attempts  BY <1>2, <2>1 DEF Job
  <2> QED  BY <1>1, <2>1, <2>2, CountedSame
<1>4. CASE r \notin orphans[p]
  <2>1. job'[r] = job[r] /\ rearms'[r] = rearms[r]  BY <1>4 DEF BootStore
  <2> QED  BY <1>1, <2>1, CountedSame
<1> QED  BY <1>3, <1>4

\* A claim turns a queued row into one more busy worker and one more attempt.
LEMMA CountedClaim ==
  ASSUME TypeOK, PlansSettle, NEW p \in Procs, NEW s \in Reviews, Claim(p, s),
         NEW r \in Reviews, Counted(r)
  PROVE  Counted(r)'
<1>1. plan[p] = NoPlan /\ plan' = plan /\ rearms' = rearms
  BY DEF Claim, PlansSettle
<1>2. doing[p] = None /\ doing' = [doing EXCEPT ![p] = s]
  BY DEF Claim, TypeOK
<1>3. Requeuing(r)' = Requeuing(r)
  BY <1>1, <1>2 DEF Requeuing, NoPlan, TypeOK
<1>4. job[r] \in Job /\ s \in Claimable  BY DEF TypeOK, Claim
<1>5. CASE r = s
  <2>1. Busy(r)' = Busy(r) \union {p}
    BY <1>2, <1>5 DEF Busy, TypeOK
  <2>a. Cardinality(Busy(r) \union {p}) =
          IF p \in Busy(r) THEN Cardinality(Busy(r)) ELSE Cardinality(Busy(r)) + 1
    BY WorkCounts, FS_AddElement
  <2>2. Cardinality(Busy(r)') <= Cardinality(Busy(r)) + 1
    BY <2>1, <2>a, WorkCounts
  <2>3. job[r].state = "queued"  BY <1>4, <1>5 DEF Claimable
  <2>4. job'[r] = [job[r] EXCEPT !.state = "leased", !.owner = p,
                                 !.lease = LeaseTime, !.attempts = job[r].attempts + 1]
    BY <1>5 DEF Claim, TypeOK
  <2>5. job'[r].state = "leased" /\ job'[r].attempts = job[r].attempts + 1
    BY <1>4, <2>4 DEF Job
  <2>6. Queued(r) = 1 /\ Queued(r)' = 0
    BY <2>3, <2>5 DEF Queued
  <2>7. Cardinality(Busy(r)') \in Nat
    BY <2>1, <2>a, WorkCounts
  <2> QED
    BY <1>1, <1>3, <2>2, <2>5, <2>6, <2>7, RowNumbers, WorkCounts, AttemptsAssumption DEF Counted
<1>6. CASE r # s
  <2>1. job'[r] = job[r]  BY <1>6 DEF Claim, TypeOK
  <2>2. Queued(r)' = Queued(r)  BY <2>1 DEF Queued
  <2>3. r # None  BY ReviewsAssumption
  <2>4. Busy(r)' = Busy(r)  BY <1>2, <1>6, <2>3 DEF Busy, TypeOK
  <2> QED  BY <1>1, <1>3, <2>1, <2>2, <2>4 DEF Counted
<1> QED  BY <1>5, <1>6

\* A worker that decides to put its job back has read attempts < MaxAttempts,
\* and is one of at most 1 + rearms workers that hold the job.
LEMMA CountedSettleLoad ==
  ASSUME TypeOK, PlansSettle, NEW p \in Procs, NEW ok \in BOOLEAN, SettleLoad(p, ok),
         NEW r \in Reviews, Counted(r)
  PROVE  Counted(r)'
<1> DEFINE row == job[doing[p]]
<1>1. job' = job /\ rearms' = rearms /\ doing' = doing
  BY DEF SettleLoad
<1>2. plan' = [plan EXCEPT ![p] = [to |-> Verdict(ok, row), dirty |-> row.state # Verdict(ok, row)]]
  BY DEF SettleLoad
<1>3. Busy(r)' = Busy(r)  BY <1>1 DEF Busy
<1>4. Queued(r)' = Queued(r)  BY <1>1 DEF Queued
<1>5. CASE doing[p] = r /\ Verdict(ok, row) = "queued" /\ row.state # "queued"
  <2>1. job[r].attempts < MaxAttempts
    <3>1. ~(row.attempts >= MaxAttempts)  BY <1>5 DEF Verdict
    <3> QED  BY <1>5, <3>1, RowNumbers, AttemptsAssumption
  <2>2. Queued(r) = 0  BY <1>5 DEF Queued
  <2>3. Requeuing(r)' \subseteq Busy(r)  BY <1>3 DEF Requeuing, Busy
  <2>4. Cardinality(Requeuing(r)') <= Cardinality(Busy(r)) /\ IsFiniteSet(Requeuing(r)')
    BY <2>3, WorkCounts, FS_Subset
  <2>5. Cardinality(Requeuing(r)') \in Nat  BY <2>4, FS_CardinalityType
  <2> QED
    BY <1>1, <1>3, <1>4, <2>1, <2>2, <2>4, <2>5, RowNumbers, WorkCounts, AttemptsAssumption
    DEF Counted
<1>6. CASE ~(doing[p] = r /\ Verdict(ok, row) = "queued" /\ row.state # "queued")
  <2>1. p \notin Requeuing(r)'
    <3>1. plan'[p] = [to |-> Verdict(ok, row), dirty |-> row.state # Verdict(ok, row)]
      BY <1>2 DEF TypeOK
    <3>2. CASE row.state = Verdict(ok, row)
      <4>1. plan'[p] = [to |-> Verdict(ok, row), dirty |-> FALSE]  BY <3>1, <3>2
      <4> QED  BY <4>1 DEF Requeuing
    <3>3. CASE row.state # Verdict(ok, row)
      <4>1. plan'[p].to = Verdict(ok, row)  BY <3>1
      <4> QED  BY <1>1, <1>6, <3>3, <4>1 DEF Requeuing
    <3> QED  BY <3>2, <3>3
  <2>2. Requeuing(r)' \subseteq Requeuing(r)
    BY <1>1, <1>2, <2>1 DEF Requeuing, TypeOK
  <2>3. Cardinality(Requeuing(r)') <= Cardinality(Requeuing(r)) /\ IsFiniteSet(Requeuing(r)')
    BY <2>2, WorkCounts, FS_Subset
  <2>4. Cardinality(Requeuing(r)') \in Nat  BY <2>3, FS_CardinalityType
  <2> QED
    BY <1>1, <1>3, <1>4, <2>3, <2>4, RowNumbers, WorkCounts, AttemptsAssumption DEF Counted
<1> QED  BY <1>5, <1>6

LEMMA CountedLetGo ==
  ASSUME TypeOK, NEW p \in Procs, LetGo(p), NEW r \in Reviews, Counted(r),
         rearms' = rearms, job'[r] = job[r]
  PROVE  Counted(r)'
<1>1. /\ Cardinality(Busy(r)') <= Cardinality(Busy(r)) /\ Cardinality(Busy(r)') \in Int
      /\ Cardinality(Requeuing(r)') <= Cardinality(Requeuing(r))
      /\ Cardinality(Requeuing(r)') \in Int
  BY LetGoCounts, WorkCounts
<1>2. Queued(r)' = Queued(r)  BY DEF Queued
<1> QED  BY <1>1, <1>2, WorkCounts, RowNumbers, AttemptsAssumption DEF Counted

LEMMA CountedSettleStore ==
  ASSUME TypeOK, NEW p \in Procs, SettleStore(p), NEW r \in Reviews, Counted(r)
  PROVE  Counted(r)'
<1>1. LetGo(p) /\ rearms' = rearms  BY DEF SettleStore
<1>2. CASE doing[p] # r
  <2>1. job'[r] = job[r]  BY <1>2 DEF SettleStore, TypeOK
  <2> QED  BY <1>1, <2>1, CountedLetGo
<1>3. CASE doing[p] = r
  <2>1. p \in Busy(r)  BY <1>3 DEF Busy
  <2>2. /\ Cardinality(Busy(r)') = Cardinality(Busy(r)) - 1
        /\ Cardinality(Requeuing(r)') =
              Cardinality(Requeuing(r)) - (IF p \in Requeuing(r) THEN 1 ELSE 0)
    BY <1>1, <2>1, LetGoCounts
  <2>3. job[r] \in Job /\ plan[p] \in Plan  BY DEF TypeOK
  <2>4. job'[r] = [job[r] EXCEPT !.state = IF plan[p].dirty THEN plan[p].to ELSE @,
                                 !.wait  = IF plan[p].to = "queued" THEN Backoff ELSE @]
    BY <1>3 DEF SettleStore, TypeOK
  <2>5. /\ job'[r].attempts = job[r].attempts
        /\ job'[r].state = IF plan[p].dirty THEN plan[p].to ELSE job[r].state
    BY <2>3, <2>4 DEF Job
  <2>6. plan[p].dirty \in BOOLEAN  BY <2>3 DEF Plan
  <2>7. Cardinality(Busy(r)) \in Nat /\ Cardinality(Requeuing(r)) \in Nat  BY WorkCounts
  <2>8. CASE plan[p].dirty /\ plan[p].to = "queued"
    <3>1. p \in Requeuing(r) /\ Queued(r)' = 1
      BY <1>3, <2>5, <2>8 DEF Requeuing, Queued
    <3> QED
      BY <1>1, <2>2, <2>5, <2>7, <3>1, RowNumbers, AttemptsAssumption DEF Counted
  <2>9. CASE ~(plan[p].dirty /\ plan[p].to = "queued")
    <3>1. Queued(r)' <= Queued(r) /\ Queued(r)' \in 0..1
      BY <2>5, <2>6, <2>9 DEF Queued
    <3> QED
      BY <1>1, <2>2, <2>5, <2>7, <3>1, RowNumbers, AttemptsAssumption DEF Counted
  <2> QED  BY <2>8, <2>9
<1> QED  BY <1>2, <1>3

LEMMA CountedTick ==
  ASSUME TypeOK, TypeOK', Tick, NEW r \in Reviews, Counted(r)
  PROVE  Counted(r)'
<1>1. Busy(r)' = Busy(r) /\ Requeuing(r)' = Requeuing(r)  BY SameWork DEF Tick
<1>2. job[r] \in Job  BY DEF TypeOK
<1>3. job'[r] = Older(job[r]) /\ rearms'[r] = rearms[r]  BY DEF Tick
<1>4. job'[r].state = job[r].state /\ job'[r].attempts = job[r].attempts
  BY <1>2, <1>3 DEF Older, Job
<1> QED  BY <1>1, <1>3, <1>4, CountedSame

LEMMA SpentEnqueue ==
  ASSUME TypeOK, GivesUpOnlySpent, PlansSpent, NEW q \in Requests, EnqueueStore(q)
  PROVE  GivesUpOnlySpent' /\ PlansSpent'
<1> DEFINE s == req[q].review
<1>1. s \in Reviews  BY DEF TypeOK, EnqueueStore, Req
<1>2. ASSUME NEW r \in Reviews
      PROVE  /\ job'[r].state = "failed" => job[r].state = "failed"
             /\ job[r].state # "absent" => job'[r].attempts = job[r].attempts
  <2>1. job[r] \in Job  BY DEF TypeOK
  <2>2. CASE InsertJob(q, s)
    <3>1. r = s => job[r].state = "absent" /\ job'[r].state = "queued"
      BY <2>2 DEF InsertJob, TypeOK, NoJob
    <3>2. r # s => job'[r] = job[r]
      BY <1>1, <2>2 DEF InsertJob, TypeOK
    <3> QED  BY <3>1, <3>2
  <2>3. CASE InsertConflict(q, s)
    BY <2>3 DEF InsertConflict
  <2>4. CASE Rearm(q, s)
    <3>1. \/ job'[r] = job[r]
          \/ job'[r] = [job[r] EXCEPT !.wait = 0]
          \/ job'[r] = [job[r] EXCEPT !.state = "queued", !.wait = 0]
      <4>1. job \in [Reviews -> Job]  BY DEF TypeOK
      <4>2. CASE job' = [job EXCEPT ![s].wait = 0]
        BY <1>1, <4>1, <4>2
      <4>3. CASE job' = [job EXCEPT ![s].state = "queued", ![s].wait = 0]
        <5>1. job' = [job EXCEPT ![s] = [job[s] EXCEPT !.state = "queued", !.wait = 0]]
          BY <4>1, <4>3
        <5> HIDE DEF s
        <5>2. CASE r = s
          BY <1>1, <4>1, <5>1, <5>2
        <5>3. CASE r # s
          BY <1>1, <4>1, <5>1, <5>3
        <5> QED  BY <5>2, <5>3
      <4> QED  BY <2>4, <4>2, <4>3 DEF Rearm
    <3> QED  BY <2>1, <3>1 DEF Job
  <2> QED  BY <2>2, <2>3, <2>4 DEF EnqueueStore
<1>3. \A r \in Reviews : job[r].state = "absent" => job'[r].state # "failed"
  BY <1>2
<1>4. GivesUpOnlySpent'
  BY <1>2, <1>3 DEF GivesUpOnlySpent
<1>5. pc' = pc /\ plan' = plan /\ doing' = doing  BY DEF EnqueueStore
<1>6. \A p \in Procs : pc[p] = "settling" => doing[p] \in Reviews /\ job[doing[p]].state # "absent"
  BY DEF TypeOK, Enqueued
<1> QED  BY <1>2, <1>4, <1>5, <1>6 DEF PlansSpent

\* Every other step changes the state of a row to failed, if at all, only as
\* planned, and never lowers attempts.
LEMMA SpentRest ==
  ASSUME TypeOK, TypeOK', GivesUpOnlySpent, PlansSpent,
         \A r \in Reviews : job'[r].state = "failed" =>
            \/ job[r].state = "failed"
            \/ \E p \in Procs : pc[p] = "settling" /\ doing[p] = r /\ plan[p].to = "failed",
         \A r \in Reviews : job'[r].attempts >= job[r].attempts,
         \A p \in Procs : pc'[p] = "settling" /\ plan'[p].to = "failed" =>
            \/ pc[p] = "settling" /\ plan[p].to = "failed" /\ doing'[p] = doing[p]
            \/ job'[doing'[p]].attempts >= MaxAttempts
  PROVE  GivesUpOnlySpent' /\ PlansSpent'
<1>1. \A r \in Reviews : job[r].attempts \in Nat /\ job'[r].attempts \in Nat
  BY DEF TypeOK, Job
<1>2. GivesUpOnlySpent'
  BY <1>1, AttemptsAssumption DEF GivesUpOnlySpent, PlansSpent
<1>3. \A p \in Procs : pc[p] = "settling" => doing[p] \in Reviews
  BY DEF TypeOK
<1>4. PlansSpent'
  BY <1>1, <1>3, AttemptsAssumption DEF PlansSpent
<1> QED  BY <1>2, <1>4

LEMMA QueueInvInit == Init => QueueInv
<1> SUFFICES ASSUME Init PROVE QueueInv
  OBVIOUS
<1>1. TypeOK  BY TypeInit
<1>2. PlansSettle /\ PlansSpent /\ GivesUpOnlySpent
  BY DEF Init, PlansSettle, PlansSpent, GivesUpOnlySpent, NoJob
<1>3. ASSUME NEW r \in Reviews PROVE Counted(r)
  <2>1. Busy(r) = {} /\ Requeuing(r) = {}
    BY ReviewsAssumption DEF Init, Busy, Requeuing
  <2>2. Queued(r) = 0 /\ job[r].attempts = 0 /\ rearms[r] = 0
    BY DEF Init, NoJob, Queued
  <2> QED  BY <2>1, <2>2, FS_EmptySet, AttemptsAssumption DEF Counted
<1> QED  BY <1>1, <1>2, <1>3 DEF QueueInv, RunsBounded, BudgetBounded, Counted

LEMMA QueueInvStep == QueueInv /\ [Next]_qvars => QueueInv'
<1> SUFFICES ASSUME QueueInv, [Next]_qvars PROVE QueueInv'
  OBVIOUS
<1>0. /\ TypeOK /\ PlansSettle /\ PlansSpent /\ GivesUpOnlySpent
      /\ \A r \in Reviews : Counted(r)
  BY DEF QueueInv, RunsBounded, BudgetBounded, Counted
<1>t. TypeOK'  BY <1>0, TypeStep
<1> SUFFICES /\ \A r \in Reviews : Counted(r)'
             /\ PlansSettle' /\ PlansSpent' /\ GivesUpOnlySpent'
  BY <1>t DEF QueueInv, RunsBounded, BudgetBounded, Counted
<1> USE <1>0, <1>t
<1>r. \A r \in Reviews : job[r] \in Job /\ job[r].attempts \in Nat
  BY DEF TypeOK, Job
<1>s. ASSUME job' = job, rearms' = rearms, UNCHANGED <<doing, plan>>,
             \A p \in Procs : pc'[p] = "settling" <=> pc[p] = "settling"
      PROVE  /\ \A r \in Reviews : Counted(r)'
             /\ PlansSettle' /\ PlansSpent' /\ GivesUpOnlySpent'
  <2>1. ASSUME NEW r \in Reviews PROVE Counted(r)'
    BY <1>s, SameWork, CountedSame
  <2>2. PlansSettle' /\ PlansSpent' /\ GivesUpOnlySpent'
    BY <1>s DEF PlansSettle, PlansSpent, GivesUpOnlySpent
  <2> QED  BY <2>1, <2>2
<1>1. ASSUME NEW q \in Requests, NEW r \in Reviews, EnqueueLoad(q, r)
      PROVE  (\A s \in Reviews : Counted(s)') /\ PlansSettle' /\ PlansSpent' /\ GivesUpOnlySpent'
  BY <1>1, <1>s DEF EnqueueLoad
<1>2. ASSUME NEW q \in Requests, EnqueueStore(q)
      PROVE  (\A r \in Reviews : Counted(r)') /\ PlansSettle' /\ PlansSpent' /\ GivesUpOnlySpent'
  <2>1. PlansSettle'  BY <1>2 DEF PlansSettle, EnqueueStore
  <2> QED  BY <1>2, <2>1, CountedEnqueueStore, SpentEnqueue
<1>3. ASSUME NEW p \in Procs, BootLoad(p)
      PROVE  (\A r \in Reviews : Counted(r)') /\ PlansSettle' /\ PlansSpent' /\ GivesUpOnlySpent'
  <2>1. \A s \in Procs : pc'[s] = "settling" <=> pc[s] = "settling"
    BY <1>3 DEF BootLoad, TypeOK
  <2> QED  BY <1>3, <2>1, <1>s DEF BootLoad
<1>4. ASSUME NEW p \in Procs, BootStore(p)
      PROVE  (\A r \in Reviews : Counted(r)') /\ PlansSettle' /\ PlansSpent' /\ GivesUpOnlySpent'
  <2>1. PlansSettle'  BY <1>4 DEF PlansSettle, BootStore, TypeOK
  <2>2. \A s \in Procs : pc'[s] = "settling" => pc[s] = "settling"
    BY <1>4 DEF BootStore, TypeOK
  <2>3. ASSUME NEW r \in Reviews
        PROVE  /\ job'[r].state = "failed" => job[r].state = "failed"
               /\ job'[r].attempts = job[r].attempts
    <3>1. job'[r] \in {job[r], [job[r] EXCEPT !.state = "queued", !.wait = 0]}
      BY <1>4 DEF BootStore
    <3> QED  BY <3>1, <1>r DEF Job
  <2>4. PlansSpent' /\ GivesUpOnlySpent'
    <3>1. plan' = plan /\ doing' = doing  BY <1>4 DEF BootStore
    <3>2. \A r \in Reviews : job'[r].attempts >= job[r].attempts  BY <1>r, <2>3
    <3> QED  BY <2>2, <2>3, <3>1, <3>2, SpentRest
  <2> QED  BY <1>4, <2>1, <2>4, CountedBootStore
<1>5. ASSUME NEW p \in Procs, NEW s \in Reviews, Claim(p, s)
      PROVE  (\A r \in Reviews : Counted(r)') /\ PlansSettle' /\ PlansSpent' /\ GivesUpOnlySpent'
  <2>1. PlansSettle'  BY <1>5 DEF PlansSettle, Claim, TypeOK
  <2>2. \A w \in Procs : pc'[w] = "settling" => pc[w] = "settling" /\ doing'[w] = doing[w]
    BY <1>5 DEF Claim, TypeOK
  <2>3. ASSUME NEW r \in Reviews
        PROVE  /\ job'[r].state = "failed" => job[r].state = "failed"
               /\ job'[r].attempts >= job[r].attempts
    <3>1. \/ job'[r] = job[r]
          \/ job'[r] = [job[r] EXCEPT !.state = "leased", !.owner = p,
                                     !.lease = LeaseTime, !.attempts = job[r].attempts + 1]
      BY <1>5 DEF Claim, TypeOK
    <3>2. \/ job'[r] = job[r]
          \/ job'[r].state = "leased" /\ job'[r].attempts = job[r].attempts + 1
      BY <3>1, <1>r DEF Job
    <3> QED  BY <3>2, <1>r
  <2>4. PlansSpent' /\ GivesUpOnlySpent'
    <3>1. plan' = plan  BY <1>5 DEF Claim
    <3> QED  BY <2>2, <2>3, <3>1, SpentRest
  <2> QED  BY <1>5, <2>1, <2>4, CountedClaim
<1>6. ASSUME NEW p \in Procs, NEW ok \in BOOLEAN, SettleLoad(p, ok)
      PROVE  (\A r \in Reviews : Counted(r)') /\ PlansSettle' /\ PlansSpent' /\ GivesUpOnlySpent'
  <2>1. PlansSettle'  BY <1>6 DEF PlansSettle, SettleLoad, TypeOK
  <2>2. job' = job /\ doing' = doing  BY <1>6 DEF SettleLoad
  <2>3. \A w \in Procs \ {p} : pc'[w] = pc[w] /\ plan'[w] = plan[w]
    BY <1>6 DEF SettleLoad, TypeOK
  <2>4. plan'[p].to = Verdict(ok, job[doing[p]])
    BY <1>6 DEF SettleLoad, TypeOK
  <2>5. plan'[p].to = "failed" => job'[doing'[p]].attempts >= MaxAttempts
    BY <2>2, <2>4 DEF Verdict
  <2>6. \A r \in Reviews : job'[r].attempts >= job[r].attempts
    BY <1>r, <2>2
  <2>7. PlansSpent' /\ GivesUpOnlySpent'
    BY <2>2, <2>3, <2>5, <2>6, SpentRest
  <2> QED  BY <1>6, <2>1, <2>7, CountedSettleLoad
<1>7. ASSUME NEW p \in Procs, SettleStore(p)
      PROVE  (\A r \in Reviews : Counted(r)') /\ PlansSettle' /\ PlansSpent' /\ GivesUpOnlySpent'
  <2>1. PlansSettle'  BY <1>7 DEF PlansSettle, SettleStore, LetGo, TypeOK
  <2>2. \A w \in Procs : pc'[w] = "settling" =>
           pc[w] = "settling" /\ plan'[w] = plan[w] /\ doing'[w] = doing[w]
    BY <1>7 DEF SettleStore, LetGo, TypeOK
  <2>3. ASSUME NEW r \in Reviews
        PROVE  /\ job'[r].state = "failed" =>
                    job[r].state = "failed" \/ (doing[p] = r /\ plan[p].to = "failed")
               /\ job'[r].attempts = job[r].attempts
    <3>1. CASE doing[p] # r
      BY <1>7, <3>1 DEF SettleStore, TypeOK
    <3>2. CASE doing[p] = r
      <4>1. job'[r] = [job[r] EXCEPT !.state = IF plan[p].dirty THEN plan[p].to ELSE @,
                                     !.wait  = IF plan[p].to = "queued" THEN Backoff ELSE @]
        BY <1>7, <3>2 DEF SettleStore, TypeOK
      <4>2. /\ job'[r].attempts = job[r].attempts
            /\ job'[r].state = IF plan[p].dirty THEN plan[p].to ELSE job[r].state
        BY <1>r, <4>1 DEF Job
      <4> QED  BY <3>2, <4>2
    <3> QED  BY <3>1, <3>2
  <2>4. pc[p] = "settling"  BY <1>7 DEF SettleStore
  <2>5. \A r \in Reviews : job'[r].attempts >= job[r].attempts
    BY <1>r, <2>3
  <2>6. PlansSpent' /\ GivesUpOnlySpent'
    BY <2>2, <2>3, <2>4, <2>5, SpentRest
  <2> QED  BY <1>7, <2>1, <2>6, CountedSettleStore
<1>l. ASSUME NEW p \in Procs, LetGo(p), job' = job, rearms' = rearms,
             pc'[p] # "settling", \A w \in Procs \ {p} : pc'[w] = pc[w]
      PROVE  (\A r \in Reviews : Counted(r)') /\ PlansSettle' /\ PlansSpent' /\ GivesUpOnlySpent'
  <2>1. /\ plan'[p] = NoPlan
        /\ \A w \in Procs \ {p} : plan'[w] = plan[w] /\ doing'[w] = doing[w]
    BY <1>l DEF LetGo, TypeOK
  <2>2. PlansSettle'  BY <1>l, <2>1 DEF PlansSettle
  <2>3. PlansSpent' /\ GivesUpOnlySpent'
    BY <1>l, <2>1 DEF PlansSpent, GivesUpOnlySpent
  <2>4. ASSUME NEW r \in Reviews PROVE Counted(r)'
    BY <1>l, CountedLetGo
  <2> QED  BY <2>2, <2>3, <2>4
<1>8. ASSUME NEW p \in Procs, SettleLost(p)
      PROVE  (\A r \in Reviews : Counted(r)') /\ PlansSettle' /\ PlansSpent' /\ GivesUpOnlySpent'
  BY <1>8, <1>l DEF SettleLost, TypeOK
<1>9. ASSUME NEW p \in Procs, Crash(p)
      PROVE  (\A r \in Reviews : Counted(r)') /\ PlansSettle' /\ PlansSpent' /\ GivesUpOnlySpent'
  BY <1>9, <1>l DEF Crash, TypeOK
<1>10. ASSUME Tick
       PROVE  (\A r \in Reviews : Counted(r)') /\ PlansSettle' /\ PlansSpent' /\ GivesUpOnlySpent'
  <2>1. PlansSettle'  BY <1>10 DEF PlansSettle, Tick
  <2>2. \A r \in Reviews : job'[r].state = job[r].state /\ job'[r].attempts = job[r].attempts
    BY <1>10, <1>r DEF Tick, Older, Job
  <2>3. PlansSpent' /\ GivesUpOnlySpent'
    BY <1>10, <1>r, <2>2, SpentRest DEF Tick
  <2> QED  BY <1>10, <2>1, <2>3, CountedTick
<1>11. CASE UNCHANGED qvars
  BY <1>11, <1>s DEF qvars
<1> QED
  BY <1>1, <1>2, <1>3, <1>4, <1>5, <1>6, <1>7, <1>8, <1>9, <1>10, <1>11 DEF Next

\* The inductive invariant of the queue.
THEOREM QueueInvariant == Spec => []QueueInv
<1> QED  BY QueueInvInit, QueueInvStep, PTL DEF Spec

\* Overlap is bounded: at most one worker holds a review's job, plus one for
\* each time the row was put back from outside its run.
THEOREM Exclusion == Spec => []RunsBounded
<1>1. QueueInv => RunsBounded  BY DEF QueueInv
<1> QED  BY <1>1, QueueInvariant, PTL

\* The retry budget holds up to the re-arms and reclaims, which ignore it.
THEOREM RetryBudget == Spec => []AttemptsBounded
<1>1. QueueInv => AttemptsBounded
  <2> SUFFICES ASSUME QueueInv, NEW r \in Reviews
               PROVE  job[r].attempts <= MaxAttempts + rearms[r]
    BY DEF AttemptsBounded
  <2>1. TypeOK /\ job[r].attempts + Queued(r) + Cardinality(Requeuing(r)) <= MaxAttempts + rearms[r]
    BY DEF QueueInv, BudgetBounded
  <2> QED  BY <2>1, RowNumbers, WorkCounts, AttemptsAssumption
<1> QED  BY <1>1, QueueInvariant, PTL

\* A job is given up only when its attempts are used up.
THEOREM GiveUpSpent == Spec => []GivesUpOnlySpent
<1>1. QueueInv => GivesUpOnlySpent  BY DEF QueueInv
<1> QED  BY <1>1, QueueInvariant, PTL

-----------------------------------------------------------------------------
(* What the operations do to the state of a job and to its attempts.        *)

LEMMA StateAfterEnqueue ==
  ASSUME TypeOK, NEW q \in Requests, EnqueueStore(q), NEW r \in Reviews
  PROVE  /\ req[q].at = "enqueue" /\ req[q].review \in Reviews
         /\ \/ job'[r].state = job[r].state
            \/ /\ r = req[q].review
               /\ job'[r].state = "queued"
               /\ job[r].state = "absent" \/ rearms'[r] = rearms[r] + 1
         /\ job'[r].attempts = IF job[r].state = "absent" /\ job'[r].state = "queued"
                               THEN 0 ELSE job[r].attempts
<1> DEFINE s == req[q].review
<1>1. s \in Reviews /\ req[q].at = "enqueue"  BY DEF TypeOK, EnqueueStore, Req
<1>2. job \in [Reviews -> Job] /\ rearms \in [Reviews -> Nat]  BY DEF TypeOK
<1>3. CASE InsertJob(q, s)
  <2>1. r # s => job'[r] = job[r]  BY <1>1, <1>2, <1>3 DEF InsertJob
  <2>2. r = s => /\ job[r].state = "absent"
                 /\ job'[r].state = "queued" /\ job'[r].attempts = 0
    BY <1>1, <1>2, <1>3 DEF InsertJob, NoJob
  <2> QED  BY <1>1, <2>1, <2>2
<1>4. CASE InsertConflict(q, s)
  BY <1>1, <1>4 DEF InsertConflict
<1>5. CASE Rearm(q, s)
  <2>1. CASE req[q].seen = "queued"
    <3>1. \/ job'[r] = job[r]
          \/ job'[r] = [job[r] EXCEPT !.wait = 0]
      BY <1>1, <1>2, <1>5, <2>1 DEF Rearm
    <3>2. job'[r].state = job[r].state /\ job'[r].attempts = job[r].attempts
      BY <1>2, <3>1 DEF Job
    <3> QED  BY <1>1, <3>2
  <2>2. CASE req[q].seen # "queued"
    <3>1. /\ job' = [job EXCEPT ![s].state = "queued", ![s].wait = 0]
          /\ rearms' = [rearms EXCEPT ![s] = @ + 1]
      BY <1>5, <2>2 DEF Rearm
    <3>2. job' = [job EXCEPT ![s] = [job[s] EXCEPT !.state = "queued", !.wait = 0]]
      BY <1>2, <3>1
    <3>3. /\ [job[s] EXCEPT !.state = "queued", !.wait = 0].state = "queued"
          /\ [job[s] EXCEPT !.state = "queued", !.wait = 0].attempts = job[s].attempts
      BY <1>1, <1>2 DEF Job
    <3>a. job[s].state # "absent"
      BY <1>1, <1>5 DEF Rearm, TypeOK, Enqueued
    <3> HIDE DEF s
    <3>4. CASE r = s
      <4>1. job'[r].state = "queued" /\ job'[r].attempts = job[r].attempts
        BY <1>1, <1>2, <3>2, <3>3, <3>4
      <4>2. rearms'[r] = rearms[r] + 1  BY <1>1, <1>2, <3>1, <3>4
      <4> QED  BY <1>1, <3>4, <3>a, <4>1, <4>2 DEF s
    <3>5. CASE r # s
      <4>1. job'[r] = job[r]  BY <1>1, <1>2, <3>2, <3>5
      <4> QED  BY <1>1, <4>1 DEF s
    <3> QED  BY <3>4, <3>5
  <2> QED  BY <2>1, <2>2
<1> QED  BY <1>1, <1>3, <1>4, <1>5 DEF EnqueueStore

LEMMA StateAfterBoot ==
  ASSUME TypeOK, NEW p \in Procs, BootStore(p), NEW r \in Reviews
  PROVE  /\ pc[p] = "boot" /\ doing[p] = None
         /\ IF r \in orphans[p]
            THEN /\ job[r].state # "absent"
                 /\ job'[r].state = "queued" /\ rearms'[r] = rearms[r] + 1
            ELSE job'[r].state = job[r].state /\ rearms'[r] = rearms[r]
         /\ job'[r].attempts = job[r].attempts
<1>1. job[r] \in Job /\ (r \in orphans[p] => job[r].state # "absent")
  BY DEF TypeOK, Enqueued
<1>2. pc[p] = "boot" /\ doing[p] = None  BY DEF TypeOK, BootStore
<1> QED  BY <1>1, <1>2 DEF BootStore, Job

LEMMA StateAfterClaim ==
  ASSUME TypeOK, NEW p \in Procs, NEW s \in Reviews, Claim(p, s), NEW r \in Reviews
  PROVE  /\ pc[p] = "idle" /\ doing[p] = None /\ job[s].state = "queued"
         /\ job'[s].state = "leased"
         /\ job'[s].attempts = job[s].attempts + 1 /\ job'[s].attempts \in Nat \ {0}
         /\ r # s => job'[r] = job[r]
<1>1. job \in [Reviews -> Job]  BY DEF TypeOK
<1>2. job[s].attempts \in Nat  BY <1>1 DEF Job
<1>3. pc[p] = "idle" /\ doing[p] = None  BY DEF TypeOK, Claim
<1>4. job'[s].state = "leased" /\ job'[s].attempts = job[s].attempts + 1
  BY <1>1 DEF Claim, Job
<1> QED  BY <1>1, <1>2, <1>3, <1>4 DEF Claim, Claimable

LEMMA StateAfterSettle ==
  ASSUME TypeOK, NEW p \in Procs, SettleStore(p), NEW r \in Reviews
  PROVE  /\ pc[p] = "settling" /\ doing[p] \in Reviews /\ plan[p].to \in JobStates
         /\ job[doing[p]].state # "absent"
         /\ job'[r].state = IF r = doing[p] /\ plan[p].dirty THEN plan[p].to ELSE job[r].state
         /\ job'[r].attempts = job[r].attempts
<1>1. pc[p] = "settling" /\ doing[p] \in Reviews /\ plan[p] \in Plan
  BY DEF TypeOK, SettleStore
<1>2. job[doing[p]].state # "absent"  BY <1>1 DEF TypeOK, Enqueued
<1>3. job \in [Reviews -> Job]  BY DEF TypeOK
<1>4. CASE r = doing[p]
  <2>1. job'[r] = [job[r] EXCEPT !.state = IF plan[p].dirty THEN plan[p].to ELSE @,
                                 !.wait  = IF plan[p].to = "queued" THEN Backoff ELSE @]
    BY <1>1, <1>3, <1>4 DEF SettleStore
  <2> QED  BY <1>1, <1>2, <1>3, <1>4, <2>1 DEF Job, Plan
<1>5. CASE r # doing[p]
  <2>1. job'[r] = job[r]  BY <1>1, <1>3, <1>5 DEF SettleStore
  <2> QED  BY <1>1, <1>2, <1>5, <2>1 DEF Plan
<1> QED  BY <1>4, <1>5

LEMMA StateAfterTick ==
  ASSUME TypeOK, Tick, NEW r \in Reviews
  PROVE  job'[r].state = job[r].state /\ job'[r].attempts = job[r].attempts
<1>1. job[r] \in Job /\ job'[r] = Older(job[r])  BY DEF TypeOK, Tick
<1> QED  BY <1>1 DEF Older, Job

-----------------------------------------------------------------------------
(* One process implements the ledger.                                       *)

\* The refinement mapping.
Entry == [r \in Reviews |-> CASE job[r].state = "absent" -> "none"
                              [] job[r].state \in {"queued", "leased"} -> "todo"
                              [] OTHER -> job[r].state]
Tries == [r \in Reviews |-> job[r].attempts]
Asked == {req[q].review : q \in {x \in Requests : req[x].at = "enqueue"}}

LEMMA LedgerInit ==
  ASSUME Entry = [r \in Reviews |-> "none"], Tries = [r \in Reviews |-> 0], Asked = {}
  PROVE  Ledger!Init
<1> QED  BY DEF Ledger!Init, Entry, Tries, Asked

\* What each step of the ledger looks like from the queue.
LEMMA LedgerStutter ==
  ASSUME Entry' = Entry, Tries' = Tries, Asked' = Asked
  PROVE  UNCHANGED Ledger!lvars
<1> QED  BY DEF Ledger!lvars, Entry, Tries, Asked

LEMMA LedgerAsk ==
  ASSUME NEW r \in Reviews, Entry' = Entry, Tries' = Tries, Asked' = Asked \union {r}
  PROVE  Ledger!Next
<1> QED  BY DEF Ledger!Next, Ledger!Ask, Entry, Tries, Asked

LEMMA LedgerWithdraw ==
  ASSUME Entry' = Entry, Tries' = Tries, Asked' \subseteq Asked
  PROVE  Ledger!Next
<1> QED  BY DEF Ledger!Next, Ledger!Withdraw, Entry, Tries, Asked

LEMMA LedgerSubmit ==
  ASSUME NEW r \in Reviews, r \in Asked, Entry[r] # "todo",
         Entry' = [Entry EXCEPT ![r] = "todo"], Tries' = Tries, Asked' \in {Asked, Asked \ {r}}
  PROVE  Ledger!Next
<1> QED  BY DEF Ledger!Next, Ledger!Submit, Entry, Tries, Asked

LEMMA LedgerTry ==
  ASSUME NEW r \in Reviews, Entry[r] = "todo",
         Entry' = Entry, Tries' = [Tries EXCEPT ![r] = @ + 1], Asked' = Asked
  PROVE  Ledger!Next
<1> QED  BY DEF Ledger!Next, Ledger!Try, Entry, Tries, Asked

LEMMA LedgerSucceed ==
  ASSUME NEW r \in Reviews, Entry[r] = "todo", Tries[r] > 0,
         Entry' = [Entry EXCEPT ![r] = "done"], Tries' = Tries, Asked' = Asked
  PROVE  Ledger!Next
<1> QED  BY DEF Ledger!Next, Ledger!Succeed, Entry, Tries, Asked

LEMMA LedgerGiveUp ==
  ASSUME NEW r \in Reviews, Entry[r] = "todo", Tries[r] >= MaxAttempts,
         Entry' = [Entry EXCEPT ![r] = "failed"], Tries' = Tries, Asked' = Asked
  PROVE  Ledger!Next
<1> QED  BY DEF Ledger!Next, Ledger!GiveUp, Entry, Tries, Asked

\* What the mapping relies on: a row that was never inserted was never tried,
\* and a worker, or the boot of a process, only holds jobs that are on the ledger.
Waiting(r) == job[r].state \in {"queued", "leased"}

LedgerInv ==
    /\ \A r \in Reviews : job[r].state = "absent" => job[r].attempts = 0
    /\ \A p \in Procs : doing[p] # None => Waiting(doing[p]) /\ job[doing[p]].attempts > 0
    /\ \A p \in Procs : orphans[p] # {} => pc[p] = "boot"
    /\ \A p \in Procs : \A r \in orphans[p] : Waiting(r)

LEMMA SameEntries ==
  ASSUME \A r \in Reviews : \/ job'[r].state = job[r].state
                            \/ Waiting(r) /\ Waiting(r)'
  PROVE  Entry' = Entry
<1> QED  BY DEF Entry, Waiting

LEMMA SameTries ==
  ASSUME \A r \in Reviews : job'[r].attempts = job[r].attempts
  PROVE  Tries' = Tries
<1> QED  BY DEF Tries

LEMMA SameAsked == ASSUME req' = req PROVE Asked' = Asked
<1> QED  BY DEF Asked

LEMMA FollowsEnqueueLoad ==
  ASSUME QueueInv, LedgerInv, NEW q \in Requests, NEW r \in Reviews, EnqueueLoad(q, r)
  PROVE  [Ledger!Next]_(Ledger!lvars) /\ LedgerInv'
<1>1. UNCHANGED <<job, pc, doing, orphans>>  BY DEF EnqueueLoad
<1>2. LedgerInv'  BY <1>1 DEF LedgerInv, Waiting
<1>3. Asked' = Asked \union {r}
  <2>1. /\ req[q].at # "enqueue"
        /\ req'[q].at = "enqueue" /\ req'[q].review = r
        /\ \A x \in Requests \ {q} : req'[x] = req[x]
    BY DEF EnqueueLoad, QueueInv, TypeOK
  <2> QED  BY <2>1 DEF Asked
<1>4. Entry' = Entry /\ Tries' = Tries  BY <1>1 DEF Entry, Tries
<1> QED  BY <1>2, <1>3, <1>4, LedgerAsk

\* A subset that keeps everything but one element.
LEMMA LosesAtMostOne ==
  ASSUME NEW A, NEW B, NEW x \in A, B \subseteq A, \A y \in A : y # x => y \in B
  PROVE  B \in {A, A \ {x}}
<1>1. CASE x \in B
  <2>1. B = A  BY <1>1
  <2> QED  BY <2>1
<1>2. CASE x \notin B
  <2>1. B = A \ {x}  BY <1>2
  <2> QED  BY <2>1
<1> QED  BY <1>1, <1>2

LEMMA FollowsEnqueueStore ==
  ASSUME QueueInv, LedgerInv, NEW q \in Requests, EnqueueStore(q)
  PROVE  [Ledger!Next]_(Ledger!lvars) /\ LedgerInv'
<1> DEFINE s == req[q].review
<1>0. TypeOK  BY DEF QueueInv
<1>1. UNCHANGED <<pc, doing, orphans>>  BY DEF EnqueueStore
<1>2. /\ req[q].at = "enqueue" /\ s \in Reviews
      /\ \A r \in Reviews :
            /\ \/ job'[r].state = job[r].state
               \/ r = s /\ job'[r].state = "queued"
            /\ job'[r].attempts = IF job[r].state = "absent" /\ job'[r].state = "queued"
                                  THEN 0 ELSE job[r].attempts
  <2>1. req[q].at = "enqueue" /\ s \in Reviews  BY <1>0 DEF EnqueueStore, TypeOK, Req
  <2> QED  BY <1>0, <2>1, StateAfterEnqueue
<1>3. \A r \in Reviews : job'[r].attempts = job[r].attempts
  BY <1>2 DEF LedgerInv
<1>4. \A r \in Reviews : Waiting(r) => Waiting(r)'
  BY <1>2 DEF Waiting
<1>5. LedgerInv'
  <2>1. \A p \in Procs : doing[p] # None => doing[p] \in Reviews  BY <1>0 DEF TypeOK
  <2>2. \A p \in Procs : \A r \in orphans[p] : r \in Reviews
    BY <1>0 DEF TypeOK, Enqueued
  <2>3. \A r \in Reviews : job'[r].state = "absent" => job[r].state = "absent"  BY <1>2
  <2> QED  BY <1>1, <1>3, <1>4, <2>1, <2>2, <2>3 DEF LedgerInv
<1>6. s \in Asked /\ Asked' \in {Asked, Asked \ {s}}
  <2>1. req'[q].at = "idle" /\ \A x \in Requests \ {q} : req'[x] = req[x]
    BY <1>0 DEF EnqueueStore, TypeOK, NoReq
  <2>2. s \in Asked  BY <1>2 DEF Asked
  <2>3. Asked' \subseteq Asked  BY <2>1 DEF Asked
  <2>4. \A r \in Asked : r # s => r \in Asked'  BY <2>1 DEF Asked
  <2> HIDE DEF s
  <2> QED  BY <2>2, <2>3, <2>4, LosesAtMostOne
<1>7. Tries' = Tries  BY <1>3, SameTries
<1> HIDE DEF s
<1>8. CASE Entry[s] # "todo" /\ job'[s].state = "queued"
  <2>1. Entry' = [Entry EXCEPT ![s] = "todo"]
    BY <1>2, <1>8 DEF Entry
  <2> QED  BY <1>2, <1>5, <1>6, <1>7, <1>8, <2>1, LedgerSubmit
<1>9. CASE ~(Entry[s] # "todo" /\ job'[s].state = "queued")
  <2>1. job'[s].state = "queued" => job[s].state \in {"queued", "leased"}
    <3>1. job[s].state \in RowStates  BY <1>0, <1>2 DEF TypeOK, Job
    <3> QED  BY <1>2, <1>9, <3>1 DEF Entry, RowStates, JobStates
  <2>2. Entry' = Entry
    <3>1. \A r \in Reviews : job'[r].state = job[r].state \/ (Waiting(r) /\ Waiting(r)')
      BY <1>2, <2>1 DEF Waiting
    <3> QED  BY <3>1, SameEntries
  <2>3. Asked' \subseteq Asked  BY <1>6
  <2> QED  BY <1>5, <1>7, <2>2, <2>3, LedgerWithdraw
<1> QED  BY <1>8, <1>9

LEMMA FollowsBoot ==
  ASSUME QueueInv, LedgerInv, NEW p \in Procs, BootLoad(p) \/ BootStore(p)
  PROVE  [Ledger!Next]_(Ledger!lvars) /\ LedgerInv'
<1>0. TypeOK  BY DEF QueueInv
<1>1. UNCHANGED <<doing, req>>  BY DEF BootLoad, BootStore
<1>2. \A r \in Reviews : /\ job'[r].attempts = job[r].attempts
                         /\ \/ job'[r].state = job[r].state
                            \/ Waiting(r) /\ Waiting(r)'
  <2>1. CASE BootLoad(p)
    BY <2>1 DEF BootLoad
  <2>2. CASE BootStore(p)
    BY <1>0, <2>2, StateAfterBoot DEF LedgerInv, Waiting
  <2> QED  BY <2>1, <2>2
<1>3. /\ \A w \in Procs \ {p} : orphans'[w] = orphans[w] /\ pc'[w] = pc[w]
      /\ orphans'[p] # {} => pc'[p] = "boot"
      /\ \A r \in orphans'[p] : r \in Reviews /\ Waiting(r)
  <2>1. CASE BootLoad(p)
    <3>1. /\ orphans' = [orphans EXCEPT ![p] =
                          {r \in Reviews : job[r].state = "leased" /\ job[r].lease < 0}]
          /\ pc' = [pc EXCEPT ![p] = "boot"]
      BY <2>1 DEF BootLoad
    <3>2. /\ orphans'[p] = {r \in Reviews : job[r].state = "leased" /\ job[r].lease < 0}
          /\ pc'[p] = "boot"
          /\ \A w \in Procs \ {p} : orphans'[w] = orphans[w] /\ pc'[w] = pc[w]
      BY <1>0, <3>1 DEF TypeOK
    <3> QED  BY <3>2 DEF Waiting
  <2>2. CASE BootStore(p)
    BY <1>0, <2>2 DEF BootStore, TypeOK
  <2> QED  BY <2>1, <2>2
<1>4. Entry' = Entry /\ Tries' = Tries /\ Asked' = Asked
  BY <1>1, <1>2, SameEntries, SameTries, SameAsked
<1>5. LedgerInv'
  <2>1. \A w \in Procs : doing[w] # None => doing[w] \in Reviews  BY <1>0 DEF TypeOK
  <2>2. \A w \in Procs : \A r \in orphans[w] : r \in Reviews  BY <1>0 DEF TypeOK, Enqueued
  <2>3. \A r \in Reviews : Waiting(r) => Waiting(r)'  BY <1>2 DEF Waiting
  <2>4. \A r \in Reviews : job'[r].state = "absent" => job[r].state = "absent"
    BY <1>2 DEF Waiting
  <2> QED  BY <1>1, <1>2, <1>3, <2>1, <2>2, <2>3, <2>4 DEF LedgerInv
<1> QED  BY <1>4, <1>5, LedgerStutter

LEMMA FollowsClaim ==
  ASSUME QueueInv, LedgerInv, NEW p \in Procs, NEW s \in Reviews, Claim(p, s)
  PROVE  [Ledger!Next]_(Ledger!lvars) /\ LedgerInv'
<1>0. TypeOK  BY DEF QueueInv
<1>1. UNCHANGED <<req, orphans>>  BY DEF Claim
<1>2. /\ job[s].state = "queued" /\ job'[s].state = "leased" /\ pc[p] = "idle"
      /\ job'[s].attempts = job[s].attempts + 1 /\ job'[s].attempts \in Nat \ {0}
      /\ \A r \in Reviews \ {s} : job'[r] = job[r]
  BY <1>0, StateAfterClaim
<1>3. doing'[p] = s /\ \A w \in Procs \ {p} : doing'[w] = doing[w] /\ pc'[w] = pc[w]
  BY <1>0 DEF Claim, TypeOK
<1>4. Entry' = Entry /\ Asked' = Asked /\ Entry[s] = "todo"
  <2>1. \A r \in Reviews : job'[r].state = job[r].state \/ (Waiting(r) /\ Waiting(r)')
    BY <1>2 DEF Waiting
  <2>2. Entry[s] = "todo"  BY <1>2 DEF Entry
  <2> QED  BY <1>1, <2>1, <2>2, SameEntries, SameAsked
<1>5. Tries' = [Tries EXCEPT ![s] = @ + 1]
  BY <1>2 DEF Tries
<1>6. LedgerInv'
  <2>1. \A w \in Procs : doing[w] # None => doing[w] \in Reviews  BY <1>0 DEF TypeOK
  <2>2. \A w \in Procs : \A r \in orphans[w] : r \in Reviews  BY <1>0 DEF TypeOK, Enqueued
  <2>3. \A r \in Reviews : Waiting(r) => Waiting(r)'  BY <1>2 DEF Waiting
  <2>4. \A r \in Reviews : job'[r].attempts > 0 \/ job'[r].attempts = job[r].attempts
    BY <1>2
  <2>5. \A r \in Reviews : job'[r].state = "absent" =>
           job[r].state = "absent" /\ job'[r].attempts = job[r].attempts
    BY <1>2
  <2>6. orphans[p] = {}  BY <1>2 DEF LedgerInv
  <2>7. Waiting(s)'  BY <1>2 DEF Waiting
  <2>8. job'[s].attempts > 0  BY <1>2
  <2> QED
    BY <1>1, <1>3, <2>1, <2>2, <2>3, <2>4, <2>5, <2>6, <2>7, <2>8 DEF LedgerInv
<1> QED  BY <1>4, <1>5, <1>6, LedgerTry

\* A worker that lets its job go, the rows untouched.
LEMMA FollowsLetGo ==
  ASSUME QueueInv, LedgerInv, NEW p \in Procs, LetGo(p), UNCHANGED job,
         Asked' \subseteq Asked,
         \A w \in Procs \ {p} : orphans'[w] = orphans[w] /\ pc'[w] = pc[w],
         orphans'[p] = {}
  PROVE  [Ledger!Next]_(Ledger!lvars) /\ LedgerInv'
<1>1. doing'[p] = None /\ \A w \in Procs \ {p} : doing'[w] = doing[w]
  BY DEF QueueInv, TypeOK, LetGo
<1>2. LedgerInv'  BY <1>1 DEF LedgerInv, Waiting
<1>3. Entry' = Entry /\ Tries' = Tries  BY DEF Entry, Tries
<1> QED  BY <1>2, <1>3, LedgerWithdraw

LEMMA FollowsSettleStore ==
  ASSUME QueueInv, LedgerInv, NEW p \in Procs, SettleStore(p), \A v, w \in Procs : v = w
  PROVE  [Ledger!Next]_(Ledger!lvars) /\ LedgerInv'
<1>0. TypeOK  BY DEF QueueInv
<1> DEFINE s == doing[p]
<1>1. UNCHANGED <<req, orphans>>  BY DEF SettleStore
<1>2. /\ pc[p] = "settling" /\ s \in Reviews /\ plan[p].to \in JobStates
      /\ \A r \in Reviews :
            /\ job'[r].state = IF r = s /\ plan[p].dirty THEN plan[p].to ELSE job[r].state
            /\ job'[r].attempts = job[r].attempts
  <2>1. pc[p] = "settling" /\ s \in Reviews  BY <1>0 DEF SettleStore, TypeOK
  <2> QED  BY <1>0, <2>1, StateAfterSettle
<1>3. doing'[p] = None  BY <1>0 DEF SettleStore, LetGo, TypeOK
<1>4. Waiting(s) /\ job[s].attempts > 0 /\ s # None
  BY <1>2, ReviewsAssumption DEF LedgerInv
<1>5. plan[p].to = "failed" => job[s].attempts >= MaxAttempts
  BY <1>2 DEF QueueInv, PlansSpent
<1>6. orphans[p] = {}  BY <1>2 DEF LedgerInv
<1> HIDE DEF s
<1>7. LedgerInv'
  <2>1. \A w \in Procs : w = p  OBVIOUS
  <2>2. \A r \in Reviews : job'[r].state = "absent" => job[r].state = "absent"
    BY <1>2, StateNames
  <2> QED  BY <1>1, <1>2, <1>3, <1>6, <2>1, <2>2 DEF LedgerInv
<1>8. Tries' = Tries /\ Asked' = Asked
  BY <1>1, <1>2, SameTries, SameAsked
<1>9. Entry[s] = "todo" /\ Tries[s] = job[s].attempts
  BY <1>2, <1>4 DEF Entry, Tries, Waiting
<1>10. CASE plan[p].dirty /\ plan[p].to = "done"
  <2>1. Entry' = [Entry EXCEPT ![s] = "done"]
    BY <1>2, <1>10 DEF Entry
  <2> QED  BY <1>2, <1>4, <1>7, <1>8, <1>9, <2>1, LedgerSucceed
<1>11. CASE plan[p].dirty /\ plan[p].to = "failed"
  <2>1. Entry' = [Entry EXCEPT ![s] = "failed"]
    BY <1>2, <1>11 DEF Entry
  <2> QED  BY <1>2, <1>5, <1>7, <1>8, <1>9, <1>11, <2>1, LedgerGiveUp
<1>12. CASE ~(plan[p].dirty /\ plan[p].to \in {"done", "failed"})
  <2>1. \A r \in Reviews : job'[r].state = job[r].state \/ (Waiting(r) /\ Waiting(r)')
    BY <1>2, <1>4, <1>12 DEF Waiting, JobStates
  <2> QED  BY <1>7, <1>8, <2>1, SameEntries, LedgerStutter
<1> QED  BY <1>10, <1>11, <1>12

LEMMA LedgerStep ==
  ASSUME \A v, w \in Procs : v = w
  PROVE  QueueInv /\ LedgerInv /\ [Next]_qvars => [Ledger!Next]_(Ledger!lvars) /\ LedgerInv'
<1> SUFFICES ASSUME QueueInv, LedgerInv, [Next]_qvars
             PROVE  [Ledger!Next]_(Ledger!lvars) /\ LedgerInv'
  OBVIOUS
<1>0. TypeOK  BY DEF QueueInv
<1>s. ASSUME UNCHANGED <<doing, orphans, req>>,
             \A w \in Procs : pc[w] = "boot" => pc'[w] = "boot",
             \A r \in Reviews : job'[r].state = job[r].state /\ job'[r].attempts = job[r].attempts
      PROVE  [Ledger!Next]_(Ledger!lvars) /\ LedgerInv'
  <2>1. Entry' = Entry /\ Tries' = Tries /\ Asked' = Asked
    BY <1>s, SameEntries, SameTries, SameAsked
  <2>2. \A w \in Procs : doing[w] # None => doing[w] \in Reviews  BY <1>0 DEF TypeOK
  <2>3. \A w \in Procs : \A r \in orphans[w] : r \in Reviews  BY <1>0 DEF TypeOK, Enqueued
  <2>4. LedgerInv'  BY <1>s, <2>2, <2>3 DEF LedgerInv, Waiting
  <2> QED  BY <2>1, <2>4, LedgerStutter
<1>1. ASSUME NEW p \in Procs, NEW ok \in BOOLEAN, SettleLoad(p, ok)
      PROVE  [Ledger!Next]_(Ledger!lvars) /\ LedgerInv'
  BY <1>0, <1>1, <1>s DEF SettleLoad, TypeOK
<1>2. ASSUME NEW p \in Procs, SettleLost(p)
      PROVE  [Ledger!Next]_(Ledger!lvars) /\ LedgerInv'
  <2>1. pc[p] = "settling" /\ LetGo(p) /\ UNCHANGED <<job, orphans, req>>
    BY <1>2 DEF SettleLost
  <2>2. orphans'[p] = {}  BY <2>1 DEF LedgerInv
  <2>3. \A w \in Procs \ {p} : orphans'[w] = orphans[w] /\ pc'[w] = pc[w]
    BY <1>0, <1>2 DEF SettleLost, TypeOK
  <2>4. Asked' = Asked  BY <2>1, SameAsked
  <2> QED  BY <2>1, <2>2, <2>3, <2>4, FollowsLetGo
<1>3. ASSUME NEW p \in Procs, Crash(p)
      PROVE  [Ledger!Next]_(Ledger!lvars) /\ LedgerInv'
  <2>1. LetGo(p) /\ UNCHANGED job /\ orphans'[p] = {}
    BY <1>0, <1>3 DEF Crash, TypeOK
  <2>2. \A w \in Procs \ {p} : orphans'[w] = orphans[w] /\ pc'[w] = pc[w]
    BY <1>0, <1>3 DEF Crash, TypeOK
  <2>3. Asked' \subseteq Asked
    <3>1. \A q \in Requests : req'[q] = req[q] \/ req'[q].at = "idle"
      BY <1>3 DEF Crash, NoReq
    <3> QED  BY <3>1 DEF Asked
  <2> QED  BY <2>1, <2>2, <2>3, FollowsLetGo
<1>4. ASSUME Tick PROVE [Ledger!Next]_(Ledger!lvars) /\ LedgerInv'
  <2>1. \A r \in Reviews : job'[r].state = job[r].state /\ job'[r].attempts = job[r].attempts
    BY <1>0, <1>4, StateAfterTick
  <2> QED  BY <1>4, <1>s, <2>1 DEF Tick
<1>5. CASE UNCHANGED qvars
  BY <1>5, <1>s DEF qvars
<1> QED
  BY <1>1, <1>2, <1>3, <1>4, <1>5, FollowsEnqueueLoad, FollowsEnqueueStore, FollowsBoot,
     FollowsClaim, FollowsSettleStore DEF Next

LEMMA LedgerStart == Init => Ledger!Init /\ LedgerInv
<1> SUFFICES ASSUME Init PROVE Ledger!Init /\ LedgerInv
  OBVIOUS
<1>1. \A r \in Reviews : job[r].state = "absent" /\ job[r].attempts = 0
  BY DEF Init, NoJob
<1>2. Entry = [r \in Reviews |-> "none"] /\ Tries = [r \in Reviews |-> 0]
  BY <1>1 DEF Entry, Tries
<1>3. Asked = {}  BY DEF Init, NoReq, Asked
<1>4. LedgerInv  BY <1>1 DEF Init, LedgerInv
<1> QED  BY <1>2, <1>3, <1>4, LedgerInit

\* The queue of one process implements the ledger: its rows, leases, clocks and
\* two-step transactions only ever do what the ledger allows.
THEOREM OneProcessLedger ==
  ASSUME \A v, w \in Procs : v = w
  PROVE  Spec => ImplementsLedger
<1> QED
  BY LedgerStart, LedgerStep, QueueInvariant, PTL DEF Spec, ImplementsLedger, Ledger!Spec

=============================================================================
