---------------------------- MODULE EventStream ----------------------------
(***************************************************************************)
(* The live event stream of one review: the emit callback that commits an  *)
(* event and then publishes it (backend/app/events/emitter.py, bus.py),    *)
(* the event table (db/repositories/events.py), the SSE endpoint that      *)
(* replays the table and then tails the bus (api/routers/reviews.py), and  *)
(* the page that folds the events into what it shows                       *)
(* (frontend/lib/useReviewStream.ts).  One process serves the stream and   *)
(* runs the review.                                                        *)
(*                                                                         *)
(* An event is a run number and a place in the run's script: 1 is          *)
(* review_started, 2c and 2c+1 are criterion_started and                   *)
(* criterion_completed of criterion c, then come decision_computed and     *)
(* review_completed, and review_failed instead of whatever a failing run   *)
(* did not reach.  Other reviews' events are left out: they only leave gaps in  *)
(* this review's ids.                                                      *)
(***************************************************************************)
EXTENDS Integers, Sequences, FiniteSets, FiniteSetsExt

CONSTANTS
    Viewers,       \* pages open on the review
    NCriteria,     \* criteria of its rubric
    ReuseIds,      \* TRUE: SQLite rowid (one more than the largest id present);
                   \* FALSE: a PostgreSQL sequence (never reused)
    MaxRuns,       \* bound: runs of the review
    MaxBreaks,     \* bound: connections that break
    MaxCrashes     \* bound: process deaths

ASSUME StreamAssumption ==
    /\ NCriteria \in Nat \ {0} /\ ReuseIds \in BOOLEAN
    /\ MaxRuns \in Nat /\ MaxBreaks \in Nat /\ MaxCrashes \in Nat

VARIABLES
    rows,       \* the review's rows of review_event, by id
    sequence,   \* the last id handed out by the PostgreSQL sequence
    worker,     \* the run in progress
    conn,       \* per viewer: the generator serving it, with its bus queue
    page,       \* per viewer: what useReviewStream holds
    got,        \* history: the events each viewer received, in order
    breaks, crashes

vars == <<rows, sequence, worker, conn, page, got, breaks, crashes>>

Criteria  == 1..NCriteria
Started   == 1
Opens(c)  == 2 * c
Closes(c) == 2 * c + 1
Decision  == 2 * NCriteria + 2
Completed == 2 * NCriteria + 3
Failed    == 2 * NCriteria + 4
Terminal  == {Completed, Failed}

NoConn   == [at |-> "none", last |-> 0, backlog |-> <<>>, queue |-> <<>>]
NewPage  == [at |-> "connecting", opened |-> FALSE, last |-> 0, status |-> "connecting",
             shown |-> [c \in Criteria |-> 0], decision |-> 0]

Init ==
    /\ rows = <<>> /\ sequence = 0
    /\ worker = [run |-> 0, at |-> "idle", place |-> Started]
    /\ conn = [v \in Viewers |-> NoConn]
    /\ page = [v \in Viewers |-> NewPage]
    /\ got = [v \in Viewers |-> <<>>]
    /\ breaks = 0 /\ crashes = 0

-----------------------------------------------------------------------------
(* The runner's side.                                                       *)

NextId == IF ReuseIds THEN 1 + Max({0} \union {rows[i].id : i \in DOMAIN rows})
                      ELSE sequence + 1

Viewing == UNCHANGED <<conn, page, got, breaks, crashes>>

\* A run begins by deleting the events of earlier runs.
StartRun ==
    /\ worker.at = "idle"
    /\ worker.run < MaxRuns
    /\ worker' = [run |-> worker.run + 1, at |-> "commit", place |-> Started]
    /\ rows' = <<>>
    /\ UNCHANGED sequence
    /\ Viewing

\* emit, first half: append_event commits the row.
CommitEvent ==
    /\ worker.at = "commit"
    /\ rows' = Append(rows, [id |-> NextId, run |-> worker.run, place |-> worker.place])
    /\ sequence' = NextId
    /\ worker' = [worker EXCEPT !.at = "publish"]
    /\ Viewing

\* Seeded fault: the endpoint subscribes when its replay is over.
PublishEvent_LateSubscriber ==
    /\ worker.at = "publish"
    /\ conn' = [v \in Viewers |->
                  IF conn[v].at # "replaying" \/ conn[v].backlog # <<>> THEN conn[v]
                  ELSE [conn[v] EXCEPT !.queue = Append(@, rows[Len(rows)])]]
    /\ worker' = IF worker.place \in Terminal
                 THEN [worker EXCEPT !.at = "idle"]
                 ELSE [worker EXCEPT !.at = "commit", !.place = @ + 1]
    /\ UNCHANGED <<rows, sequence, page, got, breaks, crashes>>

\* emit, second half: the event goes to the queue of every subscriber.
PublishEvent ==
    /\ worker.at = "publish"
    /\ conn' = [v \in Viewers |->
                  IF conn[v].at = "none" THEN conn[v]
                  ELSE [conn[v] EXCEPT !.queue = Append(@, rows[Len(rows)])]]
    /\ worker' = IF worker.place \in Terminal
                 THEN [worker EXCEPT !.at = "idle"]
                 ELSE [worker EXCEPT !.at = "commit", !.place = @ + 1]
    /\ UNCHANGED <<rows, sequence, page, got, breaks, crashes>>

\* The run, or the emission of its next event, raises: the rest of the script is
\* replaced by review_failed.
FailRun ==
    /\ worker.at = "commit"
    /\ worker.place # Failed
    /\ worker' = [worker EXCEPT !.place = Failed]
    /\ UNCHANGED <<rows, sequence>>
    /\ Viewing

\* The emission of review_failed raises too: the worker logs it, and this run's
\* log ends without a terminal event.
FailSilently ==
    /\ worker.at = "commit"
    /\ worker.place = Failed
    /\ worker' = [worker EXCEPT !.at = "idle"]
    /\ UNCHANGED <<rows, sequence>>
    /\ Viewing

-----------------------------------------------------------------------------
(* The endpoint's side: subscribe, replay, tail.                            *)

Running == UNCHANGED <<rows, sequence, worker, crashes>>

\* The browser (re)connects, sending the id of the last event it got, and the
\* endpoint subscribes before it reads the table.
Connect(v) ==
    /\ page[v].at = "connecting"
    /\ conn[v].at = "none"
    /\ conn' = [conn EXCEPT ![v] = [NoConn EXCEPT !.at = "subscribed", !.last = page[v].last]]
    /\ page' = [page EXCEPT ![v].at = "open", ![v].opened = TRUE]
    /\ UNCHANGED <<got, breaks>>
    /\ Running

\* list_events: the rows with an id above the last one sent, which follow the n
\* rows that have none.
ReadBacklog(v) ==
    /\ conn[v].at = "subscribed"
    /\ \E n \in 0..Len(rows) :
           /\ \A i \in DOMAIN rows : i <= n <=> rows[i].id <= conn[v].last
           /\ conn' = [conn EXCEPT ![v].at = "replaying",
                                   ![v].backlog = SubSeq(rows, n + 1, Len(rows))]
    /\ UNCHANGED <<page, got, breaks>>
    /\ Running

\* Seeded fault: a criterion shown as done keeps its first verdict.
Reduce_FirstVerdict(pg, e) ==
    CASE e.place = Started   -> [pg EXCEPT !.status = "running"]
      [] e.place = Decision  -> [pg EXCEPT !.decision = e.run]
      [] e.place = Completed -> [pg EXCEPT !.status = "completed", !.decision = e.run]
      [] e.place = Failed    -> [pg EXCEPT !.status = "failed"]
      [] OTHER -> LET c == e.place \div 2 IN
                    [pg EXCEPT !.shown[c] = IF @ = 0 /\ e.place = Closes(c) THEN e.run ELSE @]

\* Seeded fault: a page that has given up waiting takes no status any more.
Reduce_GivenUp(pg, e) ==
    CASE e.place = Started   -> [pg EXCEPT !.status = IF @ = "failed" THEN @ ELSE "running"]
      [] e.place = Decision  -> [pg EXCEPT !.decision = e.run]
      [] e.place = Completed -> [pg EXCEPT !.status = IF @ = "failed" THEN @ ELSE "completed",
                                           !.decision = e.run]
      [] e.place = Failed    -> [pg EXCEPT !.status = "failed"]
      [] OTHER -> LET c == e.place \div 2 IN
                    [pg EXCEPT !.shown[c] = IF e.place = Closes(c) THEN e.run ELSE 0]

\* useReviewStream's reduce.
Reduce(pg, e) ==
    CASE e.place = Started   -> [pg EXCEPT !.status = "running"]
      [] e.place = Decision  -> [pg EXCEPT !.decision = e.run]
      [] e.place = Completed -> [pg EXCEPT !.status = "completed", !.decision = e.run]
      [] e.place = Failed    -> [pg EXCEPT !.status = "failed"]
      [] OTHER -> LET c == e.place \div 2 IN
                    [pg EXCEPT !.shown[c] = IF e.place = Closes(c) THEN e.run ELSE 0]

\* One frame arrives: the page folds it in and, on a terminal event, closes
\* the stream.
Receive(v, e) ==
    /\ page' = [page EXCEPT ![v] = [Reduce(@, e) EXCEPT
                   !.last = e.id,
                   !.at = IF e.place \in Terminal THEN "closed" ELSE "open"]]
    /\ got' = [got EXCEPT ![v] = Append(@, e)]

ReplayFrame(v) ==
    /\ conn[v].at = "replaying"
    /\ conn[v].backlog # <<>>
    /\ LET e == Head(conn[v].backlog) IN
         /\ Receive(v, e)
         /\ conn' = [conn EXCEPT ![v] =
                       IF e.place \in Terminal THEN NoConn
                       ELSE [conn[v] EXCEPT !.last = e.id, !.backlog = Tail(@)]]
    /\ UNCHANGED breaks
    /\ Running

\* The loop on the queue begins when the replay has run out.
Tailing(v) == conn[v].at = "replaying" /\ conn[v].backlog = <<>>

\* An event already replayed is skipped: its id is not above last_id.
SkipFrame(v) ==
    /\ Tailing(v)
    /\ conn[v].queue # <<>>
    /\ Head(conn[v].queue).id <= conn[v].last
    /\ conn' = [conn EXCEPT ![v].queue = Tail(@)]
    /\ UNCHANGED <<page, got, breaks>>
    /\ Running

\* Seeded fault: what the replay already sent is not told apart.
TailFrame_NoIdCheck(v) ==
    /\ Tailing(v)
    /\ conn[v].queue # <<>>
    /\ LET e == Head(conn[v].queue) IN
         /\ Receive(v, e)
         /\ conn' = [conn EXCEPT ![v] =
                       IF e.place \in Terminal THEN NoConn
                       ELSE [conn[v] EXCEPT !.last = e.id, !.queue = Tail(@)]]
    /\ UNCHANGED breaks
    /\ Running

TailFrame(v) ==
    /\ Tailing(v)
    /\ conn[v].queue # <<>>
    /\ LET e == Head(conn[v].queue) IN
         /\ e.id > conn[v].last
         /\ Receive(v, e)
         /\ conn' = [conn EXCEPT ![v] =
                       IF e.place \in Terminal THEN NoConn
                       ELSE [conn[v] EXCEPT !.last = e.id, !.queue = Tail(@)]]
    /\ UNCHANGED breaks
    /\ Running

\* The connection breaks; the browser reconnects by itself.
Break(v) ==
    /\ conn[v].at # "none"
    /\ breaks < MaxBreaks
    /\ breaks' = breaks + 1
    /\ conn' = [conn EXCEPT ![v] = NoConn]
    /\ page' = [page EXCEPT ![v].at = "connecting"]
    /\ UNCHANGED got
    /\ Running

\* The page gives up waiting for the first connection after eight seconds, but
\* leaves it open.
ConnectTimeout(v) ==
    /\ page[v].at = "connecting"
    /\ ~page[v].opened
    /\ page[v].status = "connecting"
    /\ page' = [page EXCEPT ![v].status = "failed"]
    /\ UNCHANGED <<conn, got, breaks>>
    /\ Running

\* A connection is answered with an HTTP error, by the API or on the way to it: the
\* browser closes the stream for good.
Refused(v) ==
    /\ page[v].at = "connecting"
    /\ page' = [page EXCEPT ![v].at = "refused", ![v].status = "failed"]
    /\ UNCHANGED <<conn, got, breaks>>
    /\ Running

\* The process dies: the run, the bus with its queues and every connection.
Crash ==
    /\ crashes < MaxCrashes
    /\ crashes' = crashes + 1
    /\ worker' = [worker EXCEPT !.at = "idle"]
    /\ conn' = [v \in Viewers |-> NoConn]
    /\ page' = [v \in Viewers |-> IF page[v].at = "open"
                                  THEN [page[v] EXCEPT !.at = "connecting"] ELSE page[v]]
    /\ UNCHANGED <<rows, sequence, got, breaks>>

-----------------------------------------------------------------------------

Next ==
    \/ StartRun \/ CommitEvent \/ PublishEvent \/ FailRun \/ FailSilently \/ Crash
    \/ \E v \in Viewers :
         \/ Connect(v)   \/ ReadBacklog(v) \/ ReplayFrame(v)
         \/ SkipFrame(v) \/ TailFrame(v)   \/ Break(v)       \/ ConnectTimeout(v)
         \/ Refused(v)

Spec == Init /\ [][Next]_vars

\* A run in progress goes on, a browser reconnects, a generator is scheduled.
Fairness ==
    /\ WF_vars(CommitEvent) /\ WF_vars(PublishEvent)
    /\ \A v \in Viewers :
         /\ WF_vars(Connect(v)) /\ WF_vars(ReadBacklog(v))
         /\ WF_vars(ReplayFrame(v)) /\ WF_vars(SkipFrame(v) \/ TailFrame(v))

FairSpec == Spec /\ Fairness

-----------------------------------------------------------------------------
(* Correctness.                                                             *)

\* "replay missed events, then tail live ones" (stream_review): every event in
\* the table up to the last one a viewer received has reached that viewer, in
\* whatever way replay, tail, re-runs, breaks and restarts are interleaved.
NothingSkipped ==
    \A v \in Viewers : \A i \in DOMAIN rows :
        rows[i].id <= page[v].last => \E k \in DOMAIN got[v] : got[v][k] = rows[i]

\* A viewer sees each event once, the runs in order and each run in order,
\* although an event may be both in the replay and in the queue.
InOrderOnce ==
    \A v \in Viewers : \A i, k \in DOMAIN got[v] :
        i < k => \/ got[v][i].run < got[v][k].run
                 \/ got[v][i].run = got[v][k].run /\ got[v][i].place < got[v][k].place

\* A page that shows a completed review shows every criterion's verdict, and the
\* decision, of one run, until a later run has begun: that one deletes what a page
\* that lags behind has not read yet, and leaves it with verdicts of an earlier run.
ShownFromOneRun ==
    \A v \in Viewers : page[v].status = "completed" =>
        \/ \A c \in Criteria : page[v].shown[c] = page[v].decision
        \/ worker.run > page[v].decision

\* The page was closed by a terminal event and shows the status that event has: it
\* is the one the log ends in, or that of an earlier run, which a page does not
\* outlive (useReviewStream closes the stream on it and opens no other).
Learned(v) ==
    /\ page[v].at = "closed" /\ got[v] # <<>> /\ rows # <<>>
    /\ LET e    == got[v][Len(got[v])]
           last == rows[Len(rows)]
       IN  /\ e.place \in Terminal
           /\ page[v].status = IF e.place = Completed THEN "completed" ELSE "failed"
           /\ e = last \/ e.run < last.run

\* If the log ends in a terminal event for good, every page that is not refused
\* shows that outcome in the end and for good, whatever it showed while it waited
\* for its connection; only a page that has seen an earlier run end keeps to the
\* outcome of that run.
Settled == rows # <<>> /\ rows[Len(rows)].place \in Terminal
OutcomeReachesViewers ==
    <>[]Settled => \A v \in Viewers : <>[](page[v].at = "refused" \/ Learned(v))

=============================================================================
