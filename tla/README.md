# TLA+ models of RubricEval

RubricEval grades submissions of source code against a rubric: a request creates
a *review*, a durable queue holds one *job* per review, a worker inside the API
process claims the job and runs the review criterion by criterion through a
language model, and the pages that watch the review receive its events over SSE. Around
that path lie the tables that requests edit (tasks and their rubric versions,
provider configurations, submissions) and the material that is graded (ingested
files, prompts, recovered answers, verified citations). This directory holds TLA+
models of both, the TLC runs that check them on small instances, and the TLAPS
proofs that lift all but two of the safety properties to every instance. Paths below
are relative to `backend/app/` unless they start with `frontend/`.

    tlasany JobQueue.tla                              parse
    tlc -config queue_cluster.cfg MCJobQueue.tla      check one run
    tlapm JobQueueProofs.tla                          check the proofs

## 1. Inventory

| part | source | state it keeps | operations |
|---|---|---|---|
| job queue | `jobs/queue.py` | table `job`: state, attempts, lease owner and end, earliest start | `enqueue`, `claim_next`, `complete`, `fail_or_retry`, `reclaim_orphans` |
| worker, process | `jobs/worker.py`, `main.py` | the job it is running | `run_forever` (reclaim once, then poll), `run_once`; started and cancelled by `lifespan` |
| review creation | `services/reviews.py` | table `review`, unique idempotency key | `create_review`: look up, insert, enqueue |
| runner | `engine/runner.py` | `review.status` and decision, `criterion_result`, evidence | `run_review`: mark running, clear, grade each criterion, decide, record failure |
| event log, bus | `events/`, `db/repositories/events.py` | table `review_event`; per process a set of subscriber queues | `emit`: commit, then publish |
| SSE endpoint | `api/routers/reviews.py` | per connection: last id sent, its bus queue | subscribe, replay, tail |
| live view | `frontend/lib/useReviewStream.ts` | what the page shows | `reduce`, connect timer, reconnect |
| decision policy | `engine/policy.py` | none | `decide` |
| material | `ingestion/`, `engine/file_selection.py`, `engine/prompts.py`, `utils/json_recovery.py`, `engine/evidence.py` | none | `ingest_zip`, `ingest_github`, `select_for_criterion`, `build_messages`, `extract_json`, `verify_evidence` |
| LLM client, grader | `llm/litellm_client.py`, `engine/grader.py` | key rotation | retries, fallback models, repair of answers |
| provider configs | `services/`, `api/routers/`, `db/repositories/provider_configs.py` | table `provider_config`, one default | create, set default, delete |
| submissions, blobs | `services/submissions.py`, `storage/blobs.py`, `ingestion/loader.py` | file sets by hash, blobs by digest | ingest, deduplicate, load |
| tasks, rubrics | `api/routers/tasks.py`, `db/repositories/tasks.py`, `services/rubric.py` | drafts, immutable versions | create, rename, save, publish, delete |
| the rest | `eval/`, `security/`, `notify/`, `utils/`, `db/base.py`, pages | none that the others depend on | |

**How they interact.** Requests, the worker and the SSE generators are coroutines
of one event loop per process: they interleave at every `await`, so between any
two database calls. Processes share nothing but the database. The queue's row is
the only thing that serialises runs of a review: the runner itself takes no lock.
The event table is the durable log; the bus only tells the connections of the
same process that it has grown. `docker-compose.yml` starts one API process with
PostgreSQL; without Docker it is one process with SQLite. Nothing restarts a
dead process by itself.

**What is hard.** A queue operation reads a row and commits later. A settlement
does not check that the lease is still its own. A request may re-arm a job that
is running. A process may die anywhere and come back at any time after. An
exception may leave the runner's session unusable. Events are replayed from the
table and delivered by the bus at once, while a re-run deletes the events of the
run before it. A publication numbers its version from the rows it read; a task may
be deleted under a publication or a review; a default configuration is cleared and
set in two transactions; a blob is written once and read for ever. An answer of a
model arrives cut or mangled and is repaired by guess. `PROJECT.json` lists each
such point with its line.

**What makes each part correct.** Queue: one run at a time unless somebody
re-armed or reclaimed; no more attempts than allowed; nothing given up early;
nothing forgotten. Pipeline: report, decision, job and log of a review come from
the same run and tell the same story; every accepted review is settled. Stream:
a viewer receives every event once and in order, sees one run, learns how it
ended. Catalog: versions numbered without gaps and fit to decide upon, one default
configuration, every stored file readable, no row that refers to nothing, a review
graded against the rubric its hash stands for with a key that fits its model.
Material: one tree is one file set, the file a criterion names is shown, an honest
citation is never called invented, recovery loses nothing it can repair and changes
one value at most, the one at the cut.

## 2. Modules

| module | models | proofs |
|---|---|---|
| `JobLedger` | what the queue promises, without leases, time or processes | |
| `JobQueue` | `jobs/queue.py`, the worker loop, crash and restart | `JobQueueProofs` |
| `ReviewPipeline` | `create_review`, `run_review`, `run_once`, on top of `JobQueue` | `PipelineProofs` |
| `EventStream` | `emit`, the bus, `stream_review`, `useReviewStream` | `StreamProofs` |
| `LlmClient` | `LiteLLMClient.complete_json`: model chain, attempts, keys, repair | `GradingProofs` |
| `Grading` | the criterion loop, `grade_criterion`, `decide`, on top of `LlmClient` | `GradingProofs` |
| `Api` | what request handlers have in common: awaits, tables, ids, foreign keys | |
| `Rubrics` | tasks, drafts, publication of versions | `CatalogProofs`, `VersionProofs` |
| `Providers` | provider configurations, `resolve_credentials` | `CatalogProofs` |
| `Submissions` | `ingest_and_store`, blob store, loader | `CatalogProofs` |
| `Catalog` | the three together with the tables' side of `create_review` and `run_review` | `VersionProofs` |
| `Ingestion` | `normalize.py`, `zip.py`, `github.py` | `MaterialProofs` |
| `FileSelection` | `file_selection.py`, signals and files of a prompt | `MaterialProofs` |
| `JsonRecovery` | `extract_json` and the part of `json.loads` it needs | |
| `Evidence` | `FakeLLM`, the schema of a judgment, `verify_evidence` | `MaterialProofs` |
| `Answers` | external: what models cite, how an answer is written, how it is damaged | `MaterialProofs` (`Citations`) |
| `Material` | all of it in a row: upload, prompt, answer, recovery, verification | `MaterialProofs` |
| `DataLemmas` | no code: lemmas on least numbers, ranks in an order, sums over finite sets | used by `GradingProofs`, `MaterialProofs` |
| `MCJobQueue`, `MCReviewPipeline`, `MCEventStream`, `MCGrading`, `MCCatalog`, `MCMaterial` | model values and small instances for TLC | |

### JobQueue

`job` is the table; `pc`, `doing`, `plan` and `orphans` are the local state of
each process's worker; `req` that of the requests inside `enqueue`.

- `enqueue` is `EnqueueLoad` and `EnqueueStore`; `reclaim_orphans` is `BootLoad`
  and `BootStore`; `complete` and `fail_or_retry` are `SettleLoad` and
  `SettleStore`. The second half writes what the first half decided. The ORM
  writes only columns whose new value differs from the one it read: `enqueue` on
  a row it read as queued leaves `state` alone (`Rearm`), a settlement whose
  verdict equals the state it read likewise (`plan.dirty`).
- `claim_next` is one action: `FOR UPDATE SKIP LOCKED` holds the row from the read
  to the commit, and SQLite is used with one worker only. It takes the oldest
  claimable job (`born` is the row's place in the order of `created_at`); with more than
  one process a row that another transaction has locked is skipped, and a younger job
  may be taken (`MayBeLocked`).
- `SettleLost` is a settling transaction that raises; `run_forever` logs it.
  `Crash` is the death of a process, or the cancellation after `lifespan`'s ten
  seconds; its requests die with it.
- `Tick` lets time pass for leases and waits. Both are stored relative to now, so
  that the state space is finite.
- `rearms` is history: how often the row was made claimable by anything but the
  claim's own settlement. The bounds are stated relative to it.

The settings `job_lease_seconds`, `job_max_attempts` and the back-off are
`LeaseTime`, `MaxAttempts` and `Backoff`.

### ReviewPipeline

EXTENDS `JobQueue` and joins its steps with the service and the runner. `PostRead`
and `PostInsert` are `create_review` up to the call of `enqueue`. `ClaimAndRun`
starts a run; then there is one action for each stretch of `run_review` between two
awaits that matter: `StartRun`, `ClearPrior`, `LoadInput`, the emits,
`GradeCriterion`, `Decide`. `Raise`, `RaiseInCommit` and `RaiseInHandler` throw at
each place that can throw; `RecordFailure` is the except branch, and
`FailureEscapes` what it does when the session it commits on was left in a failed
flush. `SettleRun` hands the outcome to the queue.

A grade, a decision or an event carries no content but the number of the run that
produced it (the `attempts` value of the claim), which is what the properties
compare. `run.num` is unique per run because every claim increments `attempts`.

### EventStream

One review in one process. `CommitEvent` and `PublishEvent` are the halves of
`emit`; `Connect` subscribes before `ReadBacklog` reads the table, as
`stream_review` does; `ReplayFrame`, `SkipFrame` and `TailFrame` are its loop. The
page's `last` is the browser's Last-Event-ID. `NextId` is the primary key: one
more than the largest present on SQLite, never reused on PostgreSQL. `got` is
history. `Refused` is a connection that is answered with an HTTP error: the browser
does not try again, and the page says so. A frame sent and lost with its connection
is a frame not yet sent when the connection breaks.

### LlmClient and Grading

These look into the step that `ReviewPipeline` calls `GradeCriterion`. A worker runs
one review and awaits each answer, so one request is in progress: `call` is its
position in the chain of models and in the attempt loop. What the provider does is a
choice at each call among the classes that `_complete_one` tells apart (usable text,
unusable text, a rejection of `response_format`, a rate limit, a transient error, any
other error); text that must be repaired is asked for once more, by `Repair`. The chain
is a function on places: the primary model at 0, a fallback at its place in the
settings, so that which models are in it is a condition on each (`InChain`) and "the
next one" is the least later place.
`noJson` and `counter` are the two class attributes that outlive a request. `tried`
is history: the calls of the request, with their keys.

`Grading` takes the criteria in order. An answer that validates gives any judgment, one
that does not, or an exception of the client, the ERROR verdict. `Decide` is the
policy on gates and scored criteria. Scores and weights are integers and the mean is
compared with its threshold by multiplying out (`Reaches`); the code divides and
compares floating-point numbers.

### Catalog

`Api` holds what every handler does: read rows in one await, commit in another.
`req[r]` is the local state of request `r`: where it is and what it has read. A table
is a function from the ids of its rows. Ids are fresh (uuid4) and a handler creates
one row of a table at most, so the row that `r` creates has the id `r`; what is there
at the start has the id `Old`. `database` is SQLite or PostgreSQL: the first is
opened without `PRAGMA foreign_keys`, so it enforces no reference.

- `Rubrics`: `CreateTask`; `LoadTask` and `StoreTask` for rename and draft (the ORM
  writes the columns that differ from what it read); `DeleteLoad` and `DeleteStore`;
  `PublishLoad` (the checks on the draft it read), `PublishNumber` (max + 1),
  `PublishStore` (insert and point the task to it; `uq_rubric_task_version` may refuse).
- `Providers`: creating or choosing a default clears the others in one commit
  (`ClearDefaults`) and sets its own in the next. The second may raise for whatever
  reason (`StoreRaises`: a value too long for its column, the configuration deleted
  meanwhile, the database away); what was cleared stays cleared. Without a default, or
  with one whose key was encrypted under another secret (`lostKeys`, after a restart
  with `ChangeSecret`), the settings' model is used. The key of a configuration is
  its own id, so that a property can see whose key a run uses.
- `Submissions`: `IngestLookup`, `StoreBlobs`, `StoreSubmission`. A tree is the set of
  its pairs of path and content; equal trees have one hash, equal contents one digest.
  `StoreBlobsCut` is a death in the middle of a write: `os.replace` leaves the old
  state, the file or its absence. A file set with one path twice hits
  `uq_submission_path`.
- `Catalog`: `ReviewTask`, `ReviewResolve` and `ReviewInsert` are the three stretches
  of `create_review`; `RunReview` is what `run_review` reads of these tables. `Crash`
  loses all handlers in progress.

History: `overlaps` counts requests that were between their two commits when another
cleared the defaults, `removed` remembers that a default was deleted, or that a request
ended between its two commits, since one was last set, `epoch` numbers the states of the
configurations, `before` is what a lookup saw.

### Material

One criterion's way from the upload to the verified citation, in five steps: `Ingest`,
`Show`, `AnswerModel` or `AnswerFake`, `Receive`, `VerifyAll`. The steps only carry;
what matters are the operators of the modules they call. A text is a sequence of tokens;
what the code decides on (brackets, quotes, backslashes, commas, blanks, line ends,
digits) is a token of its own, the rest are words. Lengths are numbers of tokens. A path
is its directories, its stem and its extension.

`Ingest` takes the items of a source in any order, as a file system or an archive may
list them, with or without the folder that a host puts on top of an archive. A symbolic
link is an item with two texts: what is read through it, which a clone takes unless it
points to nothing or to a folder (`Readable`, the `OSError` branches of `github.py`),
and the path it holds, which `ingest_zip` takes as the content of a file (`Archived`).
`AnswerModel` is one of the `Models`: it makes a few citations, each of one or two lines
of what it was shown, as they are or with other blanks. `Mangled` is what may happen to
an answer on its way: prose or fences around it, a comma too many before a closing
bracket, one missing before the next key or anywhere else, a cut anywhere. Git, the
archive format and the model are external: they are modelled by what `src/` takes from
them.

A prompt is its signals and, for each file, the path and the part of its text that is
shown; the lines of a text are numbered by its line ends (`LineStart`, `LineEnd`,
`Extract`), in the prompt as in the stored file. Loops are recursive functions on the number
of rounds, the scanner of `json.loads` one on places of the text. What a sort
or a filter gives is said by its result: `InOrder` has the elements of a set in an
order, `Pick` what a sequence has at some of its places.

`SourcesAssumption` says what the sources are. The items of one source have different
paths, which an operating system ensures of a clone; an archive with one name twice is left
to `Submissions`, where it hits `uq_submission_path`. A working tree has no path that
leads out of it, whereas a crafted archive may.

## 3. Runs

| run | instance | shows |
|---|---|---|
| `queue_cluster` | 2 processes, 1 review, 2 requests, 3 posts, 2 crashes, 1 lost settlement | at most `1 + rearms` workers hold a job, at most `MaxAttempts + rearms` claims, given up only when spent |
| `queue_single` | 1 process, 2 reviews, 3 posts, 2 crashes, restart after the lease | the queue implements `JobLedger`; every job is settled |
| `queue_prompt` | 1 process, 1 crash, restart at any time | **violated**: a job leased at the restart is never reclaimed |
| `pipeline_single` | 1 process, 2 criteria, 3 posts, 2 crashes, 2 exceptions, 1 lost settlement | review, results, job and log agree always |
| `pipeline_cluster` | 2 processes, 1 crash, 1 raising commit | the same for untouched reviews; done jobs have a decision |
| `pipeline_live` | 1 process, 2 criteria, 3 posts, 2 exceptions | every accepted review settles |
| `pipeline_stuck` | 1 process, 2 raising commits | **violated**: job FAILED, review RUNNING for ever |
| `events` | 2 runs, 1 crash, 2 broken connections, ids from a sequence | nothing skipped, nothing twice, one run shown until the next begins, the outcome shown in the end |
| `events_rowid` | 3 runs, 2 criteria, ids from the rowid | **violated**: a page that reconnects after a re-run skips events |
| `grading` | 3 rubrics of up to 2 criteria, 2 configurations, 2 models with 1 and 3 keys, own key or settings, 2 attempts | keys go where they belong, calls are bounded, a request fails only when exhausted, accepted means certified, a better score never hurts, every review is decided |
| `catalog` | 3 requests of any kind, 1 task, 1 default configuration, 1 submission at the start, 1 crash, both databases | the ten properties of the catalog: versions in order and gradable, one default and kept, stored files readable, duplicates only by overlap, references grounded, reviews graded as promised, keys fit |
| `material` | 12 working trees and 2 crafted archives in every order, 3 criteria, 3 models, up to 2 citations, every damage | one tree one file set, named files lead, honest citations verified, what the code repairs is undone, a cut changes one value at most |

The three violated runs are disagreements between the code and its own text; the
`findings` of `PROJECT.json` quote both.

**Bounds.** `MaxAttempts = 2` is the smallest value that has a retry and a give-up.
Two processes suffice for every pairwise race on a row; two requests for the races
of `create_review` and `enqueue`, and a third post lets one of them come back after
the race. Two crashes let a reclaimed job lose its second run too. `LeaseTime` and
`Backoff` of one step distinguish before and after. One review is enough except for
`queue_single`, where a second one makes the order of claims matter. Deadlock is not
checked: a system with no job, no timer and no request left waits, and the
counters of the model run out. `grading` has no counter to bound: the chain, the
attempts and the rubric end. One model there has more keys than attempts and the
other fewer, which are the two cases of the budget; the counter's start is arbitrary
modulo the number of keys after the first criteria.

`catalog`: every pair of handlers races in every interleaving, and a third request
puts a completed one between them (a publication before a deletion meets a review, two
creations before a third sets its default). Requests are symmetric. One crash leaves
a cleared default or half a submission; the proofs cover more of everything. `events`
has two runs; with three, a page may show verdicts of the first with the
decision of the second, once the third has begun: subscribed during the second run, it
reads the table after the third has emptied it. `ShownFromOneRun` says so, and its
proof covers any number of runs. `OutcomeReachesViewers` is about the status a page shows and
not only about its connection: a page that has given up waiting for a slow stream and then gets
it must end on the outcome of the log. It excepts the page that has seen an earlier run
end: `review_failed` closes it although the job may be tried again
(`_TERMINAL_EVENTS`), and it keeps to that outcome.

`material`: the trees have a file of each role and of each reason to be dropped
(ignored folder, binary, blank, too long, too many, too large together); the contents
have what is hard to quote (quotes, brackets, commas, backslashes, runs of blanks,
blank lines). The budgets are such that a file is cut, that one does not fit any more,
and that the number of files runs out. Of the limits on an archive the count, the
total size and the unsafe names reject something; the two guards on the ratio of
sizes, with factors 4 and 20, never do here. Two trees have a link to
a file and one to nothing, of which one has them at places that are not kept. A model cites
any line once, in answers that arrive whole; two others cite line 10 once and line 11 up to
twice, so that a cut can fall inside a number and a comma can be missing between two
citations, and their answers suffer every damage.

**Fairness.** Weak fairness for each coroutine that can go on: a worker polls, a run
ends (the model calls have timeouts), a transaction commits, a generator is
scheduled, a browser reconnects; for `Tick`, since time passes; and for `BootLoad`,
because someone eventually starts a dead process again. No request, crash,
exception or break is ever obliged to happen, and all are bounded, so the liveness
properties say what happens once the trouble ends. `NoWorkLost` needs
`PatientRestart`, which is an assumption about whoever restarts the process, not
something the code ensures; `queue_prompt` is the same run without it. `FairSpec` of
`Grading` is weak fairness of its next step: each call to a provider has a timeout
(`llm_call_timeout`), so the loop goes on with an answer or an exception.

## 4. What is proved

`JobQueueProofs` proves, for all finite sets of processes and reviews, any set of
requests and every value of the other constants, that `Spec` implies

- `TypeCorrect`: `[]TypeOK`,
- `QueueInvariant`: `[]QueueInv`,
- `Exclusion`: `[]RunsBounded`, `RetryBudget`: `[]AttemptsBounded`,
  `GiveUpSpent`: `[]GivesUpOnlySpent`.

Assumptions: those named in `JobQueue` (finiteness of `Procs` and `Reviews`, `None`
outside both, `Home` total, numbers natural, `MaxAttempts > 0`).

None of the bounds is inductive alone. A worker that has read `attempts` and decided
to put the job back has not committed yet, and the attempt it will grant is not in
the row; so `BudgetBounded` counts such workers (`Requeuing`) together with the row's
own attempts, and a claim then only moves a unit from "queued" to "attempts".
`PlansSettle` says that only settling workers have a plan, and `PlansSpent` that a
plan to give up was made on a spent row and stays right because `attempts` only
grows. The proof is arithmetic on three numbers per row (holders, requeuers,
queued or not), one lemma per action that moves them, over the cardinalities of
`FiniteSetTheorems`. TLC checks the parts of `QueueInv` in `queue_cluster`.

`OneProcessLedger` is the refinement: if there is one process (`\A v, w \in Procs :
v = w`), `Spec` implies `ImplementsLedger`, step by step. It rests on `LedgerInv`: a row
that a worker holds, or that a starting process has listed as an orphan, is queued or
leased in the table, so that a settlement and a reclaim move a job that the ledger
still has to settle. The assumption is needed, not only convenient: with two processes
one may list an orphan that the other settles before the list is written back, and a
settled job is queued again, which the ledger forbids (TLC finds this on `queue_cluster`).

`PipelineProofs` lifts the queue's theorems to the pipeline and adds the pipeline's own,
for all finite sets of processes and reviews, any set of requests, any number of
criteria, posts, crashes, exceptions and lost settlements:

- `PipelineTypeCorrect`: `[]PipelineTypeOK`, through `Typed` (a run is in progress exactly
  while its worker runs the job; a request that reads the job row is past the review
  row; no job without its review);
- `PipelineImplementsQueue`: `PipelineSpec => Spec`. Every step of the runner or of
  `create_review` is a step of the queue or leaves it alone, hence `[]QueueInv`;
- `DoneIsDecided`: `[]DoneHasDecision`, any number of processes. `DecisionInv` says that a
  run that is past its decision, and a worker that has planned "done", has a decision
  in the row; overlapping runs replace a decision but never erase it;
- `ReviewInvariant`: `[]ReviewInv`, and from it `UntouchedReviews` (`[]UntouchedSound`, any
  number of processes and raising commits), `LogsReplay` (`[]LogsSound`, one process) and
  `ReviewsAgree` (`[]ReviewsSound`, one process, `MaxBadCommits = 0`).

`ReviewInv` is the program's annotation. For each place of the runner, `Progress` says how
many results of this run there are, how long the log is, and what the row says; between
the return of the run and its settlement it relates the plan to the row. It holds of a
review as long as its runs cannot overlap (`Sole`): nobody put its job row back from
outside its run (`rearms[r] = 0`, where the bound of `QueueInv`, at most `1 + rearms`
holders, excludes a second run), or there is one process. That is why one
invariant serves both deployments. The two hypotheses of `ReviewsAgree` are those of
its run and of the program: `docker-compose.yml` starts one process, and with a commit
that raises the conclusion is false (`pipeline_stuck`).

`GradingProofs` proves `AcceptanceCertified`, `[]AcceptedIsCertified`: an accepted
review has every gate graded and passed, for all rubrics, configurations, sets of models
and keys, and whatever the provider answers. Assumptions: those on the rubrics,
configurations, requests and keys in `LlmClient` and `Grading`. The property alone is
not inductive, since it does not say that the grades stand still after the decision:
`GradesInOrder` adds that a request is in progress only while a grade is missing, and
`AcceptedOnGrades` that the decision was taken on a full list.

The client's three bounds are proved there too, for every list of fallbacks, every table
of keys and every sequence of answers: `KeysGoToTheirModels` (`[]KeysMatch`),
`RequestsAreBounded` (`[]CallsBounded`), `FailureIsExhaustion` (`[]FailsOnlyExhausted`).
`ClientInv` ties the history to the program counter: the models before the present
position were called and are done, the present one was called once per attempt with the
keys from `start` on, the later ones not at all (`CallsInOrder`). That a model given up
for a rate limit has seen every one of its keys is a fact about `%`: `n` turns in a row from any
start reach each of `n` places (`TurnsReachAll`).

`BetterIsNeverWorse` (`[]BetterNeverWorse`) is about all rubrics, weights and
configurations with `review_at <= accept_at`, which the validator in
`api/schemas/task.py` demands of every draft (and `PublishedGradable` proves of every
published version). The sums of the policy are folds. What is needed of them, that they
exist and grow with their terms, is an induction over finite sets, done by a least
counterexample (`SubsetInduction`, from the library's `WFMin` on numbers, which takes a
set and no operator; `DataLemmas`). `DecidedOnGrades` says that the result is that of
the grades.

`EveryStepLowers` is the variant behind `AlwaysDecided`: criteria left, decision missing,
stage of the request, places left in the chain, phase at the model, attempts left. Every step
lowers this tuple of naturals in lexicographic order, so no behaviour takes infinitely many
steps. That a review without a decision can always take one stays with TLC (ENABLED).

`StreamProofs` proves, for all finite and infinite sets of viewers, any number of
criteria, runs, crashes and broken connections, and under `ReuseIds = FALSE`
(PostgreSQL; `events_rowid` shows that it is needed), `Delivery`
(`[]NothingSkipped`), `OrderedDelivery` (`[]InOrderOnce`) and `OneRunShown`
(`[]ShownFromOneRun`). `StreamInv` says of every event that is in the table, in a
backlog, in a queue or received that its id orders it as the runs do (`IdsInOrder`),
that the worker has been there (`Past`), and of every row that a viewer has not got:
it is in the backlog, or it comes after all of it and is in the queue or about to be
published (`Coming`). That is what subscribing before reading buys. `PagesInv` adds
that the table holds all events of the run in progress, each in its place, and that a
verdict of this run, once received, stays shown.

The catalog's properties are proved for every finite set of requests, all drafts, trees
and models, any number of crashes and both databases, in two modules, the second on top
of the first. Assumptions: `RequestsAssumption` (finite), `IdsAssumption`,
`DraftsAssumption` and `OldAssumption` (what is there at the start is in order).

- `CatalogProofs`: `StoredIsLoaded`, `DuplicatesOnlyOverlap`, `PublishedGradable`.
  `SubInv` says that a blob is never partial, that the blobs of a row, and of a
  handler that is about to insert one, are whole, and that two rows of one tree were
  looked up before either was there. `RubricInv` says that every draft in the table
  and in a handler passed its validators.
- `CatalogProofs`, on configurations: `OneDefault`, `DefaultStays`. `DefaultsBounded` is
  not inductive: a handler between its two commits will add a default. `ConfigInv`
  counts both, `|Defaults| + |Setting| <= 1 + overlaps`; `KeptInv` says that while none
  was deleted, and no request has ended between its two commits, there is a default or
  someone about to set one. That the second commit may raise is part of the model; the
  theorem says that nothing but this, a crash or a deletion leaves no default.
- `VersionProofs`: `KeysFit`. `KeyInv` says that a handler, and a review, of the present
  epoch has the model that the credentials give now.
- `VersionProofs`, on rubrics: `VersionsAreInOrder`, `GradedAgainstItsHash`, `RowsAreGrounded`.
  `VersionInv` says that the numbers of a task's versions are an initial segment, that
  `current` is the greatest, and what a publication in progress still knows of it;
  `PromiseInv` relates the hash in a handler and in a review to the version they
  name, which is never changed; `GroundInv` is the references of rows under foreign
  keys. `CatalogTypeCorrect` is `[]CatalogTypeOK`; that a version's number is within the
  number of ids needs `VersionInv`, the rest is `TablesInv`.

`MaterialProofs` is about all sources, texts, paths, criteria, limits and budgets. Assumptions:
`LimitsAssumption`, `PathsAssumption` (paths have one place each in their order),
`BudgetsAssumption`, `QuoteAssumption`, `SourcesAssumption`, `TermsAssumption` (the folder that
a host adds is not `..`).

- `SourceIsIrrelevant`: `[]SourceIrrelevant`. The loop of `normalize_items` counts while it
  goes, so its result seems to depend on the order of the items. `TakenShape` gives it in closed
  form: it raises if and only if the files that pass the filters are too many or too large
  together, and otherwise has just those files; sets, numbers and sums know no order
  (`SumsTakeOut`), and a set has one sorted sequence (`InOrderOnly`). `ArchivedShape`
  says that stripping the common folder undoes the wrapping, `GithubShape` that leaving
  out large files, `.git` and unreadable links early changes nothing that the filters
  would have kept. Of a clone this holds for all trees, of an archive for
  those whose links the filters drop (`ArchivedKept`): of a link that is kept it is false
  (section 5).
- `NamedFilesAreLeading`: `[]NamedFilesLead`. `RankingOrder` proves that the sort key of
  the ranking (named, score, path) is a strict order on the files, `SelectShape` that
  what is shown are the first files of the ranking, each the beginning of its text,
  within both budgets, and that only an exhausted budget ends the choice (`ShownSoFar`,
  the loop's invariant).
- `HonestIsVerified`: `[]HonestVerified`. A citation goes by line numbers of a cut text,
  with other blanks, against the whole text. `BeginningLines`: lines of a beginning are
  lines of the text, or the beginnings of lines. `CollapseIdempotent` and
  `CollapseWithin`: collapsing blanks twice is once, and the collapsed part lies within
  the collapsed whole; with a cut in the middle of a line it is this containment, and
  not equality, that makes the verifier accept. `FakeVerified` and `ModelVerified` apply
  this to the two graders.
- `MaterialInvHolds`: `[]MaterialInv`, the invariant behind the last two.
  `HonestVerified` only speaks of the end; `Stored` says that what is stored is a file
  set (in order, one file per path), `PromptShows` that a prompt shows beginnings of
  stored files, `Meant` that from the answer on every citation meant would be verified,
  `Settled` that the statuses are those of the citations received.

That a recursive function has a value is proved, not assumed: for each loop a lemma
builds it from its rounds (`TakesExist`, `ShowsExist`), as `SumsExist` does for sums.

Only model-checked: `ManglingUndone` and `SalvageOnlyCuts` of `Material`. Both are about
what `extract_json` makes of a rendered and then damaged answer, that is, about a parser on
every value a renderer can write; that is an induction over nested values, which is
out of the prover's reach. And all liveness (`NoWorkLost`, `EveryReviewSettles`,
`OutcomeReachesViewers`, `AlwaysDecided`), for which it has no ENABLED.

## 5. Not modelled

The wording of prompts and of messages; `render_tree`, a text for orientation that
nothing reads back; logging and the validators of addresses; the creation of the schema;
the evaluation harness (an offline batch without state); the token check and the
encryption of keys; the notifier, which swallows every exception; the web pages but for
`useReviewStream`. Inside what is modelled: a refresh that raises after its commit, two
processes in `EventStream` (the bus does not span them), and the keep-alive frames,
which change no state. Two runs of one review that overlap are modelled in
`ReviewPipeline` but little is promised about them; the code promises nothing either. In
`LlmClient`: waits and their lengths (`retry_after`), `ping`, and an explicit key that
consists of separators only (the request then keeps to one model and sends no key). In
`Grading`: rounding, and the content of the judgment that `grade_criterion` normalises.
A rubric of scored criteria only, of which none could be graded, scores zero and is
rejected rather than sent to review; that is what the code does and no text of the
repository says otherwise. In `JobQueue`: a `reclaim_orphans` that raises. It stands
before the loop that catches exceptions (`jobs/worker.py:71-72`), so the worker task
ends while the process goes on to accept requests; nothing runs their jobs until a
process is started again, which is what `BootLoad` waits for. In `ReviewPipeline`: a
`session.get` at the start of `run_review` that raises before the try (`runner.py:50`),
which ends the run as `FailureEscapes` does. In `Catalog`: requests that change nothing,
because a check fails or their first commit raises, and two file sets with one hash. In
`Material`: letter case, encodings, numbers other than naturals, the confidence and the
rationale of a judgment, the coercions that pydantic allows (a number in a string),
signals with commas in them, which the offline grader splits, archives that are damaged,
and what `.gitattributes` keeps out of an archive that a host makes.

Places where a text of the repository is broader than the code, which the models follow:

- `engine/evidence.py:6` wants the cited code to appear "at those lines"; line 62 also
  accepts a quote that merely contains the lines.
- `ingestion/normalize.py:4-5` speaks of one file set for one tree. An archive without a
  folder on top, whose tree has a single top folder, loses that folder; and a symbolic
  link is followed or skipped in a clone (`github.py:53-71`), while `zip.py:70` reads the
  path it holds as content. `SourceIrrelevant` leaves this source, and the archives of
  trees with links that are kept, out; with them TLC finds two file sets for one tree.
- `utils/json_recovery.py:5-7` names missing commas among what is repaired. A comma is
  only inserted between a closing bracket and a double quote (line 136 says so); where one is
  missing between two objects, or after a string or a number, nothing is recovered.
  `ManglingUndone` says what is lost ("lost") and that nothing else is made of it.
- `utils/json_recovery.py:43-45` promises "never a silent wrong value". A number that is cut
  after a digit is closed there and valid: a score of 85 is read as 8, an end line of 11 as 1.
  `SalvageOnlyCuts` allows this of the one value at the cut and of no other, and of the end
  line only with its quote gone. The repair of commas also reaches into strings that
  have brackets in them (`Fragile`).
- `engine/runner.py:98` takes the key from the configurations of the day and the
  model from the review. `KeyFits` holds up to a change of the configurations.
- On SQLite no foreign key is enforced; `Grounded` is about PostgreSQL only.

## 6. Plan

Done: queue, pipeline, stream, client, policy, catalog, material; a theorem for every
safety property but the two named above, and the refinement of the ledger. What could follow:

1. The scanner of `_balanced` alone: that `Closers` closes every bracket which the cut left
   open, a loop invariant over `Scan` that needs no parser.
2. Two API processes in `EventStream`, should the bus ever span them.
3. The evaluation harness, should it ever run cases concurrently.
