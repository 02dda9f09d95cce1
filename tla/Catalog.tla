------------------------------ MODULE Catalog ------------------------------
(***************************************************************************)
(* The requests of the API process together, over the tables they share,   *)
(* with what creates and runs reviews: create_review of                    *)
(* backend/app/services/reviews.py and the part of engine/runner.py that   *)
(* reads these tables.  (The job that carries a run, and its events, are   *)
(* in ReviewPipeline; the re-arming of a job is taken from there.)         *)
(***************************************************************************)
EXTENDS Rubrics, Providers, Submissions

CONSTANTS
    OldDraft,       \* what the task that is there already has published,
    OldModel,       \* the model of the default configuration,
    OldTree,        \* and the files of the submission
    MaxCrashes      \* bound: how often the process dies

ASSUME OldAssumption ==
    /\ OldDraft \in Drafts /\ ValidDraft(OldDraft) /\ Publishable(OldDraft)
    /\ OldModel \in Models
    /\ OldTree \in Trees
ASSUME CrashesAssumption == MaxCrashes \in Nat

VARIABLES
    review,     \* [task, version, submission, model, hash, status, graded, key,
                \*  epoch]; epoch is history: of the configurations it was made with
    crashes

vars == <<req, database, task, version, config, lostKeys, overlaps, removed, epoch,
          submission, blob, review, crashes>>

Init ==
    /\ req = [r \in Requests |-> Waiting]
    /\ database \in {"postgresql", "sqlite"}
    /\ task = [x \in {Old} |-> [name |-> "old", draft |-> OldDraft, current |-> Old]]
    /\ version = [x \in {Old} |-> [task |-> Old, number |-> 1, content |-> OldDraft]]
    /\ config = [x \in {Old} |-> [model |-> OldModel, default |-> TRUE]]
    /\ submission = [x \in {Old} |-> [tree |-> OldTree, before |-> {}]]
    /\ blob = [c \in Contents |-> IF c \in ContentsOf(OldTree) THEN "whole" ELSE "absent"]
    /\ review = [x \in {} |-> {}]
    /\ lostKeys = {} /\ overlaps = 0 /\ removed = FALSE /\ epoch = 0 /\ crashes = 0

\* rubric_hash: as good as the canonical rubric itself.
Hash(v) == version[v].content

-----------------------------------------------------------------------------
(* create_review.                                                           *)

\* The task has a published version and the submission is there.
ReviewTask(r, t, s) ==
    /\ In(r, "waiting")
    /\ t \in DOMAIN task /\ task[t].current # None
    /\ s \in DOMAIN submission
    /\ Await(r, [at |-> "tasked", task |-> t, version |-> task[t].current, submission |-> s])
    /\ UNCHANGED <<rvars, pvars, svars, review>>

\* The version is loaded, unless it was deleted meanwhile (the answer is 500), and
\* the default configuration gives the model.
ReviewResolve(r) ==
    /\ In(r, "tasked")
    /\ LET my == req[r] IN
           IF my.version \notin DOMAIN version THEN Answer(r)
           ELSE \E cred \in Credentials :
                    Await(r, [at |-> "resolved", task |-> my.task, version |-> my.version,
                              submission |-> my.submission, model |-> cred.model,
                              hash |-> Hash(my.version), epoch |-> epoch])
    /\ UNCHANGED <<rvars, pvars, svars, review>>

\* The idempotency key hashes these and a constant, the template version.
KeyOf(x) == <<x.version, x.submission, x.model>>

\* The foreign keys of the review table.
RowsExist(x) ==
    x.task \in DOMAIN task /\ x.version \in DOMAIN version /\ x.submission \in DOMAIN submission

\* The review with this key is armed again unless it is completed; otherwise one
\* is inserted.  A foreign key, or the unique key when another request inserted
\* meanwhile, may refuse it.
ReviewInsert(r) ==
    /\ In(r, "resolved")
    /\ LET my   == req[r]
           same == {x \in DOMAIN review : KeyOf(review[x]) = KeyOf(my)}
       IN  review' =
               IF same # {}
               THEN [x \in DOMAIN review |->
                        IF x \in same /\ review[x].status # "completed"
                        THEN [review[x] EXCEPT !.armed = TRUE] ELSE review[x]]
               ELSE IF ForeignKeys /\ ~RowsExist(my) THEN review
               ELSE InsertRow(review, r,
                        [task |-> my.task, version |-> my.version, submission |-> my.submission,
                         model |-> my.model, hash |-> my.hash, status |-> "queued",
                         armed |-> TRUE, graded |-> None, key |-> None, epoch |-> my.epoch])
    /\ Answer(r)
    /\ UNCHANGED <<rvars, pvars, svars>>

-----------------------------------------------------------------------------
(* run_review.                                                              *)

\* Seeded fault: the rubric is the task's, not the review's.
RubricOf_Current(x) == IF x.task \in DOMAIN task THEN task[x.task].current ELSE None

\* The rubric version a run grades.
RubricOf(x) == x.version

\* A run needs the version, the submission and one file; then the credentials are
\* resolved anew for their key, while the model is the review's.  The provider may
\* fail it.  The job is settled or left for another run.
RunReview(x) ==
    /\ x \in DOMAIN review /\ review[x].armed
    /\ \E cred \in Credentials, armed \in BOOLEAN :
           LET my    == review[x]
               ready == /\ RubricOf(my) \in DOMAIN version
                        /\ my.submission \in DOMAIN submission
                        /\ LoadFileset(my.submission) # {}
           IN  \/ review' = [review EXCEPT ![x] = [my EXCEPT !.status = "failed", !.armed = armed]]
               \/ /\ ready
                  /\ review' = [review EXCEPT ![x] =
                                    [my EXCEPT !.status = "completed", !.armed = armed,
                                               !.graded = Hash(RubricOf(my)), !.key = cred.key]]
    /\ UNCHANGED <<req, rvars, pvars, svars>>

-----------------------------------------------------------------------------

\* The process dies and is started again, with the same secret or another: the
\* requests under way are gone, with what they have not committed.
Crash ==
    /\ crashes < MaxCrashes
    /\ crashes' = crashes + 1
    /\ \/ UNCHANGED blob
       \/ \E r \in Requests : StoreBlobsCut(r)
    /\ removed' = (removed \/ Setting # {})
    /\ ChangeSecret \/ UNCHANGED <<lostKeys, epoch>>
    /\ req' = [r \in Requests |-> IF In(r, "waiting") THEN Waiting ELSE Done]
    /\ UNCHANGED <<database, rvars, config, overlaps, submission, review>>

\* The rows that reviews refer to.
InUse == UNION {{review[x].task, review[x].version} : x \in DOMAIN review}

Tasks == \E r \in Requests :
    /\ \/ CreateTask(r)
       \/ \E t \in DOMAIN task : UpdateTask(r, t) \/ SaveDraft(r, t) \/ DeleteLoad(r, t) \/ PublishLoad(r, t)
       \/ StoreTask(r)
       \/ DeleteStore(r, InUse)
       \/ PublishNumber(r)
       \/ PublishStore(r)
    /\ UNCHANGED <<database, pvars, svars, review, crashes>>

Configurations == \E r \in Requests :
    /\ \/ \E m \in Models : CreateDefault(r, m) \/ CreateConfig(r, m)
       \/ InsertDefault(r)
       \/ \E c \in DOMAIN config : SetDefaultLoad(r, c) \/ DeleteConfig(r, c)
       \/ SetDefaultClear(r)
       \/ SetDefaultStore(r)
    /\ UNCHANGED <<database, rvars, svars, review, crashes>>

Ingests == \E r \in Requests :
    /\ \/ \E tree \in Trees : IngestLookup(r, tree)
       \/ StoreBlobs(r)
       \/ StoreSubmission(r)
    /\ UNCHANGED <<database, rvars, pvars, review, crashes>>

Reviews ==
    /\ \/ \E r \in Requests :
              \/ \E t \in DOMAIN task, s \in DOMAIN submission : ReviewTask(r, t, s)
              \/ ReviewResolve(r)
              \/ ReviewInsert(r)
       \/ \E x \in DOMAIN review : RunReview(x)
    /\ UNCHANGED <<database, crashes>>

Next == Tasks \/ Configurations \/ Ingests \/ Reviews \/ Crash

Spec == Init /\ [][Next]_vars

-----------------------------------------------------------------------------
(* Correctness.                                                             *)

\* With a database that enforces its foreign keys, no request takes a row away
\* that another row names, however a deletion, a publication and the creation of
\* a review interleave: the report of every review can be explained.
Grounded ==
    ForeignKeys =>
        /\ \A x \in DOMAIN review : RowsExist(review[x])
        /\ \A v \in DOMAIN version : version[v].task \in DOMAIN task
        /\ \A t \in DOMAIN task : task[t].current # None => task[t].current \in DOMAIN version

\* What a review was graded against is what it was created for, and what its
\* report's rubric_content_hash says, whatever was saved, published or deleted
\* between its creation and its runs.
GradedAsPromised ==
    \A x \in DOMAIN review :
        /\ review[x].status = "completed" => review[x].graded = review[x].hash
        /\ review[x].version \in DOMAIN version => review[x].hash = Hash(review[x].version)

\* A run sends the key of one configuration with the model of another only if the
\* configurations were changed after the review was created, or several are the
\* default.
KeyFits ==
    \A x \in DOMAIN review :
        LET my == review[x] IN
        my.key \in DOMAIN config /\ config[my.key].model # my.model
            => epoch > my.epoch \/ overlaps > 0

\* The tables hold rows of their kind.
CatalogTypeOK ==
    /\ DOMAIN req = Requests /\ database \in {"postgresql", "sqlite"}
    /\ \A t \in DOMAIN task : t \in Ids /\ task[t].current \in Ids \union {None} /\ ValidDraft(task[t].draft)
    /\ \A v \in DOMAIN version : v \in Ids /\ version[v].number \in 1..Cardinality(Ids)
    /\ \A c \in DOMAIN config : c \in Ids /\ config[c] \in [model : Models, default : BOOLEAN]
    /\ \A s \in DOMAIN submission : s \in Ids /\ submission[s].tree \in Trees
    /\ blob \in [Contents -> {"absent", "partial", "whole"}]
    /\ \A x \in DOMAIN review : x \in Requests /\ review[x].status \in {"queued", "completed", "failed"}
    /\ lostKeys \subseteq Ids /\ overlaps \in Nat /\ removed \in BOOLEAN /\ epoch \in Nat /\ crashes \in 0..MaxCrashes

=============================================================================
