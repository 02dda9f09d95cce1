------------------------------ MODULE Rubrics ------------------------------
(***************************************************************************)
(* Tasks, their rubric drafts and published versions: the endpoints of     *)
(* backend/app/api/routers/tasks.py, with TaskRepository, services/        *)
(* rubric.py and the checks of api/schemas/task.py.                        *)
(*                                                                         *)
(* A handler reads its rows in one await and commits in another.  The      *)
(* commit writes the columns whose value differs from the one read.        *)
(***************************************************************************)
EXTENDS Api, Integers, Sequences, FiniteSetsExt

CONSTANTS
    Names,      \* task names
    Inputs,     \* request bodies of save_rubric_draft, valid and invalid
    NewDraft    \* RubricDraft(): what a task starts with

VARIABLES
    task,       \* [name, draft, current]
    version     \* [task, number, content]: rubric_version with its criteria

rvars == <<task, version>>

\* RubricDraft, with what the decisions depend on.
Drafts == [criteria  : Seq([key : STRING, type : {"scored", "gate"}, weight : Int]),
           accept_at : Int, review_at : Int]

Scored(d) == {i \in DOMAIN d.criteria : d.criteria[i].type = "scored"}

\* The validators of CriterionIn, DecisionConfig and RubricDraft.
ValidDraft(d) ==
    /\ \A i, j \in DOMAIN d.criteria : d.criteria[i].key = d.criteria[j].key => i = j
    /\ \A i \in Scored(d) : d.criteria[i].weight > 0
    /\ 0 <= d.review_at /\ d.review_at <= d.accept_at /\ d.accept_at <= 100

ASSUME DraftsAssumption ==
    /\ Inputs \subseteq Drafts
    /\ NewDraft \in Drafts /\ ValidDraft(NewDraft)

\* Seeded fault: a rubric without criteria may be published.
Publishable_Empty(d) ==
    Scored(d) # {} => MapThenSumSet(LAMBDA i : d.criteria[i].weight, Scored(d)) > 0

\* validate_publishable.
Publishable(d) ==
    /\ d.criteria # <<>>
    /\ Scored(d) # {} => MapThenSumSet(LAMBDA i : d.criteria[i].weight, Scored(d)) > 0

VersionsOf(t) == {v \in DOMAIN version : version[v].task = t}

-----------------------------------------------------------------------------
(* Tasks.                                                                   *)

CreateTask(r) ==
    /\ In(r, "waiting")
    /\ \E n \in Names :
           task' = InsertRow(task, r, [name |-> n, draft |-> NewDraft, current |-> None])
    /\ Answer(r)
    /\ UNCHANGED version

\* update_task and save_rubric_draft have loaded the row and are about to assign
\* one of its columns.
LoadTask(r, t, place, value, read) ==
    /\ In(r, "waiting")
    /\ t \in DOMAIN task
    /\ Await(r, [at |-> place, task |-> t, value |-> value, read |-> read])
    /\ UNCHANGED rvars

UpdateTask(r, t) == \E n \in Names : LoadTask(r, t, "renaming", n, task[t].name)

\* Seeded fault: the body is stored as it came.
SaveDraft_Unchecked(r, t) == \E d \in Inputs : LoadTask(r, t, "saving", d, task[t].draft)

SaveDraft(r, t) ==
    \E d \in Inputs : ValidDraft(d) /\ LoadTask(r, t, "saving", d, task[t].draft)

\* The commit.  It fails when the row has been deleted, and writes nothing when the
\* value is the one read.
StoreTask(r) ==
    /\ In(r, "renaming") \/ In(r, "saving")
    /\ LET my == req[r] IN
           task' = IF my.task \notin DOMAIN task \/ my.value = my.read THEN task
                   ELSE IF In(r, "saving") THEN [task EXCEPT ![my.task].draft = my.value]
                   ELSE [task EXCEPT ![my.task].name = my.value]
    /\ Answer(r)
    /\ UNCHANGED version

\* delete_task loads the task, and session.delete the versions it cascades to.
DeleteLoad(r, t) ==
    /\ In(r, "waiting")
    /\ t \in DOMAIN task
    /\ Await(r, [at |-> "deleting", task |-> t, versions |-> VersionsOf(t)])
    /\ UNCHANGED rvars

\* Seeded fault: the reviews do not hold back the deletion.
DeleteStore_Unreferenced(r, inUse) ==
    /\ In(r, "deleting")
    /\ LET my   == req[r]
           gone == IF ForeignKeys THEN my.versions \union VersionsOf(my.task) ELSE my.versions
       IN  /\ task' = DeleteRows(task, {my.task})
           /\ version' = DeleteRows(version, gone)
    /\ Answer(r)

\* The commit deletes what was loaded.  The database adds the versions that were
\* published since (ON DELETE CASCADE) and refuses if a review refers to a row,
\* when it enforces foreign keys.
DeleteStore(r, inUse) ==
    /\ In(r, "deleting")
    /\ LET my   == req[r]
           gone == IF ForeignKeys THEN my.versions \union VersionsOf(my.task) ELSE my.versions
       IN  IF ForeignKeys /\ ({my.task} \union gone) \intersect inUse # {}
           THEN UNCHANGED rvars
           ELSE /\ task' = DeleteRows(task, {my.task})
                /\ version' = DeleteRows(version, gone)
    /\ Answer(r)

-----------------------------------------------------------------------------
(* Publishing.                                                              *)

\* The draft is what the row says now, and is checked.
PublishLoad(r, t) ==
    /\ In(r, "waiting")
    /\ t \in DOMAIN task
    /\ Publishable(task[t].draft)
    /\ Await(r, [at |-> "publishing", task |-> t, draft |-> task[t].draft])
    /\ UNCHANGED rvars

\* max(version_number) is read without a lock.
PublishNumber(r) ==
    /\ In(r, "publishing")
    /\ LET numbers == {version[v].number : v \in VersionsOf(req[r].task)} IN
           Await(r, [at |-> "numbered", task |-> req[r].task, draft |-> req[r].draft,
                     number |-> Max(numbers \union {0}) + 1])
    /\ UNCHANGED rvars

\* Seeded fault: uq_rubric_version is not there.
NumberFree_Always(t, n) == TRUE

\* uq_rubric_version.
NumberFree(t, n) == \A v \in VersionsOf(t) : version[v].number # n

\* The version, its criteria and the task's pointer are committed together, or
\* the commit fails: the number is taken or the task is gone.  The draft is
\* assigned the value it was read with, so its column is not written.
PublishStore(r) ==
    /\ In(r, "numbered")
    /\ LET my == req[r] IN
           IF my.task \in DOMAIN task /\ NumberFree(my.task, my.number)
           THEN /\ version' = InsertRow(version, r, [task |-> my.task, number |-> my.number,
                                                     content |-> my.draft])
                /\ task' = [task EXCEPT ![my.task].current = r]
           ELSE UNCHANGED rvars
    /\ Answer(r)

-----------------------------------------------------------------------------
(* Correctness.                                                             *)

\* The published versions of a task are numbered 1, 2, 3, ... whatever was
\* published at once, and the task points to the last of them.
VersionsInOrder ==
    \A t \in DOMAIN task :
        LET numbers == {version[v].number : v \in VersionsOf(t)}
            n       == Cardinality(VersionsOf(t))
        IN  /\ numbers = 1..n
            /\ IF n = 0 THEN task[t].current = None
               ELSE task[t].current \in VersionsOf(t) /\ version[task[t].current].number = n

\* Whatever is published can be decided upon: the thresholds are ordered, and
\* there are gates, or scored criteria with a positive total weight, so that the
\* policy's weighted mean is defined (engine/policy.py).
PublishedIsGradable ==
    \A v \in DOMAIN version :
        LET d == version[v].content IN
        /\ 0 <= d.review_at /\ d.review_at <= d.accept_at /\ d.accept_at <= 100
        /\ \/ MapThenSumSet(LAMBDA i : d.criteria[i].weight, Scored(d)) > 0
           \/ \E i \in DOMAIN d.criteria : d.criteria[i].type = "gate"

=============================================================================
