--------------------------- MODULE CatalogProofs ---------------------------
(***************************************************************************)
(* Theorems about the catalog, the default configuration and the tasks     *)
(* with their blobs, for any finite number of requests, any drafts, models *)
(* and trees, and any number of crashes.                                   *)
(***************************************************************************)
EXTENDS Catalog, FiniteSetTheorems, TLAPS

-----------------------------------------------------------------------------
(* Where a handler of each kind can go.                                     *)

TaskPlaces   == {"renaming", "saving", "deleting", "publishing", "numbered", "done"}
ConfigPlaces == {"creating", "loaded", "setting", "done"}
IngestPlaces == {"writing", "storing", "done"}
ReviewPlaces == {"tasked", "resolved", "done"}

\* One request, at one of these places or not yet begun, goes to one of them; the
\* others stay.
Moves(r, places) ==
    /\ DOMAIN req' = Requests
    /\ req[r].at \in (places \union {"waiting"}) \ {"done"}
    /\ \A q \in Requests \ {r} : req'[q] = req[q]
    /\ req'[r].at \in places

LEMMA TaskMoves ==
  ASSUME Tasks, DOMAIN req = Requests
  PROVE  /\ \E r \in Requests : Moves(r, TaskPlaces)
         /\ UNCHANGED <<database, pvars, svars, review, crashes>>
<1>1. PICK r \in Requests :
        /\ \/ CreateTask(r)
           \/ \E t \in DOMAIN task : UpdateTask(r, t) \/ SaveDraft(r, t) \/ DeleteLoad(r, t) \/ PublishLoad(r, t)
           \/ StoreTask(r)
           \/ DeleteStore(r, InUse)
           \/ PublishNumber(r)
           \/ PublishStore(r)
        /\ UNCHANGED <<database, pvars, svars, review, crashes>>
  BY DEF Tasks
<1>2. ASSUME CreateTask(r) PROVE Moves(r, TaskPlaces)
  BY <1>2 DEF CreateTask, Answer, Await, Done, In, Moves, TaskPlaces
<1>3. ASSUME NEW t \in DOMAIN task, UpdateTask(r, t) PROVE Moves(r, TaskPlaces)
  BY <1>3 DEF UpdateTask, LoadTask, Await, In, Moves, TaskPlaces
<1>4. ASSUME NEW t \in DOMAIN task, SaveDraft(r, t) PROVE Moves(r, TaskPlaces)
  BY <1>4 DEF SaveDraft, LoadTask, Await, In, Moves, TaskPlaces
<1>5. ASSUME NEW t \in DOMAIN task, DeleteLoad(r, t) PROVE Moves(r, TaskPlaces)
  BY <1>5 DEF DeleteLoad, Await, In, Moves, TaskPlaces
<1>6. ASSUME NEW t \in DOMAIN task, PublishLoad(r, t) PROVE Moves(r, TaskPlaces)
  BY <1>6 DEF PublishLoad, Await, In, Moves, TaskPlaces
<1>7. ASSUME StoreTask(r) PROVE Moves(r, TaskPlaces)
  BY <1>7 DEF StoreTask, Answer, Await, Done, In, Moves, TaskPlaces
<1>8. ASSUME DeleteStore(r, InUse) PROVE Moves(r, TaskPlaces)
  BY <1>8 DEF DeleteStore, Answer, Await, Done, In, Moves, TaskPlaces
<1>9. ASSUME PublishNumber(r) PROVE Moves(r, TaskPlaces)
  BY <1>9 DEF PublishNumber, Await, In, Moves, TaskPlaces
<1>10. ASSUME PublishStore(r) PROVE Moves(r, TaskPlaces)
  BY <1>10 DEF PublishStore, Answer, Await, Done, In, Moves, TaskPlaces
<1> QED  BY <1>1, <1>2, <1>3, <1>4, <1>5, <1>6, <1>7, <1>8, <1>9, <1>10

LEMMA ConfigMoves ==
  ASSUME Configurations, DOMAIN req = Requests
  PROVE  /\ \E r \in Requests : Moves(r, ConfigPlaces)
         /\ UNCHANGED <<database, rvars, svars, review, crashes>>
<1>1. PICK r \in Requests :
        /\ \/ \E m \in Models : CreateDefault(r, m) \/ CreateConfig(r, m)
           \/ InsertDefault(r)
           \/ \E c \in DOMAIN config : SetDefaultLoad(r, c) \/ DeleteConfig(r, c)
           \/ SetDefaultClear(r)
           \/ SetDefaultStore(r)
        /\ UNCHANGED <<database, rvars, svars, review, crashes>>
  BY DEF Configurations
<1>2. ASSUME NEW m \in Models, CreateDefault(r, m) \/ CreateConfig(r, m)
      PROVE  Moves(r, ConfigPlaces)
  BY <1>2 DEF CreateDefault, CreateConfig, InsertConfig, Answer, Await, Done, In, Moves, ConfigPlaces
<1>3. ASSUME InsertDefault(r) PROVE Moves(r, ConfigPlaces)
  BY <1>3 DEF InsertDefault, InsertConfig, StoreRaises, Answer, Await, Done, In, Moves, ConfigPlaces
<1>4. ASSUME NEW c \in DOMAIN config, SetDefaultLoad(r, c) \/ DeleteConfig(r, c)
      PROVE  Moves(r, ConfigPlaces)
  BY <1>4 DEF SetDefaultLoad, DeleteConfig, Answer, Await, Done, In, Moves, ConfigPlaces
<1>5. ASSUME SetDefaultClear(r) \/ SetDefaultStore(r) PROVE Moves(r, ConfigPlaces)
  BY <1>5 DEF SetDefaultClear, SetDefaultStore, StoreRaises, Answer, Await, Done, In, Moves, ConfigPlaces
<1> QED  BY <1>1, <1>2, <1>3, <1>4, <1>5

LEMMA IngestMoves ==
  ASSUME Ingests, DOMAIN req = Requests
  PROVE  /\ \E r \in Requests : Moves(r, IngestPlaces)
         /\ UNCHANGED <<database, rvars, pvars, review, crashes>>
<1>1. PICK r \in Requests :
        /\ (\E tree \in Trees : IngestLookup(r, tree)) \/ StoreBlobs(r) \/ StoreSubmission(r)
        /\ UNCHANGED <<database, rvars, pvars, review, crashes>>
  BY DEF Ingests
<1>2. ASSUME NEW tree \in Trees, IngestLookup(r, tree) PROVE Moves(r, IngestPlaces)
  BY <1>2 DEF IngestLookup, Answer, Await, Done, In, Moves, IngestPlaces
<1>3. ASSUME StoreBlobs(r) PROVE Moves(r, IngestPlaces)
  BY <1>3 DEF StoreBlobs, Await, In, Moves, IngestPlaces
<1>4. ASSUME StoreSubmission(r) PROVE Moves(r, IngestPlaces)
  BY <1>4 DEF StoreSubmission, Answer, Await, Done, In, Moves, IngestPlaces
<1> QED  BY <1>1, <1>2, <1>3, <1>4

LEMMA ReviewMoves ==
  ASSUME Reviews, DOMAIN req = Requests
  PROVE  /\ req' = req \/ \E r \in Requests : Moves(r, ReviewPlaces)
         /\ UNCHANGED <<database, rvars, pvars, svars, crashes>>
<1>1. CASE \E x \in DOMAIN review : RunReview(x)
  BY <1>1 DEF Reviews, RunReview
<1>2. ASSUME NEW r \in Requests,
             \/ \E t \in DOMAIN task, s \in DOMAIN submission : ReviewTask(r, t, s)
             \/ ReviewResolve(r)
             \/ ReviewInsert(r)
      PROVE  Moves(r, ReviewPlaces) /\ UNCHANGED <<rvars, pvars, svars>>
  <2>1. ASSUME NEW t \in DOMAIN task, NEW s \in DOMAIN submission, ReviewTask(r, t, s)
        PROVE  Moves(r, ReviewPlaces) /\ UNCHANGED <<rvars, pvars, svars>>
    BY <2>1 DEF ReviewTask, Await, In, Moves, ReviewPlaces
  <2>2. ASSUME ReviewResolve(r)
        PROVE  Moves(r, ReviewPlaces) /\ UNCHANGED <<rvars, pvars, svars>>
    BY <2>2 DEF ReviewResolve, Answer, Await, Done, In, Moves, ReviewPlaces
  <2>3. ASSUME ReviewInsert(r)
        PROVE  Moves(r, ReviewPlaces) /\ UNCHANGED <<rvars, pvars, svars>>
    BY <2>3 DEF ReviewInsert, Answer, Await, Done, In, Moves, ReviewPlaces
  <2> QED  BY <1>2, <2>1, <2>2, <2>3
<1> QED  BY <1>1, <1>2 DEF Reviews

LEMMA CrashMoves ==
  ASSUME Crash
  PROVE  /\ DOMAIN req' = Requests
         /\ \A r \in Requests :
               /\ req'[r].at \in {"waiting", "done"}
               /\ req'[r].at = "waiting" => req[r].at = "waiting"
         /\ UNCHANGED <<database, rvars, config, overlaps, submission, review>>
<1>1. req' = [r \in Requests |-> IF In(r, "waiting") THEN Waiting ELSE Done]
  BY DEF Crash
<1> QED  BY <1>1 DEF Crash, In, Waiting, Done

-----------------------------------------------------------------------------
(* Submissions and blobs.                                                   *)

\* A blob is there or not, those of the stored submissions are, and those of a
\* request that has written its own; what a request's lookup saw does not hold
\* its tree.
SubInv ==
    /\ DOMAIN req = Requests
    /\ \A c \in Contents : blob[c] \in {"absent", "whole"}
    /\ \A s \in DOMAIN submission :
           /\ s \in Ids /\ submission[s].tree \in Trees
           /\ \A c \in ContentsOf(submission[s].tree) : blob[c] = "whole"
           /\ s \notin submission[s].before
           /\ \A u \in submission[s].before : u \in DOMAIN submission
                                            /\ submission[u].tree # submission[s].tree
    /\ \A r \in Requests :
           /\ req[r].at \in {"waiting", "writing", "storing"} => r \notin DOMAIN submission
           /\ req[r].at \in {"writing", "storing"} =>
                  /\ req[r].tree \in Trees
                  /\ \A u \in req[r].before : u \in DOMAIN submission
                                           /\ submission[u].tree # req[r].tree
           /\ req[r].at = "storing" => \A c \in ContentsOf(req[r].tree) : blob[c] = "whole"

LEMMA TreeContents == ASSUME NEW tree \in Trees PROVE ContentsOf(tree) \subseteq Contents
<1> QED  BY DEF ContentsOf, Contents

LEMMA SubInit == Init => SubInv
<1> SUFFICES ASSUME Init PROVE SubInv  OBVIOUS
<1>1. ContentsOf(OldTree) \subseteq Contents  BY OldAssumption, TreeContents
<1> QED  BY <1>1, IdsAssumption, OldAssumption DEF Init, SubInv, Ids, Waiting

\* The invariant is about these variables and these places only.
LEMMA SubFrame ==
  ASSUME SubInv, UNCHANGED svars, DOMAIN req' = Requests,
         \A r \in Requests : req'[r].at \in {"waiting", "writing", "storing"} => req'[r] = req[r]
  PROVE  SubInv'
<1> QED  BY DEF SubInv, svars

LEMMA SubIngests ==
  ASSUME SubInv, Ingests
  PROVE  SubInv'
<1>1. PICK r \in Requests :
        (\E tree \in Trees : IngestLookup(r, tree)) \/ StoreBlobs(r) \/ StoreSubmission(r)
  BY DEF Ingests
<1>2. ASSUME NEW tree \in Trees, IngestLookup(r, tree) PROVE SubInv'
  BY <1>2 DEF IngestLookup, In, Answer, Await, Done, SubInv, svars
<1>3. ASSUME StoreBlobs(r) PROVE SubInv'
  <2>1. ContentsOf(req[r].tree) \subseteq Contents
    BY <1>3, TreeContents DEF SubInv, StoreBlobs, In
  <2>2. \A c \in Contents : blob'[c] \in {"absent", "whole"} /\ (blob[c] = "whole" => blob'[c] = "whole")
    BY <1>3 DEF StoreBlobs, SubInv
  <2>3. \A c \in ContentsOf(req[r].tree) : blob'[c] = "whole"
    BY <1>3, <2>1 DEF StoreBlobs, SubInv
  <2>4. /\ DOMAIN req' = Requests /\ submission' = submission
        /\ \A q \in Requests \ {r} : req'[q] = req[q]
        /\ req'[r] = [at |-> "storing", tree |-> req[r].tree, before |-> req[r].before]
        /\ req[r].at = "writing"
    BY <1>3 DEF StoreBlobs, SubInv, Await, In
  <2>5. \A tree \in Trees : \A c \in ContentsOf(tree) : blob[c] = "whole" => blob'[c] = "whole"
    BY <2>2, TreeContents
  <2> QED  BY <2>2, <2>3, <2>4, <2>5 DEF SubInv
<1>4. ASSUME StoreSubmission(r) PROVE SubInv'
  <2>1. /\ DOMAIN req' = Requests /\ blob' = blob
        /\ \A q \in Requests \ {r} : req'[q] = req[q]
        /\ req'[r] = [at |-> "done"] /\ req[r].at = "storing" /\ r \notin DOMAIN submission
    BY <1>4 DEF StoreSubmission, SubInv, Answer, Await, Done, In
  <2>2. CASE submission' = submission
    BY <2>1, <2>2 DEF SubInv
  <2>3. CASE submission' = InsertRow(submission, r, [tree |-> req[r].tree, before |-> req[r].before])
    <3>1. /\ DOMAIN submission' = DOMAIN submission \union {r}
          /\ submission'[r] = [tree |-> req[r].tree, before |-> req[r].before]
          /\ \A s \in DOMAIN submission : submission'[s] = submission[s]
      BY <2>1, <2>3 DEF InsertRow
    <3>2. \A s \in DOMAIN submission' :
            /\ s \in Ids /\ submission'[s].tree \in Trees
            /\ \A c \in ContentsOf(submission'[s].tree) : blob'[c] = "whole"
            /\ s \notin submission'[s].before
            /\ \A u \in submission'[s].before : u \in DOMAIN submission'
                                              /\ submission'[u].tree # submission'[s].tree
      BY <2>1, <3>1 DEF SubInv, Ids
    <3>3. \A q \in Requests :
            req'[q].at \in {"waiting", "writing", "storing"} => q # r /\ req'[q] = req[q]
      BY <2>1
    <3> QED  BY <2>1, <3>1, <3>2, <3>3 DEF SubInv
  <2> QED  BY <1>4, <2>2, <2>3 DEF StoreSubmission
<1> QED  BY <1>1, <1>2, <1>3, <1>4

LEMMA SubCrash ==
  ASSUME SubInv, Crash
  PROVE  SubInv'
<1>1. \A c \in Contents : blob'[c] \in {"absent", "whole"} /\ (blob[c] = "whole" => blob'[c] = "whole")
  <2>1. CASE blob' = blob
    BY <2>1 DEF SubInv
  <2>2. ASSUME NEW r \in Requests, StoreBlobsCut(r)
        PROVE  \A c \in Contents : blob'[c] \in {"absent", "whole"} /\ (blob[c] = "whole" => blob'[c] = "whole")
    BY <2>2 DEF SubInv, StoreBlobsCut, Interrupted
  <2> QED  BY <2>1, <2>2 DEF Crash
<1>2. \A tree \in Trees : \A c \in ContentsOf(tree) : blob[c] = "whole" => blob'[c] = "whole"
  BY <1>1, TreeContents
<1> QED  BY <1>1, <1>2, CrashMoves DEF SubInv

LEMMA SubNext == SubInv /\ [Next]_vars => SubInv'
<1> SUFFICES ASSUME SubInv, [Next]_vars PROVE SubInv'  OBVIOUS
<1>1. DOMAIN req = Requests  BY DEF SubInv
<1>2. CASE Tasks
  BY <1>1, <1>2, TaskMoves, SubFrame DEF Moves, TaskPlaces
<1>3. CASE Configurations
  BY <1>1, <1>3, ConfigMoves, SubFrame DEF Moves, ConfigPlaces
<1>4. CASE Reviews
  BY <1>1, <1>4, ReviewMoves, SubFrame DEF Moves, ReviewPlaces
<1>5. CASE UNCHANGED vars
  BY <1>1, <1>5, SubFrame DEF vars, svars
<1> QED  BY <1>2, <1>3, <1>4, <1>5, SubIngests, SubCrash DEF Next

\* Every file of a stored submission is read back as it was submitted
\* (services/submissions.py, storage/blobs.py and ingestion/loader.py).
THEOREM StoredIsLoaded == Spec => []LoadedIsStored
<1>1. SubInv => LoadedIsStored
  <2> SUFFICES ASSUME SubInv, NEW s \in DOMAIN submission
               PROVE  LoadFileset(s) = {<<f[1], <<f[2], "whole">> >> : f \in submission[s].tree}
    BY DEF LoadedIsStored
  <2>1. \A f \in submission[s].tree : blob[f[2]] = "whole"
    BY DEF SubInv, ContentsOf
  <2> QED  BY <2>1 DEF LoadFileset
<1> QED  BY <1>1, SubInit, SubNext, PTL DEF Spec

\* Two submissions of one content come from ingestions that overlapped
\* (services/submissions.py).
THEOREM DuplicatesOnlyOverlap == Spec => []DuplicatesOverlap
<1>1. SubInv => DuplicatesOverlap
  BY DEF SubInv, DuplicatesOverlap
<1> QED  BY <1>1, SubInit, SubNext, PTL DEF Spec

-----------------------------------------------------------------------------
(* Rubrics.                                                                 *)

Good(d) == d \in Drafts /\ ValidDraft(d)

\* A task row has its columns.
TaskRow(x) == x = [name |-> x.name, draft |-> x.draft, current |-> x.current]

\* Every draft has been validated, and every version was publishable, as was the
\* draft of a request that has passed the check.
RubricInv ==
    /\ DOMAIN req = Requests
    /\ \A t \in DOMAIN task : TaskRow(task[t]) /\ Good(task[t].draft)
    /\ \A v \in DOMAIN version : Good(version[v].content) /\ Publishable(version[v].content)
    /\ \A r \in Requests :
           /\ req[r].at = "saving" => Good(req[r].value)
           /\ req[r].at \in {"publishing", "numbered"} =>
                  Good(req[r].draft) /\ Publishable(req[r].draft)

LEMMA RubricInit == Init => RubricInv
<1> QED  BY OldAssumption DEF Init, RubricInv, Good, TaskRow, Waiting

LEMMA RubricFrame ==
  ASSUME RubricInv, UNCHANGED rvars, DOMAIN req' = Requests,
         \A r \in Requests : req'[r].at \in {"saving", "publishing", "numbered"} => req'[r] = req[r]
  PROVE  RubricInv'
<1> QED  BY DEF RubricInv, rvars

LEMMA RubricTasks ==
  ASSUME RubricInv, Tasks
  PROVE  RubricInv'
<1>1. PICK r \in Requests :
        \/ CreateTask(r)
        \/ \E t \in DOMAIN task : UpdateTask(r, t) \/ SaveDraft(r, t) \/ DeleteLoad(r, t) \/ PublishLoad(r, t)
        \/ StoreTask(r)
        \/ DeleteStore(r, InUse)
        \/ PublishNumber(r)
        \/ PublishStore(r)
  BY DEF Tasks
<1>2. ASSUME CreateTask(r) PROVE RubricInv'
  <2>1. PICK n \in Names :
          task' = InsertRow(task, r, [name |-> n, draft |-> NewDraft, current |-> None])
    BY <1>2 DEF CreateTask
  <2>2. \A t \in DOMAIN task' :
          \/ task'[t] = [name |-> n, draft |-> NewDraft, current |-> None]
          \/ t \in DOMAIN task /\ task'[t] = task[t]
    BY <2>1 DEF InsertRow
  <2>3. \A t \in DOMAIN task' : TaskRow(task'[t]) /\ Good(task'[t].draft)
    BY <2>2, DraftsAssumption DEF RubricInv, TaskRow, Good
  <2> QED  BY <1>2, <2>3 DEF CreateTask, RubricInv, Answer, Await, Done
<1>3. ASSUME NEW t \in DOMAIN task, UpdateTask(r, t) PROVE RubricInv'
  BY <1>3 DEF UpdateTask, LoadTask, Await, RubricInv, rvars
<1>4. ASSUME NEW t \in DOMAIN task, SaveDraft(r, t) PROVE RubricInv'
  BY <1>4, DraftsAssumption DEF SaveDraft, LoadTask, Await, RubricInv, rvars, Good
<1>5. ASSUME NEW t \in DOMAIN task, DeleteLoad(r, t) PROVE RubricInv'
  BY <1>5 DEF DeleteLoad, Await, RubricInv, rvars
<1>6. ASSUME NEW t \in DOMAIN task, PublishLoad(r, t) PROVE RubricInv'
  BY <1>6 DEF PublishLoad, Await, RubricInv, rvars
<1>7. ASSUME StoreTask(r) PROVE RubricInv'
  <2> DEFINE my == req[r]
  <2>1. \A t \in DOMAIN task' : TaskRow(task'[t]) /\ Good(task'[t].draft)
    <3>1. CASE task' = task
      BY <3>1 DEF RubricInv
    <3>2. CASE my.task \in DOMAIN task /\ In(r, "saving") /\ task' = [task EXCEPT ![my.task].draft = my.value]
      BY <3>2 DEF RubricInv, TaskRow, Good, In
    <3>3. CASE my.task \in DOMAIN task /\ task' = [task EXCEPT ![my.task].name = my.value]
      BY <3>3 DEF RubricInv, TaskRow, Good
    <3> QED  BY <1>7, <3>1, <3>2, <3>3 DEF StoreTask
  <2> QED  BY <1>7, <2>1 DEF StoreTask, RubricInv, Answer, Await, Done
<1>8. ASSUME DeleteStore(r, InUse) PROVE RubricInv'
  <2>1. /\ DOMAIN task' \subseteq DOMAIN task /\ \A t \in DOMAIN task' : task'[t] = task[t]
        /\ DOMAIN version' \subseteq DOMAIN version /\ \A v \in DOMAIN version' : version'[v] = version[v]
    BY <1>8 DEF DeleteStore, DeleteRows, Restrict, rvars
  <2> QED  BY <1>8, <2>1 DEF DeleteStore, RubricInv, Answer, Await, Done
<1>9. ASSUME PublishNumber(r) PROVE RubricInv'
  BY <1>9 DEF PublishNumber, Await, RubricInv, rvars, In
<1>10. ASSUME PublishStore(r) PROVE RubricInv'
  <2> DEFINE my == req[r]
             row == [task |-> my.task, number |-> my.number, content |-> my.draft]
  <2>1. CASE UNCHANGED rvars
    BY <1>10, <2>1, RubricFrame DEF PublishStore, Answer, Await, Done, RubricInv
  <2>2. CASE /\ my.task \in DOMAIN task
             /\ version' = InsertRow(version, r, row)
             /\ task' = [task EXCEPT ![my.task].current = r]
    <3>1. \A t \in DOMAIN task' : TaskRow(task'[t]) /\ Good(task'[t].draft)
      BY <2>2 DEF RubricInv, TaskRow, Good
    <3>2. \A v \in DOMAIN version' : version'[v] = row \/ (v \in DOMAIN version /\ version'[v] = version[v])
      BY <2>2 DEF InsertRow
    <3>3. \A v \in DOMAIN version' : Good(version'[v].content) /\ Publishable(version'[v].content)
      BY <1>10, <3>2 DEF RubricInv, PublishStore, In
    <3> QED  BY <1>10, <3>1, <3>3 DEF PublishStore, Answer, Await, Done, RubricInv
  <2> QED  BY <1>10, <2>1, <2>2 DEF PublishStore
<1> QED  BY <1>1, <1>2, <1>3, <1>4, <1>5, <1>6, <1>7, <1>8, <1>9, <1>10

LEMMA RubricNext == RubricInv /\ [Next]_vars => RubricInv'
<1> SUFFICES ASSUME RubricInv, [Next]_vars PROVE RubricInv'  OBVIOUS
<1>1. DOMAIN req = Requests  BY DEF RubricInv
<1>2. CASE Configurations
  BY <1>1, <1>2, ConfigMoves, RubricFrame DEF Moves, ConfigPlaces
<1>3. CASE Ingests
  BY <1>1, <1>3, IngestMoves, RubricFrame DEF Moves, IngestPlaces
<1>4. CASE Reviews
  BY <1>1, <1>4, ReviewMoves, RubricFrame DEF Moves, ReviewPlaces
<1>5. CASE Crash
  BY <1>5, CrashMoves, RubricFrame
<1>6. CASE UNCHANGED vars
  BY <1>1, <1>6, RubricFrame DEF vars, rvars
<1> QED  BY <1>2, <1>3, <1>4, <1>5, <1>6, RubricTasks DEF Next

\* What a sequence that is not empty begins with.
LEMMA FirstOf ==
  ASSUME NEW S, NEW c \in Seq(S), c # <<>>
  PROVE  1 \in DOMAIN c /\ c[1] \in S
<1>1. c \in [1..Len(c) -> S] /\ Len(c) \in Nat  OBVIOUS
<1>2. Len(c) # 0  OBVIOUS
<1>3. 1 \in 1..Len(c)  BY <1>1, <1>2
<1> QED  BY <1>1, <1>3

\* Whatever is published can be decided upon (api/schemas/task.py, services/
\* rubric.py and the publication in db/repositories/tasks.py).
THEOREM PublishedGradable == Spec => []PublishedIsGradable
<1>1. RubricInv => PublishedIsGradable
  <2> SUFFICES ASSUME RubricInv, NEW v \in DOMAIN version
               PROVE  LET d == version[v].content IN
                      /\ 0 <= d.review_at /\ d.review_at <= d.accept_at /\ d.accept_at <= 100
                      /\ \/ MapThenSumSet(LAMBDA i : d.criteria[i].weight, Scored(d)) > 0
                         \/ \E i \in DOMAIN d.criteria : d.criteria[i].type = "gate"
    BY DEF PublishedIsGradable
  <2> DEFINE d == version[v].content
  <2>1. d \in Drafts /\ ValidDraft(d) /\ Publishable(d)
    BY DEF RubricInv, Good
  <2>2. CASE Scored(d) # {}
    BY <2>1, <2>2 DEF ValidDraft, Publishable
  <2>3. CASE Scored(d) = {}
    <3> DEFINE criterion == [key : STRING, type : {"scored", "gate"}, weight : Int]
               c == d.criteria
    <3>1. c # <<>> /\ c \in Seq(criterion)
      BY <2>1 DEF Publishable, Drafts
    <3>4. 1 \in DOMAIN c /\ c[1] \in criterion
      <4> HIDE DEF c, criterion
      <4> QED  BY <3>1, FirstOf
    <3>2. 1 \in DOMAIN d.criteria /\ d.criteria[1].type \in {"scored", "gate"}
      BY <3>4
    <3>3. d.criteria[1].type = "gate"
      BY <2>3, <3>2 DEF Scored
    <3> QED  BY <2>1, <3>2, <3>3 DEF ValidDraft
  <2> QED  BY <2>2, <2>3
<1> QED  BY <1>1, RubricInit, RubricNext, PTL DEF Spec

-----------------------------------------------------------------------------
(* The default configuration and the keys that runs send.                   *)

\* A configuration row has its columns.
ConfigRow(x) == x = [model |-> x.model, default |-> x.default] /\ x.default \in BOOLEAN

\* The rows are of requests that are over, or were there; each default is one of
\* those that are set or about to be set.
ConfigInv ==
    /\ DOMAIN req = Requests
    /\ overlaps \in Nat
    /\ \A c \in DOMAIN config : c \in Ids /\ ConfigRow(config[c])
    /\ \A r \in Requests : req[r].at # "done" => r \notin DOMAIN config
    /\ Cardinality(Defaults) + Cardinality(Setting) <= 1 + overlaps

\* As long as no default was taken away, there is one or one is being set.
KeptInv == ~removed => Defaults \union Setting # {}

\* Rows whose flag is overwritten.
LEMMA Overwritten ==
  ASSUME NEW row, ConfigRow(row), NEW b
  PROVE  [row EXCEPT !.default = b] = [model |-> row.model, default |-> b]
<1>1. row = [model |-> row.model, default |-> row.default]  BY DEF ConfigRow
<1>2. PICK m, d : row = [model |-> m, default |-> d]  BY <1>1
<1> QED  BY <1>2

LEMMA RowOf ==
  ASSUME NEW row, NEW m, NEW b \in BOOLEAN, row = [model |-> m, default |-> b]
  PROVE  ConfigRow(row) /\ row.default = b
<1> QED  BY DEF ConfigRow

-----------------------------------------------------------------------------
(* The sets that are counted.                                               *)

LEMMA ConfigFinite ==
  ASSUME ConfigInv
  PROVE  /\ IsFiniteSet(Defaults) /\ IsFiniteSet(Setting)
         /\ Cardinality(Defaults) \in Nat /\ Cardinality(Setting) \in Nat
<1>1. IsFiniteSet(Ids)
  BY RequestsAssumption, FS_AddElement DEF Ids
<1>2. Defaults \subseteq Ids /\ Setting \subseteq Requests
  BY DEF ConfigInv, Defaults, Setting
<1>3. IsFiniteSet(Defaults) /\ IsFiniteSet(Setting)
  BY <1>1, <1>2, RequestsAssumption, FS_Subset
<1> QED  BY <1>3, FS_CardinalityType

\* A step that makes no default and starts no setting keeps the count, one that
\* sets a default takes its request out of those about to.
LEMMA CountFewer ==
  ASSUME ConfigInv, Defaults' \subseteq Defaults, Setting' \subseteq Setting,
         overlaps' = overlaps
  PROVE  Cardinality(Defaults') + Cardinality(Setting') <= 1 + overlaps'
<1> DEFINE D == Defaults' 
           S == Setting'
<1>1. /\ IsFiniteSet(D) /\ Cardinality(D) <= Cardinality(Defaults)
      /\ IsFiniteSet(S) /\ Cardinality(S) <= Cardinality(Setting)
  <2> HIDE DEF D, S
  <2>1. D \subseteq Defaults /\ S \subseteq Setting  BY DEF D, S
  <2> QED  BY <2>1, ConfigFinite, FS_Subset
<1>2. Cardinality(D) \in Nat /\ Cardinality(S) \in Nat
  <2> HIDE DEF D, S
  <2> QED  BY <1>1, FS_CardinalityType
<1>3. /\ Cardinality(Defaults) \in Nat /\ Cardinality(Setting) \in Nat /\ overlaps \in Nat
      /\ Cardinality(Defaults) + Cardinality(Setting) <= 1 + overlaps
  BY ConfigFinite DEF ConfigInv
<1> HIDE DEF D, S
<1>4. Cardinality(D) + Cardinality(S) <= 1 + overlaps
  BY <1>1, <1>2, <1>3
<1> QED  BY <1>4 DEF D, S

LEMMA CountMoved ==
  ASSUME ConfigInv, NEW c, NEW r \in Setting,
         Defaults' \subseteq Defaults \union {c}, Setting' = Setting \ {r},
         overlaps' = overlaps
  PROVE  Cardinality(Defaults') + Cardinality(Setting') <= 1 + overlaps'
<1> DEFINE D == Defaults'
           S == Setting'
<1>1. /\ Cardinality(Defaults) \in Nat /\ Cardinality(Setting) \in Nat
      /\ IsFiniteSet(Defaults) /\ IsFiniteSet(Setting) /\ overlaps \in Nat
      /\ Cardinality(Defaults) + Cardinality(Setting) <= 1 + overlaps
  BY ConfigFinite DEF ConfigInv
<1>2. /\ IsFiniteSet(Defaults \union {c})
      /\ Cardinality(Defaults \union {c}) <= Cardinality(Defaults) + 1
      /\ Cardinality(Defaults \union {c}) \in Nat
  <2>1. /\ IsFiniteSet(Defaults \union {c})
        /\ \/ Cardinality(Defaults \union {c}) = Cardinality(Defaults)
           \/ Cardinality(Defaults \union {c}) = Cardinality(Defaults) + 1
    BY <1>1, FS_AddElement
  <2> QED  BY <1>1, <2>1
<1>3. D \subseteq Defaults \union {c} /\ S = Setting \ {r}  OBVIOUS
<1> HIDE DEF D, S
<1>4. Cardinality(D) \in Nat /\ Cardinality(D) <= Cardinality(Defaults) + 1
  BY <1>1, <1>2, <1>3, FS_Subset, FS_CardinalityType
<1>5. Cardinality(S) = Cardinality(Setting) - 1
  BY <1>1, <1>3, FS_RemoveElement
<1>6. Cardinality(D) + Cardinality(S) <= 1 + overlaps
  BY <1>1, <1>4, <1>5
<1> QED  BY <1>6 DEF D, S

\* Clearing leaves the request as the only one that does not overlap.
LEMMA CountCleared ==
  ASSUME ConfigInv, NEW r, Defaults' = {}, Setting' = Setting \union {r},
         overlaps' = overlaps + Cardinality(Setting)
  PROVE  /\ overlaps' \in Nat
         /\ Cardinality(Defaults') + Cardinality(Setting') <= 1 + overlaps'
<1> DEFINE D == Defaults'
           S == Setting'
<1>1. Cardinality(Setting) \in Nat /\ IsFiniteSet(Setting) /\ overlaps \in Nat
  BY ConfigFinite DEF ConfigInv
<1>2. D = {} /\ S = Setting \union {r}  OBVIOUS
<1> HIDE DEF D, S
<1>3. Cardinality(D) = 0  BY <1>2, FS_EmptySet
<1>4. Cardinality(S) \in Nat /\ Cardinality(S) <= Cardinality(Setting) + 1
  <2>1. Cardinality(S) = Cardinality(Setting) \/ Cardinality(S) = Cardinality(Setting) + 1
    BY <1>1, <1>2, FS_AddElement
  <2> QED  BY <1>1, <2>1
<1>5. Cardinality(D) + Cardinality(S) <= 1 + overlaps'
  BY <1>1, <1>3, <1>4
<1> QED  BY <1>1, <1>5 DEF D, S

-----------------------------------------------------------------------------

LEMMA ConfigInit == Init => ConfigInv /\ KeptInv
<1> SUFFICES ASSUME Init PROVE ConfigInv /\ KeptInv  OBVIOUS
<1>1. Defaults = {Old} /\ Setting = {}
  BY DEF Init, Defaults, Setting, Waiting
<1>2. Cardinality(Defaults) = 1 /\ Cardinality(Setting) = 0
  BY <1>1, FS_Singleton, FS_EmptySet
<1>3. config = [x \in {Old} |-> [model |-> OldModel, default |-> TRUE]] /\ overlaps = 0
  BY DEF Init
<1>4. \A c \in DOMAIN config : c \in Ids /\ ConfigRow(config[c])
  BY <1>3 DEF ConfigRow, Ids
<1>5. \A r \in Requests : req[r].at = "waiting" /\ r \notin DOMAIN config
  BY <1>3, IdsAssumption DEF Init, Waiting
<1>6. Cardinality(Defaults) + Cardinality(Setting) <= 1 + overlaps
  BY <1>2, <1>3
<1>7. DOMAIN req = Requests /\ overlaps \in Nat
  BY DEF Init
<1>8. ConfigInv
  BY <1>4, <1>5, <1>6, <1>7 DEF ConfigInv
<1>9. Old \in Defaults \union Setting
  BY <1>1
<1>10. KeptInv
  BY <1>5, <1>9 DEF KeptInv
<1> QED  BY <1>8, <1>10

\* A request that is not about configurations.
LEMMA ConfigFrame ==
  ASSUME ConfigInv, KeptInv, UNCHANGED pvars, NEW r \in Requests, NEW places, Moves(r, places),
         places \intersect {"waiting", "creating", "loaded", "setting"} = {}
  PROVE  ConfigInv' /\ KeptInv'
<1>1. Setting' = Setting
  BY DEF Moves, Setting
<1>2. Defaults' = Defaults
  BY DEF Defaults, pvars
<1> QED  BY <1>1, <1>2 DEF ConfigInv, KeptInv, Moves, pvars

LEMMA ConfigSteps ==
  ASSUME ConfigInv, KeptInv, Configurations
  PROVE  ConfigInv' /\ KeptInv'
<1>1. PICK r \in Requests :
        \/ \E m \in Models : CreateDefault(r, m) \/ CreateConfig(r, m)
        \/ InsertDefault(r)
        \/ \E c \in DOMAIN config : SetDefaultLoad(r, c) \/ DeleteConfig(r, c)
        \/ SetDefaultClear(r)
        \/ SetDefaultStore(r)
  BY DEF Configurations
<1>2. ASSUME ClearDefaults, DOMAIN req' = Requests,
             \A q \in Requests \ {r} : req'[q] = req[q],
             r \notin Setting, r \in Setting', req[r].at # "done"
      PROVE  ConfigInv' /\ KeptInv'
  <2>1. DOMAIN config' = DOMAIN config /\ \A c \in DOMAIN config : ConfigRow(config'[c]) /\ ~config'[c].default
    <3>1. /\ DOMAIN config' = DOMAIN config
          /\ \A c \in DOMAIN config : config'[c] = [model |-> config[c].model, default |-> FALSE]
      <4>1. config' = [c \in DOMAIN config |-> [config[c] EXCEPT !.default = FALSE]]
        BY <1>2 DEF ClearDefaults, Cleared
      <4>2. \A c \in DOMAIN config : [config[c] EXCEPT !.default = FALSE] = [model |-> config[c].model, default |-> FALSE]
        BY Overwritten DEF ConfigInv
      <4> QED  BY <4>1, <4>2
    <3>2. ASSUME NEW c \in DOMAIN config PROVE ConfigRow(config'[c]) /\ ~config'[c].default
      BY <3>1, RowOf
    <3> QED  BY <3>1, <3>2
  <2>2. Defaults' = {}
    BY <2>1 DEF Defaults
  <2>3. Setting' = Setting \union {r}
    BY <1>2 DEF Setting
  <2>4. overlaps' \in Nat /\ Cardinality(Defaults') + Cardinality(Setting') <= 1 + overlaps'
    BY <1>2, <2>2, <2>3, CountCleared DEF ClearDefaults
  <2>5. ConfigInv'
    BY <1>2, <2>1, <2>4 DEF ConfigInv
  <2>6. KeptInv'
    BY <2>3 DEF KeptInv
  <2> QED  BY <2>5, <2>6
<1>3. ASSUME NEW m \in Models, CreateDefault(r, m) PROVE ConfigInv' /\ KeptInv'
  <2>1. req' = [req EXCEPT ![r] = [at |-> "creating", model |-> m]] /\ req[r].at = "waiting"
    BY <1>3 DEF CreateDefault, Await, In
  <2> QED  BY <1>2, <1>3, <2>1 DEF CreateDefault, Setting, ConfigInv
<1>4. ASSUME SetDefaultClear(r) PROVE ConfigInv' /\ KeptInv'
  <2>1. req' = [req EXCEPT ![r] = [at |-> "setting", config |-> req[r].config]] /\ req[r].at = "loaded"
    BY <1>4 DEF SetDefaultClear, Await, In
  <2> QED  BY <1>2, <1>4, <2>1 DEF SetDefaultClear, Setting, ConfigInv
<1>5. ASSUME NEW m \in Models, CreateConfig(r, m) PROVE ConfigInv' /\ KeptInv'
  <2>1. /\ req[r].at = "waiting" /\ req' = [req EXCEPT ![r] = [at |-> "done"]]
        /\ config' = InsertRow(config, r, [model |-> m, default |-> FALSE])
        /\ overlaps' = overlaps /\ removed' = (removed /\ ~FALSE)
    BY <1>5 DEF CreateConfig, InsertConfig, Answer, Await, Done, In
  <2>2. /\ DOMAIN config' = DOMAIN config \union {r}
        /\ config'[r] = [model |-> m, default |-> FALSE]
        /\ \A c \in DOMAIN config : config'[c] = config[c]
    BY <2>1 DEF InsertRow, ConfigInv
  <2>3. Defaults' = Defaults /\ Setting' = Setting
    <3>1. config'[r].default = FALSE /\ r \notin DOMAIN config  BY <2>1, <2>2 DEF ConfigInv
    <3>2. Defaults' = Defaults  BY <2>2, <3>1 DEF Defaults
    <3> QED  BY <2>1, <3>2 DEF Setting, ConfigInv
  <2>4. ConfigInv'
    <3>1. ConfigRow(config'[r])  BY <2>2 DEF ConfigRow
    <3>2. \A c \in DOMAIN config' : c \in Ids /\ ConfigRow(config'[c])
      BY <2>2, <3>1 DEF ConfigInv, Ids
    <3> QED  BY <2>1, <2>2, <2>3, <3>2 DEF ConfigInv
  <2> QED  BY <2>1, <2>3, <2>4 DEF KeptInv
<1>0. ASSUME StoreRaises(r), r \in Setting PROVE ConfigInv' /\ KeptInv'
  <2>1. /\ req' = [req EXCEPT ![r] = [at |-> "done"]] /\ removed' = TRUE
        /\ UNCHANGED <<config, overlaps>>
    BY <1>0 DEF StoreRaises, Answer, Await, Done
  <2>2. Defaults' \subseteq Defaults /\ Setting' \subseteq Setting
    BY <2>1 DEF Defaults, Setting, ConfigInv
  <2>3. Cardinality(Defaults') + Cardinality(Setting') <= 1 + overlaps'
    BY <2>1, <2>2, CountFewer
  <2> QED  BY <2>1, <2>3 DEF ConfigInv, KeptInv
<1>6. ASSUME InsertDefault(r) PROVE ConfigInv' /\ KeptInv'
  <2>0. r \in Setting  BY <1>6 DEF InsertDefault, In, Setting
  <2> SUFFICES ASSUME InsertConfig(r, req[r].model, TRUE) PROVE ConfigInv' /\ KeptInv'
    BY <1>0, <1>6, <2>0 DEF InsertDefault
  <2>1. /\ req[r].at = "creating" /\ req' = [req EXCEPT ![r] = [at |-> "done"]]
        /\ config' = InsertRow(config, r, [model |-> req[r].model, default |-> TRUE])
        /\ overlaps' = overlaps
    BY <1>6 DEF InsertDefault, InsertConfig, Answer, Await, Done, In
  <2>2. /\ DOMAIN config' = DOMAIN config \union {r}
        /\ config'[r] = [model |-> req[r].model, default |-> TRUE]
        /\ \A c \in DOMAIN config : config'[c] = config[c]
    BY <2>1 DEF InsertRow, ConfigInv
  <2>3. Defaults' = Defaults \union {r} /\ Setting' = Setting \ {r} /\ r \in Setting
    <3>1. config'[r].default = TRUE /\ r \notin DOMAIN config  BY <2>1, <2>2 DEF ConfigInv
    <3>2. Defaults' = Defaults \union {r}  BY <2>2, <3>1 DEF Defaults
    <3> QED  BY <2>1, <3>2 DEF Setting, ConfigInv
  <2>4. Cardinality(Defaults') + Cardinality(Setting') <= 1 + overlaps'
    BY <2>1, <2>3, CountMoved
  <2>5. ConfigInv'
    <3>1. ConfigRow(config'[r])  BY <2>2 DEF ConfigRow
    <3>2. \A c \in DOMAIN config' : c \in Ids /\ ConfigRow(config'[c])
      BY <2>2, <3>1 DEF ConfigInv, Ids
    <3> QED  BY <2>1, <2>2, <2>4, <3>2 DEF ConfigInv
  <2> QED  BY <2>3, <2>5 DEF KeptInv
<1>7. ASSUME SetDefaultStore(r) PROVE ConfigInv' /\ KeptInv'
  <2> DEFINE c == req[r].config
  <2>0. r \in Setting  BY <1>7 DEF SetDefaultStore, In, Setting
  <2> SUFFICES ASSUME c \in DOMAIN config, config' = [config EXCEPT ![c].default = TRUE],
                      overlaps' = overlaps, Answer(r)
               PROVE  ConfigInv' /\ KeptInv'
    BY <1>0, <1>7, <2>0 DEF SetDefaultStore
  <2>1. req[r].at = "setting" /\ req' = [req EXCEPT ![r] = [at |-> "done"]]
    BY <1>7 DEF SetDefaultStore, Answer, Await, Done, In
  <2>2. /\ DOMAIN config' = DOMAIN config
        /\ config'[c] = [model |-> config[c].model, default |-> TRUE]
        /\ \A x \in DOMAIN config \ {c} : config'[x] = config[x]
    <3>1. config' = [config EXCEPT ![c] = [config[c] EXCEPT !.default = TRUE]]
      OBVIOUS
    <3>2. [config[c] EXCEPT !.default = TRUE] = [model |-> config[c].model, default |-> TRUE]
      BY Overwritten DEF ConfigInv
    <3> QED  BY <3>1, <3>2
  <2>3. \A x \in DOMAIN config' : x \in Ids /\ ConfigRow(config'[x])
    <3>1. ConfigRow(config'[c])  BY <2>2 DEF ConfigRow
    <3> QED  BY <2>2, <3>1 DEF ConfigInv
  <2>4. Defaults' = Defaults \union {c} /\ Setting' = Setting \ {r} /\ r \in Setting
    <3>1. config'[c].default = TRUE  BY <2>2
    <3>2. Defaults' = Defaults \union {c}  BY <2>2, <3>1 DEF Defaults
    <3> QED  BY <2>0, <2>1, <3>2 DEF Setting, ConfigInv
  <2>5. Cardinality(Defaults') + Cardinality(Setting') <= 1 + overlaps'
    BY <2>4, CountMoved
  <2>6. ConfigInv'
    BY <2>1, <2>2, <2>3, <2>5 DEF ConfigInv
  <2> QED  BY <2>4, <2>6 DEF KeptInv
<1>8. ASSUME NEW c \in DOMAIN config, DeleteConfig(r, c) PROVE ConfigInv' /\ KeptInv'
  <2>1. /\ req[r].at = "waiting" /\ req' = [req EXCEPT ![r] = [at |-> "done"]]
        /\ overlaps' = overlaps /\ removed' = (removed \/ config[c].default)
        /\ DOMAIN config' = DOMAIN config \ {c}
        /\ \A x \in DOMAIN config' : config'[x] = config[x]
    BY <1>8 DEF DeleteConfig, DeleteRows, Restrict, Answer, Await, Done, In
  <2>2. Defaults' = Defaults \ {c} /\ Setting' = Setting
    BY <2>1 DEF Defaults, Setting, ConfigInv
  <2>3. Cardinality(Defaults') + Cardinality(Setting') <= 1 + overlaps'
    BY <2>1, <2>2, CountFewer
  <2>4. KeptInv'
    BY <2>1, <2>2 DEF KeptInv, Defaults
  <2> QED  BY <2>1, <2>3, <2>4 DEF ConfigInv
<1>9. ASSUME NEW c \in DOMAIN config, SetDefaultLoad(r, c) PROVE ConfigInv' /\ KeptInv'
  <2>1. /\ req[r].at = "waiting" /\ req' = [req EXCEPT ![r] = [at |-> "loaded", config |-> c]]
        /\ UNCHANGED <<config, overlaps, removed>>
    BY <1>9 DEF SetDefaultLoad, Await, In, pvars
  <2>2. Setting' = Setting /\ Defaults' = Defaults
    BY <2>1 DEF Defaults, Setting, ConfigInv
  <2> QED  BY <2>1, <2>2 DEF ConfigInv, KeptInv
<1> QED  BY <1>1, <1>3, <1>4, <1>5, <1>6, <1>7, <1>8, <1>9

LEMMA ConfigCrash ==
  ASSUME ConfigInv, KeptInv, Crash
  PROVE  ConfigInv' /\ KeptInv'
<1>1. Setting' = {} /\ Defaults' = Defaults
  BY CrashMoves DEF Setting, Defaults
<1>2. removed' = (removed \/ Setting # {})
  BY DEF Crash
<1>3. Cardinality(Defaults') + Cardinality(Setting') <= 1 + overlaps'
  BY <1>1, CrashMoves, CountFewer
<1> QED  BY <1>1, <1>2, <1>3, CrashMoves DEF ConfigInv, KeptInv

LEMMA ConfigNext == ConfigInv /\ KeptInv /\ [Next]_vars => ConfigInv' /\ KeptInv'
<1> SUFFICES ASSUME ConfigInv, KeptInv, [Next]_vars PROVE ConfigInv' /\ KeptInv'  OBVIOUS
<1>1. DOMAIN req = Requests  BY DEF ConfigInv
<1>2. CASE Tasks
  BY <1>1, <1>2, TaskMoves, ConfigFrame DEF TaskPlaces
<1>3. CASE Ingests
  BY <1>1, <1>3, IngestMoves, ConfigFrame DEF IngestPlaces
<1>4. CASE Reviews
  <2>1. CASE req' = req
    BY <1>1, <1>4, <2>1, ReviewMoves DEF pvars, ConfigInv, KeptInv, Defaults, Setting
  <2> QED  BY <1>1, <1>4, <2>1, ReviewMoves, ConfigFrame DEF ReviewPlaces
<1>5. CASE UNCHANGED vars
  BY <1>5 DEF vars, ConfigInv, KeptInv, Defaults, Setting
<1> QED  BY <1>2, <1>3, <1>4, <1>5, ConfigSteps, ConfigCrash DEF Next

\* There is at most one default, except for requests that overlapped (services/
\* provider_configs.py and db/repositories/provider_configs.py).
THEOREM OneDefault == Spec => []DefaultsBounded
<1>1. ConfigInv => DefaultsBounded
  BY ConfigFinite DEF ConfigInv, DefaultsBounded
<1> QED  BY <1>1, ConfigInit, ConfigNext, PTL DEF Spec

\* A default stays until it is deleted or a request that has cleared it ends, in a
\* crash or because its second commit raises, without setting its own (the same code).
THEOREM DefaultStays == Spec => []DefaultKept
<1>1. KeptInv => DefaultKept
  BY DEF KeptInv, DefaultKept
<1> QED  BY <1>1, ConfigInit, ConfigNext, PTL DEF Spec

=============================================================================
