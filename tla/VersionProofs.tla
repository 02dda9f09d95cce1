---------------------------- MODULE VersionProofs ----------------------------
(***************************************************************************)
(* Theorems about the versions of a rubric, about the reviews that name    *)
(* them, and about the key with which a review is run, for any finite      *)
(* number of requests and any number of crashes.                           *)
(***************************************************************************)
EXTENDS CatalogProofs

-----------------------------------------------------------------------------
(* What a step of create_review or run_review does to the rows.             *)

\* A review row has its columns.
ReviewRow(x) ==
    DOMAIN x = {"task", "version", "submission", "model", "hash", "status", "armed", "graded",
                "key", "epoch"}

ReviewRows == \A x \in DOMAIN review : ReviewRow(review[x])

\* The columns that no run changes.
SameReview(x, y) ==
    /\ x.task = y.task /\ x.version = y.version /\ x.submission = y.submission
    /\ x.model = y.model /\ x.hash = y.hash /\ x.epoch = y.epoch

\* The row as a run, or another request for the same review, leaves it.
RunOf(new, old) ==
    /\ SameReview(new, old)
    /\ \/ new.status = old.status /\ new.graded = old.graded /\ new.key = old.key
       \/ new.status = "failed" /\ new.graded = old.graded /\ new.key = old.key
       \/ /\ new.status = "completed"
          /\ old.version \in DOMAIN version /\ new.graded = Hash(old.version)
          /\ \E cred \in Credentials : new.key = cred.key

\* The row as its request creates it.
CreationOf(new, my) ==
    /\ SameReview(new, my)
    /\ new.status = "queued" /\ new.key = None
    /\ ForeignKeys => RowsExist(my)

LEMMA ArmedRow ==
  ASSUME NEW row, ReviewRow(row)
  PROVE  LET new == [row EXCEPT !.armed = TRUE] IN
         ReviewRow(new) /\ RunOf(new, row)
<1> QED  BY DEF ReviewRow, RunOf, SameReview

LEMMA FailedRow ==
  ASSUME NEW row, ReviewRow(row), NEW armed
  PROVE  LET new == [row EXCEPT !.status = "failed", !.armed = armed] IN
         ReviewRow(new) /\ RunOf(new, row)
<1> QED  BY DEF ReviewRow, RunOf, SameReview

LEMMA CompletedRow ==
  ASSUME NEW row, ReviewRow(row), NEW armed, NEW cred \in Credentials, row.version \in DOMAIN version
  PROVE  LET new == [row EXCEPT !.status = "completed", !.armed = armed,
                                !.graded = Hash(row.version), !.key = cred.key] IN
         ReviewRow(new) /\ RunOf(new, row)
<1> QED  BY DEF ReviewRow, RunOf, SameReview

\* A step of RunReview changes its row as described, and no other.
LEMMA RunRows ==
  ASSUME ReviewRows, NEW x \in DOMAIN review, RunReview(x)
  PROVE  /\ DOMAIN review' = DOMAIN review
         /\ \A y \in DOMAIN review : ReviewRow(review'[y]) /\ RunOf(review'[y], review[y])
<1>1. PICK cred \in Credentials, armed \in BOOLEAN :
        \/ review' = [review EXCEPT ![x] = [review[x] EXCEPT !.status = "failed", !.armed = armed]]
        \/ /\ review[x].version \in DOMAIN version
           /\ review' = [review EXCEPT ![x] =
                            [review[x] EXCEPT !.status = "completed", !.armed = armed,
                                              !.graded = Hash(review[x].version), !.key = cred.key]]
  BY DEF RunReview, RubricOf
<1>2. ReviewRow(review[x])  BY DEF ReviewRows
<1>3. /\ DOMAIN review' = DOMAIN review
      /\ \A y \in DOMAIN review \ {x} : review'[y] = review[y]
      /\ ReviewRow(review'[x]) /\ RunOf(review'[x], review[x])
  <2>1. CASE review' = [review EXCEPT ![x] = [review[x] EXCEPT !.status = "failed", !.armed = armed]]
    BY <1>2, <2>1, FailedRow
  <2>2. CASE /\ review[x].version \in DOMAIN version
             /\ review' = [review EXCEPT ![x] =
                              [review[x] EXCEPT !.status = "completed", !.armed = armed,
                                                !.graded = Hash(review[x].version), !.key = cred.key]]
    BY <1>2, <2>2, CompletedRow
  <2> QED  BY <1>1, <2>1, <2>2
<1>4. \A y \in DOMAIN review \ {x} : ReviewRow(review'[y]) /\ RunOf(review'[y], review[y])
  BY <1>3 DEF ReviewRows, RunOf, SameReview
<1> QED  BY <1>3, <1>4

\* A step of ReviewInsert arms rows or creates one.
LEMMA InsertRows ==
  ASSUME ReviewRows, DOMAIN req = Requests, NEW r \in Requests, ReviewInsert(r)
  PROVE  /\ \A y \in DOMAIN review \ {r} :
                y \in DOMAIN review' /\ ReviewRow(review'[y]) /\ RunOf(review'[y], review[y])
         /\ \A y \in DOMAIN review' :
                \/ y \in DOMAIN review /\ ReviewRow(review'[y]) /\ RunOf(review'[y], review[y])
                \/ y = r /\ ReviewRow(review'[y]) /\ CreationOf(review'[y], req[r])
         /\ DOMAIN review \subseteq DOMAIN review'
<1> DEFINE my   == req[r]
           same == {x \in DOMAIN review : KeyOf(review[x]) = KeyOf(my)}
           row  == [task |-> my.task, version |-> my.version, submission |-> my.submission,
                    model |-> my.model, hash |-> my.hash, status |-> "queued",
                    armed |-> TRUE, graded |-> None, key |-> None, epoch |-> my.epoch]
<1>1. \A y \in DOMAIN review : ReviewRow(review[y]) /\ RunOf(review[y], review[y])
  BY DEF ReviewRows, RunOf, SameReview
<1>2. CASE review' = [x \in DOMAIN review |->
                         IF x \in same /\ review[x].status # "completed"
                         THEN [review[x] EXCEPT !.armed = TRUE] ELSE review[x]]
  <2> HIDE DEF same
  <2>1. \A y \in DOMAIN review : review'[y] = [review[y] EXCEPT !.armed = TRUE] \/ review'[y] = review[y]
    BY <1>2
  <2>2. DOMAIN review' = DOMAIN review
    BY <1>2
  <2>3. ASSUME NEW y \in DOMAIN review PROVE ReviewRow(review'[y]) /\ RunOf(review'[y], review[y])
    BY <1>1, <2>1, ArmedRow
  <2> QED  BY <2>2, <2>3
<1>3. CASE review' = review
  BY <1>1, <1>3
<1>4. CASE (ForeignKeys => RowsExist(my)) /\ review' = InsertRow(review, r, row)
  <2>1. /\ DOMAIN review' = DOMAIN review \union {r} /\ review'[r] = row
        /\ \A y \in DOMAIN review \ {r} : review'[y] = review[y]
    BY <1>4 DEF InsertRow
  <2>2. ReviewRow(row) /\ CreationOf(row, my)
    BY <1>4 DEF ReviewRow, CreationOf, SameReview
  <2> QED  BY <1>1, <2>1, <2>2
<1> QED  BY <1>2, <1>3, <1>4 DEF ReviewInsert

-----------------------------------------------------------------------------
(* Keys.                                                                    *)

\* What was resolved at this epoch of the configurations can be resolved again.
Resolved(x) ==
    /\ x.epoch \in Nat /\ x.epoch <= epoch
    /\ x.epoch = epoch => \E cred \in Credentials : cred.model = x.model

\* The key is that of the model.
Fits(x) ==
    x.epoch = epoch /\ overlaps = 0 /\ x.key \in DOMAIN config => config[x.key].model = x.model

\* As long as no configuration was changed after a review was created, and one is
\* the default, its runs resolve what its request did.
KeyInv ==
    /\ ReviewRows
    /\ epoch \in Nat
    /\ \A x \in DOMAIN review : Resolved(review[x]) /\ Fits(review[x])
    /\ \A r \in Requests : req[r].at = "resolved" => Resolved(req[r])

LEMMA KeyInit == Init => KeyInv
<1> QED  BY DEF Init, KeyInv, ReviewRows, Waiting

\* Without overlaps there is one default, so one set of credentials.
LEMMA OneCredential ==
  ASSUME ConfigInv, overlaps = 0
  PROVE  \A a, b \in Credentials : a = b
<1>1. ASSUME NEW a \in Defaults, NEW b \in Defaults, a # b PROVE FALSE
  <2>1. Cardinality({a, b}) = 2
    <3>1. IsFiniteSet({a}) /\ Cardinality({a}) = 1  BY FS_Singleton
    <3>2. Cardinality({a} \union {b}) = Cardinality({a}) + 1  BY <1>1, <3>1, FS_AddElement
    <3>3. {a} \union {b} = {a, b}  OBVIOUS
    <3> QED  BY <3>1, <3>2, <3>3
  <2>2. {a, b} \subseteq Defaults  OBVIOUS
  <2>3. Cardinality({a, b}) <= Cardinality(Defaults)
    BY <2>2, ConfigFinite, FS_Subset
  <2>4. Cardinality(Defaults) <= 1
    BY ConfigFinite DEF ConfigInv
  <2> QED  BY <2>1, <2>3, <2>4, ConfigFinite
<1> QED  BY <1>1 DEF Credentials

\* The configurations do not change without their epoch.
LEMMA EpochCounts ==
  ASSUME Configurations
  PROVE  UNCHANGED <<config, lostKeys, overlaps, epoch>> \/ epoch' = epoch + 1
<1> QED
  BY DEF Configurations, CreateDefault, CreateConfig, InsertDefault, InsertConfig, StoreRaises,
         SetDefaultLoad, SetDefaultClear, SetDefaultStore, DeleteConfig, ClearDefaults, pvars

\* Steps that create or run no review.
LEMMA KeyFrame ==
  ASSUME KeyInv, review' = review,
         UNCHANGED <<config, lostKeys, overlaps, epoch>> \/ epoch' = epoch + 1,
         \A r \in Requests : req'[r].at = "resolved" => req'[r] = req[r]
  PROVE  KeyInv'
<1>1. CASE UNCHANGED <<config, lostKeys, overlaps, epoch>>
  BY <1>1 DEF KeyInv, ReviewRows, Fits, Resolved, Credentials, Defaults
<1>2. CASE epoch' = epoch + 1
  <2>1. \A x : Resolved(x) /\ epoch \in Nat => x.epoch \in Nat /\ x.epoch < epoch'
    BY <1>2 DEF Resolved
  <2>2. \A x : x.epoch \in Nat /\ x.epoch < epoch' /\ epoch \in Nat =>
            /\ x.epoch <= epoch' /\ x.epoch # epoch'
    BY <1>2
  <2> QED  BY <1>2, <2>1, <2>2 DEF KeyInv, ReviewRows, Fits, Resolved
<1> QED  BY <1>1, <1>2

\* A run leaves the row with a key that fits.
LEMMA RunFits ==
  ASSUME ConfigInv, NEW old, NEW new, RunOf(new, old), Resolved(old), Fits(old)
  PROVE  Resolved(new) /\ Fits(new)
<1>1. Resolved(new)
  BY DEF RunOf, SameReview, Resolved
<1>2. ASSUME new.epoch = epoch, overlaps = 0, new.key \in DOMAIN config
      PROVE  config[new.key].model = new.model
  <2>1. CASE new.key = old.key
    BY <1>2, <2>1 DEF RunOf, SameReview, Fits
  <2>2. ASSUME NEW cred \in Credentials, new.key = cred.key
        PROVE  config[new.key].model = new.model
    <3>1. cred.model = new.model
      BY <1>2, OneCredential DEF RunOf, SameReview, Resolved
    <3>2. config[cred.key].model = cred.model
      BY <1>2, <2>2, IdsAssumption DEF Credentials, Defaults, EnvCredentials, ConfigInv, Ids
    <3> QED  BY <2>2, <3>1, <3>2
  <2> QED  BY <2>1, <2>2 DEF RunOf
<1> QED  BY <1>1, <1>2 DEF Fits

LEMMA KeyReviews ==
  ASSUME ConfigInv, KeyInv, Reviews
  PROVE  KeyInv'
<1>1. UNCHANGED pvars /\ DOMAIN req = Requests
  BY ReviewMoves DEF ConfigInv
<1>2. ASSUME NEW x \in DOMAIN review, RunReview(x) PROVE KeyInv'
  <2>1. req' = req  BY <1>2 DEF RunReview
  <2>2. /\ DOMAIN review' = DOMAIN review
        /\ \A y \in DOMAIN review : ReviewRow(review'[y]) /\ RunOf(review'[y], review[y])
    BY <1>2, RunRows DEF KeyInv
  <2> QED  BY <1>1, <2>1, <2>2, RunFits DEF KeyInv, ReviewRows, Fits, Resolved, pvars, Credentials, Defaults
<1>3. ASSUME NEW r \in Requests, ReviewInsert(r) PROVE KeyInv'
  <2>1. req' = [req EXCEPT ![r] = [at |-> "done"]] /\ req[r].at = "resolved"
    BY <1>3 DEF ReviewInsert, Answer, Await, Done, In
  <2>2. \A y \in DOMAIN review' :
          \/ y \in DOMAIN review /\ ReviewRow(review'[y]) /\ RunOf(review'[y], review[y])
          \/ y = r /\ ReviewRow(review'[y]) /\ CreationOf(review'[y], req[r])
    BY <1>1, <1>3, InsertRows DEF KeyInv
  <2>3. None \notin DOMAIN config
    BY IdsAssumption DEF ConfigInv, Ids
  <2>4. ASSUME NEW y \in DOMAIN review'
        PROVE  ReviewRow(review'[y]) /\ Resolved(review'[y]) /\ Fits(review'[y])
    <3>1. CASE y \in DOMAIN review /\ ReviewRow(review'[y]) /\ RunOf(review'[y], review[y])
      BY <3>1, RunFits DEF KeyInv
    <3>2. CASE y = r /\ ReviewRow(review'[y]) /\ CreationOf(review'[y], req[r])
      BY <2>1, <2>3, <3>2 DEF KeyInv, CreationOf, SameReview, Resolved, Fits
    <3> QED  BY <2>2, <3>1, <3>2
  <2> QED  BY <1>1, <2>1, <2>4 DEF KeyInv, ReviewRows, Fits, Resolved, pvars, Credentials, Defaults
<1>4. ASSUME NEW r \in Requests, ReviewResolve(r) PROVE KeyInv'
  <2>1. CASE req' = [req EXCEPT ![r] = [at |-> "done"]]
    BY <1>1, <1>4, <2>1, KeyFrame DEF ReviewResolve, pvars
  <2>2. ASSUME NEW cred \in Credentials,
               req' = [req EXCEPT ![r] =
                          [at |-> "resolved", task |-> req[r].task, version |-> req[r].version,
                           submission |-> req[r].submission, model |-> cred.model,
                           hash |-> Hash(req[r].version), epoch |-> epoch]]
        PROVE  KeyInv'
    <3>1. Resolved(req'[r])
      BY <1>1, <2>2 DEF Resolved, KeyInv
    <3>2. \A q \in Requests \ {r} : req'[q] = req[q]
      BY <1>1, <2>2
    <3> QED  BY <1>1, <1>4, <3>1, <3>2
             DEF KeyInv, ReviewRows, Fits, Resolved, pvars, Credentials, Defaults, ReviewResolve
  <2> QED  BY <1>4, <2>1, <2>2 DEF ReviewResolve, Answer, Await, Done
<1>5. ASSUME NEW r \in Requests, NEW t \in DOMAIN task, NEW s \in DOMAIN submission, ReviewTask(r, t, s)
      PROVE  KeyInv'
  BY <1>1, <1>5, KeyFrame DEF ReviewTask, Await, pvars
<1> QED  BY <1>2, <1>3, <1>4, <1>5 DEF Reviews

LEMMA KeyNext == ConfigInv /\ KeyInv /\ [Next]_vars => KeyInv'
<1> SUFFICES ASSUME ConfigInv, KeyInv, [Next]_vars PROVE KeyInv'  OBVIOUS
<1>1. DOMAIN req = Requests  BY DEF ConfigInv
<1>2. CASE Tasks
  BY <1>1, <1>2, TaskMoves, KeyFrame DEF Moves, TaskPlaces, pvars
<1>3. CASE Configurations
  BY <1>1, <1>3, ConfigMoves, EpochCounts, KeyFrame DEF Moves, ConfigPlaces
<1>4. CASE Ingests
  BY <1>1, <1>4, IngestMoves, KeyFrame DEF Moves, IngestPlaces, pvars
<1>5. CASE Crash
  <2>1. UNCHANGED <<config, lostKeys, overlaps, epoch>> \/ epoch' = epoch + 1
    BY <1>5 DEF Crash, ChangeSecret
  <2> QED  BY <1>5, <2>1, CrashMoves, KeyFrame
<1>6. CASE UNCHANGED vars
  BY <1>6, KeyFrame DEF vars
<1> QED  BY <1>2, <1>3, <1>4, <1>5, <1>6, KeyReviews DEF Next

\* Where the configurations were not touched after a review was created, and one is
\* the default, its runs send the key of its model (services/reviews.py and
\* engine/runner.py).
THEOREM KeysFit == Spec => []KeyFits
<1>1. ConfigInv /\ KeyInv => KeyFits
  <2> SUFFICES ASSUME ConfigInv, KeyInv, NEW x \in DOMAIN review,
                      review[x].key \in DOMAIN config,
                      config[review[x].key].model # review[x].model
               PROVE  epoch > review[x].epoch \/ overlaps > 0
    BY DEF KeyFits
  <2>1. review[x].epoch # epoch \/ overlaps # 0
    BY DEF KeyInv, Fits
  <2>2. review[x].epoch \in Nat /\ review[x].epoch <= epoch /\ epoch \in Nat /\ overlaps \in Nat
    BY DEF KeyInv, Resolved, ConfigInv
  <2> QED  BY <2>1, <2>2
<1> QED  BY <1>1, ConfigInit, ConfigNext, KeyInit, KeyNext, PTL DEF Spec

-----------------------------------------------------------------------------
(* Versions are numbered in order.                                          *)

\* The versions of t are numbered 1..n, and t points to the last.
Ordered(t) ==
    LET n == Cardinality(VersionsOf(t)) IN
    /\ {version[v].number : v \in VersionsOf(t)} = 1..n
    /\ n = 0 => task[t].current = None
    /\ n # 0 => task[t].current \in VersionsOf(t) /\ version[task[t].current].number = n

\* Nothing names the rows that r may create.
Fresh(r) ==
    /\ r \notin DOMAIN task /\ r \notin DOMAIN version
    /\ \A v \in DOMAIN version : version[v].task # r
    /\ \A q \in Requests :
           /\ req[q].at \in {"deleting", "publishing", "numbered"} => req[q].task # r
           /\ req[q].at = "deleting" => r \notin req[q].versions

\* A number that was read is the next one or, after another publication, taken; a
\* deletion takes the versions of its task.
VersionInv ==
    /\ DOMAIN req = Requests
    /\ DOMAIN version \subseteq Ids
    /\ \A t \in DOMAIN task : Ordered(t)
    /\ \A r \in Requests :
           /\ req[r].at # "done" => Fresh(r)
           /\ req[r].at = "numbered" /\ req[r].task \in DOMAIN task =>
                  req[r].number \in 1..(Cardinality(VersionsOf(req[r].task)) + 1)
           /\ req[r].at = "deleting" =>
                  \A v \in req[r].versions \intersect DOMAIN version : version[v].task = req[r].task

LEMMA VersionsFinite ==
  ASSUME VersionInv, NEW t
  PROVE  IsFiniteSet(VersionsOf(t)) /\ Cardinality(VersionsOf(t)) \in Nat
<1>1. IsFiniteSet(Ids)
  BY RequestsAssumption, FS_AddElement DEF Ids
<1>2. VersionsOf(t) \subseteq Ids
  BY DEF VersionInv, VersionsOf
<1> QED  BY <1>1, <1>2, FS_Subset, FS_CardinalityType

LEMMA VersionInit == Init => VersionInv
<1> SUFFICES ASSUME Init PROVE VersionInv  OBVIOUS
<1>1. /\ DOMAIN task = {Old} /\ task[Old].current = Old
      /\ DOMAIN version = {Old} /\ version[Old].task = Old /\ version[Old].number = 1
      /\ req = [r \in Requests |-> [at |-> "waiting"]]
  BY DEF Init, Waiting
<1>2. VersionsOf(Old) = {Old}
  BY <1>1 DEF VersionsOf
<1>3. Cardinality(VersionsOf(Old)) = 1
  BY <1>2, FS_Singleton
<1>4. {version[v].number : v \in VersionsOf(Old)} = 1..1
  BY <1>1, <1>2
<1>5. Ordered(Old)
  BY <1>1, <1>2, <1>3, <1>4 DEF Ordered
<1> QED  BY <1>1, <1>5, IdsAssumption DEF VersionInv, Fresh, Ids

\* The versions and the pointer of a task that a step leaves alone.
LEMMA SameVersions ==
  ASSUME NEW t, VersionsOf(t)' = VersionsOf(t),
         \A v \in VersionsOf(t) : version'[v] = version[v],
         task'[t].current = task[t].current, Ordered(t)
  PROVE  Ordered(t)'
<1> QED  BY DEF Ordered

LEMMA SameTables ==
  ASSUME VersionInv, UNCHANGED rvars
  PROVE  /\ \A t : VersionsOf(t)' = VersionsOf(t)
         /\ \A t \in DOMAIN task' : Ordered(t)'
<1>1. \A t : VersionsOf(t)' = VersionsOf(t)
  BY DEF VersionsOf, rvars
<1>2. \A t \in DOMAIN task' : Ordered(t)'
  BY DEF VersionInv, Ordered, VersionsOf, rvars
<1> QED  BY <1>1, <1>2

\* Steps of requests that neither delete nor publish.
LEMMA VersionFrame ==
  ASSUME VersionInv, UNCHANGED rvars, DOMAIN req' = Requests,
         \A r \in Requests :
             /\ req'[r].at # "done" => req[r].at # "done"
             /\ req'[r].at \in {"deleting", "publishing", "numbered"} => req'[r] = req[r]
  PROVE  VersionInv'
<1> QED  BY SameTables DEF VersionInv, Fresh, rvars

LEMMA LastOf ==
  ASSUME NEW n \in Nat
  PROVE  Max(0..n) = n
<1>1. n \in 0..n /\ \A y \in 0..n : n >= y  OBVIOUS
<1>2. \A x \in 0..n : (\A y \in 0..n : x >= y) => x = n  OBVIOUS
<1> QED  BY <1>1, <1>2 DEF Max

LEMMA VersionTasks ==
  ASSUME RubricInv, VersionInv, Tasks
  PROVE  VersionInv'
<1>1. PICK r \in Requests :
        \/ CreateTask(r)
        \/ \E t \in DOMAIN task : UpdateTask(r, t) \/ SaveDraft(r, t) \/ DeleteLoad(r, t) \/ PublishLoad(r, t)
        \/ StoreTask(r)
        \/ DeleteStore(r, InUse)
        \/ PublishNumber(r)
        \/ PublishStore(r)
  BY DEF Tasks
<1>2. ASSUME CreateTask(r) PROVE VersionInv'
  <2>1. /\ req[r].at = "waiting" /\ req' = [req EXCEPT ![r] = [at |-> "done"]] /\ version' = version
        /\ DOMAIN task' = DOMAIN task \union {r} /\ task'[r].current = None
        /\ \A t \in DOMAIN task : task'[t] = task[t]
    BY <1>2 DEF CreateTask, In, Answer, Await, Done, InsertRow, VersionInv, Fresh
  <2>2. \A t : VersionsOf(t)' = VersionsOf(t)
    BY <2>1 DEF VersionsOf
  <2>3. VersionsOf(r) = {}
    BY <2>1 DEF VersionInv, Fresh, VersionsOf
  <2>4. Ordered(r)'
    <3>1. Cardinality(VersionsOf(r)') = 0
      BY <2>2, <2>3, FS_EmptySet
    <3> QED  BY <2>1, <2>2, <2>3, <3>1 DEF Ordered
  <2>5. \A t \in DOMAIN task' : Ordered(t)'
    BY <2>1, <2>2, <2>4, SameVersions DEF VersionInv
  <2> QED  BY <2>1, <2>2, <2>5 DEF VersionInv, Fresh
<1>3. ASSUME NEW t \in DOMAIN task, UpdateTask(r, t) \/ SaveDraft(r, t) PROVE VersionInv'
  BY <1>3, VersionFrame DEF UpdateTask, SaveDraft, LoadTask, In, Await, VersionInv
<1>4. ASSUME NEW t \in DOMAIN task, DeleteLoad(r, t) PROVE VersionInv'
  <2>1. /\ req[r].at = "waiting" /\ UNCHANGED rvars
        /\ req' = [req EXCEPT ![r] = [at |-> "deleting", task |-> t, versions |-> VersionsOf(t)]]
    BY <1>4 DEF DeleteLoad, In, Await
  <2>2. /\ \A u : VersionsOf(u)' = VersionsOf(u)
        /\ \A u \in DOMAIN task' : Ordered(u)'
    BY <2>1, SameTables
  <2>3. \A v \in VersionsOf(t) : v \in DOMAIN version /\ version[v].task = t
    BY DEF VersionsOf
  <2> QED  BY <2>1, <2>2, <2>3 DEF VersionInv, Fresh, rvars
<1>5. ASSUME NEW t \in DOMAIN task, PublishLoad(r, t) PROVE VersionInv'
  <2>1. /\ req[r].at = "waiting" /\ UNCHANGED rvars
        /\ req' = [req EXCEPT ![r] = [at |-> "publishing", task |-> t, draft |-> task[t].draft]]
    BY <1>5 DEF PublishLoad, In, Await
  <2>2. /\ \A u : VersionsOf(u)' = VersionsOf(u)
        /\ \A u \in DOMAIN task' : Ordered(u)'
    BY <2>1, SameTables
  <2> QED  BY <2>1, <2>2 DEF VersionInv, Fresh, rvars
<1>6. ASSUME StoreTask(r) PROVE VersionInv'
  <2>1. /\ req[r].at # "done" /\ req' = [req EXCEPT ![r] = [at |-> "done"]] /\ version' = version
        /\ DOMAIN task' = DOMAIN task
    BY <1>6 DEF StoreTask, In, Answer, Await, Done
  <2>2. \A t \in DOMAIN task : task'[t].current = task[t].current
    BY <1>6 DEF StoreTask, RubricInv, TaskRow
  <2>3. \A t : VersionsOf(t)' = VersionsOf(t)
    BY <2>1 DEF VersionsOf
  <2>4. \A t \in DOMAIN task' : Ordered(t)'
    BY <2>1, <2>2, <2>3, SameVersions DEF VersionInv
  <2> QED  BY <2>1, <2>3, <2>4 DEF VersionInv, Fresh
<1>7. ASSUME DeleteStore(r, InUse) PROVE VersionInv'
  <2>1. req[r].at = "deleting" /\ req' = [req EXCEPT ![r] = [at |-> "done"]]
    BY <1>7 DEF DeleteStore, In, Answer, Await, Done
  <2>2. CASE UNCHANGED rvars
    BY <2>1, <2>2, VersionFrame DEF VersionInv
  <2>3. ASSUME NEW gone, task' = DeleteRows(task, {req[r].task}), version' = DeleteRows(version, gone),
               gone = req[r].versions \/ gone = req[r].versions \union VersionsOf(req[r].task)
        PROVE  VersionInv'
    <3>1. /\ DOMAIN task' = DOMAIN task \ {req[r].task}
          /\ \A t \in DOMAIN task' : task'[t] = task[t]
          /\ DOMAIN version' = DOMAIN version \ gone
          /\ \A v \in DOMAIN version' : version'[v] = version[v]
      BY <2>3 DEF DeleteRows, Restrict
    <3>2. \A v \in gone \intersect DOMAIN version : version[v].task = req[r].task
      BY <2>1, <2>3 DEF VersionInv, VersionsOf
    <3>3. \A t \in DOMAIN task' : VersionsOf(t)' = VersionsOf(t)
      BY <3>1, <3>2 DEF VersionsOf
    <3>4. ASSUME NEW t \in DOMAIN task' PROVE Ordered(t)'
      <4>1. \A v \in VersionsOf(t) : version'[v] = version[v]
        BY <3>1, <3>3 DEF VersionsOf
      <4> QED  BY <3>1, <3>3, <4>1, SameVersions DEF VersionInv
    <3> QED  BY <2>1, <3>1, <3>3, <3>4 DEF VersionInv, Fresh
  <2> QED  BY <1>7, <2>2, <2>3 DEF DeleteStore
<1>8. ASSUME PublishNumber(r) PROVE VersionInv'
  <2> DEFINE t == req[r].task
             numbers == {version[v].number : v \in VersionsOf(t)}
             number  == Max(numbers \union {0}) + 1
  <2>1. /\ req[r].at = "publishing" /\ UNCHANGED rvars
        /\ req' = [req EXCEPT ![r] = [at |-> "numbered", task |-> t, draft |-> req[r].draft,
                                     number |-> number]]
    BY <1>8 DEF PublishNumber, In, Await
  <2>2. ASSUME t \in DOMAIN task PROVE number \in 1..(Cardinality(VersionsOf(t)) + 1)
    <3>1. numbers = 1..Cardinality(VersionsOf(t))
      BY <2>2 DEF VersionInv, Ordered
    <3>2. Cardinality(VersionsOf(t)) \in Nat
      BY VersionsFinite
    <3> HIDE DEF numbers
    <3>3. numbers \union {0} = 0..Cardinality(VersionsOf(t))
      BY <3>1, <3>2
    <3>4. Max(numbers \union {0}) = Cardinality(VersionsOf(t))
      BY <3>2, <3>3, LastOf
    <3> QED  BY <3>2, <3>4
  <2> HIDE DEF number
  <2> QED  BY <2>1, <2>2, SameTables DEF VersionInv, Fresh, rvars
<1>9. ASSUME PublishStore(r) PROVE VersionInv'
  <2> DEFINE row == [task |-> req[r].task, number |-> req[r].number, content |-> req[r].draft]
  <2>1. req[r].at = "numbered" /\ req' = [req EXCEPT ![r] = [at |-> "done"]] /\ Fresh(r)
    BY <1>9 DEF PublishStore, In, Answer, Await, Done, VersionInv
  <2>2. CASE UNCHANGED rvars
    BY <2>1, <2>2, VersionFrame DEF VersionInv
  <2>3. ASSUME NEW t, t = req[r].task, NEW n, n = Cardinality(VersionsOf(t)),
               t \in DOMAIN task, NumberFree(t, req[r].number),
               version' = InsertRow(version, r, row),
               task' = [task EXCEPT ![t].current = r]
        PROVE  VersionInv'
    <3>1. /\ DOMAIN version' = DOMAIN version \union {r}
          /\ version'[r].task = t /\ version'[r].number = req[r].number
          /\ \A v \in DOMAIN version : version'[v] = version[v]
          /\ r \notin DOMAIN version
      BY <2>1, <2>3 DEF InsertRow, Fresh
    <3>2. /\ DOMAIN task' = DOMAIN task /\ task'[t].current = r
          /\ \A u \in DOMAIN task \ {t} : task'[u] = task[u]
      BY <2>3 DEF RubricInv, TaskRow
    <3>3. /\ VersionsOf(t)' = VersionsOf(t) \union {r}
          /\ r \notin VersionsOf(t)
          /\ \A u : u # t => VersionsOf(u)' = VersionsOf(u)
      BY <3>1 DEF VersionsOf
    <3>4. n \in Nat /\ IsFiniteSet(VersionsOf(t))
      BY <2>3, VersionsFinite
    <3>5. Cardinality(VersionsOf(t)') = n + 1
      BY <2>3, <3>3, <3>4, FS_AddElement
    <3>6. {version[v].number : v \in VersionsOf(t)} = 1..n
      BY <2>3 DEF VersionInv, Ordered
    <3>7. req[r].number = n + 1
      <4>1. req[r].number \in 1..(n + 1)
        BY <2>1, <2>3 DEF VersionInv
      <4>2. req[r].number \notin 1..n
        BY <2>3, <3>6 DEF NumberFree
      <4> QED  BY <3>4, <4>1, <4>2
    <3>8. Ordered(t)'
      <4>1. {version'[v].number : v \in VersionsOf(t)'} = 1..n \union {n + 1}
        <5>1. \A v \in VersionsOf(t) : version'[v].number = version[v].number
          BY <3>1 DEF VersionsOf
        <5>2. version'[r].number = n + 1
          BY <3>1, <3>7
        <5> QED  BY <3>3, <3>6, <5>1, <5>2
      <4>2. 1..n \union {n + 1} = 1..(n + 1)
        BY <3>4
      <4>3. r \in VersionsOf(t)' /\ version'[r].number = n + 1
        BY <3>1, <3>3, <3>7
      <4> QED  BY <2>3, <3>2, <3>4, <3>5, <4>1, <4>2, <4>3 DEF Ordered
    <3>9. ASSUME NEW u \in DOMAIN task' PROVE Ordered(u)'
      <4>1. CASE u # t
        <5>1. \A v \in VersionsOf(u) : version'[v] = version[v]
          BY <3>1 DEF VersionsOf
        <5> QED  BY <3>2, <3>3, <4>1, <5>1, SameVersions DEF VersionInv
      <4> QED  BY <3>8, <4>1
    <3>10. \A q \in Requests : req'[q].at # "done" => q # r /\ req'[q] = req[q] /\ Fresh(q)
      BY <2>1 DEF VersionInv
    <3>11. \A q \in Requests : req'[q].at # "done" => Fresh(q)'
      BY <2>1, <2>3, <3>1, <3>2, <3>10 DEF Fresh, VersionInv
    <3>12. ASSUME NEW q \in Requests, NEW u, req'[q].at = "numbered", u = req'[q].task,
                  u \in DOMAIN task'
           PROVE  req'[q].number \in 1..(Cardinality(VersionsOf(u)') + 1)
      <4>1. req'[q] = req[q] /\ req[q].number \in 1..(Cardinality(VersionsOf(u)) + 1)
        BY <3>2, <3>10, <3>12 DEF VersionInv
      <4>2. CASE u = t
        BY <2>3, <3>4, <3>5, <4>1, <4>2
      <4>3. CASE u # t
        BY <3>3, <4>1, <4>3
      <4> QED  BY <4>2, <4>3
    <3>13. \A q \in Requests : req'[q].at = "deleting" =>
             \A v \in req'[q].versions \intersect DOMAIN version' : version'[v].task = req'[q].task
      BY <2>1, <3>1, <3>10 DEF VersionInv, Fresh
    <3>14. \A q \in Requests : req'[q].at = "numbered" /\ req'[q].task \in DOMAIN task' =>
             (req[q].number \in 1..(Cardinality(VersionsOf(req[q].task)) + 1))'
      BY <3>12
    <3>15. DOMAIN req' = Requests /\ DOMAIN version' \subseteq Ids
      BY <2>1, <3>1 DEF VersionInv, Ids
    <3> QED  BY <3>9, <3>11, <3>13, <3>14, <3>15 DEF VersionInv
  <2> QED
    BY <1>9, <2>2, <2>3 DEF PublishStore
<1> QED  BY <1>1, <1>2, <1>3, <1>4, <1>5, <1>6, <1>7, <1>8, <1>9

LEMMA VersionNext == RubricInv /\ VersionInv /\ [Next]_vars => VersionInv'
<1> SUFFICES ASSUME RubricInv, VersionInv, [Next]_vars PROVE VersionInv'  OBVIOUS
<1>1. DOMAIN req = Requests  BY DEF VersionInv
<1>2. CASE Configurations
  BY <1>1, <1>2, ConfigMoves, VersionFrame DEF Moves, ConfigPlaces
<1>3. CASE Ingests
  BY <1>1, <1>3, IngestMoves, VersionFrame DEF Moves, IngestPlaces
<1>4. CASE Reviews
  BY <1>1, <1>4, ReviewMoves, VersionFrame DEF Moves, ReviewPlaces
<1>5. CASE Crash
  BY <1>5, CrashMoves, VersionFrame
<1>6. CASE UNCHANGED vars
  BY <1>1, <1>6, VersionFrame DEF vars, rvars
<1> QED  BY <1>2, <1>3, <1>4, <1>5, <1>6, VersionTasks DEF Next

\* The versions of a task are numbered 1, 2, 3, ... and it points to the last
\* (publish_version of db/repositories/tasks.py).
THEOREM VersionsAreInOrder == Spec => []VersionsInOrder
<1>1. VersionInv => VersionsInOrder
  <2> SUFFICES ASSUME VersionInv, NEW t \in DOMAIN task
               PROVE  LET numbers == {version[v].number : v \in VersionsOf(t)}
                          n       == Cardinality(VersionsOf(t))
                      IN  /\ numbers = 1..n
                          /\ IF n = 0 THEN task[t].current = None
                             ELSE task[t].current \in VersionsOf(t) /\ version[task[t].current].number = n
    BY DEF VersionsInOrder
  <2> QED  BY DEF VersionInv, Ordered
<1> QED  BY <1>1, RubricInit, RubricNext, VersionInit, VersionNext, PTL DEF Spec

-----------------------------------------------------------------------------
(* A review is graded against what it was created for.                      *)

\* The hash is that of the version, as long as it is there.
Hashed(x) == x.version \in DOMAIN version => x.hash = Hash(x.version)

\* Versions do not change, and the row that a request may create is not one that
\* a review names.
PromiseInv ==
    /\ ReviewRows
    /\ \A x \in DOMAIN review :
           /\ Hashed(review[x])
           /\ review[x].status = "completed" => review[x].graded = review[x].hash
    /\ \A q \in Requests : req[q].at = "resolved" => Hashed(req[q])
    /\ \A r \in Requests : req[r].at # "done" =>
           /\ \A x \in DOMAIN review : review[x].version # r
           /\ \A q \in Requests : req[q].at \in {"tasked", "resolved"} => req[q].version # r

LEMMA PromiseInit == Init => PromiseInv
<1> QED  BY DEF Init, PromiseInv, ReviewRows, Waiting

\* Steps that create and run no review and add no version.
LEMMA PromiseFrame ==
  ASSUME PromiseInv, review' = review, UNCHANGED version,
         \A r \in Requests :
             /\ req'[r].at # "done" => req[r].at # "done"
             /\ req'[r].at \in {"tasked", "resolved"} => req'[r] = req[r]
  PROVE  PromiseInv'
<1> QED  BY DEF PromiseInv, ReviewRows, Hashed, Hash

\* A step of the tasks leaves each version as it is; the one it adds has the id of
\* a request that ends.
LEMMA VersionsKept ==
  ASSUME RubricInv, VersionInv, Tasks
  PROVE  \A v \in DOMAIN version' :
            \/ v \in DOMAIN version /\ version'[v] = version[v]
            \/ v \in Requests /\ req[v].at # "done" /\ req'[v].at = "done"
<1>1. PICK r \in Requests :
        \/ CreateTask(r)
        \/ \E t \in DOMAIN task : UpdateTask(r, t) \/ SaveDraft(r, t) \/ DeleteLoad(r, t) \/ PublishLoad(r, t)
        \/ StoreTask(r)
        \/ DeleteStore(r, InUse)
        \/ PublishNumber(r)
        \/ PublishStore(r)
  BY DEF Tasks
<1>2. CASE version' = version
  BY <1>2
<1>3. CASE DeleteStore(r, InUse)
  BY <1>3 DEF DeleteStore, DeleteRows, Restrict, rvars
<1>4. CASE PublishStore(r) /\ version' # version
  <2>1. req[r].at = "numbered" /\ req' = [req EXCEPT ![r] = [at |-> "done"]]
    BY <1>4 DEF PublishStore, In, Answer, Await, Done
  <2>2. version' = InsertRow(version, r, [task |-> req[r].task, number |-> req[r].number,
                                          content |-> req[r].draft])
    BY <1>4 DEF PublishStore, rvars
  <2>3. \A v \in DOMAIN version' : v = r \/ (v \in DOMAIN version /\ version'[v] = version[v])
    BY <2>2 DEF InsertRow
  <2> QED  BY <2>1, <2>3 DEF VersionInv
<1>5. ASSUME \/ CreateTask(r) \/ StoreTask(r) \/ PublishNumber(r)
             \/ \E t \in DOMAIN task : UpdateTask(r, t) \/ SaveDraft(r, t) \/ DeleteLoad(r, t) \/ PublishLoad(r, t)
      PROVE  version' = version
  BY <1>5 DEF CreateTask, StoreTask, PublishNumber, UpdateTask, SaveDraft, LoadTask, DeleteLoad, PublishLoad, rvars
<1> QED  BY <1>1, <1>2, <1>3, <1>4, <1>5

LEMMA PromiseTasks ==
  ASSUME RubricInv, VersionInv, PromiseInv, Tasks
  PROVE  PromiseInv'
<1>1. \A r \in Requests :
        /\ req'[r].at # "done" => req[r].at # "done"
        /\ req'[r].at \in {"tasked", "resolved"} => req'[r] = req[r]
  BY TaskMoves DEF VersionInv, Moves, TaskPlaces
<1>2. review' = review
  BY TaskMoves DEF VersionInv
<1>3. ASSUME NEW x, Hashed(x), \A r \in Requests : req[r].at # "done" => x.version # r
      PROVE  Hashed(x)'
  BY <1>3, VersionsKept DEF Hashed, Hash
<1>4. \A x \in DOMAIN review : Hashed(review[x])'
  BY <1>2, <1>3 DEF PromiseInv
<1>5. \A q \in Requests : req'[q].at = "resolved" => Hashed(req[q])'
  <2> SUFFICES ASSUME NEW q \in Requests, NEW x, x = req'[q], req'[q].at = "resolved"
               PROVE  Hashed(x)'
    BY DEF Hashed
  <2>1. x = req[q] /\ req[q].at = "resolved"
    BY <1>1
  <2>2. Hashed(x) /\ \A r \in Requests : req[r].at # "done" => x.version # r
    BY <2>1 DEF PromiseInv
  <2> QED  BY <1>3, <2>2
<1>6. \A r \in Requests : req'[r].at # "done" =>
        /\ \A x \in DOMAIN review : review[x].version # r
        /\ \A q \in Requests : req'[q].at \in {"tasked", "resolved"} => req'[q].version # r
  BY <1>1 DEF PromiseInv
<1> QED  BY <1>2, <1>4, <1>5, <1>6 DEF PromiseInv, ReviewRows

LEMMA PromiseReviews ==
  ASSUME VersionInv, PromiseInv, Reviews
  PROVE  PromiseInv'
<1>1. UNCHANGED rvars /\ DOMAIN req = Requests
  BY ReviewMoves DEF VersionInv
<1>2. ASSUME NEW old, NEW new, RunOf(new, old), Hashed(old), old.status = "completed" => old.graded = old.hash
      PROVE  /\ Hashed(new) /\ new.version = old.version
             /\ new.status = "completed" => new.graded = new.hash
  BY <1>2 DEF RunOf, SameReview, Hashed
<1>3. ASSUME NEW x \in DOMAIN review, RunReview(x) PROVE PromiseInv'
  <2>1. req' = req /\ version' = version
    BY <1>1, <1>3 DEF RunReview, rvars
  <2>2. /\ DOMAIN review' = DOMAIN review
        /\ \A y \in DOMAIN review : ReviewRow(review'[y]) /\ RunOf(review'[y], review[y])
    BY <1>3, RunRows DEF PromiseInv
  <2>3. \A y \in DOMAIN review :
          /\ Hashed(review'[y]) /\ review'[y].version = review[y].version
          /\ review'[y].status = "completed" => review'[y].graded = review'[y].hash
    BY <1>2, <2>2 DEF PromiseInv
  <2> QED  BY <2>1, <2>2, <2>3 DEF PromiseInv, ReviewRows, Hashed, Hash
<1>4. ASSUME NEW r \in Requests, ReviewInsert(r) PROVE PromiseInv'
  <2>1. req' = [req EXCEPT ![r] = [at |-> "done"]] /\ req[r].at = "resolved" /\ version' = version
    BY <1>1, <1>4 DEF ReviewInsert, Answer, Await, Done, In, rvars
  <2>2. \A y \in DOMAIN review' :
          \/ y \in DOMAIN review /\ ReviewRow(review'[y]) /\ RunOf(review'[y], review[y])
          \/ y = r /\ ReviewRow(review'[y]) /\ CreationOf(review'[y], req[r])
    BY <1>1, <1>4, InsertRows DEF PromiseInv
  <2>3. ASSUME NEW y \in DOMAIN review'
        PROVE  /\ ReviewRow(review'[y]) /\ Hashed(review'[y])
               /\ review'[y].status = "completed" => review'[y].graded = review'[y].hash
               /\ \A q \in Requests : req'[q].at # "done" => review'[y].version # q
    <3>1. CASE y \in DOMAIN review /\ ReviewRow(review'[y]) /\ RunOf(review'[y], review[y])
      BY <1>1, <1>2, <2>1, <3>1 DEF PromiseInv
    <3>2. CASE y = r /\ ReviewRow(review'[y]) /\ CreationOf(review'[y], req[r])
      BY <1>1, <2>1, <3>2 DEF PromiseInv, CreationOf, SameReview, Hashed
    <3> QED  BY <2>2, <3>1, <3>2
  <2> QED  BY <1>1, <2>1, <2>3 DEF PromiseInv, ReviewRows, Hashed, Hash
<1>5. ASSUME NEW r \in Requests, ReviewResolve(r) PROVE PromiseInv'
  <2>1. req[r].at = "tasked" /\ review' = review /\ version' = version
    BY <1>5 DEF ReviewResolve, In, rvars
  <2>2. CASE req' = [req EXCEPT ![r] = [at |-> "done"]]
    BY <1>1, <2>1, <2>2, PromiseFrame
  <2>3. ASSUME NEW cred \in Credentials,
               req' = [req EXCEPT ![r] =
                          [at |-> "resolved", task |-> req[r].task, version |-> req[r].version,
                           submission |-> req[r].submission, model |-> cred.model,
                           hash |-> Hash(req[r].version), epoch |-> epoch]]
        PROVE  PromiseInv'
    <3>1. Hashed(req'[r]) /\ req'[r].version = req[r].version /\ req'[r].at = "resolved"
      BY <1>1, <2>3 DEF Hashed
    <3>2. \A q \in Requests \ {r} : req'[q] = req[q]
      BY <1>1, <2>3
    <3> QED  BY <1>1, <2>1, <3>1, <3>2 DEF PromiseInv, ReviewRows, Hashed, Hash
  <2> QED  BY <1>5, <2>2, <2>3 DEF ReviewResolve, Answer, Await, Done
<1>6. ASSUME NEW r \in Requests, NEW t \in DOMAIN task, NEW s \in DOMAIN submission, ReviewTask(r, t, s)
      PROVE  PromiseInv'
  <2>1. /\ req[r].at = "waiting" /\ review' = review /\ version' = version /\ task[t].current # None
        /\ req' = [req EXCEPT ![r] = [at |-> "tasked", task |-> t, version |-> task[t].current,
                                     submission |-> s]]
    BY <1>6 DEF ReviewTask, In, Await, rvars
  <2>2. task[t].current \in DOMAIN version
    BY <2>1 DEF VersionInv, Ordered, VersionsOf
  <2>3. \A q \in Requests : req[q].at # "done" => task[t].current # q
    BY <2>2 DEF VersionInv, Fresh
  <2> QED  BY <1>1, <2>1, <2>3 DEF PromiseInv, ReviewRows, Hashed, Hash
<1> QED  BY <1>3, <1>4, <1>5, <1>6 DEF Reviews

LEMMA PromiseNext == RubricInv /\ VersionInv /\ PromiseInv /\ [Next]_vars => PromiseInv'
<1> SUFFICES ASSUME RubricInv, VersionInv, PromiseInv, [Next]_vars PROVE PromiseInv'  OBVIOUS
<1>1. DOMAIN req = Requests  BY DEF VersionInv
<1>2. CASE Configurations
  BY <1>1, <1>2, ConfigMoves, PromiseFrame DEF Moves, ConfigPlaces, rvars
<1>3. CASE Ingests
  BY <1>1, <1>3, IngestMoves, PromiseFrame DEF Moves, IngestPlaces, rvars
<1>4. CASE Crash
  BY <1>4, CrashMoves, PromiseFrame DEF rvars
<1>5. CASE UNCHANGED vars
  BY <1>5, PromiseFrame DEF vars
<1> QED  BY <1>2, <1>3, <1>4, <1>5, PromiseTasks, PromiseReviews DEF Next

\* What a review was graded against is what it was created for, whatever was saved,
\* published or deleted in between (services/reviews.py and engine/runner.py).
THEOREM GradedAgainstItsHash == Spec => []GradedAsPromised
<1>1. PromiseInv => GradedAsPromised
  BY DEF PromiseInv, GradedAsPromised, Hashed
<1> QED  BY <1>1, RubricInit, RubricNext, VersionInit, VersionNext, PromiseInit, PromiseNext, PTL DEF Spec

-----------------------------------------------------------------------------
(* No row is taken away from under another.                                 *)

GroundInv ==
    /\ ReviewRows
    /\ ForeignKeys =>
           /\ \A x \in DOMAIN review : RowsExist(review[x])
           /\ \A v \in DOMAIN version : version[v].task \in DOMAIN task

LEMMA GroundInit == Init => GroundInv
<1> QED  BY DEF Init, GroundInv, ReviewRows

LEMMA GroundTasks ==
  ASSUME RubricInv, VersionInv, GroundInv, Tasks
  PROVE  GroundInv'
<1>1. PICK r \in Requests :
        \/ CreateTask(r)
        \/ \E t \in DOMAIN task : UpdateTask(r, t) \/ SaveDraft(r, t) \/ DeleteLoad(r, t) \/ PublishLoad(r, t)
        \/ StoreTask(r)
        \/ DeleteStore(r, InUse)
        \/ PublishNumber(r)
        \/ PublishStore(r)
  BY DEF Tasks
<1>2. UNCHANGED <<database, review, submission>>
  BY TaskMoves DEF VersionInv, svars
<1>3. ASSUME DOMAIN task \subseteq DOMAIN task', version' = version PROVE GroundInv'
  BY <1>2, <1>3 DEF GroundInv, ReviewRows, ForeignKeys, RowsExist
<1>4. CASE CreateTask(r)
  BY <1>3, <1>4 DEF CreateTask, InsertRow
<1>5. CASE StoreTask(r)
  BY <1>3, <1>5 DEF StoreTask
<1>6. CASE \/ PublishNumber(r)
           \/ \E t \in DOMAIN task : UpdateTask(r, t) \/ SaveDraft(r, t) \/ DeleteLoad(r, t) \/ PublishLoad(r, t)
  BY <1>3, <1>6 DEF PublishNumber, UpdateTask, SaveDraft, LoadTask, DeleteLoad, PublishLoad, rvars
<1>7. CASE PublishStore(r)
  <2>1. CASE UNCHANGED rvars
    BY <1>3, <2>1 DEF rvars
  <2>2. ASSUME NEW row, row.task \in DOMAIN task, version' = InsertRow(version, r, row),
               DOMAIN task' = DOMAIN task
        PROVE  GroundInv'
    <3>1. /\ DOMAIN version \subseteq DOMAIN version'
          /\ \A v \in DOMAIN version' : version'[v] = row \/ (v \in DOMAIN version /\ version'[v] = version[v])
      BY <2>2 DEF InsertRow
    <3> QED  BY <1>2, <2>2, <3>1 DEF GroundInv, ReviewRows, ForeignKeys, RowsExist
  <2> QED  BY <1>7, <2>1, <2>2 DEF PublishStore
<1>8. CASE DeleteStore(r, InUse)
  <2>1. CASE UNCHANGED rvars
    BY <1>3, <2>1 DEF rvars
  <2>2. CASE ~ForeignKeys
    BY <1>2, <2>2 DEF GroundInv, ReviewRows, ForeignKeys
  <2>3. ASSUME NEW t, NEW gone, t = req[r].task, ForeignKeys,
               gone = req[r].versions \union VersionsOf(t), ({t} \union gone) \intersect InUse = {},
               task' = DeleteRows(task, {t}), version' = DeleteRows(version, gone)
        PROVE  GroundInv'
    <3>1. /\ DOMAIN task' = DOMAIN task \ {t}
          /\ DOMAIN version' = DOMAIN version \ gone
          /\ \A v \in DOMAIN version' : version'[v] = version[v]
      BY <2>3 DEF DeleteRows, Restrict
    <3>2. \A x \in DOMAIN review : review[x].task \in InUse /\ review[x].version \in InUse
      BY DEF InUse
    <3>3. \A x \in DOMAIN review : review[x].task # t /\ review[x].version \notin gone
      BY <2>3, <3>2
    <3>4. \A v \in DOMAIN version' : version'[v].task # t
      BY <2>3, <3>1 DEF VersionsOf
    <3> QED  BY <1>2, <2>3, <3>1, <3>3, <3>4 DEF GroundInv, ReviewRows, ForeignKeys, RowsExist
  <2> QED  BY <1>8, <2>1, <2>2, <2>3 DEF DeleteStore
<1> QED  BY <1>1, <1>4, <1>5, <1>6, <1>7, <1>8

LEMMA GroundNext == RubricInv /\ VersionInv /\ GroundInv /\ [Next]_vars => GroundInv'
<1> SUFFICES ASSUME RubricInv, VersionInv, GroundInv, [Next]_vars PROVE GroundInv'  OBVIOUS
<1>1. DOMAIN req = Requests  BY DEF VersionInv
<1>2. ASSUME review' = review, UNCHANGED <<database, rvars>>, DOMAIN submission \subseteq DOMAIN submission'
      PROVE  GroundInv'
  BY <1>2 DEF GroundInv, ReviewRows, ForeignKeys, RowsExist, rvars
<1>3. CASE Configurations
  BY <1>1, <1>2, <1>3, ConfigMoves DEF svars
<1>4. CASE Ingests
  <2>1. DOMAIN submission \subseteq DOMAIN submission'
    BY <1>4 DEF Ingests, IngestLookup, StoreBlobs, StoreSubmission, InsertRow, svars
  <2> QED  BY <1>1, <1>2, <1>4, <2>1, IngestMoves
<1>5. CASE Crash
  BY <1>2, <1>5, CrashMoves
<1>6. CASE UNCHANGED vars
  BY <1>2, <1>6 DEF vars, rvars
<1>7. CASE Reviews
  <2>1. UNCHANGED <<database, rvars, svars>>
    BY <1>1, <1>7, ReviewMoves
  <2>2. ASSUME NEW x, NEW y, RowsExist(y), x.task = y.task, x.version = y.version, x.submission = y.submission
        PROVE  RowsExist(x)'
    BY <2>1, <2>2 DEF RowsExist, rvars, svars
  <2>3. CASE review' = review
    BY <1>2, <2>1, <2>3 DEF svars
  <2>4. ASSUME NEW x \in DOMAIN review, RunReview(x) PROVE GroundInv'
    <3>1. /\ DOMAIN review' = DOMAIN review
          /\ \A z \in DOMAIN review : ReviewRow(review'[z]) /\ RunOf(review'[z], review[z])
      BY <2>4, RunRows DEF GroundInv
    <3>2. \A z \in DOMAIN review : RowsExist(review[z]) => RowsExist(review[z])'
      <4> SUFFICES ASSUME NEW z \in DOMAIN review, RowsExist(review[z]), NEW w, w = review'[z]
                   PROVE  RowsExist(w)'
        BY DEF RowsExist
      <4> QED  BY <2>2, <3>1 DEF RunOf, SameReview
    <3> QED  BY <2>1, <3>1, <3>2 DEF GroundInv, ReviewRows, ForeignKeys, rvars
  <2>5. ASSUME NEW r \in Requests, ReviewInsert(r) PROVE GroundInv'
    <3>1. \A y \in DOMAIN review' :
            \/ y \in DOMAIN review /\ ReviewRow(review'[y]) /\ RunOf(review'[y], review[y])
            \/ y = r /\ ReviewRow(review'[y]) /\ CreationOf(review'[y], req[r])
      BY <1>1, <2>5, InsertRows DEF GroundInv
    <3>2. ForeignKeys => \A y \in DOMAIN review' : RowsExist(review[y])'
      <4> SUFFICES ASSUME ForeignKeys, NEW y \in DOMAIN review', NEW w, w = review'[y]
                   PROVE  RowsExist(w)'
        BY DEF RowsExist
      <4> QED  BY <2>2, <3>1 DEF RunOf, CreationOf, SameReview, GroundInv
    <3> QED  BY <2>1, <3>1, <3>2 DEF GroundInv, ReviewRows, ForeignKeys, rvars
  <2> QED  BY <1>7, <2>3, <2>4, <2>5 DEF Reviews, ReviewTask, ReviewResolve
<1> QED  BY <1>3, <1>4, <1>5, <1>6, <1>7, GroundTasks DEF Next

\* Where foreign keys are enforced, no row that another names is taken away
\* (delete_task of api/routers/tasks.py against publications and create_review).
THEOREM RowsAreGrounded == Spec => []Grounded
<1>1. VersionInv /\ GroundInv => Grounded
  BY DEF VersionInv, Ordered, VersionsOf, GroundInv, Grounded
<1> QED  BY <1>1, RubricInit, RubricNext, VersionInit, VersionNext, GroundInit, GroundNext, PTL DEF Spec

-----------------------------------------------------------------------------
(* The types of the tables.                                                 *)

\* What the invariants above leave open: the ids of tasks and reviews, the numbers of
\* versions whose task is gone, the models of configurations, and the single flags.
TablesInv ==
    /\ database \in {"postgresql", "sqlite"}
    /\ DOMAIN task \subseteq Ids
    /\ \A v \in DOMAIN version : version[v].number \in 1..Cardinality(Ids)
    /\ \A c \in DOMAIN config : config[c].model \in Models
    /\ \A r \in Requests : req[r].at = "creating" => req[r].model \in Models
    /\ blob = [c \in Contents |-> blob[c]]
    /\ \A x \in DOMAIN review :
          x \in Requests /\ review[x].status \in {"queued", "completed", "failed"}
    /\ lostKeys \subseteq Ids
    /\ removed \in BOOLEAN
    /\ epoch \in Nat
    /\ crashes \in 0..MaxCrashes

LEMMA IdsFinite == IsFiniteSet(Ids) /\ Cardinality(Ids) \in Nat \ {0}
<1>1. IsFiniteSet(Ids)
  BY RequestsAssumption, FS_AddElement DEF Ids
<1>2. Ids # {}
  BY DEF Ids
<1> QED  BY <1>1, <1>2, FS_CardinalityType, FS_EmptySet

LEMMA TablesInit == Init => TablesInv
<1> SUFFICES ASSUME Init PROVE TablesInv  OBVIOUS
<1>1. 1 \in 1..Cardinality(Ids)  BY IdsFinite
<1>2. database \in {"postgresql", "sqlite"} /\ removed \in BOOLEAN /\ epoch \in Nat
      /\ crashes \in 0..MaxCrashes
  <2>1. removed \in BOOLEAN  BY DEF Init
  <2>2. epoch = 0 /\ crashes = 0  BY DEF Init
  <2>3. database \in {"postgresql", "sqlite"}  BY DEF Init
  <2> QED  BY <2>1, <2>2, <2>3, CrashesAssumption
<1>3. DOMAIN task \subseteq Ids /\ \A v \in DOMAIN version : version[v].number = 1
  BY DEF Init, Ids
<1>4. \A c \in DOMAIN config : config[c].model \in Models
  BY OldAssumption DEF Init
<1>5. \A r \in Requests : req[r].at # "creating"
  BY DEF Init, Waiting
<1>6. blob = [c \in Contents |-> blob[c]] /\ DOMAIN review = {} /\ lostKeys = {}
  BY DEF Init
<1> QED  BY <1>1, <1>2, <1>3, <1>4, <1>5, <1>6 DEF TablesInv

LEMMA TablesTasks ==
  ASSUME RubricInv, VersionInv, VersionInv', TablesInv, Tasks
  PROVE  TablesInv'
<1>1. PICK r \in Requests :
        \/ CreateTask(r)
        \/ \E t \in DOMAIN task : UpdateTask(r, t) \/ SaveDraft(r, t) \/ DeleteLoad(r, t) \/ PublishLoad(r, t)
        \/ StoreTask(r)
        \/ DeleteStore(r, InUse)
        \/ PublishNumber(r)
        \/ PublishStore(r)
  BY DEF Tasks
<1>2. /\ UNCHANGED <<database, pvars, svars, review, crashes>>
      /\ \A q \in Requests : req'[q].at = "creating" => req'[q] = req[q]
  BY TaskMoves DEF VersionInv, Moves, TaskPlaces
<1>3. /\ DOMAIN task' \subseteq Ids
      /\ \A v \in DOMAIN version' : version'[v].number \in 1..Cardinality(Ids)
  <2>1. CASE CreateTask(r)
    BY <2>1 DEF CreateTask, InsertRow, TablesInv, Ids
  <2>2. CASE StoreTask(r)
    BY <2>2 DEF StoreTask, TablesInv
  <2>3. CASE DeleteStore(r, InUse)
    BY <2>3 DEF DeleteStore, DeleteRows, Restrict, TablesInv, rvars
  <2>4. CASE \/ PublishNumber(r)
             \/ \E t \in DOMAIN task : UpdateTask(r, t) \/ SaveDraft(r, t) \/ DeleteLoad(r, t) \/ PublishLoad(r, t)
    BY <2>4 DEF PublishNumber, UpdateTask, SaveDraft, LoadTask, DeleteLoad, PublishLoad, rvars, TablesInv
  <2>5. CASE PublishStore(r)
    <3>1. CASE UNCHANGED rvars
      BY <3>1 DEF rvars, TablesInv
    <3>2. ASSUME NEW t \in DOMAIN task, NEW row, row.task = t,
                 version' = InsertRow(version, r, row), DOMAIN task' = DOMAIN task
          PROVE  /\ DOMAIN task' \subseteq Ids
                 /\ \A v \in DOMAIN version' : version'[v].number \in 1..Cardinality(Ids)
      <4>1. /\ DOMAIN version' = DOMAIN version \union {r} /\ version'[r] = row
            /\ \A v \in DOMAIN version \ {r} : version'[v] = version[v]
        BY <3>2 DEF InsertRow
      <4>2. t \in DOMAIN task' /\ r \in VersionsOf(t)'
        BY <3>2, <4>1 DEF VersionsOf
      <4>3. version'[r].number \in 1..Cardinality(Ids)
        <5> DEFINE S == VersionsOf(t)'
        <5>1. version'[r].number \in 1..Cardinality(S)
          BY <4>2 DEF VersionInv, Ordered
        <5>2. S \subseteq Ids
          BY DEF VersionInv, VersionsOf
        <5> HIDE DEF S
        <5>3. Cardinality(S) \in Nat /\ Cardinality(S) <= Cardinality(Ids)
          BY <5>2, IdsFinite, FS_Subset, FS_CardinalityType
        <5> QED  BY <5>1, <5>3, IdsFinite
      <4> QED  BY <3>2, <4>1, <4>3 DEF TablesInv
    <3> QED  BY <2>5, <3>1, <3>2 DEF PublishStore
  <2> QED  BY <1>1, <2>1, <2>2, <2>3, <2>4, <2>5
<1> QED  BY <1>2, <1>3 DEF TablesInv, pvars, svars

\* A configuration is created for a model that there is.
LEMMA TablesConfigurations ==
  ASSUME ConfigInv, TablesInv, Configurations
  PROVE  TablesInv'
<1>1. DOMAIN req = Requests /\ \A c \in DOMAIN config : ConfigRow(config[c])
  BY DEF ConfigInv
<1>2. UNCHANGED <<database, rvars, svars, review, crashes>>
  BY <1>1, ConfigMoves
<1>3. PICK r \in Requests :
        \/ \E m \in Models : CreateDefault(r, m) \/ CreateConfig(r, m)
        \/ InsertDefault(r)
        \/ \E c \in DOMAIN config : SetDefaultLoad(r, c) \/ DeleteConfig(r, c)
        \/ SetDefaultClear(r)
        \/ SetDefaultStore(r)
  BY DEF Configurations
<1>4. removed' \in BOOLEAN /\ epoch' \in Nat /\ lostKeys' = lostKeys
  <2>1. epoch \in Nat /\ removed \in BOOLEAN  BY DEF TablesInv
  <2>2. removed' \in BOOLEAN /\ lostKeys' = lostKeys
    <3>1. CASE (\E m \in Models : CreateDefault(r, m)) \/ SetDefaultClear(r)
      BY <2>1, <3>1 DEF CreateDefault, SetDefaultClear, ClearDefaults
    <3>2. ASSUME NEW m, NEW default \in BOOLEAN, InsertConfig(r, m, default)
          PROVE  removed' \in BOOLEAN /\ lostKeys' = lostKeys
      <4>1. (removed /\ ~default) \in BOOLEAN  BY <2>1, Zenon
      <4> QED  BY <3>2, <4>1, Zenon DEF InsertConfig
    <3>3. CASE StoreRaises(r)
      BY <3>3, Zenon DEF StoreRaises
    <3>4. CASE InsertDefault(r) \/ \E m \in Models : CreateConfig(r, m)
      BY <3>2, <3>3, <3>4, Zenon DEF InsertDefault, CreateConfig
    <3>5. CASE \E c \in DOMAIN config : SetDefaultLoad(r, c)
      BY <2>1, <3>5, Zenon DEF SetDefaultLoad, pvars
    <3>6. ASSUME NEW c \in DOMAIN config, DeleteConfig(r, c)
          PROVE  removed' \in BOOLEAN /\ lostKeys' = lostKeys
      <4>1. removed' = (removed \/ config[c].default) /\ config[c].default \in BOOLEAN
        BY <1>1, <3>6, Zenon DEF DeleteConfig, ConfigRow
      <4>2. removed' \in BOOLEAN  BY <2>1, <4>1, Zenon
      <4> QED  BY <3>6, <4>2, Zenon DEF DeleteConfig
    <3>7. CASE SetDefaultStore(r)
      BY <3>3, <3>7, Zenon DEF SetDefaultStore
    <3> QED  BY <1>3, <3>1, <3>4, <3>5, <3>6, <3>7
  <2>3. epoch' = epoch \/ epoch' = epoch + 1
    BY EpochCounts
  <2>4. epoch' \in Nat  BY <2>1, <2>3
  <2> QED  BY <2>2, <2>4
<1>5. \A q \in Requests : req'[q].at = "creating" => req'[q].model \in Models
  <2>1. ASSUME NEW m \in Models, CreateDefault(r, m)
        PROVE  \A q \in Requests : req'[q].at = "creating" => req'[q].model \in Models
    BY <1>1, <2>1 DEF CreateDefault, Await, TablesInv
  <2>2. ASSUME NEW row, row.at # "creating", req' = [req EXCEPT ![r] = row]
        PROVE  \A q \in Requests : req'[q].at = "creating" => req'[q].model \in Models
    BY <1>1, <2>2 DEF TablesInv
  <2>3. CASE (\E m \in Models : CreateConfig(r, m)) \/ InsertDefault(r)
    BY <2>2, <2>3 DEF CreateConfig, InsertDefault, InsertConfig, StoreRaises, Answer, Await, Done
  <2>4. CASE \E c \in DOMAIN config : SetDefaultLoad(r, c) \/ DeleteConfig(r, c)
    BY <2>2, <2>4 DEF SetDefaultLoad, DeleteConfig, Answer, Await, Done
  <2>5. CASE SetDefaultClear(r) \/ SetDefaultStore(r)
    BY <2>2, <2>5 DEF SetDefaultClear, SetDefaultStore, StoreRaises, Answer, Await, Done
  <2> QED  BY <1>3, <2>1, <2>3, <2>4, <2>5
<1>6. \A c \in DOMAIN config' : config'[c].model \in Models
  <2>1. CASE ClearDefaults
    <3>1. config' = [c \in DOMAIN config |-> [config[c] EXCEPT !.default = FALSE]]
      BY <2>1 DEF ClearDefaults, Cleared
    <3>2. \A c \in DOMAIN config : [config[c] EXCEPT !.default = FALSE].model = config[c].model
      BY <1>1, Overwritten
    <3> QED  BY <3>1, <3>2 DEF TablesInv
  <2>2. ASSUME NEW m \in Models, NEW default, InsertConfig(r, m, default)
        PROVE  \A c \in DOMAIN config' : config'[c].model \in Models
    BY <2>2 DEF InsertConfig, InsertRow, TablesInv
  <2>3. CASE InsertDefault(r)
    BY <2>2, <2>3 DEF InsertDefault, StoreRaises, In, TablesInv
  <2>4. CASE \E c \in DOMAIN config : SetDefaultLoad(r, c) \/ DeleteConfig(r, c)
    BY <2>4 DEF SetDefaultLoad, DeleteConfig, DeleteRows, Restrict, TablesInv, pvars
  <2>5. CASE SetDefaultStore(r)
    <3>1. CASE config' = config
      BY <3>1 DEF TablesInv
    <3>2. ASSUME NEW d \in DOMAIN config, config' = [config EXCEPT ![d].default = TRUE]
          PROVE  \A c \in DOMAIN config' : config'[c].model \in Models
      <4>1. [config[d] EXCEPT !.default = TRUE].model = config[d].model
        BY <1>1, Overwritten
      <4>2. /\ DOMAIN config' = DOMAIN config
            /\ config'[d] = [config[d] EXCEPT !.default = TRUE]
            /\ \A c \in DOMAIN config \ {d} : config'[c] = config[c]
        BY <3>2
      <4> QED  BY <4>1, <4>2 DEF TablesInv
    <3> QED  BY <2>5, <3>1, <3>2 DEF SetDefaultStore, StoreRaises
  <2>6. ASSUME NEW m \in Models, CreateDefault(r, m) \/ CreateConfig(r, m)
        PROVE  \A c \in DOMAIN config' : config'[c].model \in Models
    BY <2>1, <2>2, <2>6 DEF CreateDefault, CreateConfig
  <2>7. CASE SetDefaultClear(r)
    BY <2>1, <2>7 DEF SetDefaultClear
  <2> QED  BY <1>3, <2>3, <2>4, <2>5, <2>6, <2>7
<1> QED  BY <1>2, <1>4, <1>5, <1>6 DEF TablesInv, rvars, svars

LEMMA TablesReviews ==
  ASSUME GroundInv, TablesInv, DOMAIN req = Requests, Reviews
  PROVE  TablesInv'
<1>1. /\ UNCHANGED <<database, rvars, pvars, svars, crashes>>
      /\ \A q \in Requests : req'[q].at = "creating" => req'[q] = req[q]
  BY ReviewMoves DEF Moves, ReviewPlaces
<1>2. ReviewRows  BY DEF GroundInv
<1>3. \A x \in DOMAIN review' :
         x \in Requests /\ review'[x].status \in {"queued", "completed", "failed"}
  <2>1. CASE review' = review
    BY <2>1 DEF TablesInv
  <2>2. ASSUME NEW x \in DOMAIN review, RunReview(x)
        PROVE  \A y \in DOMAIN review' :
                  y \in Requests /\ review'[y].status \in {"queued", "completed", "failed"}
    BY <1>2, <2>2, RunRows DEF RunOf, TablesInv
  <2>3. ASSUME NEW r \in Requests, ReviewInsert(r)
        PROVE  \A y \in DOMAIN review' :
                  y \in Requests /\ review'[y].status \in {"queued", "completed", "failed"}
    <3>1. \A y \in DOMAIN review' :
             \/ y \in DOMAIN review /\ RunOf(review'[y], review[y])
             \/ y = r /\ CreationOf(review'[y], req[r])
      BY <1>2, <2>3, InsertRows
    <3> QED  BY <3>1 DEF RunOf, CreationOf, TablesInv
  <2> QED  BY <2>1, <2>2, <2>3 DEF Reviews, ReviewTask, ReviewResolve
<1> QED  BY <1>1, <1>3 DEF TablesInv, rvars, pvars, svars

LEMMA TablesNext ==
  /\ RubricInv /\ VersionInv /\ VersionInv' /\ ConfigInv /\ GroundInv
  /\ TablesInv /\ [Next]_vars
  => TablesInv'
<1> SUFFICES ASSUME RubricInv, VersionInv, VersionInv', ConfigInv, GroundInv,
                    TablesInv, [Next]_vars
             PROVE  TablesInv'
  OBVIOUS
<1>1. DOMAIN req = Requests  BY DEF ConfigInv
<1>2. CASE Ingests
  <2>1. /\ UNCHANGED <<database, rvars, pvars, review, crashes>>
        /\ \A q \in Requests : req'[q].at = "creating" => req'[q] = req[q]
    BY <1>1, <1>2, IngestMoves DEF Moves, IngestPlaces
  <2>2. blob' = [c \in Contents |-> blob'[c]]
    BY <1>2 DEF Ingests, IngestLookup, StoreBlobs, StoreSubmission, svars, TablesInv
  <2> QED  BY <2>1, <2>2 DEF TablesInv, rvars, pvars
<1>3. CASE Crash
  <2>1. \A q \in Requests : req'[q].at # "creating"
    BY <1>3, CrashMoves
  <2>2. blob' = [c \in Contents |-> blob'[c]]
    BY <1>3 DEF Crash, StoreBlobsCut, TablesInv
  <2>3. crashes' \in 0..MaxCrashes /\ removed' \in BOOLEAN
    BY <1>3, CrashesAssumption DEF Crash, TablesInv
  <2>4. epoch' \in Nat /\ lostKeys' \subseteq Ids
    BY <1>3 DEF Crash, ChangeSecret, TablesInv, ConfigInv
  <2> QED  BY <1>3, <2>1, <2>2, <2>3, <2>4, CrashMoves DEF TablesInv, rvars
<1>4. CASE UNCHANGED vars
  BY <1>4 DEF vars, TablesInv
<1> QED
  BY <1>1, <1>2, <1>3, <1>4, TablesTasks, TablesConfigurations, TablesReviews DEF Next

\* The tables hold rows of their kind: every id is a request's or was there, versions
\* are numbered within the number of ids also when their task is gone, every draft was
\* validated, and a blob is whole or absent, through every interleaving and crash
\* (db/models.py and the repositories).
THEOREM CatalogTypeCorrect == Spec => []CatalogTypeOK
<1> DEFINE Inv == SubInv /\ RubricInv /\ VersionInv /\ ConfigInv /\ KeptInv /\ GroundInv /\ TablesInv
<1>1. Init => Inv
  BY SubInit, RubricInit, VersionInit, ConfigInit, GroundInit, TablesInit
<1>2. Inv /\ [Next]_vars => Inv'
  BY SubNext, RubricNext, VersionNext, ConfigNext, GroundNext, TablesNext
<1>3. ASSUME Inv PROVE CatalogTypeOK
  <2>1. /\ DOMAIN req = Requests /\ database \in {"postgresql", "sqlite"}
        /\ removed \in BOOLEAN /\ epoch \in Nat /\ crashes \in 0..MaxCrashes /\ overlaps \in Nat
        /\ lostKeys \subseteq Ids
    BY <1>3 DEF TablesInv, ConfigInv
  <2>2. ASSUME NEW t \in DOMAIN task
        PROVE  t \in Ids /\ task[t].current \in Ids \union {None} /\ ValidDraft(task[t].draft)
    <3>1. task[t].current = None \/ task[t].current \in VersionsOf(t)
      BY <1>3 DEF VersionInv, Ordered
    <3> QED  BY <1>3, <3>1 DEF TablesInv, RubricInv, Good, VersionInv, VersionsOf
  <2>3. \A v \in DOMAIN version : v \in Ids /\ version[v].number \in 1..Cardinality(Ids)
    BY <1>3 DEF VersionInv, TablesInv
  <2>4. ASSUME NEW c \in DOMAIN config
        PROVE  c \in Ids /\ config[c] \in [model : Models, default : BOOLEAN]
    <3>1. /\ config[c] = [model |-> config[c].model, default |-> config[c].default]
          /\ config[c].default \in BOOLEAN /\ config[c].model \in Models
      BY <1>3 DEF ConfigInv, ConfigRow, TablesInv
    <3>2. PICK m \in Models, d \in BOOLEAN : config[c] = [model |-> m, default |-> d]
      BY <3>1
    <3> QED  BY <1>3, <3>2 DEF ConfigInv
  <2>5. \A s \in DOMAIN submission : s \in Ids /\ submission[s].tree \in Trees
    BY <1>3 DEF SubInv
  <2>6. blob \in [Contents -> {"absent", "partial", "whole"}]
    <3>1. /\ blob = [c \in Contents |-> blob[c]]
          /\ \A c \in Contents : blob[c] \in {"absent", "partial", "whole"}
      BY <1>3 DEF SubInv, TablesInv
    <3> QED  BY <3>1
  <2>7. \A x \in DOMAIN review : x \in Requests /\ review[x].status \in {"queued", "completed", "failed"}
    BY <1>3 DEF TablesInv
  <2> QED  BY <2>1, <2>2, <2>3, <2>4, <2>5, <2>6, <2>7 DEF CatalogTypeOK
<1>4. Inv => CatalogTypeOK
  BY <1>3
<1> HIDE DEF Inv
<1> QED  BY <1>1, <1>2, <1>4, PTL DEF Spec

=============================================================================
