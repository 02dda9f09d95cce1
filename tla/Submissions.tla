---------------------------- MODULE Submissions ----------------------------
(***************************************************************************)
(* Submissions and the content-addressed blob store: ingest_and_store of   *)
(* backend/app/services/submissions.py, SubmissionRepository, BlobStore    *)
(* (storage/blobs.py) and load_fileset (ingestion/loader.py).              *)
(*                                                                         *)
(* What the ingestion returns is taken as given (module Ingestion has it): *)
(* a tree, the set of the <<path, content>> pairs of its files.  Two trees *)
(* have one fileset hash, and two contents one digest, when they are equal.*)
(***************************************************************************)
EXTENDS Api

CONSTANT Trees      \* the file sets that are submitted, some with a path twice

VARIABLES
    submission,     \* [tree, before]; before is history: the rows the lookup saw
    blob            \* content |-> "absent", "partial" or "whole"

svars == <<submission, blob>>

Contents == {f[2] : f \in UNION Trees}
ContentsOf(tree) == {f[2] : f \in tree}

\* Seeded fault: no lookup.
IngestLookup_Never(r, tree) ==
    /\ In(r, "waiting")
    /\ Await(r, [at |-> "writing", tree |-> tree, before |-> DOMAIN submission])
    /\ UNCHANGED svars

\* The ingestion is over, and get_by_fileset_hash answers: the row is reused, or
\* one is created.
IngestLookup(r, tree) ==
    /\ In(r, "waiting")
    /\ IF \E s \in DOMAIN submission : submission[s].tree = tree
       THEN Answer(r)
       ELSE Await(r, [at |-> "writing", tree |-> tree, before |-> DOMAIN submission])
    /\ UNCHANGED svars

\* The blobs that are not there yet are written.  No other handler runs meanwhile.
StoreBlobs(r) ==
    /\ In(r, "writing")
    /\ blob' = [c \in Contents |->
                   IF c \in ContentsOf(req[r].tree) /\ blob[c] = "absent" THEN "whole"
                   ELSE blob[c]]
    /\ Await(r, [at |-> "storing", tree |-> req[r].tree, before |-> req[r].before])
    /\ UNCHANGED submission

\* Seeded fault: the file is written in place.
Interrupted_InPlace(old) == IF old = "absent" THEN "partial" ELSE old

\* What a write that does not finish leaves of a blob: the bytes are in the
\* temporary file, which was not renamed.
Interrupted(old) == old

\* The process dies while r writes, with some contents done and one under way.
StoreBlobsCut(r) ==
    /\ In(r, "writing")
    /\ \E c \in ContentsOf(req[r].tree) :
           \E done \in SUBSET (ContentsOf(req[r].tree) \ {c}) :
               blob' = [x \in Contents |->
                           IF x \in done /\ blob[x] = "absent" THEN "whole"
                           ELSE IF x = c THEN Interrupted(blob[x])
                           ELSE blob[x]]

\* uq_submission_path.
PathsUnique(tree) == \A f, g \in tree : f[1] = g[1] => f = g

\* The row and those of its files, in one commit.
StoreSubmission(r) ==
    /\ In(r, "storing")
    /\ submission' = IF PathsUnique(req[r].tree)
                     THEN InsertRow(submission, r, [tree   |-> req[r].tree,
                                                    before |-> req[r].before])
                     ELSE submission
    /\ Answer(r)
    /\ UNCHANGED blob

\* load_fileset: what is read of a file whose blob is not there is "".
LoadFileset(s) ==
    {<<f[1], IF blob[f[2]] = "absent" THEN "" ELSE <<f[2], blob[f[2]]>> >> :
        f \in submission[s].tree}

-----------------------------------------------------------------------------
(* Correctness.                                                             *)

\* Every file of a stored submission is read back as it was submitted, whatever
\* was interrupted before and whoever wrote its blob: the engine, the verifier
\* and the viewer see the content that the fileset hash stands for.
LoadedIsStored ==
    \A s \in DOMAIN submission :
        LoadFileset(s) = {<<f[1], <<f[2], "whole">> >> : f \in submission[s].tree}

\* Two submissions have one content only when their ingestions overlapped: neither
\* lookup could see the other's row.
DuplicatesOverlap ==
    \A s, t \in DOMAIN submission :
        s # t /\ submission[s].tree = submission[t].tree =>
            s \notin submission[t].before /\ t \notin submission[s].before

=============================================================================
