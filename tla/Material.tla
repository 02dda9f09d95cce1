------------------------------ MODULE Material ------------------------------
(***************************************************************************)
(* What is graded, from the upload to the verified citation, for one       *)
(* criterion: the files are ingested, some are shown in a prompt, a grader *)
(* answers, the answer is damaged on its way and recovered, and what it    *)
(* cites is looked up.  (Queues, retries and decisions are in the other    *)
(* modules.)                                                               *)
(***************************************************************************)
EXTENDS Answers

CONSTANTS
    Repos,          \* working trees: sets of items of different paths
    Crafted,        \* sets of items that only an archive can hold
    Wrapper,        \* the folder that an archive of a repository has on top
    Criteria

\* The items of a source have different paths; those that are left when its top
\* folder is stripped are paths, too.  A working tree has no paths that lead out of it.
SourcesAssumption ==
    \A r \in Repos \union Crafted :
        /\ IsFiniteSet(r)
        /\ r \subseteq [path : Paths, kind : {"file", "link", "dead"}, points : Seq(STRING),
                        abs : BOOLEAN, text : Seq(STRING), crlf : BOOLEAN, nul : BOOLEAN]
        /\ \A i, j \in r : i.path = j.path => i = j
        /\ \A i \in r : /\ Dirs(i.path) # <<>> => Tail(i.path) \in Paths
                        /\ r \in Repos => ~Unsafe(i)
ASSUME SourcesAssumption

TermsAssumption ==
    /\ Wrapper \in STRING /\ Wrapper # ".."
    /\ Criteria \subseteq [ticked : Seq(STRING), words : Seq(STRING)]
ASSUME TermsAssumption

VARIABLES
    stage,
    repo,           \* the working tree
    source,         \* "clone", "archive" (with the wrapper) or "zip" (without)
    files,          \* the file set, sorted by path
    prompt,
    judgment,       \* what the grader meant
    message,        \* [kind, text]: what arrives of it
    received,       \* what is made of it: [ok, judgment]
    statuses        \* of its citations

vars == <<stage, repo, source, files, prompt, judgment, message, received, statuses>>

Nothing == [ok |-> FALSE, judgment |-> <<>>]

Init ==
    /\ stage = "new" /\ repo = {} /\ source = "clone" /\ files = Rejected /\ prompt = <<>>
    /\ judgment = <<>> /\ message = <<>> /\ received = Nothing /\ statuses = <<>>

Wrapped(item) == [item EXCEPT !.path = <<Wrapper>> \o @]

\* An archive holds of a link, dead or not, the path that it holds, and ingest_zip
\* reads that as the content of a file.
Archived(item) ==
    IF item.kind = "file" THEN item
    ELSE [item EXCEPT !.kind = "file", !.text = item.points, !.crlf = FALSE, !.nul = FALSE]

ItemsOf(order, from) ==
    LET archived == [k \in DOMAIN order |-> Archived(order[k])] IN
    IF from = "archive" THEN [k \in DOMAIN archived |-> Wrapped(archived[k])] ELSE archived

\* The items of a source come in any order.
Ingest ==
    /\ stage = "new"
    /\ \E r \in Repos \union Crafted :
           \E order \in SetToSeqs(r), from \in {"clone", "archive", "zip"} :
           /\ r \in Crafted => from = "zip"
           /\ repo' = r /\ source' = from
           /\ files' = IF from = "clone" THEN IngestGithub(order) ELSE IngestZip(ItemsOf(order, from))
    /\ stage' = IF files'.error THEN "rejected" ELSE "stored"
    /\ UNCHANGED <<prompt, judgment, message, received, statuses>>

\* What has done its service is forgotten, here the tree.
Show ==
    /\ stage = "stored"
    /\ \E c \in Criteria : prompt' = BuildMessages(c, files.files)
    /\ stage' = "shown" /\ repo' = {} /\ source' = "clone"
    /\ UNCHANGED <<files, judgment, message, received, statuses>>

\* FakeLLM answers with an object.
AnswerFake ==
    /\ stage = "shown"
    /\ judgment' = FakeJudgment(prompt)
    /\ received' = [ok |-> TRUE, judgment |-> judgment']
    /\ stage' = "received"
    /\ UNCHANGED <<repo, source, files, prompt, message, statuses>>

\* A model answers with no citation or a few, of what it was shown, and this
\* arrives whole or damaged.
AnswerModel ==
    /\ stage = "shown"
    /\ \E model \in Models :
           LET citable == UNION {Citations(file, model.lines) : file \in ToSet(prompt.files)} IN
           \E verdict \in Verdicts, evidence \in BoundedSeq(citable, model.most), order \in Orders :
               /\ judgment' = [verdict |-> verdict, score |-> <<"8", "5">>, evidence |-> evidence]
               /\ message' \in Mangled(Render(judgment', order), model.damages)
    /\ stage' = "sent" /\ prompt' = <<>>
    /\ UNCHANGED <<repo, source, files, received, statuses>>

\* An answer that is not recovered, or is not valid, is asked for again.
Receive ==
    /\ stage = "sent"
    /\ LET parse == ExtractJson(message.text) IN
           received' = IF parse.ok /\ ValidJudgment(parse.val)
                       THEN [ok |-> TRUE, judgment |-> JudgmentOf(parse.val)] ELSE Nothing
    /\ stage' = IF received'.ok THEN "received" ELSE "unreadable"
    /\ UNCHANGED <<repo, source, files, prompt, judgment, message, statuses>>

VerifyAll ==
    /\ stage = "received"
    /\ LET cited == received.judgment.evidence IN
           statuses' = [k \in DOMAIN cited |-> Verify(cited[k], files.files)]
    /\ stage' = "verified"
    /\ UNCHANGED <<repo, source, files, prompt, judgment, message, received>>

Next == Ingest \/ Show \/ AnswerFake \/ AnswerModel \/ Receive \/ VerifyAll

Spec == Init /\ [][Next]_vars

-----------------------------------------------------------------------------
(* Correctness.                                                             *)

\* The file set of a working tree is that of its clone, its files in any order; unless
\* a limit on the source as such, not on the files that are kept, turns one of the
\* sources away.
OneTreeOneFileSet ==
    LET walk == SetToSeq(repo) IN
    /\ stage \in {"stored", "rejected"} /\ repo \in Repos
    /\ CloneSize(walk) <= MaxClone /\ ZipGuards(ItemsOf(walk, "zip"))
    => files = IngestGithub(walk)

\* A repository has one file set, and so one fileset hash and one idempotent
\* submission, in whatever order its files come, each time it is cloned, and when it
\* is uploaded as the archive its host makes of it, if its symbolic links are all at
\* places that are not kept.  (The archive of a link that is kept has other content.)
LinksOutside(r) == \A i \in r : i.kind = "file" \/ Excluded(i.path)
SourceIrrelevant ==
    source = "clone" \/ (source = "archive" /\ LinksOutside(repo)) => OneTreeOneFileSet

\* The files whose path has a term of the criterion are shown before all others,
\* and none of them is left out for one of the others; what is shown keeps to
\* the budgets.
NamedFilesLead ==
    stage = "shown" =>
        LET shown    == prompt.files
            paths    == {f.path : f \in ToSet(shown)}
            named(p) == \E t \in ToSet(prompt.signals) : t \notin ShortTerms /\ Contains(p, t)
        IN  /\ \A k, l \in DOMAIN shown : k < l /\ named(shown[l].path) => named(shown[k].path)
            /\ \A f \in ToSet(files.files) :
                   named(f.path) /\ Classify(f.path) # "skip" /\ f.path \notin paths =>
                       \A p \in paths : named(p)
            /\ Len(shown) <= MaxShown
            /\ SumFunction([k \in DOMAIN shown |-> Len(shown[k].content)]) <= FilesBudget

\* A grader that quotes the lines it was shown is never accused of making them up:
\* the line numbers of the prompt are those of the stored file although the file is
\* cut, and other blanks do not matter.
HonestVerified ==
    stage = "verified" /\ received.judgment.evidence = judgment.evidence =>
        \A k \in DOMAIN statuses : statuses[k] = "verified"

\* A repair inserts or drops commas in strings, too, if brackets are in them.
Fragile(quote) == ToSet(quote) \intersect {"}", "]"} # {}

\* Prose and fences around an answer, a comma too many before a closing bracket and
\* one too few before the next key lose nothing of it; and with a comma too few at
\* another place nothing else is made of it.
ManglingUndone ==
    /\ stage \in {"received", "unreadable", "verified"} /\ message # <<>> /\ message.kind # "cut"
    /\ message.kind = "whole" \/ \A k \in DOMAIN judgment.evidence : ~Fragile(judgment.evidence[k].quote)
    => \/ received = [ok |-> TRUE, judgment |-> judgment]
       \/ message.kind = "lost" /\ ~received.ok

\* A citation that was the last before the cut: it misses the end of its quote, or all
\* of the quote and the last digits of its end line.
CutCitation(e, of) ==
    /\ e.path = of.path /\ e.start = of.start
    /\ \/ e.end = of.end /\ IsPrefix(e.quote, of.quote)
       \/ e.quote = <<>> /\ IsPrefix(Number(e.end), Number(of.end))

\* Of an answer that was cut short one value at most is not as it was said, the one at
\* the cut: the verdict is that of the answer, the citations are its first ones, and of
\* these all but the last are whole, and the last, too, if the score comes after them
\* and is the one that misses its end.  And an answer cut in its last quote is not lost.
SalvageOnlyCuts ==
    stage \in {"received", "unreadable"} /\ message # <<>> /\ message.kind = "cut" =>
        LET kept == received.judgment
            told == judgment.evidence
            n    == Len(kept.evidence)
            last == told[Len(told)].quote
            inQuote == told # <<>> /\ \E k \in 0..Len(Escaped(last)) :
                           /\ IsSuffix(Member("quote", <<"\"">> \o SubSeq(Escaped(last), 1, k)), message.text)
                           /\ Contains(message.text, "verdict")
                           /\ Cardinality({x \in DOMAIN message.text : message.text[x] = "quote"}) = Len(told)
        IN  /\ received.ok =>
                   /\ kept.verdict = judgment.verdict /\ n <= Len(told)
                   /\ \A k \in 1..(n - 1) : kept.evidence[k] = told[k]
                   /\ n > 0 => CutCitation(kept.evidence[n], told[n])
                   /\ \/ kept.score = judgment.score
                      \/ IsPrefix(kept.score, judgment.score) /\ kept.evidence \in {<<>>, told}
            /\ inQuote /\ message.text[Len(message.text)] # "\\" => received.ok

=============================================================================
