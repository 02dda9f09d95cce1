--------------------------- MODULE FileSelection ---------------------------
(***************************************************************************)
(* Which files a criterion's prompt shows, and how much of each:           *)
(* backend/app/engine/file_selection.py and derive_signals and             *)
(* build_messages of engine/prompts.py.                                    *)
(*                                                                         *)
(* Paths and texts are those of Ingestion.  A term is a token; it occurs   *)
(* in a path or a text as one of its tokens (letter case left out).        *)
(* Scores are tenths.  A criterion is [ticked, words]: the terms between   *)
(* backticks and the words of its title and instructions.                  *)
(***************************************************************************)
EXTENDS Ingestion

CONSTANTS
    FilesBudget,    \* settings.grader_files_budget_chars
    PerFileCap,     \* settings.grader_per_file_chars
    MaxShown,       \* settings.grader_max_files
    MinRoom,        \* the 600 characters below which no other file is started
    MaxSignals,     \* the 12 terms that are kept
    ShortTerms      \* the terms of one character: they are no help

BudgetsAssumption == {FilesBudget, PerFileCap, MaxShown, MinRoom, MaxSignals} \subseteq Nat
ASSUME BudgetsAssumption

\* The members that the instances use of the tables of names.
SkipNames   == {<<"go", ".sum">>, <<".gitignore", "">>}
SkipExts    == {".lock", ".csv"}
EntryNames  == {<<"main", ".py">>, <<"app", ".py">>, <<"index", ".ts">>}
ReadmeNames == {<<"readme", ".md">>, <<"readme", "">>}
SourceExts  == {".py", ".ts"}
DocExts     == {".md"}
ConfigExts  == {".json", ".toml"}
TestStems   == {"test_util", "util_test", "conftest"}
TestDirs    == {"test", "tests", "__tests__"}
StopWords   == {"the", "has", "code", "file"}

\* The markers, as directories that follow each other; those with a slash in front
\* are not found at the root.
MigrationMarkers == {[dirs |-> <<"migrations">>, inner |-> FALSE],
                     [dirs |-> <<"migration">>, inner |-> TRUE],
                     [dirs |-> <<"alembic", "versions">>, inner |-> FALSE]}
LowMarkers == {[dirs |-> <<"migrations">>, inner |-> FALSE],
               [dirs |-> <<"migration">>, inner |-> TRUE],
               [dirs |-> <<"alembic", "versions">>, inner |-> FALSE],
               [dirs |-> <<"static">>, inner |-> TRUE],
               [dirs |-> <<"fixtures">>, inner |-> TRUE]}
SourceMarkers == {[dirs |-> <<"src">>, inner |-> FALSE], [dirs |-> <<"app">>, inner |-> FALSE]}

Marked(p, markers) ==
    \E m \in markers : \E k \in 0..(Len(Dirs(p)) - Len(m.dirs)) :
        /\ SubSeq(Dirs(p), k + 1, k + Len(m.dirs)) = m.dirs
        /\ m.inner => k > 0

-----------------------------------------------------------------------------
(* Relevance.                                                               *)

Classify(p) ==
    CASE FileName(p) \in SkipNames \/ Ext(p) \in SkipExts -> "skip"
      [] Marked(p, MigrationMarkers) -> "migration"
      [] ToSet(Dirs(p)) \intersect TestDirs # {} \/ p[Len(p) - 1] \in TestStems -> "test"
      [] FileName(p) \in EntryNames -> "entrypoint"
      [] Ext(p) \in SourceExts -> "source"
      [] Ext(p) \in DocExts -> "doc"
      [] Ext(p) \in ConfigExts -> "config"
      [] OTHER -> "other"

BaseScore == [entrypoint |-> 450, source |-> 220, test |-> 200, doc |-> 40,
              config |-> 30, migration |-> 5, other |-> 15]

When(condition, points) == IF condition THEN points ELSE 0
AtMost(n, bound) == IF n < bound THEN n ELSE bound

StructuralPrior(p) ==
    BaseScore[Classify(p)]
    + When(Classify(p) \in {"source", "entrypoint", "test"} /\ Marked(p, SourceMarkers), 80)
    - When(Marked(p, LowMarkers), 300)
    + When(FileName(p) \in ReadmeNames, 60)
    - AtMost(Len(Dirs(p)), 6) * 5

Occurrences(term, text) == Cardinality({k \in DOMAIN text : text[k] = term})

Helpful(signals) == ToSet(signals) \ ShortTerms

SignalScore(file, signals) ==
    SumFunction([t \in Helpful(signals) |-> When(Contains(file.path, t), 100)
                                            + AtMost(Occurrences(t, file.content), 6) * 14])

Score(file, signals) == StructuralPrior(file.path) + SignalScore(file, signals)

\* The path has a term of the criterion.
Named(file, signals) == \E t \in Helpful(signals) : Contains(file.path, t)

\* Seeded fault: the score alone decides.
Outranks_ByScore(f, g, signals) ==
    LET sf == Score(f, signals)  sg == Score(g, signals) IN
    sf > sg \/ (sf = sg /\ Before(f.path, g.path))

\* The sort key of the ranking.
Outranks(f, g, signals) ==
    LET nf == Named(f, signals)  sf == Score(f, signals)
        ng == Named(g, signals)  sg == Score(g, signals)
    IN  \/ nf /\ ~ng
        \/ nf = ng /\ sf > sg
        \/ nf = ng /\ sf = sg /\ Before(f.path, g.path)

Ranked(files, signals) ==
    LET all == {f \in ToSet(files) : Classify(f.path) # "skip"} IN
    InOrder(all, {fg \in all \X all : Outranks(fg[1], fg[2], signals)})

-----------------------------------------------------------------------------
(* Selection.                                                               *)

\* Seeded fault: the end of the file is shown.
HeadOf_Tail(content, cap) == SubSeq(content, Len(content) - cap + 1, Len(content))

LastNewline(text) == SelectLastInSeq(text, LAMBDA c : c = "\n")

\* _head: the first tokens, back to the last line end if that is past the half.
HeadOf(content, cap) ==
    LET cut == SubSeq(content, 1, cap)
        nl  == LastNewline(cut)
    IN  IF 2 * (nl - 1) > cap THEN SubSeq(cut, 1, nl - 1) ELSE cut

Capped(file) ==
    IF Len(file.content) > PerFileCap THEN HeadOf(file.content, PerFileCap) ELSE file.content

\* There is room for the next file, or for a part of it that is worth showing.
Room(file, used) == used + Len(Capped(file)) <= FilesBudget \/ FilesBudget - used >= MinRoom

Shown(file, used) ==
    IF used + Len(Capped(file)) <= FilesBudget THEN Capped(file)
    ELSE HeadOf(file.content, FilesBudget - used)

\* One round of the loop; the first file without room ends it.
ShowFile(acc, file) ==
    IF acc.over \/ Len(acc.chosen) >= MaxShown \/ ~Room(file, acc.used) THEN [acc EXCEPT !.over = TRUE]
    ELSE LET text == Shown(file, acc.used) IN
         [acc EXCEPT !.chosen = Append(@, [path |-> file.path, content |-> text]),
                     !.used = @ + Len(text)]

Select(files, signals) ==
    LET ranked == Ranked(files, signals)
        acc[n \in 0..Len(ranked)] ==
            IF n = 0 THEN [chosen |-> <<>>, used |-> 0, over |-> FALSE]
            ELSE ShowFile(acc[n - 1], ranked[n])
    IN  acc[Len(ranked)].chosen

-----------------------------------------------------------------------------
(* The prompt.                                                              *)

DeriveSignals(criterion) ==
    LET all   == criterion.ticked \o criterion.words
        first == {k \in DOMAIN all : all[k] \notin StopWords /\ \A j \in 1..(k - 1) : all[j] # all[k]}
        terms == Pick(all, first)
    IN  SubSeq(terms, 1, AtMost(Len(terms), MaxSignals))

\* The lines of a text are numbered from 1; a line end belongs to the line it ends.
LineCount(text) == Cardinality(Newlines(text)) + 1
LineAt(text, k) == Cardinality({j \in Newlines(text) : j < k}) + 1

\* Where line n starts, and where its end is.
LineStart(text, n) == Max({0} \union {k \in Newlines(text) : LineAt(text, k) < n}) + 1
LineEnd(text, n)   == Min({Len(text) + 1} \union {k \in Newlines(text) : LineAt(text, k) >= n})

\* The lines from a to b, joined by line ends.
Extract(text, a, b) == SubSeq(text, LineStart(text, a), LineEnd(text, b) - 1)

\* build_messages: the signals, and per file its path and the text whose lines are
\* numbered.
BuildMessages(criterion, files) ==
    LET signals == DeriveSignals(criterion) IN
    [signals |-> signals, files |-> Select(files, signals)]

=============================================================================
