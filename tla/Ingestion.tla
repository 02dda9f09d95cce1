----------------------------- MODULE Ingestion -----------------------------
(***************************************************************************)
(* From an uploaded archive or a clone to a normalized file set:           *)
(* backend/app/ingestion/normalize.py, zip.py and github.py.               *)
(*                                                                         *)
(* A path is the sequence of its directories, its stem and its extension.  *)
(* A text is a sequence of tokens, of which " " and "\n" are blank; a      *)
(* character of the code is a token here, so a length is a number of       *)
(* tokens.                                                                 *)
(*                                                                         *)
(* An item of a source is [path, kind, points, abs, text, crlf, nul]: abs  *)
(* says that its name starts with a slash, crlf that its lines end with    *)
(* two characters, nul that it has a NUL byte.  (Both slashes separate.)   *)
(* Its kind is "file", or "link" if it is a symbolic link, or "dead" if it *)
(* is one to a directory or to nothing.  The text of a link is what is     *)
(* read through it, and points is the path that it holds.                  *)
(***************************************************************************)
EXTENDS Integers, Sequences, SequencesExt, FiniteSets, TLC

CONSTANTS
    MaxFileSize,    \* settings.max_file_bytes
    MaxTotal,       \* settings.max_total_mb
    MaxFiles,       \* settings.max_file_count
    MaxClone,       \* _MAX_CLONE_BYTES
    PathOrder       \* all paths, in the order of their strings

LimitsAssumption == {MaxFileSize, MaxTotal, MaxFiles, MaxClone} \subseteq Nat
ASSUME LimitsAssumption

\* A path has at least a stem and an extension, and one place in the order.
Paths == ToSet(PathOrder)
PathsAssumption ==
    /\ PathOrder \in Seq(Seq(STRING))
    /\ \A k, l \in DOMAIN PathOrder : Len(PathOrder[k]) >= 2 /\ (PathOrder[k] = PathOrder[l] => k = l)
ASSUME PathsAssumption

Rejected == [files |-> <<>>, error |-> TRUE]    \* IngestionError

Blanks == {" ", "\n"}
Blank(text) == ToSet(text) \subseteq Blanks
Newlines(text) == {k \in DOMAIN text : text[k] = "\n"}

Dirs(p) == SubSeq(p, 1, Len(p) - 2)
FileName(p) == <<p[Len(p) - 1], p[Len(p)]>>
Ext(p) == p[Len(p)]
Before(p, q) == \E i, j \in DOMAIN PathOrder : i < j /\ PathOrder[i] = p /\ PathOrder[j] = q

\* The elements of a finite set in a strict order, which is a set of pairs.
InOrder(S, order) ==
    [n \in 1..Cardinality(S) |->
        CHOOSE x \in S : Cardinality({y \in S : <<y, x>> \in order}) = n - 1]

\* What a sequence has at the places of a set.
Pick(s, places) ==
    LET at == InOrder(places, {ij \in places \X places : ij[1] < ij[2]}) IN
    [n \in DOMAIN at |-> s[at[n]]]

\* len(data): a line end of the raw bytes may be two of them.
RawSize(item) ==
    Len(item.text) + (IF item.crlf THEN Cardinality(Newlines(item.text)) ELSE 0)

-----------------------------------------------------------------------------
(* normalize_items.                                                         *)

\* The members that the instances use of _EXCLUDE_DIR_PARTS, _EXCLUDE_NAMES, _BINARY_EXTS.
ExcludeDirs  == {".git", "node_modules", "build", "dist"}
ExcludeNames == {<<"yarn", ".lock">>, <<"package-lock", ".json">>}
BinaryExts   == {".png", ".svg", ".zip"}

\* should_exclude.
Excluded(p) ==
    \/ ToSet(Dirs(p)) \intersect ExcludeDirs # {}
    \/ FileName(p) \in ExcludeNames
    \/ Ext(p) \in BinaryExts

\* One round of the loop.  The line ends are normalized before the size counts.
TakeItem(acc, item) ==
    IF acc.error \/ Excluded(item.path) \/ RawSize(item) > MaxFileSize \/ item.nul \/ Blank(item.text)
    THEN acc
    ELSE IF acc.total + Len(item.text) > MaxTotal \/ Len(acc.files) >= MaxFiles
    THEN [acc EXCEPT !.error = TRUE]
    ELSE [acc EXCEPT !.total = @ + Len(item.text),
                     !.files = Append(@, [path |-> item.path, content |-> item.text])]

\* The loop: what is taken of the items.
Taken(items) ==
    LET acc[n \in 0..Len(items)] ==
            IF n = 0 THEN [files |-> <<>>, total |-> 0, error |-> FALSE]
            ELSE TakeItem(acc[n - 1], items[n])
    IN  acc[Len(items)]

\* Files of different paths in the order of their paths.
Sorted(files) ==
    InOrder(ToSet(files), {fg \in ToSet(files) \X ToSet(files) : Before(fg[1].path, fg[2].path)})

Normalize(items) ==
    LET taken == Taken(items) IN
    IF taken.error \/ taken.files = <<>> THEN Rejected
    ELSE [files |-> Sorted(taken.files), error |-> FALSE]

-----------------------------------------------------------------------------
(* ingest_zip.                                                              *)

\* _is_unsafe_member.
Unsafe(item) == item.abs \/ ".." \in ToSet(Dirs(item.path))

\* Seeded fault: folders are stripped as long as all names share one.
CommonRoot_Deep(items) ==
    LET common == LongestCommonPrefix({i.path : i \in ToSet(items)}) IN
    SubSeq(common, 1, Len(Dirs(items[1].path)))

\* _common_root: the top folder, if every name is under one and the same.
CommonRoot(items) ==
    IF \A i \in ToSet(items) : Dirs(i.path) # <<>> /\ i.path[1] = items[1].path[1]
    THEN <<items[1].path[1]>> ELSE <<>>

\* The size that the archive declares is that of the raw bytes.
ZipGuards(items) ==
    /\ Len(items) <= MaxFiles * 4
    /\ SumFunction([k \in DOMAIN items |-> RawSize(items[k])]) <= MaxTotal * 20

IngestZip(items) ==
    LET inside == Len(CommonRoot(items)) + 1 IN
    IF items = <<>> \/ (\E i \in ToSet(items) : Unsafe(i)) \/ ~ZipGuards(items) THEN Rejected
    ELSE Normalize([k \in DOMAIN items |->
                       [items[k] EXCEPT !.path = SubSeq(@, inside, Len(@))]])

-----------------------------------------------------------------------------
(* ingest_github.                                                           *)

InGitDir(item) == ".git" \in ToSet(Dirs(item.path))

\* What os.walk lists as a file, and getsize and open can follow: else there is an
\* OSError, and the entry is passed over.
Readable(item) == item.kind # "dead"

\* _walk, over the files of the clone in the order of the file system.
Walk(items) ==
    Pick(items, {k \in DOMAIN items : /\ ~InGitDir(items[k]) /\ Readable(items[k])
                                      /\ RawSize(items[k]) <= MaxFileSize})

\* _dir_size.
CloneSize(items) ==
    SumFunction([k \in {x \in DOMAIN items : ~InGitDir(items[x]) /\ Readable(items[x])}
                     |-> RawSize(items[k])])

IngestGithub(items) == IF CloneSize(items) > MaxClone THEN Rejected ELSE Normalize(Walk(items))

=============================================================================
