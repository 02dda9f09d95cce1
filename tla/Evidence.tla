------------------------------ MODULE Evidence ------------------------------
(***************************************************************************)
(* The offline grader (backend/app/llm/fake.py), the schema of a judgment  *)
(* (engine/schemas.py) and the verification of its citations               *)
(* (engine/evidence.py).                                                   *)
(*                                                                         *)
(* A judgment is [verdict, score, evidence]: verdict and score are token   *)
(* sequences, evidence a sequence of [path, start, end, quote].            *)
(***************************************************************************)
EXTENDS FileSelection, JsonRecovery

CONSTANT MaxQuote       \* the 200 characters that the offline grader quotes
QuoteAssumption == MaxQuote \in Nat
ASSUME QuoteAssumption

Pass    == <<"pa", "ss">>
Partial == <<"pa", "rtial">>
Fail    == <<"fail">>

-----------------------------------------------------------------------------
(* FakeLLM.                                                                 *)

\* The line without the blanks around it, cut to the limit.
LineQuoted(line) == LET bare == Strip(line) IN SubSeq(bare, 1, AtMost(Len(bare), MaxQuote))

\* The first signal, the first file and the first line where it occurs.
FakeJudgment(prompt) ==
    LET text(h) == prompt.files[h[2]].content
        hits == {h \in (DOMAIN prompt.signals) \X (DOMAIN prompt.files) \X (1..FilesBudget) :
                     /\ h[3] <= LineCount(text(h))
                     /\ Contains(Extract(text(h), h[3], h[3]), prompt.signals[h[1]])}
        first == CHOOSE h \in hits : \A g \in hits :
                     \/ h[1] < g[1]
                     \/ h[1] = g[1] /\ h[2] < g[2]
                     \/ h[1] = g[1] /\ h[2] = g[2] /\ h[3] <= g[3]
    IN  IF hits = {} THEN [verdict |-> Fail, score |-> <<"2", "5">>, evidence |-> <<>>]
        ELSE [verdict  |-> Pass, score |-> <<"8", "5">>,
              evidence |-> <<[path |-> prompt.files[first[2]].path, start |-> first[3], end |-> first[3],
                              quote |-> LineQuoted(Extract(text(first), first[3], first[3]))]>>]

-----------------------------------------------------------------------------
(* CriterionJudgment and EvidenceItem: what a recovered object says, if it  *)
(* is valid.  Of a key that comes twice, the last counts.                   *)

HasKey(obj, key) == \E m \in ToSet(obj.val) : m.key = <<key>>
Get(obj, key)    == obj.val[SelectLastInSeq(obj.val, LAMBDA m : m.key = <<key>>)].of
Has(obj, key, kind)   == HasKey(obj, key) /\ Get(obj, key).kind = kind
HasNo(obj, key, kind) == HasKey(obj, key) => Get(obj, key).kind = kind

NumberOf(digits) ==
    FoldLeft(LAMBDA n, d : 10 * n + (CHOOSE k \in 0..9 : ToString(k) = d), 0, digits)

\* A path is one token of a text.
PathOf(tokens) == SelectSeq(PathOrder, LAMBDA p : <<ToString(p)>> = tokens)

ValidItem(v) ==
    /\ v.kind = "obj"
    /\ Has(v, "path", "str") /\ HasNo(v, "quote", "str")
    /\ \A key \in {"start_line", "end_line"} :
           Has(v, key, "num") /\ NumberOf(Get(v, key).val) >= 1

ValidJudgment(v) ==
    /\ Has(v, "verdict", "str") /\ Get(v, "verdict").val \in {Pass, Partial, Fail}
    /\ HasNo(v, "score", "num")
    /\ HasKey(v, "score") => NumberOf(Get(v, "score").val) <= 100
    /\ HasNo(v, "evidence", "arr")
    /\ HasKey(v, "evidence") => \A e \in ToSet(Get(v, "evidence").val) : ValidItem(e)

ItemOf(v) ==
    [path  |-> PathOf(Get(v, "path").val)[1],
     start |-> NumberOf(Get(v, "start_line").val),
     end   |-> NumberOf(Get(v, "end_line").val),
     quote |-> IF HasKey(v, "quote") THEN Get(v, "quote").val ELSE <<>>]

JudgmentOf(v) ==
    [verdict  |-> Get(v, "verdict").val,
     score    |-> IF HasKey(v, "score") THEN Get(v, "score").val ELSE <<>>,
     evidence |-> IF HasKey(v, "evidence")
                  THEN LET items == Get(v, "evidence").val IN
                       [k \in DOMAIN items |-> ItemOf(items[k])]
                  ELSE <<>>]

-----------------------------------------------------------------------------
(* verify_evidence.                                                         *)

\* Words are kept, and of the blanks between two words the first.
Kept(s) ==
    {k \in DOMAIN s :
        \/ s[k] \notin Spaces
        \/ /\ k > 1 /\ s[k - 1] \notin Spaces
           /\ \E j \in (k + 1)..Len(s) : s[j] \notin Spaces}

\* The words of a text with one blank between them.
Collapse(s) == Pick([k \in DOMAIN s |-> IF s[k] \in Spaces THEN " " ELSE s[k]], Kept(s))

Within(s, t) == \E k \in 0..(Len(t) - Len(s)) : SubSeq(t, k + 1, k + Len(s)) = s

\* The status of a citation e.
Verify(e, files) ==
    LET at      == SelectLastInSeq(files, LAMBDA f : f.path = e.path)
        text    == files[at].content
        quote   == Collapse(e.quote)
        snippet == Collapse(Extract(text, e.start, e.end))
    IN  IF at = 0 THEN "unverified_path"
        ELSE IF ~(1 <= e.start /\ e.start <= e.end /\ e.end <= LineCount(text)) THEN "unverified_lines"
        ELSE IF quote # <<>> /\ ~Within(quote, snippet) /\ ~Within(snippet, quote)
        THEN "unverified_quote"
        ELSE "verified"

=============================================================================
