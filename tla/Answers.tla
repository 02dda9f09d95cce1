------------------------------ MODULE Answers ------------------------------
(***************************************************************************)
(* The answers of models, which are outside of the program: what they cite *)
(* of a prompt, how a judgment is written (the prompt of engine/prompts.py *)
(* asks for its members) and what may become of the text before            *)
(* extract_json reads it.                                                  *)
(***************************************************************************)
EXTENDS Evidence

CONSTANTS
    Verdicts,       \* of the models
    Models,         \* [lines, most, damages]: the lines that a model cites, how many
                    \* places at most, and what may become of its answers
    Orders          \* the orders in which the members may come

\* A model cites two lines or one of a file that it was shown, as they are or with
\* other blanks.
Citations(file, cited) ==
    LET lines == cited \intersect 1..LineCount(file.content)
        text(ab) == Extract(file.content, ab[1], ab[2])
    IN  UNION {{[path |-> file.path, start |-> ab[1], end |-> ab[2], quote |-> quote] :
                    quote \in {text(ab), Collapse(text(ab))}} :
               ab \in {cd \in lines \X lines : cd[1] <= cd[2] /\ cd[2] <= cd[1] + 1}}

Escaped(s) ==
    Rewrite(s, LAMBDA i : CASE s[i] = "\n" -> <<"\\", "n">>
                            [] s[i] \in {"\"", "\\"} -> <<"\\", s[i]>>
                            [] OTHER -> <<s[i]>>)
Quoted(s)  == <<"\"">> \o Escaped(s) \o <<"\"">>
Number(n)  == IF n < 10 THEN <<ToString(n)>> ELSE <<ToString(n \div 10), ToString(n % 10)>>
Member(key, text) == Quoted(<<key>>) \o <<":">> \o text

Listed(open, texts, close) ==
    <<open>> \o FlattenSeq([k \in DOMAIN texts |-> (IF k = 1 THEN <<>> ELSE <<",">>) \o texts[k]])
             \o <<close>>

RenderItem(e) ==
    Listed("{", <<Member("path", Quoted(<<ToString(e.path)>>)), Member("start_line", Number(e.start)),
                  Member("end_line", Number(e.end)), Member("quote", Quoted(e.quote))>>, "}")

RenderPart(j, key) ==
    Member(key, CASE key = "verdict"  -> Quoted(j.verdict)
                  [] key = "score"    -> j.score
                  [] key = "evidence" -> Listed("[", [k \in DOMAIN j.evidence |-> RenderItem(j.evidence[k])], "]"))

Render(j, order) == Listed("{", [k \in DOMAIN order |-> RenderPart(j, order[k])], "}")

-----------------------------------------------------------------------------
(* What may become of it.                                                   *)

\* The places outside of strings that have one of the tokens.
Outside(text, tokens) ==
    {k \in DOMAIN text :
        /\ text[k] \in tokens
        /\ ~FoldLeft(Scan, [inString |-> FALSE, escaped |-> FALSE, closers |-> <<>>],
                     SubSeq(text, 1, k)).inString}

Without(text, k) == SubSeq(text, 1, k - 1) \o SubSeq(text, k + 1, Len(text))

\* A comma between a closed bracket and the next key.
BeforeKey(text, k) == text[k - 1] \in {"}", "]"} /\ Is(text, k + 1, "\"")

\* "whole": prose or a fence is around it; "comma": it has a comma more before a
\* bracket that closes, or one less before the next key; "lost": it has one less
\* at another place; "cut": a limit on the output has cut it.
Damaged(text, kind) ==
    CASE kind = "whole" ->
             {text, <<"Sure", " ">> \o text \o <<"\n", "done">>,
              <<Fence, "json", "\n">> \o text \o <<"\n", Fence>>, <<Fence>> \o text \o <<Fence>>}
      [] kind = "comma" ->
             {SubSeq(text, 1, k - 1) \o <<",", " ">> \o SubSeq(text, k, Len(text)) :
                  k \in Outside(text, {"}", "]"})}
             \union {Without(text, k) : k \in {i \in Outside(text, {","}) : BeforeKey(text, i)}}
      [] kind = "lost" -> {Without(text, k) : k \in {i \in Outside(text, {","}) : ~BeforeKey(text, i)}}
      [] kind = "cut" -> {SubSeq(text, 1, k) : k \in 1..(Len(text) - 1)}

Mangled(text, damages) == UNION {[kind : {kind}, text : Damaged(text, kind)] : kind \in damages}

=============================================================================
