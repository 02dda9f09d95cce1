---------------------------- MODULE JsonRecovery ----------------------------
(***************************************************************************)
(* extract_json of backend/app/utils/json_recovery.py, and of json.loads   *)
(* what it needs: objects, arrays, strings and numbers.                    *)
(*                                                                         *)
(* A text is a sequence of tokens.  Brackets, commas, colons, double       *)
(* quotes, backslashes, blanks and digits are tokens of their own; what    *)
(* else there is, is a word.  A value is [kind, val]: a "str" has its      *)
(* tokens, a "num" its digits, an "arr" its items, and an "obj" its        *)
(* members as a sequence of [key, of], key being tokens too.               *)
(***************************************************************************)
EXTENDS Integers, Sequences, SequencesExt

Digits == {"0", "1", "2", "3", "4", "5", "6", "7", "8", "9"}
Spaces == {" ", "\n"}
Fence  == "fence"      \* the three backticks

\* The first token at i or later that is not blank.
Solid(s, i) == SelectInSubSeq(s, i, Len(s), LAMBDA c : c \notin Spaces)

RStrip(s) == SubSeq(s, 1, SelectLastInSeq(s, LAMBDA c : c \notin Spaces))
Strip(s)  == IF Solid(s, 1) = 0 THEN <<>> ELSE RStrip(SubSeq(s, Solid(s, 1), Len(s)))

-----------------------------------------------------------------------------
(* json.loads.  A parse is [ok, val, next]: the value that starts at a      *)
(* place, and the place after it.                                           *)

NoParse == [ok |-> FALSE, val |-> <<>>, next |-> 0]
Parsed(kind, val, next) == [ok |-> TRUE, val |-> [kind |-> kind, val |-> val], next |-> next]

Is(s, i, c) == i > 0 /\ i <= Len(s) /\ s[i] = c

\* The string whose first token is at start; a newline has to be escaped.
StringFrom(s, start) ==
    LET from[i \in start..(Len(s) + 1)] ==
            LET escape == Is(s, i, "\\")
                token  == IF ~escape THEN s[i] ELSE IF s[i + 1] = "n" THEN "\n" ELSE s[i + 1]
                rest   == from[i + (IF escape THEN 2 ELSE 1)]
            IN  CASE i > Len(s) \/ Is(s, i, "\n") -> NoParse
                  [] Is(s, i, "\"") -> Parsed("str", <<>>, i + 1)
                  [] escape /\ ~\E c \in {"n", "\"", "\\"} : Is(s, i + 1, c) -> NoParse
                  [] OTHER -> IF rest.ok THEN Parsed("str", <<token>> \o rest.val.val, rest.next)
                              ELSE NoParse
    IN  from[start]

NumberFrom(s, i) ==
    LET past == SelectInSubSeq(Append(s, "end"), i, Len(s) + 1, LAMBDA c : c \notin Digits) IN
    Parsed("num", SubSeq(s, i, past - 1), past)

\* The value that starts at a place, or the items or members of one from there on.
ValueFrom(s, start) ==
    LET parse[what \in {"value", "items", "members"}, i \in 0..(Len(s) + 1)] ==
            LET inner == Solid(s, i + 1)
                key   == IF Is(s, i, "\"") THEN StringFrom(s, i + 1) ELSE NoParse
                colon == Solid(s, key.next)
                first == IF what = "items" THEN parse["value", i]
                         ELSE IF key.ok /\ Is(s, colon, ":") THEN parse["value", Solid(s, colon + 1)]
                         ELSE NoParse
                item  == IF what = "items" THEN first.val ELSE [key |-> key.val.val, of |-> first.val]
                after == Solid(s, first.next)
                rest  == parse[what, Solid(s, after + 1)]
                kind  == IF what = "items" THEN "arr" ELSE "obj"
                close == IF what = "items" THEN "]" ELSE "}"
            IN  IF what = "value"
                THEN CASE Is(s, i, "{") -> IF Is(s, inner, "}") THEN Parsed("obj", <<>>, inner + 1)
                                           ELSE parse["members", inner]
                       [] Is(s, i, "[") -> IF Is(s, inner, "]") THEN Parsed("arr", <<>>, inner + 1)
                                           ELSE parse["items", inner]
                       [] Is(s, i, "\"") -> key
                       [] \E d \in Digits : Is(s, i, d) -> NumberFrom(s, i)
                       [] OTHER -> NoParse
                ELSE CASE first.ok /\ Is(s, after, close) -> Parsed(kind, <<item>>, after + 1)
                       [] first.ok /\ Is(s, after, ",") /\ rest.ok ->
                              Parsed(kind, <<item>> \o rest.val.val, rest.next)
                       [] OTHER -> NoParse
    IN  parse["value", start]

\* One value and nothing after it.
Loads(s) ==
    LET p == ValueFrom(s, Solid(s, 1)) IN
    IF p.ok /\ Solid(s, p.next) = 0 THEN p ELSE NoParse

-----------------------------------------------------------------------------
(* The repairs of _fix_json_string.                                        *)

\* Each token is replaced by the tokens that F says.
Rewrite(s, F(_)) == FlattenSeq([i \in DOMAIN s |-> F(i)])

Previous(s, i) == SelectLastInSubSeq(s, 1, i - 1, LAMBDA c : c \notin Spaces)

\* A comma and the blanks after it go when close comes next.
DropCommas(s, close) ==
    LET Goes(i) == /\ s[i] = "," \/ (s[i] \in Spaces /\ Is(s, Previous(s, i), ","))
                   /\ Is(s, Solid(s, i + 1), close)
    IN  Rewrite(s, LAMBDA i : IF Goes(i) THEN <<>> ELSE <<s[i]>>)

\* A comma replaces the blanks between close and a double quote.
InsertCommas(s, close) ==
    LET Between(i) == s[i] \in Spaces /\ Is(s, Solid(s, i), "\"") /\ Is(s, Previous(s, i), close)
        Missing(i) == s[i] = close /\ Is(s, Solid(s, i + 1), "\"")
    IN  Rewrite(s, LAMBDA i : IF Between(i) THEN <<>>
                              ELSE IF Missing(i) THEN <<close, ",">> ELSE <<s[i]>>)

\* Seeded fault: missing commas only.
Fixed_MissingOnly(s) == InsertCommas(InsertCommas(s, "}"), "]")

Fixed(s) == InsertCommas(InsertCommas(DropCommas(DropCommas(s, "}"), "]"), "}"), "]")

-----------------------------------------------------------------------------
(* The strategies: the texts that each tries, in order.                     *)

Direct(text) ==
    LET s == Strip(text) IN
    IF Is(s, 1, "{") /\ Is(s, Len(s), "}") THEN <<s>> ELSE <<>>

\* The texts between fences, the first with the word if one is given.
Fenced(s, word) ==
    LET from[i \in 1..(Len(s) + 1)] ==
            LET open  == SelectInSubSeq([k \in DOMAIN s |-> k], i, Len(s), LAMBDA k :
                             s[k] = Fence /\ (word = <<>> \/ (k < Len(s) /\ <<s[k + 1]>> = word)))
                close == SelectInSubSeq(s, open + 1, Len(s), LAMBDA c : c = Fence)
            IN  IF open = 0 \/ close = 0 THEN <<>>
                ELSE <<Strip(SubSeq(s, open + 1 + Len(word), close - 1))>> \o from[close + 1]
    IN  from[1]

FromMarkdown(text) ==
    LET objects == SelectSeq(Fenced(text, <<"json">>) \o Fenced(text, <<>>),
                             LAMBDA s : Is(s, 1, "{"))
    IN  FlattenSeq([k \in DOMAIN objects |-> <<objects[k], Fixed(objects[k])>>])

\* From the first brace to the last, as it is and fixed.
FromBoundaries(text) ==
    LET start == SelectInSeq(text, LAMBDA c : c = "{")
        end   == SelectLastInSeq(text, LAMBDA c : c = "}")
        s     == SubSeq(text, start, end)
    IN  IF start = 0 \/ end <= start THEN <<>> ELSE <<s, Fixed(s)>>

\* One round of the loop of _balanced.
Scan(acc, c) ==
    IF acc.inString
    THEN CASE acc.escaped -> [acc EXCEPT !.escaped = FALSE]
           [] ~acc.escaped /\ c = "\\" -> [acc EXCEPT !.escaped = TRUE]
           [] ~acc.escaped /\ c = "\"" -> [acc EXCEPT !.inString = FALSE]
           [] OTHER -> acc
    ELSE CASE c = "\"" -> [acc EXCEPT !.inString = TRUE]
           [] c = "{"  -> [acc EXCEPT !.closers = <<"}">> \o @]
           [] c = "["  -> [acc EXCEPT !.closers = <<"]">> \o @]
           [] c \in {"}", "]"} /\ Is(acc.closers, 1, c) -> [acc EXCEPT !.closers = Tail(@)]
           [] OTHER -> acc

\* Seeded fault: only the innermost bracket is closed.
Closers_Innermost(scan) == IF scan.closers = <<>> THEN <<>> ELSE <<Head(scan.closers)>>

Closers(scan) == scan.closers

\* A cut text is closed: its string, and its brackets from the inside out.
Balanced(text) ==
    LET start == SelectInSeq(text, LAMBDA c : c = "{")
        s     == SubSeq(text, start, Len(text))
        scan  == FoldLeft(Scan, [inString |-> FALSE, escaped |-> FALSE, closers |-> <<>>], s)
        body  == RStrip(IF scan.inString THEN Append(s, "\"") ELSE s)
        bare  == IF Is(body, Len(body), ",") THEN Front(body) ELSE body
        whole == bare \o Closers(scan)
    IN  IF start = 0 THEN <<>> ELSE <<whole, Fixed(whole)>>

\* extract_json: the first text that json.loads takes.
ExtractJson(text) ==
    FoldLeft(LAMBDA found, s : IF found.ok THEN found ELSE Loads(s), NoParse,
             Direct(text) \o FromMarkdown(text) \o FromBoundaries(text) \o Balanced(text))

=============================================================================
