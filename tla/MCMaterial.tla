----------------------------- MODULE MCMaterial -----------------------------
(* Small working trees, with a file of every role, files that are not      *)
(* kept, and contents that are hard to quote.                              *)
EXTENDS Material

Main   == <<"src", "main", ".py">>
Util   == <<"src", "util", ".py">>
Test   == <<"tests", "test_util", ".py">>
Readme == <<"readme", ".md">>
Schema == <<"src", "migrations", "retry", ".py">>
Asset  == <<"app", "static", "index", ".ts">>
Conf   == <<"conf", ".json">>
Built  == <<"build", "main", ".py">>
Git    == <<".git", "config", "">>
Logo   == <<"logo", ".png">>
Top    == <<"main", ".py">>
Ignore == <<".gitignore", "">>

Above  == <<"..", "util", ".py">>

\* With what is left of a path when its top folder is stripped.
MCPathOrder ==
    <<Above, Git, Ignore, Asset, Built, Conf, Tail(Git), Logo, Top, Tail(Schema), Readme, Main,
      Schema, Util, Tail(Asset), Tail(Test), Test, Tail(Util)>>

Item(p, text) ==
    [path |-> p, kind |-> "file", points |-> <<>>, abs |-> FALSE, text |-> text, crlf |-> FALSE, nul |-> FALSE]
Link(p, text) == [Item(p, text) EXCEPT !.kind = "link", !.points = <<"util">>]
Dead(p) == [Item(p, <<>>) EXCEPT !.kind = "dead", !.points = <<"gone">>]

Code   == <<"def", " ", "retry", "\n", " ", "x", "=", "\"", "}", "\"", "\n", "retry", " ", "\\">>
Prose  == <<"the", " ", " ", "util", "\n", "\n", "x">>
Long   == <<"\n", "util", "a", ",", " ", "}", "\n", "b", "\n", "c", "\n", "d", "\n", "e", "\n", "f", "\n", "g">>
\* Line numbers of two digits, backslashes, brackets, double quotes and commas.
Tall == <<"\n", "\n", "\n", "\n", "\n", "\n", "\n", "\n", "\n", "{", "\"", "}", "\n", ",", " ", " ", "\\">>
Narrow == <<"a", "b", "c", "d", "e", "f", "\n", "g", "h", "i", "j">>

MCRepos == {
    {Item(Main, Code), Item(Util, Prose), [Item(Readme, Prose) EXCEPT !.crlf = TRUE]},
    {Item(Schema, <<"retry">>), Item(Main, Prose), Item(Test, <<"x">>)},
    {Item(Util, Long), Item(Asset, Narrow), Item(Conf, <<"{", "x", "}">>)},
    {Item(Main, Code), Item(Built, Code), Item(Git, Long), [Item(Logo, <<"x">>) EXCEPT !.nul = TRUE]},
    {Item(Main, Code), Item(Util, <<" ", "\n">>)},
    {Item(Main, Long), Item(Util, Long), Item(Test, Long)},
    {Item(Main, <<"x">>), Item(Util, <<"x">>), Item(Test, <<"x">>), Item(Readme, <<"x">>), Item(Conf, <<"x">>)},
    {[Item(Main, Long) EXCEPT !.crlf = TRUE], Item(Test, Prose), [Item(Conf, <<"x">>) EXCEPT !.nul = TRUE]},
    {Item(Main, Code), Link(Built, Prose), Dead(Logo)},
    {Item(Main, Code), Link(Util, Prose), Dead(Conf)},
    {Item(Git, Long), Item(Logo, <<"x">>), Item(Ignore, <<"x">>)},
    {Item(Main, Tall)}}

MCCrafted == {
    {Item(Main, Code), [Item(Util, Prose) EXCEPT !.path = Above]},
    {Item(Main, Code), [Item(Util, Prose) EXCEPT !.abs = TRUE]}}

MCCriteria == {
    [ticked |-> <<"retry">>, words |-> <<"has", "retry">>],
    [ticked |-> <<"x">>, words |-> <<"the", "readme", "util">>],
    [ticked |-> <<>>, words |-> <<"src", "g">>]}

\* One that cites any line once, and two whose answers may be damaged.
AnyDamage == {"whole", "comma", "lost", "cut"}
MCModels == {
    [lines |-> 1..9,  most |-> 1, damages |-> {"whole"}],
    [lines |-> {10},  most |-> 1, damages |-> AnyDamage],
    [lines |-> {11},  most |-> 2, damages |-> AnyDamage]}
MCVerdicts == {Partial}
MCOrders == {<<"verdict", "score", "evidence">>, <<"evidence", "verdict", "score">>}
=============================================================================
