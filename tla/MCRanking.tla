----------------------------- MODULE MCRanking -----------------------------
(***************************************************************************)
(* Every import graph on three Go files with every combination of scores;  *)
(* and five files of each other language, whose names are ambiguous.       *)
(***************************************************************************)
EXTENDS Ranking

Other == [lang |-> "other", stem |-> <<"x">>, package |-> <<>>, declares |-> {}, imports |-> {}]
File(lang, stem, package, declares, imports) ==
  [lang |-> lang, stem |-> stem, package |-> package, declares |-> declares, imports |-> imports]
Named(name)       == [kind |-> "name", name |-> name, up |-> 0]
Star(name)        == [kind |-> "package", name |-> name, up |-> 0]
Relative(up, name) == [kind |-> "relative", name |-> name, up |-> up]

S == "/"

\* A file of package "a" imports "m/b", and so on.
Dirs == << <<"a">>, <<"b">>, <<"c">> >>
GoFile(f, graph_) ==
  File("go", Dirs[f] \o <<S, "f">>, Dirs[f], {}, {Named(<<"m", S>> \o Dirs[g]) : g \in graph_[f]})
GoIndex(graph_) == [f \in Files |-> IF f \in 1 .. 3 THEN GoFile(f, graph_) ELSE Other]

\* The tests near a file are file 3 or none, and a test is near itself.
Nearby == {n \in [Files -> {{}, {3}}] : n[3] = {3} /\ n[4] = {} /\ n[5] = {}}
Scores == {o \in [Files -> {0, 1000, 2400, 12000}] : o[4] = 0 /\ o[5] = 0}

GoCases ==
  [index : {GoIndex(g) : g \in {g \in [1 .. 3 -> SUBSET (1 .. 3)] : \A f \in 1 .. 3 : f \notin g[f]}},
   own : Scores, nearby : Nearby]

\* A directory's name that ends like another's.
SuffixIndex ==
  <<File("go", <<"mypay", S, "a">>, <<"mypay">>, {}, {Named(<<"m", S, "pay">>)}),
    File("go", <<"my", "pay", S, "a">>, <<"mypay">>, {}, {Named(<<"m", S, "my", "pay">>)}),
    File("go", <<"pay", S, "a">>, <<"pay">>, {}, {}),
    File("go", <<"pay", S, "b">>, <<"pay">>, {}, {Named(<<"m", S, "pay">>)}),
    File("go", <<"x">>, <<"main">>, {}, {Named(<<"m", S, "pay">>)})>>

\* Packages "p" in x and "p/q" in y, both of which have a module "p/q/a".
TSImports ==
  {Named(<<"p", S, "q", S, "a">>), Named(<<"p">>), Named(<<"p", S, "q">>), Named(<<"y", S, "src", S, "a">>),
   Named(<<"x">>), Relative(0, <<"index">>), Relative(0, <<>>), Relative(1, <<"y", S, "src", S, "a">>),
   Relative(2, <<"y", S, "src", S, "a">>), Relative(1, <<"x", S, "q", S, "a">>), Named(<<"p", S, "q", S, "src", S, "a">>)}
TSIndex(imports) ==
  <<File("ts", <<"x", S, "index">>, <<>>, {}, imports),
    File("json", <<"x", S, "package">>, <<>>, {<<"p">>}, {}),
    File("ts", <<"x", S, "q", S, "a">>, <<>>, {}, {}),
    File("json", <<"y", S, "package">>, <<>>, {<<"p", S, "q">>}, {}),
    File("ts", <<"y", S, "src", S, "a">>, <<>>, {}, {Relative(2, <<"x">>)})>>

JavaIndex(imports) ==
  <<File("java", <<"A">>, <<"p">>, {<<"A">>, <<"C">>}, imports), File("java", <<"B">>, <<"p">>, {<<"B">>}, {}),
    File("java", <<"C">>, <<"p">>, {<<"C">>}, {Star(<<"p">>)}),
    File("java", <<"D">>, <<>>, {<<"D">>}, imports), Other>>

PomIndex(imports) ==
  <<File("pom", <<"a", S, "pom">>, <<>>, {<<"g", "a">>}, imports),
    File("pom", <<"b", S, "pom">>, <<>>, {<<"h", "a">>}, {Named(<<"g", "a">>), Named(<<"a">>)}),
    File("pom", <<"c", S, "pom">>, <<>>, {<<"c">>}, imports), Other, Other>>

Pairs(set) == {{a, b} : a \in set, b \in set}
OtherCases ==
  [index : {SuffixIndex} \cup {TSIndex(i) : i \in Pairs(TSImports)}
           \cup {JavaIndex(i) : i \in Pairs({Named(<<"p", ".", "C">>), Named(<<"p", ".", "B">>), Star(<<"p">>)})}
           \cup {PomIndex(i) : i \in Pairs({Named(<<"a">>), Named(<<"h", "a">>), Named(<<"c">>)})},
   own : {<<2400, 0, 1000, 0, 1000>>}, nearby : {<<{}, {}, {3}, {}, {}>>}]

MCCases == GoCases \cup OtherCases

=============================================================================
