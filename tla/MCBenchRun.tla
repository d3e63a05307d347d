----------------------------- MODULE MCBenchRun -----------------------------
(***************************************************************************)
(* Two runs over task files with fields in any order, two names for one    *)
(* file, mistakes, packs of more than 15 files, and budgets from all four  *)
(* places.  "S" stands for "services", "t" for "_test".                    *)
(***************************************************************************)
EXTENDS BenchRun

Pay == <<"S", "/", "pay">>          PayTest == <<"S", "/", "pay", "t">>
Auth == <<"auth", "/", "login">>    Doc == <<"readme">>
Other(n) == <<"lib", "/", <<"f", n>>>>

MCIndexedFiles ==
  LET file(path, tokens) == [path |-> path, tokens |-> tokens]
  IN  <<file(Auth, 200), file(Pay, 36), file(PayTest, 26), file(Doc, 12)>>
        \o [n \in 1 .. 14 |-> file(Other(n), 26)]

MCLexical(task) ==
  CASE task = "retry" -> <<[path |-> Auth, tokens |-> 224], [path |-> Pay, tokens |-> 60],
                           [path |-> PayTest, tokens |-> 50], [path |-> Doc, tokens |-> 36]>>
    [] task = "login" -> <<[path |-> Pay, tokens |-> 60], [path |-> Auth, tokens |-> 224],
                           [path |-> Doc, tokens |-> 36]>>
    [] OTHER          -> <<>>

MCOutcome(task, budget, tests) ==
  CASE task = "retry" -> [files  |-> IF tests = "on" THEN <<Pay, PayTest>> ELSE <<Pay>>,
                          tokens |-> IF budget < 90 THEN 95 ELSE 90]
    [] task = "login" -> [files |-> <<Pay, Auth>>, tokens |-> 100]
    [] task = "all"   -> [files |-> <<Pay>> \o [n \in 1 .. 14 |-> Other(n)] \o <<PayTest, Auth>>,
                          tokens |-> 100]
    [] OTHER          -> [files |-> <<>>, tokens |-> 30]

MCSlug(name) ==
  CASE name \in {"Pay", "pay!"} -> "pay" [] name = "retry" -> "retry" [] name = "all" -> "all"
    [] name = "login" -> "login" [] OTHER -> "task"

Line(k, key, value) == [kind |-> k, key |-> key, value |-> value]
Dash(key, value)  == Line("dash", key, value)
Field(key, value) == Line("field", key, value)
Items(s) == [k \in DOMAIN s |-> Line("item", "", s[k])]
List(key, s) == <<Line("heading", key, "")>> \o Items(s)

Services == <<"S", "/", "*", "*">>
Everywhere == <<"*", "*", "t">>

TaskLists ==
  { \* two names for one file, and lists before and behind the fields
    <<Line("blank", "", ""), Dash("name", "Pay"), Field("task", "retry")>>
      \o List("expect", <<Services, Everywhere>>) \o List("avoid", <<<<"auth", "/">>>>)
      \o <<Dash("name", "pay!"), Field("budget", 95)>> \o List("avoid", <<<<"auth", "/">>>>)
      \o <<Field("task", "login")>>,
    \* nothing but texts
    <<Dash("task", "login")>> \o List("expect", <<Doc>>) \o <<Dash("task", "all")>>
      \o List("avoid", <<Auth>>) \o List("expect", <<<<"S", "/", "*">>>>),
    \* a later budget counts; a file behind the fifteenth
    <<Dash("name", "all"), Field("task", "all"), Field("budget", 10), Field("budget", 300)>>
      \o List("expect", <<PayTest>>),
    <<Dash("task", "unknown")>>,
    \* refused
    <<Field("task", "retry")>>,
    <<Dash("name", "Pay"), Field("task", "retry")>> \o Items(<<Pay>>),
    <<Dash("task", "retry")>> \o List("expect", <<Pay>>) \o <<Field("budget", 500)>> \o Items(<<Auth>>),
    <<Dash("task", "retry")>> \o List("note", <<Pay>>),
    <<Dash("task", "retry"), Dash("url", "x")>>,
    <<Dash("task", "retry"), Line("junk", "", "")>>,
    <<Line("heading", "expect", "")>>,
    Items(<<Pay>>),
    <<>> }

MCInvocations ==
  [lines : TaskLists, budget : {0, 98}, tests : {"on"}, cfgBudget : {0, 80}, cfgTests : {"unset", "off"}]

MCRuns == 2

=============================================================================
