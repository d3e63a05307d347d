--------------------------- MODULE MCPackCommand ---------------------------
(***************************************************************************)
(* Two processes, three commands in all: tasks of which two share a file,  *)
(* with packs of different lengths, and options before, between and behind *)
(* the words.                                                              *)
(***************************************************************************)
EXTENDS PackCommand

CONSTANTS P1, P2

W(text) == Word(text)
Fix == W("fix")      Pay == W("pay")      Loud == W("pay!")      Nine == W("9000")

\* Tasks of any words have the file of "fix", and a short pack; those of "pay"
\* and of "pay!" share one.
MCFileOf(task) ==
  CASE task \in {<<Pay>>, <<Loud>>} -> "pay" [] OTHER -> "fix"
MCSections(task) ==
  CASE task = <<Pay>> -> <<"Files to read first", "Important symbols", "Budget decisions">>
    [] OTHER          -> <<"Files to read first", "Budget decisions">>

Orders(seqs) == {FlattenSeq(p) : p \in UNION {SetToSeqs(s) : s \in seqs}}

\* Every order of a task's words and of options with their values, alone or in
\* one argument.
AllPackArgs ==
  Orders({ {<<Pay>>}, {<<Loud>>}, {<<W("")>>},
           {<<Pay>>, <<Option("budget"), Nine>>},
           {<<Fix>>, <<Pay>>, <<Option("stdout")>>, <<OptionIs("budget", Nine)>>},
           {<<Fix>>, <<Option("include-tests")>>, <<Option("output"), W("docs/x.md")>>},
           {<<Fix>>, <<OptionIs("include-tests", W("false"))>>, <<Option("format"), W("claude")>>},
           {<<Fix>>, <<Option("output"), W("pay")>>, <<Option("format"), W("json")>>},
           {<<Pay>>, <<Option("budget"), W("many")>>, <<Option("stdout")>>},
           {<<Pay>>, <<Option("budget"), Nine>>, <<OptionIs("budget", W("12"))>>} })
  \cup { <<Fix, Dashes, Pay>>, <<Dashes, Pay>>, <<Option("stdout"), Dashes>>,
         <<Fix, Dashes, Option("budget")>>, <<Dashes, Option("stdout"), Pay>>,
         <<Fix, Pay, Option("output")>>, <<Pay, Option("verbose"), Fix>> }

\* All of them for the first command, a few for those that run with it.
MCPackArgs(n) ==
  IF n = 1 THEN AllPackArgs
  ELSE {<<Pay>>, <<Loud>>, <<Fix>>, <<Fix, Option("output"), W("pay")>>}

MCExplainArgs ==
  {<<>>, <<W("fix")>>, <<Option("repo"), W("/r")>>, <<W("pay"), Option("repo"), W("/r")>>,
   <<Option("latest")>>}

MCNumbers == (Nine :> 9000) @@ (W("12") :> 12)

MCProcs == {P1, P2}
Symmetry == Permutations(MCProcs)

=============================================================================
