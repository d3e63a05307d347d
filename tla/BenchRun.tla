------------------------------ MODULE BenchRun ------------------------------
(***************************************************************************)
(* ctxpack bench: runs of the benchmark, one after another, into one       *)
(* output directory, each with its own task file and settings.  For every  *)
(* task a pack is built, judged and written to packs/<slug>.md, and a      *)
(* summary of all tasks is written last.  A write may fail and leave a     *)
(* truncated file, and a run may be killed between any two steps.  The     *)
(* flag --baselines and an output directory are left at their defaults.    *)
(*                                                                         *)
(* What rank, budget and pack answer for a task is the constant Outcome    *)
(* (modules Ranking and PackBudget); patterns are matched by PathSpec.     *)
(***************************************************************************)
EXTENDS PathSpec, TaskFile, FiniteSets

CONSTANTS
  Invocations,       \* records of the lines of the task file, the values of the
                     \* flags budget and tests, and budget and tests (0 and
                     \* "unset" where it has none) of .ctxpack.yml
  Outcome(_, _, _),  \* of task text, budget and tests: the selected files, best
                     \* first, and the tokens of the pack
  Lexical(_),        \* of a task text: [path, tokens] of each file that scores
                     \* (one of its words, or a test), best first
  IndexedFiles,      \* [path, tokens] of the files of the index
  Slug(_),           \* the file name made of a task's name
  Runs               \* bound: how many runs there are

DefaultBudget == 12000
TopLimit == 15
Overhead == 24       \* tokens added for every file of a baseline

\* A list of files that cost something each, if only for their names.
IsCharged(s) == IsList(s) /\ \A k \in DOMAIN s : s[k].tokens \in Nat \ {0}

\* What the tasks of a file may have for their texts and their budgets.
TextsOf(lines) == {NoName} \cup {lines[k].value : k \in {k \in DOMAIN lines : lines[k].key = "task"}}
BudgetsOf(inv) ==
  {DefaultBudget, inv.budget, inv.cfgBudget} \cup {inv.lines[k].value : k \in BudgetLines(inv.lines)}

ASSUME InvocationsAssumption ==
  \A inv \in Invocations : IsFile(inv.lines) /\ inv.budget \in Int /\ inv.cfgBudget \in Int
ASSUME LexicalAssumption ==
  \A inv \in Invocations : \A text \in TextsOf(inv.lines) : IsCharged(Lexical(text))
ASSUME OutcomeAssumption ==
  \A inv \in Invocations :
    \A text \in TextsOf(inv.lines), budget \in BudgetsOf(inv), tests \in {inv.tests, inv.cfgTests} :
      IsList(Outcome(text, budget, tests).files)

VARIABLES pc, run, opt, tasks, results, packs, summary, exit
vars == <<pc, run, opt, tasks, results, packs, summary, exit>>

Truncated == [run |-> 0]

\* packs is a function from the files that there are to what they hold.
-----------------------------------------------------------------------------
(* runTask                                                                  *)

IsMatched(pattern, files) == \E k \in DOMAIN files : Match(pattern, files[k])

MissingExpected(task, files) == {p \in ToSet(task.expect) : ~IsMatched(p, files)}
AvoidHits(task, files) == {f \in ToSet(files) : MatchAny(task.avoid, f)}

\* The names of the bench's results; a task without a name is known by its text.
NameOf(task) == IF task.name = NoName THEN Slug(task.task) ELSE task.name

\* The file of a task's pack.
PackFile(task) == Slug(NameOf(task))

TaskBudget(task) ==
  CASE task.budget > 0     -> task.budget
    [] task.budget <= 0 /\ opt.cfgBudget > 0 -> opt.cfgBudget
    [] OTHER               -> IF opt.budget > 0 THEN opt.budget ELSE DefaultBudget

IncludeTests == IF opt.cfgTests = "unset" THEN opt.tests ELSE opt.cfgTests

Sum(s) ==
  LET total[n \in 0 .. Len(s)] == IF n = 0 THEN 0 ELSE total[n - 1] + s[n].tokens
  IN  total[Len(s)]

\* lexicalBudgetBaseline's loop: files are skipped while they do not fit, and
\* the first is taken whatever its size.
Take(before, f) == [files |-> Append(before.files, f), estimated |-> before.estimated + f.tokens]

MutantLexicalBudgetBaseline(task, budget) ==  \* stops at the first file that does not fit
  LET scored == Lexical(task.task)
      taken[n \in 0 .. Len(scored)] ==
        IF n = 0 THEN [files |-> <<>>, estimated |-> 0]
        ELSE LET before == taken[n - 1]
             IN  IF /\ Len(before.files) = n - 1
                    /\ n = 1 \/ before.estimated + scored[n].tokens <= budget
                 THEN Take(before, scored[n]) ELSE before
  IN  taken[Len(scored)]

LexicalBudgetBaseline(task, budget) ==
  LET scored == Lexical(task.task)
      taken[n \in 0 .. Len(scored)] ==
        IF n = 0 THEN [files |-> <<>>, estimated |-> 0]
        ELSE LET before == taken[n - 1]
             IN  IF /\ before.files # <<>>
                    /\ before.estimated + scored[n].tokens > budget \/ before.estimated >= budget
                 THEN before ELSE Take(before, scored[n])
  IN  taken[Len(scored)]

Judged(task, budget, files, tokens) ==
  tokens <= budget /\ MissingExpected(task, files) = {} /\ AvoidHits(task, files) = {}

\* compareBaselines: the full repository, the same with Markdown around it
\* (whose tokens are no fewer), and the lexical choice.
Baselines(task, budget) ==
  LET paths(s) == [k \in DOMAIN s |-> s[k].path]
      chosen   == LexicalBudgetBaseline(task, budget)
  IN  [full    |-> Judged(task, budget, paths(IndexedFiles),
                          Sum(IndexedFiles) + Overhead * Len(IndexedFiles)),
       files   |-> chosen.files,
       lexical |-> chosen.files # <<>> /\ Judged(task, budget, paths(chosen.files), chosen.estimated)]

MutantPassed(task, budget, files, tokens) ==  \* does not ask for the expected files
  files # <<>> /\ tokens <= budget /\ AvoidHits(task, files) = {}
Passed(task, budget, files, tokens) == files # <<>> /\ Judged(task, budget, files, tokens)

Result(task) ==
  LET budget == TaskBudget(task)
      out    == Outcome(task.task, budget, IncludeTests)
      top    == SubSeq(out.files, 1, IF Len(out.files) < TopLimit THEN Len(out.files) ELSE TopLimit)
  IN  [name |-> NameOf(task), task |-> task.task, budget |-> budget, tokens |-> out.tokens,
       top |-> top, passed |-> Passed(task, budget, top, out.tokens),
       baselines |-> Baselines(task, budget), output |-> PackFile(task)]

-----------------------------------------------------------------------------
(* bench.Run and runBench                                                   *)

Begin ==
  /\ pc = "idle" /\ run < Runs
  /\ run' = run + 1 /\ opt' \in Invocations
  /\ tasks' = <<>> /\ results' = <<>> /\ exit' = "none"
  /\ pc' = "parse"
  /\ UNCHANGED <<packs, summary>>

\* The command ends with an error, or is killed.
Fail ==
  /\ pc' = "idle" /\ exit' = "failed"
  /\ UNCHANGED <<run, opt, tasks, results>>

Parse ==
  /\ pc = "parse"
  /\ LET parsed == ParseTasks(opt.lines)
     IN  IF parsed.failed \/ parsed.tasks = <<>>
         THEN Fail /\ UNCHANGED <<packs, summary>>
         ELSE /\ tasks' = parsed.tasks /\ pc' = "tasks"
              /\ UNCHANGED <<run, opt, results, packs, summary, exit>>

\* runTask writes the pack before its result is kept; of an earlier file of that
\* name nothing stays.
PackOf(task) == [run |-> run, task |-> task.task]

WritePack(task, pack) ==
  packs' = [f \in DOMAIN packs \cup {PackFile(task)} |-> IF f = PackFile(task) THEN pack ELSE packs[f]]

MutantRunTask ==  \* a pack that cannot be written does not count
  /\ pc = "tasks" /\ Len(results) < Len(tasks)
  /\ LET task == tasks[Len(results) + 1]
     IN  /\ results' = Append(results, Result(task))
         /\ WritePack(task, PackOf(task)) \/ WritePack(task, Truncated)
  /\ UNCHANGED <<pc, run, opt, tasks, summary, exit>>

RunTask ==
  /\ pc = "tasks" /\ Len(results) < Len(tasks)
  /\ LET task == tasks[Len(results) + 1]
     IN  results' = Append(results, Result(task)) /\ WritePack(task, PackOf(task))
  /\ UNCHANGED <<pc, run, opt, tasks, summary, exit>>

\* The index, the configuration or the directories are not to be had, or the
\* process dies, also in the middle of a pack.
Abort ==
  /\ pc = "tasks"
  /\ \/ UNCHANGED packs
     \/ /\ Len(results) < Len(tasks)
        /\ WritePack(tasks[Len(results) + 1], Truncated)
  /\ Fail /\ UNCHANGED summary

WriteSummary ==
  /\ pc = "tasks" /\ Len(results) = Len(tasks)
  /\ summary' = [run |-> run, results |-> results]
  /\ pc' = "exit"
  /\ UNCHANGED <<run, opt, tasks, results, packs, exit>>

SummaryFails ==
  /\ pc = "tasks" /\ Len(results) = Len(tasks)
  /\ summary' = Truncated
  /\ Fail /\ UNCHANGED packs

Exit ==
  /\ pc = "exit"
  /\ exit' = IF \A k \in DOMAIN results : results[k].passed THEN "ok" ELSE "benchmark failed"
  /\ pc' = "idle"
  /\ UNCHANGED <<run, opt, tasks, results, packs, summary>>

Finished == pc = "idle" /\ run = Runs /\ UNCHANGED vars

Init ==
  /\ pc = "idle" /\ run = 0 /\ opt \in Invocations
  /\ tasks = <<>> /\ results = <<>> /\ exit = "none"
  /\ packs = [f \in {} |-> Truncated] /\ summary = Truncated

Next ==
  \/ Begin \/ Parse \/ RunTask \/ Abort \/ WriteSummary \/ SummaryFails \/ Exit \/ Finished

Spec == Init /\ [][Next]_vars

-----------------------------------------------------------------------------
(* Properties.                                                              *)

\* The criteria of docs/evals.md: the pack is under the budget, some file is
\* selected, every pattern of expect matches a selected file, and no selected
\* file matches one of avoid.
MeetsCriteria(task, files, tokens, budget) ==
  /\ tokens <= budget /\ files # <<>>
  /\ \A e \in task.expect : \E k \in DOMAIN files : Match(e, files[k])
  /\ \A a \in task.avoid : \A k \in DOMAIN files : ~Match(a, files[k])

\* A benchmark that runs to its end has a verdict for every task of its file.
\* A verdict is what the criteria say of the task as the file has it and of the
\* whole pack, whatever the order of the lines, as long as the pack shows no more
\* files than the verdict looks at; of a longer pack it only looks at the first
\* TopLimit.
VerdictsAreSound ==
  /\ pc = "idle" /\ exit \in {"ok", "benchmark failed"} =>
       Len(results) = Cardinality(Dashes(opt.lines))
  /\ \A d \in Dashes(opt.lines) : TaskNumber(opt.lines, d) \in DOMAIN results =>
       LET r       == results[TaskNumber(opt.lines, d)]
           written == AsWritten(opt.lines, d)
           out     == Outcome(written.task, r.budget, IncludeTests)
       IN  /\ r.name = NameOf(written) /\ r.task = written.task
           /\ written.budget > 0 => r.budget = written.budget
           /\ Len(out.files) <= TopLimit =>
                (r.passed <=> MeetsCriteria(written, out.files, out.tokens, r.budget))
           /\ r.passed => \A e \in written.expect : \E f \in ToSet(out.files) : Match(e, f)

\* A benchmark that exits with success has judged every task it read, and
\* its summary and all its packs are on disk, each the pack of its task, or of
\* a later task of the same run with the same file name.  Whatever a run did,
\* a summary is that of one whole run, and no pack it lists is older.
ArtifactsAreOfTheRun ==
  /\ pc = "idle" /\ exit \in {"ok", "benchmark failed"} =>
       /\ Len(results) = Len(tasks)
       /\ summary = [run |-> run, results |-> results]
       /\ exit = "ok" <=> \A k \in DOMAIN results : results[k].passed
       /\ \A j \in DOMAIN results :
            LET pack == packs[results[j].output]
            IN  /\ results[j].output \in DOMAIN packs /\ pack.run = run
                /\ \E k \in j .. Len(results) :
                     results[k].output = results[j].output /\ pack.task = results[k].task
  /\ summary # Truncated =>
       \A j \in DOMAIN summary.results :
         LET pack == packs[summary.results[j].output]
         IN  /\ summary.results[j].output \in DOMAIN packs
             /\ pack = Truncated \/ pack.run >= summary.run

\* The lexical baseline, which the packs are compared with, is a fair one: it
\* keeps to the budget, unless its first file alone does not, and leaves out no
\* file that would still fit.
BaselineIsFair ==
  \A j \in DOMAIN results :
    LET chosen == results[j].baselines.files
    IN  /\ Sum(chosen) <= results[j].budget \/ Len(chosen) = 1
        /\ \A f \in ToSet(Lexical(results[j].task)) \ ToSet(chosen) :
             Sum(chosen) + f.tokens > results[j].budget

=============================================================================
