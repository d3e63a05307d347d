------------------------------ MODULE DiffRun ------------------------------
(***************************************************************************)
(* cli.runDiff: the commands "ctxpack diff" and "ctxpack ci", run one      *)
(* after another in one repository.                                        *)
(*                                                                         *)
(* A run settles its settings from flags, .ctxpack.yml and defaults, reads *)
(* the changed files, selects and fits a pack, evaluates the checks, and   *)
(* writes a JSON summary and the Markdown pack, in that order.  Every step *)
(* may fail, and the process may die at any point; os.WriteFile truncates  *)
(* a file before it writes it.                                             *)
(*                                                                         *)
(* The summary is reduced to what the checks read of it.  All runs write   *)
(* to the same paths: the pack under .ctxpack, and the summary, if any, to *)
(* reports/ctxpack-diff-summary.json.                                      *)
(***************************************************************************)
EXTENDS Integers, FiniteSets, Functions

CONSTANTS
  Absent,        \* no such flag, no such key
  Requests,      \* command lines: [ci, stdout, flags]
  Configs,       \* contents of .ctxpack.yml: [valid, budget, ci]
  ReportsIgnored,\* whether .gitignore covers reports/
  MaxRuns,       \* bound on the number of runs
  MaxFaults      \* bound on failed writes, failed commands and deaths

Checks == {"over-budget", "omitted-changed", "missing-tests", "forbidden-paths"}

\* The value of --forbid may be empty, name no patterns although it is not empty
\* (as "," does), or name some.
ForbidValues == {"empty", "commas", "patterns"}
FailOnValues == SUBSET (Checks \cup {"all", "typo"})
Budgets == {8000, 9000, 12000}

\* A summary path is reduced to whether it is empty.
SettingsType ==
  [budget : Budgets, summary : BOOLEAN, failOn : FailOnValues, forbid : ForbidValues]
FlagsType ==
  [budget : Budgets \cup {Absent}, summary : BOOLEAN \cup {Absent},
   failOn : FailOnValues \cup {Absent}, forbid : ForbidValues \cup {Absent}]

\* An empty value in the ci section counts as no value.
CIType ==
  [budget : Budgets \cup {Absent}, summary : {TRUE, Absent},
   failOn : (FailOnValues \ {{}}) \cup {Absent}, forbid : {"patterns", Absent}]
ConfigType == [valid : BOOLEAN, budget : Budgets \cup {Absent}, ci : CIType]

ASSUME AbsentAssumption ==
  /\ Absent \notin Budgets /\ Absent \notin BOOLEAN /\ Absent \notin ForbidValues
  /\ \A v \in FailOnValues : Absent # v
ASSUME RequestsAssumption ==
  Requests # {} /\ Requests \subseteq [ci : BOOLEAN, stdout : BOOLEAN, flags : FlagsType]
ASSUME ConfigsAssumption == Configs # {} /\ Configs \subseteq ConfigType
ASSUME BoundsAssumption == MaxRuns \in Nat /\ MaxFaults \in Nat /\ ReportsIgnored \in BOOLEAN

\* What a summary tells the checks.
FactsType == [over : BOOLEAN, omitted : BOOLEAN, tests : BOOLEAN, forbiddenHit : BOOLEAN]

NoSummary == [run |-> 0, passed |-> FALSE]
Torn(n) == [run |-> -n, passed |-> FALSE]

VARIABLES
  userChanges,  \* whether the repository differs from the base
  config,       \* .ctxpack.yml
  request,      \* the command line of the latest run
  run,          \* its number
  pc,           \* what it does next
  settings,     \* what it decided on
  facts,        \* its summary
  results,      \* the checks it evaluated, name -> passed
  outcome,      \* "running", "ok", "checks failed", "error" or "died"
  summaryFile,  \* the summary on disk: the run that wrote it, its verdict
  packFile,     \* the run that wrote the pack on disk; -n if run n only truncated it
  faults

world == <<userChanges, config>>
artifacts == <<summaryFile, packFile>>
vars == <<userChanges, config, request, run, pc, settings, facts, results, outcome,
          summaryFile, packFile, faults>>
-----------------------------------------------------------------------------
(* Settings.                                                                *)

DiffDefault == [budget |-> 12000, summary |-> FALSE, failOn |-> {}, forbid |-> "empty"]
CIDefault   == [budget |-> 12000, summary |-> TRUE, failOn |-> {"all"}, forbid |-> "empty"]
Default(ci) == IF ci THEN CIDefault ELSE DiffDefault

\* A flag, or else the ci section of the configuration (for ctxpack ci, and
\* where it names something), or else the default.
Given(field) ==
  LET flag == request.flags[field]
      own  == config.ci[field]
  IN IF flag # Absent THEN flag
     ELSE IF request.ci /\ own # Absent THEN own
     ELSE Default(request.ci)[field]

MutantBudget ==  \* the flag is only recognised by its value
  LET b == Given("budget") IN IF b = 12000 /\ config.budget # Absent THEN config.budget ELSE b

\* The top-level budget of the file replaces a budget that looks like the default.
Budget ==
  LET b == Given("budget")
  IN IF request.flags.budget = Absent /\ b = 12000 /\ config.budget # Absent
     THEN config.budget ELSE b
-----------------------------------------------------------------------------
(* Checks.                                                                  *)

MutantParseDiffCheckNames(failOn, forbid) ==  \* "all" leaves forbidden paths out
  (failOn \cap Checks)
  \cup IF "all" \in failOn THEN Checks \ {"forbidden-paths"} ELSE {}

ParseDiffCheckNames(failOn, forbid) ==
  (failOn \cap Checks)
  \cup IF "all" \in failOn
       THEN Checks \ (IF forbid = "empty" THEN {"forbidden-paths"} ELSE {}) ELSE {}

Enabled == ParseDiffCheckNames(settings.failOn, settings.forbid)

\* An unknown name, or the check of forbidden paths without any pattern.
ChecksUnusable ==
  \/ "typo" \in settings.failOn
  \/ "forbidden-paths" \in Enabled /\ settings.forbid # "patterns"

CheckPasses(name) ==
  CASE name = "over-budget"     -> ~facts.over
    [] name = "omitted-changed" -> ~facts.omitted
    [] name = "missing-tests"   -> facts.tests
    [] name = "forbidden-paths" -> ~facts.forbiddenHit

Passed == \A name \in DOMAIN results : results[name]
-----------------------------------------------------------------------------
(* A run.                                                                   *)

Exit(how) == pc' = "idle" /\ outcome' = how

Start ==
  /\ pc = "idle" /\ run < MaxRuns
  /\ run' = run + 1
  /\ request' \in Requests
  /\ config' \in Configs
  /\ userChanges' \in BOOLEAN
  /\ pc' = "settings"
  /\ outcome' = "running"
  /\ results' = [name \in {} |-> FALSE]
  /\ UNCHANGED <<settings, facts, artifacts, faults>>

\* The index is built and saved before the configuration is read; a failure of
\* either ends the run alike.
SettleSettings ==
  /\ pc = "settings" /\ config.valid
  /\ settings' = [budget |-> Budget, summary |-> Given("summary"), failOn |-> Given("failOn"),
                  forbid |-> Given("forbid")]
  /\ pc' = "changes"
  /\ UNCHANGED <<world, request, run, facts, results, outcome, artifacts, faults>>

ConfigInvalid ==
  /\ pc = "settings" /\ ~config.valid
  /\ Exit("error")
  /\ UNCHANGED <<world, request, run, settings, facts, results, artifacts, faults>>

\* The summary of an earlier run is an untracked file like any other; only paths
\* under .ctxpack are recognised as ctxpack's own.
OwnSummaryChanged == summaryFile.run # 0 /\ ~ReportsIgnored

NoChanges ==
  /\ pc = "changes" /\ ~userChanges /\ ~OwnSummaryChanged
  /\ Exit("error")
  /\ UNCHANGED <<world, request, run, settings, facts, results, artifacts, faults>>

\* Select and FitToBudget: a pack over its budget shows no file at all.
FitPack ==
  /\ pc = "changes" /\ (userChanges \/ OwnSummaryChanged)
  /\ facts' \in FactsType
  /\ facts'.over => facts'.omitted /\ ~facts'.tests
  /\ pc' = "checks"
  /\ UNCHANGED <<world, request, run, settings, results, outcome, artifacts, faults>>

MutantChecksAbort ==  \* a failed check ends the run at once
  /\ pc = "checks" /\ \/ ChecksUnusable
                      \/ \E name \in Enabled : ~CheckPasses(name)
  /\ Exit(IF ChecksUnusable THEN "error" ELSE "checks failed")
  /\ UNCHANGED <<world, request, run, settings, facts, results, artifacts, faults>>

ChecksAbort ==
  /\ pc = "checks" /\ ChecksUnusable
  /\ Exit("error")
  /\ UNCHANGED <<world, request, run, settings, facts, results, artifacts, faults>>

EvaluateDiffChecks ==
  /\ pc = "checks" /\ ~ChecksUnusable
  /\ results' = [name \in Enabled |-> CheckPasses(name)]
  /\ pc' = IF settings.summary THEN "summary" ELSE "pack"
  /\ UNCHANGED <<world, request, run, settings, facts, outcome, artifacts, faults>>

TruncateSummary ==
  /\ pc = "summary"
  /\ summaryFile' = Torn(run)
  /\ pc' = "summary data"
  /\ UNCHANGED <<world, request, run, settings, facts, results, outcome, packFile, faults>>

MutantWriteDiffSummaryJSON ==  \* written before the results are applied
  /\ pc = "summary data"
  /\ summaryFile' = [run |-> run, passed |-> TRUE]
  /\ pc' = "pack"
  /\ UNCHANGED <<world, request, run, settings, facts, results, outcome, packFile, faults>>

WriteDiffSummaryJSON ==
  /\ pc = "summary data"
  /\ summaryFile' = [run |-> run, passed |-> Passed]
  /\ pc' = "pack"
  /\ UNCHANGED <<world, request, run, settings, facts, results, outcome, packFile, faults>>

Verdict == IF Passed THEN "ok" ELSE "checks failed"

\* --stdout: the pack is printed and no file is written.
PrintPack ==
  /\ pc = "pack" /\ request.stdout
  /\ Exit(Verdict)
  /\ UNCHANGED <<world, request, run, settings, facts, results, artifacts, faults>>

TruncatePack ==
  /\ pc = "pack" /\ ~request.stdout
  /\ packFile' = -run
  /\ pc' = "pack data"
  /\ UNCHANGED <<world, request, run, settings, facts, results, outcome, summaryFile, faults>>

WritePack ==
  /\ pc = "pack data"
  /\ packFile' = run
  /\ Exit(Verdict)
  /\ UNCHANGED <<world, request, run, settings, facts, results, summaryFile, faults>>

\* Any step may return an error, and the process may die.
Fault ==
  /\ pc # "idle" /\ faults < MaxFaults
  /\ faults' = faults + 1
  /\ Exit("error") \/ Exit("died")
  /\ UNCHANGED <<world, request, run, settings, facts, results, artifacts>>
-----------------------------------------------------------------------------
Init ==
  /\ userChanges = FALSE
  /\ config = CHOOSE c \in Configs : TRUE
  /\ request = CHOOSE r \in Requests : TRUE
  /\ run = 0
  /\ pc = "idle"
  /\ settings = DiffDefault
  /\ facts = [over |-> FALSE, omitted |-> FALSE, tests |-> FALSE, forbiddenHit |-> FALSE]
  /\ results = [name \in {} |-> FALSE]
  /\ outcome = "ok"
  /\ summaryFile = NoSummary /\ packFile = 0
  /\ faults = 0

Step ==
  \/ SettleSettings \/ ConfigInvalid \/ NoChanges \/ FitPack \/ ChecksAbort
  \/ EvaluateDiffChecks \/ TruncateSummary \/ WriteDiffSummaryJSON
  \/ PrintPack \/ TruncatePack \/ WritePack

Next == Start \/ Step \/ Fault

Spec == Init /\ [][Next]_vars
-----------------------------------------------------------------------------
(* Properties.                                                              *)

Outcomes == {"running", "ok", "checks failed", "error", "died"}

TypeOK ==
  /\ userChanges \in BOOLEAN
  /\ config \in Configs /\ request \in Requests
  /\ run \in 0 .. MaxRuns /\ faults \in 0 .. MaxFaults
  /\ settings \in SettingsType /\ facts \in FactsType
  /\ DOMAIN results \subseteq Checks /\ Range(results) \subseteq BOOLEAN
  /\ outcome \in Outcomes /\ (outcome = "running" <=> pc # "idle")
  /\ pc \in {"idle", "settings", "changes", "checks", "summary", "summary data", "pack",
              "pack data"}
  /\ pc \in {"summary", "summary data"} => settings.summary
  /\ pc = "pack data" => ~request.stdout
  /\ summaryFile \in [run : -run .. run, passed : BOOLEAN] /\ packFile \in -run .. run

Verdicts == {"ok", "checks failed"}

\* README.md: "Artifacts are written before failure so CI can upload them."  A
\* run that exits with a verdict, whatever failed or died before it, has left
\* its own summary and its own pack, complete, and the summary says what the
\* exit code says.
ExitMatchesArtifacts ==
  run > 0 /\ outcome \in Verdicts =>
    /\ settings.summary => summaryFile = [run |-> run, passed |-> outcome = "ok"]
    /\ ~request.stdout  => packFile = run

\* A run that exits with code 0 evaluated every check that its settings ask for
\* and all of them hold of its summary; "all" asks for forbidden paths too, if
\* there are patterns.
Asked ==
  settings.failOn \cup
    (IF "all" \notin settings.failOn THEN {}
     ELSE Checks \ (IF settings.forbid = "patterns" THEN {} ELSE {"forbidden-paths"}))

Holds ==
  {"all"} \cup (IF facts.over THEN {} ELSE {"over-budget"})
          \cup (IF facts.omitted THEN {} ELSE {"omitted-changed"})
          \cup (IF facts.tests THEN {"missing-tests"} ELSE {})
          \cup (IF facts.forbiddenHit THEN {} ELSE {"forbidden-paths"})

OkMeansAsked == run > 0 /\ outcome = "ok" => Asked \subseteq Holds

\* The pack is written last: once a run has begun to write its pack, whatever
\* fails or dies then, its summary is on disk, complete, and gives the verdict
\* of the checks asked for.
PackHasItsSummary ==
  run > 0 /\ packFile \in {run, -run} /\ settings.summary =>
    summaryFile = [run |-> run, passed |-> Asked \subseteq Holds]

\* README.md: "Command-line flags override config values."  From the moment the
\* settings are settled, each one that the command line gives is what it gives,
\* even a budget of 12000, which is the default too.
FlagsWin ==
  pc \notin {"idle", "settings"} =>
    \A field \in DOMAIN settings :
      request.flags[field] # Absent => settings[field] = request.flags[field]

=============================================================================
