-------------------------- MODULE DiffRun_proofs --------------------------
(***************************************************************************)
(* What ctxpack diff and ctxpack ci guarantee for any command lines and    *)
(* configurations, any number of runs, and failures and deaths anywhere;   *)
(* and what the parser of .ctxpack.yml, from which they take their         *)
(* settings, makes of a file of any length (module ConfigFile).            *)
(***************************************************************************)
EXTENDS DiffRun, ConfigFile, SequenceTheorems, TLAPS

-----------------------------------------------------------------------------
(* The inductive invariant.                                                 *)

Evaluated == {"summary", "summary data", "pack", "pack data"}

\* What a run knows of its checks once it has evaluated them.
ChecksKnown ==
  pc \in Evaluated => ~ChecksUnusable /\ results = [name \in Enabled |-> CheckPasses(name)]

\* A run that has not begun to write its pack finds on disk that of an earlier one.
PackIsOld ==
  pc \in {"settings", "changes", "checks", "summary", "summary data", "pack"} =>
    packFile \in -(run - 1) .. run - 1

\* A run is on its way only if there is one, and its pack begins truncated.
Underway ==
  /\ pc # "idle" => run > 0
  /\ pc = "pack data" => packFile = -run

\* The summary, if one is asked for, is there when the pack's turn comes.
SummaryFirst ==
  pc \in {"pack", "pack data"} /\ settings.summary => summaryFile = [run |-> run, passed |-> Passed]

IInv ==
  /\ TypeOK
  /\ ChecksKnown
  /\ PackIsOld
  /\ Underway
  /\ SummaryFirst
  /\ FlagsWin
  /\ ExitMatchesArtifacts
  /\ PackHasItsSummary
  /\ OkMeansAsked
-----------------------------------------------------------------------------
(* Facts about the operators.                                               *)

\* A run finds a command line and a configuration of the types assumed.
LEMMA InputTypes ==
  ASSUME TypeOK
  PROVE  /\ request.ci \in BOOLEAN /\ request.stdout \in BOOLEAN
         /\ request.flags \in FlagsType
         /\ config.budget \in Budgets \cup {Absent} /\ config.ci \in CIType
BY RequestsAssumption, ConfigsAssumption DEF TypeOK, ConfigType

\* Whichever source a setting comes from, it is of the setting's type; and a
\* flag that is given decides it.
LEMMA SettingsFacts ==
  ASSUME TypeOK
  PROVE  /\ Budget \in Budgets
         /\ Given("summary") \in BOOLEAN
         /\ Given("failOn") \in FailOnValues
         /\ Given("forbid") \in ForbidValues
         /\ request.flags.budget # Absent => Budget = request.flags.budget
         /\ \A field \in {"summary", "failOn", "forbid"} :
              request.flags[field] # Absent => Given(field) = request.flags[field]
<1> DEFINE flag == request.flags.budget
           own  == config.ci.budget
<1>0. flag \in Budgets \cup {Absent} /\ own \in Budgets \cup {Absent} /\ 12000 \in Budgets
  <2>1. flag \in Budgets \cup {Absent}
    BY InputTypes DEF FlagsType
  <2>2. own \in Budgets \cup {Absent}
    BY InputTypes DEF CIType
  <2>3. 12000 \in Budgets
    BY DEF Budgets
  <2> QED BY <2>1, <2>2, <2>3
<1>1. Given("budget") \in Budgets
  <2>1. Given("budget") = IF flag # Absent THEN flag
                          ELSE IF request.ci /\ own # Absent THEN own ELSE 12000
    BY DEF Given, Default, CIDefault, DiffDefault
  <2> HIDE DEF flag, own
  <2> QED BY <1>0, <2>1
<1>2. Budget \in Budgets
  BY <1>1, InputTypes DEF Budget
<1>3. Given("summary") \in BOOLEAN
  <2>1. request.flags.summary \in BOOLEAN \cup {Absent}
    BY InputTypes DEF FlagsType
  <2>2. config.ci.summary \in {TRUE, Absent}
    BY InputTypes DEF CIType
  <2>3. Default(request.ci).summary \in BOOLEAN
    BY DEF Default, CIDefault, DiffDefault
  <2> QED BY <2>1, <2>2, <2>3 DEF Given
<1>4. Given("failOn") \in FailOnValues
  <2>1. request.flags.failOn \in FailOnValues \cup {Absent}
    BY InputTypes DEF FlagsType
  <2>2. config.ci.failOn \in FailOnValues \cup {Absent}
    BY InputTypes DEF CIType
  <2>3. Default(request.ci).failOn \in FailOnValues
    BY DEF Default, CIDefault, DiffDefault, FailOnValues
  <2> QED BY <2>1, <2>2, <2>3 DEF Given
<1>5. Given("forbid") \in ForbidValues
  <2>1. request.flags.forbid \in ForbidValues \cup {Absent}
    BY InputTypes DEF FlagsType
  <2>2. config.ci.forbid \in {"patterns", Absent}
    BY InputTypes DEF CIType
  <2>3. Default(request.ci).forbid \in ForbidValues
    BY DEF Default, CIDefault, DiffDefault, ForbidValues
  <2> QED BY <2>1, <2>2, <2>3 DEF Given, ForbidValues
<1>6. request.flags.budget # Absent => Budget = request.flags.budget
  BY DEF Budget, Given
<1>7. \A field \in {"summary", "failOn", "forbid"} :
        request.flags[field] # Absent => Given(field) = request.flags[field]
  BY DEF Given
<1> QED BY <1>2, <1>3, <1>4, <1>5, <1>6, <1>7

\* Only checks are enabled.
LEMMA EnabledAreChecks == Enabled \subseteq Checks
BY DEF Enabled, ParseDiffCheckNames

\* If the checks are usable, they are exactly those that the settings ask for,
\* so the verdict is whether all of these hold of the summary.
LEMMA VerdictIsAsked ==
  ASSUME TypeOK, ~ChecksUnusable, results = [name \in Enabled |-> CheckPasses(name)]
  PROVE  Passed <=> Asked \subseteq Holds
<1>1. /\ settings.failOn \subseteq Checks \cup {"all"}
      /\ settings.forbid \in ForbidValues
  BY DEF TypeOK, SettingsType, FailOnValues, ForbidValues, ChecksUnusable
<1>2. Passed <=> \A name \in Enabled : CheckPasses(name)
  BY DEF Passed
<1>3. Enabled = Asked \ {"all"}
  BY <1>1 DEF Enabled, ParseDiffCheckNames, Asked, ChecksUnusable, Checks
<1>4. \A name \in Checks : CheckPasses(name) <=> name \in Holds
  BY DEF CheckPasses, Holds, Checks, TypeOK, FactsType
<1>5. "all" \in Holds
  BY DEF Holds
<1> QED BY <1>2, <1>3, <1>4, <1>5, EnabledAreChecks
-----------------------------------------------------------------------------
\* Initially no run has done anything.
LEMMA InitIInv == Init => IInv
<1> SUFFICES ASSUME Init PROVE IInv
  OBVIOUS
<1>1. config \in Configs /\ request \in Requests
  BY RequestsAssumption, ConfigsAssumption DEF Init
<1>2. settings \in SettingsType
  <2>1. DiffDefault \in SettingsType
    <3>1. 12000 \in Budgets /\ {} \in FailOnValues /\ "empty" \in ForbidValues
      BY DEF Budgets, FailOnValues, ForbidValues
    <3> QED BY <3>1 DEF DiffDefault, SettingsType
  <2> QED BY <2>1 DEF Init
<1>3. facts \in FactsType
  BY DEF Init, FactsType
<1>4. DOMAIN results \subseteq Checks /\ Range(results) \subseteq BOOLEAN
  BY DEF Init, Range
<1>5. summaryFile \in [run : -run .. run, passed : BOOLEAN] /\ packFile \in -run .. run
  BY DEF Init, NoSummary
<1>6. run \in 0 .. MaxRuns /\ faults \in 0 .. MaxFaults
  BY BoundsAssumption DEF Init
<1>9. userChanges \in BOOLEAN /\ outcome = "ok" /\ pc = "idle"
  BY Zenon DEF Init
<1>7. TypeOK
  BY <1>1, <1>2, <1>3, <1>4, <1>5, <1>6, <1>9, Zenon DEF TypeOK, Outcomes
<1>8. pc = "idle" /\ run = 0
  BY DEF Init
<1>10. ChecksKnown /\ PackIsOld /\ Underway /\ SummaryFirst
  BY <1>8 DEF ChecksKnown, Evaluated, PackIsOld, Underway, SummaryFirst
<1>11. FlagsWin
  BY <1>8 DEF FlagsWin
<1>12. ExitMatchesArtifacts /\ PackHasItsSummary /\ OkMeansAsked
  BY <1>8 DEF ExitMatchesArtifacts, PackHasItsSummary, OkMeansAsked
<1> QED BY <1>7, <1>10, <1>11, <1>12 DEF IInv

\* Every step keeps the state of the types given: settings come from flags,
\* configuration or defaults, results from checks, artifacts from runs.
LEMMA TypeStep == TypeOK /\ [Next]_vars => TypeOK'
<1> SUFFICES ASSUME TypeOK, [Next]_vars PROVE TypeOK'
  OBVIOUS
<1>0. /\ run \in 0 .. MaxRuns /\ faults \in 0 .. MaxFaults
      /\ run \in Nat /\ run \in -run .. run /\ -run \in -run .. run
  <2>1. run \in 0 .. MaxRuns /\ faults \in 0 .. MaxFaults
    BY DEF TypeOK
  <2> QED BY <2>1, BoundsAssumption
<1> USE DEF TypeOK, Outcomes
<1>1. CASE Start
  <2>1. run' \in 0 .. MaxRuns /\ -run .. run \subseteq -run' .. run'
    <3> HIDE DEF TypeOK
    <3>1. run' = run + 1 /\ run < MaxRuns
      BY <1>1 DEF Start
    <3> QED BY <1>0, <3>1, BoundsAssumption
  <2>3. packFile' = packFile /\ summaryFile' = summaryFile
    BY <1>1 DEF Start, artifacts
  <2>2. DOMAIN results' \subseteq Checks /\ Range(results') \subseteq BOOLEAN
    BY <1>1 DEF Start, Range
  <2> QED BY <1>1, <2>1, <2>2, <2>3 DEF Start
<1>2. CASE SettleSettings
  <2>1. settings' \in SettingsType
    BY <1>2, SettingsFacts DEF SettleSettings, SettingsType
  <2> QED BY <1>2, <2>1 DEF SettleSettings, world, artifacts
<1>3. CASE ConfigInvalid
  BY <1>3 DEF ConfigInvalid, Exit, world, artifacts
<1>4. CASE NoChanges
  BY <1>4 DEF NoChanges, Exit, world, artifacts
<1>5. CASE FitPack
  BY <1>5 DEF FitPack, world, artifacts
<1>6. CASE ChecksAbort
  BY <1>6 DEF ChecksAbort, Exit, world, artifacts
<1>7. CASE EvaluateDiffChecks
  <2>1. \A name \in Checks : CheckPasses(name) \in BOOLEAN
    BY DEF CheckPasses, Checks, FactsType
  <2>2. DOMAIN results' \subseteq Checks /\ Range(results') \subseteq BOOLEAN
    BY <1>7, <2>1, EnabledAreChecks, Zenon DEF EvaluateDiffChecks, Range
  <2>3. /\ pc' = "summary" \/ pc' = "pack"
        /\ pc' = "summary" => settings.summary
    BY <1>7 DEF EvaluateDiffChecks
  <2> QED BY <1>7, <2>2, <2>3 DEF EvaluateDiffChecks, world, artifacts
<1>8. CASE TruncateSummary
  <2>1. [run |-> -run, passed |-> FALSE] \in [run : -run .. run, passed : BOOLEAN]
    BY <1>0
  <2>2. summaryFile' \in [run : -run .. run, passed : BOOLEAN]
    BY <1>8, <2>1 DEF TruncateSummary, Torn
  <2> QED BY <1>8, <2>2 DEF TruncateSummary, world
<1>9. CASE WriteDiffSummaryJSON
  <2>1. [run |-> run, passed |-> Passed] \in [run : -run .. run, passed : BOOLEAN]
    BY <1>0 DEF Passed
  <2>2. summaryFile' \in [run : -run .. run, passed : BOOLEAN]
    BY <1>9, <2>1 DEF WriteDiffSummaryJSON
  <2> QED BY <1>9, <2>2 DEF WriteDiffSummaryJSON, world
<1>10. CASE PrintPack
  BY <1>10 DEF PrintPack, Exit, Verdict, world, artifacts
<1>11. CASE TruncatePack
  BY <1>0, <1>11 DEF TruncatePack, world
<1>12. CASE WritePack
  BY <1>0, <1>12 DEF WritePack, Exit, Verdict, world
<1>13. CASE Fault
  <2>1. faults' \in 0 .. MaxFaults
    <3> HIDE DEF TypeOK
    <3>1. faults' = faults + 1 /\ faults < MaxFaults
      BY <1>13 DEF Fault
    <3> QED BY <1>0, <3>1, BoundsAssumption
  <2> QED BY <1>13, <2>1 DEF Fault, Exit, world, artifacts
<1>14. CASE UNCHANGED vars
  BY <1>14 DEF vars
<1> QED
  BY <1>1, <1>2, <1>3, <1>4, <1>5, <1>6, <1>7, <1>8, <1>9, <1>10, <1>11, <1>12, <1>13, <1>14
     DEF Next, Step

\* What a step leaves alone: only Start changes the run and what it is asked, only
\* SettleSettings the settings, only FitPack the facts.
LEMMA Steady ==
  ASSUME [Next]_vars
  PROVE  /\ pc # "idle" => run' = run /\ request' = request
         /\ pc \notin {"idle", "settings"} => settings' = settings
         /\ pc \in Evaluated => facts' = facts /\ results' = results
BY DEF Next, Step, vars, Evaluated, Start, SettleSettings, ConfigInvalid, NoChanges, FitPack,
       ChecksAbort, EvaluateDiffChecks, TruncateSummary, WriteDiffSummaryJSON, PrintPack,
       TruncatePack, WritePack, Fault, Exit

\* The order of the steps: what may come before the program counter's value.
LEMMA Before ==
  ASSUME [Next]_vars
  PROVE  /\ pc' \in Evaluated => pc \in Evaluated \/ EvaluateDiffChecks
         /\ pc' = "pack data" => (pc = "pack data" /\ packFile' = packFile) \/ TruncatePack
BY DEF Next, Step, vars, Evaluated, Start, SettleSettings, ConfigInvalid, NoChanges, FitPack,
       ChecksAbort, EvaluateDiffChecks, TruncateSummary, WriteDiffSummaryJSON, PrintPack,
       TruncatePack, WritePack, Fault, Exit

\* A run evaluates the checks once, and keeps what they are about.
LEMMA ChecksStep == ChecksKnown /\ [Next]_vars => ChecksKnown'
<1> SUFFICES ASSUME ChecksKnown, [Next]_vars, pc' \in Evaluated
             PROVE  (~ChecksUnusable)' /\ results' = [name \in Enabled' |-> CheckPasses(name)']
  BY DEF ChecksKnown, Evaluated
<1>1. CASE pc \in Evaluated
  <2>1. settings' = settings /\ facts' = facts /\ results' = results
    BY <1>1, Steady DEF Evaluated
  <2>2. Enabled' = Enabled /\ (ChecksUnusable' <=> ChecksUnusable)
    BY <2>1 DEF Enabled, ChecksUnusable
  <2>3. \A name : CheckPasses(name)' = CheckPasses(name)
    BY <2>1 DEF CheckPasses
  <2> QED BY <1>1, <2>1, <2>2, <2>3 DEF ChecksKnown
<1>2. CASE EvaluateDiffChecks
  <2>1. settings' = settings /\ facts' = facts
    BY <1>2 DEF EvaluateDiffChecks
  <2>2. Enabled' = Enabled /\ (ChecksUnusable' <=> ChecksUnusable)
    BY <2>1 DEF Enabled, ChecksUnusable
  <2>3. \A name : CheckPasses(name)' = CheckPasses(name)
    BY <2>1 DEF CheckPasses
  <2> QED BY <1>2, <2>2, <2>3 DEF EvaluateDiffChecks
<1> QED BY <1>1, <1>2, Before

\* No run touches the pack on disk before it has written its summary.
LEMMA PackStep == TypeOK /\ PackIsOld /\ Underway /\ [Next]_vars => PackIsOld' /\ Underway'
<1> SUFFICES ASSUME TypeOK, PackIsOld, Underway, [Next]_vars PROVE PackIsOld' /\ Underway'
  OBVIOUS
<1>0. run \in Nat /\ packFile \in -run .. run
  <2>1. run \in 0 .. MaxRuns /\ packFile \in -run .. run
    BY DEF TypeOK
  <2> QED BY <2>1, BoundsAssumption
<1>1. CASE Start
  <2>1. run' = run + 1 /\ packFile' = packFile /\ pc' = "settings"
    BY <1>1 DEF Start, artifacts
  <2>2. packFile' \in -(run' - 1) .. run' - 1
    BY <1>0, <2>1
  <2>3. run' > 0
    BY <1>0, <2>1
  <2> QED BY <2>1, <2>2, <2>3 DEF PackIsOld, Underway
<1>2. CASE TruncatePack
  BY <1>2 DEF TruncatePack, PackIsOld, Underway
<1>3. CASE WritePack
  BY <1>3 DEF WritePack, Exit, PackIsOld, Underway
<1>4. CASE UNCHANGED vars
  BY <1>4 DEF vars, PackIsOld, Underway
<1>5. CASE Fault
  BY <1>5 DEF Fault, Exit, PackIsOld, Underway
<1>6. CASE Step /\ ~TruncatePack /\ ~WritePack
  <2>1. run' = run /\ packFile' = packFile
        /\ pc' \in {"idle", "changes", "checks", "summary", "summary data", "pack"}
        /\ pc \in {"settings", "changes", "checks", "summary", "summary data", "pack"}
    BY <1>6 DEF Step, SettleSettings, ConfigInvalid, NoChanges, FitPack, ChecksAbort,
                EvaluateDiffChecks, TruncateSummary, WriteDiffSummaryJSON, PrintPack, Exit,
                artifacts
  <2> QED BY <2>1 DEF PackIsOld, Underway
<1> QED BY <1>1, <1>2, <1>3, <1>4, <1>5, <1>6 DEF Next

\* A run that is to write a summary comes to its pack by way of the summary.
LEMMA SummaryStep == SummaryFirst /\ [Next]_vars => SummaryFirst'
<1> SUFFICES ASSUME SummaryFirst, [Next]_vars, pc' \in {"pack", "pack data"}, settings'.summary
             PROVE  summaryFile' = [run |-> run', passed |-> Passed']
  BY DEF SummaryFirst
<1>1. CASE WriteDiffSummaryJSON
  <2>1. Passed' <=> Passed
    BY <1>1 DEF WriteDiffSummaryJSON, Passed
  <2> QED BY <1>1, <2>1 DEF WriteDiffSummaryJSON
<1>2. CASE EvaluateDiffChecks
  BY <1>2 DEF EvaluateDiffChecks
<1>3. CASE TruncatePack \/ UNCHANGED vars
  <2>1. /\ run' = run /\ results' = results /\ settings' = settings
        /\ summaryFile' = summaryFile /\ pc \in {"pack", "pack data"}
    BY <1>3 DEF TruncatePack, vars
  <2>2. Passed' <=> Passed
    BY <2>1 DEF Passed
  <2> QED BY <2>1, <2>2 DEF SummaryFirst
<1> QED
  BY <1>1, <1>2, <1>3
     DEF Next, Step, Start, SettleSettings, ConfigInvalid, NoChanges, FitPack, ChecksAbort,
         TruncateSummary, PrintPack, WritePack, Fault, Exit

\* The settings are settled once, by the flags where there are any.
LEMMA FlagsStep == TypeOK /\ FlagsWin /\ [Next]_vars => FlagsWin'
<1> SUFFICES ASSUME TypeOK, FlagsWin, [Next]_vars, pc' \notin {"idle", "settings"},
                    NEW field \in DOMAIN settings', request'.flags[field] # Absent
             PROVE  settings'[field] = request'.flags[field]
  BY DEF FlagsWin
<1>1. CASE SettleSettings
  <2>1. settings' = [budget |-> Budget, summary |-> Given("summary"), failOn |-> Given("failOn"),
                     forbid |-> Given("forbid")] /\ request' = request
    BY <1>1 DEF SettleSettings
  <2>2. field \in {"budget", "summary", "failOn", "forbid"}
    BY <2>1
  <2>3. CASE field = "budget"
    BY <2>1, <2>3, SettingsFacts
  <2>4. CASE field \in {"summary", "failOn", "forbid"}
    BY <2>1, <2>4, SettingsFacts
  <2> QED BY <2>2, <2>3, <2>4
<1>2. CASE pc \notin {"idle", "settings"}
  BY <1>2, Steady DEF FlagsWin
<1>3. pc \in {"idle", "settings"} => SettleSettings
  BY DEF Next, Step, vars, Start, SettleSettings, ConfigInvalid, NoChanges, FitPack,
         ChecksAbort, EvaluateDiffChecks, TruncateSummary, WriteDiffSummaryJSON, PrintPack,
         TruncatePack, WritePack, Fault, Exit
<1> QED BY <1>1, <1>2, <1>3

\* A run that ends with a verdict ends by printing its pack or by completing it.
LEMMA VerdictStep ==
  ASSUME TypeOK, Underway, [Next]_vars, ~UNCHANGED vars, outcome' \in Verdicts
  PROVE  /\ PrintPack \/ WritePack
         /\ pc \in {"pack", "pack data"} /\ run' = run /\ run > 0
         /\ outcome' = Verdict
         /\ results' = results /\ settings' = settings /\ facts' = facts
<1>1. pc # "idle" => outcome = "running"
  BY DEF TypeOK
<1>2. PrintPack \/ WritePack
  BY <1>1 DEF Next, Step, Verdicts, Start, SettleSettings, ConfigInvalid, NoChanges, FitPack,
     ChecksAbort, EvaluateDiffChecks, TruncateSummary, WriteDiffSummaryJSON, TruncatePack,
     Fault, Exit
<1> QED BY <1>2 DEF PrintPack, WritePack, Exit, Underway

\* A verdict is given when the summary, the checks and the pack it is about are
\* settled, and nothing that it is about changes before the next run.
LEMMA ArtifactsStep ==
  TypeOK /\ Underway /\ SummaryFirst /\ ExitMatchesArtifacts /\ [Next]_vars => ExitMatchesArtifacts'
<1> SUFFICES ASSUME TypeOK, Underway, SummaryFirst, ExitMatchesArtifacts, [Next]_vars
             PROVE  ExitMatchesArtifacts'
  OBVIOUS
<1>1. CASE UNCHANGED vars
  BY <1>1 DEF vars, ExitMatchesArtifacts
<1>2. CASE ~UNCHANGED vars /\ outcome' \in Verdicts
  <2>1. summaryFile' = summaryFile /\ request' = request
    BY <1>2, VerdictStep DEF PrintPack, WritePack, artifacts
  <2>2. ~request.stdout => packFile' = run
    BY <1>2, VerdictStep DEF PrintPack, WritePack
  <2>3. settings.summary => summaryFile = [run |-> run, passed |-> Passed]
    BY <1>2, VerdictStep DEF SummaryFirst
  <2>4. outcome' = "ok" <=> Passed
    BY <1>2, VerdictStep DEF Verdict
  <2> QED BY <1>2, <2>1, <2>2, <2>3, <2>4, VerdictStep DEF ExitMatchesArtifacts
<1>3. CASE outcome' \notin Verdicts
  BY <1>3 DEF ExitMatchesArtifacts
<1> QED BY <1>1, <1>2, <1>3

\* Code 0 is given when the checks that were asked for all hold.
LEMMA OkStep ==
  TypeOK /\ Underway /\ ChecksKnown /\ OkMeansAsked /\ [Next]_vars => OkMeansAsked'
<1> SUFFICES ASSUME TypeOK, Underway, ChecksKnown, OkMeansAsked, [Next]_vars,
                    run' > 0, outcome' = "ok"
             PROVE  (Asked \subseteq Holds)'
  BY DEF OkMeansAsked
<1>1. CASE UNCHANGED vars
  <2>1. Asked' = Asked /\ Holds' = Holds
    BY <1>1 DEF vars, Asked, Holds
  <2> QED BY <1>1, <2>1 DEF vars, OkMeansAsked
<1>2. CASE ~UNCHANGED vars
  <2>1. pc \in {"pack", "pack data"} /\ settings' = settings /\ facts' = facts /\ Passed
    BY <1>2, VerdictStep DEF Verdicts, Verdict
  <2>2. Asked \subseteq Holds
    BY <2>1, VerdictIsAsked DEF ChecksKnown, Evaluated
  <2>3. Asked' = Asked /\ Holds' = Holds
    BY <2>1 DEF Asked, Holds
  <2> QED BY <2>2, <2>3
<1> QED BY <1>1, <1>2

\* A pack on disk that is of this run is there only with its summary.
LEMMA PackSummaryStep ==
  /\ TypeOK /\ Underway /\ PackIsOld /\ ChecksKnown /\ SummaryFirst
  /\ PackHasItsSummary /\ [Next]_vars
  => PackHasItsSummary'
<1> SUFFICES ASSUME TypeOK, Underway, PackIsOld, ChecksKnown, SummaryFirst, PackHasItsSummary,
                    [Next]_vars, run' > 0, packFile' \in {run', -run'}, settings'.summary
             PROVE  summaryFile' = [run |-> run', passed |-> (Asked \subseteq Holds)']
  BY DEF PackHasItsSummary
<1>0. run \in Nat /\ packFile \in -run .. run
  <2>1. run \in 0 .. MaxRuns /\ packFile \in -run .. run
    BY DEF TypeOK
  <2> QED BY <2>1, BoundsAssumption
<1>1. CASE pc \in {"settings", "changes", "checks", "summary", "summary data"}
  <2>1. packFile' = packFile /\ run' = run
    BY <1>1, Steady DEF Next, Step, vars, Start, SettleSettings, ConfigInvalid, NoChanges, FitPack,
         ChecksAbort, EvaluateDiffChecks, TruncateSummary, WriteDiffSummaryJSON, PrintPack,
         TruncatePack, WritePack, Fault, Exit, artifacts
  <2>2. packFile \in -(run - 1) .. run - 1
    BY <1>1 DEF PackIsOld
  <2> QED BY <1>0, <2>1, <2>2
<1>2. CASE pc \in {"pack", "pack data"}
  <2>1. /\ run' = run /\ settings' = settings /\ facts' = facts
    BY <1>2, Steady DEF Evaluated
  <2>2. Asked' = Asked /\ Holds' = Holds
    BY <2>1 DEF Asked, Holds
  <2>3. summaryFile' = summaryFile
    BY <1>2 DEF Next, Step, vars, Start, SettleSettings, ConfigInvalid, NoChanges, FitPack,
         ChecksAbort, EvaluateDiffChecks, TruncateSummary, WriteDiffSummaryJSON, PrintPack,
         TruncatePack, WritePack, Fault, Exit, artifacts
  <2>4. summaryFile = [run |-> run, passed |-> Passed]
    BY <1>2, <2>1 DEF SummaryFirst
  <2>5. Passed <=> Asked \subseteq Holds
    BY <1>2, VerdictIsAsked DEF ChecksKnown, Evaluated
  <2>6. Passed = (Asked \subseteq Holds)'
    BY <2>2, <2>5 DEF Passed
  <2> QED BY <2>1, <2>3, <2>4, <2>6
<1>3. CASE pc = "idle"
  <2>1. CASE Start
    <3>1. run' = run + 1 /\ packFile' = packFile
      BY <2>1 DEF Start, artifacts
    <3> QED BY <1>0, <3>1
  <2>2. CASE UNCHANGED vars
    <3>1. Asked' = Asked /\ Holds' = Holds
      BY <2>2 DEF vars, Asked, Holds
    <3> QED BY <2>2, <3>1 DEF vars, PackHasItsSummary
  <2> QED BY <1>3, <2>1, <2>2 DEF Next, Step, SettleSettings, ConfigInvalid, NoChanges, FitPack,
         ChecksAbort, EvaluateDiffChecks, TruncateSummary, WriteDiffSummaryJSON, PrintPack,
         TruncatePack, WritePack, Fault, Exit
<1> QED BY <1>1, <1>2, <1>3 DEF TypeOK
-----------------------------------------------------------------------------
LEMMA Invariance == Spec => []IInv
<1>1. IInv /\ [Next]_vars => IInv'
  BY TypeStep, ChecksStep, PackStep, SummaryStep, FlagsStep, ArtifactsStep, OkStep, PackSummaryStep
     DEF IInv
<1> QED BY <1>1, InitIInv, PTL DEF Spec

\* Every run, at every step, is in a state of the declared types.
THEOREM TypeCorrect == Spec => []TypeOK
<1>1. IInv => TypeOK
  BY DEF IInv
<1> QED BY <1>1, Invariance, PTL

\* A run that exits with a verdict leaves its own artifacts, and they agree with
\* the exit code.
THEOREM VerdictIsOnDisk == Spec => []ExitMatchesArtifacts
<1>1. IInv => ExitMatchesArtifacts
  BY DEF IInv
<1> QED BY <1>1, Invariance, PTL

\* No pack of a run is ever on disk, whole or in part, without its summary.
THEOREM SummaryBeforePack == Spec => []PackHasItsSummary
<1>1. IInv => PackHasItsSummary
  BY DEF IInv
<1> QED BY <1>1, Invariance, PTL

\* Exit code 0 vouches for every check that was asked for.
THEOREM OkIsEarned == Spec => []OkMeansAsked
<1>1. IInv => OkMeansAsked
  BY DEF IInv
<1> QED BY <1>1, Invariance, PTL

\* The command line overrides the configuration, setting by setting.
THEOREM FlagsOverride == Spec => []FlagsWin
<1>1. IInv => FlagsWin
  BY DEF IInv
<1> QED BY <1>1, Invariance, PTL

-----------------------------------------------------------------------------
(* The configuration: its file, as an author writes it and as the parser    *)
(* reads it, by the module ConfigFile.                                      *)

\* The parser has the lists that the author means, and while the author writes a
\* list it is in that list or where no list is.
ListsAgree ==
  /\ ~failed => cfg.list = said.list
  /\ place \in Lists => section \in {place, <<Key(place)>>}

\* A tidy author and the parser are in the same section.
Together == tidy => ~failed /\ cfg = said /\ section = place

LEMMA PathFacts ==
  /\ Lists = {<<"ignore">>, <<"priority">>, <<"ci", "fail_on">>, <<"ci", "forbid">>}
  /\ Sections = {<<"languages">>, <<"ci">>, <<"ignore">>, <<"priority">>, <<"ci", "fail_on">>, <<"ci", "forbid">>}
  /\ <<"fail_on">> \notin Lists /\ <<"forbid">> \notin Lists
  /\ <<>> \notin Lists /\ <<"languages">> \notin Lists /\ <<"ci">> \notin Lists
BY DEF Lists, Sections

\* Where each path is written, and by what key.
LEMMA WhereTop ==
  ASSUME NEW k
  PROVE  /\ Len(<<k>>) = 1 /\ Level(<<k>>) = 0 /\ Key(<<k>>) = k /\ Within(<<k>>) = <<>>
<1>1. Len(<<k>>) = 1 /\ <<k>>[1] = k
  OBVIOUS
<1>2. SubSeq(<<k>>, 1, 0) = <<>>
  OBVIOUS
<1> QED BY <1>1, <1>2 DEF Level, Key, Within

LEMMA WhereBelow ==
  ASSUME NEW s, NEW k
  PROVE  /\ Len(<<s, k>>) = 2 /\ Level(<<s, k>>) = 1 /\ Key(<<s, k>>) = k
         /\ Within(<<s, k>>) = <<s>>
<1>1. Len(<<s, k>>) = 2 /\ <<s, k>>[2] = k
  OBVIOUS
<1>2. SubSeq(<<s, k>>, 1, 1) = <<s>>
  <2> DEFINE t == SubSeq(<<s, k>>, 1, 1)
  <2>1. <<s, k>> \in Seq({s, k}) /\ Len(<<s, k>>) = 2 /\ <<s, k>>[1] = s
    OBVIOUS
  <2>2. t \in Seq({s, k}) /\ Len(t) = 1 /\ t[1] = s
    BY <2>1, SubSeqProperties
  <2>3. <<s>> \in Seq({s, k}) /\ Len(<<s>>) = 1 /\ <<s>>[1] = s
    OBVIOUS
  <2> HIDE DEF t
  <2>4. t = <<s>>
    BY <2>2, <2>3, SeqEqual
  <2> QED BY <2>4 DEF t
<1> QED BY <1>1, <1>2 DEF Level, Key, Within

Longer(list, p, v) == [list EXCEPT ![p] = @ \o v]

IsMeaning(c) == c = [scalar |-> c.scalar, list |-> c.list]

LEMMA SetFacts ==
  ASSUME NEW c, IsMeaning(c), NEW p, NEW v
  PROVE  /\ IsMeaning(SetScalar(c, p, v)) /\ SetScalar(c, p, v).list = c.list
         /\ IsMeaning(AddItems(c, p, v))
         /\ AddItems(c, p, v).list = Longer(c.list, p, v)
<1> DEFINE scalar == c.scalar
           list == c.list
<1>1. c = [scalar |-> scalar, list |-> list]
  BY DEF IsMeaning
<1> HIDE DEF scalar, list
<1>2. SetScalar(c, p, v) =
        [scalar |-> [q \in DOMAIN scalar \cup {p} |-> IF q = p THEN v ELSE scalar[q]], list |-> list]
  BY <1>1 DEF SetScalar
<1>3. AddItems(c, p, v) = [scalar |-> scalar, list |-> [list EXCEPT ![p] = @ \o v]]
  <2>1. AddItems(c, p, v) = [c EXCEPT !.list = [c.list EXCEPT ![p] = @ \o v]]
    BY DEF AddItems
  <2>2. c.list = list
    BY <1>1
  <2> DEFINE new == [list EXCEPT ![p] = @ \o v]
  <2>3. AddItems(c, p, v) = [c EXCEPT !.list = new]
    BY <2>1, <2>2
  <2> HIDE DEF new
  <2>4. AddItems(c, p, v) = [scalar |-> scalar, list |-> new]
    BY <2>3, <1>1
  <2> QED BY <2>4 DEF new
<1> QED BY <1>2, <1>3 DEF IsMeaning, list, Longer

\* What the author has in common with the parser.
CInv == IsMeaning(cfg) /\ IsMeaning(said) /\ ListsAgree

LEMMA InitCInv == FileInit => CInv
<1> SUFFICES ASSUME FileInit PROVE CInv
  OBVIOUS
<1>1. place = <<>> /\ cfg = said /\ cfg = Nothing
  BY DEF FileInit
<1>2. IsMeaning(Nothing)
  BY DEF Nothing, IsMeaning
<1> QED BY <1>1, <1>2, PathFacts DEF CInv, ListsAgree

\* What the parser makes of each kind of line.
LEMMA HeadingIsRead ==
  ASSUME NEW level, NEW key, Parse(Heading(level, key))
  PROVE  /\ section' = IF level > 0 /\ InCI THEN <<"ci", key>> ELSE <<key>>
         /\ UNCHANGED <<cfg, failed>> /\ ~failed
BY DEF Parse, Heading, ReadHeading, ReadItem, ReadLanguage, ParseCIKey,
       ReadTopLevelKey

LEMMA ItemIsRead ==
  ASSUME NEW level, NEW v, Parse(Item(level, v))
  PROVE  /\ ~failed /\ UNCHANGED section
         /\ IF section \in Lists THEN cfg' = AddItems(cfg, section, <<v>>) /\ UNCHANGED failed
            ELSE failed' = TRUE /\ UNCHANGED cfg
BY DEF Parse, Item, ReadHeading, ReadItem, ReadLanguage, ParseCIKey,
       ReadTopLevelKey, Fail

LEMMA PairIsRead ==
  ASSUME NEW level, NEW key, NEW v, Parse(Pair(level, key, v))
  PROVE  ~failed /\ (ReadLanguage(Pair(level, key, v)) \/ ParseCIKey(Pair(level, key, v))
                     \/ ReadTopLevelKey(Pair(level, key, v)))
BY DEF Parse, Pair, ReadHeading, ReadItem

LEMMA InlineIsRead ==
  ASSUME NEW level, NEW key, NEW v, Parse(Inline(level, key, v))
  PROVE  ~failed /\ (ParseCIKey(Inline(level, key, v)) \/ ReadTopLevelKey(Inline(level, key, v)))
BY DEF Parse, Inline, ReadHeading, ReadItem, ReadLanguage

\* The paths are of one part, or of two.
LEMMA Paths ==
  /\ \A path \in Sections : path \in {<<"languages">>, <<"ci">>, <<"ignore">>, <<"priority">>}
                            \/ \E k \in {"fail_on", "forbid"} : path = <<"ci", k>>
  /\ \A path \in Scalars : \/ \E k \in {"budget", "include_tests"} : path = <<k>>
                           \/ path = <<"languages", "go">>
                           \/ \E k \in {"budget", "base", "output", "summary_json"} : path = <<"ci", k>>
  /\ \A k \in {"budget", "include_tests", "go", "base", "output", "summary_json"} : <<"ci", k>> \notin Lists
  /\ \A k \in {"fail_on", "forbid"} : /\ <<k>> \notin Scalars /\ <<"ci", k>> \notin Scalars
                                      /\ <<"ci", k>> \in Lists
  /\ \A path \in Lists : Len(path) = 2 => \E k \in {"fail_on", "forbid"} : path = <<"ci", k>>
BY DEF Sections, Lists, Scalars

LEMMA HeadingStep == CInv /\ Together /\ WriteHeading => CInv' /\ Together'
<1> SUFFICES ASSUME CInv, Together, WriteHeading PROVE CInv' /\ Together'
  OBVIOUS
<1>1. PICK path \in Sections :
        /\ Reachable(path) /\ place' = path /\ UNCHANGED <<said, tidy>>
        /\ Parse(Heading(Level(path), Key(path)))
  BY DEF WriteHeading
<1>2. /\ section' = IF Level(path) > 0 /\ InCI THEN <<"ci", Key(path)>> ELSE <<Key(path)>>
      /\ UNCHANGED <<cfg, failed>>
  BY <1>1, HeadingIsRead
<1>3. CASE path \in {<<"languages">>, <<"ci">>, <<"ignore">>, <<"priority">>}
  <2>1. PICK k : path = <<k>>
    BY <1>3
  <2>2. section' = path
    BY <1>2, <2>1, WhereTop
  <2> QED BY <1>1, <1>2, <2>2 DEF CInv, ListsAgree, Together, IsMeaning
<1>4. CASE \E k \in {"fail_on", "forbid"} : path = <<"ci", k>>
  <2>1. PICK k \in {"fail_on", "forbid"} : path = <<"ci", k>>
    BY <1>4
  <2>2. Level(path) = 1 /\ Key(path) = k /\ Within(path) = <<"ci">>
    BY <2>1, WhereBelow
  <2>3. section' = IF InCI THEN path ELSE <<k>>
    BY <1>2, <2>1, <2>2
  <2>4. section = place => InCI
    BY <1>1, <2>2 DEF Reachable, InCI
  <2>5. CInv'
    BY <1>1, <1>2, <2>2, <2>3 DEF CInv, ListsAgree, IsMeaning
  <2>6. Together'
    BY <1>1, <1>2, <2>3, <2>4 DEF Together
  <2> QED BY <2>5, <2>6
<1> QED BY <1>3, <1>4, Paths

LEMMA ItemStep == CInv /\ Together /\ WriteItem => CInv' /\ Together'
<1> SUFFICES ASSUME CInv, Together, WriteItem PROVE CInv' /\ Together'
  OBVIOUS
<1>1. PICK v \in Items :
        /\ place \in Lists
        /\ said' = AddItems(said, place, <<v>>)
        /\ UNCHANGED <<place, used, tidy>>
        /\ Parse(Item(Len(place), v))
  BY DEF WriteItem
<1>2. /\ ~failed /\ UNCHANGED section
      /\ IF section \in Lists THEN cfg' = AddItems(cfg, section, <<v>>) /\ UNCHANGED failed
         ELSE failed' = TRUE /\ UNCHANGED cfg
  BY <1>1, ItemIsRead
<1>3. section \in Lists => section = place
  <2>1. section = place \/ section = <<Key(place)>>
    BY <1>1 DEF CInv, ListsAgree
  <2>2. ASSUME section = <<Key(place)>>, section \in Lists PROVE section = place
    <3>1. CASE place \in {<<"ignore">>, <<"priority">>}
      BY <2>2, <3>1, WhereTop
    <3>2. CASE place \in {<<"ci", "fail_on">>, <<"ci", "forbid">>}
      BY <2>2, <3>2, WhereBelow, PathFacts
    <3> QED BY <1>1, <3>1, <3>2, PathFacts
  <2> QED BY <2>1, <2>2
<1> DEFINE w == <<v>>
<1> HIDE DEF w
<1>4. IsMeaning(said') /\ said'.list = Longer(said.list, place, w)
  <2>1. said' = AddItems(said, place, w) /\ IsMeaning(said)
    BY <1>1 DEF w, CInv
  <2> DEFINE n == AddItems(said, place, w)
  <2>2. IsMeaning(n)
    BY <2>1, SetFacts
  <2>3. n.list = Longer(said.list, place, w)
    BY <2>1, SetFacts
  <2> QED BY <2>1, <2>2, <2>3 DEF IsMeaning
<1>5. CASE section \in Lists
  <2>1. IsMeaning(cfg') /\ cfg'.list = Longer(cfg.list, place, w)
    <3>1. cfg' = AddItems(cfg, place, w) /\ IsMeaning(cfg)
      BY <1>2, <1>3, <1>5 DEF w, CInv
    <3> DEFINE n == AddItems(cfg, place, w)
    <3>2. IsMeaning(n)
      BY <3>1, SetFacts
    <3>3. n.list = Longer(cfg.list, place, w)
      BY <3>1, SetFacts
    <3> QED BY <3>1, <3>2, <3>3 DEF IsMeaning
  <2>2. CInv'
    BY <1>1, <1>2, <1>4, <1>5, <2>1 DEF CInv, ListsAgree
  <2>3. Together'
    BY <1>1, <1>2, <1>3, <1>5 DEF Together
  <2> QED BY <2>2, <2>3
<1>6. CASE section \notin Lists
  <2>1. CInv'
    BY <1>1, <1>2, <1>4, <1>6 DEF CInv, ListsAgree, IsMeaning
  <2>2. ~tidy
    BY <1>1, <1>6 DEF Together
  <2> QED BY <1>1, <2>1, <2>2 DEF Together
<1> QED BY <1>5, <1>6

LEMMA SetIsMeaning ==
  ASSUME NEW c, IsMeaning(c), NEW p, NEW v, NEW new, new = SetScalar(c, p, v)
  PROVE  IsMeaning(new) /\ new.list = c.list
BY SetFacts

LEMMA ScalarStep == CInv /\ Together /\ WriteScalar => CInv' /\ Together'
<1> SUFFICES ASSUME CInv, Together, WriteScalar PROVE CInv' /\ Together'
  OBVIOUS
<1>path. PICK path \in Scalars : \E v \in ValuesOf(path) :
        /\ place' = Within(path)
        /\ tidy' = (tidy /\ place = Within(path))
        /\ said' = SetScalar(said, path, v)
        /\ Parse(Pair(Level(path), Key(path), v))
  BY DEF WriteScalar
<1>1. PICK v \in ValuesOf(path) :
        /\ place' = Within(path)
        /\ tidy' = (tidy /\ place = Within(path))
        /\ said' = SetScalar(said, path, v)
        /\ Parse(Pair(Level(path), Key(path), v))
  BY <1>path
<1> DEFINE key == Key(path)
           line == Pair(Level(path), key, v)
<1>2. line.key = key /\ line.value = v /\ line.kind = "pair"
  BY DEF Pair
<1>3. ~failed /\ (ReadLanguage(line) \/ ParseCIKey(line) \/ ReadTopLevelKey(line))
  BY <1>1, PairIsRead
<1> HIDE DEF line
<1>4. /\ key \in {"budget", "include_tests", "go", "base", "output", "summary_json"}
      /\ Within(path) \notin Lists
  <2>1. CASE \E k \in {"budget", "include_tests"} : path = <<k>>
    BY <2>1, WhereTop, PathFacts
  <2>2. CASE path = <<"languages", "go">>
    BY <2>2, WhereBelow, PathFacts
  <2>3. CASE \E k \in {"budget", "base", "output", "summary_json"} : path = <<"ci", k>>
    BY <2>3, WhereBelow, PathFacts
  <2> QED BY <2>1, <2>2, <2>3, Paths
<1>5. IsMeaning(said') /\ said'.list = said.list
  BY <1>1, SetIsMeaning DEF CInv
<1>6. IsMeaning(cfg') /\ cfg'.list = cfg.list
  <2>1. CASE cfg' = cfg
    BY <2>1 DEF CInv, IsMeaning
  <2>2. ASSUME NEW p, cfg' = SetScalar(cfg, p, v) PROVE IsMeaning(cfg') /\ cfg'.list = cfg.list
    BY <2>2, SetIsMeaning DEF CInv
  <2>3. CASE ReadLanguage(line)
    BY <1>2, <2>1, <2>2, <2>3 DEF ReadLanguage, Fail
  <2>4. CASE ParseCIKey(line)
    <3>1. <<"ci", key>> \notin Lists
      BY <1>4, Paths
    <3> QED BY <1>2, <2>1, <2>2, <2>4, <3>1 DEF ParseCIKey, Fail
  <2>5. CASE ReadTopLevelKey(line)
    BY <1>2, <2>1, <2>2, <2>5 DEF ReadTopLevelKey
  <2> QED BY <1>3, <2>3, <2>4, <2>5
<1>7. CInv'
  BY <1>1, <1>3, <1>4, <1>5, <1>6 DEF CInv, ListsAgree
<1>8. ASSUME tidy' PROVE ~failed' /\ cfg' = said' /\ section' = place'
  <2>1. place = Within(path) /\ section = place /\ cfg = said /\ ~failed
    BY <1>1, <1>8 DEF Together
  <2>2. CASE \E k \in {"budget", "include_tests"} : path = <<k>>
    <3>1. path = <<key>> /\ section = <<>> /\ place' = <<>>
      BY <1>1, <2>1, <2>2, WhereTop
    <3>2. ReadTopLevelKey(line)
      BY <1>3, <3>1 DEF ReadLanguage, ParseCIKey
    <3> QED BY <1>1, <1>2, <2>1, <3>1, <3>2 DEF ReadTopLevelKey
  <2>3. CASE path = <<"languages", "go">>
    <3>1. key = "go" /\ section = <<"languages">> /\ place' = <<"languages">>
      BY <1>1, <2>1, <2>3, WhereBelow
    <3>2. ReadLanguage(line)
      BY <1>3, <3>1 DEF ParseCIKey, ReadTopLevelKey
    <3>3. v \in Bools
      BY <2>3 DEF ValuesOf
    <3> QED BY <1>1, <1>2, <2>1, <2>3, <3>1, <3>2, <3>3 DEF ReadLanguage
  <2>4. CASE \E k \in {"budget", "base", "output", "summary_json"} : path = <<"ci", k>>
    <3>1. path = <<"ci", key>> /\ section = <<"ci">> /\ place' = <<"ci">> /\ key \in {"budget", "base", "output", "summary_json"}
      BY <1>1, <2>1, <2>4, WhereBelow
    <3>2. ParseCIKey(line)
      BY <1>3, <3>1 DEF ReadLanguage, ReadTopLevelKey
    <3>3. path \notin Lists
      BY <3>1, Paths
    <3> QED BY <1>1, <1>2, <2>1, <3>1, <3>2, <3>3 DEF ParseCIKey
  <2> QED BY <2>2, <2>3, <2>4, Paths
<1> QED BY <1>7, <1>8 DEF Together

LEMMA InlineStep == CInv /\ Together /\ WriteInline => CInv' /\ Together'
<1> SUFFICES ASSUME CInv, Together, WriteInline PROVE CInv' /\ Together'
  OBVIOUS
<1>1. PICK path \in Lists, v \in Items, w \in Items :
        /\ Len(path) = 2 /\ place' = Within(path)
        /\ tidy' = (tidy /\ place = Within(path))
        /\ said' = AddItems(said, path, <<v, w>>)
        /\ Parse(Inline(Level(path), Key(path), <<v, w>>))
  BY DEF WriteInline
<1> DEFINE s == <<v, w>>
           key == Key(path)
           line == Inline(Level(path), key, s)
<1>2. line.key = key /\ line.value = s
  BY DEF Inline
<1>3. ~failed /\ (ParseCIKey(line) \/ ReadTopLevelKey(line))
  BY <1>1, InlineIsRead
<1>4. path = <<"ci", key>> /\ key \in {"fail_on", "forbid"} /\ place' = <<"ci">>
  BY <1>1, Paths, WhereBelow
<1>5. said' = AddItems(said, path, s)
  BY <1>1
<1> HIDE DEF line, key, s
<1>6. IsMeaning(said') /\ said'.list = Longer(said.list, path, s)
  <2> DEFINE n == AddItems(said, path, s)
  <2>1. IsMeaning(n) /\ n.list = Longer(said.list, path, s)
    BY SetFacts DEF CInv
  <2> QED BY <1>5, <2>1 DEF IsMeaning
<1>7. CASE ParseCIKey(line)
  <2>1. section = <<"ci">> /\ cfg' = AddItems(cfg, path, s) /\ UNCHANGED <<section, failed>>
    <3>1. path \in Lists /\ path \notin Scalars
      BY <1>4, Paths
    <3> QED BY <1>2, <1>4, <1>7, <3>1 DEF ParseCIKey
  <2>2. IsMeaning(cfg') /\ cfg'.list = Longer(cfg.list, path, s)
    <3> DEFINE n == AddItems(cfg, path, s)
    <3>1. IsMeaning(n) /\ n.list = Longer(cfg.list, path, s)
      BY SetFacts DEF CInv
    <3> QED BY <2>1, <3>1 DEF IsMeaning
  <2>3. CInv'
    BY <1>3, <1>4, <1>6, <2>1, <2>2, PathFacts DEF CInv, ListsAgree
  <2>4. Together'
    BY <1>1, <1>4, <1>5, <2>1 DEF Together
  <2> QED BY <2>3, <2>4
<1>8. CASE ReadTopLevelKey(line)
  <2>1. failed' /\ UNCHANGED cfg /\ section # <<"ci">>
    BY <1>2, <1>4, <1>8, Paths DEF ReadTopLevelKey
  <2>2. CInv'
    BY <1>4, <1>6, <2>1, PathFacts DEF CInv, ListsAgree, IsMeaning
  <2>3. ~tidy'
    BY <1>1, <1>4, <2>1 DEF Together
  <2> QED BY <2>2, <2>3 DEF Together
<1> QED BY <1>3, <1>7, <1>8

\* Each step of the author and the parser keeps what they have in common.
LEMMA FileInvariance == FileSpec => [](CInv /\ Together)
<1>1. FileInit => CInv /\ Together
  BY InitCInv DEF FileInit, Together
<1>2. CInv /\ Together /\ [FileNext]_fileVars => CInv' /\ Together'
  <2>1. CInv /\ Together /\ UNCHANGED fileVars => CInv' /\ Together'
    BY DEF CInv, Together, ListsAgree, IsMeaning, fileVars
  <2> QED BY <2>1, HeadingStep, ItemStep, ScalarStep, InlineStep DEF FileNext
<1> QED BY <1>1, <1>2, PTL DEF FileSpec

\* Whatever the order of the lines, a file that is accepted has lost no item of a
\* list and has given none to another list.
THEOREM ListsAreKept == FileSpec => []ListsKeepTheirPlace
<1>1. CInv => ListsKeepTheirPlace
  BY DEF CInv, ListsAgree, ListsKeepTheirPlace
<1> QED BY <1>1, FileInvariance, PTL

\* A file that has the scalars of each level before its sections is accepted, and
\* means to ctxpack what its indentation says.
THEOREM TidyFilesAreRead == FileSpec => []MeansWhatItSays
<1>1. Together => MeansWhatItSays
  BY DEF Together, MeansWhatItSays
<1> QED BY <1>1, FileInvariance, PTL
=============================================================================
