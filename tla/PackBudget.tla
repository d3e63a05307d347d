----------------------------- MODULE PackBudget -----------------------------
(***************************************************************************)
(* How ctxpack turns a ranked list of files into a pack that respects a    *)
(* token budget: budget.Select chooses a mode for each candidate from      *)
(* estimated costs, and pack.FitToBudget renders the pack, degrades        *)
(* selections until the rendered text fits, and then gives omitted files   *)
(* their summaries back where the text still fits.                         *)
(*                                                                         *)
(* The renderer is a parameter: nothing here assumes that degrading a      *)
(* selection makes the text shorter, because in the code it need not       *)
(* (MarkdownText models the renderer itself).                              *)
(***************************************************************************)
EXTENDS Integers, Sequences

CONSTANTS
  Files,                 \* the indexed files
  Cost,                  \* Cost[f][m]: estimated tokens of file f in mode m
  ScoredLists,           \* the rankings a pack may be built from, best first
  Budgets,               \* the token budgets callers pass
  RenderTokens(_, _, _)  \* tokens.Estimate(RenderMarkdown(...)) of a ranking,
                         \* a budget and the selections made from them

VARIABLES
  scored,       \* the ranking given to Select
  tokenBudget,  \* the budget given to Select and to FitToBudget
  pc,           \* "select", "downgrade", "promote" or "done"
  i,            \* the index of the loop that is running
  remaining,    \* Select: tokens not yet given away
  omitted,      \* Select: candidates that found no room
  selections,   \* the slice Select builds and FitToBudget updates in place
  markdown      \* the selections the current text was rendered from

\* Operators named Mutant... are deliberately wrong variants of the definition
\* that follows them.  Nothing uses them; each shows that a property is able to
\* fail.

vars == <<scored, tokenBudget, pc, i, remaining, omitted, selections, markdown>>
input == <<scored, tokenBudget>>
-----------------------------------------------------------------------------
(* Modes, from the finest to the coarsest, and what each of them costs.     *)

IncludedModes == {"full", "slices", "signatures", "summary"}
Modes == IncludedModes \cup {"omitted"}

\* The modes that show more of a file than the given one does.
Finer ==
  [full       |-> {},
   slices     |-> {"full"},
   signatures |-> {"full", "slices"},
   summary    |-> {"full", "slices", "signatures"},
   omitted    |-> IncludedModes]

ASSUME CostAssumption == Cost \in [Files -> [IncludedModes -> Nat]]
ASSUME InputAssumption == ScoredLists \subseteq Seq(Files) /\ Budgets \subseteq Int

Selections == [rank : Nat \ {0}, mode : Modes, tokens : Nat]

CostOf(r, m) == IF m = "omitted" THEN 0 ELSE Cost[scored[r]][m]
Selection(r, m) == [rank |-> r, mode |-> m, tokens |-> CostOf(r, m)]
-----------------------------------------------------------------------------
(* Thresholds of Select.                                                    *)

MaxCandidates == 30
MaxOmittedListed == 10
DefaultBudget == 12000

Reserve(b) == IF b < 6000 THEN 700 ELSE IF b > 20000 THEN 2000 ELSE 1200

\* The tokens Select may give away: the budget less a reserve for the text
\* around the files, but never less than half of the budget.
Allowance(b) ==
  LET asked == IF b <= 0 THEN DefaultBudget ELSE b
      left  == asked - Reserve(asked)
  IN IF left < asked \div 2 THEN asked \div 2 ELSE left

\* index counts from zero, as in the code.
ShouldIncludeFull(index, cost, left) ==
  /\ ~(cost > 4500 /\ left < 16000)
  /\ \/ index < 4
     \/ cost <= 4500 /\ (cost <= left \div 2 \/ left > 10000)
-----------------------------------------------------------------------------
(* Select: one action for each outcome of an iteration of its loop.         *)

Candidate == pc = "select" /\ i <= Len(scored) /\ i <= MaxCandidates

MutantAffordable(m) ==  \* never looks at what is left
  /\ m = "full" => ShouldIncludeFull(i - 1, Cost[scored[i]]["full"], remaining)
  /\ m = "slices" => Cost[scored[i]]["slices"] > 0

Affordable(m) ==
  LET cost == Cost[scored[i]] IN
  /\ cost[m] <= remaining
  /\ m = "full" => ShouldIncludeFull(i - 1, cost["full"], remaining)
  /\ m = "slices" => cost["slices"] > 0 /\ cost["slices"] < cost["full"]

MutantSelectMode ==  \* charges every mode as if the whole file were included
  /\ Candidate
  /\ \E m \in IncludedModes :
       /\ Affordable(m)
       /\ \A n \in Finer[m] : ~Affordable(n)
       /\ selections' = Append(selections, Selection(i, m))
       /\ remaining' = remaining - Cost[scored[i]]["full"]
  /\ i' = i + 1
  /\ UNCHANGED <<input, pc, omitted, markdown>>

SelectMode ==
  /\ Candidate
  /\ \E m \in IncludedModes :
       /\ Affordable(m)
       /\ \A n \in Finer[m] : ~Affordable(n)
       /\ selections' = Append(selections, Selection(i, m))
       /\ remaining' = remaining - Cost[scored[i]][m]
  /\ i' = i + 1
  /\ UNCHANGED <<input, pc, omitted, markdown>>

MutantSelectOmitted ==  \* hides the tenth file already
  /\ Candidate
  /\ \A m \in IncludedModes : ~Affordable(m)
  /\ omitted' = omitted + 1
  /\ selections' = IF omitted' >= MaxOmittedListed
                   THEN selections
                   ELSE Append(selections, Selection(i, "omitted"))
  /\ i' = i + 1
  /\ UNCHANGED <<input, pc, remaining, markdown>>

\* Past MaxOmittedListed a file without room leaves no trace in the pack.
SelectOmitted ==
  /\ Candidate
  /\ \A m \in IncludedModes : ~Affordable(m)
  /\ omitted' = omitted + 1
  /\ selections' = IF omitted' > MaxOmittedListed
                   THEN selections
                   ELSE Append(selections, Selection(i, "omitted"))
  /\ i' = i + 1
  /\ UNCHANGED <<input, pc, remaining, markdown>>

\* Select returns, and FitToBudget renders what it returned.
FirstRender ==
  /\ pc = "select" /\ ~Candidate
  /\ pc' = "downgrade"
  /\ markdown' = selections
  /\ UNCHANGED <<input, i, remaining, omitted, selections>>
-----------------------------------------------------------------------------
(* FitToBudget, first loop: while the text is over budget, coarsen the      *)
(* last selection of the finest mode in use and render again.               *)

Fits(s) == RenderTokens(scored, tokenBudget, s) <= tokenBudget

MutantSetMode(j, m) ==  \* keeps the old token count
  [selections EXCEPT ![j].mode = m]

SetMode(j, m) ==
  [selections EXCEPT ![j] = Selection(selections[j].rank, m)]

MutantLeastImportant(j) ==  \* coarsens the best-ranked file first
  /\ selections[j].mode # "omitted"
  /\ \A k \in DOMAIN selections :
       /\ selections[k].mode \notin Finer[selections[j].mode]
       /\ k < j => selections[k].mode # selections[j].mode

LeastImportant(j) ==
  /\ selections[j].mode # "omitted"
  /\ \A k \in DOMAIN selections :
       /\ selections[k].mode \notin Finer[selections[j].mode]
       /\ k > j => selections[k].mode # selections[j].mode

\* A full file becomes slices whenever it has a slice block at all, however
\* long that block is.
Coarser(j) ==
  CASE selections[j].mode = "full" ->
         IF CostOf(selections[j].rank, "slices") > 0 THEN "slices" ELSE "signatures"
    [] selections[j].mode = "slices"     -> "signatures"
    [] selections[j].mode = "signatures" -> "summary"
    [] OTHER                             -> "omitted"

DowngradeLeastImportant ==
  /\ pc = "downgrade" /\ ~Fits(markdown)
  /\ \E j \in DOMAIN selections :
       /\ LeastImportant(j)
       /\ selections' = SetMode(j, Coarser(j))
  /\ markdown' = selections'
  /\ UNCHANGED <<input, pc, i, remaining, omitted>>

MutantStopDowngrading ==  \* takes summaries for the last rung
  /\ pc = "downgrade"
  /\ \/ Fits(markdown)
     \/ \A j \in DOMAIN selections : selections[j].mode \in {"summary", "omitted"}
  /\ pc' = "promote"
  /\ i' = 1
  /\ UNCHANGED <<input, remaining, omitted, selections, markdown>>

\* The text fits, or nothing is left to coarsen.
StopDowngrading ==
  /\ pc = "downgrade"
  /\ Fits(markdown) \/ \A j \in DOMAIN selections : selections[j].mode = "omitted"
  /\ pc' = "promote"
  /\ i' = 1
  /\ UNCHANGED <<input, remaining, omitted, selections, markdown>>
-----------------------------------------------------------------------------
(* FitToBudget, second loop: scan the selections, try a summary for each    *)
(* omitted one, and start the scan over after every success.                *)

Scanning == pc = "promote" /\ i <= Len(selections)

SkipSelected ==
  /\ Scanning /\ selections[i].mode # "omitted"
  /\ i' = i + 1
  /\ UNCHANGED <<input, pc, remaining, omitted, selections, markdown>>

MutantPromoteUnchecked ==  \* keeps the trial without measuring it
  /\ Scanning /\ selections[i].mode = "omitted"
  /\ selections' = SetMode(i, "summary")
  /\ markdown' = selections'
  /\ i' = 1
  /\ UNCHANGED <<input, pc, remaining, omitted>>

MutantPromoteStaleText ==  \* forgets to keep the trial's text
  /\ Scanning /\ selections[i].mode = "omitted"
  /\ Fits(SetMode(i, "summary"))
  /\ selections' = SetMode(i, "summary")
  /\ i' = 1
  /\ UNCHANGED <<input, pc, remaining, omitted, markdown>>

PromoteOmitted ==
  /\ Scanning /\ selections[i].mode = "omitted"
  /\ Fits(SetMode(i, "summary"))
  /\ selections' = SetMode(i, "summary")
  /\ markdown' = selections'
  /\ i' = 1
  /\ UNCHANGED <<input, pc, remaining, omitted>>

MutantRestoreNothing ==  \* leaves the failed trial in the slice
  /\ Scanning /\ selections[i].mode = "omitted"
  /\ ~Fits(SetMode(i, "summary"))
  /\ selections' = SetMode(i, "summary")
  /\ i' = i + 1
  /\ UNCHANGED <<input, pc, remaining, omitted, markdown>>

MutantRestoreGivesUp ==  \* ends the scan at the first file without room
  /\ Scanning /\ selections[i].mode = "omitted"
  /\ ~Fits(SetMode(i, "summary"))
  /\ i' = Len(selections) + 1
  /\ UNCHANGED <<input, pc, remaining, omitted, selections, markdown>>

MutantRestoreRestarts ==  \* starts the scan over after a failed trial too
  /\ Scanning /\ selections[i].mode = "omitted"
  /\ ~Fits(SetMode(i, "summary"))
  /\ i' = 1
  /\ UNCHANGED <<input, pc, remaining, omitted, selections, markdown>>

\* The trial text is too long: the old selection is put back.
RestoreOmitted ==
  /\ Scanning /\ selections[i].mode = "omitted"
  /\ ~Fits(SetMode(i, "summary"))
  /\ i' = i + 1
  /\ UNCHANGED <<input, pc, remaining, omitted, selections, markdown>>

\* A whole scan promoted nothing: FitToBudget returns markdown, selections.
Return ==
  /\ pc = "promote" /\ i > Len(selections)
  /\ pc' = "done"
  /\ UNCHANGED <<input, i, remaining, omitted, selections, markdown>>

Returned == pc = "done" /\ UNCHANGED vars
-----------------------------------------------------------------------------
Init ==
  /\ scored \in ScoredLists
  /\ tokenBudget \in Budgets
  /\ pc = "select"
  /\ i = 1
  /\ remaining = Allowance(tokenBudget)
  /\ omitted = 0
  /\ selections = <<>>
  /\ markdown = <<>>

Next ==
  \/ SelectMode \/ SelectOmitted \/ FirstRender
  \/ DowngradeLeastImportant \/ StopDowngrading
  \/ SkipSelected \/ PromoteOmitted \/ RestoreOmitted \/ Return
  \/ Returned

\* One goroutine runs both functions.
Spec == Init /\ [][Next]_vars
-----------------------------------------------------------------------------
(* Properties.                                                              *)

\* Every variable keeps its type; in particular Select never overdraws remaining.
TypeOK ==
  /\ scored \in ScoredLists
  /\ tokenBudget \in Budgets
  /\ pc \in {"select", "downgrade", "promote", "done"}
  /\ i \in Nat \ {0}
  /\ remaining \in Nat
  /\ omitted \in Nat
  /\ selections \in Seq(Selections)
  /\ markdown \in Seq(Selections)

\* The token count reported for a selection (the diff summary adds them up) is
\* the cost of the mode it has now, after any number of degradations and
\* promotions made in place.
EstimatesFollowModes ==
  \A j \in DOMAIN selections :
    selections[j].tokens = CostOf(selections[j].rank, selections[j].mode)

\* Select considers the first MaxCandidates files, lists them in rank order,
\* and gives a file nothing only if not even its summary fits in what is left
\* at the end; it leaves a file out of the list only behind ten omitted ones.
Listed == {selections[j].rank : j \in DOMAIN selections}

Considered(r) == r \in DOMAIN scored /\ r <= MaxCandidates /\ (pc = "select" => r < i)

NoRoomLeftBehind ==
  /\ \A j, k \in DOMAIN selections : j < k => selections[j].rank < selections[k].rank
  /\ \A r \in DOMAIN scored : Considered(r) /\ r \notin Listed =>
       /\ Cost[scored[r]]["summary"] > remaining
       /\ Len(selections) >= MaxOmittedListed
  /\ pc = "select" => \A j \in DOMAIN selections :
       selections[j].mode = "omitted" =>
         Cost[scored[selections[j].rank]]["summary"] > remaining

\* What the selections of a list are charged with, added up.
Spent(list) ==
  LET spent[n \in 0 .. Len(list)] == IF n = 0 THEN 0 ELSE spent[n - 1] + list[n].tokens
  IN  spent[Len(list)]

\* Select never gives away more than the allowance: what it has charged the
\* listed files and what remains always add up to it.
SelectSpendsAllowance ==
  pc = "select" => remaining >= 0 /\ remaining + Spent(selections) = Allowance(tokenBudget)

\* FitToBudget never returns, or goes on from, a text rendered from other
\* selections than the ones it returns, although trials edit them in place.
TextMatchesSelections == pc # "select" => markdown = selections

\* A pack over budget is returned only when every listed file was omitted.
OverBudgetMeansEmpty ==
  pc \in {"promote", "done"} =>
    Fits(markdown) \/ \A j \in DOMAIN selections : selections[j].mode = "omitted"

\* No listed file is left out of the returned pack whose summary would fit.
PromotionMaximal ==
  pc = "done" => \A j \in DOMAIN selections :
    selections[j].mode = "omitted" => ~Fits(SetMode(j, "summary"))

\* FitToBudget coarsens a file only when no file shows more than it does and
\* no file ranked after it shows as much, and makes a file finer only by
\* turning an omitted one into a summary.
InOrder ==
  \A j \in DOMAIN selections :
    LET old == selections[j].mode
        new == selections'[j].mode
    IN old # new =>
         \/ /\ old \in Finer[new]
            /\ \A k \in DOMAIN selections :
                 /\ selections[k].mode \notin Finer[old]
                 /\ k > j => selections[k].mode # old
         \/ old = "omitted" /\ new = "summary"

DegradesInOrder == [][InOrder]_vars

\* FitToBudget ends, the second loop in spite of its restarts: every round of
\* the first loop uses up one of finitely many downgrades, and every step of the
\* scan either moves it on or leaves one omission less to scan for.
Downgrades(s) == {d \in (DOMAIN s) \X Modes : s[d[1]].mode \in Finer[d[2]]}
Omissions(s) == {j \in DOMAIN s : s[j].mode = "omitted"}
Fewer(new, old) == new \subseteq old /\ new # old

Advances ==
  /\ pc = "select" => pc' = "downgrade" \/ (pc' = pc /\ i < i' /\ i <= MaxCandidates)
  /\ pc = "downgrade" =>
       \/ pc' = "promote"
       \/ pc' = pc /\ Fewer(Downgrades(selections'), Downgrades(selections))
  /\ pc = "promote" =>
       \/ pc' = "done"
       \/ /\ pc' = pc
          /\ \/ Fewer(Omissions(selections'), Omissions(selections))
             \/ selections' = selections /\ i <= Len(selections) /\ i < i'

AlwaysAdvances == [][Advances]_vars
-----------------------------------------------------------------------------
(* The contract of FitToBudget, with everything but its answer hidden.      *)

Promise == INSTANCE PackPromise
             WITH pack <- IF pc = "done" THEN <<markdown>> ELSE <<>>

ImplementsPromise == Promise!Spec
=============================================================================
