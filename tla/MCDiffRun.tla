----------------------------- MODULE MCDiffRun -----------------------------
EXTENDS DiffRun

CONSTANT none

Request(ci, stdout, budget, summary, failOn, forbid) ==
  [ci |-> ci, stdout |-> stdout,
   flags |-> [budget |-> budget, summary |-> summary, failOn |-> failOn, forbid |-> forbid]]

File(valid, budget, ciBudget, summary, failOn, forbid) ==
  [valid |-> valid, budget |-> budget,
   ci |-> [budget |-> ciBudget, summary |-> summary, failOn |-> failOn, forbid |-> forbid]]

\* The budgets with each other, the checks with each other, and the artifacts:
\* with and without a summary, with and without a pack, with and without checks.
Budgetings == {Request(ci, FALSE, budget, none, none, none) : ci \in BOOLEAN, budget \in {none, 9000, 12000}}

Checkings ==
  {Request(ci, FALSE, none, none, failOn, forbid) :
     ci \in BOOLEAN, failOn \in {none, {"typo"}, {"all"}, {"missing-tests", "over-budget"}},
     forbid \in {none, "commas", "patterns"}}
  \cup {Request(TRUE, FALSE, none, none, none, "empty"), Request(TRUE, FALSE, none, none, {}, none),
        Request(FALSE, FALSE, none, none, {"forbidden-paths"}, "patterns")}

Artifacts ==
  {Request(TRUE, stdout, none, summary, none, none) :
     stdout \in BOOLEAN, summary \in {none, FALSE}}
  \cup {Request(FALSE, FALSE, none, TRUE, {"typo"}, none)}

MCRequests == Budgetings \cup Checkings \cup Artifacts

MCConfigs ==
  {File(TRUE, budget, ciBudget, none, none, none) : budget \in {none, 8000}, ciBudget \in {none, 9000, 12000}}
  \cup {File(TRUE, none, none, none, failOn, forbid) :
          failOn \in {none, {"omitted-changed"}}, forbid \in {none, "patterns"}}
  \cup {File(FALSE, none, none, none, none, none)}
=============================================================================
