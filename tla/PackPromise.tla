---------------------------- MODULE PackPromise -----------------------------
(***************************************************************************)
(* What a caller of budget.Select and pack.FitToBudget may rely on: one    *)
(* answer, which lists ranked files in order, is within the budget unless  *)
(* it shows nothing of any file, and has no room left for the summary of a *)
(* file it lists as omitted.  How the answer is found is PackBudget.       *)
(***************************************************************************)
EXTENDS Integers, Sequences

CONSTANTS Files, Cost, ScoredLists, Budgets, RenderTokens(_, _, _)

VARIABLES
  scored, tokenBudget,  \* the request
  pack                  \* <<>> until the answer is <<the selections rendered>>

pvars == <<scored, tokenBudget, pack>>

AnyMode == {"full", "slices", "signatures", "summary", "omitted"}
AnySelection == [rank : Nat \ {0}, mode : AnyMode, tokens : Nat]

Within(s) == RenderTokens(scored, tokenBudget, s) <= tokenBudget

Summarised(s, j) ==
  [s EXCEPT ![j] = [rank   |-> s[j].rank,
                    mode   |-> "summary",
                    tokens |-> Cost[scored[s[j].rank]]["summary"]]]

Acceptable(s) ==
  /\ \A j \in DOMAIN s : s[j].rank \in DOMAIN scored
  /\ \A j, k \in DOMAIN s : j < k => s[j].rank < s[k].rank
  /\ Within(s) \/ \A j \in DOMAIN s : s[j].mode = "omitted"
  /\ \A j \in DOMAIN s : s[j].mode = "omitted" => ~Within(Summarised(s, j))

Init == scored \in ScoredLists /\ tokenBudget \in Budgets /\ pack = <<>>

Answer ==
  /\ pack = <<>>
  /\ pack' \in Seq(Seq(AnySelection)) /\ Len(pack') = 1
  /\ Acceptable(pack'[1])
  /\ UNCHANGED <<scored, tokenBudget>>

Spec == Init /\ [][Answer]_pvars
=============================================================================
