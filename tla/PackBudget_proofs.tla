------------------------- MODULE PackBudget_proofs --------------------------
(***************************************************************************)
(* What Select and FitToBudget guarantee for every ranking, every budget   *)
(* and every renderer, and that the checklist of the returned text         *)
(* announces the changed files that the text leaves out.                   *)
(***************************************************************************)
EXTENDS PackText, WellFoundedInduction, TLAPS

-----------------------------------------------------------------------------
(* The inductive invariant.                                                 *)

\* Selections are made in rank order, from files already visited.
Ranked ==
  /\ \A j \in DOMAIN selections :
       /\ selections[j].rank \in DOMAIN scored
       /\ pc = "select" => selections[j].rank < i
  /\ \A j, k \in DOMAIN selections : j < k => selections[j].rank < selections[k].rank

\* What Select has left out, and why.  A candidate without room is counted, and
\* the first ten of them are listed.
LeftOut ==
  /\ Len(selections) >= (IF omitted > MaxOmittedListed THEN MaxOmittedListed ELSE omitted)
  /\ \A r \in DOMAIN scored : Considered(r) /\ r \notin Listed =>
       Cost[scored[r]]["summary"] > remaining /\ omitted > MaxOmittedListed
  /\ pc = "select" => \A j \in DOMAIN selections :
       selections[j].mode = "omitted" =>
         Cost[scored[selections[j].rank]]["summary"] > remaining

\* The omitted selections the running scan has passed found no room, and the
\* scan has passed them all when it ends.
ScanSoFar ==
  /\ pc = "promote" => \A j \in DOMAIN selections :
       j < i /\ selections[j].mode = "omitted" => ~Fits(SetMode(j, "summary"))
  /\ PromotionMaximal

IInv ==
  /\ TypeOK
  /\ Ranked
  /\ EstimatesFollowModes
  /\ LeftOut
  /\ TextMatchesSelections
  /\ OverBudgetMeansEmpty
  /\ ScanSoFar
-----------------------------------------------------------------------------
(* Facts about the operators.                                               *)

\* Ranks and positions in the list are positive numbers.
LEMMA ListTypes ==
  ASSUME TypeOK
  PROVE  /\ scored \in Seq(Files)
         /\ \A r \in DOMAIN scored : r \in Nat \ {0} /\ scored[r] \in Files
         /\ \A j \in DOMAIN selections :
              /\ j \in Nat \ {0} /\ j <= Len(selections)
              /\ selections[j].rank \in Nat \ {0}
              /\ selections[j].mode \in Modes
<1>1. scored \in Seq(Files) /\ selections \in Seq(Selections)
  BY InputAssumption DEF TypeOK
<1>2. \A j \in DOMAIN selections : selections[j] \in Selections
  BY <1>1
<1> QED BY <1>1, <1>2 DEF Selections

\* The cost of a listed file in any mode is a natural number.
LEMMA CostType ==
  ASSUME TypeOK, NEW r \in DOMAIN scored, NEW m \in Modes
  PROVE  /\ CostOf(r, m) \in Nat
         /\ Selection(r, m) \in Selections
         /\ Selection(r, m).rank = r
         /\ Selection(r, m).mode = m
         /\ Selection(r, m).tokens = CostOf(r, m)
<1>1. scored \in Seq(Files)
  BY InputAssumption DEF TypeOK
<1>2. r \in Nat \ {0} /\ scored[r] \in Files
  BY <1>1
<1>3. CASE m = "omitted"
  BY <1>2, <1>3 DEF CostOf, Selection, Selections, Modes, IncludedModes
<1>4. CASE m \in IncludedModes
  <2>1. Cost[scored[r]][m] \in Nat
    BY <1>2, <1>4, CostAssumption
  <2> QED BY <1>2, <1>4, <2>1 DEF CostOf, Selection, Selections, Modes, IncludedModes
<1> QED BY <1>3, <1>4 DEF Modes

\* Changing the mode of one selection keeps the list, its ranks and the rest.
LEMMA SetModeFacts ==
  ASSUME TypeOK, Ranked, NEW j \in DOMAIN selections, NEW m \in Modes
  PROVE  /\ SetMode(j, m) \in Seq(Selections)
         /\ Len(SetMode(j, m)) = Len(selections)
         /\ DOMAIN SetMode(j, m) = DOMAIN selections
         /\ SetMode(j, m)[j] = Selection(selections[j].rank, m)
         /\ \A k \in DOMAIN selections : k # j => SetMode(j, m)[k] = selections[k]
         /\ \A k \in DOMAIN selections : SetMode(j, m)[k].rank = selections[k].rank
<1>1. selections[j].rank \in DOMAIN scored
  BY DEF Ranked
<1>2. Selection(selections[j].rank, m) \in Selections
      /\ Selection(selections[j].rank, m).rank = selections[j].rank
  BY <1>1, CostType
<1>3. selections \in Seq(Selections)
  BY DEF TypeOK
<1> QED BY <1>2, <1>3 DEF SetMode

\* The allowance is a natural number.
LEMMA AllowanceType ==
  ASSUME NEW b \in Int
  PROVE  Allowance(b) \in Nat
BY DEF Allowance, Reserve, DefaultBudget
-----------------------------------------------------------------------------
(* The inductive invariant holds initially and is preserved by each action. *)

LEMMA InitIInv == Init => IInv
<1> SUFFICES ASSUME Init PROVE IInv
  OBVIOUS
<1>1. selections = <<>> /\ DOMAIN selections = {} /\ Len(selections) = 0
  BY DEF Init
<1>2. TypeOK
  <2>1. remaining \in Nat
    BY AllowanceType, InputAssumption DEF Init
  <2> QED BY <2>1 DEF Init, TypeOK
<1>3. LeftOut
  BY <1>1 DEF Init, LeftOut, Considered, MaxOmittedListed, TypeOK
<1> QED
  BY <1>1, <1>2, <1>3 DEF Init, IInv, Ranked, EstimatesFollowModes,
     TextMatchesSelections, OverBudgetMeansEmpty, ScanSoFar, PromotionMaximal

\* A candidate is a file of the ranking.
LEMMA CandidateType ==
  ASSUME TypeOK, Candidate
  PROVE  /\ i \in DOMAIN scored /\ scored[i] \in Files
         /\ \A m \in IncludedModes : Cost[scored[i]][m] \in Nat
<1>1. scored \in Seq(Files) /\ i \in Nat \ {0} /\ i <= Len(scored)
  BY InputAssumption DEF TypeOK, Candidate
<1>2. i \in DOMAIN scored /\ scored[i] \in Files
  BY <1>1
<1> QED BY <1>2, CostAssumption

\* Listing the candidate keeps the list typed, ranked and priced.
LEMMA AppendFacts ==
  ASSUME TypeOK, Ranked, EstimatesFollowModes, Candidate, NEW m \in Modes,
         selections' = Append(selections, Selection(i, m)),
         i' = i + 1, pc' = pc, scored' = scored
  PROVE  /\ selections' \in Seq(Selections)
         /\ Len(selections') = Len(selections) + 1
         /\ \A j \in DOMAIN selections : j \in DOMAIN selections' /\ selections'[j] = selections[j]
         /\ \A j \in DOMAIN selections' :
              j \in DOMAIN selections \/ j = Len(selections) + 1
         /\ Len(selections) + 1 \in DOMAIN selections'
         /\ selections'[Len(selections) + 1].rank = i
         /\ selections'[Len(selections) + 1].mode = m
         /\ Ranked' /\ EstimatesFollowModes'
<1>1. i \in DOMAIN scored /\ i \in Nat \ {0}
  BY CandidateType DEF TypeOK
<1>2. /\ Selection(i, m) \in Selections
      /\ Selection(i, m).rank = i
      /\ Selection(i, m).mode = m
      /\ Selection(i, m).tokens = CostOf(i, m)
  BY <1>1, CostType
<1>3. selections \in Seq(Selections)
  BY DEF TypeOK
<1>4. /\ selections' \in Seq(Selections)
      /\ Len(selections') = Len(selections) + 1
      /\ DOMAIN selections' = 1 .. (Len(selections) + 1)
      /\ DOMAIN selections = 1 .. Len(selections)
      /\ \A j \in DOMAIN selections : selections'[j] = selections[j]
      /\ selections'[Len(selections) + 1] = Selection(i, m)
  BY <1>2, <1>3
<1>5. \A j \in DOMAIN selections' : j \in DOMAIN selections \/ j = Len(selections) + 1
  BY <1>3, <1>4
<1>6. \A j \in DOMAIN selections : selections[j].rank \in Nat /\ selections[j].rank < i
  BY <1>3 DEF Ranked, Candidate, Selections
<1>7. Ranked'
  BY <1>1, <1>2, <1>3, <1>4, <1>5, <1>6 DEF Ranked
<1>8. EstimatesFollowModes'
  BY <1>2, <1>4, <1>5 DEF EstimatesFollowModes, CostOf
<1> QED BY <1>2, <1>3, <1>4, <1>5, <1>7, <1>8

LEMMA SelectModeIInv ==
  ASSUME IInv, SelectMode
  PROVE  IInv'
<1> USE DEF IInv
<1>1. PICK m \in IncludedModes :
        /\ Affordable(m)
        /\ selections' = Append(selections, Selection(i, m))
        /\ remaining' = remaining - Cost[scored[i]][m]
  BY DEF SelectMode
<1>2. /\ Candidate /\ i' = i + 1 /\ pc' = pc /\ pc = "select"
      /\ scored' = scored /\ tokenBudget' = tokenBudget
      /\ omitted' = omitted /\ markdown' = markdown
  BY DEF SelectMode, Candidate, input
<1>3. m \in Modes
  BY DEF Modes
<1>4. /\ selections' \in Seq(Selections)
      /\ Len(selections') = Len(selections) + 1
      /\ \A j \in DOMAIN selections : j \in DOMAIN selections' /\ selections'[j] = selections[j]
      /\ \A j \in DOMAIN selections' : j \in DOMAIN selections \/ j = Len(selections) + 1
      /\ Len(selections) + 1 \in DOMAIN selections'
      /\ selections'[Len(selections) + 1].rank = i
      /\ selections'[Len(selections) + 1].mode = m
      /\ Ranked' /\ EstimatesFollowModes'
  BY <1>1, <1>2, <1>3, AppendFacts
<1>5. /\ i \in DOMAIN scored /\ scored[i] \in Files
      /\ \A n \in IncludedModes : Cost[scored[i]][n] \in Nat
  BY <1>2, CandidateType
<1>6. remaining' \in Nat /\ remaining' <= remaining /\ remaining \in Nat
  BY <1>1, <1>5 DEF Affordable, TypeOK
<1>7. TypeOK'
  BY <1>2, <1>4, <1>6 DEF TypeOK
<1>8. LeftOut'
  <2>1. Len(selections') >= (IF omitted' > MaxOmittedListed THEN MaxOmittedListed ELSE omitted')
    BY <1>2, <1>4 DEF LeftOut, MaxOmittedListed, TypeOK
  <2>2. ASSUME NEW r \in DOMAIN scored, Considered(r)', r \notin Listed'
        PROVE  Cost[scored[r]]["summary"] > remaining' /\ omitted > MaxOmittedListed
    <3>1. r # i
      BY <1>4, <2>2 DEF Listed
    <3>2. Considered(r)
      BY <1>2, <2>2, <3>1 DEF Considered, TypeOK
    <3>3. r \notin Listed
      BY <1>4, <2>2 DEF Listed
    <3>4. Cost[scored[r]]["summary"] \in Nat
      BY ListTypes, CostAssumption DEF IncludedModes
    <3> QED BY <1>6, <3>2, <3>3, <3>4 DEF LeftOut
  <2>3. ASSUME NEW j \in DOMAIN selections', selections'[j].mode = "omitted"
        PROVE  Cost[scored[selections'[j].rank]]["summary"] > remaining'
    <3>1. j \in DOMAIN selections /\ selections'[j] = selections[j]
      BY <1>3, <1>4, <2>3 DEF IncludedModes
    <3>2. selections[j].rank \in DOMAIN scored
      BY <3>1 DEF Ranked
    <3>3. Cost[scored[selections[j].rank]]["summary"] \in Nat
      BY <3>2, ListTypes, CostAssumption DEF IncludedModes
    <3> QED BY <1>2, <1>6, <2>3, <3>1, <3>3 DEF LeftOut
  <2> QED BY <1>2, <2>1, <2>2, <2>3 DEF LeftOut
<1> QED
  BY <1>2, <1>4, <1>7, <1>8 DEF TextMatchesSelections, OverBudgetMeansEmpty, ScanSoFar,
     PromotionMaximal

LEMMA SelectOmittedIInv ==
  ASSUME IInv, SelectOmitted
  PROVE  IInv'
<1> USE DEF IInv
<1>1. /\ Candidate /\ i' = i + 1 /\ pc' = pc /\ pc = "select"
      /\ scored' = scored /\ tokenBudget' = tokenBudget
      /\ remaining' = remaining /\ markdown' = markdown
      /\ omitted' = omitted + 1 /\ omitted \in Nat /\ remaining \in Nat
      /\ \A m \in IncludedModes : ~Affordable(m)
  BY DEF SelectOmitted, Candidate, input, TypeOK
<1>2. /\ i \in DOMAIN scored /\ scored[i] \in Files
      /\ \A n \in IncludedModes : Cost[scored[i]][n] \in Nat
  BY <1>1, CandidateType
<1>3. Cost[scored[i]]["summary"] > remaining
  BY <1>1, <1>2 DEF Affordable, IncludedModes
<1>4. CASE omitted' > MaxOmittedListed
  <2>1. selections' = selections
    BY <1>4 DEF SelectOmitted
  <2>2. TypeOK' /\ Ranked' /\ EstimatesFollowModes'
    <3>1. TypeOK' /\ EstimatesFollowModes'
      BY <1>1, <2>1 DEF TypeOK, EstimatesFollowModes, CostOf
    <3>2. \A j \in DOMAIN selections : selections[j].rank \in Nat
      BY ListTypes
    <3>3. Ranked'
      BY <1>1, <2>1, <3>2 DEF Ranked, TypeOK
    <3> QED BY <3>1, <3>3
  <2>3. LeftOut'
    <3>1. Len(selections') >= MaxOmittedListed
      BY <1>1, <1>4, <2>1 DEF LeftOut, MaxOmittedListed
    <3>2. ASSUME NEW r \in DOMAIN scored, Considered(r)', r \notin Listed'
          PROVE  Cost[scored[r]]["summary"] > remaining'
      <4>1. CASE r = i
        BY <1>1, <1>3, <4>1
      <4>2. CASE r # i
        BY <1>1, <2>1, <3>2, <4>2, ListTypes DEF LeftOut, Considered, Listed, TypeOK
      <4> QED BY <4>1, <4>2
    <3> QED BY <1>1, <1>4, <2>1, <3>1, <3>2 DEF LeftOut
  <2> QED
    BY <1>1, <2>2, <2>3 DEF TextMatchesSelections, OverBudgetMeansEmpty, ScanSoFar,
       PromotionMaximal
<1>5. CASE ~(omitted' > MaxOmittedListed)
  <2>1. selections' = Append(selections, Selection(i, "omitted"))
    BY <1>5 DEF SelectOmitted
  <2>2. /\ selections' \in Seq(Selections)
        /\ Len(selections') = Len(selections) + 1
        /\ \A j \in DOMAIN selections : j \in DOMAIN selections' /\ selections'[j] = selections[j]
        /\ \A j \in DOMAIN selections' : j \in DOMAIN selections \/ j = Len(selections) + 1
        /\ Len(selections) + 1 \in DOMAIN selections'
        /\ selections'[Len(selections) + 1].rank = i
        /\ Ranked' /\ EstimatesFollowModes'
    BY <1>1, <2>1, AppendFacts DEF Modes
  <2>3. TypeOK'
    BY <1>1, <2>2 DEF TypeOK
  <2>4. LeftOut'
    <3>1. Len(selections') >= omitted'
      BY <1>1, <1>5, <2>2 DEF LeftOut, MaxOmittedListed, TypeOK
    <3>2. ASSUME NEW r \in DOMAIN scored, Considered(r)', r \notin Listed'
          PROVE  FALSE
      <4>1. r # i
        BY <2>2, <3>2 DEF Listed
      <4>2. Considered(r) /\ r \notin Listed
        BY <1>1, <2>2, <3>2, <4>1, ListTypes DEF Considered, Listed, TypeOK
      <4> QED BY <1>1, <1>5, <4>2 DEF LeftOut, MaxOmittedListed
    <3>3. ASSUME NEW j \in DOMAIN selections', selections'[j].mode = "omitted"
          PROVE  Cost[scored[selections'[j].rank]]["summary"] > remaining'
      BY <1>1, <1>3, <2>2, <3>3 DEF LeftOut
    <3> QED BY <1>1, <1>5, <3>1, <3>2, <3>3 DEF LeftOut
  <2> QED
    BY <1>1, <2>2, <2>3, <2>4 DEF TextMatchesSelections, OverBudgetMeansEmpty, ScanSoFar,
       PromotionMaximal
<1> QED BY <1>4, <1>5

LEMMA FirstRenderIInv ==
  ASSUME IInv, FirstRender
  PROVE  IInv'
<1> USE DEF IInv
<1>1. /\ pc = "select" /\ pc' = "downgrade" /\ ~Candidate
      /\ markdown' = selections /\ selections' = selections
      /\ scored' = scored /\ tokenBudget' = tokenBudget /\ i' = i
      /\ remaining' = remaining /\ omitted' = omitted
  BY DEF FirstRender, input
<1>2. TypeOK' /\ Ranked' /\ EstimatesFollowModes'
  BY <1>1 DEF TypeOK, Ranked, EstimatesFollowModes, CostOf
<1>3. LeftOut'
  <2>1. scored \in Seq(Files) /\ i \in Nat
    BY InputAssumption DEF TypeOK
  <2>2. \A r \in DOMAIN scored : r <= MaxCandidates => r < i
    BY <1>1, <2>1 DEF Candidate, MaxCandidates
  <2> QED BY <1>1, <2>2 DEF LeftOut, Considered, Listed
<1> QED
  BY <1>1, <1>2, <1>3 DEF TextMatchesSelections, OverBudgetMeansEmpty, ScanSoFar,
     PromotionMaximal

\* Once Select has returned, changing the mode of one selection in place
\* disturbs neither the types nor the ranks, the prices or what was left out.
LEMMA InPlace ==
  ASSUME IInv, pc # "select", pc' = pc, NEW j \in DOMAIN selections, NEW m \in Modes,
         selections' = SetMode(j, m), markdown' = selections',
         i' \in Nat \ {0}, scored' = scored, tokenBudget' = tokenBudget,
         remaining' = remaining, omitted' = omitted
  PROVE  /\ DOMAIN selections' = DOMAIN selections
         /\ selections'[j].mode = m
         /\ \A k \in DOMAIN selections : k # j => selections'[k] = selections[k]
         /\ TypeOK' /\ Ranked' /\ EstimatesFollowModes' /\ LeftOut'
         /\ TextMatchesSelections'
<1> USE DEF IInv
<1>1. /\ selections' \in Seq(Selections)
      /\ Len(selections') = Len(selections)
      /\ DOMAIN selections' = DOMAIN selections
      /\ selections'[j] = Selection(selections[j].rank, m)
      /\ \A k \in DOMAIN selections : k # j => selections'[k] = selections[k]
      /\ \A k \in DOMAIN selections : selections'[k].rank = selections[k].rank
  BY SetModeFacts
<1>2. /\ selections'[j].mode = m
      /\ selections'[j].tokens = CostOf(selections[j].rank, m)
  BY <1>1, CostType DEF Ranked
<1>3. TypeOK' /\ Ranked' /\ TextMatchesSelections'
  BY <1>1 DEF TypeOK, Ranked, TextMatchesSelections
<1>4. EstimatesFollowModes'
  BY <1>1, <1>2 DEF EstimatesFollowModes, CostOf
<1>5. Listed' = Listed
  BY <1>1 DEF Listed
<1>6. LeftOut'
  BY <1>1, <1>5 DEF LeftOut, Considered
<1> QED BY <1>1, <1>2, <1>3, <1>4, <1>6

\* A step that only moves the control leaves the list and its facts alone.
LEMMA ControlStep ==
  ASSUME IInv, pc # "select", pc' \in {"promote", "done"}, i' \in Nat \ {0},
         UNCHANGED <<input, remaining, omitted, selections, markdown>>
  PROVE  TypeOK' /\ Ranked' /\ EstimatesFollowModes' /\ LeftOut' /\ TextMatchesSelections'
<1> USE DEF IInv, input
<1>1. TypeOK' /\ Ranked' /\ TextMatchesSelections'
  BY DEF TypeOK, Ranked, TextMatchesSelections
<1>2. EstimatesFollowModes'
  BY DEF EstimatesFollowModes, CostOf
<1>3. LeftOut'
  BY DEF LeftOut, Considered, Listed
<1> QED BY <1>1, <1>2, <1>3

LEMMA DowngradeIInv ==
  ASSUME IInv, DowngradeLeastImportant
  PROVE  IInv'
<1>1. PICK j \in DOMAIN selections :
        LeastImportant(j) /\ selections' = SetMode(j, Coarser(j))
  BY DEF DowngradeLeastImportant
<1>2. /\ pc = "downgrade" /\ pc' = pc /\ markdown' = selections'
      /\ i' = i /\ scored' = scored /\ tokenBudget' = tokenBudget
      /\ remaining' = remaining /\ omitted' = omitted
  BY DEF DowngradeLeastImportant, input
<1>3. Coarser(j) \in Modes
  BY DEF Coarser, Modes, IncludedModes
<1>4. TypeOK' /\ Ranked' /\ EstimatesFollowModes' /\ LeftOut' /\ TextMatchesSelections'
  BY <1>1, <1>2, <1>3, InPlace DEF IInv, TypeOK
<1> QED BY <1>2, <1>4 DEF IInv, OverBudgetMeansEmpty, ScanSoFar, PromotionMaximal

LEMMA StopIInv ==
  ASSUME IInv, StopDowngrading
  PROVE  IInv'
<1>1. /\ pc = "downgrade" /\ pc' = "promote" /\ i' = 1
      /\ UNCHANGED <<input, remaining, omitted, selections, markdown>>
      /\ Fits(markdown) \/ \A j \in DOMAIN selections : selections[j].mode = "omitted"
  BY DEF StopDowngrading
<1>2. TypeOK' /\ Ranked' /\ EstimatesFollowModes' /\ LeftOut' /\ TextMatchesSelections'
  BY <1>1, ControlStep
<1>3. OverBudgetMeansEmpty'
  BY <1>1 DEF OverBudgetMeansEmpty, Fits, input
<1>4. ScanSoFar'
  <2>1. \A j \in DOMAIN selections : ~(j < 1)
    BY ListTypes DEF IInv
  <2> QED BY <1>1, <2>1 DEF ScanSoFar, PromotionMaximal
<1> QED BY <1>2, <1>3, <1>4 DEF IInv

\* The scan moves past position i.
LEMMA ScanStep ==
  ASSUME IInv, Scanning, i' = i + 1, pc' = pc,
         UNCHANGED <<input, remaining, omitted, selections, markdown>>,
         selections[i].mode = "omitted" => ~Fits(SetMode(i, "summary"))
  PROVE  IInv'
<1>1. pc = "promote" /\ i \in Nat \ {0} /\ i' \in Nat \ {0}
  BY DEF Scanning, IInv, TypeOK
<1>2. TypeOK' /\ Ranked' /\ EstimatesFollowModes' /\ LeftOut' /\ TextMatchesSelections'
  BY <1>1, ControlStep
<1>3. OverBudgetMeansEmpty'
  BY <1>1 DEF IInv, OverBudgetMeansEmpty, Fits, input
<1>4. ScanSoFar'
  <2>1. ASSUME NEW j \in DOMAIN selections, j < i + 1, selections[j].mode = "omitted"
        PROVE  ~Fits(SetMode(j, "summary"))
    <3>1. j < i \/ j = i
      BY <1>1, <2>1, ListTypes DEF IInv
    <3> QED BY <1>1, <2>1, <3>1 DEF IInv, ScanSoFar
  <2> QED BY <1>1, <2>1 DEF ScanSoFar, PromotionMaximal, Fits, SetMode, Selection, CostOf, input
<1> QED BY <1>2, <1>3, <1>4 DEF IInv

LEMMA PromoteIInv ==
  ASSUME IInv, PromoteOmitted
  PROVE  IInv'
<1>1. /\ pc = "promote" /\ pc' = pc /\ i' = 1 /\ i \in Nat \ {0} /\ i <= Len(selections)
      /\ Fits(SetMode(i, "summary"))
      /\ selections' = SetMode(i, "summary") /\ markdown' = selections'
      /\ scored' = scored /\ tokenBudget' = tokenBudget
      /\ remaining' = remaining /\ omitted' = omitted
  BY DEF PromoteOmitted, Scanning, input, IInv, TypeOK
<1>2. i \in DOMAIN selections
  BY <1>1 DEF IInv, TypeOK
<1>3. TypeOK' /\ Ranked' /\ EstimatesFollowModes' /\ LeftOut' /\ TextMatchesSelections'
  BY <1>1, <1>2, InPlace DEF Modes, IncludedModes
<1>4. OverBudgetMeansEmpty'
  BY <1>1 DEF OverBudgetMeansEmpty, Fits
<1>5. ScanSoFar'
  <2>1. \A j \in DOMAIN selections' : ~(j < 1)
    BY <1>3 DEF TypeOK
  <2> QED BY <1>1, <2>1 DEF ScanSoFar, PromotionMaximal
<1> QED BY <1>3, <1>4, <1>5 DEF IInv

LEMMA ReturnIInv ==
  ASSUME IInv, Return
  PROVE  IInv'
<1>1. /\ pc = "promote" /\ pc' = "done" /\ i > Len(selections) /\ i' = i /\ i \in Nat \ {0}
      /\ UNCHANGED <<input, remaining, omitted, selections, markdown>>
  BY DEF Return, IInv, TypeOK
<1>2. TypeOK' /\ Ranked' /\ EstimatesFollowModes' /\ LeftOut' /\ TextMatchesSelections'
  BY <1>1, ControlStep
<1>3. OverBudgetMeansEmpty'
  BY <1>1 DEF IInv, OverBudgetMeansEmpty, Fits, input
<1>4. \A j \in DOMAIN selections : j < i
  BY <1>1, ListTypes DEF IInv, TypeOK
<1>5. \A j \in DOMAIN selections :
        selections[j].mode = "omitted" => ~Fits(SetMode(j, "summary"))
  BY <1>1, <1>4 DEF IInv, ScanSoFar
<1>6. ScanSoFar'
  BY <1>1, <1>5 DEF ScanSoFar, PromotionMaximal, Fits, SetMode, Selection, CostOf, input
<1> QED BY <1>2, <1>3, <1>6 DEF IInv

LEMMA StutterIInv ==
  ASSUME IInv, UNCHANGED vars
  PROVE  IInv'
BY DEF vars, IInv, TypeOK, Ranked, EstimatesFollowModes, LeftOut, Considered, Listed,
   TextMatchesSelections, OverBudgetMeansEmpty, ScanSoFar, PromotionMaximal, Fits,
   SetMode, Selection, CostOf

LEMMA NextIInv == IInv /\ [Next]_vars => IInv'
<1> SUFFICES ASSUME IInv, [Next]_vars PROVE IInv'
  OBVIOUS
<1>1. CASE SelectMode              BY <1>1, SelectModeIInv
<1>2. CASE SelectOmitted           BY <1>2, SelectOmittedIInv
<1>3. CASE FirstRender             BY <1>3, FirstRenderIInv
<1>4. CASE DowngradeLeastImportant BY <1>4, DowngradeIInv
<1>5. CASE StopDowngrading         BY <1>5, StopIInv
<1>6. CASE SkipSelected            BY <1>6, ScanStep DEF SkipSelected
<1>7. CASE PromoteOmitted          BY <1>7, PromoteIInv
<1>8. CASE RestoreOmitted          BY <1>8, ScanStep DEF RestoreOmitted
<1>9. CASE Return                  BY <1>9, ReturnIInv
<1>10. CASE UNCHANGED vars         BY <1>10, StutterIInv
<1> QED
  BY <1>1, <1>2, <1>3, <1>4, <1>5, <1>6, <1>7, <1>8, <1>9, <1>10 DEF Next, Returned

LEMMA Invariance == Spec => []IInv
<1> QED BY InitIInv, NextIInv, PTL DEF Spec
-----------------------------------------------------------------------------
(* The invariants the runs check.                                           *)

\* Every variable of Select and FitToBudget keeps its type; in particular
\* Select never gives away more than it has left.
THEOREM TypeCorrect == Spec => []TypeOK
<1>1. IInv => TypeOK
  BY DEF IInv
<1> QED BY <1>1, Invariance, PTL

\* The token counts reported for the selections are those of their modes.
THEOREM EstimatesCorrect == Spec => []EstimatesFollowModes
<1>1. IInv => EstimatesFollowModes
  BY DEF IInv
<1> QED BY <1>1, Invariance, PTL

\* Select lists candidates in rank order, starves a candidate only when its
\* summary does not fit, and hides one only behind ten listed omissions.
THEOREM SelectLeavesNoRoom == Spec => []NoRoomLeftBehind
<1>1. IInv => NoRoomLeftBehind
  BY DEF IInv, Ranked, LeftOut, NoRoomLeftBehind, MaxOmittedListed
<1> QED BY <1>1, Invariance, PTL

\* The text FitToBudget returns was rendered from the selections it returns.
THEOREM TextIsCurrent == Spec => []TextMatchesSelections
<1>1. IInv => TextMatchesSelections
  BY DEF IInv
<1> QED BY <1>1, Invariance, PTL

\* Whatever the renderer, a pack over budget shows nothing of any file.
THEOREM BudgetOrEmpty == Spec => []OverBudgetMeansEmpty
<1>1. IInv => OverBudgetMeansEmpty
  BY DEF IInv
<1> QED BY <1>1, Invariance, PTL

\* Whatever the renderer, no omitted file of a returned pack could be summarised.
THEOREM Maximality == Spec => []PromotionMaximal
<1>1. IInv => PromotionMaximal
  BY DEF IInv, ScanSoFar
<1> QED BY <1>1, Invariance, PTL
-----------------------------------------------------------------------------
(* The sum of the charges, by way of its running totals.                    *)

\* A set of natural numbers has a least element.
LEMMA LeastNat ==
  ASSUME NEW T \in SUBSET Nat, T # {}
  PROVE  \E x \in T : \A y \in T : x <= y
<1> DEFINE R == {ss \in Nat \X Nat : ss[1] < ss[2]}
<1>1. IsWellFoundedOn(R, Nat)
  BY NatLessThanWellFounded DEF OpToRel
<1>2. PICK x \in T : \A y \in T : ~(<<y, x>> \in R)
  BY <1>1, WFMin
<1>3. ASSUME NEW y \in T PROVE x <= y
  <2>1. x \in Nat /\ y \in Nat /\ <<y, x>> \in Nat \X Nat
    OBVIOUS
  <2>2. ~(y < x)
    BY <1>2, <2>1
  <2> QED BY <2>1, <2>2
<1> QED BY <1>3

\* The running totals of the first m charges of a list.
AddsUp(f, list, m) == f[0] = 0 /\ \A n \in 1 .. m : f[n] = f[n - 1] + list[n].tokens
Totals(f, list, m) == f \in [0 .. m -> Nat] /\ AddsUp(f, list, m)

LEMMA TotalsExtend ==
  ASSUME NEW list \in Seq(Selections), NEW m \in 1 .. Len(list), NEW f, Totals(f, list, m - 1)
  PROVE  \E g : Totals(g, list, m)
<1> DEFINE g == [n \in 0 .. m |-> IF n = m THEN f[m - 1] + list[m].tokens ELSE f[n]]
<1>1. m \in Nat /\ m - 1 \in 0 .. m - 1 /\ list[m].tokens \in Nat
  <2>1. list[m] \in Selections
    OBVIOUS
  <2> QED BY <2>1 DEF Selections
<1>2. f[m - 1] \in Nat
  BY <1>1 DEF Totals, AddsUp
<1>3. g \in [0 .. m -> Nat]
  BY <1>1, <1>2 DEF Totals, AddsUp
<1>4. g[0] = 0 /\ \A n \in 0 .. m - 1 : g[n] = f[n]
  BY <1>1 DEF Totals, AddsUp
<1>5. ASSUME NEW n \in 1 .. m PROVE g[n] = g[n - 1] + list[n].tokens
  <2>1. n - 1 \in 0 .. m - 1
    BY <1>1
  <2>2. CASE n = m
    BY <1>1, <1>4, <2>1, <2>2
  <2>3. CASE n # m
    <3>1. n \in 0 .. m - 1 /\ n \in 1 .. m - 1
      BY <1>1, <2>3
    <3>2. f[n] = f[n - 1] + list[n].tokens
      BY <3>1 DEF Totals, AddsUp
    <3> QED BY <1>4, <2>1, <3>1, <3>2
  <2> QED BY <2>2, <2>3
<1> HIDE DEF g
<1>6. Totals(g, list, m)
  BY <1>3, <1>4, <1>5 DEF Totals, AddsUp
<1> QED BY <1>6

\* Every list has running totals: the shortest part without any would have
\* them from the part before it.
LEMMA TotalsExist ==
  ASSUME NEW list \in Seq(Selections)
  PROVE  \E f : Totals(f, list, Len(list))
<1> DEFINE Without == {m \in 0 .. Len(list) : ~\E f : Totals(f, list, m)}
<1> SUFFICES ASSUME Without # {} PROVE FALSE
  <2>1. Len(list) \in 0 .. Len(list)
    OBVIOUS
  <2> QED BY <2>1
<1>1. Without \in SUBSET Nat
  OBVIOUS
<1>2. PICK m \in Without : \A n \in Without : m <= n
  BY <1>1, LeastNat
<1>3. m # 0
  <2>1. Totals([n \in 0 .. 0 |-> 0], list, 0)
    BY DEF Totals, AddsUp
  <2> QED BY <1>2, <2>1
<1>4. m \in 1 .. Len(list) /\ m - 1 \in 0 .. Len(list) /\ ~(m <= m - 1)
  BY <1>2, <1>3
<1>5. \E f : Totals(f, list, m - 1)
  BY <1>2, <1>4
<1>6. \E f : Totals(f, list, m)
  BY <1>4, <1>5, TotalsExtend
<1> QED BY <1>2, <1>6

\* Running totals are determined by the charges.
LEMMA TotalsUnique ==
  ASSUME NEW list, NEW f, NEW g, NEW m \in Nat, AddsUp(f, list, m), AddsUp(g, list, m)
  PROVE  f[m] = g[m]
<1> DEFINE Differ == {n \in 0 .. m : f[n] # g[n]}
<1> SUFFICES ASSUME Differ # {} PROVE FALSE
  OBVIOUS
<1>1. Differ \in SUBSET Nat
  OBVIOUS
<1>2. PICK n \in Differ : \A k \in Differ : n <= k
  BY <1>1, LeastNat
<1>3. n \in 1 .. m /\ n - 1 \in 0 .. m /\ ~(n <= n - 1)
  BY <1>2 DEF AddsUp
<1>4. f[n - 1] = g[n - 1]
  BY <1>2, <1>3
<1> QED BY <1>2, <1>3, <1>4 DEF AddsUp

\* The sum is the last of the running totals.
LEMMA SpentIs ==
  ASSUME NEW list \in Seq(Selections), NEW f, Totals(f, list, Len(list))
  PROVE  Spent(list) = f[Len(list)]
<1> DEFINE m == Len(list)
           IsSpent(s) == s = [n \in 0 .. m |-> IF n = 0 THEN 0 ELSE s[n - 1] + list[n].tokens]
           spent == CHOOSE s : IsSpent(s)
<1>1. m \in Nat
  OBVIOUS
<1>2. IsSpent(f)
  <2> DEFINE h == [n \in 0 .. m |-> IF n = 0 THEN 0 ELSE f[n - 1] + list[n].tokens]
  <2>1. \A n \in 0 .. m : f[n] = h[n]
    BY <1>1 DEF Totals, AddsUp
  <2>2. f = [n \in 0 .. m |-> f[n]]
    BY DEF Totals, AddsUp
  <2>3. h = [n \in 0 .. m |-> h[n]]
    OBVIOUS
  <2> HIDE DEF h
  <2>4. f = h
    BY <2>1, <2>2, <2>3
  <2> QED BY <2>4 DEF h
<1>3. IsSpent(spent)
  BY <1>2
<1>4. AddsUp(spent, list, m)
  <2> HIDE DEF spent
  <2>1. \A n \in 0 .. m : spent[n] = IF n = 0 THEN 0 ELSE spent[n - 1] + list[n].tokens
    BY <1>3
  <2> QED BY <1>1, <2>1 DEF AddsUp
<1>5. Spent(list) = spent[m]
  BY DEF Spent
<1> HIDE DEF spent
<1>6. AddsUp(f, list, m)
  BY DEF Totals
<1> HIDE DEF m
<1>7. spent[m] = f[m]
  BY <1>1, <1>4, <1>6, TotalsUnique
<1> QED BY <1>5, <1>7 DEF m

\* A selection more adds its charge.
LEMMA SpentAppend ==
  ASSUME NEW list \in Seq(Selections), NEW x \in Selections
  PROVE  Spent(Append(list, x)) = Spent(list) + x.tokens
<1> DEFINE longer == Append(list, x)
           m == Len(list)
<1>1. /\ longer \in Seq(Selections) /\ Len(longer) = m + 1 /\ m \in Nat
      /\ \A n \in 1 .. m : longer[n] = list[n]
      /\ longer[m + 1] = x
  OBVIOUS
<1> HIDE DEF longer
<1>2. PICK f : Totals(f, longer, m + 1)
  BY <1>1, TotalsExist
<1>3. PICK g : Totals(g, list, m)
  BY TotalsExist
<1>4. f[m] = g[m]
  <2>1. AddsUp(f, list, m)
    BY <1>1, <1>2 DEF Totals, AddsUp
  <2>2. AddsUp(g, list, m)
    BY <1>3 DEF Totals
  <2>3. m \in Nat
    BY <1>1
  <2> HIDE DEF m
  <2> QED BY <2>1, <2>2, <2>3, TotalsUnique
<1>5. f[m + 1] = f[m] + x.tokens
  <2>1. m + 1 \in 1 .. m + 1 /\ (m + 1) - 1 = m
    BY <1>1
  <2> QED BY <1>1, <1>2, <2>1 DEF Totals, AddsUp
<1>6. Spent(longer) = f[m + 1] /\ Spent(list) = g[m]
  BY <1>1, <1>2, <1>3, SpentIs
<1> QED BY <1>4, <1>5, <1>6 DEF longer

LEMMA SpentNothing == Spent(<<>>) = 0
<1>1. Totals([n \in 0 .. 0 |-> 0], <<>>, 0)
  BY DEF Totals, AddsUp
<1>2. Len(<<>>) = 0 /\ <<>> \in Seq(Selections)
  OBVIOUS
<1> QED BY <1>1, <1>2, SpentIs

LEMMA SpentType ==
  ASSUME NEW list \in Seq(Selections)
  PROVE  Spent(list) \in Nat
<1>1. PICK f : Totals(f, list, Len(list))
  BY TotalsExist
<1>2. f[Len(list)] \in Nat
  <2>1. Len(list) \in 0 .. Len(list)
    OBVIOUS
  <2> QED BY <1>1, <2>1 DEF Totals
<1> QED BY <1>1, <1>2, SpentIs

LEMMA SpendStep ==
  ASSUME IInv, SelectSpendsAllowance, [Next]_vars
  PROVE  SelectSpendsAllowance'
<1>1. TypeOK /\ TypeOK' /\ selections \in Seq(Selections)
  BY NextIInv DEF IInv, TypeOK
<1>2. remaining' \in Nat
  BY <1>1 DEF TypeOK
<1>3. CASE SelectMode
  <2>1. PICK m \in IncludedModes :
          /\ selections' = Append(selections, Selection(i, m))
          /\ remaining' = remaining - Cost[scored[i]][m]
    BY <1>3 DEF SelectMode
  <2>2. Candidate /\ pc = "select" /\ tokenBudget' = tokenBudget
    BY <1>3 DEF SelectMode, Candidate, input
  <2>3. i \in DOMAIN scored /\ m \in Modes
    BY <1>1, <2>2, CandidateType DEF Modes
  <2>4. Selection(i, m) \in Selections /\ Selection(i, m).tokens = CostOf(i, m)
    BY <1>1, <2>3, CostType
  <2>5. CostOf(i, m) = Cost[scored[i]][m] /\ CostOf(i, m) \in Nat
    BY <1>1, <2>3, CostType DEF CostOf, IncludedModes
  <2>6. Spent(selections') = Spent(selections) + Cost[scored[i]][m]
    BY <1>1, <2>1, <2>4, <2>5, SpentAppend
  <2>7. Spent(selections) \in Int /\ remaining \in Nat
    BY <1>1, SpentType DEF TypeOK
  <2> QED BY <1>2, <2>1, <2>2, <2>5, <2>6, <2>7 DEF SelectSpendsAllowance
<1>4. CASE SelectOmitted
  <2>1. /\ Candidate /\ pc = "select" /\ tokenBudget' = tokenBudget /\ remaining' = remaining
        /\ selections' = selections \/ selections' = Append(selections, Selection(i, "omitted"))
    BY <1>4 DEF SelectOmitted, Candidate, input
  <2>2. i \in DOMAIN scored /\ "omitted" \in Modes
    BY <1>1, <2>1, CandidateType DEF Modes
  <2>3. Selection(i, "omitted") \in Selections /\ Selection(i, "omitted").tokens = 0
    BY <1>1, <2>2, CostType DEF CostOf
  <2>4. Spent(selections) \in Int
    BY <1>1, SpentType DEF TypeOK
  <2>5. Spent(selections') = Spent(selections)
    <3>1. Spent(Append(selections, Selection(i, "omitted"))) = Spent(selections) + 0
      BY <1>1, <2>3, SpentAppend
    <3>2. CASE selections' = selections
      BY <3>2
    <3>3. CASE selections' = Append(selections, Selection(i, "omitted"))
      BY <2>4, <3>1, <3>3
    <3> QED BY <2>1, <3>2, <3>3
  <2> QED BY <2>1, <2>5 DEF SelectSpendsAllowance
<1>5. CASE UNCHANGED vars
  BY <1>5 DEF vars, SelectSpendsAllowance
<1>6. CASE ~SelectMode /\ ~SelectOmitted /\ Next
  <2>1. pc' # "select"
    BY <1>6 DEF Next, FirstRender, DowngradeLeastImportant, StopDowngrading, SkipSelected,
       PromoteOmitted, RestoreOmitted, Return, Returned, Scanning, vars
  <2> QED BY <2>1 DEF SelectSpendsAllowance
<1> QED BY <1>3, <1>4, <1>5, <1>6

\* Whatever files cost, what Select has charged the listed ones and what it has
\* left add up to the allowance at every step, and it never overdraws.
THEOREM AllowanceSpent == Spec => []SelectSpendsAllowance
<1>1. Init => SelectSpendsAllowance
  BY SpentNothing, AllowanceType, InputAssumption DEF Init, SelectSpendsAllowance
<1>2. IInv /\ SelectSpendsAllowance /\ [Next]_vars => SelectSpendsAllowance'
  BY SpendStep
<1> QED BY <1>1, <1>2, Invariance, InitIInv, NextIInv, PTL DEF Spec
-----------------------------------------------------------------------------
(* How selections change.                                                   *)

\* Coarsening leads to a mode that shows less.
LEMMA CoarserIsCoarser ==
  ASSUME NEW j \in DOMAIN selections, selections[j].mode \in IncludedModes
  PROVE  selections[j].mode \in Finer[Coarser(j)]
BY DEF Coarser, Finer, IncludedModes

LEMMA StepInOrder ==
  ASSUME IInv, [Next]_vars
  PROVE  [InOrder]_vars
<1> USE DEF IInv
<1>1. CASE selections' = selections
  BY <1>1 DEF InOrder
<1>2. CASE SelectMode \/ SelectOmitted
  <2>1. selections \in Seq(Selections) /\ (\/ selections' = selections
                                           \/ \E x : selections' = Append(selections, x))
    BY <1>2 DEF SelectMode, SelectOmitted, TypeOK
  <2>2. \A j \in DOMAIN selections : selections'[j] = selections[j]
    BY <2>1
  <2> QED BY <2>2 DEF InOrder
<1>3. CASE DowngradeLeastImportant
  <2>1. PICK d \in DOMAIN selections :
          LeastImportant(d) /\ selections' = SetMode(d, Coarser(d))
    BY <1>3 DEF DowngradeLeastImportant
  <2>2. Coarser(d) \in Modes
    BY DEF Coarser, Modes, IncludedModes
  <2>3. /\ selections'[d].mode = Coarser(d)
        /\ \A k \in DOMAIN selections : k # d => selections'[k] = selections[k]
    BY <2>1, <2>2, SetModeFacts, CostType DEF Ranked
  <2>4. selections[d].mode \in Finer[Coarser(d)]
    BY <2>1, ListTypes, CoarserIsCoarser DEF LeastImportant, Modes
  <2> QED BY <2>1, <2>3, <2>4 DEF InOrder, LeastImportant
<1>4. CASE PromoteOmitted
  <2>1. i \in DOMAIN selections
    BY <1>4 DEF PromoteOmitted, Scanning, TypeOK
  <2>2. /\ selections'[i].mode = "summary" /\ selections[i].mode = "omitted"
        /\ \A k \in DOMAIN selections : k # i => selections'[k] = selections[k]
    BY <1>4, <2>1, SetModeFacts, CostType DEF Ranked, PromoteOmitted, Modes, IncludedModes
  <2> QED BY <2>2 DEF InOrder
<1>5. CASE \/ FirstRender \/ StopDowngrading \/ SkipSelected \/ RestoreOmitted
           \/ Return \/ Returned \/ UNCHANGED vars
  BY <1>1, <1>5 DEF FirstRender, StopDowngrading, SkipSelected, RestoreOmitted, Return,
     Returned, vars
<1> QED BY <1>2, <1>3, <1>4, <1>5 DEF Next

\* FitToBudget coarsens the last selection of the finest mode in use, and makes
\* a selection finer only by turning an omission into a summary.
THEOREM Degradation == Spec => DegradesInOrder
<1>1. IInv /\ [Next]_vars => [InOrder]_vars
  BY StepInOrder
<1> QED BY <1>1, Invariance, PTL DEF Spec, DegradesInOrder
-----------------------------------------------------------------------------
(* FitToBudget comes to an end.                                             *)

\* A mode never shows more than itself, and what shows less than a coarser mode
\* shows less than a finer one.
LEMMA FinerIsAnOrder ==
  /\ \A m \in Modes : m \notin Finer[m]
  /\ \A a, b, c \in Modes : a \in Finer[b] /\ b \in Finer[c] => a \in Finer[c]
BY DEF Finer, Modes, IncludedModes

\* Coarsening a selection uses up a downgrade and adds none.
LEMMA DowngradeAdvances ==
  ASSUME IInv, DowngradeLeastImportant
  PROVE  Fewer(Downgrades(selections'), Downgrades(selections))
<1> USE DEF IInv
<1>1. PICK d \in DOMAIN selections :
        LeastImportant(d) /\ selections' = SetMode(d, Coarser(d))
  BY DEF DowngradeLeastImportant
<1>2. Coarser(d) \in Modes
  BY DEF Coarser, Modes, IncludedModes
<1>3. /\ selections'[d].mode = Coarser(d)
      /\ \A k \in DOMAIN selections : k # d => selections'[k] = selections[k]
      /\ DOMAIN selections' = DOMAIN selections
  BY <1>1, <1>2, SetModeFacts, CostType DEF Ranked
<1>4. selections[d].mode \in Finer[Coarser(d)]
  BY <1>1, ListTypes, CoarserIsCoarser DEF LeastImportant, Modes
<1>5. \A k \in DOMAIN selections : selections[k].mode \in Modes
  BY ListTypes
<1>6. Downgrades(selections') \subseteq Downgrades(selections)
  <2>1. ASSUME NEW k \in DOMAIN selections, NEW m \in Modes,
               selections'[k].mode \in Finer[m]
        PROVE  selections[k].mode \in Finer[m]
    <3>1. CASE k = d
      BY <2>1, <3>1, <1>2, <1>3, <1>4, <1>5, FinerIsAnOrder
    <3>2. CASE k # d
      BY <2>1, <3>2, <1>3
    <3> QED BY <3>1, <3>2
  <2> SUFFICES ASSUME NEW x \in (DOMAIN selections) \X Modes,
                      selections'[x[1]].mode \in Finer[x[2]]
               PROVE  selections[x[1]].mode \in Finer[x[2]]
    BY <1>3 DEF Downgrades
  <2> QED BY <2>1
<1>7. <<d, Coarser(d)>> \in Downgrades(selections)
  BY <1>2, <1>4 DEF Downgrades
<1>8. <<d, Coarser(d)>> \notin Downgrades(selections')
  BY <1>2, <1>3, FinerIsAnOrder DEF Downgrades
<1> QED BY <1>6, <1>7, <1>8 DEF Fewer

\* A promotion leaves one omission less.
LEMMA PromotionAdvances ==
  ASSUME IInv, PromoteOmitted
  PROVE  Fewer(Omissions(selections'), Omissions(selections))
<1> USE DEF IInv
<1>1. i \in DOMAIN selections
  BY DEF PromoteOmitted, Scanning, TypeOK
<1>2. /\ selections'[i].mode = "summary" /\ selections[i].mode = "omitted"
      /\ \A k \in DOMAIN selections : k # i => selections'[k] = selections[k]
      /\ DOMAIN selections' = DOMAIN selections
  BY <1>1, SetModeFacts, CostType DEF Ranked, PromoteOmitted, Modes, IncludedModes
<1> QED BY <1>1, <1>2 DEF Fewer, Omissions

LEMMA StepAdvances ==
  ASSUME IInv, [Next]_vars
  PROVE  [Advances]_vars
<1>1. i \in Nat
  BY DEF IInv, TypeOK
<1>2. CASE SelectMode \/ SelectOmitted
  BY <1>1, <1>2 DEF SelectMode, SelectOmitted, Candidate, Advances, MaxCandidates
<1>3. CASE DowngradeLeastImportant
  BY <1>3, DowngradeAdvances DEF DowngradeLeastImportant, Advances
<1>4. CASE PromoteOmitted
  BY <1>4, PromotionAdvances DEF PromoteOmitted, Scanning, Advances
<1>5. CASE SkipSelected \/ RestoreOmitted
  BY <1>1, <1>5 DEF SkipSelected, RestoreOmitted, Scanning, Advances
<1>6. CASE FirstRender \/ StopDowngrading \/ Return
  BY <1>6 DEF FirstRender, StopDowngrading, Return, Advances
<1>7. CASE Returned \/ UNCHANGED vars
  BY <1>7 DEF Returned
<1> QED BY <1>2, <1>3, <1>4, <1>5, <1>6, <1>7 DEF Next

\* Whatever the renderer, each round of FitToBudget's first loop uses up one of
\* finitely many downgrades, and each step of its scan moves it on or leaves
\* fewer omissions, so that both loops end.
THEOREM Advancing == Spec => AlwaysAdvances
<1>1. IInv /\ [Next]_vars => [Advances]_vars
  BY StepAdvances
<1> QED BY <1>1, Invariance, PTL DEF Spec, AlwaysAdvances
-----------------------------------------------------------------------------
(* The contract.                                                            *)

LEMMA AnswerIsAcceptable ==
  ASSUME IInv, Return
  PROVE  /\ markdown \in Seq(Promise!AnySelection)
         /\ Promise!Acceptable(markdown)
<1>1. IInv' /\ pc' = "done" /\ pc = "promote"
      /\ UNCHANGED <<input, i, remaining, omitted, selections, markdown>>
  BY ReturnIInv DEF Return
<1>2. markdown = selections
  BY <1>1 DEF IInv, TextMatchesSelections
<1>3. markdown \in Seq(Promise!AnySelection)
  BY DEF IInv, TypeOK, Selections, Modes, IncludedModes, Promise!AnySelection, Promise!AnyMode
<1>4. Promise!Within(markdown) \/ \A j \in DOMAIN markdown : markdown[j].mode = "omitted"
  BY <1>1, <1>2 DEF IInv, OverBudgetMeansEmpty, Promise!Within, Fits
<1>5. ASSUME NEW j \in DOMAIN markdown, markdown[j].mode = "omitted"
      PROVE  ~Promise!Within(Promise!Summarised(markdown, j))
  <2>1. ~Fits(SetMode(j, "summary"))
    BY <1>1, <1>2, <1>5 DEF IInv, ScanSoFar, PromotionMaximal, Fits, SetMode, Selection,
       CostOf, input
  <2>2. Promise!Summarised(markdown, j) = SetMode(j, "summary")
    BY <1>2 DEF Promise!Summarised, SetMode, Selection, CostOf
  <2> QED BY <2>1, <2>2 DEF Promise!Within, Fits
<1> QED
  BY <1>2, <1>3, <1>4, <1>5 DEF IInv, Ranked, Promise!Acceptable

\* Select followed by FitToBudget implements the contract of PackPromise: the
\* one answer it gives is acceptable.
THEOREM KeepsPromise == Spec => ImplementsPromise
<1>1. Init => Promise!Init
  BY DEF Init, Promise!Init
<1>2. IInv /\ [Next]_vars => [Promise!Answer]_(Promise!pvars)
  <2> SUFFICES ASSUME IInv, [Next]_vars
               PROVE  [Promise!Answer]_(Promise!pvars)
    OBVIOUS
  <2>1. CASE Return
    <3>1. /\ pc = "promote" /\ pc' = "done" /\ markdown' = markdown
          /\ scored' = scored /\ tokenBudget' = tokenBudget
      BY <2>1 DEF Return, input
    <3>2. <<markdown>> \in Seq(Seq(Promise!AnySelection))
          /\ Len(<<markdown>>) = 1 /\ <<markdown>>[1] = markdown
      BY <2>1, AnswerIsAcceptable
    <3> QED BY <2>1, <3>1, <3>2, AnswerIsAcceptable DEF Promise!Answer
  <2>2. CASE UNCHANGED <<pc, markdown, scored, tokenBudget>>
    BY <2>2 DEF Promise!pvars
  <2>3. CASE pc # "done" /\ pc' # "done" /\ UNCHANGED <<scored, tokenBudget>>
    BY <2>3 DEF Promise!pvars
  <2>4. CASE \/ SelectMode \/ SelectOmitted \/ FirstRender \/ DowngradeLeastImportant
             \/ StopDowngrading \/ SkipSelected \/ PromoteOmitted \/ RestoreOmitted
    BY <2>3, <2>4 DEF SelectMode, SelectOmitted, FirstRender, DowngradeLeastImportant,
       StopDowngrading, SkipSelected, PromoteOmitted, RestoreOmitted, Candidate, Scanning, input
  <2> QED BY <2>1, <2>2, <2>4 DEF Next, Returned, vars
<1> QED BY <1>1, <1>2, Invariance, PTL DEF Spec, Promise!Spec, ImplementsPromise
-----------------------------------------------------------------------------
(* The review checklist.                                                    *)

\* What one list followed by another holds.
LEMMA ItemsOfBoth ==
  ASSUME NEW W, NEW s \in Seq(W), NEW t \in Seq(W)
  PROVE  s \o t \in Seq(W) /\ Range(s \o t) = Range(s) \cup Range(t)
<1>1. s \o t \in Seq(W) /\ Len(s) \in Nat /\ Len(t) \in Nat /\ Len(s \o t) = Len(s) + Len(t)
  OBVIOUS
<1>2. /\ \A k \in 1 .. Len(s) : (s \o t)[k] = s[k] /\ k \in 1 .. Len(s) + Len(t)
      /\ \A k \in 1 .. Len(t) : (s \o t)[k + Len(s)] = t[k] /\ k + Len(s) \in 1 .. Len(s) + Len(t)
  BY <1>1
<1>3. \A k \in 1 .. Len(s) + Len(t) :
        k \in 1 .. Len(s) \/ (k - Len(s) \in 1 .. Len(t) /\ k = (k - Len(s)) + Len(s))
  BY <1>1
<1>4. Range(s \o t) = {(s \o t)[k] : k \in 1 .. Len(s) + Len(t)}
  BY <1>1 DEF Range
<1>5. Range(s) = {s[k] : k \in 1 .. Len(s)} /\ Range(t) = {t[k] : k \in 1 .. Len(t)}
  BY DEF Range
<1>6. Range(s \o t) \subseteq Range(s) \cup Range(t)
  <2> SUFFICES ASSUME NEW k \in 1 .. Len(s) + Len(t) PROVE (s \o t)[k] \in Range(s) \cup Range(t)
    BY <1>4
  <2>1. CASE k \in 1 .. Len(s)
    BY <2>1, <1>2, <1>5
  <2>2. CASE k \notin 1 .. Len(s)
    <3>1. k - Len(s) \in 1 .. Len(t) /\ k = (k - Len(s)) + Len(s)
      BY <2>2, <1>3
    <3>2. (s \o t)[k] = t[k - Len(s)]
      BY <3>1, <1>2
    <3> QED BY <3>1, <3>2, <1>5
  <2> QED BY <2>1, <2>2
<1>7. Range(s) \cup Range(t) \subseteq Range(s \o t)
  BY <1>2, <1>4, <1>5
<1> QED BY <1>1, <1>6, <1>7

\* What a list of one item holds.
LEMMA OneItem ==
  ASSUME NEW W, NEW w \in W
  PROVE  <<w>> \in Seq(W) /\ Range(<<w>>) = {w}
<1>1. <<w>> \in Seq(W)
  OBVIOUS
<1>2. Len(<<w>>) = 1 /\ <<w>>[1] = w
  OBVIOUS
<1>3. DOMAIN <<w>> = 1 .. Len(<<w>>)
  BY <1>1
<1>4. \A k : k \in 1 .. Len(<<w>>) <=> k = 1
  BY <1>2
<1>5. Range(<<w>>) = {<<w>>[k] : k \in DOMAIN <<w>>}
  BY DEF Range
<1>6. \A x : x \in Range(<<w>>) <=> x = w
  BY <1>2, <1>3, <1>4, <1>5
<1> QED BY <1>1, <1>6

\* The item about omitted changes is in the list if and only if the list's own
\* selections leave a changed file out.
LEMMA OmittedItem ==
  ASSUME NEW sc, NEW sel
  PROVE  OmittedChangesItem \in Range(ReviewChecklist(sc, sel)) <=> ChangedPaths \ SelectedPaths(sc, sel) # {}
<1> DEFINE selected == {sc[sel[k].rank] : k \in ShownAt(sel)}
           reviewed == selected \cup {f \in DOMAIN Info : Info[f].path \in ChangedPaths}
           changes  == {Changed[k] : k \in DOMAIN Changed}
           statuses == {c.status : c \in changes}
           w1 == "Review changed files before related context; this pack summarizes approximately +10/-10 lines."
           w2 == "Confirm untracked files are intentionally part of the patch or add them to ignore rules."
           w4 == "Check imports, references, generated metadata, and build files for deleted or renamed paths."
           w5 == "For API or route changes, verify request/response contracts, callers, and backward compatibility."
           w6 == "For database or query changes, verify migrations, transaction boundaries, and affected tests."
           w7 == "For frontend or template changes, verify field names, validation states, and rendered behavior."
           w9 == "No nearby tests were selected; identify the smallest relevant test target before relying on the patch."
           W  == {w1, w2, w4, w5, w6, w7, SelectedTestsItem, w9, OmittedChangesItem}
           p1 == <<w1>>
           p2 == IF "untracked" \in statuses THEN <<w2>> ELSE <<>>
           p3 == IF ChangedPaths \ SelectedPaths(sc, sel) # {} THEN <<OmittedChangesItem>> ELSE <<>>
           p4 == IF statuses \cap {"deleted", "renamed"} # {} THEN <<w4>> ELSE <<>>
           p5 == IF \E f \in reviewed : Info[f].isRoute THEN <<w5>> ELSE <<>>
           p6 == IF (\E f \in selected : Info[f].isDatabase) \/ \E c \in changes : c.isDatabase
                 THEN <<w6>> ELSE <<>>
           p7 == IF (\E f \in selected : Info[f].isFrontend) \/ \E c \in changes : c.isFrontend
                 THEN <<w7>> ELSE <<>>
           p8 == IF \E f \in reviewed : Info[f].isTest THEN <<SelectedTestsItem>> ELSE <<>>
           p9 == IF \A f \in reviewed : ~Info[f].isTest THEN <<w9>> ELSE <<>>
<1>1. ReviewChecklist(sc, sel) = p1 \o p2 \o p3 \o p4 \o p5 \o p6 \o p7 \o p8 \o p9
  BY DEF ReviewChecklist
<1> HIDE DEF selected, reviewed, changes, statuses
<1>2. ASSUME NEW w \in W PROVE <<w>> \in Seq(W) /\ Range(<<w>>) = {w}
  BY OneItem
<1>3. <<>> \in Seq(W) /\ \A w : w \notin Range(<<>>)
  BY DEF Range
<1>4. OmittedChangesItem \notin {w1, w2, w4, w5, w6, w7, SelectedTestsItem, w9}
  BY DEF OmittedChangesItem, SelectedTestsItem
<1>5. {w1, w2, w4, w5, w6, w7, SelectedTestsItem, w9, OmittedChangesItem} \subseteq W
  OBVIOUS
<1> HIDE DEF W
<1> HIDE DEF w1, w2, w4, w5, w6, w7, w9
<1>6. p1 \in Seq(W) /\ OmittedChangesItem \notin Range(p1)
  BY <1>2, <1>3, <1>4, <1>5
<1>7. p2 \in Seq(W) /\ OmittedChangesItem \notin Range(p2)
  BY <1>2, <1>3, <1>4, <1>5
<1> DEFINE left == ChangedPaths \ SelectedPaths(sc, sel) # {}
<1>8. p3 \in Seq(W) /\ (OmittedChangesItem \in Range(p3) <=> left)
  <2>1. CASE left
    <3>1. p3 = <<OmittedChangesItem>> /\ OmittedChangesItem \in W
      BY <2>1, <1>5
    <3>2. <<OmittedChangesItem>> \in Seq(W)
      BY <3>1, <1>2
    <3>3. Range(<<OmittedChangesItem>>) = {OmittedChangesItem}
      BY <3>1, <1>2
    <3> QED BY <2>1, <3>1, <3>2, <3>3
  <2>2. CASE ~left
    <3>1. p3 = <<>>
      BY <2>2
    <3> QED BY <2>2, <3>1, <1>3
  <2> QED BY <2>1, <2>2
<1>9. p4 \in Seq(W) /\ OmittedChangesItem \notin Range(p4)
  BY <1>2, <1>3, <1>4, <1>5
<1>10. p5 \in Seq(W) /\ OmittedChangesItem \notin Range(p5)
  BY <1>2, <1>3, <1>4, <1>5
<1>11. p6 \in Seq(W) /\ OmittedChangesItem \notin Range(p6)
  BY <1>2, <1>3, <1>4, <1>5
<1>12. p7 \in Seq(W) /\ OmittedChangesItem \notin Range(p7)
  BY <1>2, <1>3, <1>4, <1>5
<1>13. p8 \in Seq(W) /\ OmittedChangesItem \notin Range(p8)
  BY <1>2, <1>3, <1>4, <1>5
<1>14. p9 \in Seq(W) /\ OmittedChangesItem \notin Range(p9)
  BY <1>2, <1>3, <1>4, <1>5
<1> HIDE DEF p1, p2, p3, p4, p5, p6, p7, p8, p9
<1>15. p1 \o p2 \in Seq(W) /\ OmittedChangesItem \notin Range(p1 \o p2)
  BY <1>6, <1>7, ItemsOfBoth
<1> DEFINE q3 == (p1 \o p2) \o p3
           q4 == q3 \o p4
           q5 == q4 \o p5
           q6 == q5 \o p6
           q7 == q6 \o p7
           q8 == q7 \o p8
           q9 == q8 \o p9
<1> HIDE DEF left
<1>16. q3 \in Seq(W) /\ (OmittedChangesItem \in Range(q3) <=> left)
  <2>1. p1 \o p2 \in Seq(W) /\ p3 \in Seq(W)
    BY <1>8, <1>15
  <2>2. q3 \in Seq(W)
    BY <2>1, ItemsOfBoth
  <2>3. Range(q3) = Range(p1 \o p2) \cup Range(p3)
    BY <2>1, ItemsOfBoth
  <2> QED BY <1>8, <1>15, <2>2, <2>3
<1> HIDE DEF q3
<1>17. q4 \in Seq(W) /\ (OmittedChangesItem \in Range(q4) <=> OmittedChangesItem \in Range(q3))
  BY <1>9, <1>16, ItemsOfBoth
<1> HIDE DEF q4
<1>18. q5 \in Seq(W) /\ (OmittedChangesItem \in Range(q5) <=> OmittedChangesItem \in Range(q4))
  BY <1>10, <1>17, ItemsOfBoth
<1> HIDE DEF q5
<1>19. q6 \in Seq(W) /\ (OmittedChangesItem \in Range(q6) <=> OmittedChangesItem \in Range(q5))
  BY <1>11, <1>18, ItemsOfBoth
<1> HIDE DEF q6
<1>20. q7 \in Seq(W) /\ (OmittedChangesItem \in Range(q7) <=> OmittedChangesItem \in Range(q6))
  BY <1>12, <1>19, ItemsOfBoth
<1> HIDE DEF q7
<1>21. q8 \in Seq(W) /\ (OmittedChangesItem \in Range(q8) <=> OmittedChangesItem \in Range(q7))
  BY <1>13, <1>20, ItemsOfBoth
<1> HIDE DEF q8
<1>22. OmittedChangesItem \in Range(q9) <=> OmittedChangesItem \in Range(q8)
  BY <1>14, <1>21, ItemsOfBoth
<1>23. ReviewChecklist(sc, sel) = q9
  BY <1>1 DEF q3, q4, q5, q6, q7, q8
<1> HIDE DEF q9
<1> QED BY <1>16, <1>17, <1>18, <1>19, <1>20, <1>21, <1>22, <1>23 DEF left

\* The checklist is written from the selections that are returned with it.
LEMMA TextReportsOmissions == TextMatchesSelections => OmissionsReported
<1> SUFFICES ASSUME TextMatchesSelections, pc = "done"
             PROVE  OmittedChangesItem \in Range(ReviewChecklist(scored, markdown))
                      <=> \E path \in ChangedPaths :
                            \A j \in DOMAIN selections :
                              Info[scored[selections[j].rank]].path = path => selections[j].mode = "omitted"
  BY DEF OmissionsReported
<1>1. markdown = selections
  BY DEF TextMatchesSelections
<1>2. \A path : path \in SelectedPaths(scored, selections) <=>
        \E j \in DOMAIN selections :
          Info[scored[selections[j].rank]].path = path /\ selections[j].mode # "omitted"
  BY DEF SelectedPaths, ShownAt, FileOf
<1> QED BY <1>1, <1>2, OmittedItem

\* The checklist of the text that FitToBudget returns announces omitted changes
\* if and only if a changed file is shown nowhere in that text: the text was
\* rendered after the last downgrade or promotion.
THEOREM OmissionsAnnounced == Spec => []OmissionsReported
<1> QED BY TextIsCurrent, TextReportsOmissions, PTL
=============================================================================
