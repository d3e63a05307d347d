------------------------------ MODULE PackText ------------------------------
(***************************************************************************)
(* PackBudget and MarkdownText together: what the text that FitToBudget    *)
(* returns says of the selections that it returns with it.                 *)
(***************************************************************************)
EXTENDS PackBudget, MarkdownText

\* A changed file that the returned text does not show, whether it was
\* degraded away or never listed, is announced by the checklist of that same
\* text, and nothing is announced when all are shown.
OmissionsReported ==
  pc = "done" =>
    (OmittedChangesItem \in Range(ReviewChecklist(scored, markdown))
       <=> \E path \in ChangedPaths :
             \A j \in DOMAIN selections :
               Info[scored[selections[j].rank]].path = path => selections[j].mode = "omitted")
=============================================================================
