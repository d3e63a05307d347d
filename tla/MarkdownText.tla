---------------------------- MODULE MarkdownText ----------------------------
(***************************************************************************)
(* The size of the Markdown a pack is rendered to, as a function of the    *)
(* selections.  A text is its number of runes and of newlines, which is    *)
(* all tokens.Estimate looks at.  The sections that no selection changes   *)
(* (title, interpretation, architecture, plan) are one given text, Preamble.   *)
(*                                                                         *)
(* The size is not monotone: selecting a file removes its directory from   *)
(* "Do not touch", may remove a line from the review checklist or swap one *)
(* for a shorter one, and moves a line between two budget decisions.       *)
(***************************************************************************)
EXTENDS Integers, Sequences, FiniteSets, SequencesExt

CONSTANTS
  Info,      \* Info[f]: what the renderer reads of file f (see FileInfo)
  Preamble,      \* the text of the sections that do not depend on the selections
  RepoDirs,  \* the repository's top-level names, sorted
  DiffBase,  \* the base of the diff, "" outside diff packs
  Changed    \* the changed files: a sequence of ChangedFile

Text == [runes : Nat, lines : Nat]

FileInfo ==
  [path : STRING, dir : STRING,
   content : Text, slices : Text, signatures : Text, summary : Text,
   symbols : Text,                          \* its lines in "Important symbols"
   why : Nat, rationale : Nat, related : Nat,  \* runes of its reasons
   isTest : BOOLEAN, isRoute : BOOLEAN, isDatabase : BOOLEAN, isFrontend : BOOLEAN]

ChangedFile ==
  [path : STRING, runes : Nat, status : STRING, isDatabase : BOOLEAN, isFrontend : BOOLEAN]

ASSUME InfoAssumption ==
  /\ Info \in [DOMAIN Info -> FileInfo]
  /\ Preamble \in Text
  /\ RepoDirs \in Seq(STRING)
  /\ Changed \in Seq(ChangedFile)
-----------------------------------------------------------------------------
(* Token estimates.                                                         *)

Estimate(t) ==
  IF t.runes = 0 THEN 0
  ELSE t.runes \div 4 + (IF t.runes % 4 # 0 THEN 1 ELSE 0) + t.lines \div 12 + 1

FullCost(f)      == Estimate(Info[f].content) + 90
SliceCost(f)     == IF Info[f].slices.runes = 0 THEN 0
                    ELSE Estimate(Info[f].slices) + 80
SignatureCost(f) == Estimate(Info[f].signatures) + 70
SummaryCost(f)   == Estimate(Info[f].summary) + 45

CostTable ==
  [f \in DOMAIN Info |-> [full       |-> FullCost(f),
                    slices     |-> SliceCost(f),
                    signatures |-> SignatureCost(f),
                    summary    |-> SummaryCost(f)]]
-----------------------------------------------------------------------------
(* Texts, built from rows.                                                  *)

\* A section is a sequence of texts; a row is the text of one line.
Nothing == <<>>
Row(n)  == <<[runes |-> n + 1, lines |-> 1]>>
Blank   == Row(0)

Join(sections)    == FlattenSeq(sections)
Each(s, entry(_)) == FlattenSeq([k \in DOMAIN s |-> entry(s[k])])
Whole(texts) ==
  [runes |-> MapThenSumSet(LAMBDA k : texts[k].runes, DOMAIN texts),
   lines |-> MapThenSumSet(LAMBDA k : texts[k].lines, DOMAIN texts)]

UpTo(n, s) == SubSeq(s, 1, IF Len(s) < n THEN Len(s) ELSE n)
Shown(s)   == SelectSeq(s, LAMBDA x : x.mode # "omitted")

ModeName ==
  [full |-> "full file", slices |-> "relevant slices",
   signatures |-> "signatures only", summary |-> "summary only",
   omitted |-> "omitted"]
-----------------------------------------------------------------------------
(* The sections.  sc is the ranking; sel its selections, omitted ones       *)
(* included; shown the others, in the same order.                           *)

FileOf(sc, x) == Info[sc[x.rank]]

WriteFilesToRead(sc, shown) ==
  Join(<<Row(Len("## Files to read first")), Blank,
         IF shown = <<>>
         THEN Join(<<Row(Len("No relevant files fit the budget.")), Blank>>)
         ELSE Each(UpTo(15, shown), LAMBDA x :
                Join(<<Row(Len("1. ") + Len(FileOf(sc, x).path)),
                       Row(Len("   Why: .") + FileOf(sc, x).why), Blank>>))>>)

WriteSelectionRationale(sc, shown) ==
  Join(<<Row(Len("## Selection rationale")), Blank,
         IF shown = <<>>
         THEN Row(Len("No selected files to explain."))
         ELSE Each(UpTo(10, shown), LAMBDA x :
                Row(Len("- '' score 10.0, mode '': ") + Len(FileOf(sc, x).path)
                      + Len(ModeName[x.mode]) + FileOf(sc, x).rationale)),
         Blank>>)

WriteImportantSymbols(sc, shown) ==
  LET withSymbols == SelectSeq(shown, LAMBDA x : FileOf(sc, x).symbols.runes > 0)
  IN Join(<<Row(Len("## Important symbols")), Blank,
            IF withSymbols = <<>>
            THEN Join(<<Row(Len("No symbols were extracted for the selected files.")), Blank>>)
            ELSE Each(withSymbols, LAMBDA x :
                   Join(<<Row(Len("### ") + Len(FileOf(sc, x).path)), Blank,
                          <<FileOf(sc, x).symbols>>, Blank>>))>>)

\* One group for each mode in use; an omitted file still takes a line.
WriteBudgetDecisions(sc, sel) ==
  LET group(m) ==
        LET items == SelectSeq(sel, LAMBDA x : x.mode = m) IN
        IF items = <<>> THEN Nothing
        ELSE Join(<<Row(IF m = "omitted" THEN Len("Omitted:")
                        ELSE Len("Included :") + Len(ModeName[m])),
                    Each(items, LAMBDA x :
                      Row(Len(FileOf(sc, x).path) +
                          IF m = "omitted"
                          THEN Len("- . Reason: lower priority or did not fit remaining budget.")
                          ELSE Len("- (~100 tokens). Reason: .") + 1 + FileOf(sc, x).why)),
                    Blank>>)
  IN Join(<<Row(Len("## Budget decisions")), Blank,
            Each(<<"full", "slices", "signatures", "summary", "omitted">>, group)>>)

\* At most eight top-level names, none of which has a selected file under it.
WriteDoNotTouch(sc, shown) ==
  LET selected == {FileOf(sc, shown[k]).dir : k \in DOMAIN shown}
      dirs     == UpTo(8, SelectSeq(RepoDirs, LAMBDA d : d \notin selected))
  IN Join(<<Row(Len("## Do not touch unless needed")), Blank,
            IF dirs = <<>>
            THEN Row(Len("- No unrelated top-level areas detected."))
            ELSE Each(dirs, LAMBDA d : Row(Len("- /*") + Len(d))),
            Blank>>)

WriteFence(t) ==
  IF t.runes = 0 THEN Join(<<Row(Len("_Empty file._")), Blank>>)
  ELSE Join(<<Row(Len("~~~~go")), <<t>>, Blank, Row(Len("~~~~")), Blank>>)

WriteContextFiles(sc, shown) ==
  Join(<<Row(Len("## Context files")), Blank,
         Each(shown, LAMBDA x :
           LET f == FileOf(sc, x) IN
           Join(<<Row(Len("### ") + Len(f.path)), Blank,
                  Row(Len("Mode: ") + Len(ModeName[x.mode])), Blank,
                  Row(Len("Why: .") + f.why), Blank,
                  CASE x.mode = "full"       -> WriteFence(f.content)
                    [] x.mode = "slices"     -> WriteFence(f.slices)
                    [] x.mode = "signatures" -> WriteFence(f.signatures)
                    [] x.mode = "summary"    -> Join(<<<<f.summary>>, Blank, Blank>>)>>))>>)
-----------------------------------------------------------------------------
(* The two sections of a diff pack.                                         *)

DiffListLimit(b) == IF b > 0 /\ b <= 4000 THEN 15 ELSE IF b > 0 /\ b <= 8000 THEN 25 ELSE 40

ChangedPaths == {Changed[k].path : k \in DOMAIN Changed}
ShownAt(sel) == {k \in DOMAIN sel : sel[k].mode # "omitted"}
SelectedPaths(sc, sel) == {FileOf(sc, sel[k]).path : k \in ShownAt(sel)}

WriteGitDiffContext(sc, shown, b) ==
  LET limit   == DiffListLimit(b)
      related == SelectSeq(shown, LAMBDA x : /\ FileOf(sc, x).path \notin ChangedPaths
                                             /\ FileOf(sc, x).related > 0)
  IN IF Changed = <<>> THEN
       IF DiffBase = "" THEN Nothing
       ELSE Join(<<Row(Len("## Git diff context")), Blank,
                   Row(Len("Diff base: ''") + Len(DiffBase)), Blank,
                   Row(Len("No changed files were provided.")), Blank>>)
     ELSE
       Join(<<Row(Len("## Git diff context")), Blank,
              IF DiffBase = "" THEN Nothing
              ELSE Join(<<Row(Len("Diff base: ''") + Len(DiffBase)), Blank>>),
              Row(Len("Changed files: 1. Selected changed files: 1.")), Blank,
              Row(Len("Changed file list:")),
              Each(UpTo(limit, Changed), LAMBDA c : Row(Len("- ") + c.runes)),
              IF Len(Changed) <= limit THEN Nothing
              ELSE Row(Len("- ... 1 more changed files omitted from this list.")),
              Blank,
              IF related = <<>> THEN Nothing
              ELSE Join(<<Row(Len("Related context selected around the diff:")),
                          Each(UpTo(10, related), LAMBDA x :
                            Row(Len("- '' via ") + Len(FileOf(sc, x).path)
                                  + FileOf(sc, x).related)),
                          Blank>>)>>)

OmittedChangesItem ==
  "1 changed file(s) did not fit the selected context; raise the budget or inspect them manually before approval."
SelectedTestsItem ==
  "Run the nearby tests selected in this pack before broader suites."

\* The items of the review checklist: which ones appear depends on the changed
\* files, selected or not, and on every selected file.
ReviewChecklist(sc, sel) ==
  LET selected == {sc[sel[k].rank] : k \in ShownAt(sel)}
      reviewed == selected \cup {f \in DOMAIN Info : Info[f].path \in ChangedPaths}
      changes  == {Changed[k] : k \in DOMAIN Changed}
      statuses == {c.status : c \in changes}
      item(include, words) == IF include THEN <<words>> ELSE <<>>
  IN <<"Review changed files before related context; this pack summarizes approximately +10/-10 lines.">>
     \o item("untracked" \in statuses,
             "Confirm untracked files are intentionally part of the patch or add them to ignore rules.")
     \o item(ChangedPaths \ SelectedPaths(sc, sel) # {},
             OmittedChangesItem)
     \o item(statuses \cap {"deleted", "renamed"} # {},
             "Check imports, references, generated metadata, and build files for deleted or renamed paths.")
     \o item(\E f \in reviewed : Info[f].isRoute,
             "For API or route changes, verify request/response contracts, callers, and backward compatibility.")
     \o item((\E f \in selected : Info[f].isDatabase) \/ \E c \in changes : c.isDatabase,
             "For database or query changes, verify migrations, transaction boundaries, and affected tests.")
     \o item((\E f \in selected : Info[f].isFrontend) \/ \E c \in changes : c.isFrontend,
             "For frontend or template changes, verify field names, validation states, and rendered behavior.")
     \o item(\E f \in reviewed : Info[f].isTest,
             SelectedTestsItem)
     \o item(\A f \in reviewed : ~Info[f].isTest,
             "No nearby tests were selected; identify the smallest relevant test target before relying on the patch.")

WriteReviewChecklist(sc, sel) ==
  IF Changed = <<>> THEN Nothing
  ELSE Join(<<Row(Len("## Review checklist")), Blank,
              Each(ReviewChecklist(sc, sel), LAMBDA words : Row(Len("- ") + Len(words))),
              Blank>>)
-----------------------------------------------------------------------------
RenderMarkdown(sc, b, sel) ==
  LET shown == Shown(sel) IN
  Join(<<<<Preamble>>,
         WriteGitDiffContext(sc, shown, b),
         WriteReviewChecklist(sc, sel),
         WriteFilesToRead(sc, shown),
         WriteSelectionRationale(sc, shown),
         WriteImportantSymbols(sc, shown),
         WriteBudgetDecisions(sc, sel),
         WriteDoNotTouch(sc, shown),
         WriteContextFiles(sc, shown)>>)

RenderedTokens(sc, b, sel) == Estimate(Whole(RenderMarkdown(sc, b, sel)))
=============================================================================
