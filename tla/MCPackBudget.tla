---------------------------- MODULE MCPackBudget ----------------------------
(* PackBudget with the renderer of MarkdownText, on a small repository.     *)
EXTENDS PackText

\* Thirty-four files of six kinds: more than Select's thirty candidates.
MCFiles == 1 .. 34

Digits == <<"0", "1", "2", "3", "4", "5", "6", "7", "8", "9">>
PathOf(dir, f) == dir \o "/file_" \o Digits[(f \div 10) + 1] \o Digits[(f % 10) + 1] \o ".go"

Chars(n) == [runes |-> n, lines |-> n \div 40]

\* A kind is what the budget can tell of a file: the sizes of its renditions
\* (a source file with a short or a long slice block or with none, a file too
\* big to be shown whole, a tiny file whose summary is its longest rendition,
\* and a test) and what the other sections read of it.
Kind(f, dir, content, slices, signatures, summary, symbols, test) ==
  [path |-> PathOf(dir, f), dir |-> dir,
   content |-> Chars(content), slices |-> Chars(slices),
   signatures |-> Chars(signatures), summary |-> Chars(summary),
   symbols |-> Chars(symbols),
   why |-> 60, rationale |-> 80, related |-> IF test THEN 40 ELSE 0,
   isTest |-> test, isRoute |-> dir = "api", isDatabase |-> dir = "db",
   isFrontend |-> dir = "web"]

MCInfo ==
  [f \in MCFiles |->
     CASE f % 6 = 1 -> Kind(f, "api", 4000, 900, 300, 180, 80, FALSE)
       [] f % 6 = 2 -> Kind(f, "api", 900, 1200, 200, 160, 120, FALSE)
       [] f % 6 = 3 -> Kind(f, "db", 24000, 2400, 700, 220, 320, FALSE)
       [] f % 6 = 4 -> Kind(f, "web", 1600, 0, 260, 170, 80, FALSE)
       [] f % 6 = 5 -> Kind(f, "docs", 30, 0, 70, 130, 0, FALSE)
       [] OTHER     -> Kind(f, "internal", 1200, 400, 150, 150, 40, TRUE)]

MCCost == CostTable
MCPreamble == [runes |-> 1100, lines |-> 30]
MCRepoDirs == <<"api", "db", "docs", "internal", "scripts", "web">>
\* A source file, an untracked page and a test, all of them indexed.
MCChanged ==
  [k \in 1 .. 3 |->
     [path |-> PathOf(<<"api", "web", "internal">>[k], <<1, 4, 6>>[k]), runes |-> 60,
      status |-> <<"modified", "untracked", "modified">>[k],
      isDatabase |-> FALSE, isFrontend |-> k = 2]]

\* Every changed file is ranked, with at most one other.
WithChanges == {s \in SeqOf(1 .. 6, 4) : IsInjective(s) /\ {1, 4, 6} \subseteq Range(s)}

\* Every ranking of at most three of six files of different kinds, and long
\* ones that reach the limits of Select.
Short == {s \in SeqOf(1 .. 6, 3) : IsInjective(s)}
Long ==
  {[k \in 1 .. n |-> k] : n \in {12, 34}} \cup
  {[k \in 1 .. n |-> 35 - k] : n \in {14, 31}} \cup
  {[k \in 1 .. 6 |-> 6 * (k - 1) + c] : c \in 1 .. 4}
MCScoredLists == Short \cup Long \cup WithChanges

\* Budgets on both sides of each threshold of Select, too small for the text
\* around the files (0, 100), and roomy.
MCBudgets == {0, 100, 640, 800, 1000, 1500, 3000, 7000, 21000}

MCRenderTokens(sc, b, sel) == RenderedTokens(sc, b, sel)
=============================================================================
