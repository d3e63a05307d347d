----------------------------- MODULE SliceRanges -----------------------------
(***************************************************************************)
(* SliceBlock and mergeRanges of internal/budget/token_budget.go: which    *)
(* lines of a file a pack shows when the file is taken as "slices".  The   *)
(* lines around the symbols and the lines that match a term of the task    *)
(* are windows of the file, which are sorted, merged and cut off.          *)
(*                                                                         *)
(* A file is what the two loops look at: how many lines it has, the lines  *)
(* of the symbols that match (0 where the analyzer knew no line), in the   *)
(* order of the symbols, and the lines that contain a term.  A symbol's    *)
(* line may lie behind the end of the file: Go's positions follow //line   *)
(* directives, and the symbols may be those of an older, longer text.      *)
(***************************************************************************)
EXTENDS Integers, Sequences, FiniteSets

CONSTANT Files

ASSUME FilesAssumption ==
  \A f \in Files : /\ f.lines \in Nat \ {0}
                   /\ f.symbols \in Seq(Nat)
                   /\ f.hits \subseteq 1 .. f.lines

VARIABLES
  pc, file,
  i,       \* the symbol, line or merged range the current loop has come to
  ranges,  \* the windows, in the order in which the loops find them
  left,    \* the positions in ranges that are still to be merged
  merged, capped,
  used     \* the lines of capped
vars == <<pc, file, i, ranges, left, merged, capped, used>>

Before == 3         \* lines shown before a match
AfterSymbol == 16   \* lines shown after a symbol
AfterHit == 6       \* lines shown after a line with a term
RangeLimit == 8     \* lines are looked at while there are fewer ranges
MaxLines == 90      \* lines in all
Gap == 2            \* a range that starts later than this after another is one of its own

LineRange == [start : Nat \ {0}, end : Nat \ {0}]

Clamp(value, min, max) == IF value < min THEN min ELSE IF value > max THEN max ELSE value

Window(line, after) ==
  [start |-> Clamp(line - Before, 1, file.lines), end |-> Clamp(line + after, 1, file.lines)]

Width(r) == r.end - r.start + 1

-----------------------------------------------------------------------------
(* The two loops of SliceBlock.                                            *)

SymbolRange ==
  /\ pc = "symbols" /\ i <= Len(file.symbols)
  /\ ranges' = IF file.symbols[i] > 0 THEN Append(ranges, Window(file.symbols[i], AfterSymbol))
                                      ELSE ranges
  /\ i' = i + 1
  /\ UNCHANGED <<pc, file, left, merged, capped, used>>

EndSymbols ==
  /\ pc = "symbols" /\ i > Len(file.symbols)
  /\ pc' = "lines" /\ i' = 0
  /\ UNCHANGED <<file, ranges, left, merged, capped, used>>

\* The lines with a term that the scan, which is at line i, has not reached.
HitsAhead == {h \in file.hits : h > i}

LineWindow ==
  /\ pc = "lines" /\ Len(ranges) < RangeLimit
  /\ \E h \in HitsAhead : /\ \A g \in HitsAhead : h <= g
                          /\ ranges' = Append(ranges, Window(h, AfterHit))
                          /\ i' = h
  /\ UNCHANGED <<pc, file, left, merged, capped, used>>

EndLines ==
  /\ pc = "lines" /\ (Len(ranges) >= RangeLimit \/ HitsAhead = {})
  /\ pc' = (IF ranges = <<>> THEN "done" ELSE "merge")
  /\ left' = DOMAIN ranges
  /\ UNCHANGED <<file, i, ranges, merged, capped, used>>

-----------------------------------------------------------------------------
(* mergeRanges: the ranges, sorted, are merged where they touch or leave a  *)
(* line between them, and the result is cut off after MaxLines lines.       *)

StartsFirst(a, b) == a.start < b.start \/ (a.start = b.start /\ a.end < b.end)

MutantSmallest(k) == k \in left /\ \A j \in left : k <= j  \* merges them as they were found

\* The range at k is the next in sorted order; the sort does not care which
\* of two equal ranges that is.
Smallest(k) == k \in left /\ \A j \in left : ~StartsFirst(ranges[j], ranges[k])

MutantStandsApart(r) ==  \* merges only ranges that touch or overlap
  merged # <<>> => r.start > merged[Len(merged)].end + 1

StandsApart(r) == merged # <<>> => r.start > merged[Len(merged)].end + Gap

StartRange ==
  /\ pc = "merge"
  /\ \E k \in left : /\ Smallest(k) /\ StandsApart(ranges[k])
                     /\ merged' = Append(merged, ranges[k])
                     /\ left' = left \ {k}
  /\ UNCHANGED <<pc, file, i, ranges, capped, used>>

ExtendRange ==
  /\ pc = "merge"
  /\ \E k \in left :
       /\ Smallest(k) /\ ~StandsApart(ranges[k])
       /\ merged' = IF ranges[k].end > merged[Len(merged)].end
                    THEN [merged EXCEPT ![Len(merged)].end = ranges[k].end]
                    ELSE merged
       /\ left' = left \ {k}
  /\ UNCHANGED <<pc, file, i, ranges, capped, used>>

EndMerge ==
  /\ pc = "merge" /\ left = {}
  /\ pc' = "cap" /\ i' = 1
  /\ UNCHANGED <<file, ranges, left, merged, capped, used>>

Capping == pc = "cap" /\ i <= Len(merged)

\* The part of range r that the lines left allow.
Cut(r) == IF used + Width(r) > MaxLines THEN [r EXCEPT !.end = r.start + (MaxLines - used) - 1] ELSE r

CapRange ==
  /\ Capping /\ ~(used >= MaxLines /\ Width(merged[i]) > 0)
  /\ IF Width(merged[i]) <= 0
     THEN UNCHANGED <<capped, used>>
     ELSE /\ capped' = Append(capped, Cut(merged[i]))
          /\ used' = used + Width(Cut(merged[i]))
  /\ i' = i + 1
  /\ UNCHANGED <<pc, file, ranges, left, merged>>

EndCap ==
  /\ pc = "cap"
  /\ \/ i > Len(merged)
     \/ i <= Len(merged) /\ used >= MaxLines /\ Width(merged[i]) > 0
  /\ pc' = "done"
  /\ UNCHANGED <<file, i, ranges, left, merged, capped, used>>

Returned == pc = "done" /\ UNCHANGED vars

Init ==
  /\ file \in Files
  /\ pc = "symbols" /\ i = 1 /\ used = 0
  /\ ranges = <<>> /\ left = {} /\ merged = <<>> /\ capped = <<>>

Next ==
  \/ SymbolRange \/ EndSymbols \/ LineWindow \/ EndLines
  \/ StartRange \/ ExtendRange \/ EndMerge
  \/ CapRange \/ EndCap \/ Returned

Spec == Init /\ [][Next]_vars

-----------------------------------------------------------------------------
TypeOK ==
  /\ pc \in {"symbols", "lines", "merge", "cap", "done"}
  /\ file \in Files
  /\ i \in Nat
  /\ ranges \in Seq(LineRange) /\ merged \in Seq(LineRange) /\ capped \in Seq(LineRange)
  /\ left \subseteq DOMAIN ranges
  /\ used \in Nat

\* The lines of the ranges of a sequence.
LinesOf(s) == UNION {s[k].start .. s[k].end : k \in DOMAIN s}

\* Line x of a file is shown for a match at a line: it is near enough, or it is
\* the last one and the match is said to be anywhere behind it.
Near(f, line, after, x) == (line - Before <= x \/ x = f.lines) /\ x <= line + after

\* What the code shows of a file, said without its loops: the windows of the
\* symbols, then those of the first lines with a term, while there are fewer
\* than RangeLimit; a single line between two windows is shown as well.
SymbolsWithLine == {k \in DOMAIN file.symbols : file.symbols[k] > 0}
LookedAt ==
  {h \in file.hits : Cardinality({g \in file.hits : g < h}) + Cardinality(SymbolsWithLine) < RangeLimit}
Windowed ==
  LET W(line, after) == {x \in 1 .. file.lines : Near(file, line, after, x)}
  IN  UNION ({W(file.symbols[k], AfterSymbol) : k \in SymbolsWithLine}
             \cup {W(h, AfterHit) : h \in LookedAt})
Wanted ==
  LET near == Windowed
  IN  near \cup {x \in 1 .. file.lines : {x - 1, x + 1} \subseteq near}

\* The slices of a file are exactly the first MaxLines of the wanted lines:
\* merging loses no line and invents none, whatever the order in which the
\* loops found the windows, and only lines past the limit are cut off, be it
\* inside a range.
FirstLinesShown ==
  pc = "done" =>
    LET shown == LinesOf(capped)
        wanted == Wanted
    IN  /\ shown \subseteq wanted
        /\ \A x \in wanted \ shown : Cardinality(shown) = MaxLines /\ \A y \in shown : y < x

\* The ranges that a slice's headings announce ("path:start-end") are in order
\* and at least Gap lines apart, so that no line is shown, or paid for, twice,
\* and a pack shows at most MaxLines lines of a file.
Apart(s) == \A k \in 1 .. Len(s) - 1 : s[k].end + Gap < s[k + 1].start
RangesApart ==
  /\ Apart(merged) /\ Apart(capped)
  /\ \A k \in DOMAIN capped : capped[k].start <= capped[k].end /\ capped[k].end <= file.lines
  /\ used <= MaxLines

=============================================================================
