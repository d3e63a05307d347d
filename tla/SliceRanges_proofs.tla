-------------------------- MODULE SliceRanges_proofs --------------------------
(***************************************************************************)
(* The ranges of a slice are apart, inside the file and not too many, for  *)
(* files of any length with any number of matches.                         *)
(***************************************************************************)
EXTENDS SliceRanges, FiniteSetTheorems, TLAPS

-----------------------------------------------------------------------------
(* The inductive invariant.                                                 *)

\* Every range is a piece of the file.
Inside(s) == \A k \in DOMAIN s : s[k].start <= s[k].end /\ s[k].end <= file.lines

\* A range for each merged one seen, none of which reaches past its original.
CapSoFar ==
  /\ pc \in {"symbols", "lines", "merge"} => capped = <<>> /\ used = 0
  /\ pc = "cap" =>
       /\ Len(capped) = i - 1 /\ i <= Len(merged) + 1
       /\ i > 1 => capped[i - 1].end <= merged[i - 1].end

IInv ==
  /\ TypeOK
  /\ Inside(ranges) /\ Inside(merged) /\ Inside(capped)
  /\ pc \in {"symbols", "lines"} => merged = <<>>
  /\ pc = "symbols" => i > 0
  /\ Apart(merged) /\ Apart(capped)
  /\ used <= MaxLines
  /\ CapSoFar
-----------------------------------------------------------------------------
(* Facts about the operators.                                               *)

\* The window of a line of the file is a piece of the file.
LEMMA WindowInside ==
  ASSUME file \in Files, NEW l \in Int, NEW a \in Nat
  PROVE  /\ Window(l, a) \in LineRange
         /\ Window(l, a).start <= Window(l, a).end
         /\ Window(l, a).end <= file.lines
<1>1. file.lines \in Nat \ {0}
  BY FilesAssumption
<1> QED BY <1>1 DEF Window, Clamp, LineRange, Before

\* What Append does to a sequence of ranges.
LEMMA AppendRange ==
  ASSUME NEW s \in Seq(LineRange), NEW r \in LineRange
  PROVE  /\ Append(s, r) \in Seq(LineRange)
         /\ Len(Append(s, r)) = Len(s) + 1
         /\ DOMAIN Append(s, r) = 1 .. Len(s) + 1
         /\ Append(s, r)[Len(s) + 1] = r
         /\ \A k \in 1 .. Len(s) : Append(s, r)[k] = s[k]
OBVIOUS

\* A window more leaves the ranges inside the file.
LEMMA AppendInside ==
  ASSUME TypeOK, Inside(ranges), NEW l \in Int, NEW a \in Nat,
         ranges' = Append(ranges, Window(l, a)), file' = file
  PROVE  /\ ranges' \in Seq(LineRange)
         /\ Inside(ranges)'
         /\ \A k \in DOMAIN ranges : k \in DOMAIN ranges'
<1>1. ranges \in Seq(LineRange) /\ file \in Files
  BY DEF TypeOK
<1>2. Window(l, a) \in LineRange
  BY <1>1, WindowInside
<1> QED BY <1>1, <1>2, WindowInside, AppendRange DEF Inside

\* Moving the end of one range leaves everything else.
LEMMA ExtendFacts ==
  ASSUME NEW s \in Seq(LineRange), NEW n \in DOMAIN s, NEW e \in Nat \ {0}
  PROVE  /\ [s EXCEPT ![n].end = e] \in Seq(LineRange)
         /\ Len([s EXCEPT ![n].end = e]) = Len(s)
         /\ DOMAIN [s EXCEPT ![n].end = e] = DOMAIN s
         /\ [s EXCEPT ![n].end = e][n].start = s[n].start
         /\ [s EXCEPT ![n].end = e][n].end = e
         /\ \A k \in DOMAIN s : k # n => [s EXCEPT ![n].end = e][k] = s[k]
<1>1. s[n] \in LineRange
  OBVIOUS
<1> DEFINE r == [s[n] EXCEPT !.end = e]
<1>2. r \in LineRange /\ r.start = s[n].start /\ r.end = e
  BY <1>1 DEF LineRange
<1>3. [s EXCEPT ![n].end = e] = [s EXCEPT ![n] = r]
  OBVIOUS
<1> HIDE DEF r
<1> QED BY <1>2, <1>3

\* Cutting keeps a range's start and never moves its end on.
LEMMA CutFacts ==
  ASSUME NEW r \in LineRange, r.start <= r.end, used \in Nat, used < MaxLines
  PROVE  /\ Cut(r) \in LineRange
         /\ Cut(r).start = r.start
         /\ r.start <= Cut(r).end /\ Cut(r).end <= r.end
         /\ Width(Cut(r)) \in Nat
         /\ used + Width(Cut(r)) <= MaxLines
<1>1. r.start \in Nat \ {0} /\ r.end \in Nat \ {0}
  BY DEF LineRange
<1>2. CASE used + Width(r) > MaxLines
  <2> DEFINE e == r.start + (MaxLines - used) - 1
  <2>1. e \in Nat \ {0} /\ r.start <= e /\ e <= r.end
    BY <1>1, <1>2 DEF MaxLines, Width
  <2>2. Cut(r) = [r EXCEPT !.end = e]
    BY <1>2 DEF Cut
  <2>3. e = r.start + (MaxLines - used) - 1
    OBVIOUS
  <2> HIDE DEF e
  <2>4. Cut(r) \in LineRange /\ Cut(r).start = r.start /\ Cut(r).end = e
    BY <2>1, <2>2 DEF LineRange
  <2> QED BY <1>1, <2>1, <2>3, <2>4 DEF Width, MaxLines
<1>3. CASE ~(used + Width(r) > MaxLines)
  BY <1>1, <1>3 DEF Cut, Width, MaxLines
<1> QED BY <1>2, <1>3

-----------------------------------------------------------------------------
LEMMA InitIInv == Init => IInv
<1> SUFFICES ASSUME Init PROVE IInv
  OBVIOUS
<1>1. TypeOK
  BY DEF Init, TypeOK
<1>2. Apart(<<>>) /\ Inside(<<>>)
  BY DEF Apart, Inside
<1> QED BY <1>1, <1>2 DEF Init, IInv, CapSoFar, MaxLines

\* The two loops that collect windows.
LEMMA CollectIInv ==
  ASSUME IInv, SymbolRange \/ LineWindow
  PROVE  IInv'
<1> USE DEF IInv
<1>1. /\ pc' = pc /\ pc \in {"symbols", "lines"} /\ file' = file
      /\ UNCHANGED <<left, merged, capped, used>>
  BY DEF SymbolRange, LineWindow
<1>2. file \in Files /\ i \in Nat /\ left \subseteq DOMAIN ranges /\ ranges \in Seq(LineRange)
  BY DEF TypeOK
<1>3. i' \in Nat /\ ranges' \in Seq(LineRange) /\ Inside(ranges)' /\ left \subseteq DOMAIN ranges'
  <2>1. CASE SymbolRange
    <3>1. file.symbols \in Seq(Nat) /\ file.lines \in Nat
      BY <1>2, FilesAssumption
    <3>2. pc = "symbols" /\ i \in 1 .. Len(file.symbols) /\ i' = i + 1
      BY <2>1, <1>2, <3>1 DEF SymbolRange
    <3>3. file.symbols[i] \in Int
      BY <3>1, <3>2
    <3>4. CASE file.symbols[i] > 0
      <4>1. ranges' = Append(ranges, Window(file.symbols[i], AfterSymbol))
        BY <2>1, <3>4 DEF SymbolRange
      <4> QED BY <3>2, <3>3, <4>1, <1>1, <1>2, AppendInside DEF AfterSymbol
    <3>5. CASE ranges' = ranges
      BY <3>2, <3>5, <1>1, <1>2 DEF Inside
    <3> QED BY <2>1, <3>4, <3>5 DEF SymbolRange
  <2>2. CASE LineWindow
    <3>1. PICK h \in HitsAhead : ranges' = Append(ranges, Window(h, AfterHit)) /\ i' = h
      BY <2>2 DEF LineWindow
    <3>2. h \in Nat /\ h \in Int
      BY <3>1, <1>2, FilesAssumption DEF HitsAhead
    <3>3. AfterHit \in Nat
      BY DEF AfterHit
    <3> QED BY <3>1, <3>2, <3>3, <1>1, <1>2, AppendInside
  <2> QED BY <2>1, <2>2
<1>4. TypeOK'
  BY <1>1, <1>2, <1>3 DEF TypeOK
<1>5. CapSoFar'
  BY <1>1 DEF CapSoFar
<1>6. (pc = "symbols" => i > 0)'
  BY <1>1, <1>2 DEF SymbolRange, LineWindow
<1> QED BY <1>1, <1>3, <1>4, <1>5, <1>6 DEF Inside, Apart

\* The steps between the loops.
LEMMA ControlIInv ==
  ASSUME IInv, EndSymbols \/ EndLines \/ EndMerge \/ EndCap
  PROVE  IInv'
<1> USE DEF IInv
<1>1. UNCHANGED <<file, ranges, merged, capped, used>>
  BY DEF EndSymbols, EndLines, EndMerge, EndCap
<1>2. TypeOK'
  BY <1>1 DEF TypeOK, EndSymbols, EndLines, EndMerge, EndCap
<1>3. CapSoFar'
  <2>1. merged \in Seq(LineRange)
    BY DEF TypeOK
  <2>2. CASE EndMerge
    BY <1>1, <2>1, <2>2 DEF CapSoFar, EndMerge
  <2> QED BY <1>1, <2>2 DEF CapSoFar, EndSymbols, EndLines, EndMerge, EndCap
<1>4. (pc \in {"symbols", "lines"} => merged = <<>>)' /\ (pc = "symbols" => i > 0)'
  BY <1>1 DEF EndSymbols, EndLines, EndMerge, EndCap
<1> QED BY <1>1, <1>2, <1>3, <1>4 DEF Inside, Apart

\* A range more in merged starts more than Gap lines behind the last one.
LEMMA StartIInv ==
  ASSUME IInv, StartRange
  PROVE  IInv'
<1> USE DEF IInv
<1>1. PICK k \in left : StandsApart(ranges[k]) /\ merged' = Append(merged, ranges[k])
                        /\ left' = left \ {k}
  BY DEF StartRange
<1>2. pc = "merge" /\ UNCHANGED <<pc, file, i, ranges, capped, used>>
  BY DEF StartRange
<1>3. /\ ranges \in Seq(LineRange) /\ merged \in Seq(LineRange) /\ k \in DOMAIN ranges
      /\ ranges[k] \in LineRange
  BY <1>1 DEF TypeOK
<1>4. TypeOK'
  BY <1>1, <1>2, <1>3, AppendRange DEF TypeOK
<1>5. Inside(merged)'
  BY <1>1, <1>2, <1>3, AppendRange DEF Inside
<1>6. Apart(merged)'
  <2>1. ASSUME NEW n \in 1 .. Len(merged) PROVE merged'[n].end + Gap < merged'[n + 1].start
    <3>1. CASE n = Len(merged)
      <4>1. merged # <<>> /\ merged[n] \in LineRange
        BY <1>3, <3>1
      <4> QED BY <1>1, <1>3, <3>1, <4>1, AppendRange DEF StandsApart, Gap, LineRange
    <3>2. CASE n # Len(merged)
      BY <1>1, <1>3, <3>2, AppendRange DEF Apart
    <3> QED BY <3>1, <3>2
  <2> QED BY <1>1, <1>3, <2>1, AppendRange DEF Apart
<1> QED BY <1>2, <1>4, <1>5, <1>6 DEF Inside, Apart, CapSoFar

\* Only the end of the last range moves.
LEMMA ExtendIInv ==
  ASSUME IInv, ExtendRange
  PROVE  IInv'
<1> USE DEF IInv
<1>1. PICK k \in left :
        /\ ~StandsApart(ranges[k])
        /\ merged' = IF ranges[k].end > merged[Len(merged)].end
                     THEN [merged EXCEPT ![Len(merged)].end = ranges[k].end]
                     ELSE merged
        /\ left' = left \ {k}
  BY DEF ExtendRange
<1>2. pc = "merge" /\ UNCHANGED <<pc, file, i, ranges, capped, used>>
  BY DEF ExtendRange
<1>3. /\ ranges \in Seq(LineRange) /\ merged \in Seq(LineRange) /\ k \in DOMAIN ranges
      /\ ranges[k] \in LineRange /\ merged # <<>>
  <2>1. ranges \in Seq(LineRange) /\ merged \in Seq(LineRange) /\ k \in DOMAIN ranges
    BY <1>1 DEF TypeOK
  <2> QED BY <1>1, <2>1 DEF StandsApart
<1>4. CASE merged' = merged
  BY <1>1, <1>2, <1>4 DEF TypeOK, Inside, Apart, CapSoFar
<1>5. CASE /\ ranges[k].end > merged[Len(merged)].end
           /\ merged' = [merged EXCEPT ![Len(merged)].end = ranges[k].end]
  <2> DEFINE last == Len(merged)
  <2>1. last \in DOMAIN merged /\ merged[last] \in LineRange /\ ranges[k].end \in Nat \ {0}
    <3>1. last \in DOMAIN merged
      BY <1>3
    <3>2. merged[last] \in LineRange
      BY <1>3, <3>1
    <3> QED BY <1>3, <3>1, <3>2 DEF LineRange
  <2>2. /\ merged' \in Seq(LineRange) /\ Len(merged') = Len(merged)
        /\ DOMAIN merged' = DOMAIN merged
        /\ merged'[last].start = merged[last].start
        /\ merged'[last].end = ranges[k].end
        /\ \A j \in DOMAIN merged : j # last => merged'[j] = merged[j]
    BY <1>3, <1>5, <2>1, ExtendFacts
  <2> HIDE DEF last
  <2>3. TypeOK'
    BY <1>1, <1>2, <2>2 DEF TypeOK
  <2>4. Inside(merged)'
    <3>1. merged[last].start <= merged[last].end /\ merged[last].end < ranges[k].end
          /\ ranges[k].end <= file.lines /\ file' = file
      BY <1>2, <1>3, <1>5, <2>1 DEF Inside, last
    <3>2. merged'[last].start <= merged'[last].end
      BY <2>1, <2>2, <3>1 DEF LineRange
    <3>3. ASSUME NEW j \in DOMAIN merged'
          PROVE  merged'[j].start <= merged'[j].end /\ merged'[j].end <= file'.lines
      BY <2>2, <3>1, <3>2 DEF Inside
    <3> QED BY <3>3 DEF Inside
  <2>5. Apart(merged)'
    <3>1. ASSUME NEW j \in 1 .. Len(merged) - 1
          PROVE  merged'[j].end = merged[j].end /\ merged'[j + 1].start = merged[j + 1].start
      BY <1>3, <2>1, <2>2 DEF last
    <3> QED BY <2>2, <3>1 DEF Apart
  <2> QED BY <1>2, <2>3, <2>4, <2>5 DEF Inside, Apart, CapSoFar
<1> QED BY <1>1, <1>4, <1>5

\* A merged range is taken as it is, or cut to the lines that are left.
LEMMA CapIInv ==
  ASSUME IInv, CapRange
  PROVE  IInv'
<1> USE DEF IInv
<1>1. /\ pc = "cap" /\ i <= Len(merged) /\ i' = i + 1
      /\ UNCHANGED <<pc, file, ranges, left, merged>>
  BY DEF CapRange, Capping
<1>2. /\ merged \in Seq(LineRange) /\ capped \in Seq(LineRange) /\ i \in Nat /\ used \in Nat
      /\ Len(capped) = i - 1 /\ used <= 90 /\ file \in Files
      /\ file.lines \in Nat
  BY <1>1, FilesAssumption DEF TypeOK, LineRange, CapSoFar, MaxLines
<1>3. i \in DOMAIN merged /\ merged[i] \in LineRange /\ merged[i].start <= merged[i].end
      /\ merged[i].end <= file.lines
  BY <1>1, <1>2 DEF Inside
<1>4. Width(merged[i]) > 0 /\ Width(merged[i]) \in Nat
  BY <1>3 DEF Width, LineRange
<1>5. /\ used < 90 /\ capped' = Append(capped, Cut(merged[i]))
      /\ used' = used + Width(Cut(merged[i]))
  BY <1>2, <1>4 DEF CapRange, MaxLines
<1>6. /\ Cut(merged[i]) \in LineRange
      /\ Cut(merged[i]).start = merged[i].start
      /\ Cut(merged[i]).start <= Cut(merged[i]).end
      /\ Cut(merged[i]).end <= merged[i].end
      /\ used + Width(Cut(merged[i])) \in Nat
      /\ used + Width(Cut(merged[i])) <= 90
  BY <1>2, <1>3, <1>5, CutFacts DEF MaxLines
<1>7. TypeOK'
  BY <1>1, <1>2, <1>5, <1>6, AppendRange DEF TypeOK
<1>8. Inside(capped)'
  <2>1. Cut(merged[i]).end <= file.lines
    BY <1>2, <1>3, <1>6 DEF LineRange
  <2>2. ASSUME NEW k \in DOMAIN capped'
        PROVE  capped'[k].start <= capped'[k].end /\ capped'[k].end <= file'.lines
    <3>1. CASE k = Len(capped) + 1
      BY <1>1, <1>2, <1>5, <1>6, <2>1, <3>1, AppendRange
    <3>2. CASE k \in 1 .. Len(capped)
      BY <1>1, <1>2, <1>5, <1>6, <3>2, AppendRange DEF Inside
    <3> QED BY <1>2, <1>5, <1>6, <3>1, <3>2, AppendRange
  <2> QED BY <2>2 DEF Inside
<1>9. Apart(capped)'
  <2>1. i > 1 => capped[i - 1].end <= merged[i - 1].end /\ merged[i - 1].end + Gap < merged[i].start
                 /\ capped[i - 1] \in LineRange /\ merged[i - 1] \in LineRange
    BY <1>1, <1>2, <1>3 DEF CapSoFar, Apart
  <2>2. ASSUME NEW k \in 1 .. Len(capped)
        PROVE  capped'[k].end + Gap < capped'[k + 1].start
    <3>1. CASE k = Len(capped)
      <4>1. i > 1 /\ k = i - 1 /\ capped'[k] = capped[i - 1]
            /\ capped'[k + 1].start = merged[i].start
        BY <1>2, <1>5, <1>6, <3>1, AppendRange
      <4> QED BY <1>3, <2>1, <4>1 DEF Gap, LineRange
    <3>2. CASE k # Len(capped)
      BY <1>2, <1>5, <1>6, <3>2, AppendRange DEF Apart
    <3> QED BY <3>1, <3>2
  <2> QED BY <1>2, <1>5, <1>6, <2>2, AppendRange DEF Apart
<1>10. CapSoFar'
  BY <1>1, <1>2, <1>3, <1>5, <1>6, AppendRange DEF CapSoFar
<1> QED BY <1>1, <1>5, <1>6, <1>7, <1>8, <1>9, <1>10 DEF Inside, Apart, MaxLines

LEMMA NextIInv == IInv /\ [Next]_vars => IInv'
<1> SUFFICES ASSUME IInv, [Next]_vars PROVE IInv'
  OBVIOUS
<1>1. CASE SymbolRange \/ LineWindow
  BY <1>1, CollectIInv
<1>2. CASE EndSymbols \/ EndLines \/ EndMerge \/ EndCap
  BY <1>2, ControlIInv
<1>3. CASE StartRange
  BY <1>3, StartIInv
<1>4. CASE ExtendRange
  BY <1>4, ExtendIInv
<1>5. CASE CapRange
  BY <1>5, CapIInv
<1>6. CASE Returned \/ UNCHANGED vars
  BY <1>6 DEF Returned, vars, IInv, TypeOK, Inside, Apart, CapSoFar
<1> QED BY <1>1, <1>2, <1>3, <1>4, <1>5, <1>6 DEF Next

LEMMA Invariance == Spec => []IInv
<1> QED BY InitIInv, NextIInv, PTL DEF Spec
-----------------------------------------------------------------------------
\* Every variable of SliceBlock and mergeRanges keeps its type.
THEOREM TypeCorrect == Spec => []TypeOK
<1>1. IInv => TypeOK
  BY DEF IInv
<1> QED BY <1>1, Invariance, PTL

\* The ranges that a slice announces are in order, apart, inside the file, and
\* together no longer than MaxLines, whatever lines of whatever file match.
THEOREM SlicesApart == Spec => []RangesApart
<1>1. IInv => RangesApart
  BY DEF IInv, RangesApart, Inside
<1> QED BY <1>1, Invariance, PTL
-----------------------------------------------------------------------------
(* Which lines are shown: what the loops have collected.                    *)

SymbolsSeen(f, n) == {k \in DOMAIN f.symbols : k < n /\ f.symbols[k] > 0}
HitsSeen(f, n) == {h \in f.hits : h <= n}

\* x is in the window of one of these symbols or of one of these lines.
NearSome(f, S, H, x) ==
  /\ x \in 1 .. f.lines
  /\ \/ \E k \in S : Near(f, f.symbols[k], AfterSymbol, x)
     \/ \E h \in H : Near(f, h, AfterHit, x)

\* The windows so far are those of the symbols and of the lines passed, of which
\* none was passed that should not have been looked at.
Collected ==
  /\ pc = "symbols" =>
       /\ i <= Len(file.symbols) + 1
       /\ Len(ranges) = Cardinality(SymbolsSeen(file, i))
       /\ \A x : x \in LinesOf(ranges) <=> NearSome(file, SymbolsSeen(file, i), {}, x)
  /\ pc = "lines" =>
       /\ HitsSeen(file, i) \subseteq LookedAt
       /\ Len(ranges) = Cardinality(SymbolsWithLine) + Cardinality(HitsSeen(file, i))
       /\ \A x : x \in LinesOf(ranges) <=> NearSome(file, SymbolsWithLine, HitsSeen(file, i), x)
  /\ pc \in {"merge", "cap", "done"} => \A x : x \in LinesOf(ranges) <=> x \in Windowed
-----------------------------------------------------------------------------
LEMMA InLinesOf ==
  ASSUME NEW s, NEW x
  PROVE  x \in LinesOf(s) <=> \E k \in DOMAIN s : x \in s[k].start .. s[k].end
BY DEF LinesOf

LEMMA AppendLines ==
  ASSUME NEW s \in Seq(LineRange), NEW r \in LineRange, NEW x
  PROVE  x \in LinesOf(Append(s, r)) <=> x \in LinesOf(s) \/ x \in r.start .. r.end
<1> DEFINE longer == Append(s, r)
<1>1. /\ DOMAIN longer = 1 .. Len(s) + 1 /\ DOMAIN s = 1 .. Len(s) /\ Len(s) \in Nat
      /\ longer[Len(s) + 1] = r /\ \A k \in 1 .. Len(s) : longer[k] = s[k]
  BY AppendRange
<1> HIDE DEF longer
<1>2. ASSUME x \in LinesOf(longer) PROVE x \in LinesOf(s) \/ x \in r.start .. r.end
  <2>1. PICK k \in 1 .. Len(s) + 1 : x \in longer[k].start .. longer[k].end
    BY <1>1, <1>2, InLinesOf
  <2>2. CASE k \in 1 .. Len(s)
    BY <1>1, <2>1, <2>2, InLinesOf
  <2>3. CASE k = Len(s) + 1
    BY <1>1, <2>1, <2>3
  <2> QED BY <1>1, <2>2, <2>3
<1>3. ASSUME x \in LinesOf(s) PROVE x \in LinesOf(longer)
  <2>1. PICK k \in 1 .. Len(s) : x \in s[k].start .. s[k].end
    BY <1>1, <1>3, InLinesOf
  <2>2. k \in 1 .. Len(s) + 1
    BY <1>1
  <2> QED BY <1>1, <2>1, <2>2, InLinesOf
<1>4. ASSUME x \in r.start .. r.end PROVE x \in LinesOf(longer)
  <2>1. Len(s) + 1 \in 1 .. Len(s) + 1
    BY <1>1
  <2> QED BY <1>1, <1>4, <2>1, InLinesOf
<1> QED BY <1>2, <1>3, <1>4 DEF longer

\* Clamping both ends of a window leaves the lines of the file that are near
\* the match, and the last line when the match is said to be behind it.
LEMMA WindowLines ==
  ASSUME file \in Files, NEW l \in Nat \ {0}, NEW a \in Nat, NEW x
  PROVE  x \in Window(l, a).start .. Window(l, a).end <=> x \in 1 .. file.lines /\ Near(file, l, a, x)
<1>1. file.lines \in Nat \ {0}
  BY FilesAssumption
<1>2. /\ Window(l, a).start = Clamp(l - Before, 1, file.lines)
      /\ Window(l, a).end = Clamp(l + a, 1, file.lines)
  BY DEF Window
<1> DEFINE n == file.lines
           first == Window(l, a).start
           last == Window(l, a).end
<1>3. /\ l - 3 < 1 => first = 1
      /\ l - 3 >= 1 /\ l - 3 <= n => first = l - 3
      /\ l - 3 > n => first = n
  BY <1>1, <1>2 DEF Clamp, Before
<1>4. /\ l + a > n => last = n
      /\ l + a <= n => last = l + a
  BY <1>1, <1>2 DEF Clamp
<1>5. Near(file, l, a, x) <=> (l - 3 <= x \/ x = n) /\ x <= l + a
  BY DEF Near, Before
<1>6. n \in Nat \ {0} /\ first \in Nat /\ last \in Nat
  BY <1>1, <1>3, <1>4
<1> HIDE DEF n, first, last
<1> QED BY <1>3, <1>4, <1>5, <1>6 DEF n, first, last

LEMMA InWindowed ==
  ASSUME NEW x
  PROVE  x \in Windowed <=> NearSome(file, SymbolsWithLine, LookedAt, x)
<1> DEFINE W(line, after) == {y \in 1 .. file.lines : Near(file, line, after, y)}
           A == {W(file.symbols[k], AfterSymbol) : k \in SymbolsWithLine}
           B == {W(h, AfterHit) : h \in LookedAt}
<1>1. Windowed = UNION (A \cup B)
  BY DEF Windowed
<1>2. (\E w \in A : x \in w) <=> \E k \in SymbolsWithLine : x \in W(file.symbols[k], AfterSymbol)
  OBVIOUS
<1>3. (\E w \in B : x \in w) <=> \E h \in LookedAt : x \in W(h, AfterHit)
  OBVIOUS
<1> HIDE DEF A, B
<1>4. x \in Windowed <=> (\E w \in A : x \in w) \/ (\E w \in B : x \in w)
  BY <1>1
<1> QED BY <1>2, <1>3, <1>4 DEF NearSome

\* The lines with a term are finitely many, as are the symbols.
LEMMA FileFacts ==
  ASSUME TypeOK
  PROVE  /\ file.lines \in Nat \ {0}
         /\ file.symbols \in Seq(Nat) /\ Len(file.symbols) \in Nat
         /\ DOMAIN file.symbols = 1 .. Len(file.symbols)
         /\ \A k \in DOMAIN file.symbols : file.symbols[k] \in Nat
         /\ file.hits \subseteq 1 .. file.lines
         /\ \A S \in SUBSET file.hits : IsFiniteSet(S) /\ Cardinality(S) \in Nat
         /\ \A S \in SUBSET DOMAIN file.symbols : IsFiniteSet(S) /\ Cardinality(S) \in Nat
<1>1. /\ file.lines \in Nat \ {0} /\ file.symbols \in Seq(Nat)
      /\ file.hits \subseteq 1 .. file.lines
  BY FilesAssumption DEF TypeOK
<1>2. IsFiniteSet(1 .. file.lines) /\ IsFiniteSet(1 .. Len(file.symbols))
  <2>1. 1 \in Int /\ file.lines \in Int /\ Len(file.symbols) \in Int
    BY <1>1
  <2> QED BY <2>1, FS_Interval
<1>3. /\ Len(file.symbols) \in Nat /\ DOMAIN file.symbols = 1 .. Len(file.symbols)
      /\ \A k \in DOMAIN file.symbols : file.symbols[k] \in Nat
  BY <1>1
<1>4. \A S \in SUBSET file.hits : IsFiniteSet(S) /\ Cardinality(S) \in Nat
  <2> TAKE S \in SUBSET file.hits
  <2>1. S \in SUBSET (1 .. file.lines)
    BY <1>1
  <2> QED BY <1>2, <2>1, FS_Subset, FS_CardinalityType
<1>5. \A S \in SUBSET DOMAIN file.symbols : IsFiniteSet(S) /\ Cardinality(S) \in Nat
  <2> TAKE S \in SUBSET DOMAIN file.symbols
  <2>1. S \in SUBSET (1 .. Len(file.symbols))
    BY <1>3
  <2> QED BY <1>2, <2>1, FS_Subset, FS_CardinalityType
<1> QED BY <1>1, <1>3, <1>4, <1>5

LEMMA InitCollected == Init => Collected
<1> SUFFICES ASSUME Init PROVE Collected
  OBVIOUS
<1>1. TypeOK
  BY InitIInv DEF IInv
<1>2. SymbolsSeen(file, 1) = {} /\ pc = "symbols" /\ i = 1 /\ ranges = <<>>
  BY <1>1, FileFacts DEF SymbolsSeen, Init
<1>3. LinesOf(<<>>) = {} /\ Len(<<>>) = 0
  BY DEF LinesOf
<1>4. \A x : ~NearSome(file, {}, {}, x)
  BY DEF NearSome
<1>5. 1 <= Len(file.symbols) + 1
  BY <1>1, FileFacts
<1>6. Cardinality({}) = 0
  BY FS_EmptySet
<1> QED BY <1>2, <1>3, <1>4, <1>5, <1>6 DEF Collected

\* The windows of the symbols.
LEMMA SymbolCollected ==
  ASSUME IInv, Collected, SymbolRange
  PROVE  Collected'
<1> DEFINE seen == SymbolsSeen(file, i)
           line == file.symbols[i]
<1>0. TypeOK /\ i \in Nat \ {0} /\ ranges \in Seq(LineRange) /\ pc = "symbols" /\ file \in Files
  BY DEF IInv, TypeOK, SymbolRange
<1>1. /\ i \in 1 .. Len(file.symbols) /\ line \in Nat
      /\ i' = i + 1 /\ file' = file /\ pc' = "symbols"
  BY <1>0, FileFacts DEF SymbolRange
<1>2. /\ Len(ranges) = Cardinality(seen)
      /\ \A x : x \in LinesOf(ranges) <=> NearSome(file, seen, {}, x)
  BY <1>0 DEF Collected
<1>3. i' <= Len(file.symbols) + 1
  BY <1>0, <1>1, FileFacts
<1>4. CASE line > 0
  <2>1. SymbolsSeen(file, i + 1) = seen \cup {i} /\ i \notin seen
    BY <1>0, <1>1, <1>4, FileFacts DEF SymbolsSeen
  <2>2. IsFiniteSet(seen) /\ Cardinality(seen) \in Nat
    BY <1>0, FileFacts DEF SymbolsSeen
  <2>3. ranges' = Append(ranges, Window(line, AfterSymbol))
    BY <1>4 DEF SymbolRange
  <2>4. line \in Nat \ {0} /\ line \in Int /\ AfterSymbol \in Nat
    BY <1>0, <1>1, <1>4, FileFacts DEF AfterSymbol
  <2>5. Window(line, AfterSymbol) \in LineRange
    BY <1>0, <2>4, WindowInside
  <2> HIDE DEF seen, line
  <2>6. Len(ranges') = Cardinality(SymbolsSeen(file, i + 1))
    <3>1. Cardinality(seen \cup {i}) = Cardinality(seen) + 1
      BY <2>1, <2>2, FS_AddElement
    <3>2. Len(ranges') = Len(ranges) + 1
      BY <1>0, <2>3, <2>5, AppendRange
    <3> QED BY <1>2, <2>1, <3>1, <3>2
  <2>7. ASSUME NEW x
        PROVE  x \in LinesOf(ranges') <=> NearSome(file, SymbolsSeen(file, i + 1), {}, x)
    <3>1. x \in LinesOf(ranges') <=>
            \/ x \in LinesOf(ranges)
            \/ x \in Window(line, AfterSymbol).start .. Window(line, AfterSymbol).end
      BY <1>0, <2>3, <2>5, AppendLines
    <3>2. x \in Window(line, AfterSymbol).start .. Window(line, AfterSymbol).end
            <=> x \in 1 .. file.lines /\ Near(file, line, AfterSymbol, x)
      BY <1>0, <2>4, WindowLines
    <3>3. NearSome(file, seen \cup {i}, {}, x) <=>
            \/ NearSome(file, seen, {}, x)
            \/ x \in 1 .. file.lines /\ Near(file, line, AfterSymbol, x)
      BY DEF NearSome, line
    <3> QED BY <1>2, <2>1, <3>1, <3>2, <3>3
  <2> QED BY <1>1, <1>3, <2>6, <2>7 DEF Collected
<1>5. CASE ~(line > 0)
  <2>1. SymbolsSeen(file, i + 1) = seen
    BY <1>0, <1>1, <1>5, FileFacts DEF SymbolsSeen
  <2>2. ranges' = ranges
    BY <1>5 DEF SymbolRange
  <2> QED BY <1>1, <1>2, <1>3, <2>1, <2>2 DEF Collected
<1> QED BY <1>4, <1>5

LEMMA EndSymbolsCollected ==
  ASSUME IInv, Collected, EndSymbols
  PROVE  Collected'
<1>0. TypeOK /\ pc = "symbols" /\ i \in Nat /\ i > Len(file.symbols)
  BY DEF IInv, TypeOK, EndSymbols
<1>1. pc' = "lines" /\ i' = 0 /\ file' = file /\ ranges' = ranges
  BY DEF EndSymbols
<1>2. SymbolsSeen(file, i) = SymbolsWithLine /\ SymbolsWithLine' = SymbolsWithLine
  BY <1>0, <1>1, FileFacts DEF SymbolsSeen, SymbolsWithLine
<1>3. HitsSeen(file, 0) = {} /\ Cardinality({}) = 0
  BY <1>0, FileFacts, FS_EmptySet DEF HitsSeen
<1>4. Cardinality(SymbolsWithLine) \in Nat
  BY <1>0, FileFacts DEF SymbolsWithLine
<1>5. /\ Len(ranges) = Cardinality(SymbolsWithLine) + Cardinality({})
      /\ \A x : x \in LinesOf(ranges) <=> NearSome(file, SymbolsWithLine, {}, x)
  BY <1>0, <1>2, <1>3, <1>4 DEF Collected
<1> QED BY <1>1, <1>2, <1>3, <1>5 DEF Collected

\* The first line ahead is looked at, since fewer than the limit were before it.
LEMMA LineCollected ==
  ASSUME IInv, Collected, LineWindow
  PROVE  Collected'
<1>0. TypeOK /\ i \in Nat /\ ranges \in Seq(LineRange) /\ pc = "lines" /\ file \in Files
      /\ Len(ranges) < RangeLimit
  BY DEF IInv, TypeOK, LineWindow
<1>1. PICK h \in HitsAhead : /\ \A g \in HitsAhead : h <= g
                            /\ ranges' = Append(ranges, Window(h, AfterHit)) /\ i' = h
  BY DEF LineWindow
<1>2. pc' = "lines" /\ file' = file /\ SymbolsWithLine' = SymbolsWithLine /\ LookedAt' = LookedAt
  BY <1>0 DEF LineWindow, SymbolsWithLine, LookedAt
<1> DEFINE seen == HitsSeen(file, i)
<1>3. /\ seen \subseteq LookedAt
      /\ Len(ranges) = Cardinality(SymbolsWithLine) + Cardinality(seen)
      /\ \A x : x \in LinesOf(ranges) <=> NearSome(file, SymbolsWithLine, seen, x)
  BY <1>0 DEF Collected
<1>4. h \in file.hits /\ h \in 1 .. file.lines /\ h \in Int /\ h > i
  BY <1>0, FileFacts DEF HitsAhead
<1>5. {g \in file.hits : g < h} = seen /\ HitsSeen(file, h) = seen \cup {h} /\ h \notin seen
  <2>1. \A g \in file.hits : g \in Nat
    BY <1>0, FileFacts
  <2>2. \A g \in file.hits : g > i => h <= g
    BY <1>1 DEF HitsAhead
  <2>3. i \in Nat /\ h \in Nat /\ h > i /\ h \in file.hits
    BY <1>0, <1>4
  <2>4. {g \in file.hits : g < h} = seen
    BY <2>1, <2>2, <2>3 DEF HitsSeen
  <2>5. HitsSeen(file, h) = seen \cup {h}
    BY <2>1, <2>2, <2>3 DEF HitsSeen
  <2>6. h \notin seen
    BY <2>3 DEF HitsSeen
  <2> QED BY <2>4, <2>5, <2>6
<1>6. IsFiniteSet(seen) /\ Cardinality(seen) \in Nat /\ Cardinality(SymbolsWithLine) \in Nat
  BY <1>0, FileFacts DEF HitsSeen, SymbolsWithLine
<1> HIDE DEF seen
<1>7. h \in LookedAt
  <2>1. Cardinality({g \in file.hits : g < h}) + Cardinality(SymbolsWithLine) < RangeLimit
    <3>1. Cardinality(seen) + Cardinality(SymbolsWithLine) < RangeLimit
      BY <1>0, <1>3, <1>6 DEF RangeLimit
    <3> QED BY <1>5, <3>1
  <2> QED BY <1>4, <2>1 DEF LookedAt
<1>8. Window(h, AfterHit) \in LineRange /\ AfterHit \in Nat
  BY <1>0, <1>4, WindowInside DEF AfterHit
<1>9. Len(ranges') = Cardinality(SymbolsWithLine) + Cardinality(HitsSeen(file, h))
  <2>1. Cardinality(HitsSeen(file, h)) = Cardinality(seen) + 1
    BY <1>5, <1>6, FS_AddElement
  <2>2. Len(ranges') = Len(ranges) + 1
    BY <1>0, <1>1, <1>8, AppendRange
  <2> QED BY <1>3, <1>6, <2>1, <2>2
<1>10. ASSUME NEW x
       PROVE  x \in LinesOf(ranges') <=> NearSome(file, SymbolsWithLine, HitsSeen(file, h), x)
  <2>1. x \in LinesOf(ranges') <=>
          x \in LinesOf(ranges) \/ x \in Window(h, AfterHit).start .. Window(h, AfterHit).end
    BY <1>0, <1>1, <1>8, AppendLines
  <2>2. x \in Window(h, AfterHit).start .. Window(h, AfterHit).end
          <=> x \in 1 .. file.lines /\ Near(file, h, AfterHit, x)
    <3>1. h \in Nat \ {0}
      BY <1>0, <1>4, FileFacts
    <3> QED BY <1>0, <1>8, <3>1, WindowLines
  <2>3. NearSome(file, SymbolsWithLine, seen \cup {h}, x) <=>
          \/ NearSome(file, SymbolsWithLine, seen, x)
          \/ x \in 1 .. file.lines /\ Near(file, h, AfterHit, x)
    BY DEF NearSome
  <2> QED BY <1>3, <1>5, <2>1, <2>2, <2>3
<1> QED BY <1>1, <1>2, <1>3, <1>5, <1>7, <1>9, <1>10 DEF Collected

\* When the lines end, all that is to be looked at has been.
LEMMA EndLinesCollected ==
  ASSUME IInv, Collected, EndLines
  PROVE  Collected'
<1>0. TypeOK /\ i \in Nat /\ pc = "lines" /\ file' = file /\ ranges' = ranges
      /\ pc' \in {"merge", "done"}
  BY DEF IInv, TypeOK, EndLines
<1> DEFINE seen == HitsSeen(file, i)
<1>1. /\ seen \subseteq LookedAt
      /\ Len(ranges) = Cardinality(SymbolsWithLine) + Cardinality(seen)
      /\ \A x : x \in LinesOf(ranges) <=> NearSome(file, SymbolsWithLine, seen, x)
  BY <1>0 DEF Collected
<1>2. LookedAt \subseteq seen
  <2> SUFFICES ASSUME NEW h \in LookedAt, h \notin seen PROVE FALSE
    OBVIOUS
  <2> DEFINE before == {g \in file.hits : g < h}
  <2>1. h \in file.hits /\ h \in Int /\ h > i
    BY <1>0, FileFacts DEF LookedAt, HitsSeen
  <2>2. Len(ranges) >= RangeLimit
    BY <2>1 DEF EndLines, HitsAhead
  <2>3. seen \subseteq before
    BY <1>0, <2>1, FileFacts DEF HitsSeen
  <2>4. /\ IsFiniteSet(before) /\ Cardinality(before) \in Nat /\ Cardinality(seen) \in Nat
        /\ Cardinality(SymbolsWithLine) \in Nat
    BY <1>0, FileFacts DEF HitsSeen, SymbolsWithLine
  <2>5. Cardinality(before) + Cardinality(SymbolsWithLine) < RangeLimit
    BY DEF LookedAt
  <2> HIDE DEF seen, before
  <2>6. Cardinality(seen) <= Cardinality(before)
    BY <2>3, <2>4, FS_Subset
  <2> QED BY <1>1, <2>2, <2>4, <2>5, <2>6 DEF RangeLimit
<1>3. \A x : x \in LinesOf(ranges) <=> x \in Windowed
  <2>1. seen = LookedAt
    BY <1>1, <1>2
  <2> QED BY <1>1, <2>1, InWindowed
<1>4. Windowed' = Windowed
  BY <1>0 DEF Windowed, SymbolsWithLine, LookedAt
<1> QED BY <1>0, <1>3, <1>4 DEF Collected

LEMMA CollectedStep == IInv /\ Collected /\ [Next]_vars => Collected'
<1> SUFFICES ASSUME IInv, Collected, [Next]_vars PROVE Collected'
  OBVIOUS
<1>1. CASE SymbolRange \/ EndSymbols \/ LineWindow \/ EndLines
  BY <1>1, SymbolCollected, EndSymbolsCollected, LineCollected, EndLinesCollected
<1>2. CASE StartRange \/ ExtendRange \/ EndMerge \/ CapRange \/ EndCap \/ Returned
  <2>1. /\ pc \in {"merge", "cap", "done"} /\ pc' \in {"merge", "cap", "done"}
        /\ file' = file /\ ranges' = ranges
    BY <1>2 DEF StartRange, ExtendRange, EndMerge, CapRange, EndCap, Returned, Capping, vars
  <2>2. Windowed' = Windowed
    BY <2>1 DEF Windowed, SymbolsWithLine, LookedAt
  <2> QED BY <2>1, <2>2 DEF Collected
<1>3. CASE UNCHANGED vars
  <2>1. Windowed' = Windowed /\ SymbolsWithLine' = SymbolsWithLine /\ LookedAt' = LookedAt
    BY <1>3 DEF Windowed, SymbolsWithLine, LookedAt, vars
  <2> QED BY <1>3, <2>1 DEF Collected, vars
<1> QED BY <1>1, <1>2, <1>3 DEF Next
-----------------------------------------------------------------------------
(* Which lines are shown: what is merged.                                   *)

\* x is in a range that has been merged.
Taken(rs, rest, x) == \E k \in DOMAIN rs \ rest : x \in rs[k].start .. rs[k].end

FarApart(s) == \A j, k \in DOMAIN s : j < k => s[j].end + Gap < s[k].start

\* The merged ranges have the lines of those taken, and of the others only
\* single ones between two of them; what is left starts no earlier than they do.
MergedSoFar ==
  /\ FarApart(merged)
  /\ pc = "merge" =>
       /\ \A x : Taken(ranges, left, x) => x \in LinesOf(merged)
       /\ \A x \in LinesOf(merged) :
            \/ Taken(ranges, left, x)
            \/ Taken(ranges, left, x - 1) /\ Taken(ranges, left, x + 1)
       /\ \A k \in DOMAIN merged : Taken(ranges, left, merged[k].end)
       /\ \A k \in left : \A j \in DOMAIN merged : merged[j].start <= ranges[k].start
  /\ pc \in {"cap", "done"} => LinesOf(merged) = Wanted
-----------------------------------------------------------------------------
\* A range more is taken.
LEMMA TakenFacts ==
  ASSUME TypeOK, NEW k \in left, left' = left \ {k}, ranges' = ranges
  PROVE  /\ \A x : Taken(ranges', left', x)
                     <=> Taken(ranges, left, x) \/ x \in ranges[k].start .. ranges[k].end
         /\ k \in DOMAIN ranges /\ ranges[k] \in LineRange
<1>1. k \in DOMAIN ranges /\ ranges \in Seq(LineRange)
  BY DEF TypeOK
<1>2. DOMAIN ranges \ left' = (DOMAIN ranges \ left) \cup {k}
  BY <1>1
<1> QED BY <1>1, <1>2 DEF Taken

\* The next in sorted order starts no later than the rest.
LEMMA SmallestFacts ==
  ASSUME TypeOK, NEW k \in left, Smallest(k)
  PROVE  \A j \in left : ranges[k].start <= ranges[j].start
<1> SUFFICES ASSUME NEW j \in left PROVE ranges[k].start <= ranges[j].start
  OBVIOUS
<1>1. ranges[k] \in LineRange /\ ranges[j] \in LineRange
  BY DEF TypeOK
<1>2. ~StartsFirst(ranges[j], ranges[k])
  BY DEF Smallest
<1> QED BY <1>1, <1>2 DEF StartsFirst, LineRange

LEMMA RangeFacts ==
  ASSUME NEW s \in Seq(LineRange), Inside(s)
  PROVE  \A k \in DOMAIN s : /\ k \in Nat \ {0} /\ s[k] \in LineRange
                            /\ s[k].start \in Nat \ {0} /\ s[k].end \in Nat \ {0}
                            /\ s[k].start <= s[k].end /\ s[k].end <= file.lines
<1> SUFFICES ASSUME NEW k \in DOMAIN s
             PROVE  /\ k \in Nat \ {0} /\ s[k] \in LineRange
                    /\ s[k].start \in Nat \ {0} /\ s[k].end \in Nat \ {0}
                    /\ s[k].start <= s[k].end /\ s[k].end <= file.lines
  OBVIOUS
<1>1. s[k] \in LineRange
  OBVIOUS
<1> QED BY <1>1 DEF LineRange, Inside

LEMMA StartMerged ==
  ASSUME IInv, MergedSoFar, StartRange
  PROVE  MergedSoFar'
<1>1. PICK k \in left : Smallest(k) /\ StandsApart(ranges[k])
                        /\ merged' = Append(merged, ranges[k]) /\ left' = left \ {k}
  BY DEF StartRange
<1> DEFINE r == ranges[k]
           n == Len(merged)
<1>2. pc = "merge" /\ pc' = "merge" /\ ranges' = ranges /\ TypeOK /\ merged \in Seq(LineRange)
  BY DEF StartRange, IInv, TypeOK
<1>3. /\ \A x : Taken(ranges', left', x) <=> Taken(ranges, left, x) \/ x \in r.start .. r.end
      /\ k \in DOMAIN ranges /\ r \in LineRange
  BY <1>1, <1>2, TakenFacts
<1>4. /\ DOMAIN merged' = 1 .. n + 1 /\ DOMAIN merged = 1 .. n /\ n \in Nat
      /\ merged'[n + 1] = r /\ \A j \in 1 .. n : merged'[j] = merged[j]
  BY <1>1, <1>2, <1>3, AppendRange
<1>5. r.start <= r.end /\ r.start \in Nat /\ r.end \in Nat
  BY <1>3 DEF IInv, Inside, LineRange
<1>6. \A x : x \in LinesOf(merged') <=> x \in LinesOf(merged) \/ x \in r.start .. r.end
  BY <1>1, <1>2, <1>3, AppendLines
<1>7. \A j \in 1 .. n : merged[j].start \in Nat /\ merged[j].end \in Nat
                        /\ merged[j].start <= merged[j].end
  BY <1>2, <1>4, RangeFacts DEF IInv
<1> HIDE DEF r, n
<1>8. FarApart(merged')
  <2>1. ASSUME NEW j \in 1 .. n PROVE merged[j].end + Gap < r.start
    <3>1. n \in 1 .. n /\ merged # <<>>
      BY <1>4
    <3>2. merged[n].end + Gap < r.start
      BY <1>1, <1>5, <1>7, <3>1 DEF StandsApart, r, n, Gap
    <3>3. j # n => merged[j].end + Gap < merged[n].start
      BY <1>4, <2>1, <3>1 DEF MergedSoFar, FarApart
    <3>4. /\ merged[j].end \in Nat /\ merged[n].start \in Nat /\ merged[n].end \in Nat
          /\ merged[n].start <= merged[n].end
      BY <1>7, <3>1
    <3> QED BY <1>5, <3>2, <3>3, <3>4 DEF Gap
  <2>2. ASSUME NEW j \in 1 .. n + 1, NEW m \in 1 .. n + 1, j < m
        PROVE  merged'[j].end + Gap < merged'[m].start
    <3>1. CASE m = n + 1
      BY <1>4, <2>1, <2>2, <3>1
    <3>2. CASE m # n + 1
      BY <1>4, <2>2, <3>2 DEF MergedSoFar, FarApart
    <3> QED BY <3>1, <3>2
  <2> QED BY <1>4, <2>2 DEF FarApart
<1>9. \A x : Taken(ranges', left', x) => x \in LinesOf(merged')
  BY <1>2, <1>3, <1>6 DEF MergedSoFar, r
<1>10. \A x \in LinesOf(merged') :
         \/ Taken(ranges', left', x)
         \/ Taken(ranges', left', x - 1) /\ Taken(ranges', left', x + 1)
  BY <1>2, <1>3, <1>6 DEF MergedSoFar, r
<1>11. \A j \in DOMAIN merged' : Taken(ranges', left', merged'[j].end)
  <2> SUFFICES ASSUME NEW j \in 1 .. n + 1 PROVE Taken(ranges', left', merged'[j].end)
    BY <1>4
  <2>1. CASE j = n + 1
    BY <1>3, <1>4, <1>5, <2>1 DEF r
  <2>2. CASE j # n + 1
    BY <1>2, <1>3, <1>4, <2>2 DEF MergedSoFar, r
  <2> QED BY <2>1, <2>2
<1>12. \A m \in left' : \A j \in DOMAIN merged' : merged'[j].start <= ranges[m].start
  <2> SUFFICES ASSUME NEW m \in left', NEW j \in 1 .. n + 1
               PROVE  merged'[j].start <= ranges[m].start
    BY <1>4
  <2>1. m \in left
    BY <1>1
  <2>2. CASE j = n + 1
    BY <1>1, <1>2, <1>4, <2>1, <2>2, SmallestFacts DEF r
  <2>3. CASE j # n + 1
    BY <1>2, <1>4, <2>1, <2>3 DEF MergedSoFar
  <2> QED BY <2>2, <2>3
<1> QED BY <1>2, <1>8, <1>9, <1>10, <1>11, <1>12 DEF MergedSoFar

\* Moving the end of the last range on adds the lines in between.
LEMMA ExtendLines ==
  ASSUME NEW s \in Seq(LineRange), NEW n \in DOMAIN s, s[n].start <= s[n].end,
         NEW e \in Nat \ {0}, e > s[n].end, NEW x
  PROVE  x \in LinesOf([s EXCEPT ![n].end = e])
           <=> x \in LinesOf(s) \/ x \in s[n].end + 1 .. e
<1> DEFINE t == [s EXCEPT ![n].end = e]
<1>1. /\ DOMAIN t = DOMAIN s /\ t[n].start = s[n].start /\ t[n].end = e
      /\ \A k \in DOMAIN s : k # n => t[k] = s[k]
  BY ExtendFacts
<1>2. s[n].start \in Nat /\ s[n].end \in Nat
  <2>1. s[n] \in LineRange
    OBVIOUS
  <2> QED BY <2>1 DEF LineRange
<1> HIDE DEF t
<1>3. x \in t[n].start .. t[n].end <=> x \in s[n].start .. s[n].end \/ x \in s[n].end + 1 .. e
  BY <1>1, <1>2
<1>4. (\E k \in DOMAIN s : k # n /\ x \in t[k].start .. t[k].end)
        <=> (\E k \in DOMAIN s : k # n /\ x \in s[k].start .. s[k].end)
  BY <1>1
<1>5. x \in LinesOf(t) <=> \/ x \in t[n].start .. t[n].end
                          \/ \E k \in DOMAIN s : k # n /\ x \in t[k].start .. t[k].end
  BY <1>1, InLinesOf
<1>6. x \in LinesOf(s) <=> \/ x \in s[n].start .. s[n].end
                          \/ \E k \in DOMAIN s : k # n /\ x \in s[k].start .. s[k].end
  BY InLinesOf
<1> QED BY <1>3, <1>4, <1>5, <1>6 DEF t

LEMMA ExtendMerged ==
  ASSUME IInv, MergedSoFar, ExtendRange
  PROVE  MergedSoFar'
<1>1. PICK k \in left :
        /\ Smallest(k) /\ ~StandsApart(ranges[k]) /\ left' = left \ {k}
        /\ merged' = IF ranges[k].end > merged[Len(merged)].end
                     THEN [merged EXCEPT ![Len(merged)].end = ranges[k].end]
                     ELSE merged
  BY DEF ExtendRange
<1> DEFINE r == ranges[k]
           n == Len(merged)
<1>2. pc = "merge" /\ pc' = "merge" /\ ranges' = ranges /\ TypeOK /\ merged \in Seq(LineRange)
  BY DEF ExtendRange, IInv, TypeOK
<1>3. /\ \A x : Taken(ranges', left', x) <=> Taken(ranges, left, x) \/ x \in r.start .. r.end
      /\ k \in DOMAIN ranges /\ r \in LineRange
  BY <1>1, <1>2, TakenFacts
<1>4. merged # <<>> /\ r.start <= merged[n].end + Gap
  <2>1. merged # <<>> /\ ~(r.start > merged[n].end + Gap)
    BY <1>1 DEF StandsApart
  <2>2. r.start \in Nat /\ merged[n].end \in Nat
    <3>1. n \in DOMAIN merged
      BY <1>2, <2>1
    <3> QED BY <1>2, <1>3, <3>1, RangeFacts DEF IInv, LineRange
  <2> QED BY <2>1, <2>2 DEF Gap
<1>5. n \in DOMAIN merged /\ DOMAIN merged = 1 .. n /\ n \in Nat
  BY <1>2, <1>4
<1>6. r.start <= r.end /\ r.start \in Nat /\ r.end \in Nat \ {0}
  BY <1>3 DEF IInv, Inside, LineRange
<1>7. \A j \in 1 .. n : merged[j].start \in Nat /\ merged[j].end \in Nat
                        /\ merged[j].start <= merged[j].end
  BY <1>2, <1>5, RangeFacts DEF IInv
<1>8. merged[n].start <= r.start
  BY <1>2, <1>5 DEF MergedSoFar
<1>9. CASE merged' = merged /\ ~(r.end > merged[n].end)
  <2>1. ASSUME NEW x, x \in r.start .. r.end PROVE x \in LinesOf(merged)
    <3>1. x \in merged[n].start .. merged[n].end
      BY <1>5, <1>6, <1>7, <1>8, <1>9, <2>1
    <3> QED BY <1>5, <3>1, InLinesOf
  <2>2. \A m \in left' : m \in left
    BY <1>1
  <2> HIDE DEF r, n
  <2>3. (\A x : Taken(ranges', left', x) => x \in LinesOf(merged'))
    BY <1>2, <1>3, <1>9, <2>1 DEF MergedSoFar
  <2>4. \A x \in LinesOf(merged') :
          \/ Taken(ranges', left', x)
          \/ Taken(ranges', left', x - 1) /\ Taken(ranges', left', x + 1)
    BY <1>2, <1>3, <1>9 DEF MergedSoFar
  <2>5. \A j \in DOMAIN merged' : Taken(ranges', left', merged'[j].end)
    BY <1>2, <1>3, <1>9 DEF MergedSoFar
  <2>6. \A m \in left' : \A j \in DOMAIN merged' : merged'[j].start <= ranges'[m].start
    BY <1>2, <1>9, <2>2 DEF MergedSoFar
  <2>7. FarApart(merged')
    BY <1>9 DEF MergedSoFar
  <2> QED BY <1>2, <2>3, <2>4, <2>5, <2>6, <2>7 DEF MergedSoFar
<1>10. CASE r.end > merged[n].end /\ merged' = [merged EXCEPT ![n].end = r.end]
  <2>1. /\ DOMAIN merged' = DOMAIN merged
        /\ merged'[n].start = merged[n].start /\ merged'[n].end = r.end
        /\ \A j \in DOMAIN merged : j # n => merged'[j] = merged[j]
    BY <1>2, <1>5, <1>6, <1>10, ExtendFacts
  <2>2. \A x : x \in LinesOf(merged') <=> x \in LinesOf(merged) \/ x \in merged[n].end + 1 .. r.end
    BY <1>2, <1>5, <1>6, <1>7, <1>10, ExtendLines
  <2>3. \A m \in left' : m \in left
    BY <1>1
  <2> HIDE DEF r, n
  <2>4. \A x : Taken(ranges', left', x) => x \in LinesOf(merged')
    <3> SUFFICES ASSUME NEW x, x \in r.start .. r.end PROVE x \in LinesOf(merged')
      BY <1>2, <1>3, <2>2 DEF MergedSoFar
    <3>1. x \in merged[n].start .. merged[n].end \/ x \in merged[n].end + 1 .. r.end
      BY <1>5, <1>6, <1>7, <1>8
    <3> QED BY <1>5, <2>2, <3>1, InLinesOf
  <2>5. \A x \in LinesOf(merged') :
          \/ Taken(ranges', left', x)
          \/ Taken(ranges', left', x - 1) /\ Taken(ranges', left', x + 1)
    <3> SUFFICES ASSUME NEW x \in merged[n].end + 1 .. r.end, ~(x \in r.start .. r.end)
                 PROVE  Taken(ranges', left', x - 1) /\ Taken(ranges', left', x + 1)
      BY <1>2, <1>3, <2>2 DEF MergedSoFar
    <3>1. x - 1 = merged[n].end /\ x + 1 = r.start /\ x + 1 \in r.start .. r.end
      BY <1>4, <1>5, <1>6, <1>7 DEF Gap
    <3>2. Taken(ranges, left, merged[n].end)
      BY <1>2, <1>5 DEF MergedSoFar
    <3> QED BY <1>3, <3>1, <3>2
  <2>6. \A j \in DOMAIN merged' : Taken(ranges', left', merged'[j].end)
    <3>1. r.end \in r.start .. r.end
      BY <1>6
    <3> QED BY <1>2, <1>3, <2>1, <3>1 DEF MergedSoFar
  <2>7. \A m \in left' : \A j \in DOMAIN merged' : merged'[j].start <= ranges'[m].start
    BY <1>2, <2>1, <2>3 DEF MergedSoFar
  <2>8. FarApart(merged')
    <3> SUFFICES ASSUME NEW j \in 1 .. n, NEW m \in 1 .. n, j < m
                 PROVE  merged'[j].end + Gap < merged'[m].start
      BY <1>5, <2>1 DEF FarApart
    <3>1. j # n /\ merged'[j] = merged[j] /\ merged'[m].start = merged[m].start
      BY <1>5, <2>1
    <3> QED BY <1>5, <3>1 DEF MergedSoFar, FarApart
  <2> QED BY <1>2, <2>4, <2>5, <2>6, <2>7, <2>8 DEF MergedSoFar
<1> QED BY <1>1, <1>9, <1>10

\* Merged ranges are so far apart that a line between two windows is in one.
LEMMA EndMerged ==
  ASSUME IInv, Collected, MergedSoFar, EndMerge
  PROVE  MergedSoFar'
<1>1. /\ pc = "merge" /\ left = {} /\ pc' = "cap" /\ UNCHANGED <<file, ranges, merged>>
      /\ TypeOK /\ merged \in Seq(LineRange)
  BY DEF EndMerge, IInv, TypeOK
<1>2. \A x : Taken(ranges, left, x) <=> x \in Windowed
  <2>1. \A x : Taken(ranges, left, x) <=> x \in LinesOf(ranges)
    BY <1>1, InLinesOf DEF Taken
  <2> QED BY <1>1, <2>1 DEF Collected
<1>3. \A j \in DOMAIN merged : /\ merged[j].start \in Nat \ {0} /\ merged[j].end \in Nat
                              /\ merged[j].start <= merged[j].end /\ merged[j].end <= file.lines
                              /\ j \in Nat
  BY <1>1, RangeFacts DEF IInv
<1>4. file.lines \in Nat
  BY <1>1, FileFacts
<1>5. ASSUME NEW x \in LinesOf(merged) PROVE x \in Wanted
  <2>1. x \in 1 .. file.lines
    <3>1. PICK j \in DOMAIN merged : x \in merged[j].start .. merged[j].end
      BY InLinesOf
    <3> QED BY <1>3, <1>4, <3>1
  <2>2. Taken(ranges, left, x) \/ (Taken(ranges, left, x - 1) /\ Taken(ranges, left, x + 1))
    BY <1>1 DEF MergedSoFar
  <2> QED BY <1>2, <2>1, <2>2 DEF Wanted
<1>6. ASSUME NEW x \in Wanted PROVE x \in LinesOf(merged)
  <2>1. \A y : y \in Windowed => y \in LinesOf(merged)
    BY <1>1, <1>2 DEF MergedSoFar
  <2>2. CASE x \notin Windowed
    <3>1. x \in 1 .. file.lines /\ x - 1 \in LinesOf(merged) /\ x + 1 \in LinesOf(merged)
      BY <2>1, <2>2 DEF Wanted
    <3>2. PICK j \in DOMAIN merged : x - 1 \in merged[j].start .. merged[j].end
      BY <3>1, InLinesOf
    <3>3. PICK k \in DOMAIN merged : x + 1 \in merged[k].start .. merged[k].end
      BY <3>1, InLinesOf
    <3>4. CASE j = k
      <4>1. x \in merged[j].start .. merged[j].end
        BY <1>3, <3>1, <3>2, <3>3, <3>4
      <4> QED BY <4>1, InLinesOf
    <3>5. CASE j < k
      <4>1. merged[j].end + 2 < merged[k].start
        BY <3>5 DEF MergedSoFar, FarApart, Gap
      <4> QED BY <1>3, <3>1, <3>2, <3>3, <4>1
    <3>6. CASE k < j
      <4>1. merged[k].end + 2 < merged[j].start
        BY <3>6 DEF MergedSoFar, FarApart, Gap
      <4> QED BY <1>3, <3>1, <3>2, <3>3, <4>1
    <3> QED BY <1>3, <3>4, <3>5, <3>6
  <2> QED BY <2>1, <2>2
<1>7. Wanted' = Wanted
  BY <1>1 DEF Wanted, Windowed, SymbolsWithLine, LookedAt
<1>8. LinesOf(merged) = Wanted
  BY <1>5, <1>6
<1>9. LinesOf(merged)' = Wanted' /\ pc' # "merge" /\ FarApart(merged')
  BY <1>1, <1>7, <1>8 DEF MergedSoFar
<1> QED BY <1>9 DEF MergedSoFar

LEMMA MergedStep == IInv /\ Collected /\ MergedSoFar /\ [Next]_vars => MergedSoFar'
<1> SUFFICES ASSUME IInv, Collected, MergedSoFar, [Next]_vars PROVE MergedSoFar'
  OBVIOUS
<1>1. CASE StartRange
  BY <1>1, StartMerged
<1>2. CASE ExtendRange
  BY <1>2, ExtendMerged
<1>3. CASE EndMerge
  BY <1>3, EndMerged
<1>4. CASE EndLines
  <2>1. merged = <<>> /\ merged' = <<>> /\ file' = file /\ ranges' = ranges
        /\ left' = DOMAIN ranges
        /\ pc' = IF ranges = <<>> THEN "done" ELSE "merge"
    BY <1>4 DEF EndLines, IInv
  <2>2. LinesOf(<<>>) = {} /\ DOMAIN <<>> = {} /\ FarApart(<<>>)
    BY DEF LinesOf, FarApart
  <2>3. \A x : ~Taken(ranges', left', x)
    BY <2>1 DEF Taken
  <2>4. pc' = "done" => Wanted' = {}
    <3> SUFFICES ASSUME pc' = "done" PROVE Wanted' = {}
      OBVIOUS
    <3>1. Collected' /\ LinesOf(ranges)' = {}
      BY <1>4, <2>1, <2>2, EndLinesCollected
    <3>2. Windowed' = {}
      BY <3>1 DEF Collected
    <3> QED BY <3>2 DEF Wanted
  <2> QED BY <2>1, <2>2, <2>3, <2>4 DEF MergedSoFar
<1>5. CASE SymbolRange \/ EndSymbols \/ LineWindow
  <2>1. pc' \in {"symbols", "lines"} /\ merged' = merged
    BY <1>5 DEF SymbolRange, EndSymbols, LineWindow
  <2> QED BY <2>1 DEF MergedSoFar
<1>6. CASE CapRange \/ EndCap \/ Returned
  <2>1. pc \in {"cap", "done"} /\ pc' \in {"cap", "done"} /\ merged' = merged /\ file' = file
    BY <1>6 DEF CapRange, EndCap, Returned, Capping, vars
  <2>2. Wanted' = Wanted
    BY <2>1 DEF Wanted, Windowed, SymbolsWithLine, LookedAt
  <2> QED BY <2>1, <2>2 DEF MergedSoFar
<1>7. CASE UNCHANGED vars
  <2>1. Wanted' = Wanted /\ \A x : Taken(ranges', left', x) <=> Taken(ranges, left, x)
    BY <1>7 DEF Wanted, Windowed, SymbolsWithLine, LookedAt, Taken, vars
  <2>2. UNCHANGED <<pc, ranges, left, merged>>
    BY <1>7 DEF vars
  <2> QED BY <2>1, <2>2 DEF MergedSoFar
<1> QED BY <1>1, <1>2, <1>3, <1>4, <1>5, <1>6, <1>7 DEF Next
-----------------------------------------------------------------------------
(* Which lines are shown: what the cut leaves.                              *)

\* The lines shown so far are lines of the merged ranges seen, as many as are
\* counted, and one of theirs is missing only behind MaxLines others.
CutSoFar ==
  pc = "cap" =>
    /\ IsFiniteSet(LinesOf(capped)) /\ Cardinality(LinesOf(capped)) = used
    /\ \A x \in LinesOf(capped) : \E k \in 1 .. i - 1 : x \in merged[k].start .. merged[k].end
    /\ \A k \in 1 .. i - 1 : \A x \in merged[k].start .. merged[k].end :
         x \in LinesOf(capped) \/ (used = MaxLines /\ \A y \in LinesOf(capped) : y < x)

LInv == IInv /\ Collected /\ MergedSoFar /\ CutSoFar /\ FirstLinesShown
-----------------------------------------------------------------------------
\* The next range goes behind the lines shown so far.
LEMMA CapCut ==
  ASSUME IInv, MergedSoFar, CutSoFar, CapRange
  PROVE  CutSoFar'
<1> DEFINE r == merged[i]
           c == Cut(merged[i])
           old == LinesOf(capped)
<1>1. /\ pc = "cap" /\ i <= Len(merged) /\ i' = i + 1 /\ merged' = merged
      /\ TypeOK /\ merged \in Seq(LineRange) /\ capped \in Seq(LineRange)
      /\ i \in Nat /\ used \in Nat /\ used <= MaxLines
      /\ Len(capped) = i - 1
  BY DEF CapRange, Capping, IInv, TypeOK, CapSoFar
<1>2. i \in Nat \ {0} /\ i \in DOMAIN merged /\ DOMAIN merged = 1 .. Len(merged)
  BY <1>1
<1>3. \A k \in DOMAIN merged : /\ merged[k] \in LineRange
                              /\ merged[k].start \in Nat \ {0} /\ merged[k].end \in Nat \ {0}
                              /\ merged[k].start <= merged[k].end
  BY <1>1, RangeFacts DEF IInv
<1>4. r \in LineRange /\ r.start \in Nat \ {0} /\ r.end \in Nat \ {0} /\ r.start <= r.end
  BY <1>2, <1>3
<1>5. Width(r) > 0 /\ Width(r) \in Nat
  BY <1>4 DEF Width
<1>6. /\ used < MaxLines
      /\ capped' = Append(capped, c) /\ used' = used + Width(c)
  BY <1>1, <1>5 DEF CapRange, MaxLines
<1>7. /\ c \in LineRange /\ c.start = r.start /\ r.start <= c.end /\ c.end <= r.end
      /\ Width(c) \in Nat /\ used + Width(c) <= MaxLines
  BY <1>1, <1>4, <1>6, CutFacts
<1>8. c.end \in Nat /\ Width(c) = c.end - r.start + 1
  BY <1>7 DEF LineRange, Width
<1>9. c.end # r.end => used + Width(c) = MaxLines
  <2> SUFFICES ASSUME c.end # r.end PROVE used + Width(c) = MaxLines
    OBVIOUS
  <2>1. used + Width(r) > MaxLines
    BY DEF Cut
  <2>2. c = [r EXCEPT !.end = r.start + (MaxLines - used) - 1]
    BY <2>1 DEF Cut
  <2>3. c.end = r.start + (MaxLines - used) - 1
    BY <1>4, <2>2 DEF LineRange
  <2> HIDE DEF c, r
  <2> QED BY <1>1, <1>4, <1>8, <2>3 DEF MaxLines
<1>10. \A x : x \in LinesOf(capped') <=> x \in old \/ x \in c.start .. c.end
  BY <1>1, <1>6, <1>7, AppendLines
<1>11. /\ IsFiniteSet(old) /\ Cardinality(old) = used
       /\ \A x \in old : \E k \in 1 .. i - 1 : x \in merged[k].start .. merged[k].end
       /\ \A k \in 1 .. i - 1 : \A x \in merged[k].start .. merged[k].end : x \in old
  BY <1>1, <1>6 DEF CutSoFar, MaxLines
<1> HIDE DEF r, c, old
<1>12. \A x \in old : x \in Int /\ x < r.start
  <2> SUFFICES ASSUME NEW x \in old PROVE x \in Int /\ x < r.start
    OBVIOUS
  <2>1. PICK k \in 1 .. i - 1 : x \in merged[k].start .. merged[k].end
    BY <1>11
  <2>2. k \in DOMAIN merged /\ k < i
    BY <1>1, <1>2
  <2>3. merged[k].end + 2 < r.start
    BY <1>2, <2>2 DEF MergedSoFar, FarApart, Gap, r
  <2> QED BY <1>3, <1>4, <2>1, <2>2, <2>3
<1>13. LinesOf(capped') = old \cup (r.start .. c.end)
  BY <1>7, <1>10
<1>14. IsFiniteSet(LinesOf(capped')) /\ Cardinality(LinesOf(capped')) = used'
  <2>1. IsFiniteSet(r.start .. c.end) /\ Cardinality(r.start .. c.end) = Width(c)
    <3>1. r.start \in Int /\ c.end \in Int /\ ~(r.start > c.end)
      BY <1>4, <1>7, <1>8
    <3> QED BY <1>8, <3>1, FS_Interval
  <2>2. old \cap (r.start .. c.end) = {}
    <3> SUFFICES ASSUME NEW x \in old, x \in r.start .. c.end PROVE FALSE
      OBVIOUS
    <3> QED BY <1>4, <1>8, <1>12
  <2>3. Cardinality({}) = 0
    BY FS_EmptySet
  <2>4. /\ IsFiniteSet(old \cup (r.start .. c.end))
        /\ Cardinality(old \cup (r.start .. c.end)) =
             Cardinality(old) + Cardinality(r.start .. c.end) - Cardinality(old \cap (r.start .. c.end))
    BY <1>11, <2>1, FS_Union
  <2>5. used' = used + Width(c) - 0
    BY <1>1, <1>6, <1>7
  <2>6. IsFiniteSet(LinesOf(capped'))
    BY <1>13, <2>4
  <2>7. Cardinality(LinesOf(capped')) = used + Width(c) - 0
    BY <1>11, <1>13, <2>1, <2>2, <2>3, <2>4
  <2> QED BY <2>5, <2>6, <2>7
<1>15. ASSUME NEW x \in LinesOf(capped')
       PROVE  \E k \in 1 .. i : x \in merged[k].start .. merged[k].end
  <2>1. CASE x \in old
    <3>1. PICK k \in 1 .. i - 1 : x \in merged[k].start .. merged[k].end
      BY <1>11, <2>1
    <3>2. k \in 1 .. i
      BY <1>2
    <3> QED BY <3>1, <3>2
  <2>2. CASE x \in r.start .. c.end
    <3>1. x \in r.start .. r.end /\ i \in 1 .. i
      BY <1>2, <1>4, <1>7, <1>8, <2>2
    <3> QED BY <3>1 DEF r
  <2> QED BY <1>13, <2>1, <2>2
<1>16. ASSUME NEW k \in 1 .. i, NEW x \in merged[k].start .. merged[k].end,
              x \notin LinesOf(capped')
       PROVE  used' = MaxLines /\ \A y \in LinesOf(capped') : y < x
  <2>1. k = i
    <3>1. CASE k # i
      <4>1. k \in 1 .. i - 1
        BY <1>2, <3>1
      <4> QED BY <1>11, <1>13, <1>16, <4>1
    <3> QED BY <3>1
  <2>2. x \in r.start .. r.end
    BY <2>1 DEF r
  <2>3. x \in Int /\ x > c.end /\ c.end # r.end
    BY <1>4, <1>8, <1>13, <1>16, <2>2
  <2>4. \A y \in LinesOf(capped') : y < x
    <3> SUFFICES ASSUME NEW y \in LinesOf(capped') PROVE y < x
      OBVIOUS
    <3>1. CASE y \in old
      BY <1>4, <1>7, <1>8, <1>12, <2>3, <3>1
    <3>2. CASE y \in r.start .. c.end
      BY <1>4, <1>8, <2>3, <3>2
    <3> QED BY <1>13, <3>1, <3>2
  <2> QED BY <1>6, <1>9, <2>3, <2>4
<1>17. i' - 1 = i
  BY <1>1
<1> QED BY <1>1, <1>14, <1>15, <1>16, <1>17 DEF CutSoFar

\* What is not shown when the cut ends is behind MaxLines lines that are.
LEMMA EndShown ==
  ASSUME IInv, MergedSoFar, CutSoFar, EndCap
  PROVE  FirstLinesShown'
<1>1. /\ pc = "cap" /\ pc' = "done" /\ UNCHANGED <<file, merged, capped, used>>
      /\ TypeOK /\ merged \in Seq(LineRange) /\ i \in Nat /\ used \in Nat /\ used <= MaxLines
      /\ i > Len(merged) \/ (i <= Len(merged) /\ used >= MaxLines)
  BY DEF EndCap, IInv, TypeOK
<1>2. LinesOf(merged) = Wanted /\ Wanted' = Wanted
  <2>1. LinesOf(merged) = Wanted
    BY <1>1 DEF MergedSoFar
  <2>2. Wanted' = Wanted
    BY <1>1 DEF Wanted, Windowed, SymbolsWithLine, LookedAt
  <2> QED BY <2>1, <2>2
<1>3. /\ Cardinality(LinesOf(capped)) = used
      /\ \A x \in LinesOf(capped) : \E k \in 1 .. i - 1 : x \in merged[k].start .. merged[k].end
      /\ \A k \in 1 .. i - 1 : \A x \in merged[k].start .. merged[k].end :
           x \in LinesOf(capped) \/ (used = MaxLines /\ \A y \in LinesOf(capped) : y < x)
  BY <1>1 DEF CutSoFar
<1>4. \A k \in DOMAIN merged : /\ merged[k].start \in Nat \ {0} /\ merged[k].end \in Nat \ {0}
                              /\ merged[k].start <= merged[k].end
  BY <1>1, RangeFacts DEF IInv
<1>5. DOMAIN merged = 1 .. Len(merged) /\ Len(merged) \in Nat /\ i - 1 <= Len(merged)
  BY <1>1 DEF IInv, CapSoFar
<1>6. LinesOf(capped) \subseteq Wanted
  <2> SUFFICES ASSUME NEW x \in LinesOf(capped) PROVE x \in LinesOf(merged)
    BY <1>2
  <2>1. PICK k \in 1 .. i - 1 : x \in merged[k].start .. merged[k].end
    BY <1>3
  <2>2. k \in DOMAIN merged
    BY <1>1, <1>5
  <2> QED BY <2>1, <2>2, InLinesOf
<1>7. ASSUME NEW x \in Wanted, x \notin LinesOf(capped)
      PROVE  used = MaxLines /\ \A y \in LinesOf(capped) : y < x
  <2>1. PICK k \in DOMAIN merged : x \in merged[k].start .. merged[k].end
    BY <1>2, InLinesOf
  <2>2. CASE k \in 1 .. i - 1
    BY <1>3, <1>7, <2>1, <2>2
  <2>3. CASE k \notin 1 .. i - 1
    <3>1. k >= i /\ used = MaxLines
      BY <1>1, <1>5, <2>3 DEF MaxLines
    <3>2. ASSUME NEW y \in LinesOf(capped) PROVE y < x
      <4>1. PICK j \in 1 .. i - 1 : y \in merged[j].start .. merged[j].end
        BY <1>3
      <4>2. j \in DOMAIN merged /\ j < k
        BY <1>1, <1>5, <3>1
      <4>3. merged[j].end + 2 < merged[k].start
        BY <4>2 DEF MergedSoFar, FarApart, Gap
      <4> QED BY <1>4, <2>1, <4>1, <4>2, <4>3
    <3> QED BY <3>1, <3>2
  <2> QED BY <2>2, <2>3
<1>8. /\ LinesOf(capped') \subseteq Wanted'
      /\ \A x \in Wanted' \ LinesOf(capped') :
           Cardinality(LinesOf(capped')) = MaxLines /\ \A y \in LinesOf(capped') : y < x
  BY <1>1, <1>2, <1>3, <1>6, <1>7
<1> QED BY <1>8 DEF FirstLinesShown

LEMMA LInvStep == LInv /\ [Next]_vars => LInv'
<1> SUFFICES ASSUME LInv, [Next]_vars PROVE LInv'
  OBVIOUS
<1>1. IInv' /\ Collected' /\ MergedSoFar'
  BY NextIInv, CollectedStep, MergedStep DEF LInv
<1>2. CutSoFar'
  <2>1. CASE CapRange
    BY <2>1, CapCut DEF LInv
  <2>2. CASE EndMerge
    <3>1. capped' = <<>> /\ used' = 0 /\ i' = 1
      BY <2>2 DEF EndMerge, LInv, IInv, CapSoFar
    <3>2. LinesOf(<<>>) = {}
      BY DEF LinesOf
    <3>3. 1 .. i' - 1 = {}
      BY <3>1
    <3> QED BY <3>1, <3>2, <3>3, FS_EmptySet DEF CutSoFar
  <2>3. CASE UNCHANGED vars
    BY <2>3 DEF vars, LInv, CutSoFar
  <2>4. CASE Next /\ ~CapRange /\ ~EndMerge
    <3>1. pc' # "cap"
      BY <2>4 DEF Next, SymbolRange, EndSymbols, LineWindow, EndLines, StartRange, ExtendRange,
                  EndCap, Returned, vars
    <3> QED BY <3>1 DEF CutSoFar
  <2> QED BY <2>1, <2>2, <2>3, <2>4
<1>3. FirstLinesShown'
  <2>1. CASE EndCap
    BY <2>1, EndShown DEF LInv
  <2>2. CASE EndLines
    <3> SUFFICES ASSUME pc' = "done" PROVE FirstLinesShown'
      BY DEF FirstLinesShown
    <3>1. merged' = <<>> /\ capped' = <<>>
      BY <2>2 DEF EndLines, LInv, IInv, CapSoFar
    <3>2. LinesOf(<<>>) = {}
      BY DEF LinesOf
    <3>3. Wanted' = {} /\ LinesOf(capped') = {}
      BY <1>1, <3>1, <3>2 DEF MergedSoFar
    <3> QED BY <3>3 DEF FirstLinesShown
  <2>3. CASE UNCHANGED vars
    <3>1. Wanted' = Wanted
      BY <2>3 DEF Wanted, Windowed, SymbolsWithLine, LookedAt, vars
    <3> QED BY <2>3, <3>1 DEF vars, LInv, FirstLinesShown
  <2>4. CASE Returned
    <3>1. Wanted' = Wanted
      BY <2>4 DEF Returned, Wanted, Windowed, SymbolsWithLine, LookedAt, vars
    <3> QED BY <2>4, <3>1 DEF Returned, vars, LInv, FirstLinesShown
  <2>5. CASE Next /\ ~EndCap /\ ~EndLines /\ ~Returned
    <3>1. pc' # "done"
      BY <2>5 DEF Next, SymbolRange, EndSymbols, LineWindow, StartRange, ExtendRange,
                  EndMerge, CapRange, Capping
    <3> QED BY <3>1 DEF FirstLinesShown
  <2> QED BY <2>1, <2>2, <2>3, <2>4, <2>5
<1> QED BY <1>1, <1>2, <1>3 DEF LInv

\* For every file, whatever the order in which the two loops find its windows: the
\* slices are exactly the first MaxLines of the wanted lines.
THEOREM FirstLines == Spec => []FirstLinesShown
<1>1. Init => LInv
  <2> SUFFICES ASSUME Init PROVE LInv
    OBVIOUS
  <2>1. MergedSoFar
    BY DEF Init, MergedSoFar, FarApart
  <2> QED BY <2>1, InitIInv, InitCollected DEF Init, LInv, CutSoFar, FirstLinesShown
<1>2. LInv => FirstLinesShown
  BY DEF LInv
<1> QED BY <1>1, <1>2, LInvStep, PTL DEF Spec
=============================================================================
