-------------------------- MODULE BenchRun_proofs --------------------------
(***************************************************************************)
(* What a benchmark leaves in its directory, for any task files, outcomes  *)
(* and file names, any number of runs, and wherever they stop; and which   *)
(* files a scan finds and an overlay removes, for any tree and patterns.   *)
(***************************************************************************)
EXTENDS BenchRun, ScanTree, FiniteSetTheorems, SequenceTheorems, WellFoundedInduction, TLAPS

-----------------------------------------------------------------------------
(* The inductive invariant.                                                 *)

IsSeq(s) == s \in Seq({s[k] : k \in DOMAIN s})

\* A pack's file: not older than its place in the results, of the j-th task or
\* of a later one.
IsOnDisk(j) ==
  /\ results[j].output \in DOMAIN packs /\ packs[results[j].output].run = run
  /\ \E k \in j .. Len(results) :
       /\ results[k].output = results[j].output
       /\ packs[results[j].output].task = results[k].task

\* Whatever is written is of a run that was, or is.
Dated ==
  /\ run \in Nat
  /\ \A f \in DOMAIN packs : packs[f] = Truncated \/ packs[f].run \in 1 .. run
  /\ summary = Truncated \/ summary.run \in 1 .. run

Ended == pc = "exit" \/ (pc = "idle" /\ exit \in {"ok", "benchmark failed"})

\* As long as a run has not failed, the packs of its results are on disk.
Progress ==
  /\ IsSeq(results)
  /\ pc # "idle" => exit = "none" /\ run > 0
  /\ pc \in {"idle", "parse", "tasks", "exit"}
  /\ exit # "failed" => \A j \in DOMAIN results : IsOnDisk(j)

\* What a run that gets to its end has to show for it.
Complete ==
  Ended => /\ Len(results) = Len(tasks)
           /\ summary = [run |-> run, results |-> results]

Verdict ==
  pc = "idle" /\ exit \in {"ok", "benchmark failed"} =>
    (exit = "ok" <=> \A k \in DOMAIN results : results[k].passed)

\* No pack that a summary lists is older.
Listed ==
  summary # Truncated =>
    \A j \in DOMAIN summary.results :
      LET file == summary.results[j].output
      IN  file \in DOMAIN packs /\ (packs[file] = Truncated \/ packs[file].run >= summary.run)

IInv == Dated /\ Progress /\ Complete /\ Verdict /\ Listed
-----------------------------------------------------------------------------
(* Facts about the operators.                                               *)

LEMMA ResultFacts ==
  ASSUME NEW t
  PROVE  Result(t).output = PackFile(t) /\ Result(t).task = t.task
BY DEF Result

LEMMA AppendFacts ==
  ASSUME NEW s, IsSeq(s), NEW e
  PROVE  /\ Len(s) \in Nat /\ DOMAIN s = 1 .. Len(s)
         /\ IsSeq(Append(s, e))
         /\ Len(Append(s, e)) = Len(s) + 1
         /\ DOMAIN Append(s, e) = 1 .. Len(s) + 1
         /\ \A j \in DOMAIN s : Append(s, e)[j] = s[j]
         /\ Append(s, e)[Len(s) + 1] = e
<1> DEFINE old == {s[k] : k \in DOMAIN s}
           more == Append(s, e)
<1>1. s \in Seq(old) /\ Len(s) \in Nat /\ DOMAIN s = 1 .. Len(s)
  BY DEF IsSeq
<1>2. s \in Seq(old \cup {e})
  BY <1>1
<1>3. /\ more \in Seq(old \cup {e}) /\ Len(more) = Len(s) + 1 /\ DOMAIN more = 1 .. Len(s) + 1
      /\ \A j \in DOMAIN s : more[j] = s[j]
      /\ more[Len(s) + 1] = e
  <2> HIDE DEF old
  <2> QED BY <1>1, <1>2
<1>4. \A k \in 1 .. Len(more) : more[k] \in {more[i] : i \in DOMAIN more}
  BY <1>3
<1>5. more \in Seq({more[k] : k \in DOMAIN more})
  BY <1>3, <1>4
<1> QED BY <1>1, <1>3, <1>5 DEF IsSeq

LEMMA EmptyIsSeq == IsSeq(<<>>)
BY DEF IsSeq

\* Of a file that is written the others stay what they are.
LEMMA WriteFacts ==
  ASSUME NEW t, NEW pack, WritePack(t, pack)
  PROVE  /\ DOMAIN packs' = DOMAIN packs \cup {PackFile(t)}
         /\ packs'[PackFile(t)] = pack
         /\ \A f \in DOMAIN packs \ {PackFile(t)} : packs'[f] = packs[f]
BY DEF WritePack

-----------------------------------------------------------------------------
(* The steps.                                                               *)

LEMMA InitIInv == Init => IInv
BY EmptyIsSeq DEF Init, IInv, Dated, Progress, Complete, Verdict, Listed, Ended, Truncated

\* A run that fails may leave one file truncated, of a pack or the summary.
LEMMA FailStep ==
  ASSUME IInv, Fail, pc # "idle", packs' = packs \/ \E t : WritePack(t, Truncated),
         summary' = summary \/ summary' = Truncated
  PROVE  IInv'
<1>1. \A f \in DOMAIN packs : f \in DOMAIN packs' /\ (packs'[f] = packs[f] \/ packs'[f] = Truncated)
  BY WriteFacts
<1>2. \A f \in DOMAIN packs' : packs'[f] = Truncated \/ (f \in DOMAIN packs /\ packs'[f] = packs[f])
  BY WriteFacts
<1>3. run' = run /\ results' = results /\ tasks' = tasks /\ pc' = "idle" /\ exit' = "failed"
  BY DEF Fail
<1>4. Dated'
  BY <1>2, <1>3 DEF IInv, Dated, Truncated
<1>5. Progress' /\ Complete' /\ Verdict'
  BY <1>3 DEF IInv, Progress, Complete, Verdict, Ended, IsSeq
<1>6. Listed'
  BY <1>1 DEF IInv, Listed
<1> QED BY <1>4, <1>5, <1>6 DEF IInv

LEMMA RunTaskStep ==
  ASSUME IInv, RunTask
  PROVE  IInv'
<1> DEFINE n == Len(results) + 1
           task == tasks[n]
           file == PackFile(task)
<1>1. /\ pc = "tasks" /\ pc' = pc /\ run' = run /\ tasks' = tasks /\ summary' = summary /\ exit' = exit
      /\ results' = Append(results, Result(task)) /\ WritePack(task, PackOf(task))
  BY DEF RunTask
<1>2. /\ DOMAIN packs' = DOMAIN packs \cup {file} /\ packs'[file] = PackOf(task)
      /\ \A f \in DOMAIN packs \ {file} : packs'[f] = packs[f]
  BY <1>1, WriteFacts
<1>3. PackOf(task).run = run /\ PackOf(task).task = task.task
  BY DEF PackOf
<1>4. /\ n \in Nat \ {0} /\ DOMAIN results = 1 .. n - 1 /\ Len(results) = n - 1
      /\ IsSeq(results') /\ Len(results') = n /\ DOMAIN results' = 1 .. n
      /\ \A j \in DOMAIN results : results'[j] = results[j]
      /\ results'[n].output = file /\ results'[n].task = task.task
  BY <1>1, AppendFacts, ResultFacts DEF IInv, Progress
<1> HIDE DEF n, task, file
<1>5. Dated'
  BY <1>1, <1>2, <1>3 DEF IInv, Dated, Progress
<1>6. \A j \in DOMAIN results' : IsOnDisk(j)'
  <2> SUFFICES ASSUME NEW j \in 1 .. n
               PROVE  /\ results'[j].output \in DOMAIN packs' /\ packs'[results'[j].output].run = run'
                      /\ \E k \in j .. Len(results') :
                           /\ results'[k].output = results'[j].output
                           /\ packs'[results'[j].output].task = results'[k].task
    BY <1>4 DEF IsOnDisk
  <2>1. CASE results'[j].output = file
    BY <1>1, <1>2, <1>3, <1>4, <2>1
  <2>2. CASE results'[j].output # file
    <3>1. j \in 1 .. n - 1 /\ results'[j] = results[j]
      BY <1>4, <2>2
    <3>2. IsOnDisk(j)
      BY <1>1, <1>4, <3>1 DEF IInv, Progress
    <3>3. PICK k \in j .. n - 1 : /\ results[k].output = results[j].output
                                  /\ packs[results[j].output].task = results[k].task
      BY <1>4, <3>2 DEF IsOnDisk
    <3>4. k \in j .. n /\ results'[k] = results[k]
      BY <1>4, <3>1, <3>3
    <3>5. results[j].output \in DOMAIN packs /\ packs'[results[j].output] = packs[results[j].output]
      BY <1>2, <2>2, <3>1, <3>2 DEF IsOnDisk
    <3> QED BY <1>1, <1>2, <1>4, <3>1, <3>2, <3>3, <3>4, <3>5 DEF IsOnDisk
  <2> QED BY <2>1, <2>2
<1>7. Progress'
  BY <1>1, <1>4, <1>6 DEF IInv, Progress
<1>8. Complete' /\ Verdict'
  BY <1>1 DEF Complete, Verdict, Ended
<1>9. Listed'
  <2> SUFFICES ASSUME summary # Truncated, NEW j \in DOMAIN summary.results
               PROVE  LET f == summary.results[j].output
                      IN  f \in DOMAIN packs' /\ (packs'[f] = Truncated \/ packs'[f].run >= summary.run)
    BY <1>1 DEF Listed
  <2>1. run >= summary.run
    BY DEF IInv, Dated
  <2> QED BY <1>2, <1>3, <2>1 DEF IInv, Listed
<1> QED BY <1>5, <1>7, <1>8, <1>9 DEF IInv

LEMMA WriteSummaryStep ==
  ASSUME IInv, WriteSummary
  PROVE  IInv'
<1>1. /\ pc = "tasks" /\ Len(results) = Len(tasks) /\ pc' = "exit"
      /\ run' = run /\ tasks' = tasks /\ results' = results /\ packs' = packs /\ exit' = exit
      /\ summary' = [run |-> run, results |-> results]
  BY DEF WriteSummary
<1>2. exit = "none" /\ run \in Nat /\ run > 0
  BY <1>1 DEF IInv, Progress, Dated
<1>3. Dated'
  BY <1>1, <1>2 DEF IInv, Dated
<1>4. Progress'
  BY <1>1, <1>2 DEF IInv, Progress, IsOnDisk, IsSeq
<1>5. Complete' /\ Verdict'
  BY <1>1 DEF Complete, Verdict
<1>6. Listed'
  BY <1>1, <1>2 DEF IInv, Listed, Progress, IsOnDisk
<1> QED BY <1>3, <1>4, <1>5, <1>6 DEF IInv

LEMMA ExitStep ==
  ASSUME IInv, Exit
  PROVE  IInv'
<1>1. /\ pc = "exit" /\ pc' = "idle" /\ exit' \in {"ok", "benchmark failed"}
      /\ run' = run /\ tasks' = tasks /\ results' = results /\ packs' = packs /\ summary' = summary
  BY DEF Exit
<1>2. exit' = "ok" <=> \A k \in DOMAIN results : results[k].passed
  BY DEF Exit
<1>3. exit = "none"
  BY <1>1 DEF IInv, Progress
<1>4. Dated' /\ Listed'
  BY <1>1 DEF IInv, Dated, Listed
<1>5. Progress'
  BY <1>1, <1>3 DEF IInv, Progress, IsOnDisk, IsSeq
<1>6. Complete'
  BY <1>1 DEF IInv, Complete, Ended
<1>7. Verdict'
  BY <1>1, <1>2, Zenon DEF Verdict
<1> QED BY <1>4, <1>5, <1>6, <1>7 DEF IInv

LEMMA StepIInv == IInv /\ [Next]_vars => IInv'
<1> SUFFICES ASSUME IInv, [Next]_vars PROVE IInv'
  OBVIOUS
<1>1. CASE Begin
  <2>1. /\ run' = run + 1 /\ results' = <<>> /\ exit' = "none" /\ pc' = "parse"
        /\ packs' = packs /\ summary' = summary
    BY <1>1 DEF Begin
  <2>2. Dated' /\ Listed'
    BY <2>1 DEF IInv, Dated, Listed
  <2>3. run' > 0
    BY <2>1 DEF IInv, Dated
  <2>4. IsSeq(results') /\ DOMAIN results' = {}
    BY <2>1, EmptyIsSeq
  <2>5. Progress'
    BY <2>1, <2>3, <2>4, EmptyIsSeq DEF Progress, IsSeq
  <2>6. Complete' /\ Verdict'
    BY <2>1 DEF Complete, Verdict, Ended
  <2> QED BY <2>2, <2>5, <2>6 DEF IInv
<1>2. CASE Parse
  <2>1. CASE Fail
    BY <1>2, <2>1, FailStep DEF Parse
  <2>2. CASE ~Fail
    <3>1. /\ pc = "parse" /\ pc' = "tasks"
          /\ UNCHANGED <<run, opt, results, packs, summary, exit>>
      BY <1>2, <2>2 DEF Parse
    <3>2. Dated' /\ Listed' /\ Progress' /\ Complete' /\ Verdict'
      BY <3>1 DEF IInv, Dated, Listed, Progress, Complete, Verdict, Ended, IsOnDisk, IsSeq
    <3> QED BY <3>2 DEF IInv
  <2> QED BY <2>1, <2>2
<1>3. CASE RunTask
  BY <1>3, RunTaskStep
<1>4. CASE Abort
  BY <1>4, FailStep DEF Abort
<1>5. CASE WriteSummary
  BY <1>5, WriteSummaryStep
<1>6. CASE SummaryFails
  BY <1>6, FailStep DEF SummaryFails
<1>7. CASE Exit
  BY <1>7, ExitStep
<1>8. CASE Finished \/ UNCHANGED vars
  BY <1>8 DEF Finished, vars, IInv, Dated, Listed, Progress, Complete, Verdict, Ended, IsOnDisk, IsSeq
<1> QED BY <1>1, <1>2, <1>3, <1>4, <1>5, <1>6, <1>7, <1>8 DEF Next

LEMMA Invariance == Spec => []IInv
BY InitIInv, StepIInv, PTL DEF Spec

\* A benchmark that ends has its summary and all its packs on disk, and says what
\* the verdicts say; and never does a summary of one run stand beside an older
\* pack of a file that it lists.
THEOREM ArtifactsOfTheRun == Spec => []ArtifactsAreOfTheRun
<1>1. IInv => ArtifactsAreOfTheRun
  <2> SUFFICES ASSUME IInv PROVE ArtifactsAreOfTheRun
    OBVIOUS
  <2>1. pc = "idle" /\ exit \in {"ok", "benchmark failed"} =>
          /\ Len(results) = Len(tasks)
          /\ summary = [run |-> run, results |-> results]
    BY DEF IInv, Complete, Ended
  <2>2. pc = "idle" /\ exit \in {"ok", "benchmark failed"} =>
          \A j \in DOMAIN results : IsOnDisk(j)
    BY DEF IInv, Progress
  <2> QED BY <2>1, <2>2 DEF ArtifactsAreOfTheRun, IInv, Verdict, Listed, IsOnDisk
<1> QED BY Invariance, <1>1, PTL
-----------------------------------------------------------------------------
(* Loops: what they compute is a recursive function, which exists, as the   *)
(* shortest part without it would follow from the part before.              *)

\* A set of natural numbers has a least element.
LEMMA LeastNat ==
  ASSUME NEW T \in SUBSET Nat, T # {}
  PROVE  \E x \in T : \A y \in T : x <= y
<1> DEFINE R == {ss \in Nat \X Nat : ss[1] < ss[2]}
<1>1. IsWellFoundedOn(R, Nat)
  BY NatLessThanWellFounded DEF OpToRel
<1>2. PICK x \in T : \A y \in T : ~(<<y, x>> \in R)
  BY <1>1, WFMin
<1>3. ASSUME NEW y \in T PROVE x <= y
  <2>1. x \in Nat /\ y \in Nat /\ <<y, x>> \in Nat \X Nat
    OBVIOUS
  <2>2. ~(y < x)
    BY <1>2, <2>1
  <2> QED BY <2>1, <2>2
<1> QED BY <1>3

\* The values of a loop's variable in S after each of m rounds.
Loop(f, S, a, g, m) ==
  f \in [0 .. m -> S] /\ f[0] = a /\ \A n \in 1 .. m : f[n] = g[n][f[n - 1]]

LEMMA LoopExtends ==
  ASSUME NEW S, NEW a \in S, NEW N \in Nat, NEW g \in [1 .. N -> [S -> S]],
         NEW m \in 1 .. N, NEW f, Loop(f, S, a, g, m - 1)
  PROVE  \E h : Loop(h, S, a, g, m)
<1> DEFINE last == g[m][f[m - 1]]
           h == [n \in 0 .. m |-> IF n = m THEN last ELSE f[n]]
<1>1. m \in Nat /\ m - 1 \in 0 .. m - 1 /\ f \in [0 .. m - 1 -> S] /\ g[m] \in [S -> S]
  BY DEF Loop
<1>2. last \in S
  BY <1>1
<1> HIDE DEF last
<1>3. h \in [0 .. m -> S] /\ h[m] = last /\ \A n \in 0 .. m - 1 : h[n] = f[n]
  BY <1>1, <1>2
<1>4. h[0] = a
  BY <1>1, <1>3 DEF Loop
<1> HIDE DEF h
<1>5. ASSUME NEW n \in 1 .. m PROVE h[n] = g[n][h[n - 1]]
  <2>1. n - 1 \in 0 .. m - 1 /\ h[n - 1] = f[n - 1]
    BY <1>1, <1>3
  <2>2. CASE n = m
    BY <1>3, <2>1, <2>2 DEF last
  <2>3. CASE n # m
    <3>1. n \in 1 .. m - 1 /\ n \in 0 .. m - 1
      BY <1>1, <2>3
    <3>2. f[n] = g[n][f[n - 1]]
      BY <3>1 DEF Loop
    <3> QED BY <1>3, <2>1, <3>1, <3>2
  <2> QED BY <2>2, <2>3
<1>6. Loop(h, S, a, g, m)
  BY <1>3, <1>4, <1>5 DEF Loop
<1> QED BY <1>6

LEMMA LoopExists ==
  ASSUME NEW S, NEW a \in S, NEW N \in Nat, NEW g \in [1 .. N -> [S -> S]]
  PROVE  \E f : Loop(f, S, a, g, N)
<1> DEFINE Without == {m \in 0 .. N : ~\E f : Loop(f, S, a, g, m)}
<1> SUFFICES ASSUME Without # {} PROVE FALSE
  <2>1. N \in 0 .. N
    OBVIOUS
  <2> QED BY <2>1
<1>1. Without \in SUBSET Nat
  OBVIOUS
<1>2. PICK m \in Without : \A n \in Without : m <= n
  BY <1>1, LeastNat
<1>3. m # 0
  <2>1. Loop([n \in 0 .. 0 |-> a], S, a, g, 0)
    BY DEF Loop
  <2> QED BY <1>2, <2>1
<1>4. m \in 1 .. N /\ m - 1 \in 0 .. N /\ ~(m <= m - 1)
  BY <1>2, <1>3
<1>5. \E f : Loop(f, S, a, g, m - 1)
  BY <1>2, <1>4
<1>6. \E f : Loop(f, S, a, g, m)
  BY <1>4, <1>5, LoopExtends
<1> QED BY <1>2, <1>6

-----------------------------------------------------------------------------
(* The sum of a list's tokens, by way of its running totals.                *)

AddsUp(f, s, m) == f[0] = 0 /\ \A n \in 1 .. m : f[n] = f[n - 1] + s[n].tokens

\* The sum is the last of the running totals.
LEMMA SumFacts ==
  ASSUME NEW s, IsCharged(s)
  PROVE  \E total \in [0 .. Len(s) -> Nat] : AddsUp(total, s, Len(s)) /\ Sum(s) = total[Len(s)]
<1> DEFINE N == Len(s)
           g == [n \in 1 .. N |-> [x \in Nat |-> x + s[n].tokens]]
           IsTotal(t) == t = [n \in 0 .. N |-> IF n = 0 THEN 0 ELSE t[n - 1] + s[n].tokens]
           total == CHOOSE t : IsTotal(t)
<1>1. N \in Nat /\ \A n \in 1 .. N : s[n].tokens \in Nat
  BY DEF IsCharged, IsList
<1>2. Sum(s) = total[N]
  BY DEF Sum
<1> HIDE DEF N
<1>3. g \in [1 .. N -> [Nat -> Nat]] /\ \A n \in 1 .. N : \A x \in Nat : g[n][x] = x + s[n].tokens
  BY <1>1
<1> HIDE DEF g
<1>4. PICK f : Loop(f, Nat, 0, g, N)
  BY <1>1, <1>3, LoopExists
<1>5. /\ f \in [0 .. N -> Nat] /\ f[0] = 0
      /\ \A n \in 1 .. N : f[n] = f[n - 1] + s[n].tokens
  <2>1. /\ f \in [0 .. N -> Nat] /\ f[0] = 0
        /\ \A n \in 1 .. N : f[n] = g[n][f[n - 1]]
    BY <1>4 DEF Loop
  <2>2. \A n \in 1 .. N : n - 1 \in 0 .. N /\ f[n - 1] \in Nat
    BY <1>1, <2>1
  <2> QED BY <1>3, <2>1, <2>2
<1>6. IsTotal(f)
  <2> DEFINE h == [n \in 0 .. N |-> IF n = 0 THEN 0 ELSE f[n - 1] + s[n].tokens]
  <2>1. f = [n \in 0 .. N |-> f[n]] /\ h = [n \in 0 .. N |-> h[n]]
    BY <1>5
  <2>2. \A n \in 0 .. N : f[n] = h[n]
    BY <1>1, <1>5
  <2> HIDE DEF h
  <2>3. f = h
    BY <2>1, <2>2
  <2> QED BY <2>3 DEF h
<1>7. IsTotal(total)
  BY <1>6
<1> HIDE DEF total
<1>8. \A n \in 0 .. N : total[n] = IF n = 0 THEN 0 ELSE total[n - 1] + s[n].tokens
  BY <1>7
<1>9. AddsUp(total, s, N)
  BY <1>1, <1>8 DEF AddsUp
<1>10. AddsUp(f, s, N)
  BY <1>5 DEF AddsUp
<1>11. \A n \in 0 .. N : total[n] = f[n]
  <2> DEFINE Differ == {n \in 0 .. N : total[n] # f[n]}
  <2> SUFFICES ASSUME Differ # {} PROVE FALSE
    OBVIOUS
  <2>1. PICK n \in Differ : \A k \in Differ : n <= k
    <3>1. Differ \in SUBSET Nat
      OBVIOUS
    <3> QED BY <3>1, LeastNat
  <2>2. n \in 1 .. N /\ n - 1 \in 0 .. N /\ ~(n <= n - 1)
    BY <1>1, <1>9, <1>10, <2>1 DEF AddsUp
  <2>3. total[n - 1] = f[n - 1]
    BY <2>1, <2>2
  <2> QED BY <1>9, <1>10, <2>1, <2>2, <2>3 DEF AddsUp
<1>12. f[N] = total[N] /\ Sum(s) = f[N]
  <2>1. N \in 0 .. N
    BY <1>1
  <2> QED BY <1>2, <1>11, <2>1
<1> QED BY <1>5, <1>10, <1>12 DEF N

LEMMA AddsUpUnique ==
  ASSUME NEW s, NEW f, NEW g, NEW m \in Nat, AddsUp(f, s, m), AddsUp(g, s, m)
  PROVE  f[m] = g[m]
<1> DEFINE Differ == {n \in 0 .. m : f[n] # g[n]}
<1> SUFFICES ASSUME Differ # {} PROVE FALSE
  OBVIOUS
<1>1. Differ \in SUBSET Nat
  OBVIOUS
<1>2. PICK n \in Differ : \A k \in Differ : n <= k
  BY <1>1, LeastNat
<1>3. n \in 1 .. m /\ n - 1 \in 0 .. m /\ ~(n <= n - 1)
  BY <1>2 DEF AddsUp
<1>4. f[n - 1] = g[n - 1]
  BY <1>2, <1>3
<1> QED BY <1>2, <1>3, <1>4 DEF AddsUp

LEMMA SumType ==
  ASSUME NEW s, IsCharged(s)
  PROVE  Sum(s) \in Nat
<1>1. Len(s) \in Nat /\ Len(s) \in 0 .. Len(s)
  BY DEF IsCharged, IsList
<1> QED BY <1>1, SumFacts

LEMMA SumNothing == Sum(<<>>) = 0
<1>1. IsCharged(<<>>) /\ Len(<<>>) = 0
  BY DEF IsCharged, IsList
<1> QED BY <1>1, SumFacts DEF AddsUp

\* A file more adds its tokens.
LEMMA SumAppend ==
  ASSUME NEW E, NEW s \in Seq(E), NEW x \in E, \A e \in E : e.tokens \in Nat \ {0}
  PROVE  /\ IsCharged(s) /\ IsCharged(Append(s, x))
         /\ Sum(Append(s, x)) = Sum(s) + x.tokens
<1> DEFINE longer == Append(s, x)
           m == Len(s)
<1>1. /\ longer \in Seq(E) /\ Len(longer) = m + 1 /\ m \in Nat
      /\ \A n \in 1 .. m : longer[n] = s[n]
      /\ longer[m + 1] = x
  OBVIOUS
<1> HIDE DEF longer
<1>2. IsCharged(s) /\ IsCharged(longer)
  BY <1>1 DEF IsCharged, IsList
<1>3. PICK f \in [0 .. m + 1 -> Nat] : AddsUp(f, longer, m + 1) /\ Sum(longer) = f[m + 1]
  BY <1>1, <1>2, SumFacts
<1>4. PICK g \in [0 .. m -> Nat] : AddsUp(g, s, m) /\ Sum(s) = g[m]
  BY <1>2, SumFacts
<1> HIDE DEF m
<1>5. f[m] = g[m]
  <2>1. m \in Nat /\ \A n \in 1 .. m : n \in 1 .. m + 1 /\ longer[n] = s[n]
    BY <1>1
  <2>2. AddsUp(f, s, m)
    BY <1>3, <2>1 DEF AddsUp
  <2>3. AddsUp(g, s, m)
    BY <1>4
  <2>4. m \in Nat
    BY <2>1
  <2> QED BY <2>2, <2>3, <2>4, AddsUpUnique
<1>6. f[m + 1] = f[m] + x.tokens
  <2>1. m + 1 \in 1 .. m + 1 /\ (m + 1) - 1 = m
    BY <1>1
  <2> QED BY <1>1, <1>3, <2>1 DEF AddsUp
<1> QED BY <1>2, <1>3, <1>4, <1>5, <1>6 DEF longer

-----------------------------------------------------------------------------
(* The lexical baseline.                                                    *)

\* What holds of its files and their tokens after n rounds over scored: they
\* keep to the budget, or are one, and no file passed by would still fit.
IsFairSoFar(st, scored, budget, n) ==
  /\ st \in [files : Seq(ToSet(scored)), estimated : Nat]
  /\ st.estimated = Sum(st.files)
  /\ st.files = <<>> => n = 0
  /\ st.estimated <= budget \/ Len(st.files) = 1
  /\ \A k \in 1 .. n : scored[k] \in ToSet(st.files) \/ st.estimated + scored[k].tokens > budget

\* One round.
Round(before, f, budget) ==
  IF /\ before.files # <<>>
     /\ before.estimated + f.tokens > budget \/ before.estimated >= budget
  THEN before ELSE Take(before, f)

LEMMA RoundIsFair ==
  ASSUME NEW scored, IsCharged(scored), NEW budget \in Nat, NEW n \in 1 .. Len(scored),
         NEW st, IsFairSoFar(st, scored, budget, n - 1)
  PROVE  IsFairSoFar(Round(st, scored[n], budget), scored, budget, n)
<1> DEFINE E == ToSet(scored)
           f == scored[n]
<1>1. /\ \A k \in 1 .. Len(scored) : scored[k] \in E /\ scored[k].tokens \in Nat \ {0}
      /\ \A e \in E : e.tokens \in Nat \ {0}
      /\ f \in E /\ n \in Nat /\ \A k \in 1 .. n : k \in 1 .. Len(scored) /\ (k \in 1 .. n - 1 \/ k = n)
  BY DEF IsCharged, IsList, ToSet
<1>2. /\ st \in [files : Seq(E), estimated : Nat] /\ st.estimated = Sum(st.files)
      /\ st.files \in Seq(E) /\ st.estimated \in Nat
      /\ st.files = <<>> => n - 1 = 0
      /\ st.estimated <= budget \/ Len(st.files) = 1
      /\ \A k \in 1 .. n - 1 : scored[k] \in ToSet(st.files) \/ st.estimated + scored[k].tokens > budget
  BY DEF IsFairSoFar
<1> HIDE DEF E, f
<1>3. CASE /\ st.files # <<>>
           /\ st.estimated + f.tokens > budget \/ st.estimated >= budget
  <2>1. Round(st, f, budget) = st
    BY <1>3 DEF Round
  <2>2. st.estimated + f.tokens > budget
    BY <1>1, <1>2, <1>3
  <2>3. \A k \in 1 .. n : scored[k] \in ToSet(st.files) \/ st.estimated + scored[k].tokens > budget
    BY <1>1, <1>2, <2>2 DEF f
  <2>4. IsFairSoFar(st, scored, budget, n)
    BY <1>2, <1>3, <2>3 DEF IsFairSoFar, E
  <2> QED BY <2>1, <2>4 DEF f
<1>4. CASE ~(/\ st.files # <<>>
             /\ st.estimated + f.tokens > budget \/ st.estimated >= budget)
  <2> DEFINE after == Take(st, f)
             more  == Append(st.files, f)
  <2>1. Round(st, f, budget) = after
    BY <1>4 DEF Round
  <2>2. after.files = more /\ after.estimated = st.estimated + f.tokens
    BY DEF Take
  <2>3. f.tokens \in Nat \ {0}
    BY <1>1
  <2>4. /\ more \in Seq(E) /\ Len(more) = Len(st.files) + 1 /\ DOMAIN more = 1 .. Len(st.files) + 1
        /\ more[Len(st.files) + 1] = f /\ \A k \in 1 .. Len(st.files) : more[k] = st.files[k]
        /\ Len(st.files) \in Nat /\ DOMAIN st.files = 1 .. Len(st.files)
        /\ more # <<>>
    <3>1. st.files \in Seq(E) /\ f \in E
      BY <1>1, <1>2
    <3>2. Len(more) # 0
      BY <3>1
    <3> QED BY <3>1, <3>2
  <2> HIDE DEF more
  <2>5. after \in [files : Seq(E), estimated : Nat]
    BY <1>2, <2>3, <2>4 DEF Take, more
  <2>6. after.estimated = Sum(after.files)
    BY <1>1, <1>2, <2>2, SumAppend DEF more
  <2>7. ToSet(st.files) \cup {f} \subseteq ToSet(more)
    BY <2>4 DEF ToSet
  <2>8. after.estimated <= budget \/ Len(after.files) = 1
    <3>1. CASE st.files = <<>>
      BY <2>2, <2>4, <3>1
    <3>2. CASE st.files # <<>>
      BY <1>2, <1>4, <2>2, <2>3, <3>2
    <3> QED BY <3>1, <3>2
  <2>9. \A k \in 1 .. n : scored[k] \in ToSet(more) \/ after.estimated + scored[k].tokens > budget
    <3> SUFFICES ASSUME NEW k \in 1 .. n, scored[k] \notin ToSet(more)
                 PROVE  after.estimated + scored[k].tokens > budget
      OBVIOUS
    <3>1. k \in 1 .. n - 1 /\ scored[k].tokens \in Nat
      BY <1>1, <2>7 DEF f
    <3>2. st.estimated + scored[k].tokens > budget
      BY <1>2, <2>7, <3>1
    <3> QED BY <1>2, <2>2, <2>3, <3>1, <3>2
  <2> HIDE DEF after
  <2>10. IsFairSoFar(after, scored, budget, n)
    BY <2>2, <2>4, <2>5, <2>6, <2>8, <2>9 DEF IsFairSoFar, E
  <2> QED BY <2>1, <2>10 DEF f
<1> QED BY <1>3, <1>4

LEMMA RoundType ==
  ASSUME NEW E, \A e \in E : e.tokens \in Nat, NEW f \in E, NEW budget,
         NEW st \in [files : Seq(E), estimated : Nat]
  PROVE  Round(st, f, budget) \in [files : Seq(E), estimated : Nat]
<1>1. Append(st.files, f) \in Seq(E) /\ st.estimated + f.tokens \in Nat
  OBVIOUS
<1>2. Take(st, f) \in [files : Seq(E), estimated : Nat]
  BY <1>1 DEF Take
<1> QED BY <1>2 DEF Round

LEMMA LexicalIsFair ==
  ASSUME NEW task, NEW budget \in Nat, IsCharged(Lexical(task.task))
  PROVE  IsFairSoFar(LexicalBudgetBaseline(task, budget), Lexical(task.task), budget,
                     Len(Lexical(task.task)))
<1> DEFINE scored == Lexical(task.task)
           N == Len(scored)
           E == ToSet(scored)
           S == [files : Seq(E), estimated : Nat]
           first == [files |-> <<>>, estimated |-> 0]
           g == [n \in 1 .. N |-> [x \in S |-> Round(x, scored[n], budget)]]
           IsTaken(t) == t = [n \in 0 .. N |-> IF n = 0 THEN first ELSE
                                 IF /\ t[n - 1].files # <<>>
                                    /\ t[n - 1].estimated + scored[n].tokens > budget \/ t[n - 1].estimated >= budget
                                 THEN t[n - 1] ELSE Take(t[n - 1], scored[n])]
           taken == CHOOSE t : IsTaken(t)
<1>1. LexicalBudgetBaseline(task, budget) = taken[N]
  BY DEF LexicalBudgetBaseline
<1> HIDE DEF IsTaken
<1>2. \A t : IsTaken(t) <=> t = [n \in 0 .. N |-> IF n = 0 THEN first ELSE Round(t[n - 1], scored[n], budget)]
  BY DEF IsTaken, Round
<1> HIDE DEF taken
<1>3. N \in Nat /\ \A n \in 1 .. N : scored[n] \in E /\ scored[n].tokens \in Nat \ {0}
  BY DEF IsCharged, IsList, ToSet
<1>4. \A e \in E : e.tokens \in Nat
  BY DEF IsCharged, IsList, ToSet
<1> HIDE DEF scored, N, E
<1>5. first \in S
  OBVIOUS
<1> HIDE DEF first
<1>6. \A n \in 1 .. N : \A x \in S : Round(x, scored[n], budget) \in S
  BY <1>3, <1>4, RoundType
<1> HIDE DEF S
<1>7. g \in [1 .. N -> [S -> S]] /\ \A n \in 1 .. N : \A x \in S : g[n][x] = Round(x, scored[n], budget)
  BY <1>6
<1> HIDE DEF g
<1>8. PICK f : Loop(f, S, first, g, N)
  BY <1>3, <1>5, <1>7, LoopExists
<1>9. IsTaken(f)
  <2> DEFINE h == [n \in 0 .. N |-> IF n = 0 THEN first ELSE Round(f[n - 1], scored[n], budget)]
  <2>1. \A n \in 1 .. N : n - 1 \in 0 .. N
    BY <1>3
  <2>2. f \in [0 .. N -> S] /\ f[0] = first /\ \A n \in 1 .. N : f[n] = Round(f[n - 1], scored[n], budget)
    BY <1>7, <1>8, <2>1 DEF Loop
  <2>3. f = [n \in 0 .. N |-> f[n]] /\ h = [n \in 0 .. N |-> h[n]]
    BY <2>2
  <2>4. \A n \in 0 .. N : f[n] = h[n]
    BY <1>3, <2>2
  <2> HIDE DEF h
  <2>5. f = h
    BY <2>3, <2>4
  <2> QED BY <1>2, <2>5 DEF h
<1>10. IsTaken(taken)
  BY <1>9 DEF taken
<1>11. \A n \in 0 .. N : taken[n] = IF n = 0 THEN first ELSE Round(taken[n - 1], scored[n], budget)
  BY <1>2, <1>10
<1>12. IsFairSoFar(first, scored, budget, 0)
  <2>1. Sum(<<>>) = 0 /\ 0 <= budget
    BY SumNothing
  <2> QED BY <1>5, <2>1 DEF IsFairSoFar, first, S, E
<1> DEFINE Unfair == {n \in 0 .. N : ~IsFairSoFar(taken[n], scored, budget, n)}
<1>13. CASE Unfair # {}
  <2>1. PICK n \in Unfair : \A k \in Unfair : n <= k
    <3>1. Unfair \in SUBSET Nat
      OBVIOUS
    <3> QED BY <1>13, <3>1, LeastNat
  <2>2. n # 0
    BY <1>3, <1>11, <1>12, <2>1
  <2>3. n \in 1 .. N /\ n - 1 \in 0 .. N /\ ~(n <= n - 1)
    BY <1>3, <2>1, <2>2
  <2>4. IsFairSoFar(taken[n - 1], scored, budget, n - 1)
    BY <2>1, <2>3
  <2>5. IsFairSoFar(Round(taken[n - 1], scored[n], budget), scored, budget, n)
    BY <2>3, <2>4, RoundIsFair DEF scored, N
  <2>6. taken[n] = Round(taken[n - 1], scored[n], budget)
    BY <1>11, <2>1, <2>2
  <2> QED BY <2>1, <2>5, <2>6
<1>14. CASE Unfair = {}
  <2>1. N \in 0 .. N
    BY <1>3
  <2>2. IsFairSoFar(taken[N], scored, budget, N)
    BY <1>14, <2>1
  <2> QED BY <1>1, <2>2 DEF scored, N
<1> QED BY <1>13, <1>14

-----------------------------------------------------------------------------
(* The reader of task files.                                                *)

Values(lines) == {NoName} \cup {lines[k].value : k \in DOMAIN lines}

Budgets(lines) == {0} \cup {lines[k].value : k \in BudgetLines(lines)}

Tasks(lines) ==
  [name : Values(lines), task : TextsOf(lines), budget : Budgets(lines),
   expect : Seq(Values(lines)), avoid : Seq(Values(lines))]

\* What its variables may hold.
Readers(lines) ==
  [tasks : Seq(Tasks(lines)), current : Seq(Tasks(lines)),
   section : {NoName} \cup {lines[k].key : k \in DOMAIN lines}, failed : BOOLEAN]

LEMMA ReaderFacts ==
  ASSUME NEW lines, NEW st \in Readers(lines)
  PROVE  /\ st.tasks \in Seq(Tasks(lines)) /\ st.current \in Seq(Tasks(lines))
         /\ \A more \in Seq(Tasks(lines)) : [st EXCEPT !.current = more] \in Readers(lines)
         /\ \A k \in DOMAIN lines : [st EXCEPT !.section = lines[k].key] \in Readers(lines)
         /\ [st EXCEPT !.section = NoName] \in Readers(lines)
         /\ Failed(st) \in Readers(lines)
<1> DEFINE T == Seq(Tasks(lines))
<1>1. st.tasks \in T /\ st.current \in T
  BY DEF Readers
<1>2. \A more \in T : [st EXCEPT !.current = more] \in Readers(lines)
  <2> HIDE DEF T
  <2> QED BY DEF Readers, T
<1> HIDE DEF T
<1>3. \A k \in DOMAIN lines : [st EXCEPT !.section = lines[k].key] \in Readers(lines)
  BY DEF Readers
<1>4. [st EXCEPT !.section = NoName] \in Readers(lines)
  BY DEF Readers
<1>5. Failed(st) \in Readers(lines)
  BY DEF Readers, Failed
<1> QED BY <1>1, <1>2, <1>3, <1>4, <1>5 DEF T

LEMMA ApplyType ==
  ASSUME NEW lines, IsFile(lines), NEW k \in DOMAIN lines, lines[k].kind \in {"dash", "field"},
         NEW st \in Readers(lines), st.current # <<>>
  PROVE  ApplyTaskField(st, lines[k].key, lines[k].value) \in Readers(lines)
<1> DEFINE key == lines[k].key
           value == lines[k].value
           t == st.current[1]
<1>1. value \in Values(lines) /\ (key = "task" => value \in TextsOf(lines)) /\ (key = "budget" => value \in Budgets(lines))
  BY DEF Values, TextsOf, Budgets, BudgetLines
<1>2. st.current \in Seq(Tasks(lines)) /\ 1 \in DOMAIN st.current /\ t \in Tasks(lines)
  <2>1. st.current \in Seq(Tasks(lines))
    BY ReaderFacts
  <2> QED BY <2>1
<1>3. DOMAIN st = {"tasks", "current", "section", "failed"}
  BY DEF Readers
<1> HIDE DEF key, value
<1>4. ASSUME NEW u \in Tasks(lines)
      PROVE  [st EXCEPT !.current = [st.current EXCEPT ![1] = u]] \in Readers(lines)
  <2>1. [st.current EXCEPT ![1] = u] \in Seq(Tasks(lines))
    BY <1>2, <1>4
  <2> QED BY <2>1, ReaderFacts
<1>5. CASE key = "name"
  <2>1. [t EXCEPT !.name = value] \in Tasks(lines)
    BY <1>1, <1>2 DEF Tasks
  <2>2. ApplyTaskField(st, key, value)
          = [st EXCEPT !.current = [st.current EXCEPT ![1] = [t EXCEPT !.name = value]]]
    BY <1>5 DEF ApplyTaskField
  <2> QED BY <1>4, <2>1, <2>2 DEF key, value
<1>6. CASE key = "task"
  <2>1. [t EXCEPT !.task = value] \in Tasks(lines)
    BY <1>1, <1>2, <1>6 DEF Tasks
  <2>2. ApplyTaskField(st, key, value)
          = [st EXCEPT !.current = [st.current EXCEPT ![1] = [t EXCEPT !.task = value]]]
    BY <1>6 DEF ApplyTaskField
  <2> QED BY <1>4, <2>1, <2>2 DEF key, value
<1>7. CASE key = "budget"
  <2>1. [t EXCEPT !.budget = value] \in Tasks(lines)
    BY <1>1, <1>2, <1>7 DEF Tasks
  <2>2. ApplyTaskField(st, key, value)
          = [st EXCEPT !.current = [st.current EXCEPT ![1] = [t EXCEPT !.budget = value]]]
    BY <1>7 DEF ApplyTaskField
  <2> QED BY <1>4, <2>1, <2>2 DEF key, value
<1>8. CASE key \notin {"name", "task", "budget"}
  BY <1>8, ReaderFacts DEF ApplyTaskField, key
<1> QED BY <1>5, <1>6, <1>7, <1>8

LEMMA ReadLineType ==
  ASSUME NEW lines, IsFile(lines), NEW k \in DOMAIN lines, NEW st \in Readers(lines)
  PROVE  ReadLine(st, lines[k]) \in Readers(lines)
<1> DEFINE line == lines[k]
<1>1. CASE st.failed \/ line.kind = "blank"
  BY <1>1 DEF ReadLine
<1>2. CASE ~st.failed /\ line.kind = "dash"
  <2> DEFINE begun == [st EXCEPT !.tasks = st.tasks \o st.current, !.current = <<NoTask>>, !.section = NoName]
  <2>1. NoTask \in Tasks(lines)
    <3>1. NoName \in Values(lines) /\ NoName \in TextsOf(lines) /\ 0 \in Budgets(lines)
      BY DEF Values, TextsOf, Budgets
    <3> QED BY <3>1 DEF NoTask, Tasks
  <2>2. st.tasks \o st.current \in Seq(Tasks(lines)) /\ <<NoTask>> \in Seq(Tasks(lines)) /\ <<NoTask>> # <<>>
    <3>1. st.tasks \in Seq(Tasks(lines)) /\ st.current \in Seq(Tasks(lines))
      BY ReaderFacts
    <3>2. st.tasks \o st.current \in Seq(Tasks(lines))
      BY <3>1
    <3>3. <<NoTask>> \in Seq(Tasks(lines)) /\ <<NoTask>> # <<>>
      BY <2>1
    <3> QED BY <3>2, <3>3
  <2>3. begun \in Readers(lines) /\ begun.current # <<>>
    <3> HIDE DEF line
    <3> QED BY <2>2 DEF Readers
  <2>4. ReadLine(st, line) = ApplyTaskField(begun, line.key, line.value)
    BY <1>2 DEF ReadLine, ReadDash
  <2> HIDE DEF begun
  <2> QED BY <1>2, <2>3, <2>4, ApplyType
<1>3. CASE ~st.failed /\ line.kind = "item"
  <2>1. ReadLine(st, line) = ReadItem(st, line.value)
    BY <1>3 DEF ReadLine
  <2>2. line.value \in Values(lines)
    BY DEF Values
  <2> HIDE DEF line
  <2>3. CASE st.current # <<>> /\ st.section \in {"expect", "avoid"}
    <3> DEFINE t == st.current[1]
    <3>1. st.current \in Seq(Tasks(lines)) /\ 1 \in DOMAIN st.current /\ t \in Tasks(lines)
      <4>1. st.current \in Seq(Tasks(lines))
        BY ReaderFacts
      <4> QED BY <2>3, <4>1
    <3>2. DOMAIN st = {"tasks", "current", "section", "failed"}
      BY DEF Readers
    <3>3. ASSUME NEW u \in Tasks(lines)
          PROVE  [st EXCEPT !.current = [st.current EXCEPT ![1] = u]] \in Readers(lines)
      <4>1. [st.current EXCEPT ![1] = u] \in Seq(Tasks(lines))
        BY <3>1, <3>3
      <4> QED BY <4>1, ReaderFacts
    <3>4. Append(t.expect, line.value) \in Seq(Values(lines)) /\ Append(t.avoid, line.value) \in Seq(Values(lines))
      BY <2>2, <3>1 DEF Tasks
    <3>5. CASE st.section = "expect"
      <4>1. [t EXCEPT !.expect = Append(t.expect, line.value)] \in Tasks(lines)
        BY <3>1, <3>4 DEF Tasks
      <4>2. ReadItem(st, line.value)
              = [st EXCEPT !.current = [st.current EXCEPT ![1] = [t EXCEPT !.expect = Append(t.expect, line.value)]]]
        BY <2>3, <3>5 DEF ReadItem
      <4> QED BY <2>1, <3>3, <4>1, <4>2 DEF line
    <3>6. CASE st.section = "avoid"
      <4>1. [t EXCEPT !.avoid = Append(t.avoid, line.value)] \in Tasks(lines)
        BY <3>1, <3>4 DEF Tasks
      <4>2. ReadItem(st, line.value)
              = [st EXCEPT !.current = [st.current EXCEPT ![1] = [t EXCEPT !.avoid = Append(t.avoid, line.value)]]]
        BY <2>3, <3>6 DEF ReadItem
      <4> QED BY <2>1, <3>3, <4>1, <4>2 DEF line
    <3> QED BY <2>3, <3>5, <3>6
  <2>4. CASE ~(st.current # <<>> /\ st.section \in {"expect", "avoid"})
    <3>1. ReadItem(st, line.value) = Failed(st)
      BY <2>4 DEF ReadItem
    <3> QED BY <2>1, <3>1, ReaderFacts DEF line
  <2> QED BY <2>3, <2>4
<1>4. CASE ~st.failed /\ line.kind = "heading"
  BY <1>4, ReaderFacts DEF ReadLine
<1>5. CASE ~st.failed /\ line.kind = "field"
  <2>1. ReadLine(st, line) = ReadField(st, line)
    BY <1>5 DEF ReadLine
  <2>2. CASE st.current = <<>>
    BY <2>1, <2>2, ReaderFacts DEF ReadField
  <2>3. CASE st.current # <<>>
    <3> DEFINE left == [st EXCEPT !.section = NoName]
    <3>1. left \in Readers(lines)
      BY ReaderFacts
    <3>2. left.current = st.current
      BY DEF Readers
    <3>3. ReadField(st, line) = ApplyTaskField(left, line.key, line.value)
      BY <2>3 DEF ReadField
    <3> HIDE DEF left
    <3> QED BY <1>5, <2>1, <2>3, <3>1, <3>2, <3>3, ApplyType
  <2> QED BY <2>2, <2>3
<1>6. CASE ~st.failed /\ line.kind = "junk"
  BY <1>6, ReaderFacts DEF ReadLine
<1> QED BY <1>1, <1>2, <1>3, <1>4, <1>5, <1>6 DEF IsFile

\* The states of the reader behind each line of a file.
IsReading(read, lines) ==
  /\ read \in [0 .. Len(lines) -> Readers(lines)]
  /\ read[0] = Start /\ \A n \in 1 .. Len(lines) : read[n] = ReadLine(read[n - 1], lines[n])
  /\ ParseTasks(lines).failed = read[Len(lines)].failed
  /\ ParseTasks(lines).tasks
       = IF read[Len(lines)].failed THEN <<>> ELSE read[Len(lines)].tasks \o read[Len(lines)].current

LEMMA FileIsRead ==
  ASSUME NEW lines, IsFile(lines)
  PROVE  \E read : IsReading(read, lines)
<1> DEFINE N == Len(lines)
           S == Readers(lines)
           g == [n \in 1 .. N |-> [x \in S |-> ReadLine(x, lines[n])]]
           IsRead(t) == t = [n \in 0 .. N |-> IF n = 0 THEN Start ELSE ReadLine(t[n - 1], lines[n])]
           read == CHOOSE t : IsRead(t)
<1>1. /\ ParseTasks(lines).tasks = IF read[N].failed THEN <<>> ELSE read[N].tasks \o read[N].current
      /\ ParseTasks(lines).failed = read[N].failed
  BY DEF ParseTasks
<1> HIDE DEF read
<1>2. N \in Nat /\ DOMAIN lines = 1 .. N
  BY DEF IsFile, IsList
<1>3. Start \in S
  BY DEF Start, Readers
<1>4. \A n \in 1 .. N : \A x \in S : ReadLine(x, lines[n]) \in S
  BY <1>2, ReadLineType
<1> HIDE DEF S, N
<1>5. g \in [1 .. N -> [S -> S]] /\ \A n \in 1 .. N : \A x \in S : g[n][x] = ReadLine(x, lines[n])
  BY <1>4
<1> HIDE DEF g
<1>6. PICK f : Loop(f, S, Start, g, N)
  BY <1>2, <1>3, <1>5, LoopExists
<1>7. IsRead(f)
  <2> DEFINE h == [n \in 0 .. N |-> IF n = 0 THEN Start ELSE ReadLine(f[n - 1], lines[n])]
  <2>1. \A n \in 1 .. N : n - 1 \in 0 .. N
    BY <1>2
  <2>2. f \in [0 .. N -> S] /\ f[0] = Start /\ \A n \in 1 .. N : f[n] = ReadLine(f[n - 1], lines[n])
    BY <1>5, <1>6, <2>1 DEF Loop
  <2>3. f = [n \in 0 .. N |-> f[n]] /\ h = [n \in 0 .. N |-> h[n]]
    BY <2>2
  <2>4. \A n \in 0 .. N : f[n] = h[n]
    BY <1>2, <2>2
  <2> HIDE DEF h
  <2>5. f = h
    BY <2>3, <2>4
  <2> QED BY <2>5 DEF h
<1>8. IsRead(read)
  BY <1>7 DEF read
<1>9. \A n \in 0 .. N : read[n] = IF n = 0 THEN Start ELSE ReadLine(read[n - 1], lines[n])
  BY <1>8
<1> HIDE DEF IsRead
<1> DEFINE Other == {n \in 0 .. N : read[n] \notin S}
<1>10. Other = {}
  <2> SUFFICES ASSUME Other # {} PROVE FALSE
    OBVIOUS
  <2>1. PICK n \in Other : \A k \in Other : n <= k
    <3>1. Other \in SUBSET Nat
      OBVIOUS
    <3> QED BY <3>1, LeastNat
  <2>2. n # 0
    BY <1>3, <1>9, <2>1
  <2>3. n \in 1 .. N /\ n - 1 \in 0 .. N /\ ~(n <= n - 1)
    BY <1>2, <2>1, <2>2
  <2>4. read[n - 1] \in S
    BY <2>1, <2>3
  <2>5. read[n] = ReadLine(read[n - 1], lines[n])
    BY <1>9, <2>1, <2>2
  <2> QED BY <1>4, <2>1, <2>3, <2>4, <2>5
<1>11. read \in [0 .. N -> S]
  <2>1. read = [n \in 0 .. N |-> IF n = 0 THEN Start ELSE ReadLine(read[n - 1], lines[n])]
    BY <1>8 DEF IsRead
  <2>2. \A n \in 0 .. N : read[n] \in S
    BY <1>10
  <2>3. read = [n \in 0 .. N |-> read[n]]
    BY <2>1
  <2> QED BY <2>2, <2>3
<1>12. read[0] = Start /\ \A n \in 1 .. N : read[n] = ReadLine(read[n - 1], lines[n])
  BY <1>2, <1>9
<1> QED BY <1>1, <1>11, <1>12 DEF IsReading, S, N

\* The tasks of a file have a text of its lines and a number for a budget.
LEMMA ParsedTasks ==
  ASSUME NEW lines, IsFile(lines)
  PROVE  ParseTasks(lines).tasks \in Seq(Tasks(lines))
<1>1. PICK read : IsReading(read, lines)
  BY FileIsRead
<1> DEFINE st == read[Len(lines)]
<1>2. Len(lines) \in 0 .. Len(lines)
  BY DEF IsFile, IsList
<1>3. st \in Readers(lines)
  BY <1>1, <1>2 DEF IsReading
<1>4. ParseTasks(lines).tasks = IF st.failed THEN <<>> ELSE st.tasks \o st.current
  BY <1>1 DEF IsReading
<1> HIDE DEF st
<1>5. st.tasks \in Seq(Tasks(lines)) /\ st.current \in Seq(Tasks(lines))
  BY <1>3, ReaderFacts
<1>6. st.tasks \o st.current \in Seq(Tasks(lines))
  BY <1>5
<1> QED BY <1>4, <1>6

-----------------------------------------------------------------------------
(* What the reader has made of the lines so far.  Q has a line more than P, *)
(* the n-th.                                                                *)

Grows(P, Q, n) ==
  /\ n \in Nat \ {0} /\ DOMAIN P = 1 .. n - 1 /\ DOMAIN Q = 1 .. n
  /\ \A k \in 1 .. n - 1 : Q[k] = P[k]

IsLast(P, d) == d \in Dashes(P) /\ \A e \in Dashes(P) : e <= d

\* A task that the reader holds says what the lines say.
Says(t, w) ==
  /\ t.name = w.name /\ t.task = w.task /\ t.budget = w.budget
  /\ ToSet(t.expect) = w.expect /\ ToSet(t.avoid) = w.avoid

IsSoFar(st, P, n) ==
  /\ Dashes(P) = {} => st.tasks = <<>> /\ st.current = <<>>
  /\ Dashes(P) # {} => \E l : IsLast(P, l)
  /\ \A l : IsLast(P, l) =>
       /\ Len(st.current) = 1 /\ TaskNumber(P, l) = Len(st.tasks) + 1
       /\ Says(st.current[1], AsWritten(P, l))
       /\ st.section \in {"expect", "avoid"} =>
            \E h \in Body(P, l) : P[h].key = st.section /\ Heads(P, l, h, n + 1)
  /\ \A d \in Dashes(P) : ~IsLast(P, d) =>
       TaskNumber(P, d) \in 1 .. Len(st.tasks) /\ Says(st.tasks[TaskNumber(P, d)], AsWritten(P, d))

LEMMA MaxIs ==
  ASSUME NEW T \in SUBSET Nat, NEW a \in T, \A n \in T : a >= n
  PROVE  a = Max(T)
<1>1. Max(T) \in T /\ \A n \in T : Max(T) >= n
  BY DEF Max
<1>2. PICK x \in T : x = Max(T) /\ x >= a
  BY <1>1
<1>3. a >= x /\ a \in Nat /\ x \in Nat
  OBVIOUS
<1>4. a = x
  BY <1>2, <1>3
<1> QED BY <1>2, <1>4

LEMMA MaxIn ==
  ASSUME NEW n \in Nat, NEW T \in SUBSET (0 .. n), T # {}
  PROVE  Max(T) \in T
<1> DEFINE U == {n - x : x \in T}
<1>1. U \in SUBSET Nat /\ U # {}
  <2>1. \A x \in T : n - x \in Nat
    OBVIOUS
  <2> QED BY <2>1
<1>2. PICK u \in U : \A v \in U : u <= v
  BY <1>1, LeastNat
<1>3. PICK x \in T : u = n - x
  OBVIOUS
<1>4. ASSUME NEW y \in T PROVE x >= y
  <2>1. u <= n - y
    BY <1>2
  <2> QED BY <1>3, <2>1
<1>5. \E z \in T : \A y \in T : z >= y
  BY <1>4
<1> QED BY <1>5 DEF Max

\* A task whose lines are the same is the same.
LEMMA SameBody ==
  ASSUME NEW P, NEW Q, NEW n, Grows(P, Q, n), NEW d, Body(Q, d) = Body(P, d)
  PROVE  AsWritten(Q, d) = AsWritten(P, d)
<1>1. \A k \in Body(P, d) : Q[k] = P[k]
  BY DEF Grows, Body
<1>2. ASSUME NEW key, NEW default PROVE ValueOf(Q, d, key, default) = ValueOf(P, d, key, default)
  <2> DEFINE at(R) == {k \in Body(R, d) : R[k].kind \in {"dash", "field"} /\ R[k].key = key}
  <2>1. at(Q) = at(P)
    BY <1>1
  <2>2. at(P) # {} => Q[Max(at(P))] = P[Max(at(P))]
    <3>1. ASSUME at(P) # {} PROVE Max(at(P)) \in Body(P, d)
      <4> DEFINE T == at(P)
      <4>1. T \in SUBSET (0 .. n) /\ n \in Nat
        BY DEF Body, Grows
      <4>2. T \subseteq Body(P, d) /\ T # {}
        BY <3>1
      <4> HIDE DEF T
      <4>3. Max(T) \in T
        BY <4>1, <4>2, MaxIn
      <4> QED BY <4>2, <4>3 DEF T
    <3> QED BY <1>1, <3>1
  <2>3. ValueOf(Q, d, key, default) = IF at(Q) = {} THEN default ELSE Q[Max(at(Q))].value
    BY DEF ValueOf
  <2>4. ValueOf(P, d, key, default) = IF at(P) = {} THEN default ELSE P[Max(at(P))].value
    BY DEF ValueOf
  <2> HIDE DEF at
  <2> QED BY <2>1, <2>2, <2>3, <2>4
<1>3. ASSUME NEW key PROVE ItemsOf(Q, d, key) = ItemsOf(P, d, key)
  <2>1. \A h, k : Heads(Q, d, h, k) <=> Heads(P, d, h, k)
    BY <1>1 DEF Heads
  <2> QED BY <1>1, <2>1 DEF ItemsOf
<1> QED BY <1>2, <1>3 DEF AsWritten

LEMMA DashesGrow ==
  ASSUME NEW P, NEW Q, NEW n, Grows(P, Q, n)
  PROVE  /\ Dashes(P) \subseteq 1 .. n - 1 /\ n \in Nat \ {0}
         /\ Q[n].kind # "dash" => Dashes(Q) = Dashes(P)
         /\ Q[n].kind = "dash" => Dashes(Q) = Dashes(P) \cup {n}
<1>1. DOMAIN Q = DOMAIN P \cup {n} /\ \A k \in DOMAIN P : Q[k] = P[k] /\ k # n
  BY DEF Grows
<1> QED BY <1>1 DEF Dashes, Grows

\* No line is added to a task behind which there is a dash.
LEMMA BodyStays ==
  ASSUME NEW P, NEW Q, NEW n, Grows(P, Q, n), NEW d \in Dashes(P),
         ~IsLast(P, d) \/ Q[n].kind = "dash"
  PROVE  Body(Q, d) = Body(P, d)
<1>1. n \in Nat \ {0} /\ d \in 1 .. n - 1 /\ Dashes(P) \subseteq 1 .. n - 1
  BY DashesGrow
<1>2. PICK e \in Dashes(Q) : ~(e <= d) /\ e <= n
  BY <1>1, DashesGrow DEF IsLast
<1>3. n \notin Body(Q, d)
  BY <1>1, <1>2 DEF Body
<1>4. \A k \in 1 .. n - 1 : k \in Body(Q, d) <=> k \in Body(P, d)
  <2>1. \A k \in 1 .. n - 1 : n > k
    BY <1>1
  <2>2. Dashes(Q) = Dashes(P) \/ Dashes(Q) = Dashes(P) \cup {n}
    BY DashesGrow
  <2> QED BY <2>1, <2>2 DEF Body, Grows
<1>5. Body(Q, d) \subseteq 1 .. n /\ Body(P, d) \subseteq 1 .. n - 1
  BY DEF Body, Grows
<1> QED BY <1>1, <1>3, <1>4, <1>5

\* Any other line is added to the last task.
LEMMA BodyGrows ==
  ASSUME NEW P, NEW Q, NEW n, Grows(P, Q, n), NEW l, IsLast(P, l), Q[n].kind # "dash"
  PROVE  /\ Body(Q, l) = Body(P, l) \cup {n} /\ Body(P, l) \subseteq 1 .. n - 1 /\ n \in Nat \ {0}
         /\ IsLast(Q, l)
<1>1. n \in Nat \ {0} /\ l \in 1 .. n - 1 /\ Dashes(Q) = Dashes(P)
  BY DashesGrow DEF IsLast
<1>2. DOMAIN Q = DOMAIN P \cup {n} /\ DOMAIN P = 1 .. n - 1
  BY DEF Grows
<1>3. n >= l /\ \A e \in Dashes(Q) : e <= l
  BY <1>1 DEF IsLast
<1> QED BY <1>1, <1>2, <1>3 DEF Body, IsLast


LEMMA LastLine ==
  ASSUME NEW P, NEW Q, NEW n, Grows(P, Q, n), NEW l, IsLast(P, l), Q[n].kind # "dash", NEW key
  PROVE  /\ \A default : ValueOf(Q, l, key, default)
              = IF Q[n].kind = "field" /\ Q[n].key = key THEN Q[n].value ELSE ValueOf(P, l, key, default)
         /\ ItemsOf(Q, l, key)
              = ItemsOf(P, l, key)
                \cup IF Q[n].kind = "item" /\ \E h \in Body(P, l) : P[h].key = key /\ Heads(P, l, h, n)
                     THEN {Q[n].value} ELSE {}
<1> DEFINE B == Body(P, l)
<1>1. Body(Q, l) = B \cup {n} /\ B \subseteq 1 .. n - 1 /\ n \in Nat \ {0}
  BY BodyGrows
<1>2. \A k \in B : Q[k] = P[k] /\ k # n /\ k < n /\ k \in Nat
  BY <1>1 DEF Grows
<1> HIDE DEF B
<1>3. ASSUME NEW default
      PROVE  ValueOf(Q, l, key, default)
              = IF Q[n].kind = "field" /\ Q[n].key = key THEN Q[n].value ELSE ValueOf(P, l, key, default)
  <2> DEFINE at == {k \in B : P[k].kind \in {"dash", "field"} /\ P[k].key = key}
             now == {k \in B \cup {n} : Q[k].kind \in {"dash", "field"} /\ Q[k].key = key}
  <2>1. ValueOf(Q, l, key, default) = IF now = {} THEN default ELSE Q[Max(now)].value
    BY <1>1 DEF ValueOf
  <2>2. ValueOf(P, l, key, default) = IF at = {} THEN default ELSE P[Max(at)].value
    BY DEF ValueOf, B
  <2>3. CASE Q[n].kind = "field" /\ Q[n].key = key
    <3>1. now \in SUBSET Nat /\ n \in now /\ \A k \in now : n >= k
      <4>1. n \in now
        BY <2>3
      <4>2. \A k \in now : k \in B \/ k = n
        OBVIOUS
      <4>3. \A k \in now : k \in Nat /\ n >= k
        <5> SUFFICES ASSUME NEW k \in now PROVE k \in Nat /\ n >= k
          OBVIOUS
        <5> HIDE DEF now
        <5>1. CASE k \in B
          BY <1>1, <1>2, <5>1
        <5>2. CASE k = n
          BY <1>1, <5>2
        <5> QED BY <4>2, <5>1, <5>2
      <4> HIDE DEF now
      <4> QED BY <4>1, <4>3
    <3>2. Max(now) = n
      <4> HIDE DEF now
      <4> QED BY <3>1, MaxIs
    <3> HIDE DEF now
    <3> QED BY <2>1, <2>3, <3>1, <3>2
  <2>4. CASE ~(Q[n].kind = "field" /\ Q[n].key = key)
    <3>1. now = at
      BY <1>2, <2>4
    <3>2. ValueOf(Q, l, key, default) = IF at = {} THEN default ELSE Q[Max(at)].value
      BY <2>1, <3>1
    <3>3. at # {} => Max(at) \in B
      <4>1. at \in SUBSET B
        OBVIOUS
      <4> HIDE DEF at
      <4>2. ASSUME at # {} PROVE Max(at) \in at
        <5>1. B \subseteq 0 .. n /\ n \in Nat
          BY <1>1
        <5> QED BY <4>1, <4>2, <5>1, MaxIn
      <4> QED BY <4>1, <4>2
    <3> HIDE DEF at, now
    <3> QED BY <1>2, <2>2, <2>4, <3>2, <3>3
  <2> QED BY <2>3, <2>4
<1>4. ItemsOf(Q, l, key)
        = ItemsOf(P, l, key)
          \cup IF Q[n].kind = "item" /\ \E h \in Body(P, l) : P[h].key = key /\ Heads(P, l, h, n)
               THEN {Q[n].value} ELSE {}
  <2>1. \A k \in B \cup {n} : \A h : Heads(Q, l, h, k) <=> Heads(P, l, h, k)
    <3> SUFFICES ASSUME NEW k \in B \cup {n}
                 PROVE  {i \in Body(Q, l) : Q[i].kind = "heading" /\ i < k}
                          = {i \in Body(P, l) : P[i].kind = "heading" /\ i < k}
      BY DEF Heads
    <3>1. ~(n < k)
      BY <1>1, <1>2
    <3> QED BY <1>1, <1>2, <3>1 DEF B
  <2>2. \A k \in B \cup {n} : \A h : Heads(P, l, h, k) => h \in B
    BY DEF Heads, B
  <2> DEFINE mine(h, k) == P[h].key = key /\ Heads(P, l, h, k)
  <2>3. ItemsOf(P, l, key) = {P[k].value : k \in {k \in B : P[k].kind = "item" /\ \E h \in B : mine(h, k)}}
    BY DEF ItemsOf, B
  <2>4. ItemsOf(Q, l, key)
          = {Q[k].value : k \in {k \in B \cup {n} : Q[k].kind = "item" /\ \E h \in B : mine(h, k)}}
    BY <1>1, <1>2, <2>1, <2>2 DEF ItemsOf
  <2>5. (\E h \in Body(P, l) : P[h].key = key /\ Heads(P, l, h, n)) <=> (\E h \in B : mine(h, n))
    BY DEF B
  <2> HIDE DEF mine
  <2> QED BY <1>2, <2>3, <2>4, <2>5 DEF B
<1> QED BY <1>3, <1>4

\* A dash begins a task of which no more is said.
LEMMA NewTask ==
  ASSUME NEW P, NEW Q, NEW n, Grows(P, Q, n), Q[n].kind = "dash"
  PROVE  /\ IsLast(Q, n)
         /\ \A key, default : ValueOf(Q, n, key, default) = IF Q[n].key = key THEN Q[n].value ELSE default
         /\ \A key : ItemsOf(Q, n, key) = {}
<1>1. n \in Nat \ {0} /\ Dashes(P) \subseteq 1 .. n - 1 /\ Dashes(Q) = Dashes(P) \cup {n}
  BY DashesGrow
<1>2. IsLast(Q, n)
  BY <1>1 DEF IsLast
<1>3. Body(Q, n) = {n}
  <2>1. \A k \in 1 .. n : k >= n => k = n
    BY <1>1
  <2>2. n \in 1 .. n /\ n >= n /\ \A e \in Dashes(Q) : e <= n
    BY <1>1
  <2> QED BY <2>1, <2>2 DEF Body, Grows
<1>4. ASSUME NEW key, NEW default
      PROVE  ValueOf(Q, n, key, default) = IF Q[n].key = key THEN Q[n].value ELSE default
  <2> DEFINE at == {k \in {n} : Q[k].kind \in {"dash", "field"} /\ Q[k].key = key}
  <2>1. ValueOf(Q, n, key, default) = IF at = {} THEN default ELSE Q[Max(at)].value
    BY <1>3 DEF ValueOf
  <2>2. CASE Q[n].key = key
    <3>1. at = {n}
      BY <2>2
    <3>2. Max({n}) = n
      BY <1>1, MaxIs
    <3> HIDE DEF at
    <3> QED BY <2>1, <2>2, <3>1, <3>2
  <2>3. CASE Q[n].key # key
    BY <2>1, <2>3
  <2> QED BY <2>2, <2>3
<1>5. ASSUME NEW key PROVE ItemsOf(Q, n, key) = {}
  BY <1>3 DEF ItemsOf
<1> QED BY <1>2, <1>4, <1>5

\* Tasks are numbered in the order of their dashes.
LEMMA NumbersGrow ==
  ASSUME NEW P, NEW Q, NEW n, Grows(P, Q, n)
  PROVE  /\ \A d \in Dashes(P) : TaskNumber(Q, d) = TaskNumber(P, d)
         /\ Q[n].kind = "dash" => TaskNumber(Q, n) = Cardinality(Dashes(P)) + 1
<1>1. n \in Nat \ {0} /\ Dashes(P) \subseteq 1 .. n - 1
  BY DashesGrow
<1>2. Dashes(Q) = Dashes(P) \/ Dashes(Q) = Dashes(P) \cup {n}
  BY DashesGrow
<1>3. ASSUME NEW d \in Dashes(P) PROVE TaskNumber(Q, d) = TaskNumber(P, d)
  <2>1. ~(n <= d)
    BY <1>1
  <2>2. {e \in Dashes(Q) : e <= d} = {e \in Dashes(P) : e <= d}
    BY <1>2, <2>1
  <2> QED BY <2>2 DEF TaskNumber
<1>4. ASSUME Q[n].kind = "dash" PROVE TaskNumber(Q, n) = Cardinality(Dashes(P)) + 1
  <2>1. Dashes(Q) = Dashes(P) \cup {n}
    BY <1>4, DashesGrow
  <2>2. {e \in Dashes(Q) : e <= n} = Dashes(P) \cup {n}
    <3>1. n <= n /\ \A e \in Dashes(P) : e <= n
      BY <1>1
    <3> QED BY <2>1, <3>1
  <2>3. IsFiniteSet(1 .. n - 1)
    BY <1>1, FS_Interval
  <2>4. IsFiniteSet(Dashes(P))
    BY <1>1, <2>3, FS_Subset
  <2>5. n \notin Dashes(P)
    BY <1>1
  <2>6. Cardinality(Dashes(P) \cup {n}) = Cardinality(Dashes(P)) + 1
    BY <2>4, <2>5, FS_AddElement
  <2> QED BY <2>2, <2>6 DEF TaskNumber
<1> QED BY <1>3, <1>4

\* What a field sets.
LEMMA ApplyFacts ==
  ASSUME NEW lines, NEW st \in Readers(lines), st.current # <<>>, NEW key, NEW value,
         NEW s, s = ApplyTaskField(st, key, value), ~s.failed
  PROVE  /\ s.tasks = st.tasks /\ s.section = st.section /\ Len(s.current) = Len(st.current)
         /\ s.current[1].name = IF key = "name" THEN value ELSE st.current[1].name
         /\ s.current[1].task = IF key = "task" THEN value ELSE st.current[1].task
         /\ s.current[1].budget = IF key = "budget" THEN value ELSE st.current[1].budget
         /\ s.current[1].expect = st.current[1].expect /\ s.current[1].avoid = st.current[1].avoid
<1> DEFINE t == st.current[1]
<1>1. st.current \in Seq(Tasks(lines)) /\ 1 \in DOMAIN st.current /\ t \in Tasks(lines)
  <2>1. st.current \in Seq(Tasks(lines))
    BY ReaderFacts
  <2> QED BY <2>1
<1>2. DOMAIN st = {"tasks", "current", "section", "failed"}
  BY DEF Readers
<1>3. DOMAIN t = {"name", "task", "budget", "expect", "avoid"}
  BY <1>1 DEF Tasks
<1>4. ASSUME NEW u, s = [st EXCEPT !.current = [st.current EXCEPT ![1] = u]]
      PROVE  s.tasks = st.tasks /\ s.section = st.section /\ Len(s.current) = Len(st.current) /\ s.current[1] = u
  <2>1. s.current = [st.current EXCEPT ![1] = u]
    BY <1>2, <1>4
  <2>2. s.current[1] = u /\ Len(s.current) = Len(st.current)
    BY <1>1, <2>1
  <2> QED BY <1>2, <1>4, <2>2
<1> HIDE DEF t
<1>5. CASE key = "name"
  <2>1. s = [st EXCEPT !.current = [st.current EXCEPT ![1] = [t EXCEPT !.name = value]]]
    BY <1>5 DEF ApplyTaskField, t
  <2> DEFINE u == [t EXCEPT !.name = value]
  <2>2. s.tasks = st.tasks /\ s.section = st.section /\ Len(s.current) = Len(st.current) /\ s.current[1] = u
    BY <1>4, <2>1
  <2>3. /\ u.name = value /\ u.task = t.task /\ u.budget = t.budget
        /\ u.expect = t.expect /\ u.avoid = t.avoid
    BY <1>3
  <2> HIDE DEF u
  <2> QED BY <1>5, <2>2, <2>3 DEF t
<1>6. CASE key = "task"
  <2>1. s = [st EXCEPT !.current = [st.current EXCEPT ![1] = [t EXCEPT !.task = value]]]
    BY <1>6 DEF ApplyTaskField, t
  <2> DEFINE u == [t EXCEPT !.task = value]
  <2>2. s.tasks = st.tasks /\ s.section = st.section /\ Len(s.current) = Len(st.current) /\ s.current[1] = u
    BY <1>4, <2>1
  <2>3. /\ u.task = value /\ u.name = t.name /\ u.budget = t.budget
        /\ u.expect = t.expect /\ u.avoid = t.avoid
    BY <1>3
  <2> HIDE DEF u
  <2> QED BY <1>6, <2>2, <2>3 DEF t
<1>7. CASE key = "budget"
  <2>1. s = [st EXCEPT !.current = [st.current EXCEPT ![1] = [t EXCEPT !.budget = value]]]
    BY <1>7 DEF ApplyTaskField, t
  <2> DEFINE u == [t EXCEPT !.budget = value]
  <2>2. s.tasks = st.tasks /\ s.section = st.section /\ Len(s.current) = Len(st.current) /\ s.current[1] = u
    BY <1>4, <2>1
  <2>3. /\ u.budget = value /\ u.name = t.name /\ u.task = t.task
        /\ u.expect = t.expect /\ u.avoid = t.avoid
    BY <1>3
  <2> HIDE DEF u
  <2> QED BY <1>7, <2>2, <2>3 DEF t
<1>8. CASE key \notin {"name", "task", "budget"}
  <2>1. s = Failed(st)
    BY <1>8 DEF ApplyTaskField
  <2>2. Failed(st).failed
    BY <1>2 DEF Failed
  <2> QED BY <2>1, <2>2
<1> QED BY <1>5, <1>6, <1>7, <1>8

LEMMA ItemFacts ==
  ASSUME NEW lines, NEW st \in Readers(lines), NEW value \in Values(lines),
         NEW s, s = ReadItem(st, value), ~s.failed
  PROVE  /\ st.current # <<>> /\ st.section \in {"expect", "avoid"}
         /\ s.tasks = st.tasks /\ s.section = st.section /\ Len(s.current) = Len(st.current)
         /\ s.current[1].name = st.current[1].name /\ s.current[1].task = st.current[1].task
         /\ s.current[1].budget = st.current[1].budget
         /\ ToSet(s.current[1].expect)
              = ToSet(st.current[1].expect) \cup IF st.section = "expect" THEN {value} ELSE {}
         /\ ToSet(s.current[1].avoid)
              = ToSet(st.current[1].avoid) \cup IF st.section = "avoid" THEN {value} ELSE {}
<1> DEFINE t == st.current[1]
<1>1. DOMAIN st = {"tasks", "current", "section", "failed"}
  BY DEF Readers
<1>2. st.current # <<>> /\ st.section \in {"expect", "avoid"}
  <2>1. Failed(st).failed
    BY <1>1 DEF Failed
  <2> QED BY <2>1 DEF ReadItem
<1>3. st.current \in Seq(Tasks(lines)) /\ 1 \in DOMAIN st.current /\ t \in Tasks(lines)
  <2>1. st.current \in Seq(Tasks(lines))
    BY ReaderFacts
  <2> QED BY <1>2, <2>1
<1>4. /\ DOMAIN t = {"name", "task", "budget", "expect", "avoid"}
      /\ t.expect \in Seq(Values(lines)) /\ t.avoid \in Seq(Values(lines))
  BY <1>3 DEF Tasks
<1>5. ASSUME NEW u, s = [st EXCEPT !.current = [st.current EXCEPT ![1] = u]]
      PROVE  s.tasks = st.tasks /\ s.section = st.section /\ Len(s.current) = Len(st.current) /\ s.current[1] = u
  <2>1. s.current = [st.current EXCEPT ![1] = u]
    BY <1>1, <1>5
  <2>2. s.current[1] = u /\ Len(s.current) = Len(st.current)
    BY <1>3, <2>1
  <2> QED BY <1>1, <1>5, <2>2
<1>6. \A l \in Seq(Values(lines)) : ToSet(Append(l, value)) = ToSet(l) \cup {value}
  <2> SUFFICES ASSUME NEW l \in Seq(Values(lines)) PROVE ToSet(Append(l, value)) = ToSet(l) \cup {value}
    OBVIOUS
  <2>1. /\ DOMAIN Append(l, value) = 1 .. Len(l) + 1 /\ DOMAIN l = 1 .. Len(l) /\ Len(l) \in Nat
        /\ Append(l, value)[Len(l) + 1] = value
        /\ \A k \in 1 .. Len(l) : Append(l, value)[k] = l[k]
    OBVIOUS
  <2>2. 1 .. Len(l) + 1 = (1 .. Len(l)) \cup {Len(l) + 1}
    BY <2>1
  <2> QED BY <2>1, <2>2 DEF ToSet
<1> HIDE DEF t
<1>7. CASE st.section = "expect"
  <2>1. s = [st EXCEPT !.current = [st.current EXCEPT ![1] = [t EXCEPT !.expect = Append(t.expect, value)]]]
    BY <1>2, <1>7 DEF ReadItem, t
  <2> DEFINE u == [t EXCEPT !.expect = Append(t.expect, value)]
  <2>2. s.tasks = st.tasks /\ s.section = st.section /\ Len(s.current) = Len(st.current) /\ s.current[1] = u
    BY <1>5, <2>1
  <2>3. /\ u.name = t.name /\ u.task = t.task /\ u.budget = t.budget
        /\ u.expect = Append(t.expect, value) /\ u.avoid = t.avoid
    BY <1>4
  <2>4. ToSet(Append(t.expect, value)) = ToSet(t.expect) \cup {value}
    BY <1>4, <1>6
  <2> HIDE DEF u
  <2> QED BY <1>2, <1>7, <2>2, <2>3, <2>4 DEF t
<1>8. CASE st.section = "avoid"
  <2>1. s = [st EXCEPT !.current = [st.current EXCEPT ![1] = [t EXCEPT !.avoid = Append(t.avoid, value)]]]
    BY <1>2, <1>8 DEF ReadItem, t
  <2> DEFINE u == [t EXCEPT !.avoid = Append(t.avoid, value)]
  <2>2. s.tasks = st.tasks /\ s.section = st.section /\ Len(s.current) = Len(st.current) /\ s.current[1] = u
    BY <1>5, <2>1
  <2>3. /\ u.name = t.name /\ u.task = t.task /\ u.budget = t.budget
        /\ u.avoid = Append(t.avoid, value) /\ u.expect = t.expect
    BY <1>4
  <2>4. ToSet(Append(t.avoid, value)) = ToSet(t.avoid) \cup {value}
    BY <1>4, <1>6
  <2> HIDE DEF u
  <2> QED BY <1>2, <1>8, <2>2, <2>3, <2>4 DEF t
<1> QED BY <1>2, <1>7, <1>8

\* What a line that is no dash adds to the last task.
AddsTo(new, old, line, expected, avoided) ==
  /\ new.name = IF line.kind = "field" /\ line.key = "name" THEN line.value ELSE old.name
  /\ new.task = IF line.kind = "field" /\ line.key = "task" THEN line.value ELSE old.task
  /\ new.budget = IF line.kind = "field" /\ line.key = "budget" THEN line.value ELSE old.budget
  /\ new.expect = old.expect \cup expected
  /\ new.avoid = old.avoid \cup avoided

ItemUnder(P, l, n, line, key) ==
  IF line.kind = "item" /\ \E h \in Body(P, l) : P[h].key = key /\ Heads(P, l, h, n)
  THEN {line.value} ELSE {}

LEMMA LastGrows ==
  ASSUME NEW P, NEW Q, NEW n, Grows(P, Q, n), NEW l, IsLast(P, l), Q[n].kind # "dash"
  PROVE  AddsTo(AsWritten(Q, l), AsWritten(P, l), Q[n],
                ItemUnder(P, l, n, Q[n], "expect"), ItemUnder(P, l, n, Q[n], "avoid"))
<1>1. /\ ValueOf(Q, l, "name", NoName)
            = IF Q[n].kind = "field" /\ Q[n].key = "name" THEN Q[n].value ELSE ValueOf(P, l, "name", NoName)
      /\ ValueOf(Q, l, "task", NoName)
            = IF Q[n].kind = "field" /\ Q[n].key = "task" THEN Q[n].value ELSE ValueOf(P, l, "task", NoName)
      /\ ValueOf(Q, l, "budget", 0)
            = IF Q[n].kind = "field" /\ Q[n].key = "budget" THEN Q[n].value ELSE ValueOf(P, l, "budget", 0)
  BY LastLine
<1>2. ItemsOf(Q, l, "expect")
        = ItemsOf(P, l, "expect")
          \cup IF Q[n].kind = "item" /\ \E h \in Body(P, l) : P[h].key = "expect" /\ Heads(P, l, h, n)
               THEN {Q[n].value} ELSE {}
  BY LastLine
<1>3. ItemsOf(Q, l, "avoid")
        = ItemsOf(P, l, "avoid")
          \cup IF Q[n].kind = "item" /\ \E h \in Body(P, l) : P[h].key = "avoid" /\ Heads(P, l, h, n)
               THEN {Q[n].value} ELSE {}
  BY LastLine
<1> QED BY <1>1, <1>2, <1>3 DEF AsWritten, AddsTo, ItemUnder

LEMMA HeadsGrow ==
  ASSUME NEW P, NEW Q, NEW n, Grows(P, Q, n), NEW l, IsLast(P, l), Q[n].kind # "dash"
  PROVE  /\ Q[n].kind # "heading" => \A h \in Body(P, l) : Heads(P, l, h, n) =>
              h \in Body(Q, l) /\ Q[h] = P[h] /\ Heads(Q, l, h, n + 1)
         /\ Q[n].kind = "heading" => n \in Body(Q, l) /\ Heads(Q, l, n, n + 1)
<1> DEFINE B == Body(P, l)
<1>1. Body(Q, l) = B \cup {n} /\ B \subseteq 1 .. n - 1 /\ n \in Nat \ {0}
  BY BodyGrows
<1>2. \A k \in B : Q[k] = P[k] /\ k # n /\ k < n /\ k < n + 1 /\ k <= n
  BY <1>1 DEF Grows
<1>3. n < n + 1 /\ n <= n
  BY <1>1
<1> HIDE DEF B
<1>4. ASSUME Q[n].kind # "heading", NEW h \in B, Heads(P, l, h, n)
      PROVE  h \in Body(Q, l) /\ Q[h] = P[h] /\ Heads(Q, l, h, n + 1)
  <2>1. {i \in Body(Q, l) : Q[i].kind = "heading" /\ i < n + 1}
          = {i \in Body(P, l) : P[i].kind = "heading" /\ i < n}
    BY <1>1, <1>2, <1>4 DEF B
  <2>2. Heads(Q, l, h, n + 1)
    BY <1>4, <2>1 DEF Heads
  <2> QED BY <1>1, <1>2, <1>4, <2>2
<1>5. ASSUME Q[n].kind = "heading" PROVE n \in Body(Q, l) /\ Heads(Q, l, n, n + 1)
  BY <1>1, <1>2, <1>3, <1>5 DEF Heads
<1> QED BY <1>4, <1>5 DEF B

\* Of a line that is no dash only the last task knows.
LEMMA OthersStay ==
  ASSUME NEW P, NEW Q, NEW n, Grows(P, Q, n), Q[n].kind # "dash",
         NEW st, IsSoFar(st, P, n - 1), NEW s, s.tasks = st.tasks,
         Dashes(P) = {} => s.current = <<>>,
         \A l : IsLast(P, l) =>
           /\ Len(s.current) = 1 /\ Says(s.current[1], AsWritten(Q, l))
           /\ s.section \in {"expect", "avoid"} =>
                \E h \in Body(Q, l) : Q[h].key = s.section /\ Heads(Q, l, h, n + 1)
  PROVE  IsSoFar(s, Q, n)
<1>1. Dashes(Q) = Dashes(P)
  BY DashesGrow
<1>2. \A d : IsLast(Q, d) <=> IsLast(P, d)
  BY <1>1 DEF IsLast
<1>3. \A d \in Dashes(P) : TaskNumber(Q, d) = TaskNumber(P, d)
  BY NumbersGrow
<1>4. \A d \in Dashes(P) : ~IsLast(P, d) => AsWritten(Q, d) = AsWritten(P, d)
  BY BodyStays, SameBody
<1>5. Dashes(Q) = {} => s.tasks = <<>> /\ s.current = <<>>
  BY <1>1 DEF IsSoFar
<1>6. Dashes(Q) # {} => \E l : IsLast(Q, l)
  BY <1>1, <1>2 DEF IsSoFar
<1>7. \A l : IsLast(Q, l) =>
        /\ Len(s.current) = 1 /\ TaskNumber(Q, l) = Len(s.tasks) + 1
        /\ Says(s.current[1], AsWritten(Q, l))
        /\ s.section \in {"expect", "avoid"} =>
             \E h \in Body(Q, l) : Q[h].key = s.section /\ Heads(Q, l, h, n + 1)
  <2>1. \A l : IsLast(P, l) => l \in Dashes(P) /\ TaskNumber(P, l) = Len(st.tasks) + 1
    BY DEF IsSoFar, IsLast
  <2> QED BY <1>2, <1>3, <2>1
<1>8. \A d \in Dashes(Q) : ~IsLast(Q, d) =>
        TaskNumber(Q, d) \in 1 .. Len(s.tasks) /\ Says(s.tasks[TaskNumber(Q, d)], AsWritten(Q, d))
  <2>1. \A d \in Dashes(P) : ~IsLast(P, d) =>
          TaskNumber(P, d) \in 1 .. Len(st.tasks) /\ Says(st.tasks[TaskNumber(P, d)], AsWritten(P, d))
    BY DEF IsSoFar
  <2> QED BY <1>1, <1>2, <1>3, <1>4, <2>1
<1> QED BY <1>5, <1>6, <1>7, <1>8 DEF IsSoFar

LEMMA FieldIsRead ==
  ASSUME NEW lines, NEW P, NEW Q, NEW n, Grows(P, Q, n), Q[n].kind = "field",
         NEW st \in Readers(lines), IsSoFar(st, P, n - 1), NEW s, s = ReadField(st, Q[n]), ~s.failed
  PROVE  IsSoFar(s, Q, n)
<1> DEFINE left == [st EXCEPT !.section = NoName]
           line == Q[n]
<1>1. st.current # <<>>
  <2>1. Failed(st).failed
    BY DEF Failed, Readers
  <2> QED BY <2>1 DEF ReadField
<1>2. left \in Readers(lines)
  BY ReaderFacts
<1>3. left.current = st.current /\ left.tasks = st.tasks /\ left.section = NoName
  BY DEF Readers
<1>4. s = ApplyTaskField(left, line.key, line.value)
  BY <1>1 DEF ReadField
<1> HIDE DEF left, line
<1>5. s.tasks = left.tasks /\ s.section = left.section /\ Len(s.current) = Len(left.current)
  BY <1>1, <1>2, <1>3, <1>4, ApplyFacts
<1>6. /\ s.current[1].name = IF line.key = "name" THEN line.value ELSE st.current[1].name
      /\ s.current[1].task = IF line.key = "task" THEN line.value ELSE st.current[1].task
      /\ s.current[1].budget = IF line.key = "budget" THEN line.value ELSE st.current[1].budget
      /\ s.current[1].expect = st.current[1].expect /\ s.current[1].avoid = st.current[1].avoid
  BY <1>1, <1>2, <1>3, <1>4, ApplyFacts
<1>7. Dashes(P) # {}
  BY <1>1 DEF IsSoFar
<1>8. ASSUME NEW l, IsLast(P, l)
      PROVE  /\ Len(s.current) = 1 /\ Says(s.current[1], AsWritten(Q, l))
             /\ s.section \notin {"expect", "avoid"}
  <2>1. Len(st.current) = 1 /\ Says(st.current[1], AsWritten(P, l))
    BY <1>8 DEF IsSoFar
  <2> DEFINE old == AsWritten(P, l)
             new == AsWritten(Q, l)
  <2>2. /\ new.name = IF line.key = "name" THEN line.value ELSE old.name
        /\ new.task = IF line.key = "task" THEN line.value ELSE old.task
        /\ new.budget = IF line.key = "budget" THEN line.value ELSE old.budget
        /\ new.expect = old.expect /\ new.avoid = old.avoid
    <3>1. AddsTo(new, old, line, ItemUnder(P, l, n, line, "expect"), ItemUnder(P, l, n, line, "avoid"))
      BY <1>8, LastGrows DEF line
    <3>2. line.kind = "field"
      BY DEF line
    <3> HIDE DEF old, new
    <3> QED BY <3>1, <3>2 DEF AddsTo, ItemUnder
  <2> HIDE DEF old, new
  <2>3. Says(s.current[1], new)
    BY <1>6, <2>1, <2>2 DEF Says, old
  <2> QED BY <1>3, <1>5, <2>1, <2>3 DEF new, NoName
<1> QED BY <1>3, <1>5, <1>7, <1>8, OthersStay

LEMMA ItemIsRead ==
  ASSUME NEW lines, NEW P, NEW Q, NEW n, Grows(P, Q, n), Q[n].kind = "item", Q[n].value \in Values(lines),
         NEW st \in Readers(lines), IsSoFar(st, P, n - 1), NEW s, s = ReadItem(st, Q[n].value), ~s.failed
  PROVE  IsSoFar(s, Q, n)
<1> DEFINE value == Q[n].value
<1>1. st.current # <<>> /\ st.section \in {"expect", "avoid"}
  BY ItemFacts
<1>2. s.tasks = st.tasks /\ s.section = st.section /\ Len(s.current) = Len(st.current)
  BY ItemFacts
<1>3. /\ s.current[1].name = st.current[1].name /\ s.current[1].task = st.current[1].task
      /\ s.current[1].budget = st.current[1].budget
  BY ItemFacts
<1>4. /\ ToSet(s.current[1].expect)
            = ToSet(st.current[1].expect) \cup IF st.section = "expect" THEN {value} ELSE {}
      /\ ToSet(s.current[1].avoid)
            = ToSet(st.current[1].avoid) \cup IF st.section = "avoid" THEN {value} ELSE {}
  <2>1. ToSet(s.current[1].expect)
          = ToSet(st.current[1].expect) \cup IF st.section = "expect" THEN {value} ELSE {}
    BY ItemFacts
  <2>2. ToSet(s.current[1].avoid)
          = ToSet(st.current[1].avoid) \cup IF st.section = "avoid" THEN {value} ELSE {}
    BY ItemFacts
  <2> QED BY <2>1, <2>2
<1> HIDE DEF value
<1>5. Dashes(P) # {}
  BY <1>1 DEF IsSoFar
<1>6. ASSUME NEW l, IsLast(P, l)
      PROVE  /\ Len(s.current) = 1 /\ Says(s.current[1], AsWritten(Q, l))
             /\ \E h \in Body(Q, l) : Q[h].key = s.section /\ Heads(Q, l, h, n + 1)
  <2>1. Len(st.current) = 1 /\ Says(st.current[1], AsWritten(P, l))
    BY <1>6 DEF IsSoFar
  <2>2. PICK h \in Body(P, l) : P[h].key = st.section /\ Heads(P, l, h, n)
    <3>1. (n - 1) + 1 = n
      BY DEF Grows
    <3> QED BY <1>1, <1>6, <3>1 DEF IsSoFar
  <2>3. h \in Body(Q, l) /\ Q[h] = P[h] /\ Heads(Q, l, h, n + 1)
    BY <1>6, <2>2, HeadsGrow
  <2> DEFINE under(key) == \E i \in Body(P, l) : P[i].key = key /\ Heads(P, l, i, n)
             old == AsWritten(P, l)
             new == AsWritten(Q, l)
  <2>4. \A key : under(key) <=> key = st.section
    <3>1. \A i : Heads(P, l, i, n) => i = h
      <4>1. \A i \in Body(P, l) : i \in Int
        BY DEF Body, Grows
      <4>2. ASSUME NEW i, Heads(P, l, i, n) PROVE i <= h /\ h <= i /\ i \in Body(P, l)
        BY <2>2, <4>2 DEF Heads
      <4> QED BY <4>1, <4>2
    <3> QED BY <2>2, <3>1
  <2>5. /\ new.name = old.name /\ new.task = old.task /\ new.budget = old.budget
        /\ new.expect = old.expect \cup IF under("expect") THEN {value} ELSE {}
        /\ new.avoid = old.avoid \cup IF under("avoid") THEN {value} ELSE {}
    <3> DEFINE e == ItemUnder(P, l, n, Q[n], "expect")
               a == ItemUnder(P, l, n, Q[n], "avoid")
    <3>1. AddsTo(new, old, Q[n], e, a)
      BY <1>6, LastGrows
    <3>2. /\ Q[n].kind = "item" /\ e = IF under("expect") THEN {value} ELSE {}
          /\ a = IF under("avoid") THEN {value} ELSE {}
      BY DEF ItemUnder, value
    <3> HIDE DEF old, new, e, a, under
    <3> QED BY <3>1, <3>2 DEF AddsTo
  <2> HIDE DEF old, new, under
  <2>6. Says(s.current[1], new)
    BY <1>3, <1>4, <2>1, <2>4, <2>5 DEF Says, old
  <2> QED BY <1>2, <2>1, <2>2, <2>3, <2>6 DEF new
<1> QED BY <1>2, <1>5, <1>6, OthersStay

LEMMA HeadingIsRead ==
  ASSUME NEW lines, NEW P, NEW Q, NEW n, Grows(P, Q, n), Q[n].kind = "heading",
         NEW st \in Readers(lines), IsSoFar(st, P, n - 1), st.current # <<>>,
         NEW s, s = [st EXCEPT !.section = Q[n].key]
  PROVE  IsSoFar(s, Q, n)
<1>1. s.current = st.current /\ s.tasks = st.tasks /\ s.section = Q[n].key
  BY DEF Readers
<1>2. Dashes(P) # {}
  BY DEF IsSoFar
<1>3. ASSUME NEW l, IsLast(P, l)
      PROVE  /\ Len(s.current) = 1 /\ Says(s.current[1], AsWritten(Q, l))
             /\ \E h \in Body(Q, l) : Q[h].key = s.section /\ Heads(Q, l, h, n + 1)
  <2>1. Len(st.current) = 1 /\ Says(st.current[1], AsWritten(P, l))
    BY <1>3 DEF IsSoFar
  <2>2. n \in Body(Q, l) /\ Heads(Q, l, n, n + 1)
    BY <1>3, HeadsGrow
  <2> DEFINE old == AsWritten(P, l)
             new == AsWritten(Q, l)
  <2>3. /\ new.name = old.name /\ new.task = old.task /\ new.budget = old.budget
        /\ new.expect = old.expect /\ new.avoid = old.avoid
    <3> DEFINE e == ItemUnder(P, l, n, Q[n], "expect")
               a == ItemUnder(P, l, n, Q[n], "avoid")
    <3>1. AddsTo(new, old, Q[n], e, a)
      BY <1>3, LastGrows
    <3>2. e = {} /\ a = {} /\ Q[n].kind = "heading"
      BY DEF ItemUnder
    <3> HIDE DEF old, new, e, a
    <3> QED BY <3>1, <3>2 DEF AddsTo
  <2> HIDE DEF old, new
  <2>4. Says(s.current[1], new)
    BY <1>1, <2>1, <2>3 DEF Says, old
  <2> QED BY <1>1, <2>1, <2>2, <2>4 DEF new
<1> QED BY <1>1, <1>2, <1>3, OthersStay

LEMMA BlankIsRead ==
  ASSUME NEW P, NEW Q, NEW n, Grows(P, Q, n), Q[n].kind = "blank", NEW st, IsSoFar(st, P, n - 1)
  PROVE  IsSoFar(st, Q, n)
<1>1. ASSUME NEW l, IsLast(P, l)
      PROVE  /\ Len(st.current) = 1 /\ Says(st.current[1], AsWritten(Q, l))
             /\ st.section \in {"expect", "avoid"} =>
                  \E h \in Body(Q, l) : Q[h].key = st.section /\ Heads(Q, l, h, n + 1)
  <2>1. Len(st.current) = 1 /\ Says(st.current[1], AsWritten(P, l))
    BY <1>1 DEF IsSoFar
  <2>2. st.section \in {"expect", "avoid"} =>
          \E h \in Body(P, l) : P[h].key = st.section /\ Heads(P, l, h, n)
    <3>1. (n - 1) + 1 = n
      BY DEF Grows
    <3> QED BY <1>1, <3>1 DEF IsSoFar
  <2>3. \A h \in Body(P, l) : Heads(P, l, h, n) => h \in Body(Q, l) /\ Q[h] = P[h] /\ Heads(Q, l, h, n + 1)
    BY <1>1, HeadsGrow
  <2> DEFINE old == AsWritten(P, l)
             new == AsWritten(Q, l)
  <2>4. /\ new.name = old.name /\ new.task = old.task /\ new.budget = old.budget
        /\ new.expect = old.expect /\ new.avoid = old.avoid
    <3> DEFINE e == ItemUnder(P, l, n, Q[n], "expect")
               a == ItemUnder(P, l, n, Q[n], "avoid")
    <3>1. AddsTo(new, old, Q[n], e, a)
      BY <1>1, LastGrows
    <3>2. e = {} /\ a = {} /\ Q[n].kind = "blank"
      BY DEF ItemUnder
    <3> HIDE DEF old, new, e, a
    <3> QED BY <3>1, <3>2 DEF AddsTo
  <2> HIDE DEF old, new
  <2>5. Says(st.current[1], new)
    BY <2>1, <2>4 DEF Says, old
  <2> QED BY <2>1, <2>2, <2>3, <2>5 DEF new
<1>2. Dashes(P) = {} => st.current = <<>>
  BY DEF IsSoFar
<1> QED BY <1>1, <1>2, OthersStay

LEMMA LastNumber ==
  ASSUME NEW P, NEW l, IsLast(P, l)
  PROVE  TaskNumber(P, l) = Cardinality(Dashes(P))
<1>1. {e \in Dashes(P) : e <= l} = Dashes(P)
  BY DEF IsLast
<1> QED BY <1>1 DEF TaskNumber

\* The tasks that the reader holds are those of the dashes, in their order.
LEMMA AllTasks ==
  ASSUME NEW lines, NEW st \in Readers(lines), NEW P, NEW n, IsSoFar(st, P, n), Dashes(P) \subseteq Nat
  PROVE  LET all == st.tasks \o st.current
         IN  /\ Len(all) = Cardinality(Dashes(P))
             /\ \A d \in Dashes(P) :
                  TaskNumber(P, d) \in 1 .. Len(all) /\ Says(all[TaskNumber(P, d)], AsWritten(P, d))
<1> DEFINE all == st.tasks \o st.current
<1>0. st.tasks \in Seq(Tasks(lines)) /\ st.current \in Seq(Tasks(lines))
  BY ReaderFacts
<1> DEFINE Goal == /\ Len(all) = Cardinality(Dashes(P))
                   /\ \A d \in Dashes(P) : TaskNumber(P, d) \in 1 .. Len(all)
                                             /\ Says(all[TaskNumber(P, d)], AsWritten(P, d))
<1> SUFFICES Goal
  OBVIOUS
<1> HIDE DEF all
<1>1. CASE Dashes(P) = {}
  <2>1. st.tasks = <<>> /\ st.current = <<>>
    BY <1>1 DEF IsSoFar
  <2>2. Len(all) = 0
    BY <2>1 DEF all
  <2> QED BY <1>1, <2>2, FS_EmptySet
<1>2. CASE Dashes(P) # {}
  <2>1. PICK l : IsLast(P, l)
    BY <1>2 DEF IsSoFar
  <2>2. /\ Len(st.current) = 1 /\ TaskNumber(P, l) = Len(st.tasks) + 1
        /\ Says(st.current[1], AsWritten(P, l))
    BY <2>1 DEF IsSoFar
  <2>3. /\ Len(all) = Len(st.tasks) + 1 /\ Len(st.tasks) \in Nat
        /\ \A k \in 1 .. Len(st.tasks) : all[k] = st.tasks[k]
        /\ all[Len(st.tasks) + 1] = st.current[1]
    <3> DEFINE u == st.tasks
               v == st.current
    <3>1. u \in Seq(Tasks(lines)) /\ v \in Seq(Tasks(lines)) /\ Len(v) = 1
      BY <1>0, <2>2
    <3> HIDE DEF u, v
    <3>2. /\ Len(u \o v) = Len(u) + 1 /\ Len(u) \in Nat
          /\ \A k \in 1 .. Len(u) : (u \o v)[k] = u[k]
          /\ (u \o v)[Len(u) + 1] = v[1]
      <4>1. /\ Len(u \o v) = Len(u) + Len(v) /\ Len(u) \in Nat
            /\ \A k \in 1 .. Len(u) + Len(v) :
                 (u \o v)[k] = IF k <= Len(u) THEN u[k] ELSE v[k - Len(u)]
        <5>1. Len(u \o v) = Len(u) + Len(v)
          BY <3>1, ConcatProperties
        <5>2. \A k \in 1 .. Len(u) + Len(v) :
                (u \o v)[k] = IF k <= Len(u) THEN u[k] ELSE v[k - Len(u)]
          BY <3>1, ConcatProperties
        <5>3. Len(u) \in Nat
          BY <3>1
        <5> QED BY <5>1, <5>2, <5>3
      <4>2. \A k \in 1 .. Len(u) : k \in 1 .. Len(u) + Len(v) /\ k <= Len(u)
        BY <3>1, <4>1
      <4>3. Len(u) + 1 \in 1 .. Len(u) + Len(v) /\ ~(Len(u) + 1 <= Len(u)) /\ (Len(u) + 1) - Len(u) = 1
        BY <3>1, <4>1
      <4> QED BY <3>1, <4>1, <4>2, <4>3
    <3> QED BY <3>2 DEF u, v, all
  <2>4. TaskNumber(P, l) = Cardinality(Dashes(P))
    BY <2>1, LastNumber
  <2>5. \A d \in Dashes(P) : IsLast(P, d) => d = l
    BY <2>1 DEF IsLast
  <2>6. \A d \in Dashes(P) : ~IsLast(P, d) =>
          TaskNumber(P, d) \in 1 .. Len(st.tasks) /\ Says(st.tasks[TaskNumber(P, d)], AsWritten(P, d))
    BY DEF IsSoFar
  <2> QED BY <2>2, <2>3, <2>4, <2>5, <2>6
<1> QED BY <1>1, <1>2

LEMMA DashIsRead ==
  ASSUME NEW lines, NEW P, NEW Q, NEW n, Grows(P, Q, n), Q[n].kind = "dash",
         NEW st \in Readers(lines), IsSoFar(st, P, n - 1), NEW s, s = ReadDash(st, Q[n]), ~s.failed
  PROVE  IsSoFar(s, Q, n)
<1> DEFINE all == st.tasks \o st.current
           begun == [st EXCEPT !.tasks = all, !.current = <<NoTask>>, !.section = NoName]
           line == Q[n]
<1>1. st.tasks \in Seq(Tasks(lines)) /\ st.current \in Seq(Tasks(lines))
  BY ReaderFacts
<1>2. NoTask \in Tasks(lines)
  BY DEF NoTask, Tasks, Values, TextsOf, Budgets
<1>3. all \in Seq(Tasks(lines)) /\ <<NoTask>> \in Seq(Tasks(lines)) /\ <<NoTask>> # <<>>
  <2>1. all \in Seq(Tasks(lines))
    BY <1>1
  <2>2. <<NoTask>> \in Seq(Tasks(lines)) /\ <<NoTask>> # <<>>
    BY <1>2
  <2> QED BY <2>1, <2>2
<1> HIDE DEF all, line
<1>4. /\ begun \in Readers(lines) /\ begun.tasks = all /\ begun.current = <<NoTask>>
      /\ begun.section = NoName
  BY <1>3 DEF Readers
<1>5. s = ApplyTaskField(begun, line.key, line.value)
  BY DEF ReadDash, all, line
<1> HIDE DEF begun
<1>6. s.tasks = all /\ s.section = NoName /\ Len(s.current) = 1
  <2>1. begun \in Readers(lines) /\ begun.current # <<>>
    BY <1>3, <1>4
  <2>2. s.tasks = begun.tasks /\ s.section = begun.section /\ Len(s.current) = Len(begun.current)
    BY <1>5, <2>1, ApplyFacts
  <2>3. Len(<<NoTask>>) = 1
    OBVIOUS
  <2> QED BY <1>4, <2>2, <2>3
<1>7. /\ s.current[1].name = IF line.key = "name" THEN line.value ELSE NoTask.name
      /\ s.current[1].task = IF line.key = "task" THEN line.value ELSE NoTask.task
      /\ s.current[1].budget = IF line.key = "budget" THEN line.value ELSE NoTask.budget
      /\ s.current[1].expect = NoTask.expect /\ s.current[1].avoid = NoTask.avoid
  <2>1. begun.current[1] = NoTask /\ begun.current # <<>>
    BY <1>3, <1>4
  <2>2. begun \in Readers(lines)
    BY <1>4
  <2>3. s.current[1].name = IF line.key = "name" THEN line.value ELSE begun.current[1].name
    BY <1>5, <2>1, <2>2, ApplyFacts
  <2>4. s.current[1].task = IF line.key = "task" THEN line.value ELSE begun.current[1].task
    BY <1>5, <2>1, <2>2, ApplyFacts
  <2>5. s.current[1].budget = IF line.key = "budget" THEN line.value ELSE begun.current[1].budget
    BY <1>5, <2>1, <2>2, ApplyFacts
  <2>6. s.current[1].expect = begun.current[1].expect /\ s.current[1].avoid = begun.current[1].avoid
    BY <1>5, <2>1, <2>2, ApplyFacts
  <2> QED BY <2>1, <2>3, <2>4, <2>5, <2>6
<1>8. IsLast(Q, n) /\ n \in Nat \ {0} /\ Dashes(P) \subseteq 1 .. n - 1 /\ Dashes(Q) = Dashes(P) \cup {n}
  BY NewTask, DashesGrow DEF line
<1>9. \A d : IsLast(Q, d) => d = n
  BY <1>8 DEF IsLast
<1>10. Says(s.current[1], AsWritten(Q, n))
  <2>1. /\ ValueOf(Q, n, "name", NoName) = IF line.key = "name" THEN line.value ELSE NoName
        /\ ValueOf(Q, n, "task", NoName) = IF line.key = "task" THEN line.value ELSE NoName
        /\ ValueOf(Q, n, "budget", 0) = IF line.key = "budget" THEN line.value ELSE 0
    BY NewTask DEF line
  <2>2. ItemsOf(Q, n, "expect") = {} /\ ItemsOf(Q, n, "avoid") = {}
    BY NewTask
  <2>3. ToSet(<<>>) = {}
    BY DEF ToSet
  <2> QED BY <1>7, <2>1, <2>2, <2>3 DEF Says, AsWritten, NoTask
\* The task that was the last joins the others.
<1>11. /\ Len(all) = Cardinality(Dashes(P))
       /\ \A d \in Dashes(P) : TaskNumber(P, d) \in 1 .. Len(all) /\ Says(all[TaskNumber(P, d)], AsWritten(P, d))
  <2>1. Dashes(P) \subseteq Nat
    BY <1>8
  <2>2. Len(all) = Cardinality(Dashes(P))
    BY <2>1, AllTasks DEF all
  <2>3. \A d \in Dashes(P) : TaskNumber(P, d) \in 1 .. Len(all) /\ Says(all[TaskNumber(P, d)], AsWritten(P, d))
    BY <2>1, AllTasks DEF all
  <2> QED BY <2>2, <2>3
<1>12. TaskNumber(Q, n) = Cardinality(Dashes(P)) + 1
  BY NumbersGrow DEF line
<1>13. \A d \in Dashes(P) : TaskNumber(Q, d) = TaskNumber(P, d) /\ AsWritten(Q, d) = AsWritten(P, d)
  BY NumbersGrow, BodyStays, SameBody
<1>14. \A d \in Dashes(Q) : ~IsLast(Q, d) =>
         TaskNumber(Q, d) \in 1 .. Len(s.tasks) /\ Says(s.tasks[TaskNumber(Q, d)], AsWritten(Q, d))
  BY <1>6, <1>8, <1>11, <1>13
<1>15. s.section \notin {"expect", "avoid"}
  BY <1>6 DEF NoName
<1>16. \A l : IsLast(Q, l) =>
         /\ Len(s.current) = 1 /\ TaskNumber(Q, l) = Len(s.tasks) + 1
         /\ Says(s.current[1], AsWritten(Q, l))
  BY <1>6, <1>9, <1>10, <1>11, <1>12
<1> QED BY <1>8, <1>14, <1>15, <1>16 DEF IsSoFar

LEMMA LineIsRead ==
  ASSUME NEW lines, IsFile(lines), NEW n \in 1 .. Len(lines), NEW P, NEW Q, Grows(P, Q, n), Q[n] = lines[n],
         NEW st \in Readers(lines), ~st.failed => IsSoFar(st, P, n - 1),
         NEW s, s = ReadLine(st, lines[n]), ~s.failed
  PROVE  IsSoFar(s, Q, n)
<1> DEFINE line == Q[n]
<1>1. ~st.failed /\ IsSoFar(st, P, n - 1)
  BY DEF ReadLine
<1>2. /\ line.kind \in {"blank", "dash", "item", "heading", "field", "junk"}
      /\ line.value \in Values(lines)
  BY DEF IsFile, IsList, Values
<1>3. Failed(st).failed
  BY DEF Failed, Readers
<1> HIDE DEF line
<1>4. s = ReadLine(st, line)
  BY DEF line
<1>5. CASE line.kind = "blank"
  <2>1. s = st
    BY <1>1, <1>4, <1>5 DEF ReadLine
  <2> QED BY <1>1, <1>5, <2>1, BlankIsRead DEF line
<1>6. CASE line.kind = "dash"
  <2>1. s = ReadDash(st, line)
    BY <1>1, <1>4, <1>6 DEF ReadLine
  <2> QED BY <1>1, <1>6, <2>1, DashIsRead DEF line
<1>7. CASE line.kind = "item"
  <2>1. s = ReadItem(st, line.value)
    BY <1>1, <1>4, <1>7 DEF ReadLine
  <2> QED BY <1>1, <1>2, <1>7, <2>1, ItemIsRead DEF line
<1>8. CASE line.kind = "heading"
  <2>1. s = [st EXCEPT !.section = line.key] /\ st.current # <<>>
    BY <1>1, <1>3, <1>4, <1>8 DEF ReadLine
  <2> QED BY <1>1, <1>8, <2>1, HeadingIsRead DEF line
<1>9. CASE line.kind = "field"
  <2>1. s = ReadField(st, line)
    BY <1>1, <1>4, <1>9 DEF ReadLine
  <2> QED BY <1>1, <1>9, <2>1, FieldIsRead DEF line
<1>10. CASE line.kind = "junk"
  BY <1>1, <1>3, <1>4, <1>10 DEF ReadLine
<1> QED BY <1>2, <1>5, <1>6, <1>7, <1>8, <1>9, <1>10

\* A file that is not refused has the tasks that its lines say, one for every
\* dash, and each with all that is said of it.
LEMMA FileSays ==
  ASSUME NEW lines, IsFile(lines), ~ParseTasks(lines).failed
  PROVE  /\ Len(ParseTasks(lines).tasks) = Cardinality(Dashes(lines))
         /\ \A d \in Dashes(lines) :
              /\ TaskNumber(lines, d) \in 1 .. Len(ParseTasks(lines).tasks)
              /\ Says(ParseTasks(lines).tasks[TaskNumber(lines, d)], AsWritten(lines, d))
<1> DEFINE N == Len(lines)
           Prefix(n) == [k \in 1 .. n |-> lines[k]]
<1>1. PICK read : IsReading(read, lines)
  BY FileIsRead
<1>2. N \in Nat /\ lines = Prefix(N) /\ DOMAIN lines = 1 .. N
  BY DEF IsFile, IsList
<1>3. /\ \A n \in 0 .. N : read[n] \in Readers(lines)
      /\ read[0] = Start /\ \A n \in 1 .. N : read[n] = ReadLine(read[n - 1], lines[n])
  BY <1>1 DEF IsReading
<1>4. ~read[N].failed /\ ParseTasks(lines).tasks = read[N].tasks \o read[N].current
  BY <1>1 DEF IsReading
<1>5. \A n \in 1 .. N : Grows(Prefix(n - 1), Prefix(n), n) /\ Prefix(n)[n] = lines[n]
  BY <1>2 DEF Grows
<1>6. IsSoFar(Start, Prefix(0), 0)
  <2>1. Dashes(Prefix(0)) = {}
    BY DEF Dashes
  <2> QED BY <2>1 DEF IsSoFar, IsLast, Start
<1> HIDE DEF N, Prefix
<1> DEFINE Wrong == {n \in 0 .. N : ~read[n].failed /\ ~IsSoFar(read[n], Prefix(n), n)}
<1>7. Wrong = {}
  <2> SUFFICES ASSUME Wrong # {} PROVE FALSE
    OBVIOUS
  <2>1. PICK n \in Wrong : \A k \in Wrong : n <= k
    <3>1. Wrong \in SUBSET Nat
      OBVIOUS
    <3> QED BY <3>1, LeastNat
  <2>2. n # 0
    BY <1>3, <1>6, <2>1
  <2>3. n \in 1 .. N /\ n - 1 \in 0 .. N /\ ~(n <= n - 1)
    BY <1>2, <2>1, <2>2
  <2>4. ~read[n - 1].failed => IsSoFar(read[n - 1], Prefix(n - 1), n - 1)
    BY <2>1, <2>3
  <2>5. read[n - 1] \in Readers(lines) /\ read[n] = ReadLine(read[n - 1], lines[n]) /\ ~read[n].failed
    BY <1>3, <2>1, <2>3
  <2>6. Grows(Prefix(n - 1), Prefix(n), n) /\ Prefix(n)[n] = lines[n]
    BY <1>5, <2>3
  <2>7. IsSoFar(read[n], Prefix(n), n)
    BY <2>3, <2>4, <2>5, <2>6, LineIsRead DEF N
  <2> QED BY <2>1, <2>7
<1>8. read[N] \in Readers(lines) /\ IsSoFar(read[N], lines, N)
  <2>1. N \in 0 .. N
    BY <1>2
  <2> QED BY <1>2, <1>3, <1>4, <1>7, <2>1
<1>9. Dashes(lines) \subseteq Nat
  BY <1>2 DEF Dashes
<1> DEFINE all == read[N].tasks \o read[N].current
<1>10. Len(all) = Cardinality(Dashes(lines))
  BY <1>8, <1>9, AllTasks
<1>11. \A d \in Dashes(lines) : TaskNumber(lines, d) \in 1 .. Len(all) /\ Says(all[TaskNumber(lines, d)], AsWritten(lines, d))
  BY <1>8, <1>9, AllTasks
<1> QED BY <1>4, <1>10, <1>11

-----------------------------------------------------------------------------
(* The baselines of a run.                                                  *)

\* A run's tasks are those of its task file, and results have fair baselines.
BInv ==
  /\ opt \in Invocations
  /\ tasks \in Seq(Tasks(opt.lines))
  /\ BaselineIsFair

\* The budget of a task is never negative, whatever the file says.
LEMMA BudgetType ==
  ASSUME opt \in Invocations, NEW t \in Tasks(opt.lines)
  PROVE  TaskBudget(t) \in Nat
<1>1. opt.budget \in Int /\ opt.cfgBudget \in Int /\ t.budget \in Int
  BY InvocationsAssumption DEF Tasks, Budgets, IsFile
<1> QED BY <1>1 DEF TaskBudget, DefaultBudget

LEMMA ResultIsFair ==
  ASSUME opt \in Invocations, NEW t \in Tasks(opt.lines)
  PROVE  LET r == Result(t)
             chosen == r.baselines.files
         IN  /\ Sum(chosen) <= r.budget \/ Len(chosen) = 1
             /\ \A f \in ToSet(Lexical(r.task)) \ ToSet(chosen) : Sum(chosen) + f.tokens > r.budget
<1> DEFINE budget == TaskBudget(t)
           scored == Lexical(t.task)
           st == LexicalBudgetBaseline(t, budget)
<1>1. budget \in Nat
  BY BudgetType
<1>2. IsCharged(scored)
  BY LexicalAssumption DEF Tasks
<1>3. Result(t).budget = budget /\ Result(t).task = t.task /\ Result(t).baselines.files = st.files
  BY DEF Result, Baselines
<1>4. IsFairSoFar(st, scored, budget, Len(scored))
  BY <1>1, <1>2, LexicalIsFair
<1>5. \A f \in ToSet(scored) : \E k \in 1 .. Len(scored) : f = scored[k]
  BY <1>2 DEF ToSet, IsCharged, IsList
<1> HIDE DEF budget, scored, st
<1>6. Sum(st.files) <= budget \/ Len(st.files) = 1
  BY <1>4 DEF IsFairSoFar
<1>7. \A f \in ToSet(scored) \ ToSet(st.files) : Sum(st.files) + f.tokens > budget
  BY <1>4, <1>5 DEF IsFairSoFar
<1> QED BY <1>3, <1>6, <1>7 DEF scored

LEMMA InitBInv == Init => BInv
BY DEF Init, BInv, BaselineIsFair

LEMMA StepBInv == IInv /\ BInv /\ [Next]_vars => BInv'
<1> SUFFICES ASSUME IInv, BInv, [Next]_vars PROVE BInv'
  OBVIOUS
<1>1. CASE Begin
  BY <1>1 DEF Begin, BInv, BaselineIsFair
<1>2. CASE Parse
  <2>1. CASE Fail
    BY <2>1 DEF Fail, BInv, BaselineIsFair
  <2>2. CASE ~Fail
    <3>1. tasks' = ParseTasks(opt.lines).tasks /\ pc' = "tasks" /\ UNCHANGED <<opt, results, exit>> /\ pc = "parse"
      BY <1>2, <2>2 DEF Parse
    <3>2. IsFile(opt.lines)
      BY InvocationsAssumption DEF BInv
    <3>3. tasks' \in Seq(Tasks(opt.lines))
      BY <3>1, <3>2, ParsedTasks
    <3> QED BY <3>1, <3>3 DEF BInv, BaselineIsFair
  <2> QED BY <2>1, <2>2
<1>3. CASE RunTask
  <2> DEFINE t == tasks[Len(results) + 1]
  <2>1. /\ results' = Append(results, Result(t)) /\ UNCHANGED <<opt, tasks, pc, exit>>
        /\ Len(results) < Len(tasks)
    BY <1>3 DEF RunTask
  <2>2. IsSeq(results) /\ Len(results) \in Nat
    BY AppendFacts DEF IInv, Progress
  <2>3. t \in Tasks(opt.lines) /\ opt \in Invocations
    <3>1. Len(results) + 1 \in 1 .. Len(tasks) /\ tasks \in Seq(Tasks(opt.lines))
      BY <2>1, <2>2 DEF BInv
    <3> QED BY <3>1 DEF BInv
  <2> HIDE DEF t
  <2>4. /\ DOMAIN results = 1 .. Len(results) /\ DOMAIN results' = 1 .. Len(results) + 1
        /\ \A j \in DOMAIN results : results'[j] = results[j]
        /\ results'[Len(results) + 1] = Result(t)
    BY <2>1, <2>2, AppendFacts
  <2>5. \A j \in DOMAIN results' : j \in DOMAIN results \/ results'[j] = Result(t)
    BY <2>2, <2>4
  <2>6. BaselineIsFair'
    BY <2>3, <2>4, <2>5, ResultIsFair DEF BInv, BaselineIsFair
  <2> QED BY <2>1, <2>6 DEF BInv
<1>4. CASE Abort
  BY <1>4 DEF Abort, Fail, BInv, BaselineIsFair
<1>5. CASE WriteSummary
  BY <1>5 DEF WriteSummary, BInv, BaselineIsFair
<1>6. CASE SummaryFails
  BY <1>6 DEF SummaryFails, Fail, BInv, BaselineIsFair
<1>7. CASE Exit
  BY <1>7 DEF Exit, BInv, BaselineIsFair
<1>8. CASE Finished \/ UNCHANGED vars
  BY <1>8 DEF Finished, vars, BInv, BaselineIsFair
<1> QED BY <1>1, <1>2, <1>3, <1>4, <1>5, <1>6, <1>7, <1>8 DEF Next

\* The lexical baseline of every task keeps to the task's budget, unless its first
\* file alone does not, and passes by no file that would still fit.
THEOREM FairBaseline == Spec => []BaselineIsFair
<1>1. BInv => BaselineIsFair
  BY DEF BInv
<1> QED BY Invariance, InitBInv, StepBInv, <1>1, PTL DEF Spec

-----------------------------------------------------------------------------
(* The verdicts of a run.                                                   *)

\* A result is what the criteria say of the task of the dash at d.
IsSound(o, r, d) ==
  LET written == AsWritten(o.lines, d)
      out     == Outcome(written.task, r.budget, IF o.cfgTests = "unset" THEN o.tests ELSE o.cfgTests)
  IN  /\ r.name = NameOf(written) /\ r.task = written.task
      /\ written.budget > 0 => r.budget = written.budget
      /\ Len(out.files) <= TopLimit =>
           (r.passed <=> MeetsCriteria(written, out.files, out.tokens, r.budget))
      /\ r.passed => \A e \in written.expect : \E f \in ToSet(out.files) : Match(e, f)

\* A run that has tasks has those of its file.
VInv ==
  /\ opt \in Invocations
  /\ pc \in {"tasks", "exit"} \/ exit \in {"ok", "benchmark failed"} =>
       ~ParseTasks(opt.lines).failed /\ tasks = ParseTasks(opt.lines).tasks
  /\ \A d \in Dashes(opt.lines) :
       TaskNumber(opt.lines, d) \in DOMAIN results => IsSound(opt, results[TaskNumber(opt.lines, d)], d)

LEMMA PassedIs ==
  ASSUME NEW t, NEW w, Says(t, w), NEW budget, NEW shown, NEW tokens
  PROVE  Passed(t, budget, shown, tokens) <=> MeetsCriteria(w, shown, tokens, budget)
<1>1. ToSet(t.expect) = w.expect /\ ToSet(t.avoid) = w.avoid
  BY DEF Says
<1>2. MissingExpected(t, shown) = {} <=> \A e \in w.expect : \E k \in DOMAIN shown : Match(e, shown[k])
  BY <1>1 DEF MissingExpected, IsMatched
<1>3. \A f : MatchAny(t.avoid, f) <=> \E a \in w.avoid : Match(a, f)
  BY <1>1 DEF MatchAny, ToSet
<1>4. AvoidHits(t, shown) = {} <=> \A a \in w.avoid : \A k \in DOMAIN shown : ~Match(a, shown[k])
  BY <1>3 DEF AvoidHits, ToSet
<1> QED BY <1>2, <1>4 DEF Passed, Judged, MeetsCriteria

LEMMA TopFacts ==
  ASSUME NEW shown, IsList(shown)
  PROVE  LET top == SubSeq(shown, 1, IF Len(shown) < TopLimit THEN Len(shown) ELSE TopLimit)
         IN  /\ Len(shown) <= TopLimit => top = shown
             /\ \A k \in DOMAIN top : top[k] \in ToSet(shown)
<1> DEFINE m == IF Len(shown) < TopLimit THEN Len(shown) ELSE TopLimit
           top == SubSeq(shown, 1, m)
<1>1. /\ Len(shown) \in Nat /\ DOMAIN shown = 1 .. Len(shown) /\ m \in 0 .. Len(shown)
      /\ Len(shown) <= TopLimit => m = Len(shown)
  BY DEF IsList, TopLimit
<1>2. shown \in Seq(ToSet(shown))
  <2>1. \A k \in 1 .. Len(shown) : shown[k] \in ToSet(shown)
    BY <1>1 DEF ToSet
  <2>2. shown \in [1 .. Len(shown) -> ToSet(shown)]
    BY <2>1 DEF IsList
  <2> QED BY <1>1, <2>2
<1> HIDE DEF m
<1>3. \A k \in 1 .. m : shown[k] \in ToSet(shown)
  <2>1. \A k \in 1 .. m : k \in 1 .. Len(shown)
    <3> DEFINE n == Len(shown)
    <3>1. n \in Nat /\ m \in 0 .. n
      BY <1>1
    <3> HIDE DEF n
    <3>2. \A k \in 1 .. m : k \in 1 .. n
      BY <3>1
    <3> QED BY <3>2 DEF n
  <2> QED BY <1>1, <2>1 DEF ToSet
<1>4. m \in Nat
  <2>1. \A n \in Nat : \A x \in 0 .. n : x \in Nat
    OBVIOUS
  <2> QED BY <1>1, <2>1
<1>5. top \in Seq(ToSet(shown)) /\ Len(top) = m /\ \A k \in 1 .. m : top[k] = shown[k]
  <2>1. 1 \in Int /\ m \in Int
    BY <1>4
  <2>2. top \in Seq(ToSet(shown))
    BY <1>3, <2>1, SubSeqProperties
  <2>3. Len(top) = IF 1 <= m THEN m - 1 + 1 ELSE 0
    BY <1>3, <2>1, SubSeqProperties
  <2>4. \A k \in 1 .. m - 1 + 1 : top[k] = shown[1 + k - 1]
    BY <1>3, <2>1, SubSeqProperties
  <2> HIDE DEF top
  <2>5. m - 1 + 1 = m /\ \A k \in 1 .. m : 1 + k - 1 = k
    BY <1>4
  <2> QED BY <1>4, <2>2, <2>3, <2>4, <2>5
<1>6. \A k \in DOMAIN top : top[k] \in ToSet(shown)
  <2> HIDE DEF top
  <2> QED BY <1>5
<1>7. ASSUME Len(shown) <= TopLimit PROVE top = shown
  <2>1. m = Len(shown)
    BY <1>1, <1>7
  <2> QED BY <1>2, <2>1, SubSeqFull
<1> QED BY <1>6, <1>7 DEF m

LEMMA ResultIsSound ==
  ASSUME opt \in Invocations, NEW t \in Tasks(opt.lines), NEW d, Says(t, AsWritten(opt.lines, d))
  PROVE  IsSound(opt, Result(t), d)
<1> DEFINE w == AsWritten(opt.lines, d)
           budget == TaskBudget(t)
           out == Outcome(t.task, budget, IncludeTests)
           top == SubSeq(out.files, 1, IF Len(out.files) < TopLimit THEN Len(out.files) ELSE TopLimit)
           r == Result(t)
<1>1. /\ r.name = NameOf(t) /\ r.task = t.task /\ r.budget = budget
      /\ r.passed = Passed(t, budget, top, out.tokens)
  BY DEF Result
<1>2. budget \in BudgetsOf(opt)
  <2>1. opt.budget \in Int /\ opt.cfgBudget \in Int /\ t.budget \in Int /\ t.budget \in Budgets(opt.lines)
    BY InvocationsAssumption DEF Tasks, Budgets, IsFile
  <2>2. t.budget > 0 => t.budget \in BudgetsOf(opt)
    BY <2>1 DEF Budgets, BudgetsOf
  <2> QED BY <2>1, <2>2 DEF TaskBudget, BudgetsOf
<1>3. t.budget > 0 => budget = t.budget
  <2>1. t.budget \in Int
    BY InvocationsAssumption DEF Tasks, Budgets, IsFile
  <2> QED BY <2>1 DEF TaskBudget
<1>4. IsList(out.files)
  <2>1. t.task \in TextsOf(opt.lines) /\ IncludeTests \in {opt.tests, opt.cfgTests}
    BY DEF Tasks, IncludeTests
  <2> HIDE DEF budget
  <2> QED BY <1>2, <2>1, OutcomeAssumption
<1>5. t.name = w.name /\ t.task = w.task /\ t.budget = w.budget /\ NameOf(t) = NameOf(w)
  BY DEF Says, NameOf
<1> HIDE DEF w, budget, r, top
<1>6. Passed(t, budget, top, out.tokens) <=> MeetsCriteria(w, top, out.tokens, budget)
  BY PassedIs DEF w
<1> HIDE DEF out
<1>7. Len(out.files) <= TopLimit => top = out.files
  BY <1>4, TopFacts DEF top
<1>8. \A k \in DOMAIN top : top[k] \in ToSet(out.files)
  BY <1>4, TopFacts DEF top
<1>9. r.passed <=> MeetsCriteria(w, top, out.tokens, budget)
  BY <1>1, <1>6, Zenon
<1>10. MeetsCriteria(w, top, out.tokens, budget) => \A e \in w.expect : \E f \in ToSet(out.files) : Match(e, f)
  BY <1>8 DEF MeetsCriteria
<1>11. out = Outcome(w.task, r.budget, IF opt.cfgTests = "unset" THEN opt.tests ELSE opt.cfgTests)
  BY <1>1, <1>5 DEF out, IncludeTests
<1>12. r.name = NameOf(w) /\ r.task = w.task /\ (w.budget > 0 => r.budget = w.budget)
  BY <1>1, <1>3, <1>5
<1>13. Len(out.files) <= TopLimit => (r.passed <=> MeetsCriteria(w, out.files, out.tokens, r.budget))
  BY <1>1, <1>7, <1>9
<1>14. r.passed => \A e \in w.expect : \E f \in ToSet(out.files) : Match(e, f)
  BY <1>9, <1>10
<1> QED BY <1>11, <1>12, <1>13, <1>14, Zenon DEF IsSound, w, r

LEMMA InitVInv == Init => VInv
BY DEF Init, VInv

LEMMA StepVInv == IInv /\ BInv /\ VInv /\ [Next]_vars => VInv'
<1> SUFFICES ASSUME IInv, BInv, VInv, [Next]_vars PROVE VInv'
  OBVIOUS
<1>1. CASE Begin
  <2>1. opt' \in Invocations /\ pc' = "parse" /\ exit' = "none" /\ results' = <<>>
    BY <1>1 DEF Begin
  <2>2. DOMAIN results' = {}
    BY <2>1
  <2>3. ~(pc' \in {"tasks", "exit"} \/ exit' \in {"ok", "benchmark failed"})
    BY <2>1
  <2>4. \A d \in Dashes(opt'.lines) : ~(TaskNumber(opt'.lines, d) \in DOMAIN results')
    BY <2>2, Zenon
  <2> QED BY <2>1, <2>3, <2>4, Zenon DEF VInv
<1>2. CASE Parse
  <2>1. CASE Fail
    BY <2>1 DEF Fail, VInv
  <2>2. CASE ~Fail
    <3>1. ~ParseTasks(opt.lines).failed /\ tasks' = ParseTasks(opt.lines).tasks /\ UNCHANGED <<opt, results>>
      BY <1>2, <2>2 DEF Parse
    <3> QED BY <3>1 DEF VInv
  <2> QED BY <2>1, <2>2
<1>3. CASE RunTask
  <2> DEFINE n == Len(results) + 1
             t == tasks[n]
  <2>1. /\ pc = "tasks" /\ results' = Append(results, Result(t)) /\ UNCHANGED <<opt, tasks, pc, exit>>
        /\ Len(results) < Len(tasks)
    BY <1>3 DEF RunTask
  <2>2. IsSeq(results) /\ Len(results) \in Nat
    BY AppendFacts DEF IInv, Progress
  <2>3. t \in Tasks(opt.lines) /\ opt \in Invocations
    <3>1. Len(results) + 1 \in 1 .. Len(tasks) /\ tasks \in Seq(Tasks(opt.lines))
      BY <2>1, <2>2 DEF BInv
    <3> QED BY <3>1 DEF BInv
  <2>4. ~ParseTasks(opt.lines).failed /\ tasks = ParseTasks(opt.lines).tasks /\ IsFile(opt.lines)
    BY <2>1, InvocationsAssumption DEF VInv
  <2>5. /\ DOMAIN results = 1 .. Len(results) /\ DOMAIN results' = 1 .. Len(results) + 1
        /\ \A j \in DOMAIN results : results'[j] = results[j]
        /\ results'[n] = Result(t)
    BY <2>1, <2>2, AppendFacts
  <2>6. \A j \in DOMAIN results' : j \in DOMAIN results \/ j = n
    BY <2>2, <2>5
  <2>7. ASSUME NEW d \in Dashes(opt.lines), TaskNumber(opt.lines, d) = n
        PROVE  IsSound(opt, Result(t), d)
    <3>1. Says(ParseTasks(opt.lines).tasks[TaskNumber(opt.lines, d)], AsWritten(opt.lines, d))
      BY <2>4, FileSays
    <3>2. Says(t, AsWritten(opt.lines, d))
      BY <2>4, <2>7, <3>1
    <3> HIDE DEF t
    <3> QED BY <2>3, <3>2, ResultIsSound
  <2> HIDE DEF n, t
  <2>8. \A d \in Dashes(opt.lines) :
          TaskNumber(opt.lines, d) \in DOMAIN results' => IsSound(opt, results'[TaskNumber(opt.lines, d)], d)
    BY <2>5, <2>6, <2>7 DEF VInv
  <2> QED BY <2>1, <2>8 DEF VInv
<1>4. CASE Abort
  BY <1>4 DEF Abort, Fail, VInv
<1>5. CASE WriteSummary
  BY <1>5 DEF WriteSummary, VInv
<1>6. CASE SummaryFails
  BY <1>6 DEF SummaryFails, Fail, VInv
<1>7. CASE Exit
  BY <1>7 DEF Exit, VInv
<1>8. CASE Finished \/ UNCHANGED vars
  BY <1>8 DEF Finished, vars, VInv
<1> QED BY <1>1, <1>2, <1>3, <1>4, <1>5, <1>6, <1>7, <1>8 DEF Next

\* A benchmark that ends has a verdict for every dash of its file, and every
\* verdict is what the criteria say of the task as the lines have it.
THEOREM SoundVerdicts == Spec => []VerdictsAreSound
<1>1. IInv /\ BInv /\ VInv => VerdictsAreSound
  <2> SUFFICES ASSUME IInv, BInv, VInv PROVE VerdictsAreSound
    OBVIOUS
  <2>1. ASSUME pc = "idle", exit \in {"ok", "benchmark failed"}
        PROVE  Len(results) = Cardinality(Dashes(opt.lines))
    <3>1. ~ParseTasks(opt.lines).failed /\ tasks = ParseTasks(opt.lines).tasks /\ IsFile(opt.lines)
      BY <2>1, InvocationsAssumption DEF VInv
    <3>2. Len(tasks) = Cardinality(Dashes(opt.lines))
      BY <3>1, FileSays
    <3>3. Len(results) = Len(tasks)
      BY <2>1 DEF IInv, Complete, Ended
    <3> QED BY <3>2, <3>3
  <2>2. ASSUME NEW d \in Dashes(opt.lines), TaskNumber(opt.lines, d) \in DOMAIN results
        PROVE  IsSound(opt, results[TaskNumber(opt.lines, d)], d)
    BY <2>2 DEF VInv
  <2> QED BY <2>1, <2>2 DEF VerdictsAreSound, IsSound, IncludeTests
<1> QED BY Invariance, InitBInv, StepBInv, InitVInv, StepVInv, <1>1, PTL DEF Spec

LEMMA MaxAbove ==
  ASSUME NEW n \in Nat, NEW T \in SUBSET (0 .. n), T # {}
  PROVE  \A y \in T : Max(T) >= y
<1> DEFINE U == {n - x : x \in T}
<1>1. U \in SUBSET Nat /\ U # {}
  <2>1. \A x \in T : n - x \in Nat
    OBVIOUS
  <2> QED BY <2>1
<1>2. PICK u \in U : \A v \in U : u <= v
  BY <1>1, LeastNat
<1>3. PICK x \in T : u = n - x
  OBVIOUS
<1>4. ASSUME NEW y \in T PROVE x >= y
  <2>1. u <= n - y
    BY <1>2
  <2> QED BY <1>3, <2>1
<1>5. \E z \in T : \A y \in T : z >= y
  BY <1>4
<1> QED BY <1>5 DEF Max

-----------------------------------------------------------------------------
(* Paths as texts.                                                          *)

Chars == STRING \cup {"/", "*", "."}
Texts == Seq(Chars)

LEMMA TextFacts ==
  ASSUME NEW s \in Texts
  PROVE  /\ Len(s) \in Nat /\ DOMAIN s = 1 .. Len(s)
         /\ \A k \in 1 .. Len(s) : s[k] \in Chars
         /\ s \in Seq(Chars)
  BY DEF Texts

LEMMA SeqOfStrings ==
  ASSUME NEW s \in Seq(STRING)
  PROVE  s \in Texts
<1>1. \A k \in 1 .. Len(s) : s[k] \in Chars
  BY DEF Chars
<1>2. s = [k \in 1 .. Len(s) |-> s[k]] /\ Len(s) \in Nat
  OBVIOUS
<1>3. s \in Seq(Chars)
  BY <1>1, <1>2
<1> QED BY <1>3 DEF Texts

LEMMA SlashIsText == Slash \in Texts /\ Len(Slash) = 1 /\ Slash[1] = "/"
<1>1. "/" \in Chars
  BY DEF Chars
<1> QED BY <1>1 DEF Slash, Texts

LEMMA SameText ==
  ASSUME NEW s \in Texts, NEW t \in Texts, Len(s) = Len(t), \A k \in 1 .. Len(s) : s[k] = t[k]
  PROVE  s = t
  BY SeqEqual DEF Texts

\* A part of a text, also an empty one.
LEMMA PartFacts ==
  ASSUME NEW s \in Texts, NEW m \in Nat, m >= 1, NEW n \in Int, n <= Len(s)
  PROVE  /\ SubSeq(s, m, n) \in Texts
         /\ Len(SubSeq(s, m, n)) = IF m <= n THEN n - m + 1 ELSE 0
         /\ \A k \in 1 .. n - m + 1 : SubSeq(s, m, n)[k] = s[k + m - 1]
<1>1. \A k \in m .. n : s[k] \in Chars
  BY TextFacts
<1>2. /\ SubSeq(s, m, n) \in Seq(Chars)
      /\ Len(SubSeq(s, m, n)) = IF m <= n THEN n - m + 1 ELSE 0
      /\ \A k \in 1 .. n - m + 1 : SubSeq(s, m, n)[k] = s[m + k - 1]
  BY <1>1, SubSeqProperties
<1>3. \A k \in 1 .. n - m + 1 : m + k - 1 = k + m - 1
  OBVIOUS
<1> QED BY <1>2, <1>3 DEF Texts

LEMMA PrefixIs ==
  ASSUME NEW s \in Texts, NEW t \in Texts
  PROVE  IsPrefix(s, t) <=> Len(s) <= Len(t) /\ \A k \in 1 .. Len(s) : s[k] = t[k]
<1> DEFINE n == Len(s)
<1>1. n \in Nat /\ Len(t) \in Nat
  BY TextFacts
<1>2. SubSeq(s, 1, n) \in Texts /\ Len(SubSeq(s, 1, n)) = n
  BY <1>1, PartFacts
<1>3. \A k \in 1 .. n : SubSeq(s, 1, n)[k] = s[k]
  BY <1>1, PartFacts
<1>4. ASSUME n <= Len(t)
      PROVE  SubSeq(s, 1, n) = SubSeq(t, 1, n) <=> \A k \in 1 .. n : s[k] = t[k]
  <2>1. SubSeq(t, 1, n) \in Texts /\ Len(SubSeq(t, 1, n)) = n
    BY <1>1, <1>4, PartFacts
  <2>2. \A k \in 1 .. n : SubSeq(t, 1, n)[k] = t[k]
    BY <1>1, <1>4, PartFacts
  <2> HIDE DEF n
  <2>3. ASSUME \A k \in 1 .. n : s[k] = t[k] PROVE SubSeq(s, 1, n) = SubSeq(t, 1, n)
    BY <1>2, <1>3, <2>1, <2>2, <2>3, SameText
  <2> QED BY <1>3, <2>2, <2>3
<1> QED BY <1>4 DEF IsPrefix

\* What lies below a directory.
IsBelow(d, t) == Len(d) < Len(t) /\ t[Len(d) + 1] = "/" /\ SubSeq(t, 1, Len(d)) = d

LEMMA BelowIs ==
  ASSUME NEW d \in Texts, NEW t \in Texts
  PROVE  IsPrefix(d \o Slash, t) <=> IsBelow(d, t)
<1> DEFINE n == Len(d)
           p == d \o Slash
<1>1. n \in Nat /\ Len(t) \in Nat
  BY TextFacts
<1>2. p \in Texts /\ Len(p) = n + 1 /\ p[n + 1] = "/"
  <2>1. d \in Seq(Chars) /\ Slash \in Seq(Chars)
    BY SlashIsText DEF Texts
  <2>2. p \in Seq(Chars) /\ Len(p) = n + 1
    <3>1. p \in Seq(Chars) /\ Len(p) = Len(d) + Len(Slash)
      BY <2>1, ConcatProperties
    <3> QED BY <3>1, SlashIsText
  <2>3. p[n + 1] = Slash[n + 1 - n]
    BY <1>1, <2>1, SlashIsText, ConcatProperties
  <2> QED BY <1>1, <2>2, <2>3, SlashIsText DEF Texts
<1>3. \A k \in 1 .. n : p[k] = d[k]
  <2>1. d \in Seq(Chars) /\ Slash \in Seq(Chars)
    BY SlashIsText DEF Texts
  <2> QED BY <1>1, <2>1, SlashIsText, ConcatProperties
<1> HIDE DEF p
<1>4. IsPrefix(p, t) <=> n + 1 <= Len(t) /\ \A k \in 1 .. n + 1 : p[k] = t[k]
  BY <1>2, PrefixIs
<1>5. (\A k \in 1 .. n + 1 : p[k] = t[k]) <=> "/" = t[n + 1] /\ \A k \in 1 .. n : d[k] = t[k]
  <2>1. \A k \in 1 .. n + 1 : k = n + 1 \/ k \in 1 .. n
    BY <1>1
  <2>2. n + 1 \in 1 .. n + 1 /\ \A k \in 1 .. n : k \in 1 .. n + 1
    BY <1>1
  <2> HIDE DEF n
  <2> QED BY <1>2, <1>3, <2>1, <2>2
<1>6. ASSUME n < Len(t)
      PROVE  (\A k \in 1 .. n : d[k] = t[k]) <=> SubSeq(t, 1, n) = d
  <2>1. SubSeq(t, 1, n) \in Texts /\ Len(SubSeq(t, 1, n)) = n
    BY <1>1, <1>6, PartFacts
  <2>2. \A k \in 1 .. n : SubSeq(t, 1, n)[k] = t[k]
    BY <1>1, <1>6, PartFacts
  <2>3. ASSUME \A k \in 1 .. n : d[k] = t[k] PROVE SubSeq(t, 1, n) = d
    BY <2>1, <2>2, <2>3, SameText
  <2> QED BY <2>2, <2>3
<1>7. n + 1 <= Len(t) <=> n < Len(t)
  BY <1>1
<1> QED BY <1>4, <1>5, <1>6, <1>7 DEF IsBelow, p

LEMMA AboveIs ==
  ASSUME NEW t \in Texts
  PROVE  /\ \A q : q \in Above(t) <=> q = t \/ (q \in Texts /\ IsBelow(q, t))
         /\ \A q \in Above(t) : q \in Texts
<1>1. Len(t) \in Nat /\ DOMAIN t = 1 .. Len(t)
  BY TextFacts
<1>2. ASSUME NEW k \in 1 .. Len(t), t[k] = "/"
      PROVE  SubSeq(t, 1, k - 1) \in Texts /\ IsBelow(SubSeq(t, 1, k - 1), t)
  <2> DEFINE d == SubSeq(t, 1, k - 1)
  <2>1. d \in Texts /\ Len(d) = k - 1
    BY <1>1, PartFacts
  <2>2. d = SubSeq(t, 1, Len(d))
    BY <2>1
  <2> HIDE DEF d
  <2>3. Len(d) < Len(t) /\ Len(d) + 1 = k
    BY <1>1, <2>1
  <2>4. IsBelow(d, t)
    BY <1>2, <2>2, <2>3 DEF IsBelow
  <2> QED BY <2>1, <2>4 DEF d
<1>3. ASSUME NEW q \in Texts, IsBelow(q, t)
      PROVE  \E k \in 1 .. Len(t) : t[k] = "/" /\ q = SubSeq(t, 1, k - 1)
  <2>1. Len(q) + 1 \in 1 .. Len(t) /\ (Len(q) + 1) - 1 = Len(q)
    BY <1>1, <1>3, TextFacts DEF IsBelow
  <2> QED BY <1>3, <2>1 DEF IsBelow
<1>4. \A q : q \in Above(t) <=> q = t \/ \E k \in 1 .. Len(t) : t[k] = "/" /\ q = SubSeq(t, 1, k - 1)
  BY <1>1 DEF Above
<1> QED BY <1>2, <1>3, <1>4

LEMMA AboveTrans ==
  ASSUME NEW t \in Texts, NEW q \in Above(t), NEW r \in Above(q)
  PROVE  r \in Above(t)
<1>1. q \in Texts /\ r \in Texts
  BY AboveIs
<1>2. CASE q = t \/ r = q
  BY <1>2
<1>3. CASE q # t /\ r # q
  <2>1. IsBelow(q, t) /\ IsBelow(r, q)
    BY <1>1, <1>3, AboveIs
  <2>2. Len(q) \in Nat /\ Len(r) \in Nat /\ Len(t) \in Nat /\ Len(r) < Len(q) /\ Len(q) < Len(t)
    BY <1>1, <2>1, TextFacts DEF IsBelow
  <2>3. \A k \in 1 .. Len(q) : q[k] = t[k]
    BY <2>1, <2>2, PartFacts DEF IsBelow
  <2>4. t[Len(r) + 1] = "/"
    BY <2>1, <2>2, <2>3 DEF IsBelow
  <2>5. SubSeq(t, 1, Len(r)) = r
    <3>1. SubSeq(t, 1, Len(r)) \in Texts /\ Len(SubSeq(t, 1, Len(r))) = Len(r)
      BY <2>2, PartFacts
    <3>2. \A k \in 1 .. Len(r) : SubSeq(t, 1, Len(r))[k] = t[k] /\ k \in 1 .. Len(q)
      BY <2>2, PartFacts
    <3>3. \A k \in 1 .. Len(r) : r[k] = q[k]
      BY <2>1, <2>2, <1>1, PartFacts DEF IsBelow
    <3>4. \A k \in 1 .. Len(r) : SubSeq(t, 1, Len(r))[k] = r[k]
      BY <2>3, <3>2, <3>3
    <3> QED BY <1>1, <3>1, <3>4, SameText
  <2>6. IsBelow(r, t)
    BY <2>2, <2>4, <2>5 DEF IsBelow
  <2> QED BY <1>1, <2>6, AboveIs
<1> QED BY <1>2, <1>3

-----------------------------------------------------------------------------
(* The last part of a path.                                                 *)

\* m is the place of the last slash of t, or 0.
LastSlash(m, t) ==
  /\ m \in 0 .. Len(t) /\ (m = 0 \/ t[m] = "/")
  /\ \A k \in m + 1 .. Len(t) : t[k] # "/"

LEMMA LastSlashExists ==
  ASSUME NEW t \in Texts
  PROVE  \E m : LastSlash(m, t)
<1> DEFINE T == {0} \cup {k \in 1 .. Len(t) : t[k] = "/"}
<1>1. Len(t) \in Nat /\ T \in SUBSET (0 .. Len(t)) /\ T # {}
  BY TextFacts
<1>2. Max(T) \in T /\ \A n \in T : Max(T) >= n
  <2>1. Max(T) \in T
    BY <1>1, MaxIn
  <2>2. \A n \in T : Max(T) >= n
    BY <1>1, MaxAbove
  <2> QED BY <2>1, <2>2
<1>3. ASSUME NEW k \in Max(T) + 1 .. Len(t) PROVE t[k] # "/"
  <2>1. Max(T) \in Nat
    BY <1>1, <1>2
  <2>2. k \in 1 .. Len(t) /\ ~(Max(T) >= k)
    BY <1>1, <2>1
  <2>3. k \notin T
    BY <1>2, <2>2
  <2> QED BY <2>2, <2>3
<1>4. Max(T) \in 0 .. Len(t) /\ (Max(T) = 0 \/ t[Max(T)] = "/")
  BY <1>1, <1>2
<1> QED BY <1>3, <1>4 DEF LastSlash

LEMMA LastSlashIs ==
  ASSUME NEW t \in Texts, NEW m, LastSlash(m, t)
  PROVE  /\ Base(t) = SubSeq(t, m + 1, Len(t))
         /\ Base(t) \in Texts /\ Len(Base(t)) = Len(t) - m
         /\ Parent(t) = SubSeq(t, 1, m - 1)
<1> DEFINE S == {k \in DOMAIN t : t[k] = "/"}
<1>1. Len(t) \in Nat /\ DOMAIN t = 1 .. Len(t) /\ m \in 0 .. Len(t)
  BY TextFacts DEF LastSlash
<1>2. Base(t) = IF S = {} THEN t ELSE SubSeq(t, Max(S) + 1, Len(t))
  BY DEF Base
<1>3. CASE m = 0
  <2>1. S = {}
    BY <1>1, <1>3 DEF LastSlash
  <2>2. Base(t) = t /\ SubSeq(t, m + 1, Len(t)) = t
    <3>1. t \in Seq(Chars)
      BY DEF Texts
    <3> HIDE DEF S
    <3> QED BY <1>2, <1>3, <2>1, <3>1, SubSeqFull
  <2>3. Len(Base(t)) = Len(t) - m
    BY <1>1, <1>3, <2>2
  <2>4. Len(t) - Len(Base(t)) - 1 = m - 1
    BY <1>1, <2>3
  <2> QED BY <2>2, <2>3, <2>4 DEF Parent
<1>4. CASE m # 0
  <2>1. m \in S /\ S \in SUBSET Nat /\ \A n \in S : m >= n
    <3>1. m \in S /\ S \in SUBSET Nat
      BY <1>1, <1>4 DEF LastSlash
    <3>2. ASSUME NEW n \in S PROVE m >= n
      <4>1. n \in 1 .. Len(t) /\ t[n] = "/"
        BY <1>1
      <4>2. n \notin m + 1 .. Len(t)
        BY <4>1 DEF LastSlash
      <4> QED BY <1>1, <4>1, <4>2
    <3> QED BY <3>1, <3>2
  <2> HIDE DEF S
  <2>2. m = Max(S)
    BY <2>1, MaxIs
  <2>3. Base(t) = SubSeq(t, m + 1, Len(t))
    BY <1>2, <2>1, <2>2
  <2>4. Base(t) \in Texts /\ Len(Base(t)) = Len(t) - m
    <3> DEFINE u == SubSeq(t, m + 1, Len(t))
    <3>1. m + 1 \in Nat /\ m + 1 >= 1 /\ Len(t) \in Int /\ Len(t) <= Len(t)
      BY <1>1
    <3>2. u \in Texts
      BY <3>1, PartFacts
    <3>3. Len(u) = IF m + 1 <= Len(t) THEN Len(t) - (m + 1) + 1 ELSE 0
      BY <3>1, PartFacts
    <3>4. Base(t) = u
      BY <2>3
    <3> HIDE DEF u
    <3>5. Len(u) = Len(t) - m
      <4> DEFINE a == Len(t)
      <4>1. a \in Int /\ m \in Int /\ m <= a
        BY <1>1
      <4>2. Len(u) = IF m + 1 <= a THEN a - (m + 1) + 1 ELSE 0
        BY <3>3
      <4> HIDE DEF a
      <4>3. Len(u) = a - m
        BY <4>1, <4>2
      <4> QED BY <4>3 DEF a
    <3> QED BY <3>2, <3>4, <3>5
  <2>5. Len(t) - Len(Base(t)) - 1 = m - 1
    <3> DEFINE a == Len(t)
               b == Len(Base(t))
    <3>1. a \in Nat /\ m \in Int /\ b = a - m
      BY <1>1, <2>4
    <3> HIDE DEF a, b
    <3>2. a - b - 1 = m - 1
      BY <3>1
    <3> QED BY <3>2 DEF a, b
  <2> QED BY <2>3, <2>4, <2>5 DEF Parent
<1> QED BY <1>3, <1>4

\* Every part of a path is the last of that path or of one above it, and the
\* other way round.
LEMMA PartsAre ==
  ASSUME NEW t \in Texts
  PROVE  /\ Base(t) \in PartsOf(t)
         /\ \A part \in PartsOf(t) : \E q \in Above(t) : part = Base(q)
<1> DEFINE ends == {k \in DOMAIN t : t[k] = "/"} \cup {Len(t) + 1}
           before(e) == {0} \cup {k \in ends : k < e}
           begin(e) == Max(before(e)) + 1
<1>1. PartsOf(t) = {SubSeq(t, begin(e), e - 1) : e \in ends}
  BY DEF PartsOf
<1>2. Len(t) \in Nat /\ DOMAIN t = 1 .. Len(t)
  BY TextFacts
<1>3. ASSUME NEW e \in ends
      PROVE  /\ SubSeq(t, 1, e - 1) \in Above(t)
             /\ SubSeq(t, begin(e), e - 1) = Base(SubSeq(t, 1, e - 1))
  <2> DEFINE q == SubSeq(t, 1, e - 1)
             T == before(e)
             m == Max(T)
  <2>1. e \in 1 .. Len(t) + 1
    BY <1>2
  <2>2. q \in Texts /\ Len(q) = e - 1 /\ \A k \in 1 .. e - 1 : q[k] = t[k]
    BY <1>2, <2>1, PartFacts
  <2>3. q \in Above(t)
    <3>1. CASE e = Len(t) + 1
      <4>1. t \in Seq(Chars) /\ e - 1 = Len(t)
        BY <1>2, <3>1 DEF Texts
      <4>2. q = t
        BY <4>1, SubSeqFull
      <4> QED BY <4>2 DEF Above
    <3>2. CASE e # Len(t) + 1
      BY <1>2, <3>2 DEF Above
    <3> QED BY <3>1, <3>2
  <2>4. T \in SUBSET (0 .. e - 1) /\ T # {} /\ e - 1 \in Nat
    BY <1>2, <2>1
  <2>5. \A k \in 1 .. e - 1 : t[k] = "/" => k \in T
    BY <1>2, <2>1
  <2>6. \A k \in T : k = 0 \/ t[k] = "/"
    BY <1>2, <2>1
  <2> HIDE DEF T, q
  <2>7. m \in T /\ \A n \in T : m >= n
    BY <2>4, MaxIn, MaxAbove
  <2>8. LastSlash(m, q)
    <3>1. m \in 0 .. e - 1 /\ (m = 0 \/ t[m] = "/")
      BY <2>4, <2>6, <2>7
    <3>2. m = 0 \/ q[m] = "/"
      BY <2>2, <2>4, <3>1
    <3>3. ASSUME NEW k \in m + 1 .. e - 1 PROVE q[k] # "/"
      <4>1. k \in 1 .. e - 1 /\ ~(m >= k)
        BY <2>4, <3>1
      <4>2. t[k] # "/"
        BY <2>5, <2>7, <4>1
      <4> QED BY <2>2, <4>1, <4>2
    <3> QED BY <2>2, <3>1, <3>2, <3>3 DEF LastSlash
  <2>9. m \in 0 .. e - 1 /\ Base(q) \in Texts /\ Len(Base(q)) = e - 1 - m /\ Base(q) = SubSeq(q, m + 1, e - 1)
    BY <2>2, <2>8, LastSlashIs DEF LastSlash
  <2>10. SubSeq(t, m + 1, e - 1) = Base(q)
    <3> DEFINE u == SubSeq(t, m + 1, e - 1)
    <3>1. m + 1 \in Nat /\ m + 1 >= 1 /\ e - 1 \in Int /\ e - 1 <= Len(t)
      BY <1>2, <2>1, <2>9
    <3>2. u \in Texts
      BY <3>1, PartFacts
    <3>3. Len(u) = IF m + 1 <= e - 1 THEN (e - 1) - (m + 1) + 1 ELSE 0
      BY <3>1, PartFacts
    <3>4. \A k \in 1 .. (e - 1) - (m + 1) + 1 : u[k] = t[k + (m + 1) - 1]
      BY <3>1, PartFacts
    <3>5. \A k \in 1 .. (e - 1) - (m + 1) + 1 : Base(q)[k] = q[k + (m + 1) - 1]
      BY <2>2, <2>9, <3>1, PartFacts
    <3>6. Len(u) = e - 1 - m
      BY <2>9, <3>1, <3>3
    <3> HIDE DEF u
    <3>7. ASSUME NEW k \in 1 .. Len(u) PROVE u[k] = Base(q)[k]
      <4>1. m \in Int /\ e \in Int /\ 0 <= m
        BY <1>2, <2>1, <2>9
      <4>2. k \in Int /\ 1 <= k /\ k <= e - 1 - m
        BY <3>6, <4>1
      <4>3. k \in 1 .. (e - 1) - (m + 1) + 1 /\ k + (m + 1) - 1 \in 1 .. e - 1
        BY <4>1, <4>2
      <4> QED BY <2>2, <3>4, <3>5, <4>3
    <3>8. Len(u) = Len(Base(q))
      BY <2>9, <3>6
    <3> QED BY <2>9, <3>2, <3>7, <3>8, SameText DEF u
  <2> QED BY <2>3, <2>10 DEF q, T
<1>4. Len(t) + 1 \in ends /\ SubSeq(t, 1, Len(t) + 1 - 1) = t
  <2>1. t \in Seq(Chars) /\ Len(t) + 1 - 1 = Len(t)
    BY <1>2 DEF Texts
  <2> QED BY <2>1, SubSeqFull
<1> HIDE DEF ends, begin
<1>5. Base(t) \in PartsOf(t)
  <2> DEFINE e == Len(t) + 1
  <2>1. e \in ends /\ SubSeq(t, 1, e - 1) = t
    BY <1>4
  <2> HIDE DEF e
  <2>2. SubSeq(t, begin(e), e - 1) = Base(t)
    BY <1>3, <2>1
  <2> QED BY <1>1, <2>1, <2>2
<1>6. \A part \in PartsOf(t) : \E q \in Above(t) : part = Base(q)
  BY <1>1, <1>3
<1> QED BY <1>5, <1>6

-----------------------------------------------------------------------------
(* What the Glob of Go's library matches.                                   *)

\* From which of the first characters of s a further character c of the pattern
\* leads to which.
Further(R, c, s) ==
  IF c = "*" THEN {k \in 0 .. Len(s) : \E j \in R : j <= k /\ \A m \in j + 1 .. k : s[m] # "/"}
  ELSE {k \in 1 .. Len(s) : k - 1 \in R /\ s[k] = c}

Reaches(r, x, s) ==
  /\ r[0] = {0}
  /\ \A n \in 1 .. Len(x) : r[n] = Further(r[n - 1], x[n], s)

LEMMA GlobIs ==
  ASSUME NEW x \in Texts, NEW s \in Texts
  PROVE  \E r : Reaches(r, x, s) /\ (Glob(x, s) <=> Len(s) \in r[Len(x)])
<1> DEFINE N == Len(x)
           S == SUBSET (0 .. Len(s))
           g == [n \in 1 .. N |-> [R \in S |-> Further(R, x[n], s)]]
           IsReach(t) == t = [n \in 0 .. N |->
             IF n = 0 THEN {0}
             ELSE IF x[n] = "*"
             THEN {k \in 0 .. Len(s) : \E j \in t[n - 1] : j <= k /\ \A m \in j + 1 .. k : s[m] # "/"}
             ELSE {k \in 1 .. Len(s) : k - 1 \in t[n - 1] /\ s[k] = x[n]}]
           reach == CHOOSE t : IsReach(t)
<1>1. N \in Nat /\ Len(s) \in Nat
  BY TextFacts
<1>2. Glob(x, s) <=> Len(s) \in reach[N]
  BY DEF Glob
<1> HIDE DEF IsReach
<1>3. \A t : IsReach(t) <=> t = [n \in 0 .. N |-> IF n = 0 THEN {0} ELSE Further(t[n - 1], x[n], s)]
  BY DEF IsReach, Further
<1> HIDE DEF reach, N
<1>4. \A n \in 1 .. N : \A R \in S : Further(R, x[n], s) \in S
  BY <1>1 DEF Further
<1>5. {0} \in S
  BY <1>1
<1> HIDE DEF S
<1>6. g \in [1 .. N -> [S -> S]] /\ \A n \in 1 .. N : \A R \in S : g[n][R] = Further(R, x[n], s)
  BY <1>4
<1> HIDE DEF g
<1>7. PICK f : Loop(f, S, {0}, g, N)
  BY <1>1, <1>5, <1>6, LoopExists
<1>8. IsReach(f)
  <2> DEFINE h == [n \in 0 .. N |-> IF n = 0 THEN {0} ELSE Further(f[n - 1], x[n], s)]
  <2>1. \A n \in 1 .. N : n - 1 \in 0 .. N
    BY <1>1
  <2>2. f \in [0 .. N -> S] /\ f[0] = {0} /\ \A n \in 1 .. N : f[n] = Further(f[n - 1], x[n], s)
    BY <1>6, <1>7, <2>1 DEF Loop
  <2>3. f = [n \in 0 .. N |-> f[n]] /\ h = [n \in 0 .. N |-> h[n]]
    BY <2>2
  <2>4. \A n \in 0 .. N : f[n] = h[n]
    BY <1>1, <2>2
  <2> HIDE DEF h
  <2>5. f = h
    BY <2>3, <2>4
  <2> QED BY <1>3, <2>5 DEF h
<1>9. IsReach(reach)
  BY <1>8 DEF reach
<1>10. \A n \in 0 .. N : reach[n] = IF n = 0 THEN {0} ELSE Further(reach[n - 1], x[n], s)
  BY <1>3, <1>9
<1>11. Reaches(reach, x, s)
  BY <1>1, <1>10 DEF Reaches, N
<1> QED BY <1>2, <1>11 DEF N

\* A text is matched by itself, stars and all.
LEMMA GlobItself ==
  ASSUME NEW x \in Texts
  PROVE  Glob(x, x)
<1>1. PICK r : Reaches(r, x, x) /\ (Glob(x, x) <=> Len(x) \in r[Len(x)])
  BY GlobIs
<1> DEFINE Missing == {n \in 0 .. Len(x) : n \notin r[n]}
<1>2. Len(x) \in Nat
  BY TextFacts
<1>3. CASE Missing # {}
  <2>1. Missing \in SUBSET Nat
    BY <1>2
  <2>2. PICK n \in Missing : \A k \in Missing : n <= k
    BY <1>3, <2>1, LeastNat
  <2>3. n # 0 /\ r[0] = {0}
    BY <1>1, <2>2 DEF Reaches
  <2>4. n \in 1 .. Len(x) /\ n - 1 \in 0 .. Len(x) /\ ~(n <= n - 1)
    BY <1>2, <2>2, <2>3
  <2>5. n - 1 \in r[n - 1]
    BY <2>2, <2>4
  <2>6. r[n] = Further(r[n - 1], x[n], x)
    BY <1>1, <2>4 DEF Reaches
  <2>7. n \in Further(r[n - 1], x[n], x)
    <3>1. CASE x[n] = "*"
      <4>1. \A m \in n - 1 + 1 .. n : x[m] # "/"
        <5>1. \A m \in n - 1 + 1 .. n : m = n
          BY <2>4
        <5> QED BY <3>1, <5>1
      <4> QED BY <1>2, <2>4, <2>5, <3>1, <4>1 DEF Further
    <3>2. CASE x[n] # "*"
      BY <2>4, <2>5, <3>2 DEF Further
    <3> QED BY <3>1, <3>2
  <2> QED BY <2>2, <2>6, <2>7
<1>4. CASE Missing = {}
  <2>1. Len(x) \in r[Len(x)]
    BY <1>2, <1>4
  <2> QED BY <1>1, <2>1
<1> QED BY <1>3, <1>4

\* Without a star it matches nothing else.
LEMMA GlobOfName ==
  ASSUME NEW x \in Texts, NEW s \in Texts, ~Has(x, "*"), Glob(x, s)
  PROVE  x = s
<1>1. PICK r : Reaches(r, x, s) /\ (Glob(x, s) <=> Len(s) \in r[Len(x)])
  BY GlobIs
<1> DEFINE Same(n) == \A k \in r[n] : k = n /\ \A m \in 1 .. n : s[m] = x[m]
           Other == {n \in 0 .. Len(x) : ~Same(n)}
<1>2. Len(x) \in Nat /\ Len(s) \in Nat /\ DOMAIN x = 1 .. Len(x)
  BY TextFacts
<1>3. CASE Other # {}
  <2>1. Other \in SUBSET Nat
    BY <1>2
  <2>2. PICK n \in Other : \A k \in Other : n <= k
    BY <1>3, <2>1, LeastNat
  <2>3. Same(0) /\ n # 0
    <3>1. r[0] = {0}
      BY <1>1 DEF Reaches
    <3>2. Same(0)
      BY <3>1
    <3> QED BY <2>2, <3>2
  <2>4. n \in 1 .. Len(x) /\ n - 1 \in 0 .. Len(x) /\ ~(n <= n - 1)
    BY <1>2, <2>2, <2>3
  <2>5. Same(n - 1)
    BY <2>2, <2>4
  <2>6. r[n] = Further(r[n - 1], x[n], s) /\ x[n] # "*"
    BY <1>1, <1>2, <2>4 DEF Reaches, Has
  <2>7. r[n] = {k \in 1 .. Len(s) : k - 1 \in r[n - 1] /\ s[k] = x[n]}
    BY <2>6 DEF Further
  <2>8. ASSUME NEW k \in r[n] PROVE k = n /\ \A m \in 1 .. n : s[m] = x[m]
    <3>1. k \in Nat /\ k - 1 \in r[n - 1] /\ s[k] = x[n]
      BY <2>7
    <3>2. k - 1 = n - 1 /\ \A m \in 1 .. n - 1 : s[m] = x[m]
      BY <2>5, <3>1
    <3>3. k = n
      BY <2>4, <3>1, <3>2
    <3>4. \A m \in 1 .. n : m = n \/ m \in 1 .. n - 1
      BY <2>4
    <3> QED BY <3>1, <3>2, <3>3, <3>4
  <2> QED BY <2>2, <2>8
<1>4. CASE Other = {}
  <2>1. Same(Len(x))
    BY <1>2, <1>4
  <2>2. Len(s) = Len(x) /\ \A m \in 1 .. Len(x) : s[m] = x[m]
    BY <1>1, <2>1
  <2> QED BY <2>2, SameText
<1> QED BY <1>3, <1>4

LEMMA BaseIsName ==
  ASSUME NEW t \in Texts
  PROVE  /\ ~Has(Base(t), "/")
         /\ ~Has(t, "/") => Base(t) = t
<1>1. PICK m : LastSlash(m, t)
  BY LastSlashExists
<1>2. Len(t) \in Nat /\ m \in 0 .. Len(t)
  BY <1>1, TextFacts DEF LastSlash
<1>3. Base(t) \in Texts /\ Len(Base(t)) = Len(t) - m /\ Base(t) = SubSeq(t, m + 1, Len(t))
  BY <1>1, LastSlashIs
<1>4. DOMAIN Base(t) = 1 .. Len(t) - m
  BY <1>3, TextFacts
<1>5. ASSUME NEW k \in DOMAIN Base(t) PROVE Base(t)[k] # "/"
  <2>1. m + 1 \in Nat /\ m + 1 >= 1 /\ Len(t) \in Int /\ Len(t) <= Len(t)
    BY <1>2
  <2>2. \A j \in 1 .. Len(t) - (m + 1) + 1 : SubSeq(t, m + 1, Len(t))[j] = t[j + (m + 1) - 1]
    BY <2>1, PartFacts
  <2>3. k \in 1 .. Len(t) - m
    BY <1>4
  <2>4. k \in 1 .. Len(t) - (m + 1) + 1 /\ k + (m + 1) - 1 \in m + 1 .. Len(t)
    <3> DEFINE a == Len(t)
    <3>1. a \in Int /\ m \in Int /\ k \in 1 .. a - m
      BY <1>2, <2>3
    <3> HIDE DEF a
    <3>2. k \in 1 .. a - (m + 1) + 1 /\ k + (m + 1) - 1 \in m + 1 .. a
      BY <3>1
    <3> QED BY <3>2 DEF a
  <2>5. t[k + (m + 1) - 1] # "/"
    BY <1>1, <2>4 DEF LastSlash
  <2>6. Base(t)[k] = t[k + (m + 1) - 1]
    BY <1>3, <2>2, <2>4
  <2> QED BY <2>5, <2>6
<1>6. ASSUME ~Has(t, "/") PROVE Base(t) = t
  <2>1. {k \in DOMAIN t : t[k] = "/"} = {}
    BY <1>6 DEF Has
  <2> QED BY <2>1 DEF Base
<1> QED BY <1>5, <1>6 DEF Has

-----------------------------------------------------------------------------
(* What the code ignores is what git ignores.                               *)

LEMMA GitIsFollowed ==
  ASSUME NEW p, p.pattern \in Texts, AsInGit(p), NEW q \in Texts, GitMatches(p, q)
  PROVE  IgnoreMatch(p, q, IsDir(q))
<1>1. Base(q) \in Texts /\ Base(q) \in PartsOf(q)
  BY LastSlashExists, LastSlashIs, PartsAre
<1>2. CASE p.dirOnly
  <2>1. IsDir(q) /\ ~p.anchored /\ ~Has(p.pattern, "*")
    BY <1>2 DEF GitMatches, AsInGit
  <2>2. CASE Has(p.pattern, "/")
    <3>1. Glob(p.pattern, q)
      BY <2>2 DEF GitMatches
    <3>2. q = p.pattern
      BY <2>1, <3>1, GlobOfName
    <3> QED BY <1>2, <2>1, <3>2 DEF IgnoreMatch
  <2>3. CASE ~Has(p.pattern, "/")
    <3>1. Glob(p.pattern, Base(q))
      BY <2>1, <2>3 DEF GitMatches
    <3>2. Base(q) = p.pattern
      BY <1>1, <2>1, <3>1, GlobOfName
    <3> QED BY <1>2, <2>1, <3>2 DEF IgnoreMatch
  <2> QED BY <2>2, <2>3
<1>3. CASE ~p.dirOnly
  <2>1. CASE p.anchored \/ Has(p.pattern, "/")
    BY <1>3, <2>1 DEF GitMatches, IgnoreMatch
  <2>2. CASE ~(p.anchored \/ Has(p.pattern, "/"))
    BY <1>1, <1>3, <2>2 DEF GitMatches, IgnoreMatch
  <2> QED BY <2>1, <2>2
<1> QED BY <1>2, <1>3

LEMMA GitIsFollowedOnly ==
  ASSUME NEW p, p.pattern \in Texts, AsInGit(p), NEW f \in Texts,
         Above(f) \ {f} \subseteq tree.dirs,
         NEW q \in Above(f), IgnoreMatch(p, q, IsDir(q))
  PROVE  \E r \in Above(f) : GitMatches(p, r)
<1>1. q \in Texts /\ \A r \in Above(q) : r \in Above(f) /\ r \in Texts
  BY AboveIs, AboveTrans
<1>2. Glob(p.pattern, p.pattern)
  BY GlobItself
<1>3. ~Has(p.pattern, "/") => Base(p.pattern) = p.pattern
  BY BaseIsName
<1>4. GitMatches(p, p.pattern) \/ (p.dirOnly /\ ~IsDir(p.pattern))
  BY <1>2, <1>3 DEF GitMatches, AsInGit
<1>5. CASE IsPrefix(p.pattern \o Slash, q)
  <2>1. IsBelow(p.pattern, q)
    BY <1>1, <1>5, BelowIs
  <2>2. p.pattern \in Above(q) /\ p.pattern # f
    <3>1. p.pattern \in Above(q)
      BY <1>1, <2>1, AboveIs
    <3>2. q = f \/ IsBelow(q, f)
      BY AboveIs
    <3>3. Len(p.pattern) < Len(q) /\ Len(q) <= Len(f)
      BY <1>1, <2>1, <3>2, TextFacts DEF IsBelow
    <3>4. Len(p.pattern) \in Nat /\ Len(q) \in Nat /\ Len(f) \in Nat
      BY <1>1, TextFacts
    <3>5. Len(p.pattern) # Len(f)
      BY <3>3, <3>4
    <3> QED BY <3>1, <3>5
  <2>3. p.pattern \in Above(f) /\ IsDir(p.pattern)
    BY <1>1, <2>2 DEF IsDir
  <2> QED BY <1>4, <2>3
<1>6. CASE p.dirOnly /\ ~IsPrefix(p.pattern \o Slash, q)
  <2>1. IsDir(q) /\ (q = p.pattern \/ Base(q) = p.pattern)
    BY <1>6 DEF IgnoreMatch
  <2>2. CASE q = p.pattern
    BY <1>4, <2>1, <2>2
  <2>3. CASE Base(q) = p.pattern
    <3>1. ~Has(p.pattern, "/") /\ ~p.anchored
      BY <1>1, <1>6, <2>3, BaseIsName DEF AsInGit
    <3>2. Glob(p.pattern, Base(q))
      BY <1>2, <2>3
    <3>3. GitMatches(p, q)
      BY <2>1, <3>1, <3>2 DEF GitMatches
    <3> QED BY <3>3
  <2> QED BY <2>1, <2>2, <2>3
<1>7. CASE ~p.dirOnly /\ ~IsPrefix(p.pattern \o Slash, q)
  <2>1. CASE p.anchored \/ Has(p.pattern, "/")
    <3>1. Glob(p.pattern, q)
      BY <1>2, <1>7, <2>1 DEF IgnoreMatch
    <3>2. GitMatches(p, q)
      BY <1>7, <2>1, <3>1 DEF GitMatches
    <3> QED BY <3>2
  <2>2. CASE ~(p.anchored \/ Has(p.pattern, "/"))
    <3>1. PICK part \in PartsOf(q) : Glob(p.pattern, part)
      BY <1>7, <2>2 DEF IgnoreMatch
    <3>2. PICK r \in Above(q) : part = Base(r)
      BY <1>1, PartsAre
    <3>3. GitMatches(p, r)
      BY <1>7, <2>2, <3>1, <3>2 DEF GitMatches
    <3> QED BY <1>1, <3>2, <3>3
  <2> QED BY <2>1, <2>2
<1> QED BY <1>5, <1>6, <1>7

Ignored(q) == ShouldIgnore(q, IsDir(q))

\* What the walk is about: paths, and patterns that git understands as well.
Readable ==
  /\ IsTree(tree)
  /\ \A p \in patterns : p.pattern \in Texts

LEMMA TreeFacts ==
  ASSUME Readable
  PROVE  /\ \A f \in tree.dirs \cup tree.files : f \in Texts /\ f # <<>> /\ Above(f) \ {f} \subseteq tree.dirs
         /\ tree.dirs \cap tree.files = {} /\ IsFiniteSet(tree.dirs \cup tree.files)
         /\ tree.unreadable \subseteq tree.dirs /\ tree.removable \subseteq tree.dirs
         /\ \A p \in patterns : p.pattern \in Texts
<1>1. IsTree(tree)
  BY DEF Readable
<1>2. ASSUME NEW f \in tree.dirs \cup tree.files PROVE f \in Texts
  <2>1. f \in Seq(STRING)
    BY <1>1 DEF IsTree
  <2> QED BY <2>1, SeqOfStrings
<1> QED BY <1>1, <1>2 DEF Readable, IsTree

LEMMA ExcludedIs ==
  ASSUME Readable, \A p \in patterns : AsInGit(p), NEW f \in tree.dirs \cup tree.files
  PROVE  Excluded(f) <=> \E q \in Above(f) : Ignored(q)
<1>1. f \in Texts /\ Above(f) \ {f} \subseteq tree.dirs /\ \A p \in patterns : p.pattern \in Texts
  BY TreeFacts
<1>2. ASSUME Excluded(f) PROVE \E q \in Above(f) : Ignored(q)
  <2>1. PICK q \in Above(f) : \/ IsDir(q) /\ Base(q) \in BuiltInIgnoredDirs
                              \/ \E line \in patterns : GitMatches(line, q)
    BY <1>2 DEF Excluded
  <2>2. CASE IsDir(q) /\ Base(q) \in BuiltInIgnoredDirs
    BY <2>2 DEF Ignored, ShouldIgnore
  <2>3. CASE \E line \in patterns : GitMatches(line, q)
    <3>1. PICK line \in patterns : GitMatches(line, q)
      BY <2>3
    <3>2. q \in Texts
      BY <1>1, AboveIs
    <3>3. IgnoreMatch(line, q, IsDir(q))
      BY <1>1, <3>1, <3>2, GitIsFollowed
    <3> QED BY <3>3 DEF Ignored, ShouldIgnore
  <2> QED BY <2>1, <2>2, <2>3
<1>3. ASSUME NEW q \in Above(f), Ignored(q) PROVE Excluded(f)
  <2>1. CASE IsDir(q) /\ Base(q) \in BuiltInIgnoredDirs
    BY <2>1 DEF Excluded
  <2>2. CASE \E p \in patterns : IgnoreMatch(p, q, IsDir(q))
    <3>1. PICK p \in patterns : IgnoreMatch(p, q, IsDir(q))
      BY <2>2
    <3>2. \E r \in Above(f) : GitMatches(p, r)
      BY <1>1, <3>1, GitIsFollowedOnly
    <3> QED BY <3>2 DEF Excluded
  <2> QED BY <1>3, <2>1, <2>2 DEF Ignored, ShouldIgnore
<1> QED BY <1>2, <1>3

-----------------------------------------------------------------------------
(* The walk.                                                                *)

LEMMA SetToSeqIs ==
  ASSUME NEW S, IsFiniteSet(S)
  PROVE  /\ SetToSeq(S) \in Seq(S)
         /\ \A x \in S : \E k \in 1 .. Len(SetToSeq(S)) : SetToSeq(S)[k] = x
<1> DEFINE n == Cardinality(S)
           s == SetToSeq(S)
<1>1. n \in Nat /\ ExistsBijection(1 .. n, S)
  BY FS_CardinalityType
<1>2. \E f \in [1 .. n -> S] : IsInjective(f)
  BY <1>1 DEF ExistsBijection, Bijection, Injection
<1>3. s \in [1 .. n -> S] /\ IsInjective(s)
  BY <1>2 DEF SetToSeq
<1> HIDE DEF s
<1>4. s \in Injection(1 .. n, S)
  BY <1>3 DEF Injection
<1>5. Cardinality(1 .. n) = n
  BY <1>1, FS_Interval
<1>6. s \in Surjection(1 .. n, S)
  BY <1>4, <1>5, FS_Injection
<1>7. \A x \in S : \E k \in 1 .. n : s[k] = x
  BY <1>6 DEF Surjection
<1>8. s \in Seq(S) /\ Len(s) = n
  BY <1>1, <1>3
<1> QED BY <1>7, <1>8 DEF s

LEMMA ChildrenAre ==
  ASSUME Readable, NEW d
  PROVE  /\ Children(d) \in Seq(tree.dirs \cup tree.files)
         /\ \A k \in 1 .. Len(Children(d)) :
              Children(d)[k] \notin gone /\ Parent(Children(d)[k]) = d
         /\ \A p \in (tree.dirs \cup tree.files) \ gone :
              Parent(p) = d => \E k \in 1 .. Len(Children(d)) : Children(d)[k] = p
<1> DEFINE E == tree.dirs \cup tree.files
           S == {p \in E \ gone : p # <<>> /\ Parent(p) = d}
           s == SetToSeq(S)
<1>1. IsFiniteSet(S)
  <2>1. IsFiniteSet(E) /\ S \in SUBSET E
    BY TreeFacts
  <2> QED BY <2>1, FS_Subset
<1>2. Children(d) = s
  BY DEF Children
<1>3. \A p \in E : p # <<>>
  BY TreeFacts
<1>4. \A p \in S : p \in E /\ p \notin gone /\ Parent(p) = d
  OBVIOUS
<1>5. \A p \in E \ gone : Parent(p) = d => p \in S
  BY <1>3
<1> HIDE DEF S
<1>6. s \in Seq(S)
  BY <1>1, SetToSeqIs
<1>7. \A x \in S : \E k \in 1 .. Len(s) : s[k] = x
  BY <1>1, SetToSeqIs
<1> HIDE DEF s
<1>8. \A k \in 1 .. Len(s) : s[k] \in S
  BY <1>6
<1>9. s \in Seq(E)
  <2>1. \A k \in 1 .. Len(s) : s[k] \in E
    BY <1>4, <1>8
  <2> HIDE DEF E
  <2> QED BY <1>6, <2>1
<1>10. \A k \in 1 .. Len(s) : s[k] \notin gone /\ Parent(s[k]) = d
  BY <1>4, <1>8
<1>11. \A p \in E \ gone : Parent(p) = d => \E k \in 1 .. Len(s) : s[k] = p
  BY <1>5, <1>7
<1> QED BY <1>2, <1>9, <1>10, <1>11

\* Where the way from the slash at n to t goes first.
LEMMA FirstStep ==
  ASSUME NEW t \in Texts, NEW n \in 0 .. Len(t), n = 0 \/ t[n] = "/"
  PROVE  \E c \in Above(t) : LastSlash(n, c) /\ \A k \in 1 .. n : c[k] = t[k]
<1> DEFINE Ends == {k \in n + 1 .. Len(t) : t[k] = "/"} \cup {Len(t) + 1}
<1>1. Len(t) \in Nat /\ n \in Nat /\ n <= Len(t) /\ DOMAIN t = 1 .. Len(t)
  BY TextFacts
<1>2. PICK e \in Ends : \A k \in Ends : e <= k
  <2>1. Ends \in SUBSET Nat /\ Ends # {}
    BY <1>1
  <2> HIDE DEF Ends
  <2> QED BY <2>1, LeastNat
<1> DEFINE c == SubSeq(t, 1, e - 1)
<1>3. e \in n + 1 .. Len(t) + 1
  BY <1>1
<1>4. c \in Texts /\ Len(c) = e - 1 /\ \A k \in 1 .. e - 1 : c[k] = t[k]
  BY <1>1, <1>3, PartFacts
<1>5. c \in Above(t)
  <2>1. CASE e = Len(t) + 1
    <3>1. t \in Seq(Chars) /\ e - 1 = Len(t)
      BY <1>1, <2>1 DEF Texts
    <3>2. c = t
      BY <3>1, SubSeqFull
    <3> QED BY <3>2 DEF Above
  <2>2. CASE e # Len(t) + 1
    BY <1>1, <1>3, <2>2 DEF Above
  <2> QED BY <2>1, <2>2
<1> HIDE DEF c
<1>6. ASSUME NEW k \in n + 1 .. e - 1 PROVE c[k] # "/"
  <2>1. k \in n + 1 .. Len(t) /\ ~(e <= k) /\ k \in 1 .. e - 1
    BY <1>1, <1>3
  <2>2. t[k] # "/"
    BY <1>2, <2>1
  <2> QED BY <1>4, <2>1, <2>2
<1>7. n = 0 \/ c[n] = "/"
  <2>1. n # 0 => n \in 1 .. e - 1
    BY <1>1, <1>3
  <2> QED BY <1>4, <2>1
<1>8. LastSlash(n, c)
  BY <1>1, <1>3, <1>4, <1>6, <1>7 DEF LastSlash
<1>9. \A k \in 1 .. n : c[k] = t[k]
  BY <1>1, <1>3, <1>4
<1> QED BY <1>5, <1>8, <1>9

LEMMA AboveChild ==
  ASSUME NEW c \in Texts, NEW q \in Above(c), q # c
  PROVE  q \in Above(Parent(c))
<1>1. PICK m : LastSlash(m, c)
  BY LastSlashExists
<1>2. Parent(c) = SubSeq(c, 1, m - 1) /\ m \in 0 .. Len(c) /\ Len(c) \in Nat
  BY <1>1, LastSlashIs, TextFacts DEF LastSlash
<1>3. q \in Texts /\ IsBelow(q, c) /\ Len(q) \in Nat
  BY AboveIs, TextFacts
<1> DEFINE h == SubSeq(c, 1, m - 1)
<1>4. Len(q) + 1 <= m
  <2>1. c[Len(q) + 1] = "/" /\ Len(q) + 1 <= Len(c)
    BY <1>2, <1>3 DEF IsBelow
  <2>2. Len(q) + 1 \notin m + 1 .. Len(c)
    BY <1>1, <2>1 DEF LastSlash
  <2> QED BY <1>2, <1>3, <2>1, <2>2
<1>5. h \in Texts /\ Len(h) = m - 1 /\ \A k \in 1 .. m - 1 : h[k] = c[k]
  <2>1. m \in Int /\ m - 1 \in Int /\ m - 1 <= Len(c) /\ 1 <= m
    BY <1>2, <1>3, <1>4
  <2>2. h \in Texts
    BY <2>1, PartFacts
  <2>3. Len(h) = IF 1 <= m - 1 THEN (m - 1) - 1 + 1 ELSE 0
    BY <2>1, PartFacts
  <2>4. \A k \in 1 .. (m - 1) - 1 + 1 : h[k] = c[k + 1 - 1]
    BY <2>1, PartFacts
  <2> HIDE DEF h
  <2>5. \A k \in 1 .. m - 1 : k \in 1 .. (m - 1) - 1 + 1 /\ k + 1 - 1 = k
    BY <2>1
  <2>6. Len(h) = m - 1
    BY <2>1, <2>3
  <2>7. \A k \in 1 .. m - 1 : h[k] = c[k]
    BY <2>4, <2>5
  <2> QED BY <2>2, <2>6, <2>7
<1> HIDE DEF h
<1>6. \A k \in 1 .. Len(q) : q[k] = c[k]
  BY <1>2, <1>3, PartFacts DEF IsBelow
<1>7. CASE Len(q) = m - 1
  <2>1. q = h
    BY <1>3, <1>5, <1>6, <1>7, SameText
  <2> QED BY <1>2, <1>5, <2>1, AboveIs DEF h
<1>8. CASE Len(q) # m - 1
  <2>1. Len(q) < Len(h) /\ Len(q) + 1 \in 1 .. m - 1
    BY <1>2, <1>3, <1>4, <1>5, <1>8
  <2>2. h[Len(q) + 1] = "/"
    BY <1>3, <1>5, <2>1 DEF IsBelow
  <2>3. SubSeq(h, 1, Len(q)) = q
    <3>1. SubSeq(h, 1, Len(q)) \in Texts /\ Len(SubSeq(h, 1, Len(q))) = Len(q)
      BY <1>3, <1>5, <2>1, PartFacts
    <3>2. \A k \in 1 .. Len(q) : SubSeq(h, 1, Len(q))[k] = h[k]
      BY <1>3, <1>5, <2>1, PartFacts
    <3>3. \A k \in 1 .. Len(q) : h[k] = c[k]
      BY <1>3, <1>5, <2>1
    <3> QED BY <1>3, <1>6, <3>1, <3>2, <3>3, SameText
  <2>4. IsBelow(q, h)
    BY <2>1, <2>2, <2>3 DEF IsBelow
  <2> QED BY <1>2, <1>3, <1>5, <2>4, AboveIs DEF h
<1> QED BY <1>7, <1>8

-----------------------------------------------------------------------------
(* The invariant of the walk.                                               *)

Entries == tree.dirs \cup tree.files

\* Nothing excludes x; nothing excludes what is above x.
Kept(x) == \A q \in Above(x) : ~Ignored(q)
Reached(x) == \A q \in Above(x) \ {x} : ~Ignored(q)

Covers(s, x) == \E k \in 1 .. Len(s) : s[k] \in Above(x)

\* What the walk has still to find: a source file, or a directory to fail at.
Wanted(x) ==
  /\ x \in Entries \ gone /\ Kept(x)
  /\ x \in tree.unreadable \/ (x \in tree.files \ files /\ IsSupportedSource(x))

\* What is removed is removed with all that is below.
Whole == gone \subseteq Entries /\ \A x \in Entries : (\E c \in Above(x) : c \in gone) => x \in gone

Found == \A f \in files : f \in tree.files /\ IsSupportedSource(f) /\ Kept(f)

WalkInv ==
  /\ Readable /\ Whole
  /\ todo \in Seq(Entries) /\ \A k \in 1 .. Len(todo) : Reached(todo[k])
  /\ phase \in {"walk", "scanned"} => Found
  /\ phase = "walk" => \A x : Wanted(x) => Covers(todo, x)
  /\ phase = "scanned" => \A x : ~Wanted(x)
  /\ phase = "error" => \E d \in tree.unreadable \cup gone : IsDir(d) /\ Kept(d)

LEMMA OnTheWay ==
  ASSUME Readable, Whole, NEW x \in Entries \ gone, NEW c \in Above(x)
  PROVE  c \in Entries \ gone
<1>1. x \in Texts /\ Above(x) \ {x} \subseteq tree.dirs
  BY TreeFacts DEF Entries
<1> QED BY <1>1 DEF Entries, Whole

LEMMA TopCovers ==
  ASSUME Readable, Whole, NEW x \in Entries \ gone
  PROVE  Covers(Children(<<>>), x)
<1>1. x \in Texts
  BY TreeFacts DEF Entries
<1>2. 0 \in 0 .. Len(x)
  BY <1>1, TextFacts
<1>3. PICK c \in Above(x) : LastSlash(0, c)
  BY <1>1, <1>2, FirstStep
<1>4. c \in Texts /\ c \in Entries \ gone
  BY <1>1, AboveIs, OnTheWay
<1>5. Parent(c) = SubSeq(c, 1, 0 - 1)
  BY <1>3, <1>4, LastSlashIs
<1>6. SubSeq(c, 1, 0 - 1) = <<>>
  <2>1. Len(c) \in Nat /\ 0 - 1 \in Int /\ 0 - 1 <= Len(c)
    BY <1>4, TextFacts
  <2>2. SubSeq(c, 1, 0 - 1) \in Texts /\ Len(SubSeq(c, 1, 0 - 1)) = 0
    BY <1>4, <2>1, PartFacts
  <2> DEFINE u == SubSeq(c, 1, 0 - 1)
  <2>3. u \in Seq(Chars) /\ Len(u) = 0
    BY <2>2 DEF Texts
  <2> HIDE DEF u
  <2>4. u = <<>>
    BY <2>3, EmptySeq
  <2> QED BY <2>4 DEF u
<1>7. PICK k \in 1 .. Len(Children(<<>>)) : Children(<<>>)[k] = c
  BY <1>4, <1>5, <1>6, ChildrenAre DEF Entries
<1> QED BY <1>3, <1>7 DEF Covers

LEMMA ChildrenCover ==
  ASSUME Readable, Whole, NEW x \in Entries \ gone, NEW h \in Above(x), h # x
  PROVE  Covers(Children(h), x)
<1>1. x \in Texts /\ h \in Texts
  BY TreeFacts, AboveIs DEF Entries
<1>2. IsBelow(h, x) /\ Len(h) \in Nat /\ Len(x) \in Nat
  BY <1>1, AboveIs, TextFacts
<1> DEFINE n == Len(h) + 1
<1>3. n \in 0 .. Len(x) /\ x[n] = "/"
  BY <1>2 DEF IsBelow
<1>4. PICK c \in Above(x) : LastSlash(n, c) /\ \A k \in 1 .. n : c[k] = x[k]
  BY <1>1, <1>3, FirstStep
<1>5. c \in Texts /\ c \in Entries \ gone
  BY <1>1, <1>4, AboveIs, OnTheWay
<1>6. Parent(c) = SubSeq(c, 1, n - 1) /\ n - 1 = Len(h)
  BY <1>2, <1>4, <1>5, LastSlashIs
<1>7. SubSeq(c, 1, Len(h)) = h
  <2> DEFINE u == SubSeq(c, 1, Len(h))
  <2>1. Len(c) \in Nat /\ Len(h) <= Len(c)
    BY <1>2, <1>4, <1>5, TextFacts DEF LastSlash
  <2>2. u \in Texts /\ Len(u) = Len(h) /\ \A k \in 1 .. Len(h) : u[k] = c[k]
    BY <1>2, <1>5, <2>1, PartFacts
  <2>3. \A k \in 1 .. Len(h) : h[k] = x[k]
    BY <1>1, <1>2, PartFacts DEF IsBelow
  <2>4. \A k \in 1 .. Len(h) : k \in 1 .. n
    BY <1>2
  <2> HIDE DEF u
  <2>5. u = h
    BY <1>1, <1>4, <2>2, <2>3, <2>4, SameText
  <2> QED BY <2>5 DEF u
<1>8. PICK k \in 1 .. Len(Children(h)) : Children(h)[k] = c
  BY <1>5, <1>6, <1>7, ChildrenAre DEF Entries
<1> QED BY <1>4, <1>8 DEF Covers

LEMMA TopIsReached ==
  ASSUME Readable, NEW k \in 1 .. Len(Children(<<>>))
  PROVE  Reached(Children(<<>>)[k])
<1> DEFINE c == Children(<<>>)[k]
<1>1. c \in Entries /\ Parent(c) = <<>>
  BY ChildrenAre DEF Entries
<1> HIDE DEF c
<1>2. c \in Texts /\ Above(c) \ {c} \subseteq tree.dirs
  BY <1>1, TreeFacts DEF Entries
<1>3. ASSUME NEW q \in Above(c) \ {c} PROVE FALSE
  <2>1. q \in Above(<<>>)
    BY <1>1, <1>2, AboveChild
  <2>2. Above(<<>>) = {<<>>}
    BY DEF Above
  <2>3. q \in tree.dirs /\ q = <<>>
    BY <1>2, <2>1, <2>2
  <2> QED BY <2>3, TreeFacts
<1>4. Reached(c)
  BY <1>3 DEF Reached
<1> QED BY <1>4 DEF c

LEMMA ChildrenAreReached ==
  ASSUME Readable, NEW h, Kept(h), NEW k \in 1 .. Len(Children(h))
  PROVE  Reached(Children(h)[k])
<1> DEFINE c == Children(h)[k]
<1>1. c \in Entries /\ Parent(c) = h
  BY ChildrenAre DEF Entries
<1> HIDE DEF c
<1>2. c \in Texts
  BY <1>1, TreeFacts DEF Entries
<1>3. \A q \in Above(c) \ {c} : q \in Above(h)
  BY <1>1, <1>2, AboveChild
<1>4. Reached(c)
  BY <1>3 DEF Reached, Kept
<1> QED BY <1>4 DEF c

LEMMA HeadOfTodo ==
  ASSUME todo \in Seq(Entries), \A k \in 1 .. Len(todo) : Reached(todo[k]), todo # <<>>
  PROVE  /\ Head(todo) \in Entries /\ Reached(Head(todo))
         /\ Tail(todo) \in Seq(Entries)
         /\ \A k \in 1 .. Len(Tail(todo)) : Reached(Tail(todo)[k])
         /\ \A x : Covers(todo, x) => Head(todo) \in Above(x) \/ Covers(Tail(todo), x)
<1> DEFINE s == Tail(todo)
<1>1. /\ Len(todo) \in Nat /\ 1 \in 1 .. Len(todo) /\ Head(todo) = todo[1]
      /\ s \in Seq(Entries) /\ Len(s) = Len(todo) - 1
      /\ \A k \in 1 .. Len(s) : s[k] = todo[k + 1]
  OBVIOUS
<1> HIDE DEF s
<1>2. Head(todo) \in Entries /\ Reached(Head(todo))
  BY <1>1
<1>3. \A k \in 1 .. Len(s) : k + 1 \in 1 .. Len(todo)
  BY <1>1
<1>4. \A k \in 1 .. Len(s) : Reached(s[k])
  BY <1>1, <1>3
<1>5. ASSUME NEW x, NEW k \in 1 .. Len(todo), todo[k] \in Above(x), Head(todo) \notin Above(x)
      PROVE  Covers(s, x)
  <2>1. k # 1
    BY <1>1, <1>5
  <2>2. k - 1 \in 1 .. Len(s) /\ k - 1 + 1 = k
    BY <1>1, <2>1
  <2>3. s[k - 1] = todo[k]
    BY <1>1, <2>2
  <2> QED BY <1>5, <2>2, <2>3 DEF Covers
<1> QED BY <1>1, <1>2, <1>4, <1>5 DEF s, Covers

LEMMA LinesAreTexts ==
  ASSUME NEW line \in Seq(STRING)
  PROVE  ParseLine(line).pattern \in Texts
<1>1. line \in Texts
  BY SeqOfStrings
<1>2. ASSUME NEW t \in Texts PROVE TrimPrefix(t, Slash) \in Texts /\ TrimSuffix(t, Slash) \in Texts
  <2>1. Len(t) \in Nat /\ Len(Slash) + 1 \in Nat /\ Len(Slash) + 1 >= 1 /\ Len(Slash) \in Nat
    BY TextFacts, SlashIsText
  <2>2. SubSeq(t, Len(Slash) + 1, Len(t)) \in Texts
    BY <2>1, PartFacts
  <2>3. SubSeq(t, 1, Len(t) - Len(Slash)) \in Texts
    <3>1. Len(t) - Len(Slash) \in Int /\ Len(t) - Len(Slash) <= Len(t)
      BY <2>1
    <3> QED BY <3>1, PartFacts
  <2> QED BY <2>2, <2>3 DEF TrimPrefix, TrimSuffix
<1>3. CASE line = <<>> \/ line[1] \in {"#", "!"}
  <2>1. ParseLine(line).pattern = <<>>
    BY <1>3 DEF ParseLine, NoPattern
  <2> QED BY <2>1 DEF Texts
<1>4. CASE ~(line = <<>> \/ line[1] \in {"#", "!"})
  <2>1. ParseLine(line).pattern = TrimSuffix(TrimPrefix(line, Slash), Slash)
    BY <1>4 DEF ParseLine
  <2> QED BY <1>1, <1>2, <2>1
<1> QED BY <1>3, <1>4

LEMMA WalkStarts == ScanInit => WalkInv
<1> SUFFICES ASSUME ScanInit PROVE WalkInv
  OBVIOUS
<1>1. PICK c \in Cases : tree = c.tree /\ patterns = Load(c.lines)
  BY DEF ScanInit
<1>2. phase = "walk" /\ gone = {} /\ files = {} /\ todo = Children(<<>>)
  BY DEF ScanInit
<1>3. Readable
  <2>1. IsTree(tree) /\ \A k \in DOMAIN c.lines : c.lines[k] \in Seq(STRING)
    BY <1>1, TreesAssumption
  <2>2. ASSUME NEW p \in patterns PROVE p.pattern \in Texts
    <3>1. PICK k \in DOMAIN c.lines : p = ParseLine(c.lines[k])
      BY <1>1 DEF Load
    <3> QED BY <2>1, <3>1, LinesAreTexts
  <2> QED BY <2>1, <2>2 DEF Readable
<1>4. Whole /\ Found
  BY <1>2 DEF Whole, Found
<1>5. todo \in Seq(Entries)
  BY <1>2, <1>3, ChildrenAre DEF Entries
<1>6. \A k \in 1 .. Len(todo) : Reached(todo[k])
  BY <1>2, <1>3, TopIsReached
<1>7. \A x : Wanted(x) => Covers(todo, x)
  BY <1>2, <1>3, <1>4, TopCovers DEF Wanted
<1> QED BY <1>2, <1>3, <1>4, <1>5, <1>6, <1>7 DEF WalkInv

\* What a step leaves as it was.
LEMMA SameTree ==
  ASSUME tree' = tree, patterns' = patterns
  PROVE  /\ Readable' <=> Readable
         /\ Entries' = Entries
         /\ \A x : (Kept(x)' <=> Kept(x)) /\ (Reached(x)' <=> Reached(x))
<1>1. \A q : Ignored(q)' <=> Ignored(q)
  BY DEF Ignored, ShouldIgnore, IsDir
<1> QED BY <1>1 DEF Readable, Entries, Kept, Reached

LEMMA FileIsVisited ==
  ASSUME WalkInv, VisitFile
  PROVE  WalkInv'
<1> DEFINE h == Head(todo)
<1>1. /\ phase = "walk" /\ phase' = "walk" /\ todo # <<>> /\ h \notin tree.dirs
      /\ tree' = tree /\ patterns' = patterns /\ gone' = gone /\ todo' = Tail(todo)
      /\ files' = IF ShouldIgnore(h, FALSE) \/ ~IsSupportedSource(h) THEN files ELSE files \cup {h}
  BY DEF VisitFile, Walking, IsDir, settings
<1>2. Readable /\ Whole /\ Found /\ \A x : Wanted(x) => Covers(todo, x)
  BY <1>1 DEF WalkInv
<1>3. Readable' /\ Entries' = Entries /\ \A x : (Kept(x)' <=> Kept(x)) /\ (Reached(x)' <=> Reached(x))
  BY <1>1, <1>2, SameTree
<1>4. /\ h \in Entries /\ Reached(h) /\ Tail(todo) \in Seq(Entries)
      /\ \A k \in 1 .. Len(Tail(todo)) : Reached(Tail(todo)[k])
      /\ \A x : Covers(todo, x) => h \in Above(x) \/ Covers(Tail(todo), x)
  BY <1>1, HeadOfTodo DEF WalkInv
<1> HIDE DEF h
<1>5. Whole'
  BY <1>1, <1>2, <1>3 DEF Whole
<1>6. h \in tree.files
  BY <1>1, <1>4 DEF Entries
<1>7. Ignored(h) <=> ShouldIgnore(h, FALSE)
  <2>1. IsDir(h) = FALSE
    BY <1>1 DEF IsDir
  <2> QED BY <2>1, Zenon DEF Ignored
<1>8. Found'
  <2>1. ASSUME NEW f \in files' PROVE f \in tree.files /\ IsSupportedSource(f) /\ Kept(f)
    <3>1. CASE f \in files
      BY <1>2, <3>1 DEF Found
    <3>2. CASE f \notin files
      <4>1. f = h /\ ~Ignored(h) /\ IsSupportedSource(h)
        BY <1>1, <1>7, <2>1, <3>2
      <4>2. Kept(h)
        BY <1>4, <4>1 DEF Kept, Reached
      <4> QED BY <1>6, <4>1, <4>2
    <3> QED BY <3>1, <3>2
  <2> QED BY <1>1, <1>3, <2>1 DEF Found
<1>9. ASSUME NEW x, Wanted(x)' PROVE Covers(todo', x)
  <2>1. /\ x \in Entries \ gone /\ Kept(x)
        /\ x \in tree.unreadable \/ (x \in tree.files \ files' /\ IsSupportedSource(x))
    BY <1>1, <1>3, <1>9 DEF Wanted
  <2>2. Wanted(x)
    BY <1>1, <2>1 DEF Wanted
  <2>3. CASE h \in Above(x)
    <3>1. h = x
      BY <1>1, <1>2, <2>1, <2>3, TreeFacts DEF Entries
    <3>2. x \notin tree.unreadable
      BY <1>1, <1>2, <3>1, TreeFacts
    <3>3. x \in Above(x)
      BY <2>3, <3>1
    <3>4. ~Ignored(x)
      BY <2>1, <3>3 DEF Kept
    <3> QED BY <1>1, <1>7, <2>1, <3>1, <3>2, <3>4
  <2> QED BY <1>1, <1>2, <1>4, <2>2, <2>3
<1>10. (\A x : Wanted(x) => Covers(todo, x))'
  BY <1>9
<1>11. (todo \in Seq(Entries) /\ \A k \in 1 .. Len(todo) : Reached(todo[k]))'
  BY <1>1, <1>3, <1>4
<1> QED BY <1>1, <1>3, <1>5, <1>8, <1>10, <1>11 DEF WalkInv

LEMMA DirIsSkipped ==
  ASSUME WalkInv, SkipDir
  PROVE  WalkInv'
<1> DEFINE h == Head(todo)
<1>1. /\ phase = "walk" /\ phase' = "walk" /\ todo # <<>> /\ Ignored(h)
      /\ tree' = tree /\ patterns' = patterns /\ gone' = gone /\ todo' = Tail(todo) /\ files' = files
  BY DEF SkipDir, Walking, Ignored, settings
<1>2. Readable /\ Whole /\ Found /\ \A x : Wanted(x) => Covers(todo, x)
  BY <1>1 DEF WalkInv
<1>3. Readable' /\ Entries' = Entries /\ \A x : (Kept(x)' <=> Kept(x)) /\ (Reached(x)' <=> Reached(x))
  BY <1>1, <1>2, SameTree
<1>4. /\ Tail(todo) \in Seq(Entries)
      /\ \A k \in 1 .. Len(Tail(todo)) : Reached(Tail(todo)[k])
      /\ \A x : Covers(todo, x) => h \in Above(x) \/ Covers(Tail(todo), x)
  BY <1>1, HeadOfTodo DEF WalkInv
<1> HIDE DEF h
<1>5. Whole' /\ Found'
  BY <1>1, <1>2, <1>3 DEF Whole, Found
<1>6. ASSUME NEW x, Wanted(x)' PROVE Covers(todo', x)
  <2>1. Wanted(x) /\ Kept(x)
    BY <1>1, <1>3, <1>6 DEF Wanted
  <2>2. h \notin Above(x)
    BY <1>1, <2>1 DEF Kept
  <2> QED BY <1>1, <1>2, <1>4, <2>1, <2>2
<1>7. (\A x : Wanted(x) => Covers(todo, x))'
  BY <1>6
<1>8. (todo \in Seq(Entries) /\ \A k \in 1 .. Len(todo) : Reached(todo[k]))'
  BY <1>1, <1>3, <1>4
<1> QED BY <1>1, <1>3, <1>5, <1>7, <1>8 DEF WalkInv

LEMMA DirIsEntered ==
  ASSUME WalkInv, EnterDir
  PROVE  WalkInv'
<1> DEFINE h == Head(todo)
           s == Tail(todo)
           c == Children(h)
<1>1. /\ phase = "walk" /\ phase' = "walk" /\ todo # <<>>
      /\ h \in tree.dirs /\ ~Ignored(h) /\ h \notin tree.unreadable
      /\ tree' = tree /\ patterns' = patterns /\ gone' = gone /\ todo' = c \o s /\ files' = files
  <2>1. /\ phase = "walk" /\ phase' = "walk" /\ todo # <<>> /\ h \in tree.dirs /\ h \notin tree.unreadable
        /\ tree' = tree /\ patterns' = patterns /\ gone' = gone /\ todo' = c \o s /\ files' = files
    BY DEF EnterDir, Walking, IsDir, settings
  <2>2. IsDir(h) = TRUE /\ ~ShouldIgnore(h, TRUE)
    BY DEF EnterDir, IsDir
  <2>3. ~Ignored(h)
    BY <2>2, Zenon DEF Ignored
  <2> QED BY <2>1, <2>3
<1>2. Readable /\ Whole /\ Found /\ \A x : Wanted(x) => Covers(todo, x)
  BY <1>1 DEF WalkInv
<1>3. Readable' /\ Entries' = Entries /\ \A x : (Kept(x)' <=> Kept(x)) /\ (Reached(x)' <=> Reached(x))
  BY <1>1, <1>2, SameTree
<1>4. /\ h \in Entries /\ Reached(h) /\ s \in Seq(Entries)
      /\ \A k \in 1 .. Len(s) : Reached(s[k])
      /\ \A x : Covers(todo, x) => h \in Above(x) \/ Covers(s, x)
  BY <1>1, HeadOfTodo DEF WalkInv
<1>5. Kept(h)
  BY <1>1, <1>4 DEF Kept, Reached
<1>6. c \in Seq(Entries)
  BY <1>2, ChildrenAre DEF Entries
<1>7. \A k \in 1 .. Len(c) : Reached(c[k])
  BY <1>2, <1>5, ChildrenAreReached
<1>8. \A x \in Entries \ gone : h \in Above(x) /\ h # x => Covers(c, x)
  BY <1>2, ChildrenCover
<1> HIDE DEF h, s, c
<1>9. /\ c \o s \in Seq(Entries) /\ Len(c) \in Nat /\ Len(s) \in Nat /\ Len(c \o s) = Len(c) + Len(s)
      /\ \A k \in 1 .. Len(c) : (c \o s)[k] = c[k]
      /\ \A k \in 1 .. Len(s) : (c \o s)[Len(c) + k] = s[k]
  <2>1. c \o s \in Seq(Entries) /\ Len(c) \in Nat /\ Len(s) \in Nat /\ Len(c \o s) = Len(c) + Len(s)
    BY <1>4, <1>6
  <2>2. \A k \in 1 .. Len(c) : (c \o s)[k] = c[k]
    BY <1>4, <1>6
  <2>3. \A k \in 1 .. Len(s) : (c \o s)[Len(c) + k] = s[k]
    BY <1>4, <1>6
  <2> QED BY <2>1, <2>2, <2>3
<1> DEFINE both == c \o s
<1> HIDE DEF both
<1>10. /\ both \in Seq(Entries) /\ todo' = both
       /\ \A k \in 1 .. Len(both) : Reached(both[k])
       /\ \A x : Covers(c, x) \/ Covers(s, x) => Covers(both, x)
  <2>1. /\ both \in Seq(Entries) /\ todo' = both /\ Len(both) = Len(c) + Len(s)
        /\ \A k \in 1 .. Len(c) : both[k] = c[k]
        /\ \A k \in 1 .. Len(s) : both[Len(c) + k] = s[k]
    BY <1>1, <1>9 DEF both
  <2>2. ASSUME NEW k \in 1 .. Len(both) PROVE Reached(both[k])
    <3>1. CASE k \in 1 .. Len(c)
      BY <1>7, <2>1, <3>1
    <3>2. CASE k \notin 1 .. Len(c)
      <4>1. k - Len(c) \in 1 .. Len(s) /\ Len(c) + (k - Len(c)) = k
        BY <1>9, <2>1, <3>2
      <4>2. both[k] = s[k - Len(c)]
        BY <2>1, <4>1
      <4> QED BY <1>4, <4>1, <4>2
    <3> QED BY <3>1, <3>2
  <2>3. \A k \in 1 .. Len(c) : k \in 1 .. Len(both)
    BY <1>9, <2>1
  <2>4. \A k \in 1 .. Len(s) : Len(c) + k \in 1 .. Len(both)
    BY <1>9, <2>1
  <2>5. \A x : Covers(c, x) \/ Covers(s, x) => Covers(both, x)
    BY <2>1, <2>3, <2>4 DEF Covers
  <2> QED BY <2>1, <2>2, <2>5
<1>11. Whole' /\ Found'
  BY <1>1, <1>2, <1>3 DEF Whole, Found
<1>12. ASSUME NEW x, Wanted(x)' PROVE Covers(both, x)
  <2>1. Wanted(x) /\ x \in Entries \ gone /\ (x \in tree.unreadable \/ x \in tree.files)
    BY <1>1, <1>3, <1>12 DEF Wanted
  <2>2. h # x
    BY <1>1, <1>2, <2>1, TreeFacts
  <2> QED BY <1>2, <1>4, <1>8, <1>10, <2>1, <2>2
<1>13. (\A x : Wanted(x) => Covers(todo, x))'
  BY <1>10, <1>12
<1>14. (todo \in Seq(Entries) /\ \A k \in 1 .. Len(todo) : Reached(todo[k]))'
  BY <1>3, <1>10
<1> QED BY <1>1, <1>3, <1>11, <1>13, <1>14 DEF WalkInv

LEMMA WalkFails ==
  ASSUME WalkInv, WalkError
  PROVE  WalkInv'
<1> DEFINE h == Head(todo)
<1>1. /\ phase = "walk" /\ phase' = "error" /\ todo # <<>> /\ IsDir(h) /\ h \in tree.unreadable \cup gone
      /\ tree' = tree /\ patterns' = patterns /\ gone' = gone /\ todo' = todo
  BY DEF WalkError, Walking, settings
<1>2. Readable /\ Whole
  BY DEF WalkInv
<1>3. Readable' /\ Entries' = Entries /\ \A x : (Kept(x)' <=> Kept(x)) /\ (Reached(x)' <=> Reached(x))
  BY <1>1, <1>2, SameTree
<1>4. Reached(h)
  BY <1>1, HeadOfTodo DEF WalkInv
<1>5. ~Ignored(h)
  <2>1. IsDir(h) = TRUE /\ ~ShouldIgnore(h, TRUE)
    BY DEF WalkError, IsDir
  <2> QED BY <2>1, Zenon DEF Ignored
<1> HIDE DEF h
<1>6. Kept(h)
  BY <1>4, <1>5 DEF Kept, Reached
<1>7. Whole'
  BY <1>1, <1>2, <1>3 DEF Whole
<1>8. (\E d \in tree.unreadable \cup gone : IsDir(d) /\ Kept(d))'
  BY <1>1, <1>3, <1>6 DEF IsDir
<1>9. (todo \in Seq(Entries) /\ \A k \in 1 .. Len(todo) : Reached(todo[k]))'
  BY <1>1, <1>3 DEF WalkInv
<1> QED BY <1>1, <1>3, <1>7, <1>8, <1>9 DEF WalkInv

LEMMA WalkEnds ==
  ASSUME WalkInv, EndWalk
  PROVE  WalkInv'
<1>1. /\ phase = "walk" /\ phase' = "scanned" /\ todo = <<>>
      /\ tree' = tree /\ patterns' = patterns /\ gone' = gone /\ todo' = todo /\ files' = files
  BY DEF EndWalk, settings
<1>2. Readable /\ Whole /\ Found /\ \A x : Wanted(x) => Covers(todo, x)
  BY <1>1 DEF WalkInv
<1>3. Readable' /\ Entries' = Entries /\ \A x : (Kept(x)' <=> Kept(x)) /\ (Reached(x)' <=> Reached(x))
  BY <1>1, <1>2, SameTree
<1>4. Whole' /\ Found'
  BY <1>1, <1>2, <1>3 DEF Whole, Found
<1>5. \A x : ~Covers(todo, x)
  BY <1>1 DEF Covers
<1>6. ASSUME NEW x, Wanted(x)' PROVE FALSE
  <2>1. Wanted(x)
    BY <1>1, <1>3, <1>6 DEF Wanted
  <2> QED BY <1>2, <1>5, <2>1
<1>7. (\A x : ~Wanted(x))'
  BY <1>6
<1>8. (todo \in Seq(Entries) /\ \A k \in 1 .. Len(todo) : Reached(todo[k]))'
  BY <1>1, <1>3 DEF WalkInv
<1> QED BY <1>1, <1>3, <1>4, <1>7, <1>8 DEF WalkInv

LEMMA DirIsRemoved ==
  ASSUME WalkInv, NEW d \in tree.removable, RemoveDir(d)
  PROVE  WalkInv'
<1>1. /\ phase = "walk" /\ phase' = "walk" /\ gone = {}
      /\ gone' = {p \in Entries : p = d \/ IsPrefix(d \o Slash, p)}
      /\ tree' = tree /\ patterns' = patterns /\ todo' = todo /\ files' = files
  BY DEF RemoveDir, settings, Entries
<1>2. Readable /\ Found /\ \A x : Wanted(x) => Covers(todo, x)
  BY <1>1 DEF WalkInv
<1>3. Readable' /\ Entries' = Entries /\ \A x : (Kept(x)' <=> Kept(x)) /\ (Reached(x)' <=> Reached(x))
  BY <1>1, <1>2, SameTree
<1>4. d \in Texts
  BY <1>2, TreeFacts
<1>5. ASSUME NEW x \in Entries, NEW c \in Above(x), c \in gone' PROVE x \in gone'
  <2>1. x \in Texts /\ c \in Texts
    BY <1>1, <1>2, <1>5, TreeFacts DEF Entries
  <2>2. d \in Above(c)
    <3>1. CASE c = d
      BY <2>1, <3>1, AboveIs
    <3>2. CASE c # d
      <4>1. IsPrefix(d \o Slash, c)
        BY <1>1, <1>5, <3>2
      <4> QED BY <1>4, <2>1, <4>1, BelowIs, AboveIs
    <3> QED BY <3>1, <3>2
  <2>3. d \in Above(x)
    BY <2>1, <2>2, AboveTrans
  <2>4. x = d \/ IsPrefix(d \o Slash, x)
    BY <1>4, <2>1, <2>3, BelowIs, AboveIs
  <2> QED BY <1>1, <2>4
<1>6. Whole'
  BY <1>1, <1>3, <1>5 DEF Whole
<1>7. Found'
  BY <1>1, <1>2, <1>3 DEF Found
<1>8. ASSUME NEW x, Wanted(x)' PROVE Covers(todo', x)
  <2>1. Wanted(x)
    BY <1>1, <1>3, <1>8 DEF Wanted
  <2> QED BY <1>1, <1>2, <2>1
<1>9. (\A x : Wanted(x) => Covers(todo, x))'
  BY <1>8
<1>10. (todo \in Seq(Entries) /\ \A k \in 1 .. Len(todo) : Reached(todo[k]))'
  BY <1>1, <1>3 DEF WalkInv
<1> QED BY <1>1, <1>3, <1>6, <1>7, <1>9, <1>10 DEF WalkInv

LEMMA FilesAreSelected ==
  ASSUME WalkInv, Apply
  PROVE  WalkInv'
<1>1. phase' = "indexed" /\ tree' = tree /\ patterns' = patterns /\ gone' = gone /\ todo' = todo
  BY DEF Apply, settings
<1>2. Readable /\ Whole
  BY DEF WalkInv
<1>3. Readable' /\ Entries' = Entries /\ \A x : (Kept(x)' <=> Kept(x)) /\ (Reached(x)' <=> Reached(x))
  BY <1>1, <1>2, SameTree
<1>4. Whole'
  BY <1>1, <1>2, <1>3 DEF Whole
<1>5. (todo \in Seq(Entries) /\ \A k \in 1 .. Len(todo) : Reached(todo[k]))'
  BY <1>1, <1>3 DEF WalkInv
<1> QED BY <1>1, <1>3, <1>4, <1>5 DEF WalkInv

\* The walk always has before it what it still has to find.
THEOREM WalkKeepsInv == ScanSpec => []WalkInv
<1>1. ScanInit => WalkInv
  BY WalkStarts
<1>2. WalkInv /\ [ScanNext]_scanVars => WalkInv'
  <2> SUFFICES ASSUME WalkInv, [ScanNext]_scanVars PROVE WalkInv'
    OBVIOUS
  <2>1. CASE VisitFile
    BY <2>1, FileIsVisited
  <2>2. CASE SkipDir
    BY <2>2, DirIsSkipped
  <2>3. CASE EnterDir
    BY <2>3, DirIsEntered
  <2>4. CASE WalkError
    BY <2>4, WalkFails
  <2>5. CASE EndWalk
    BY <2>5, WalkEnds
  <2>6. CASE \E d \in tree.removable : RemoveDir(d)
    BY <2>6, DirIsRemoved
  <2>7. CASE Apply
    BY <2>7, FilesAreSelected
  <2>8. CASE UNCHANGED scanVars
    BY <2>8 DEF scanVars, WalkInv, Readable, Whole, Entries, Reached, Ignored, ShouldIgnore, IsDir,
                Found, Kept, Wanted
  <2> QED BY <2>1, <2>2, <2>3, <2>4, <2>5, <2>6, <2>7, <2>8 DEF ScanNext, Stopped
<1> QED BY <1>1, <1>2, PTL DEF ScanSpec

\* repo.Scan finds the supported files that git would track, and fails only at a
\* directory it has to look into: for every work tree and every list of
\* patterns that the code and git read alike.
THEOREM GitIsScanned == ScanSpec => []ScansWhatGitTracks
<1>1. WalkInv => ScansWhatGitTracks
  <2> SUFFICES ASSUME WalkInv, \A p \in patterns : AsInGit(p)
               PROVE  /\ phase = "scanned" =>
                           /\ \A f \in tree.files \ gone : IsSupportedSource(f) /\ ~Excluded(f) => f \in files
                           /\ \A f \in files : f \in tree.files /\ IsSupportedSource(f) /\ ~Excluded(f)
                           /\ \A d \in tree.unreadable : ~Excluded(d) => d \in gone
                      /\ phase = "error" =>
                           \/ \E d \in tree.unreadable : ~Excluded(d)
                           \/ \E d \in gone : IsDir(d) /\ ~Excluded(d)
    BY DEF ScansWhatGitTracks
  <2>1. Readable /\ Whole
    BY DEF WalkInv
  <2>2. \A f \in Entries : Kept(f) <=> ~Excluded(f)
    BY <2>1, ExcludedIs DEF Kept, Entries
  <2>3. tree.unreadable \subseteq Entries /\ tree.files \subseteq Entries /\ gone \subseteq Entries
    BY <2>1, TreeFacts DEF Entries, Whole
  <2>4. ASSUME phase = "scanned"
        PROVE  /\ \A f \in tree.files \ gone : IsSupportedSource(f) /\ ~Excluded(f) => f \in files
               /\ \A f \in files : f \in tree.files /\ IsSupportedSource(f) /\ ~Excluded(f)
               /\ \A d \in tree.unreadable : ~Excluded(d) => d \in gone
    <3>1. Found /\ \A x : ~Wanted(x)
      BY <2>4 DEF WalkInv
    <3> QED BY <2>2, <2>3, <3>1 DEF Found, Wanted
  <2>5. ASSUME phase = "error"
        PROVE  \/ \E d \in tree.unreadable : ~Excluded(d)
               \/ \E d \in gone : IsDir(d) /\ ~Excluded(d)
    <3>1. PICK d \in tree.unreadable \cup gone : IsDir(d) /\ Kept(d)
      BY <2>5 DEF WalkInv
    <3> QED BY <2>2, <2>3, <3>1
  <2> QED BY <2>4, <2>5
<1> QED BY <1>1, WalkKeepsInv, PTL

-----------------------------------------------------------------------------
(* How a text ends.                                                         *)

Beyond == <<"/", "*", "*">>
Here == <<".", "/">>

LEMMA MarksAreTexts ==
  /\ Beyond \in Texts /\ Len(Beyond) = 3 /\ Beyond[1] = "/" /\ Beyond[2] = "*" /\ Beyond[3] = "*"
  /\ Here \in Texts /\ Len(Here) = 2 /\ Here[2] = "/"
  /\ DoubleStar \in Texts /\ Len(DoubleStar) = 2 /\ DoubleStar[1] = "*" /\ DoubleStar[2] = "*"
<1>1. "/" \in Chars /\ "*" \in Chars /\ "." \in Chars
  BY DEF Chars
<1>2. Beyond \in Seq(Chars) /\ Len(Beyond) = 3 /\ Beyond[1] = "/" /\ Beyond[2] = "*" /\ Beyond[3] = "*"
  BY <1>1 DEF Beyond
<1>3. Here \in Seq(Chars) /\ Len(Here) = 2 /\ Here[2] = "/"
  BY <1>1 DEF Here
<1>4. DoubleStar \in Seq(Chars) /\ Len(DoubleStar) = 2 /\ DoubleStar[1] = "*" /\ DoubleStar[2] = "*"
  BY <1>1 DEF DoubleStar
<1> QED BY <1>2, <1>3, <1>4 DEF Texts

LEMMA ReverseIs ==
  ASSUME NEW s \in Texts
  PROVE  /\ Reverse(s) \in Texts /\ Len(Reverse(s)) = Len(s)
         /\ \A k \in 1 .. Len(s) : Reverse(s)[k] = s[Len(s) + 1 - k]
<1>1. Len(s) \in Nat /\ \A k \in 1 .. Len(s) : s[k] \in Chars
  BY TextFacts
<1>2. \A k \in 1 .. Len(s) : (Len(s) - k) + 1 \in 1 .. Len(s) /\ (Len(s) - k) + 1 = Len(s) + 1 - k
  BY <1>1
<1>3. Reverse(s) = [k \in 1 .. Len(s) |-> s[(Len(s) - k) + 1]]
  BY DEF Reverse
<1> DEFINE r == Reverse(s)
<1> HIDE DEF r
<1>4. r \in Seq(Chars) /\ Len(r) = Len(s) /\ \A k \in 1 .. Len(s) : r[k] = s[(Len(s) - k) + 1]
  BY <1>1, <1>2, <1>3 DEF r
<1>5. \A k \in 1 .. Len(s) : r[k] = s[Len(s) + 1 - k]
  BY <1>2, <1>4
<1> QED BY <1>4, <1>5 DEF r, Texts

LEMMA SuffixIs ==
  ASSUME NEW s \in Texts, NEW t \in Texts
  PROVE  IsSuffix(s, t) <=>
           Len(s) <= Len(t) /\ \A k \in 1 .. Len(s) : s[Len(s) + 1 - k] = t[Len(t) + 1 - k]
<1>1. Len(s) \in Nat /\ Len(t) \in Nat
  BY TextFacts
<1>2. Reverse(s) \in Texts /\ Len(Reverse(s)) = Len(s) /\ \A k \in 1 .. Len(s) : Reverse(s)[k] = s[Len(s) + 1 - k]
  BY ReverseIs
<1>3. Reverse(t) \in Texts /\ Len(Reverse(t)) = Len(t) /\ \A k \in 1 .. Len(t) : Reverse(t)[k] = t[Len(t) + 1 - k]
  BY ReverseIs
<1> DEFINE a == Reverse(s)
           b == Reverse(t)
<1>4. IsSuffix(s, t) <=> IsPrefix(a, b)
  BY DEF IsSuffix
<1> HIDE DEF a, b
<1>5. IsPrefix(a, b) <=> Len(s) <= Len(t) /\ \A k \in 1 .. Len(s) : a[k] = b[k]
  BY <1>2, <1>3, PrefixIs DEF a, b
<1>6. Len(s) <= Len(t) => \A k \in 1 .. Len(s) : k \in 1 .. Len(t)
  BY <1>1
<1> QED BY <1>2, <1>3, <1>4, <1>5, <1>6 DEF a, b

LEMMA EndsInSlash ==
  ASSUME NEW t \in Texts
  PROVE  IsSuffix(Slash, t) <=> Len(t) >= 1 /\ t[Len(t)] = "/"
<1>1. Len(t) \in Nat
  BY TextFacts
<1>2. IsSuffix(Slash, t) <=> 1 <= Len(t) /\ \A k \in 1 .. 1 : Slash[1 + 1 - k] = t[Len(t) + 1 - k]
  BY SlashIsText, SuffixIs
<1>3. (\A k \in 1 .. 1 : Slash[1 + 1 - k] = t[Len(t) + 1 - k]) <=> Slash[1] = t[Len(t)]
  <2>1. \A k \in 1 .. 1 : k = 1 /\ 1 + 1 - k = 1 /\ Len(t) + 1 - k = Len(t)
    BY <1>1
  <2>2. 1 \in 1 .. 1
    OBVIOUS
  <2> QED BY <2>1, <2>2
<1> QED BY <1>1, <1>2, <1>3, SlashIsText

LEMMA EndsInStars ==
  ASSUME NEW t \in Texts, IsSuffix(Beyond, t)
  PROVE  Len(t) >= 3 /\ t[Len(t)] = "*"
<1>1. Len(t) \in Nat
  BY TextFacts
<1> DEFINE b == Beyond
<1>2. b \in Texts /\ Len(b) = 3 /\ b[3] = "*"
  BY MarksAreTexts
<1>3. Len(b) <= Len(t) /\ \A k \in 1 .. Len(b) : b[Len(b) + 1 - k] = t[Len(t) + 1 - k]
  BY <1>2, SuffixIs
<1> HIDE DEF b
<1>4. 1 \in 1 .. Len(b) /\ Len(b) + 1 - 1 = 3 /\ Len(t) + 1 - 1 = Len(t)
  BY <1>1, <1>2
<1>5. b[3] = t[Len(t)]
  BY <1>3, <1>4
<1> QED BY <1>1, <1>2, <1>3, <1>5

LEMMA TrimSuffixIs ==
  ASSUME NEW t \in Texts, NEW s \in Texts, Len(s) >= 1, IsSuffix(s, t)
  PROVE  /\ TrimSuffix(t, s) \in Texts /\ Len(TrimSuffix(t, s)) = Len(t) - Len(s)
         /\ TrimSuffix(t, s) # t
         /\ \A k \in 1 .. Len(t) - Len(s) : TrimSuffix(t, s)[k] = t[k]
<1>1. Len(s) \in Nat /\ Len(t) \in Nat /\ Len(s) <= Len(t)
  BY TextFacts, SuffixIs
<1> DEFINE n == Len(t) - Len(s)
           u == SubSeq(t, 1, n)
<1>2. TrimSuffix(t, s) = u
  BY DEF TrimSuffix
<1>3. n \in Nat /\ n <= Len(t) /\ n # Len(t)
  BY <1>1
<1> HIDE DEF n
<1>4. u \in Texts /\ Len(u) = n /\ \A k \in 1 .. n : u[k] = t[k]
  BY <1>3, PartFacts
<1> HIDE DEF u
<1>5. u # t
  BY <1>3, <1>4
<1> QED BY <1>2, <1>4, <1>5 DEF n

LEMMA TrimPrefixIs ==
  ASSUME NEW t \in Texts
  PROVE  /\ TrimPrefix(t, Here) \in Texts
         /\ t = <<>> => TrimPrefix(t, Here) = <<>>
<1>1. Len(t) \in Nat
  BY TextFacts
<1>2. CASE IsPrefix(Here, t)
  <2>1. 2 <= Len(t)
    BY <1>2, MarksAreTexts, PrefixIs
  <2>2. TrimPrefix(t, Here) = SubSeq(t, 3, Len(t))
    BY <1>2, MarksAreTexts DEF TrimPrefix
  <2>3. SubSeq(t, 3, Len(t)) \in Texts
    <3>1. 3 \in Nat /\ 3 >= 1 /\ Len(t) \in Int /\ Len(t) <= Len(t)
      BY <1>1
    <3> QED BY <3>1, PartFacts
  <2>4. t # <<>>
    BY <2>1
  <2> QED BY <2>2, <2>3, <2>4
<1>3. CASE ~IsPrefix(Here, t)
  BY <1>3 DEF TrimPrefix
<1> QED BY <1>2, <1>3

\* A part of a name has no star, if the name has none.
LEMMA NoStarInPrefix ==
  ASSUME NEW s \in Texts, NEW t \in Texts, IsPrefix(s, t), ~Has(t, "*")
  PROVE  ~Has(s, "*")
<1>1. Len(s) <= Len(t) /\ \A k \in 1 .. Len(s) : s[k] = t[k]
  BY PrefixIs
<1>2. Len(s) \in Nat /\ Len(t) \in Nat /\ DOMAIN s = 1 .. Len(s) /\ DOMAIN t = 1 .. Len(t)
  BY TextFacts
<1> QED BY <1>1, <1>2 DEF Has

LEMMA NoStarInDir ==
  ASSUME NEW d \in Texts, NEW t \in Texts, IsPrefix(d \o Slash, t), ~Has(t, "*")
  PROVE  ~Has(d, "*")
<1>1. IsBelow(d, t)
  BY BelowIs
<1>2. Len(d) < Len(t) /\ Len(d) \in Nat /\ Len(t) \in Nat /\ DOMAIN d = 1 .. Len(d) /\ DOMAIN t = 1 .. Len(t)
  BY <1>1, TextFacts DEF IsBelow
<1>3. \A k \in 1 .. Len(d) : d[k] = t[k]
  BY <1>1, <1>2, PartFacts DEF IsBelow
<1> QED BY <1>2, <1>3 DEF Has

-----------------------------------------------------------------------------
(* Where a part occurs, and the parts of a pattern.                         *)

Occurs(part, s, k) == k \in 1 .. Len(s) - Len(part) + 1 /\ SubSeq(s, k, k + Len(part) - 1) = part

LEMMA IndexIs ==
  ASSUME NEW s \in Texts, NEW part \in Texts, NEW n \in Nat, n >= 1
  PROVE  /\ Index(s, part, n) \in Nat
         /\ Index(s, part, n) = 0 => \A k \in Nat : k >= n => ~Occurs(part, s, k)
         /\ Index(s, part, n) # 0 =>
              /\ Index(s, part, n) >= n /\ Occurs(part, s, Index(s, part, n))
              /\ \A k \in Nat : k >= n /\ Occurs(part, s, k) => Index(s, part, n) <= k
<1> DEFINE at == {k \in n .. Len(s) - Len(part) + 1 : SubSeq(s, k, k + Len(part) - 1) = part}
<1>1. Len(s) \in Nat /\ Len(part) \in Nat
  BY TextFacts
<1>2. \A k \in Nat : k \in at <=> k >= n /\ Occurs(part, s, k)
  BY <1>1 DEF Occurs
<1>3. at \in SUBSET Nat /\ 0 \notin at
  BY <1>1
<1>4. Index(s, part, n) = IF at = {} THEN 0 ELSE Min(at)
  BY DEF Index
<1> HIDE DEF at
<1>5. CASE at = {}
  BY <1>2, <1>4, <1>5
<1>6. CASE at # {}
  <2>1. Min(at) \in at /\ \A k \in at : Min(at) <= k
    BY <1>3, <1>6, LeastNat DEF Min
  <2>2. Index(s, part, n) = Min(at)
    BY <1>4, <1>6
  <2> DEFINE m == Min(at)
  <2> HIDE DEF m
  <2>3. m \in Nat /\ m # 0 /\ m >= n /\ Occurs(part, s, m)
    BY <1>2, <1>3, <2>1 DEF m
  <2> QED BY <1>2, <2>1, <2>2, <2>3 DEF m
<1> QED BY <1>5, <1>6

LEMMA SplitIs ==
  ASSUME NEW p \in Texts
  PROVE  /\ Split(p) \in Seq(Texts) /\ Len(Split(p)) >= 1
         /\ Len(Split(p)) > 1 <=> Index(p, DoubleStar, 1) # 0
<1> DEFINE L == Len(p)
           S == {s \in Seq(Texts) : Len(s) >= 1}
           at(n) == Index(p, DoubleStar, n)
           Rest(f, n) == IF at(n) = 0 THEN <<SubSeq(p, n, L)>> ELSE <<SubSeq(p, n, at(n) - 1)>> \o f[at(n) + 2]
           IsFrom(t) == t = [n \in 1 .. L + 1 |-> Rest(t, n)]
           from == CHOOSE t : IsFrom(t)
           Table(f, n) == f \in [1 .. L + 1 -> S] /\ \A k \in n .. L + 1 : f[k] = Rest(f, k)
           Without == {m \in 0 .. L + 1 : ~\E f : Table(f, L + 2 - m)}
<1>1. L \in Nat
  BY TextFacts
<1>2. Split(p) = from[1]
  BY DEF Split
<1> HIDE DEF from
<1>3. \A n \in 1 .. L + 1 : at(n) \in Nat /\ (at(n) # 0 => at(n) >= n /\ at(n) + 2 \in n + 1 .. L + 1)
  <2> SUFFICES ASSUME NEW n \in 1 .. L + 1
               PROVE  at(n) \in Nat /\ (at(n) # 0 => at(n) >= n /\ at(n) + 2 \in n + 1 .. L + 1)
    OBVIOUS
  <2>1. n \in Nat /\ n >= 1
    BY <1>1
  <2>2. at(n) \in Nat
    BY <2>1, IndexIs, MarksAreTexts
  <2>3. at(n) # 0 => at(n) >= n
    BY <2>1, IndexIs, MarksAreTexts
  <2>4. at(n) # 0 => Occurs(DoubleStar, p, at(n))
    BY <2>1, IndexIs, MarksAreTexts
  <2> HIDE DEF at
  <2>5. at(n) # 0 => at(n) <= L - 2 + 1
    BY <2>4, <1>1, MarksAreTexts DEF Occurs
  <2> QED BY <1>1, <2>1, <2>2, <2>3, <2>5
<1>4. \A n \in 1 .. L + 1 : SubSeq(p, n, L) \in Texts /\ SubSeq(p, n, at(n) - 1) \in Texts
  <2> SUFFICES ASSUME NEW n \in 1 .. L + 1
               PROVE  SubSeq(p, n, L) \in Texts /\ SubSeq(p, n, at(n) - 1) \in Texts
    OBVIOUS
  <2> DEFINE e == at(n) - 1
  <2>1. n \in Nat /\ n >= 1 /\ e \in Int /\ e <= L /\ L \in Int /\ L <= L
    BY <1>1, <1>3
  <2> HIDE DEF e
  <2>2. SubSeq(p, n, L) \in Texts
    BY <2>1, PartFacts
  <2>3. SubSeq(p, n, e) \in Texts
    BY <2>1, PartFacts
  <2> QED BY <2>2, <2>3 DEF e
<1> HIDE DEF at, L
<1>5. ASSUME NEW f \in [1 .. L + 1 -> S], NEW n \in 1 .. L + 1
      PROVE  Rest(f, n) \in S /\ (Len(Rest(f, n)) > 1 <=> at(n) # 0)
  <2>1. CASE at(n) = 0
    BY <1>4, <2>1
  <2>2. CASE at(n) # 0
    <3> DEFINE rest == f[at(n) + 2]
               piece == SubSeq(p, n, at(n) - 1)
    <3>1. at(n) + 2 \in 1 .. L + 1
      BY <1>1, <1>3, <2>2
    <3>2. rest \in Seq(Texts) /\ Len(rest) >= 1 /\ Len(rest) \in Nat
      BY <3>1
    <3>3. piece \in Texts
      BY <1>4
    <3>4. Rest(f, n) = <<piece>> \o rest
      BY <2>2
    <3> HIDE DEF rest, piece, Rest
    <3>5. <<piece>> \o rest \in Seq(Texts) /\ Len(<<piece>> \o rest) = 1 + Len(rest)
      BY <3>2, <3>3
    <3>6. 1 + Len(rest) > 1
      BY <3>2
    <3> QED BY <2>2, <3>4, <3>5, <3>6
  <2> QED BY <2>1, <2>2
<1>6. Without = {}
  <2> SUFFICES ASSUME Without # {} PROVE FALSE
    OBVIOUS
  <2>1. Without \in SUBSET Nat
    BY <1>1
  <2>2. PICK m \in Without : \A k \in Without : m <= k
    BY <2>1, LeastNat
  <2>3. m # 0
    <3> DEFINE f == [n \in 1 .. L + 1 |-> << <<>> >>]
    <3>1. <<>> \in Texts
      BY DEF Texts
    <3>2. << <<>> >> \in S
      BY <3>1
    <3>3. f \in [1 .. L + 1 -> S]
      BY <3>2
    <3>4. \A k \in L + 2 - 0 .. L + 1 : FALSE
      BY <1>1
    <3> HIDE DEF f, Rest
    <3>5. Table(f, L + 2 - 0)
      BY <3>3, <3>4
    <3> QED BY <2>2, <3>5
  <2>4. m - 1 \in 0 .. L + 1 /\ ~(m <= m - 1) /\ m \in 1 .. L + 1
    BY <1>1, <2>2, <2>3
  <2> HIDE DEF Rest, S
  <2>5. PICK f : Table(f, L + 2 - (m - 1))
    BY <2>2, <2>4
  <2> DEFINE n == L + 2 - m
             h == [f EXCEPT ![n] = Rest(f, n)]
  <2>6. n \in 1 .. L + 1 /\ L + 2 - (m - 1) = n + 1
    BY <1>1, <2>4
  <2> HIDE DEF n
  <2>7. f \in [1 .. L + 1 -> S] /\ \A k \in n + 1 .. L + 1 : f[k] = Rest(f, k)
    BY <2>5, <2>6
  <2>8. Rest(f, n) \in S
    BY <1>5, <2>6, <2>7
  <2>9. h \in [1 .. L + 1 -> S] /\ h[n] = Rest(f, n) /\ \A k \in 1 .. L + 1 : k # n => h[k] = f[k]
    BY <2>6, <2>7, <2>8
  <2> HIDE DEF h
  <2>10. ASSUME NEW k \in n .. L + 1 PROVE h[k] = Rest(h, k)
    <3>1. k \in 1 .. L + 1 /\ (k = n \/ k \in n + 1 .. L + 1)
      BY <1>1, <2>6
    <3>2. Rest(h, k) = Rest(f, k)
      <4>1. at(k) # 0 => at(k) + 2 \in 1 .. L + 1 /\ at(k) + 2 # n
        BY <1>1, <1>3, <2>6, <3>1
      <4>2. at(k) # 0 => h[at(k) + 2] = f[at(k) + 2]
        BY <2>9, <4>1
      <4> QED BY <4>2 DEF Rest
    <3>3. h[k] = Rest(f, k)
      <4>1. CASE k = n
        BY <2>9, <4>1
      <4>2. CASE k # n
        BY <2>7, <2>9, <3>1, <4>2
      <4> QED BY <4>1, <4>2
    <3> QED BY <3>2, <3>3
  <2>11. Table(h, n)
    BY <2>9, <2>10
  <2> QED BY <2>2, <2>11 DEF n
<1>7. PICK f : Table(f, 1)
  <2>1. L + 1 \in 0 .. L + 1 /\ L + 2 - (L + 1) = 1
    BY <1>1
  <2> HIDE DEF Table
  <2> QED BY <1>6, <2>1
<1>8. IsFrom(f)
  <2> DEFINE h == [n \in 1 .. L + 1 |-> Rest(f, n)]
  <2> HIDE DEF Rest, S
  <2>1. f = [n \in 1 .. L + 1 |-> f[n]] /\ h = [n \in 1 .. L + 1 |-> h[n]]
    BY <1>7
  <2>2. \A n \in 1 .. L + 1 : f[n] = h[n]
    BY <1>7
  <2> HIDE DEF h
  <2>3. f = h
    BY <2>1, <2>2
  <2> QED BY <2>3 DEF h
<1>9. from = [n \in 1 .. L + 1 |-> Rest(from, n)]
  BY <1>8 DEF from
<1> HIDE DEF IsFrom
<1>10. \A n \in 1 .. L + 1 : from[n] = Rest(from, n) /\ f[n] = Rest(f, n)
  <2> HIDE DEF Rest, S
  <2>1. \A n \in 1 .. L + 1 : from[n] = Rest(from, n)
    BY <1>9
  <2> QED BY <1>7, <2>1
<1> DEFINE Differ == {m \in 0 .. L : from[L + 1 - m] # f[L + 1 - m]}
<1>11. Differ = {}
  <2> SUFFICES ASSUME Differ # {} PROVE FALSE
    OBVIOUS
  <2>1. Differ \in SUBSET Nat
    BY <1>1
  <2>2. PICK m \in Differ : \A k \in Differ : m <= k
    BY <2>1, LeastNat
  <2> DEFINE n == L + 1 - m
  <2>3. n \in 1 .. L + 1 /\ from[n] # f[n]
    BY <1>1, <2>2
  <2>4. CASE at(n) = 0
    BY <1>10, <2>3, <2>4
  <2>5. CASE at(n) # 0
    <3> DEFINE k == L + 1 - (at(n) + 2)
    <3>1. k \in 0 .. L /\ ~(m <= k) /\ L + 1 - k = at(n) + 2
      BY <1>1, <1>3, <2>2, <2>3, <2>5
    <3> HIDE DEF k
    <3>2. from[L + 1 - k] = f[L + 1 - k]
      BY <2>2, <3>1
    <3>3. from[at(n) + 2] = f[at(n) + 2]
      BY <3>1, <3>2
    <3> HIDE DEF n
    <3>4. Rest(from, n) = Rest(f, n)
      BY <3>3
    <3> HIDE DEF Rest
    <3> QED BY <1>10, <2>3, <3>4
  <2> QED BY <2>4, <2>5
<1>12. from[1] = Rest(f, 1)
  <2>1. 0 \in 0 .. L /\ L + 1 - L = 1 /\ L \in 0 .. L /\ 1 \in 1 .. L + 1
    BY <1>1
  <2>2. from[L + 1 - L] = f[L + 1 - L]
    BY <1>11, <2>1
  <2> HIDE DEF Rest
  <2> QED BY <1>10, <2>1, <2>2
<1>13. Rest(f, 1) \in S /\ (Len(Rest(f, 1)) > 1 <=> at(1) # 0)
  <2>1. 1 \in 1 .. L + 1 /\ f \in [1 .. L + 1 -> S]
    BY <1>1, <1>7
  <2> HIDE DEF Rest, S
  <2> QED BY <1>5, <2>1
<1> HIDE DEF Rest
<1> QED BY <1>2, <1>12, <1>13 DEF at

-----------------------------------------------------------------------------
(* Patterns with "**": parts that are looked for one behind the other.      *)

\* Where the n-th part leaves off, when the one before it left off at x.
Past(parts, path, x, n) ==
  IF x = 0 \/ parts[n] = <<>> THEN x
  ELSE IF n = 1 /\ ~IsPrefix(parts[1], path) THEN 0
  ELSE IF Index(path, parts[n], x) = 0 THEN 0 ELSE Index(path, parts[n], x) + Len(parts[n])

LEMMA OccursIs ==
  ASSUME NEW part \in Texts, NEW s \in Texts, NEW k \in Nat, k >= 1
  PROVE  /\ Occurs(part, s, k) <=>
              k + Len(part) - 1 <= Len(s) /\ \A j \in 1 .. Len(part) : part[j] = s[k + j - 1]
         /\ IsPrefix(part, SubSeq(s, k, Len(s))) /\ k <= Len(s) + 1 <=> Occurs(part, s, k)
<1> DEFINE n == Len(part)
           L == Len(s)
           u == SubSeq(s, k, k + n - 1)
           v == SubSeq(s, k, L)
<1>1. n \in Nat /\ L \in Nat
  BY TextFacts
<1>2. k \in 1 .. L - n + 1 <=> k + n - 1 <= L
  BY <1>1
<1>3. ASSUME k + n - 1 <= L
      PROVE  u = part <=> \A j \in 1 .. n : part[j] = s[k + j - 1]
  <2>1. k + n - 1 \in Int /\ (k + n - 1) - k + 1 = n
    BY <1>1
  <2> DEFINE e == k + n - 1
  <2> HIDE DEF n
  <2>2. e \in Int /\ e <= L /\ e - k + 1 = n
    BY <1>3, <2>1
  <2> HIDE DEF e, L
  <2>3. SubSeq(s, k, e) \in Texts
    BY <2>2, PartFacts DEF L
  <2>4. Len(SubSeq(s, k, e)) = IF k <= e THEN e - k + 1 ELSE 0
    BY <2>2, PartFacts DEF L
  <2>5. \A j \in 1 .. e - k + 1 : SubSeq(s, k, e)[j] = s[j + k - 1]
    BY <2>2, PartFacts DEF L
  <2> DEFINE w == SubSeq(s, k, e)
  <2> HIDE DEF w
  <2>6. w \in Texts /\ Len(w) = n /\ \A j \in 1 .. n : w[j] = s[k + j - 1]
    <3>1. \A j \in 1 .. n : j + k - 1 = k + j - 1
      OBVIOUS
    <3>2. Len(w) = n
      BY <1>1, <2>2, <2>4 DEF w
    <3>3. \A j \in 1 .. n : w[j] = s[j + k - 1]
      BY <2>2, <2>5 DEF w
    <3> QED BY <2>3, <3>1, <3>2, <3>3 DEF w
  <2>7. w = part <=> \A j \in 1 .. n : part[j] = w[j]
    <3>1. ASSUME \A j \in 1 .. n : part[j] = w[j] PROVE part = w
      BY <2>6, <3>1, SameText DEF n
    <3> QED BY <3>1
  <2> QED BY <2>6, <2>7 DEF w, e
<1>4. Occurs(part, s, k) <=> k + n - 1 <= L /\ u = part
  BY <1>2 DEF Occurs
<1> HIDE DEF u
<1>5. Occurs(part, s, k) <=> k + n - 1 <= L /\ \A j \in 1 .. n : part[j] = s[k + j - 1]
  BY <1>3, <1>4
<1>6. ASSUME k <= L + 1
      PROVE  IsPrefix(part, v) <=> k + n - 1 <= L /\ \A j \in 1 .. n : part[j] = s[k + j - 1]
  <2> HIDE DEF n, L
  <2>1. L = Len(s) /\ L \in Int /\ L <= Len(s)
    BY <1>1 DEF L
  <2>2. v \in Texts
    BY <2>1, PartFacts
  <2>3. Len(v) = IF k <= L THEN L - k + 1 ELSE 0
    BY <2>1, PartFacts
  <2>4. \A j \in 1 .. L - k + 1 : v[j] = s[j + k - 1]
    BY <2>1, PartFacts
  <2> HIDE DEF v
  <2>5. Len(v) = L - k + 1
    BY <1>1, <1>6, <2>3
  <2>6. IsPrefix(part, v) <=> n <= Len(v) /\ \A j \in 1 .. n : part[j] = v[j]
    BY <2>2, PrefixIs DEF n
  <2>7. n <= Len(v) <=> k + n - 1 <= L
    BY <1>1, <2>5
  <2>8. ASSUME n <= Len(v)
        PROVE  (\A j \in 1 .. n : part[j] = v[j]) <=> \A j \in 1 .. n : part[j] = s[k + j - 1]
    <3>1. \A j \in 1 .. n : j \in 1 .. L - k + 1 /\ j + k - 1 = k + j - 1
      BY <1>1, <2>5, <2>8
    <3>2. \A j \in 1 .. n : v[j] = s[k + j - 1]
      BY <2>4, <3>1
    <3> QED BY <3>2
  <2> QED BY <2>6, <2>7, <2>8
<1>7. k + n - 1 <= L => k <= L + 1
  BY <1>1
<1> QED BY <1>5, <1>6, <1>7

LEMMA NothingOccurs ==
  ASSUME NEW s \in Texts, NEW k \in 1 .. Len(s) + 1
  PROVE  Occurs(<<>>, s, k)
<1>1. Len(s) \in Nat /\ <<>> \in Texts /\ Len(<<>>) = 0
  BY TextFacts DEF Texts
<1>2. k \in Nat /\ k >= 1 /\ k + 0 - 1 <= Len(s) /\ \A j \in 1 .. 0 : FALSE
  BY <1>1
<1> DEFINE e == <<>>
<1>3. e \in Texts /\ Len(e) = 0
  BY <1>1
<1> HIDE DEF e
<1>4. Occurs(e, s, k)
  BY <1>2, <1>3, OccursIs
<1> QED BY <1>4 DEF e

LEMMA OccursInPart ==
  ASSUME NEW part \in Texts, NEW path \in Texts, NEW m \in 1 .. Len(path), NEW k \in Nat, k >= 1
  PROVE  Occurs(part, SubSeq(path, 1, m), k) <=> Occurs(part, path, k) /\ k + Len(part) - 1 <= m
<1> DEFINE s == SubSeq(path, 1, m)
<1>1. Len(path) \in Nat /\ Len(part) \in Nat /\ m \in Nat /\ m <= Len(path)
  BY TextFacts
<1>2. s \in Texts /\ Len(s) = m /\ \A j \in 1 .. m : s[j] = path[j]
  BY <1>1, PartFacts
<1> HIDE DEF s
<1>3. Occurs(part, s, k) <=> k + Len(part) - 1 <= m /\ \A j \in 1 .. Len(part) : part[j] = s[k + j - 1]
  BY <1>2, OccursIs
<1>4. Occurs(part, path, k) <=>
        k + Len(part) - 1 <= Len(path) /\ \A j \in 1 .. Len(part) : part[j] = path[k + j - 1]
  BY OccursIs
<1>5. ASSUME k + Len(part) - 1 <= m
      PROVE  \A j \in 1 .. Len(part) : s[k + j - 1] = path[k + j - 1]
  <2>1. \A j \in 1 .. Len(part) : k + j - 1 \in 1 .. m
    BY <1>1, <1>5
  <2> QED BY <1>2, <2>1
<1>6. k + Len(part) - 1 <= m => k + Len(part) - 1 <= Len(path)
  BY <1>1
<1> QED BY <1>3, <1>4, <1>5, <1>6 DEF s

\* The search goes where the part occurs first, not further than where it does.
LEMMA PastIsFirst ==
  ASSUME NEW parts, NEW n \in Nat, parts[n] \in Texts, NEW path \in Texts, NEW x \in Nat, x # 0,
         NEW k \in Nat, x <= k, Occurs(parts[n], path, k), n = 1 => k = 1
  PROVE  Past(parts, path, x, n) # 0 /\ Past(parts, path, x, n) <= k + Len(parts[n])
<1> DEFINE p == parts[n]
           at == Index(path, p, x)
<1>1. Len(p) \in Nat /\ Len(path) \in Nat /\ x >= 1 /\ k >= 1
  BY TextFacts
<1>2. CASE p = <<>>
  BY <1>1, <1>2 DEF Past
<1>3. CASE p # <<>>
  <2>1. n = 1 => IsPrefix(p, path)
    <3> SUFFICES ASSUME n = 1 PROVE IsPrefix(p, path)
      OBVIOUS
    <3>1. k + Len(p) - 1 <= Len(path) /\ \A j \in 1 .. Len(p) : p[j] = path[k + j - 1]
      BY <1>1, OccursIs
    <3>2. k = 1 /\ \A j \in 1 .. Len(p) : k + j - 1 = j
      OBVIOUS
    <3>3. Len(p) <= Len(path) /\ \A j \in 1 .. Len(p) : p[j] = path[j]
      BY <1>1, <3>1, <3>2
    <3> QED BY <3>3, PrefixIs
  <2>2. at \in Nat /\ at # 0
    BY <1>1, IndexIs
  <2>3. at <= k
    BY <1>1, <2>2, IndexIs
  <2> HIDE DEF at
  <2>4. Past(parts, path, x, n) = at + Len(p)
    BY <1>3, <2>1, <2>2 DEF Past, at
  <2> QED BY <1>1, <2>2, <2>3, <2>4
<1> QED BY <1>2, <1>3

LEMMA PastIs ==
  ASSUME NEW parts, NEW n \in Nat, parts[n] \in Texts, NEW path \in Texts, NEW x \in 1 .. Len(path) + 1
  PROVE  /\ Past(parts, path, x, n) \in 0 .. Len(path) + 1
         /\ Past(parts, path, x, n) # 0 =>
              \E b \in Nat : /\ x <= b /\ Occurs(parts[n], path, b)
                             /\ Past(parts, path, x, n) = b + Len(parts[n])
                             /\ n = 1 /\ x = 1 => b = 1
<1> DEFINE p == parts[n]
           at == Index(path, p, x)
           y == Past(parts, path, x, n)
<1>1. Len(p) \in Nat /\ Len(path) \in Nat /\ x \in Nat /\ x >= 1 /\ x # 0
  BY TextFacts
<1>2. CASE p = <<>>
  <2>1. y = x /\ Len(p) = 0
    BY <1>1, <1>2 DEF Past
  <2>2. Occurs(p, path, x)
    BY <1>2, NothingOccurs
  <2> HIDE DEF y, p
  <2>3. x <= x /\ y = x + Len(p) /\ y \in 0 .. Len(path) + 1
    BY <1>1, <2>1
  <2> QED BY <1>1, <2>2, <2>3 DEF y, p
<1>3. CASE p # <<>> /\ at # 0 /\ (n = 1 => IsPrefix(p, path))
  <2>1. y = at + Len(p)
    BY <1>1, <1>3 DEF Past
  <2>2. at \in Nat /\ at >= x /\ Occurs(p, path, at)
    BY <1>1, <1>3, IndexIs
  <2>3. at + Len(p) - 1 <= Len(path)
    <3>1. at \in Nat /\ at >= 1 /\ p \in Texts
      BY <1>1, <2>2
    <3> HIDE DEF at, p
    <3> QED BY <2>2, <3>1, OccursIs
  <2>4. n = 1 /\ x = 1 => at = 1
    <3> SUFFICES ASSUME n = 1, x = 1 PROVE at = 1
      OBVIOUS
    <3>1. Len(p) <= Len(path) /\ \A j \in 1 .. Len(p) : p[j] = path[j]
      BY <1>3, PrefixIs
    <3>2. \A j \in 1 .. Len(p) : 1 + j - 1 = j
      OBVIOUS
    <3>3. 1 + Len(p) - 1 <= Len(path)
      BY <1>1, <3>1
    <3>4. Occurs(p, path, 1)
      <4>1. p \in Texts /\ 1 \in Nat /\ 1 >= 1
        OBVIOUS
      <4> HIDE DEF p
      <4>2. \A j \in 1 .. Len(p) : p[j] = path[1 + j - 1]
        BY <3>1, <3>2
      <4> QED BY <3>3, <4>1, <4>2, OccursIs
    <3>5. at <= 1
      BY <1>1, <1>3, <3>4, IndexIs
    <3> QED BY <2>2, <3>5
  <2> HIDE DEF at, y, p
  <2>5. y \in 0 .. Len(path) + 1
    BY <1>1, <2>1, <2>2, <2>3
  <2>6. x <= at
    BY <1>1, <2>2
  <2> QED BY <2>1, <2>2, <2>4, <2>5, <2>6 DEF y, p
<1>4. CASE p # <<>> /\ ~(at # 0 /\ (n = 1 => IsPrefix(p, path)))
  <2>1. y = 0
    BY <1>1, <1>4 DEF Past
  <2> QED BY <1>1, <2>1
<1> QED BY <1>2, <1>3, <1>4

\* pos has how far the search for the parts has come.
IsSearch(pos, parts, path) ==
  /\ pos \in [0 .. Len(parts) -> 0 .. Len(path) + 1] /\ pos[0] = 1
  /\ \A n \in 1 .. Len(parts) : pos[n] = Past(parts, path, pos[n - 1], n)

LEMMA SearchIs ==
  ASSUME NEW pattern, Split(pattern) \in Seq(Texts), NEW path \in Texts
  PROVE  \E pos : /\ IsSearch(pos, Split(pattern), path)
                  /\ MatchDoubleStar(pattern, path) <=> pos[Len(Split(pattern))] # 0
<1> DEFINE parts == Split(pattern)
           N == Len(parts)
           S == 0 .. Len(path) + 1
           g == [n \in 1 .. N |-> [x \in S |-> Past(parts, path, x, n)]]
           IsPos(t) == t = [n \in 0 .. N |->
             IF n = 0 THEN 1
             ELSE IF t[n - 1] = 0 \/ parts[n] = <<>> THEN t[n - 1]
             ELSE IF n = 1 /\ ~IsPrefix(parts[1], path) THEN 0
             ELSE LET found == Index(path, parts[n], t[n - 1])
                  IN  IF found = 0 THEN 0 ELSE found + Len(parts[n])]
           pos == CHOOSE t : IsPos(t)
<1>1. N \in Nat /\ Len(path) \in Nat /\ \A n \in 1 .. N : n \in Nat /\ parts[n] \in Texts
  BY TextFacts
<1>2. MatchDoubleStar(pattern, path) <=> pos[N] # 0
  BY DEF MatchDoubleStar
<1> HIDE DEF IsPos
<1>3. \A t : IsPos(t) <=> t = [n \in 0 .. N |-> IF n = 0 THEN 1 ELSE Past(parts, path, t[n - 1], n)]
  BY DEF IsPos, Past
<1> HIDE DEF pos, parts
<1>4. \A n \in 1 .. N : \A x \in S : Past(parts, path, x, n) \in S
  <2> SUFFICES ASSUME NEW n \in 1 .. N, NEW x \in S PROVE Past(parts, path, x, n) \in S
    OBVIOUS
  <2>1. CASE x = 0
    BY <1>1, <2>1 DEF Past
  <2>2. CASE x # 0
    <3>1. x \in 1 .. Len(path) + 1 /\ n \in Nat /\ parts[n] \in Texts
      BY <1>1, <2>2
    <3> QED BY <3>1, PastIs
  <2> QED BY <2>1, <2>2
<1>5. 1 \in S
  BY <1>1
<1> HIDE DEF S, N
<1>6. g \in [1 .. N -> [S -> S]] /\ \A n \in 1 .. N : \A x \in S : g[n][x] = Past(parts, path, x, n)
  BY <1>4
<1> HIDE DEF g
<1>7. PICK f : Loop(f, S, 1, g, N)
  BY <1>1, <1>5, <1>6, LoopExists
<1>8. f \in [0 .. N -> S] /\ f[0] = 1 /\ \A n \in 1 .. N : f[n] = Past(parts, path, f[n - 1], n)
  <2>1. \A n \in 1 .. N : n - 1 \in 0 .. N
    BY <1>1
  <2> QED BY <1>6, <1>7, <2>1 DEF Loop
<1>9. IsPos(f)
  <2> DEFINE h == [n \in 0 .. N |-> IF n = 0 THEN 1 ELSE Past(parts, path, f[n - 1], n)]
  <2>1. f = [n \in 0 .. N |-> f[n]] /\ h = [n \in 0 .. N |-> h[n]]
    BY <1>8
  <2>2. \A n \in 0 .. N : f[n] = h[n]
    BY <1>1, <1>8
  <2> HIDE DEF h
  <2>3. f = h
    BY <2>1, <2>2
  <2> QED BY <1>3, <2>3 DEF h
<1>10. IsPos(pos)
  BY <1>9 DEF pos
<1>11. pos = [n \in 0 .. N |-> IF n = 0 THEN 1 ELSE Past(parts, path, pos[n - 1], n)]
  BY <1>3, <1>10
<1>12. \A n \in 0 .. N : pos[n] = IF n = 0 THEN 1 ELSE Past(parts, path, pos[n - 1], n)
  BY <1>11
<1> DEFINE Wild == {n \in 0 .. N : pos[n] \notin S}
<1>13. Wild = {}
  <2> SUFFICES ASSUME Wild # {} PROVE FALSE
    OBVIOUS
  <2>1. Wild \in SUBSET Nat
    BY <1>1
  <2>2. PICK n \in Wild : \A k \in Wild : n <= k
    BY <2>1, LeastNat
  <2>3. n # 0
    BY <1>5, <1>12, <2>2
  <2>4. n \in 1 .. N /\ n - 1 \in 0 .. N /\ ~(n <= n - 1)
    BY <1>1, <2>2, <2>3
  <2>5. pos[n - 1] \in S
    BY <2>2, <2>4
  <2> QED BY <1>4, <1>12, <2>2, <2>3, <2>4, <2>5
<1>14. pos \in [0 .. N -> S] /\ pos[0] = 1 /\ \A n \in 1 .. N : pos[n] = Past(parts, path, pos[n - 1], n)
  <2>1. 0 \in 0 .. N /\ \A n \in 1 .. N : n \in 0 .. N /\ n # 0
    BY <1>1
  <2>2. \A n \in 0 .. N : pos[n] \in S
    BY <1>13
  <2>3. pos \in [0 .. N -> S]
    BY <1>11, <2>2
  <2> QED BY <1>12, <2>1, <2>3
<1> QED BY <1>2, <1>14 DEF IsSearch, parts, N, S

\* r[n] has the places from which the parts from the n-th on reach the end of s.
IsChain(r, parts, s) ==
  \A n \in 1 .. Len(parts) : \A k \in 1 .. Len(s) + 1 :
    k \in r[n] <=>
      /\ Occurs(parts[n], s, k)
      /\ IF n = Len(parts) THEN k + Len(parts[n]) = Len(s) + 1
         ELSE \E j \in 1 .. Len(s) + 1 : j \in r[n + 1] /\ k + Len(parts[n]) <= j

LEMMA SpansIs ==
  ASSUME NEW parts \in Seq(Texts), Len(parts) >= 1, NEW s \in Texts
  PROVE  \E r : IsChain(r, parts, s) /\ (Spans(parts, s) <=> 1 \in r[1])
<1> DEFINE N == Len(parts)
           L == Len(s) + 1
           Tails(R, n) == {k \in 1 .. L : /\ IsPrefix(parts[n], SubSeq(s, k, Len(s)))
                                          /\ IF n = N THEN k + Len(parts[n]) = L
                                             ELSE \E j \in R : k + Len(parts[n]) <= j}
           IsFrom(t) == t = [n \in 1 .. N |->
             {k \in 1 .. L : /\ IsPrefix(parts[n], SubSeq(s, k, Len(s)))
                             /\ IF n = N THEN k + Len(parts[n]) = L
                                ELSE \E j \in t[n + 1] : k + Len(parts[n]) <= j}]
           from == CHOOSE t : IsFrom(t)
           S == SUBSET (1 .. L)
           g == [m \in 1 .. N |-> [R \in S |-> Tails(R, N + 1 - m)]]
<1>1. N \in Nat /\ N >= 1 /\ Len(s) \in Nat /\ L \in Nat /\ L >= 1
      /\ \A n \in 1 .. N : parts[n] \in Texts /\ Len(parts[n]) \in Nat
  BY TextFacts
<1>2. Spans(parts, s) <=> 1 \in from[1]
  BY DEF Spans
<1> HIDE DEF IsFrom
<1>3. \A t : IsFrom(t) <=> t = [n \in 1 .. N |-> Tails(t[n + 1], n)]
  BY DEF IsFrom
<1> HIDE DEF from
<1>4. \A R \in S : \A n : Tails(R, n) \in S
  OBVIOUS
<1>5. \A n \in 1 .. N : \A k \in 1 .. L :
        IsPrefix(parts[n], SubSeq(s, k, Len(s))) <=> Occurs(parts[n], s, k)
  <2> SUFFICES ASSUME NEW n \in 1 .. N, NEW k \in 1 .. L
               PROVE  IsPrefix(parts[n], SubSeq(s, k, Len(s))) <=> Occurs(parts[n], s, k)
    OBVIOUS
  <2>1. k \in Nat /\ k >= 1 /\ k <= Len(s) + 1 /\ parts[n] \in Texts
    BY <1>1
  <2> QED BY <2>1, OccursIs
<1>6. \A R : \A n \in 1 .. N : \A k \in 1 .. L :
        k \in Tails(R, n) <=> /\ Occurs(parts[n], s, k)
                              /\ IF n = N THEN k + Len(parts[n]) = L
                                 ELSE \E j \in R : k + Len(parts[n]) <= j
  BY <1>5
<1>7. {} \in S
  OBVIOUS
<1> HIDE DEF S, Tails, N
<1>8. g \in [1 .. N -> [S -> S]] /\ \A m \in 1 .. N : \A R \in S : g[m][R] = Tails(R, N + 1 - m)
  BY <1>4
<1> HIDE DEF g
<1>9. PICK f : Loop(f, S, {}, g, N)
  BY <1>1, <1>7, <1>8, LoopExists
<1>10. f \in [0 .. N -> S] /\ \A m \in 1 .. N : f[m] = Tails(f[m - 1], N + 1 - m)
  <2>1. \A m \in 1 .. N : m - 1 \in 0 .. N
    BY <1>1
  <2> QED BY <1>8, <1>9, <2>1 DEF Loop
<1> DEFINE r == [n \in 1 .. N |-> f[N + 1 - n]]
<1>11. \A n \in 1 .. N : r[n] \in S /\ r[n] = Tails(r[n + 1], n)
  <2> SUFFICES ASSUME NEW n \in 1 .. N PROVE r[n] \in S /\ r[n] = Tails(r[n + 1], n)
    OBVIOUS
  <2> DEFINE m == N + 1 - n
  <2>1. m \in 1 .. N /\ N + 1 - m = n /\ m \in 0 .. N
    BY <1>1
  <2>2. r[n] = f[m]
    OBVIOUS
  <2>3. n # N => n + 1 \in 1 .. N /\ m - 1 = N + 1 - (n + 1)
    BY <1>1
  <2>4. n # N => r[n + 1] = f[m - 1]
    BY <2>3
  <2> HIDE DEF m, r
  <2>5. f[m] = Tails(f[m - 1], n) /\ f[m] \in S
    BY <1>10, <2>1
  <2>6. CASE n = N
    <3>1. \A R, Q : Tails(R, N) = Tails(Q, N)
      BY DEF Tails
    <3> QED BY <2>2, <2>5, <2>6, <3>1
  <2>7. CASE n # N
    BY <2>2, <2>4, <2>5, <2>7
  <2> QED BY <2>6, <2>7
<1>12. IsFrom(r)
  <2> DEFINE h == [n \in 1 .. N |-> Tails(r[n + 1], n)]
  <2>1. r = [n \in 1 .. N |-> r[n]]
    OBVIOUS
  <2> HIDE DEF r
  <2>2. h = [n \in 1 .. N |-> h[n]] /\ \A n \in 1 .. N : r[n] = h[n]
    BY <1>11
  <2> HIDE DEF h
  <2>3. r = h
    BY <2>1, <2>2
  <2> QED BY <1>3, <2>3 DEF h
<1>13. IsFrom(from)
  BY <1>12 DEF from
<1>14. \A n \in 1 .. N : from[n] = Tails(from[n + 1], n)
  BY <1>3, <1>13
<1>15. \A n \in 1 .. N : from[n] \subseteq 1 .. L
  BY <1>14 DEF Tails
<1>16. \A n \in 1 .. N : \A k \in 1 .. L :
         k \in from[n] <=>
           /\ Occurs(parts[n], s, k)
           /\ IF n = N THEN k + Len(parts[n]) = L
              ELSE \E j \in 1 .. L : j \in from[n + 1] /\ k + Len(parts[n]) <= j
  <2> SUFFICES ASSUME NEW n \in 1 .. N, NEW k \in 1 .. L
               PROVE  k \in from[n] <=>
                        /\ Occurs(parts[n], s, k)
                        /\ IF n = N THEN k + Len(parts[n]) = L
                           ELSE \E j \in 1 .. L : j \in from[n + 1] /\ k + Len(parts[n]) <= j
    OBVIOUS
  <2>1. k \in from[n] <=> /\ Occurs(parts[n], s, k)
                          /\ IF n = N THEN k + Len(parts[n]) = L
                             ELSE \E j \in from[n + 1] : k + Len(parts[n]) <= j
    BY <1>6, <1>14
  <2>2. n # N => from[n + 1] \subseteq 1 .. L
    <3>1. n # N => n + 1 \in 1 .. N
      BY <1>1
    <3> QED BY <1>15, <3>1
  <2> QED BY <2>1, <2>2
<1>17. IsChain(from, parts, s)
  BY <1>16 DEF IsChain, N
<1> QED BY <1>2, <1>17

\* The search finds all the parts if and only if the pattern, with any
\* characters for each "**", is what the path begins with.
LEMMA SearchFindsSpans ==
  ASSUME NEW parts \in Seq(Texts), Len(parts) > 1, NEW path \in Texts, path # <<>>,
         NEW pos, IsSearch(pos, parts, path)
  PROVE  pos[Len(parts)] # 0 <=> \E m \in 1 .. Len(path) : Spans(parts, SubSeq(path, 1, m))
<1> DEFINE N == Len(parts)
           L == Len(path)
<1>1. /\ N \in Nat /\ N > 1 /\ N >= 1 /\ L \in Nat /\ L >= 1
      /\ \A n \in 1 .. N : n \in Nat /\ parts[n] \in Texts /\ Len(parts[n]) \in Nat
  <2>1. path \in Seq(Chars)
    BY DEF Texts
  <2>2. L \in Nat /\ L # 0
    BY <2>1, EmptySeq
  <2> QED BY <2>2, TextFacts
<1>2. /\ pos \in [0 .. N -> 0 .. L + 1] /\ pos[0] = 1
      /\ \A n \in 1 .. N : pos[n] = Past(parts, path, pos[n - 1], n)
  BY DEF IsSearch
<1> HIDE DEF N, L
<1>3. ASSUME NEW m \in 1 .. L, Spans(parts, SubSeq(path, 1, m))
      PROVE  pos[N] # 0
  <2> DEFINE s == SubSeq(path, 1, m)
  <2>1. s \in Texts /\ Len(s) = m
    <3>1. 1 \in Nat /\ 1 >= 1 /\ m \in Int /\ m <= L /\ 1 <= m /\ m - 1 + 1 = m
      BY <1>1
    <3>2. s \in Texts /\ Len(s) = m - 1 + 1
      BY <3>1, PartFacts DEF L
    <3> QED BY <3>1, <3>2
  <2>2. \A n \in 1 .. N : \A k \in 1 .. m + 1 : Occurs(parts[n], s, k) => Occurs(parts[n], path, k)
    <3> SUFFICES ASSUME NEW n \in 1 .. N, NEW k \in 1 .. m + 1, Occurs(parts[n], s, k)
                 PROVE  Occurs(parts[n], path, k)
      OBVIOUS
    <3>1. m \in 1 .. Len(path) /\ k \in Nat /\ k >= 1 /\ parts[n] \in Texts
      BY <1>1 DEF L
    <3> QED BY <3>1, OccursInPart
  <2> HIDE DEF s
  <2>3. PICK r : IsChain(r, parts, s) /\ 1 \in r[1]
    BY <1>1, <1>3, <2>1, SpansIs DEF s, N
  <2>4. \A n \in 1 .. N : \A k \in 1 .. m + 1 :
          k \in r[n] <=>
            /\ Occurs(parts[n], s, k)
            /\ IF n = N THEN k + Len(parts[n]) = m + 1
               ELSE \E j \in 1 .. m + 1 : j \in r[n + 1] /\ k + Len(parts[n]) <= j
    BY <2>1, <2>3 DEF IsChain, N
  <2> DEFINE InTime(n) == \E k \in 1 .. m + 1 : k \in r[n] /\ pos[n - 1] # 0 /\ pos[n - 1] <= k /\ (n = 1 => k = 1)
             Late == {n \in 1 .. N : ~InTime(n)}
  <2>5. ASSUME NEW n \in 1 .. N, NEW k \in 1 .. m + 1, k \in r[n], pos[n - 1] # 0, pos[n - 1] <= k, n = 1 => k = 1
        PROVE  pos[n] # 0 /\ pos[n] <= k + Len(parts[n])
    <3>1. Occurs(parts[n], path, k)
      BY <2>2, <2>4, <2>5
    <3>2. n - 1 \in 0 .. N
      BY <1>1
    <3>3. pos[n - 1] \in Nat /\ k \in Nat /\ n \in Nat /\ parts[n] \in Texts
      BY <1>1, <1>2, <3>2
    <3> DEFINE x == pos[n - 1]
    <3> HIDE DEF x
    <3>4. x \in Nat /\ x # 0 /\ x <= k
      BY <2>5, <3>3 DEF x
    <3>5. Past(parts, path, x, n) # 0 /\ Past(parts, path, x, n) <= k + Len(parts[n])
      BY <2>5, <3>1, <3>3, <3>4, PastIsFirst
    <3> QED BY <1>2, <3>5 DEF x
  <2>6. Late = {}
    <3> SUFFICES ASSUME Late # {} PROVE FALSE
      OBVIOUS
    <3>1. Late \in SUBSET Nat
      BY <1>1
    <3>2. PICK n \in Late : \A k \in Late : n <= k
      BY <3>1, LeastNat
    <3>3. InTime(1)
      <4>1. 1 \in 1 .. m + 1 /\ 1 - 1 = 0
        BY <1>1
      <4> QED BY <1>2, <2>3, <4>1
    <3>4. n - 1 \in 1 .. N /\ n - 1 \in Nat /\ n - 1 # N /\ ~(n <= n - 1) /\ n \in 1 .. N /\ n # 1
      BY <1>1, <3>2, <3>3
    <3>5. InTime(n - 1)
      BY <3>2, <3>4
    <3> DEFINE q == n - 1
    <3>6. q \in 1 .. N /\ q # N /\ q + 1 = n
      BY <3>4
    <3> HIDE DEF q
    <3>7. PICK k \in 1 .. m + 1 : k \in r[q] /\ pos[q - 1] # 0 /\ pos[q - 1] <= k /\ (q = 1 => k = 1)
      BY <3>5 DEF q
    <3>8. pos[q] # 0 /\ pos[q] <= k + Len(parts[q])
      BY <2>5, <3>6, <3>7
    <3>9. PICK j \in 1 .. m + 1 : j \in r[q + 1] /\ k + Len(parts[q]) <= j
      BY <2>4, <3>6, <3>7
    <3>10. pos[q] \in Nat /\ pos[q] <= j
      <4>1. q \in 0 .. N
        BY <3>6
      <4>2. pos[q] \in Nat
        BY <1>2, <4>1
      <4> QED BY <1>1, <3>6, <3>8, <3>9, <4>2
    <3>11. InTime(n)
      BY <3>4, <3>6, <3>8, <3>9, <3>10 DEF q
    <3> QED BY <3>2, <3>11
  <2>7. N \in 1 .. N
    BY <1>1
  <2>8. InTime(N)
    BY <2>6, <2>7
  <2> HIDE DEF Late
  <2>9. PICK k \in 1 .. m + 1 : k \in r[N] /\ pos[N - 1] # 0 /\ pos[N - 1] <= k /\ (N = 1 => k = 1)
    BY <2>8
  <2> QED BY <2>5, <2>7, <2>9
<1>4. ASSUME pos[N] # 0
      PROVE  \E m \in 1 .. L : Spans(parts, SubSeq(path, 1, m))
  <2>1. ASSUME NEW n \in 1 .. N, pos[n - 1] = 0 PROVE pos[n] = 0
    BY <1>2, <2>1 DEF Past
  <2> DEFINE Lost == {k \in 0 .. N : pos[N - k] = 0}
  <2>2. Lost = {}
    <3> SUFFICES ASSUME Lost # {} PROVE FALSE
      OBVIOUS
    <3>1. Lost \in SUBSET Nat
      BY <1>1
    <3>2. PICK k \in Lost : \A j \in Lost : k <= j
      BY <3>1, LeastNat
    <3>3. k # 0 /\ k \in 0 .. N
      <4>1. N - 0 = N
        BY <1>1
      <4> QED BY <1>4, <3>2, <4>1
    <3> DEFINE n == N - (k - 1)
    <3>4. n \in 1 .. N /\ n - 1 = N - k /\ k - 1 \in 0 .. N /\ ~(k <= k - 1)
      BY <1>1, <3>3
    <3> HIDE DEF n
    <3>5. pos[n - 1] = 0
      BY <3>2, <3>4
    <3>6. pos[n] = 0
      BY <2>1, <3>4, <3>5
    <3>7. k - 1 \in Lost
      BY <3>4, <3>6 DEF n
    <3> QED BY <3>2, <3>4, <3>7
  <2>3. \A n \in 0 .. N : pos[n] \in 1 .. L + 1
    <3> SUFFICES ASSUME NEW n \in 0 .. N PROVE pos[n] \in 1 .. L + 1
      OBVIOUS
    <3>1. N - n \in 0 .. N /\ N - (N - n) = n
      BY <1>1
    <3>2. pos[n] # 0
      BY <2>2, <3>1
    <3>3. pos[n] \in 0 .. L + 1
      BY <1>2
    <3> QED BY <1>1, <3>2, <3>3
  <2> HIDE DEF Lost
  <2> DEFINE Starts(n, b) == /\ b \in Nat /\ pos[n - 1] <= b /\ Occurs(parts[n], path, b)
                             /\ pos[n] = b + Len(parts[n]) /\ (n = 1 => b = 1)
             b == [n \in 1 .. N |-> CHOOSE i : Starts(n, i)]
  <2>4. ASSUME NEW n \in 1 .. N PROVE Starts(n, b[n])
    <3> DEFINE x == pos[n - 1]
    <3>1. n - 1 \in 0 .. N /\ n \in Nat /\ parts[n] \in Texts /\ (n = 1 => n - 1 = 0)
      BY <1>1
    <3>2. x \in 1 .. L + 1 /\ (n = 1 => x = 1)
      BY <1>2, <2>3, <3>1
    <3>3. Past(parts, path, x, n) = pos[n] /\ pos[n] # 0
      <4>1. n \in 0 .. N
        BY <1>1
      <4> QED BY <1>1, <1>2, <2>3, <4>1
    <3> HIDE DEF x
    <3>4. \E i \in Nat : /\ x <= i /\ Occurs(parts[n], path, i)
                         /\ Past(parts, path, x, n) = i + Len(parts[n])
                         /\ n = 1 /\ x = 1 => i = 1
      BY <3>1, <3>2, <3>3, PastIs DEF L
    <3>5. \E i : Starts(n, i)
      BY <3>2, <3>3, <3>4 DEF x
    <3> HIDE DEF Starts
    <3> QED BY <3>5
  <2> HIDE DEF b
  <2>5. ASSUME NEW n \in 1 .. N
        PROVE  /\ b[n] \in Nat /\ b[n] >= 1 /\ pos[n - 1] <= b[n] /\ Occurs(parts[n], path, b[n])
               /\ pos[n] = b[n] + Len(parts[n]) /\ (n = 1 => b[n] = 1)
               /\ pos[n] \in Nat /\ pos[n - 1] \in Nat /\ pos[n - 1] <= pos[n]
    <3>1. n - 1 \in 0 .. N /\ n \in 0 .. N
      BY <1>1
    <3>2. pos[n - 1] \in Nat /\ pos[n - 1] >= 1 /\ pos[n] \in Nat
      BY <2>3, <3>1
    <3>3. Starts(n, b[n])
      BY <2>4
    <3>4. Len(parts[n]) \in Nat
      BY <1>1
    <3> DEFINE x == pos[n - 1]
               y == pos[n]
               c == b[n]
               l == Len(parts[n])
    <3>5. x \in Nat /\ x >= 1 /\ y \in Nat /\ c \in Nat /\ l \in Nat /\ x <= c /\ y = c + l
      BY <3>2, <3>3, <3>4
    <3> HIDE DEF x, y, c, l
    <3>6. c >= 1 /\ x <= y
      BY <3>5
    <3> QED BY <3>2, <3>3, <3>6 DEF x, y, c, l
  <2> DEFINE Ahead == {k \in 0 .. N : ~(pos[N - k] <= pos[N])}
  <2>6. Ahead = {}
    <3> SUFFICES ASSUME Ahead # {} PROVE FALSE
      OBVIOUS
    <3>1. Ahead \in SUBSET Nat
      BY <1>1
    <3>2. PICK k \in Ahead : \A j \in Ahead : k <= j
      BY <3>1, LeastNat
    <3>3. k # 0 /\ k \in 0 .. N
      <4>1. N - 0 = N /\ N \in 0 .. N
        BY <1>1
      <4>2. pos[N] \in Nat
        BY <2>3, <4>1
      <4>3. pos[N] <= pos[N]
        BY <4>2
      <4> QED BY <3>2, <4>1, <4>3
    <3> DEFINE n == N - (k - 1)
    <3>4. n \in 1 .. N /\ n - 1 = N - k /\ k - 1 \in 0 .. N /\ ~(k <= k - 1) /\ N \in 0 .. N
      BY <1>1, <3>3
    <3>5. pos[n] <= pos[N]
      <4>1. k - 1 \notin Ahead
        BY <3>2, <3>4
      <4> QED BY <3>4, <4>1
    <3> HIDE DEF n
    <3>6. pos[n - 1] <= pos[n] /\ pos[n - 1] \in Nat /\ pos[n] \in Nat
      BY <2>5, <3>4
    <3>7. pos[N] \in Nat
      BY <2>3, <3>4
    <3>8. pos[n - 1] <= pos[N]
      BY <3>5, <3>6, <3>7
    <3> QED BY <3>2, <3>4, <3>8
  <2>7. \A n \in 1 .. N : pos[n] <= pos[N]
    <3> SUFFICES ASSUME NEW n \in 1 .. N PROVE pos[n] <= pos[N]
      OBVIOUS
    <3>1. N - n \in 0 .. N /\ N - (N - n) = n
      BY <1>1
    <3> QED BY <2>6, <3>1
  <2> HIDE DEF Ahead
  <2> DEFINE end == pos[N]
             m == IF end = 1 THEN 1 ELSE end - 1
             s == SubSeq(path, 1, m)
             c(n) == IF n = N /\ parts[N] = <<>> THEN m + 1 ELSE b[n]
  <2>8. N \in 1 .. N /\ N \in 0 .. N /\ end \in 1 .. L + 1 /\ end \in Nat
    <3>1. N \in 1 .. N /\ N \in 0 .. N
      BY <1>1
    <3> QED BY <2>3, <3>1
  <2> HIDE DEF end
  <2>9. m \in 1 .. L /\ m \in Nat /\ end <= m + 1 /\ (end # 1 => m + 1 = end)
    BY <1>1, <2>8
  <2> HIDE DEF m
  <2>10. s \in Texts /\ Len(s) = m
    BY <1>1, <2>9, PartFacts DEF L
  <2>11. ASSUME NEW n \in 1 .. N PROVE Occurs(parts[n], s, b[n]) /\ b[n] \in 1 .. m + 1
    <3>1. b[n] \in Nat /\ b[n] >= 1 /\ Len(parts[n]) \in Nat /\ pos[n] = b[n] + Len(parts[n]) /\ pos[n] <= end
      BY <1>1, <2>5, <2>7 DEF end
    <3>2. b[n] + Len(parts[n]) - 1 <= m /\ b[n] \in 1 .. m + 1
      BY <2>8, <2>9, <3>1
    <3>3. m \in 1 .. Len(path) /\ parts[n] \in Texts /\ Occurs(parts[n], path, b[n])
      BY <1>1, <2>5, <2>9 DEF L
    <3> HIDE DEF s
    <3>4. Occurs(parts[n], s, b[n])
      BY <3>1, <3>2, <3>3, OccursInPart DEF s
    <3> QED BY <3>2, <3>4
  <2> HIDE DEF s
  <2>12. ASSUME NEW n \in 1 .. N PROVE Occurs(parts[n], s, c(n)) /\ c(n) \in 1 .. m + 1 /\ b[n] <= c(n)
    <3>1. CASE n = N /\ parts[N] = <<>>
      <4>1. c(n) = m + 1 /\ m + 1 \in 1 .. Len(s) + 1
        BY <2>9, <2>10, <3>1
      <4>2. Occurs(<<>>, s, m + 1)
        BY <2>10, <4>1, NothingOccurs
      <4>3. b[n] \in 1 .. m + 1
        BY <2>11
      <4> QED BY <2>9, <2>10, <3>1, <4>1, <4>2, <4>3
    <3>2. CASE ~(n = N /\ parts[N] = <<>>)
      <4>1. c(n) = b[n]
        BY <3>2
      <4> HIDE DEF c
      <4>2. b[n] <= b[n]
        BY <2>5
      <4> QED BY <2>11, <4>1, <4>2
    <3> QED BY <3>1, <3>2
  <2>13. c(N) + Len(parts[N]) = m + 1
    <3>1. CASE parts[N] = <<>>
      <4>1. c(N) = m + 1 /\ Len(parts[N]) = 0
        BY <3>1
      <4> HIDE DEF c
      <4> QED BY <2>9, <4>1
    <3>2. CASE parts[N] # <<>>
      <4>1. c(N) = b[N]
        BY <3>2
      <4>2. parts[N] \in Seq(Chars) /\ Len(parts[N]) \in Nat
        BY <1>1, <2>8 DEF Texts
      <4>3. Len(parts[N]) # 0
        BY <3>2, <4>2, EmptySeq
      <4>4. end = b[N] + Len(parts[N]) /\ b[N] \in Nat /\ b[N] >= 1
        BY <2>5, <2>8 DEF end
      <4> HIDE DEF c
      <4>5. end # 1
        BY <4>2, <4>3, <4>4
      <4> QED BY <2>9, <4>1, <4>4, <4>5
    <3> QED BY <3>1, <3>2
  <2>14. ASSUME NEW n \in 1 .. N, n # N PROVE c(n) + Len(parts[n]) <= c(n + 1)
    <3>1. n + 1 \in 1 .. N /\ n + 1 - 1 = n
      BY <1>1, <2>14
    <3>2. c(n) = b[n]
      BY <2>14
    <3>3. b[n + 1] <= c(n + 1) /\ c(n + 1) \in 1 .. m + 1
      BY <2>12, <3>1
    <3> HIDE DEF c
    <3> DEFINE q == n + 1
    <3>4. q \in 1 .. N /\ q - 1 = n
      BY <3>1
    <3> HIDE DEF q
    <3>5. b[q] \in Nat /\ pos[q - 1] <= b[q]
      BY <2>5, <3>4
    <3>6. pos[n] = b[n] + Len(parts[n]) /\ pos[n] \in Nat
      BY <2>5
    <3>7. pos[n] <= b[n + 1] /\ b[n + 1] \in Nat
      BY <3>4, <3>5 DEF q
    <3> QED BY <2>9, <3>2, <3>3, <3>6, <3>7
  <2>15. c(1) = 1
    <3>1. 1 \in 1 .. N /\ 1 # N
      BY <1>1
    <3>2. b[1] = 1
      BY <2>5, <3>1
    <3> QED BY <3>1, <3>2
  <2> HIDE DEF c
  <2>16. PICK r : IsChain(r, parts, s) /\ (Spans(parts, s) <=> 1 \in r[1])
    BY <1>1, <2>10, SpansIs DEF N
  <2>17. \A n \in 1 .. N : \A k \in 1 .. m + 1 :
          k \in r[n] <=>
            /\ Occurs(parts[n], s, k)
            /\ IF n = N THEN k + Len(parts[n]) = m + 1
               ELSE \E j \in 1 .. m + 1 : j \in r[n + 1] /\ k + Len(parts[n]) <= j
    BY <2>10, <2>16 DEF IsChain, N
  <2> DEFINE Broken == {k \in 0 .. N - 1 : c(N - k) \notin r[N - k]}
  <2>18. Broken = {}
    <3> SUFFICES ASSUME Broken # {} PROVE FALSE
      OBVIOUS
    <3>1. Broken \in SUBSET Nat
      BY <1>1
    <3>2. PICK k \in Broken : \A j \in Broken : k <= j
      BY <3>1, LeastNat
    <3> DEFINE n == N - k
    <3>3. n \in 1 .. N /\ k \in 0 .. N - 1
      BY <1>1, <3>2
    <3>4. CASE n = N
      BY <2>12, <2>13, <2>17, <3>2, <3>3, <3>4
    <3>5. CASE n # N
      <4>1. k - 1 \in 0 .. N - 1 /\ ~(k <= k - 1) /\ N - (k - 1) = n + 1 /\ n + 1 \in 1 .. N
        BY <1>1, <3>3, <3>5
      <4>2. c(N - (k - 1)) \in r[N - (k - 1)]
        BY <3>2, <4>1
      <4>3. c(n) \notin r[n]
        BY <3>2
      <4> HIDE DEF n
      <4>4. c(n + 1) \in r[n + 1] /\ c(n + 1) \in 1 .. m + 1
        BY <2>12, <4>1, <4>2
      <4>5. c(n) + Len(parts[n]) <= c(n + 1)
        BY <2>14, <3>3, <3>5
      <4>6. c(n) \in 1 .. m + 1 /\ Occurs(parts[n], s, c(n))
        BY <2>12, <3>3
      <4> QED BY <2>17, <3>3, <3>5, <4>3, <4>4, <4>5, <4>6
    <3> QED BY <3>4, <3>5
  <2>19. c(1) \in r[1]
    <3>1. N - 1 \in 0 .. N - 1 /\ N - (N - 1) = 1
      BY <1>1
    <3> QED BY <2>18, <3>1
  <2>20. Spans(parts, s)
    BY <2>15, <2>16, <2>19
  <2> QED BY <2>9, <2>20 DEF s
<1> QED BY <1>3, <1>4 DEF N, L

-----------------------------------------------------------------------------
(* What the patterns of .ctxpack.yml match is what they mean.               *)

IsPath(path) ==
  /\ path \in Texts /\ path # <<>> /\ Base(path) # <<>> /\ path[1] # "/"
  /\ ~IsPrefix(Here, path) /\ ~Has(path, "*")

\* The pattern in a form in which each part of Match can be dealt with.
MatchTrimmed(p, path) ==
  \/ p = path
  \/ IF IsSuffix(Slash, p) THEN IsPrefix(p, path)
     ELSE IF TrimSuffix(p, Beyond) # p
     THEN path = TrimSuffix(p, Beyond) \/ IsPrefix(TrimSuffix(p, Beyond) \o Slash, path)
     ELSE IF Index(p, DoubleStar, 1) # 0 THEN MatchDoubleStar(p, path)
     ELSE \/ Glob(p, path)
          \/ ~Has(p, "/") /\ Glob(p, Base(path))
          \/ IsPrefix(p \o Slash, path)

PlainTrimmed(p) ==
  LET body == TrimSuffix(p, Beyond)
  IN  \/ ~Has(body, "*")
      \/ /\ body = p /\ ~IsSuffix(Slash, p)
         /\ Len(Split(body)) > 1 => \A n \in DOMAIN Split(body) : ~Has(Split(body)[n], "*")

MeansTrimmed(p, path) ==
  LET body == TrimSuffix(p, Beyond)
      dir  == IF body = p THEN TrimSuffix(p, Slash) ELSE body
  IN  IF ~Has(dir, "*")
      THEN \/ IsPrefix(dir \o Slash, path)
           \/ path = dir /\ (body = p => dir = p)
           \/ dir = p /\ ~Has(p, "/") /\ Base(path) = p
      ELSE IF Index(p, DoubleStar, 1) # 0
      THEN \E n \in 1 .. Len(path) : Spans(Split(p), SubSeq(path, 1, n))
      ELSE Glob(p, path) \/ (~Has(p, "/") /\ Glob(p, Base(path)))

\* A directory with "/" behind it.
LEMMA DirWithSlash ==
  ASSUME NEW p \in Texts, IsSuffix(Slash, p), NEW path, IsPath(path)
  PROVE  MatchTrimmed(p, path) <=> PlainTrimmed(p) /\ MeansTrimmed(p, path)
<1> DEFINE d == TrimSuffix(p, Slash)
<1>1. path \in Texts /\ ~Has(path, "*")
  BY DEF IsPath
<1>2. Len(p) \in Nat /\ Len(p) >= 1 /\ p[Len(p)] = "/" /\ DOMAIN p = 1 .. Len(p)
  BY EndsInSlash, TextFacts
<1> DEFINE n == Len(p)
<1>a. n \in Nat /\ n >= 1 /\ n = Len(p)
  BY <1>2
<1> HIDE DEF n
<1>b. \A k \in 1 .. n : k = n \/ k \in 1 .. n - 1
  BY <1>a
<1>3. ~IsSuffix(Beyond, p)
  <2>1. IsSuffix(Beyond, p) => p[Len(p)] = "*"
    BY EndsInStars
  <2> QED BY <1>2, <2>1
<1>4. TrimSuffix(p, Beyond) = p
  BY <1>3 DEF TrimSuffix
<1>5. d \in Texts /\ Len(d) = Len(p) - 1 /\ d # p /\ \A k \in 1 .. Len(p) - 1 : d[k] = p[k]
  <2> DEFINE b == Slash
  <2>1. b \in Texts /\ Len(b) = 1 /\ Len(b) >= 1 /\ IsSuffix(b, p)
    BY SlashIsText
  <2> HIDE DEF b
  <2>2. TrimSuffix(p, b) \in Texts /\ TrimSuffix(p, b) # p
    BY <2>1, TrimSuffixIs
  <2>3. Len(TrimSuffix(p, b)) = Len(p) - Len(b)
    BY <2>1, TrimSuffixIs
  <2>4. \A k \in 1 .. Len(p) - Len(b) : TrimSuffix(p, b)[k] = p[k]
    BY <2>1, TrimSuffixIs
  <2>5. Len(p) - Len(b) = Len(p) - 1
    BY <2>1
  <2> QED BY <2>2, <2>3, <2>4, <2>5 DEF b
<1> HIDE DEF d
<1>6. d \o Slash = p
  <2> DEFINE q == d \o Slash
  <2>1. d \in Seq(Chars) /\ Slash \in Seq(Chars) /\ Len(Slash) = 1 /\ Slash[1] = "/"
    BY <1>5, SlashIsText DEF Texts
  <2>2. q \in Seq(Chars) /\ Len(q) = Len(d) + Len(Slash)
    BY <2>1, ConcatProperties
  <2>3. \A k \in 1 .. Len(d) : q[k] = d[k]
    BY <2>1, ConcatProperties
  <2>4. q[Len(d) + 1] = Slash[Len(d) + 1 - Len(d)]
    <3>1. Len(d) + 1 \in Len(d) + 1 .. Len(d) + Len(Slash)
      BY <1>2, <1>5, <2>1
    <3> QED BY <2>1, <3>1, ConcatProperties
  <2> HIDE DEF q
  <2>5. Len(d) + 1 - Len(d) = 1 /\ Len(d) + 1 = Len(p) /\ Len(q) = Len(p)
    BY <1>2, <1>5, <2>1, <2>2
  <2>6. \A k \in 1 .. Len(p) : k = Len(p) \/ k \in 1 .. Len(p) - 1
    BY <1>b DEF n
  <2>7. ASSUME NEW k \in 1 .. Len(p) PROVE q[k] = p[k]
    <3>1. CASE k = Len(p)
      BY <1>2, <2>1, <2>4, <2>5, <3>1
    <3>2. CASE k # Len(p)
      BY <1>5, <2>3, <2>6, <3>2
    <3> QED BY <3>1, <3>2
  <2>8. q = p
    BY <2>2, <2>5, <2>7, SameText DEF Texts
  <2> QED BY <2>8 DEF q
<1>7. Has(d, "*") <=> Has(p, "*")
  <2>1. DOMAIN d = 1 .. Len(p) - 1
    BY <1>5, TextFacts
  <2>2. \A k \in 1 .. Len(p) : k = Len(p) \/ k \in 1 .. Len(p) - 1
    BY <1>b DEF n
  <2>3. \A k \in 1 .. Len(p) - 1 : k \in 1 .. Len(p)
    BY <1>2
  <2>4. p[Len(p)] # "*"
    BY <1>2
  <2> QED BY <1>2, <1>5, <2>1, <2>2, <2>3, <2>4 DEF Has
<1>8. MatchTrimmed(p, path) <=> IsPrefix(p, path)
  <2>1. p = path => IsPrefix(p, path)
    BY <1>1, PrefixIs
  <2> QED BY <2>1 DEF MatchTrimmed
<1>9. PlainTrimmed(p) <=> ~Has(p, "*")
  BY <1>4 DEF PlainTrimmed
<1>10. IsPrefix(p, path) => ~Has(p, "*")
  BY <1>1, NoStarInPrefix
<1>11. ~Has(p, "*") => (MeansTrimmed(p, path) <=> IsPrefix(p, path))
  <2>1. MeansTrimmed(p, path) <=>
          IF ~Has(d, "*")
          THEN \/ IsPrefix(d \o Slash, path)
               \/ path = d /\ d = p
               \/ d = p /\ ~Has(p, "/") /\ Base(path) = p
          ELSE IF Index(p, DoubleStar, 1) # 0
          THEN \E m \in 1 .. Len(path) : Spans(Split(p), SubSeq(path, 1, m))
          ELSE Glob(p, path) \/ (~Has(p, "/") /\ Glob(p, Base(path)))
    BY <1>4 DEF MeansTrimmed, d
  <2> QED BY <1>5, <1>6, <1>7, <2>1
<1> QED BY <1>8, <1>9, <1>10, <1>11

\* A directory with "/**" behind it.
LEMMA DirWithStars ==
  ASSUME NEW p \in Texts, ~IsSuffix(Slash, p), IsSuffix(Beyond, p), NEW path, IsPath(path)
  PROVE  MatchTrimmed(p, path) <=> PlainTrimmed(p) /\ MeansTrimmed(p, path)
<1> DEFINE d == TrimSuffix(p, Beyond)
<1>1. path \in Texts /\ ~Has(path, "*")
  BY DEF IsPath
<1>2. Len(p) \in Nat /\ Len(p) >= 3 /\ p[Len(p)] = "*" /\ DOMAIN p = 1 .. Len(p)
  BY EndsInStars, TextFacts
<1>3. d \in Texts /\ d # p
  <2> DEFINE b == Beyond
  <2>1. b \in Texts /\ Len(b) = 3
    BY MarksAreTexts
  <2> HIDE DEF b
  <2>2. IsSuffix(b, p) /\ Len(b) >= 1
    BY <2>1 DEF b
  <2>3. TrimSuffix(p, b) \in Texts /\ TrimSuffix(p, b) # p
    BY <2>1, <2>2, TrimSuffixIs
  <2> QED BY <2>3 DEF b
<1>4. p # path
  BY <1>1, <1>2 DEF Has
<1>5. MatchTrimmed(p, path) <=> path = d \/ IsPrefix(d \o Slash, path)
  BY <1>3, <1>4 DEF MatchTrimmed
<1>6. PlainTrimmed(p) <=> ~Has(d, "*")
  BY <1>3 DEF PlainTrimmed
<1>7. ~Has(d, "*") => (MeansTrimmed(p, path) <=> IsPrefix(d \o Slash, path) \/ path = d)
  BY <1>3 DEF MeansTrimmed
<1> HIDE DEF d
<1>8. path = d \/ IsPrefix(d \o Slash, path) => ~Has(d, "*")
  BY <1>1, <1>3, NoStarInDir
<1> QED BY <1>5, <1>6, <1>7, <1>8

\* Any other pattern.
LEMMA OtherPattern ==
  ASSUME NEW p \in Texts, ~IsSuffix(Slash, p), ~IsSuffix(Beyond, p), NEW path, IsPath(path)
  PROVE  MatchTrimmed(p, path) <=> PlainTrimmed(p) /\ MeansTrimmed(p, path)
<1>1. path \in Texts /\ ~Has(path, "*") /\ path # <<>>
  BY DEF IsPath
<1>2. TrimSuffix(p, Beyond) = p /\ TrimSuffix(p, Slash) = p
  BY DEF TrimSuffix
<1> DEFINE parts == Split(p)
<1>3. parts \in Seq(Texts) /\ Len(parts) >= 1 /\ (Len(parts) > 1 <=> Index(p, DoubleStar, 1) # 0)
  BY SplitIs
<1>4. PlainTrimmed(p) <=> ~Has(p, "*") \/ (Len(parts) > 1 => \A n \in DOMAIN parts : ~Has(parts[n], "*"))
  BY <1>2 DEF PlainTrimmed
<1>5. MeansTrimmed(p, path) <=>
        IF ~Has(p, "*")
        THEN \/ IsPrefix(p \o Slash, path)
             \/ path = p
             \/ ~Has(p, "/") /\ Base(path) = p
        ELSE IF Index(p, DoubleStar, 1) # 0
        THEN \E n \in 1 .. Len(path) : Spans(parts, SubSeq(path, 1, n))
        ELSE Glob(p, path) \/ (~Has(p, "/") /\ Glob(p, Base(path)))
  BY <1>2 DEF MeansTrimmed
<1>6. Has(p, "*") => p # path /\ ~IsPrefix(p \o Slash, path)
  BY <1>1, NoStarInDir
<1>7. Base(path) \in Texts
  BY <1>1, LastSlashExists, LastSlashIs
<1>8. CASE Index(p, DoubleStar, 1) # 0
  <2> DEFINE at == Index(p, DoubleStar, 1)
  <2>1. Has(p, "*")
    <3>1. 1 \in Nat /\ 1 >= 1
      OBVIOUS
    <3>2. at \in Nat /\ at >= 1 /\ Occurs(DoubleStar, p, at)
      BY <1>8, <3>1, IndexIs, MarksAreTexts
    <3> HIDE DEF at
    <3> DEFINE b == DoubleStar
    <3>3. b \in Texts /\ Len(b) = 2 /\ b[1] = "*"
      BY MarksAreTexts
    <3> HIDE DEF b
    <3>4. Occurs(b, p, at)
      BY <3>2 DEF b
    <3>5. at + Len(b) - 1 <= Len(p) /\ \A j \in 1 .. Len(b) : b[j] = p[at + j - 1]
      BY <3>2, <3>3, <3>4, OccursIs
    <3>6. 1 \in 1 .. Len(b) /\ at + 1 - 1 = at
      <4>1. 1 \in 1 .. Len(b)
        BY <3>3
      <4>2. at + 1 - 1 = at
        BY <3>2
      <4> QED BY <4>1, <4>2
    <3>7. p[at] = "*"
      BY <3>3, <3>5, <3>6
    <3>8. at \in DOMAIN p
      BY <3>2, <3>3, <3>5, TextFacts
    <3> QED BY <3>7, <3>8 DEF Has
  <2>2. MatchTrimmed(p, path) <=> MatchDoubleStar(p, path)
    BY <1>2, <1>6, <1>8, <2>1 DEF MatchTrimmed
  <2>3. PICK pos : IsSearch(pos, parts, path) /\ (MatchDoubleStar(p, path) <=> pos[Len(parts)] # 0)
    BY <1>1, <1>3, SearchIs
  <2> HIDE DEF parts
  <2>4. pos[Len(parts)] # 0 <=> \E m \in 1 .. Len(path) : Spans(parts, SubSeq(path, 1, m))
    BY <1>1, <1>3, <1>8, <2>3, SearchFindsSpans
  <2>5. ASSUME NEW n \in DOMAIN parts, Has(parts[n], "*"), pos[Len(parts)] # 0
        PROVE  FALSE
    <3> DEFINE N == Len(parts)
    <3>1. N \in Nat /\ n \in 1 .. N /\ n \in Nat /\ parts[n] \in Texts
      BY <1>3
    <3>2. parts[n] # <<>>
      BY <2>5 DEF Has
    <3>3. ASSUME NEW k \in Nat PROVE ~Occurs(parts[n], path, k)
      <4> SUFFICES ASSUME Occurs(parts[n], path, k) PROVE FALSE
        OBVIOUS
      <4>1. k \in Nat /\ k >= 1
        BY DEF Occurs
      <4>2. k + Len(parts[n]) - 1 <= Len(path) /\ \A j \in 1 .. Len(parts[n]) : parts[n][j] = path[k + j - 1]
        BY <1>1, <3>1, <4>1, OccursIs
      <4>3. PICK j \in 1 .. Len(parts[n]) : parts[n][j] = "*"
        BY <2>5, <3>1, TextFacts DEF Has
      <4>4. Len(parts[n]) \in Nat /\ Len(path) \in Nat /\ DOMAIN path = 1 .. Len(path)
        BY <1>1, <3>1, TextFacts
      <4>5. k + j - 1 \in 1 .. Len(path)
        BY <4>1, <4>2, <4>4
      <4>6. path[k + j - 1] = "*"
        BY <4>2, <4>3
      <4> QED BY <1>1, <4>4, <4>5, <4>6 DEF Has
    <3> HIDE DEF N
    <3>4. /\ pos \in [0 .. N -> 0 .. Len(path) + 1]
          /\ \A i \in 1 .. N : pos[i] = Past(parts, path, pos[i - 1], i)
      BY <2>3 DEF IsSearch, N
    <3>5. pos[n] = 0
      <4>1. n - 1 \in 0 .. N /\ Len(path) \in Nat
        BY <1>1, <3>1, TextFacts
      <4>2. pos[n - 1] \in 0 .. Len(path) + 1 /\ pos[n] = Past(parts, path, pos[n - 1], n)
        BY <3>1, <3>4, <4>1
      <4> DEFINE x == pos[n - 1]
      <4> HIDE DEF x
      <4>3. x = 0 => Past(parts, path, x, n) = 0
        BY DEF Past
      <4>4. x # 0 => x \in 1 .. Len(path) + 1
        BY <4>1, <4>2 DEF x
      <4>5. x # 0 => Past(parts, path, x, n) = 0
        <5> SUFFICES ASSUME x # 0, Past(parts, path, x, n) # 0 PROVE FALSE
          OBVIOUS
        <5>1. PICK b \in Nat : Occurs(parts[n], path, b)
          BY <1>1, <3>1, <4>4, PastIs
        <5> QED BY <3>3, <5>1
      <4> QED BY <4>2, <4>3, <4>5 DEF x
    <3> DEFINE Found_ == {i \in n .. N : pos[i] # 0}
    <3>6. Found_ = {}
      <4> SUFFICES ASSUME Found_ # {} PROVE FALSE
        OBVIOUS
      <4>1. Found_ \in SUBSET Nat
        BY <3>1
      <4>2. PICK i \in Found_ : \A j \in Found_ : i <= j
        BY <4>1, LeastNat
      <4>3. i # n
        BY <3>5, <4>2
      <4>4. i \in 1 .. N /\ i - 1 \in n .. N /\ ~(i <= i - 1)
        BY <3>1, <4>2, <4>3
      <4>5. pos[i - 1] = 0
        BY <4>2, <4>4
      <4>6. pos[i] = 0
        BY <3>4, <4>4, <4>5 DEF Past
      <4> QED BY <4>2, <4>6
    <3>7. N \in n .. N
      BY <3>1
    <3> QED BY <2>5, <3>6, <3>7 DEF N
  <2> QED BY <1>3, <1>4, <1>5, <1>8, <2>1, <2>2, <2>3, <2>4, <2>5
<1>9. CASE Index(p, DoubleStar, 1) = 0
  <2>1. PlainTrimmed(p)
    BY <1>3, <1>4, <1>9
  <2>2. MatchTrimmed(p, path) <=>
          \/ p = path
          \/ Glob(p, path)
          \/ ~Has(p, "/") /\ Glob(p, Base(path))
          \/ IsPrefix(p \o Slash, path)
    BY <1>2, <1>9 DEF MatchTrimmed
  <2>3. CASE Has(p, "*")
    BY <1>5, <1>6, <1>9, <2>1, <2>2, <2>3
  <2>4. CASE ~Has(p, "*")
    <3>1. \A t \in Texts : Glob(p, t) <=> p = t
      BY <2>4, GlobItself, GlobOfName
    <3> QED BY <1>1, <1>5, <1>7, <2>1, <2>2, <2>4, <3>1
  <2> QED BY <2>3, <2>4
<1> QED BY <1>8, <1>9

\* pathspec.Match: for every pattern, and every path without a star.
LEMMA MatchIsMeant ==
  ASSUME NEW raw \in Texts, NEW path, IsPath(path)
  PROVE  Match(raw, path) <=> Plain(raw) /\ Means(raw, path)
<1> DEFINE p == TrimPrefix(raw, Here)
<1>1. path # <<>> /\ TrimPrefix(path, Here) = path
  BY DEF IsPath, TrimPrefix
<1>2. p \in Texts /\ (raw = <<>> => p = <<>>)
  BY TrimPrefixIs
<1>3. Match(raw, path) <=> raw # <<>> /\ MatchTrimmed(p, path)
  BY <1>1 DEF Match, MatchTrimmed, Here, Beyond
<1>4. Plain(raw) <=> PlainTrimmed(p)
  BY DEF Plain, PlainTrimmed, Here, Beyond
<1>5. Means(raw, path) <=> MeansTrimmed(p, path)
  BY DEF Means, MeansTrimmed, Here, Beyond
<1> HIDE DEF p
<1>6. MatchTrimmed(p, path) <=> PlainTrimmed(p) /\ MeansTrimmed(p, path)
  BY <1>2, DirWithSlash, DirWithStars, OtherPattern
<1>7. ASSUME raw = <<>> PROVE ~MatchTrimmed(p, path)
  <2> DEFINE e == <<>>
  <2>1. p = e /\ e \in Texts /\ Len(e) = 0 /\ path \in Texts /\ path # e
    BY <1>2, <1>7 DEF IsPath
  <2>2. Base(path) \in Texts /\ Base(path) # e /\ path[1] # "/"
    BY <2>1, LastSlashExists, LastSlashIs DEF IsPath
  <2>3. ~Has(e, "*")
    BY <2>1, TextFacts DEF Has
  <2> HIDE DEF e
  <2>4. ~IsSuffix(Slash, e)
    BY <2>1, EndsInSlash
  <2>5. TrimSuffix(e, Beyond) = e
    <3>1. IsSuffix(Beyond, e) => Len(e) >= 3
      BY <2>1, EndsInStars
    <3>2. ~IsSuffix(Beyond, e)
      BY <2>1, <3>1
    <3> QED BY <3>2 DEF TrimSuffix
  <2>6. Index(e, DoubleStar, 1) = 0
    <3> DEFINE at == Index(e, DoubleStar, 1)
               b == DoubleStar
    <3>1. b \in Texts /\ Len(b) = 2 /\ 1 \in Nat /\ 1 >= 1
      BY MarksAreTexts
    <3>2. at # 0 => Occurs(b, e, at)
      BY <2>1, <3>1, IndexIs
    <3> HIDE DEF at, b
    <3>3. \A k \in 1 .. Len(e) - Len(b) + 1 : FALSE
      BY <2>1, <3>1
    <3>4. at = 0
      BY <3>2, <3>3 DEF Occurs
    <3> QED BY <3>4 DEF at
  <2>7. ~Glob(e, path) /\ ~Glob(e, Base(path))
    BY <2>1, <2>2, <2>3, GlobOfName
  <2>8. ~IsPrefix(e \o Slash, path)
    <3>1. IsPrefix(e \o Slash, path) => path[Len(e) + 1] = "/"
      BY <2>1, BelowIs DEF IsBelow
    <3>2. Len(e) + 1 = 1
      BY <2>1
    <3> QED BY <2>2, <3>1, <3>2
  <2> QED BY <2>1, <2>4, <2>5, <2>6, <2>7, <2>8 DEF MatchTrimmed
<1> QED BY <1>3, <1>4, <1>5, <1>6, <1>7

\* The patterns of .ctxpack.yml are texts, and stay what they are.
IgnoreIsText == \A k \in DOMAIN ignore : ignore[k] \in Texts

LEMMA IgnoreStaysText == ScanSpec => []IgnoreIsText
<1>1. ScanInit => IgnoreIsText
  <2> SUFFICES ASSUME ScanInit, NEW k \in DOMAIN ignore PROVE ignore[k] \in Texts
    BY DEF IgnoreIsText
  <2>1. PICK c \in Cases : ignore = c.ignore
    BY DEF ScanInit
  <2>2. ignore[k] \in Seq(STRING)
    BY <2>1, TreesAssumption
  <2> QED BY <2>2, SeqOfStrings
<1>2. IgnoreIsText /\ [ScanNext]_scanVars => IgnoreIsText'
  <2>1. [ScanNext]_scanVars => UNCHANGED ignore
    BY DEF ScanNext, VisitFile, SkipDir, EnterDir, WalkError, EndWalk, RemoveDir, Apply, Stopped,
           scanVars, settings
  <2> QED BY <2>1 DEF IgnoreIsText
<1> QED BY <1>1, <1>2, PTL DEF ScanSpec

\* The files of the index are paths as Match expects them.
LEMMA FilesArePaths ==
  ASSUME WalkInv, phase = "scanned", NEW f \in files, ~Has(f, "*")
  PROVE  IsPath(f)
<1>1. Readable /\ f \in tree.files
  BY DEF WalkInv, Found
<1>2. f \in Texts /\ f # <<>> /\ Above(f) \ {f} \subseteq tree.dirs
  BY <1>1, TreeFacts
<1>3. Base(f) # <<>> /\ ~IsPrefix(Here, f)
  BY <1>1 DEF Readable, IsTree, Here
<1>4. f[1] # "/"
  <2> SUFFICES ASSUME f[1] = "/" PROVE FALSE
    OBVIOUS
  <2> DEFINE e == <<>>
  <2>1. e \in Texts /\ Len(e) = 0 /\ Len(f) \in Nat /\ Len(f) # 0
    BY <1>2, TextFacts DEF Texts
  <2>2. SubSeq(f, 1, 0) = e
    BY <1>2, <2>1 DEF Texts
  <2> HIDE DEF e
  <2>3. Len(e) + 1 = 1 /\ Len(e) < Len(f)
    BY <2>1
  <2>4. IsBelow(e, f)
    BY <2>1, <2>2, <2>3 DEF IsBelow
  <2>5. e \in Above(f) /\ e # f
    BY <1>2, <2>1, <2>4, AboveIs
  <2>6. e \in tree.dirs
    BY <1>2, <2>5
  <2>7. e # <<>>
    BY <1>1, <2>6, TreeFacts
  <2> QED BY <2>7 DEF e
<1> QED BY <1>2, <1>3, <1>4 DEF IsPath

\* config.Apply takes out of the index what plain patterns name, and the
\* languages that are not enabled, and nothing else if all patterns are plain:
\* for every work tree and every configuration.
THEOREM NamedIsApplied == ScanSpec => AppliesWhatIsNamed
<1> DEFINE Inv == WalkInv /\ IgnoreIsText
           Surely(f) == \E k \in DOMAIN ignore : Plain(ignore[k]) /\ MeansWhole(ignore[k], f)
           Maybe(f)  == \E k \in DOMAIN ignore : Means(ignore[k], f) \/ ~Plain(ignore[k])
           Right(f)  == /\ f \in files' => Enabled(f) /\ ~Surely(f)
                        /\ f \notin files' => ~Enabled(f) \/ Maybe(f)
           Step ==
             phase = "scanned" =>
               \A f \in files : ~Has(f, "*") =>
                 /\ f \in files' => /\ Enabled(f)
                                    /\ ~\E k \in DOMAIN ignore : Plain(ignore[k]) /\ MeansWhole(ignore[k], f)
                 /\ f \notin files' => \/ ~Enabled(f)
                                       \/ \E k \in DOMAIN ignore : Means(ignore[k], f) \/ ~Plain(ignore[k])
<1>1. ASSUME Inv, ScanNext PROVE Step \/ UNCHANGED scanVars
  <2> SUFFICES ASSUME phase = "scanned", NEW f \in files, ~Has(f, "*"), ~UNCHANGED scanVars
               PROVE  Right(f)
    OBVIOUS
  <2>1. Apply
    BY <1>1 DEF ScanNext, VisitFile, SkipDir, EnterDir, WalkError, EndWalk, RemoveDir, Stopped, Walking
  <2>2. IsPath(f)
    BY <1>1, FilesArePaths
  <2>3. \A k \in DOMAIN ignore : Match(ignore[k], f) <=> Plain(ignore[k]) /\ Means(ignore[k], f)
    BY <1>1, <2>2, MatchIsMeant DEF IgnoreIsText
  <2>4. f \in files' <=> ~MatchAny(ignore, f) /\ Enabled(f)
    BY <2>1 DEF Apply, Enabled
  <2>5. Surely(f) => MatchAny(ignore, f)
    BY <2>3 DEF MatchAny, MeansWhole
  <2>6. MatchAny(ignore, f) => Maybe(f)
    BY <2>3 DEF MatchAny
  <2> QED BY <2>4, <2>5, <2>6
<1>2. Inv /\ [ScanNext]_scanVars => [Step]_scanVars
  BY <1>1
<1>3. ScanSpec => []Inv
  BY WalkKeepsInv, IgnoreStaysText, PTL
<1>4. ScanSpec => [][Step]_scanVars
  BY <1>2, <1>3, PTL DEF ScanSpec
<1> QED BY <1>4, PTL DEF AppliesWhatIsNamed

=============================================================================
