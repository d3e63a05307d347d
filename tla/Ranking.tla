------------------------------- MODULE Ranking -------------------------------
(***************************************************************************)
(* rank.ScoreFiles: the files of an index, ordered by relevance.           *)
(*                                                                         *)
(* Every file gets a score of its own from the task's words, and module     *)
(* ImportGraph finds the files that the imports of each name.  The files    *)
(* that score best are then visited once, in order, and each boosts what   *)
(* it imports, what imports it and the tests near it by a share of the     *)
(* score it has at that time.  Both lists are sorted from Go maps, which   *)
(* deliver their elements in any order.                                    *)
(*                                                                         *)
(* Scores are in hundredths of a point, rounded down.  How the words give  *)
(* a file its own score is left open.                                      *)
(***************************************************************************)
EXTENDS ImportGraph

CONSTANTS
  Tests,      \* those that are tests
  Code,       \* those whose extension may have tests nearby
  Entries,    \* README.md, go.mod and the like
  Cases,      \* records of an index, of the score of each file by itself, and
              \* of the tests near each: by directory, name or content
  SeedLimit   \* how many files are visited

ASSUME FilesAssumption ==
  /\ NumFiles \in Nat
  /\ Tests \subseteq Files /\ Code \subseteq Files /\ Entries \subseteq Files
ASSUME SeedLimitAssumption == SeedLimit \in Nat
ASSUME CasesAssumption ==
  \A c \in Cases : /\ c.own \in [Files -> Nat]
                   /\ \A f \in Files : IsFiniteSet(c.index[f].imports)

VARIABLES
  own, nearby,   \* the scores and tests of the case
  includeTests,  \* whether tests are boosted
  changed,       \* the files of the diff
  score,         \* the scores so far
  seeds,         \* the files still to visit
  ranking        \* the result

inputs == <<graph, own, nearby, includeTests, changed>>
rankingVars == <<graph, own, nearby, includeTests, changed, score, seeds, ranking, pc>>
-----------------------------------------------------------------------------
\* A changed file scores 120, or 84 if it matches one vague word only.
ChangedScore == 8400

Deps(f)      == resolved[f] \ {f}
Importers(f) == {g \in Files : f \in Deps(g)}
NoLocalDeps  == \A f \in Files : Deps(f) = {}

MutantBefore(s, f, g) == s[f] > s[g]  \* ties keep the order they came in

Before(s, f, g) == s[f] > s[g] \/ (s[f] = s[g] /\ f < g)

\* What a stable sort may return for the elements of a map.
SortedFrom(s, S) ==
  {q \in [1 .. Cardinality(S) -> S] :
     \A i, j \in DOMAIN q : i < j => q[i] # q[j] /\ ~Before(s, q[j], q[i])}

Capped(q, n) == IF Len(q) > n THEN SubSeq(q, 1, n) ELSE q

RelatedBoost(seedScore, cap) ==
  LET boost == (16 * seedScore) \div 100
  IN IF boost > cap THEN cap ELSE IF boost < 400 THEN 400 ELSE boost

\* What a visit of seed adds to the score of f.
Boost(seed, f, seedScore) ==
  (IF f \in Deps(seed) THEN RelatedBoost(seedScore, 800) ELSE 0)
  + (IF f \in Importers(seed) THEN RelatedBoost(seedScore, 600) ELSE 0)
  + (IF includeTests /\ seed \in Code /\ f \in nearby[seed]
     THEN RelatedBoost(seedScore, 600) ELSE 0)

Boosted(s, seed) == [f \in Files |-> s[f] + Boost(seed, f, s[seed])]

Spreads(s, seed) == s[seed] >= 2400 \/ seed \in changed

Positive(s) == {f \in Files : s[f] > 0}
-----------------------------------------------------------------------------
\* Without any import between the indexed files nothing is visited.
TopSeedPaths ==
  /\ pc = "seeds"
  /\ IF NoLocalDeps THEN seeds' = <<>>
     ELSE \E q \in SortedFrom(score, Positive(score)) : seeds' = Capped(q, SeedLimit)
  /\ pc' = "boost"
  /\ UNCHANGED <<inputs, score, ranking>>

SkipSeed ==
  /\ pc = "boost" /\ seeds # <<>> /\ ~Spreads(score, Head(seeds))
  /\ seeds' = Tail(seeds)
  /\ UNCHANGED <<inputs, score, ranking, pc>>

MutantBoostRelated ==  \* a file boosted for the first time is visited too
  /\ pc = "boost" /\ seeds # <<>> /\ Spreads(score, Head(seeds))
  /\ score' = Boosted(score, Head(seeds))
  /\ \E q \in SortedFrom(score', Positive(score') \ Positive(score)) : seeds' = Tail(seeds) \o q
  /\ UNCHANGED <<inputs, ranking, pc>>

BoostRelated ==
  /\ pc = "boost" /\ seeds # <<>> /\ Spreads(score, Head(seeds))
  /\ score' = Boosted(score, Head(seeds))
  /\ seeds' = Tail(seeds)
  /\ UNCHANGED <<inputs, ranking, pc>>

\* A task that nothing matches gets the entry points of the repository.
Rank ==
  /\ pc = "boost" /\ seeds = <<>>
  /\ ranking' \in IF Positive(score) # {} THEN SortedFrom(score, Positive(score))
                  ELSE SortedFrom([f \in Files |-> 0], Entries)
  /\ pc' = "done"
  /\ UNCHANGED <<inputs, score, seeds>>

Done == pc = "done" /\ UNCHANGED rankingVars
-----------------------------------------------------------------------------
RankingInit ==
  /\ \E c \in Cases : index = c.index /\ own = c.own /\ nearby = c.nearby
  /\ modules = <<>> /\ todo = {} /\ resolved = [f \in Files |-> {}]
  /\ includeTests \in BOOLEAN
  /\ changed \in SUBSET {f \in Files : own[f] >= ChangedScore}
  /\ score = own
  /\ seeds = <<>> /\ ranking = <<>>
  /\ pc = "tables"

BuildLocalGraph ==
  /\ IndexNames \/ AddPackageTSModules \/ ResolveImports
  /\ UNCHANGED <<own, nearby, includeTests, changed, score, seeds, ranking>>

RankingNext == BuildLocalGraph \/ TopSeedPaths \/ SkipSeed \/ BoostRelated \/ Rank \/ Done

RankingSpec == RankingInit /\ [][RankingNext]_rankingVars
-----------------------------------------------------------------------------
(* Properties.                                                              *)

RankingTypeOK ==
  /\ own \in [Files -> Nat] /\ nearby \in [Files -> SUBSET Tests]
  /\ resolved \in [Files -> SUBSET Files]
  /\ includeTests \in BOOLEAN /\ changed \subseteq Files
  /\ score \in [Files -> Nat]
  /\ Len(seeds) <= SeedLimit /\ \A k \in DOMAIN seeds : own[seeds[k]] > 0
  /\ \A k \in DOMAIN ranking : ranking[k] \in Files
  /\ pc \in {"tables", "packages", "seeds", "boost", "done"}

\* The ranking is one function of the index, the task and the options, whatever
\* order Go's maps deliver: the files in order of their own score, ties by path,
\* are visited once each, and the final scores order the result.
Rankwise(s) ==
  [k \in 1 .. Cardinality(Positive(s)) |->
     CHOOSE f \in Positive(s) :
       Cardinality({g \in Positive(s) : s[g] > s[f] \/ (s[g] = s[f] /\ g < f)}) = k - 1]

Visits == IF NoLocalDeps THEN <<>> ELSE Capped(Rankwise(own), SeedLimit)

Expected ==
  LET after[k \in 0 .. Len(Visits)] ==
        IF k = 0 THEN own
        ELSE LET s == after[k - 1] IN IF Spreads(s, Visits[k]) THEN Boosted(s, Visits[k]) ELSE s
  IN after[Len(Visits)]

SameEveryTime ==
  pc = "done" /\ Positive(own) # {} => score = Expected /\ ranking = Rankwise(score)

\* Relevance spreads one hop, and import cycles do not amplify it: however the
\* imports go, a file gains no more than one visit of each neighbour that matches
\* the task by itself can give.
Neighbours(f) == {s \in Files : f \in Deps(s) \cup Importers(s) \cup nearby[s]}

GainsFromNeighbours ==
  \A f \in Files : score[f] - own[f] <= 2000 * Cardinality(Neighbours(f) \cap Positive(own))
=============================================================================
