------------------------- MODULE GitChanges_proofs -------------------------
(***************************************************************************)
(* What ChangedFilesDetailed finds however the repository changes under    *)
(* its git commands, for any paths, texts and bounds, and whatever pairs   *)
(* git's rename detection makes; and what ScoreFiles, which starts from    *)
(* those changes, makes of any files and imports (module Ranking).         *)
(***************************************************************************)
EXTENDS GitChanges, Ranking, FiniteSetTheorems, WellFoundedInduction, TLAPS

-----------------------------------------------------------------------------
(* The inductive invariant.                                                 *)

Shapes ==
  /\ {fork, base, head, staged, work} \subseteq Trees
  /\ step \in 1 .. 11

\* A path that some change names, under its own or as what was renamed.
Found(p) ==
  \/ p \in DOMAIN byPath
  \/ \E r \in renames : r[1] = p /\ (IsCtxpackArtifact(r[2]) \/ r[2] \in DOMAIN byPath)

\* What is tracked, left alone and not like the base is found by the second
\* command; what is left alone and not tracked, by the last.
TrackedFound ==
  \A p \in Paths \ touched :
    step > 2 /\ 2 \notin failed /\ Tracked[p] # base[p] /\ ~IsCtxpackArtifact(p) => Found(p)

UntrackedFound ==
  \A p \in Paths \ touched :
    step > 9 /\ 9 \notin failed /\ p \in Untracked /\ ~IsCtxpackArtifact(p) => Found(p)

Statuses == {NoStatus, "renamed", "added", "deleted", "modified", "untracked"}

\* What may be noted of a path, in a command's answer or in byPath.
Notes(p) ==
  [path : {p}, oldPath : Paths \cup {NoPath}, status : Statuses, additions : Nat, deletions : Nat,
   sources : SUBSET (Range(Sources) \cup {"untracked"})]

\* What the comparisons and git ls-files say of the trees as they are: of each
\* path, its status and its new lines in each, and the lines of untracked files.
Said  == [p \in Paths |-> [k \in 1 .. 4 |-> StatusIn(p, Sources[k])]]
Lines == [p \in Paths |-> [k \in 1 .. 4 |-> NewLines(p, Sources[k])]]
Loose == [p \in Untracked |-> Cardinality(work[p])]

\* Before the n-th command a path is noted if a comparison before it said
\* anything, with the first status said, and the most lines counted so far.
IsTold(p, n, said, loose) ==
  (\E k \in 1 .. 4 : k < n /\ said[p][k] # NoStatus) \/ (n > 9 /\ p \in DOMAIN loose)

IsFirst(p, status, said, loose) ==
  \/ \E k \in 1 .. 4 : /\ said[p][k] # NoStatus /\ status = said[p][k]
                       /\ \A j \in 1 .. k - 1 : said[p][j] = NoStatus
  \/ p \in DOMAIN loose /\ status = "untracked" /\ \A k \in 1 .. 4 : said[p][k] = NoStatus

IsMost(p, n, adds, lines, loose) ==
  /\ adds = 0 \/ (\E k \in 1 .. 4 : adds = lines[p][k]) \/ (p \in DOMAIN loose /\ adds = loose[p])
  /\ \A k \in 1 .. 4 : k + 4 < n => adds >= lines[p][k]
  /\ n > 9 /\ p \in DOMAIN loose => adds >= loose[p]

IsNoted(f, p, n, said, lines, loose) ==
  /\ p \in DOMAIN f <=> IsTold(p, n, said, loose)
  /\ p \in DOMAIN f => /\ f[p] \in Notes(p)
                       /\ IsFirst(p, f[p].status, said, loose)
                       /\ IsMost(p, n, f[p].additions, lines, loose)

IsAnswer(f, n, said, lines, loose) ==
  /\ \A p \in DOMAIN f : p \in Paths /\ ~IsCtxpackArtifact(p)
  /\ \A p \in Paths : ~IsCtxpackArtifact(p) => IsNoted(f, p, n, said, lines, loose)

\* As long as nobody touches the repository, the answer is what was to be said.
Gathered ==
  /\ step = 1 => DOMAIN byPath = {}
  /\ quiet /\ failed = {} /\ NoBraces => IsAnswer(byPath, step, Said, Lines, Loose)

IInv == Shapes /\ TrackedFound /\ UntrackedFound /\ Gathered
-----------------------------------------------------------------------------
(* Facts about the operators.                                               *)

\* Of a change that is merged, the path is found, or it is an artifact's.
LEMMA MergeFacts ==
  ASSUME NEW changes
  PROVE  DOMAIN MergeAll(changes) =
           DOMAIN byPath \cup {c.path : c \in {x \in changes : ~IsCtxpackArtifact(x.path)}}
BY DEF MergeAll

\* What was found stays found, and what the command answers is added.
LEMMA SucceedFacts ==
  ASSUME NEW changes, Succeed(changes)
  PROVE  /\ \A p : Found(p) => Found(p)'
         /\ \A c \in changes : ~IsCtxpackArtifact(c.path) => c.path \in DOMAIN byPath'
         /\ \A c \in changes : c.oldPath # NoPath => <<c.oldPath, c.path>> \in renames'
<1>1. byPath' = MergeAll(changes)
      /\ renames' = renames \cup {<<c.oldPath, c.path>> : c \in {x \in changes : x.oldPath # NoPath}}
  BY DEF Succeed
<1>2. DOMAIN byPath \subseteq DOMAIN byPath' /\ renames \subseteq renames'
  BY <1>1, MergeFacts
<1> QED BY <1>1, <1>2, MergeFacts DEF Found

LEMMA ChangeFacts ==
  \A p, old, status, adds, dels, source :
    LET c == Change(p, old, status, adds, dels, source)
    IN  c.path = p /\ c.oldPath = old /\ c.status = status /\ c.additions = adds
BY DEF Change

\* The comparison with the base names every tracked file that differs.
LEMMA BaseCompared ==
  ASSUME NEW p \in Paths, Tracked[p] # base[p]
  PROVE  \E c \in ParseNameStatus("base") :
           c.path = p \/ (c.oldPath = p /\ c.oldPath # NoPath)
<1> DEFINE R == Renames(base, Tracked)
<1>1. OldTree("base") = base /\ NewTree("base") = Tracked
  BY DEF OldTree, NewTree
<1>2. p \in Deleted(base, Tracked) \/ p \in Added(base, Tracked) \/ p \in Modified(base, Tracked)
  BY DEF Deleted, Added, Modified
<1>3. p # NoPath
  BY PathsAssumption
<1>4. ParseNameStatus("base") =
        {Change(r[2], r[1], "renamed", 0, 0, "base") : r \in R}
        \cup {Change(q, NoPath, "added", 0, 0, "base") : q \in Added(base, Tracked) \ {r[2] : r \in R}}
        \cup {Change(q, NoPath, "deleted", 0, 0, "base") : q \in Deleted(base, Tracked) \ {r[1] : r \in R}}
        \cup {Change(q, NoPath, "modified", 0, 0, "base") : q \in Modified(base, Tracked)}
  BY <1>1 DEF ParseNameStatus
<1> HIDE DEF R
<1>5. CASE p \in Modified(base, Tracked)
  <2>1. Change(p, NoPath, "modified", 0, 0, "base") \in ParseNameStatus("base")
    BY <1>4, <1>5
  <2> QED BY <2>1, ChangeFacts
<1>6. CASE p \in Added(base, Tracked)
  <2>1. CASE p \in {r[2] : r \in R}
    <3>1. PICK r \in R : r[2] = p
      BY <2>1
    <3>2. Change(p, r[1], "renamed", 0, 0, "base") \in ParseNameStatus("base")
      BY <1>4, <3>1
    <3> QED BY <3>2, ChangeFacts
  <2>2. CASE p \notin {r[2] : r \in R}
    <3>1. Change(p, NoPath, "added", 0, 0, "base") \in ParseNameStatus("base")
      BY <1>4, <1>6, <2>2
    <3> QED BY <3>1, ChangeFacts
  <2> QED BY <2>1, <2>2
<1>7. CASE p \in Deleted(base, Tracked)
  <2>1. CASE p \in {r[1] : r \in R}
    <3>1. PICK r \in R : r[1] = p
      BY <2>1
    <3>2. Change(r[2], p, "renamed", 0, 0, "base") \in ParseNameStatus("base")
      BY <1>4, <3>1
    <3> QED BY <1>3, <3>2, ChangeFacts
  <2>2. CASE p \notin {r[1] : r \in R}
    <3>1. Change(p, NoPath, "deleted", 0, 0, "base") \in ParseNameStatus("base")
      BY <1>4, <1>7, <2>2
    <3> QED BY <3>1, ChangeFacts
  <2> QED BY <2>1, <2>2
<1> QED BY <1>2, <1>5, <1>6, <1>7

\* ls-files names every file that is not tracked.
LEMMA UntrackedListed ==
  ASSUME NEW p \in Untracked
  PROVE  \E c \in UntrackedChanges : c.path = p
<1> DEFINE c == Change(p, NoPath, "untracked", Cardinality(work[p]), 0, "untracked")
<1>1. c \in UntrackedChanges
  BY DEF UntrackedChanges
<1> QED BY <1>1, ChangeFacts

-----------------------------------------------------------------------------
(* Rename detection.                                                        *)

LEMMA LeastNat ==
  ASSUME NEW T \in SUBSET Nat, T # {}
  PROVE  \E x \in T : \A y \in T : x <= y
<1> DEFINE R == {ss \in Nat \X Nat : ss[1] < ss[2]}
<1>1. IsWellFoundedOn(R, Nat)
  BY NatLessThanWellFounded DEF OpToRel
<1>2. PICK x \in T : \A y \in T : ~(<<y, x>> \in R)
  BY <1>1, WFMin
<1>3. ASSUME NEW y \in T PROVE x <= y
  <2>1. x \in Nat /\ y \in Nat /\ <<y, x>> \in Nat \X Nat
    OBVIOUS
  <2>2. ~(y < x)
    BY <1>2, <2>1
  <2> QED BY <2>1, <2>2
<1> QED BY <1>3

\* There are pairings, and one of the largest is chosen.
LEMMA RenamesFacts ==
  ASSUME NEW old, NEW new
  PROVE  /\ Renames(old, new) \subseteq Deleted(old, new) \X Added(old, new)
         /\ \A x, y \in Renames(old, new) : x # y => x[1] # y[1] /\ x[2] # y[2]
<1> DEFINE pairs == {pq \in Deleted(old, new) \X Added(old, new) : Similar(old[pq[1]], new[pq[2]])}
           OneToOne(R) == \A x, y \in R : x # y => x[1] # y[1] /\ x[2] # y[2]
           pairings == {S \in SUBSET pairs : OneToOne(S)}
           n == Cardinality(pairs)
           gaps == {n - Cardinality(S) : S \in pairings}
<1>1. IsFiniteSet(pairs)
  <2>1. IsFiniteSet(Paths \X Paths)
    BY PathsAssumption, FS_Product
  <2>2. pairs \in SUBSET (Paths \X Paths)
    BY DEF Deleted, Added
  <2> HIDE DEF pairs
  <2> QED BY <2>1, <2>2, FS_Subset
<1>2. Renames(old, new) =
        CHOOSE R \in SUBSET pairs :
          OneToOne(R) /\ \A S \in SUBSET pairs : OneToOne(S) => Cardinality(S) <= Cardinality(R)
  BY DEF Renames
<1>3. pairs \subseteq Deleted(old, new) \X Added(old, new)
  OBVIOUS
<1> HIDE DEF pairs
<1>4. n \in Nat /\ \A S \in pairings : Cardinality(S) \in Nat /\ Cardinality(S) <= n
  BY <1>1, FS_Subset, FS_CardinalityType
<1>5. {} \in pairings
  OBVIOUS
<1> HIDE DEF n, pairings
<1>6. gaps \in SUBSET Nat /\ gaps # {}
  BY <1>4, <1>5
<1>7. PICK R \in pairings : \A S \in pairings : n - Cardinality(R) <= n - Cardinality(S)
  <2>1. \A S \in pairings : n - Cardinality(S) \in gaps
    OBVIOUS
  <2> HIDE DEF gaps
  <2>2. PICK x \in gaps : \A y \in gaps : x <= y
    BY <1>6, LeastNat
  <2>3. PICK R \in pairings : x = n - Cardinality(R)
    BY <2>2 DEF gaps
  <2> QED BY <2>1, <2>2, <2>3
<1>8. \A S \in pairings : Cardinality(S) <= Cardinality(R)
  BY <1>4, <1>7
<1>9. Renames(old, new) \in pairings
  BY <1>2, <1>8 DEF pairings
<1> QED BY <1>3, <1>9 DEF pairings

-----------------------------------------------------------------------------
(* What a command says of one path.                                         *)

Old(r) == r[1]
New(r) == r[2]
Origins(R) == {Old(r) : r \in R}
Targets(R) == {New(r) : r \in R}

TreesTyped == {fork, base, head, staged, work} \subseteq Trees

\* The status of a path in a comparison is that of the only list it is in.
LEMMA StatusFacts ==
  ASSUME TreesTyped, NEW source \in Range(Sources), NEW p \in Paths,
         NEW old, old = OldTree(source), NEW new, new = NewTree(source),
         NEW R, R = Renames(old, new)
  PROVE  /\ old \in Trees /\ new \in Trees
         /\ p \in Targets(R)                    => StatusIn(p, source) = "renamed"
         /\ p \in Added(old, new) \ Targets(R)   => StatusIn(p, source) = "added"
         /\ p \in Deleted(old, new) \ Origins(R) => StatusIn(p, source) = "deleted"
         /\ p \in Modified(old, new)            => StatusIn(p, source) = "modified"
         /\ StatusIn(p, source) = NoStatus
              \/ p \in Targets(R) \/ p \in Added(old, new) \ Targets(R)
              \/ p \in Deleted(old, new) \ Origins(R) \/ p \in Modified(old, new)
         /\ Targets(R) \subseteq Added(old, new) /\ Origins(R) \subseteq Deleted(old, new)
         /\ \A r, s \in R : New(r) = New(s) => r = s
<1>1. source \in {"base...HEAD", "base", "staged", "unstaged"}
  BY DEF Range, Sources
<1>2. Tracked \in Trees
  BY DEF TreesTyped, Trees, Tracked
<1>3. old \in Trees /\ new \in Trees
  BY <1>1, <1>2 DEF TreesTyped, OldTree, NewTree
<1>4. /\ R \subseteq Deleted(old, new) \X Added(old, new)
      /\ \A x, y \in R : x # y => x[1] # y[1] /\ x[2] # y[2]
  BY RenamesFacts
<1>5. /\ Targets(R) \subseteq Added(old, new) /\ Origins(R) \subseteq Deleted(old, new)
      /\ \A r, s \in R : New(r) = New(s) => r = s
  BY <1>4 DEF Targets, Origins, Old, New
<1>6. StatusIn(p, source) =
        CASE p \in Targets(R) -> "renamed"
          [] p \in Origins(R) -> NoStatus
          [] OTHER -> IF old[p] = new[p] THEN NoStatus
                      ELSE IF old[p] = NoFile THEN "added"
                      ELSE IF new[p] = NoFile THEN "deleted" ELSE "modified"
  <2>1. /\ (\E r \in Renames(old, new) : r[2] = p) <=> p \in Targets(R)
        /\ (\E r \in Renames(old, new) : r[1] = p) <=> p \in Origins(R)
    BY DEF Targets, Origins, Old, New
  <2> QED BY <2>1 DEF StatusIn
<1> QED BY <1>3, <1>5, <1>6 DEF Added, Deleted, Modified

LEMMA NoteFacts ==
  ASSUME NEW p, NEW o \in Paths \cup {NoPath}, NEW status \in Statuses,
         NEW adds \in Nat, NEW dels \in Nat, NEW source \in Range(Sources) \cup {"untracked"}
  PROVE  Change(p, o, status, adds, dels, source) \in Notes(p)
<1>1. {source} \in SUBSET (Range(Sources) \cup {"untracked"})
  OBVIOUS
<1> QED BY <1>1 DEF Change, Notes

IsSilent(changes, p) == \A d \in changes : d.path # p

Tells(changes, p, status, lines) ==
  \E c \in Notes(p) :
    {d \in changes : d.path = p} = {c} /\ c.status = status /\ c.additions = lines

\* git diff --name-status gives a path its status in the comparison, once.
LEMMA NameStatusSays ==
  ASSUME TreesTyped, NEW source \in Range(Sources), NEW p \in Paths
  PROVE  IF StatusIn(p, source) = NoStatus
         THEN IsSilent(ParseNameStatus(source), p)
         ELSE Tells(ParseNameStatus(source), p, StatusIn(p, source), 0)
<1> DEFINE old == OldTree(source)
           new == NewTree(source)
           R == Renames(old, new)
           changes == ParseNameStatus(source)
           Named(status, o) == Change(p, o, status, 0, 0, source)
<1>1. \A d : d \in changes /\ d.path = p <=>
        \/ \E r \in R : New(r) = p /\ d = Named("renamed", Old(r))
        \/ p \in Added(old, new) \ Targets(R) /\ d = Named("added", NoPath)
        \/ p \in Deleted(old, new) \ Origins(R) /\ d = Named("deleted", NoPath)
        \/ p \in Modified(old, new) /\ d = Named("modified", NoPath)
  <2>1. \A d : d \in changes <=>
          \/ \E r \in R : d = Change(New(r), Old(r), "renamed", 0, 0, source)
          \/ \E q \in Added(old, new) \ Targets(R) : d = Change(q, NoPath, "added", 0, 0, source)
          \/ \E q \in Deleted(old, new) \ Origins(R) : d = Change(q, NoPath, "deleted", 0, 0, source)
          \/ \E q \in Modified(old, new) : d = Change(q, NoPath, "modified", 0, 0, source)
    <3> HIDE DEF old, new, R
    <3>1. changes =
            {Change(r[2], r[1], "renamed", 0, 0, source) : r \in R}
            \cup {Change(q, NoPath, "added", 0, 0, source) : q \in Added(old, new) \ {r[2] : r \in R}}
            \cup {Change(q, NoPath, "deleted", 0, 0, source) : q \in Deleted(old, new) \ {r[1] : r \in R}}
            \cup {Change(q, NoPath, "modified", 0, 0, source) : q \in Modified(old, new)}
      BY DEF ParseNameStatus, old, new, R
    <3> HIDE DEF changes
    <3> QED BY <3>1 DEF Targets, Origins, Old, New
  <2> HIDE DEF old, new, R, changes
  <2> QED BY <2>1, ChangeFacts
<1> DEFINE status == StatusIn(p, source)
<1>2. /\ p \in Targets(R)                    => status = "renamed"
      /\ p \in Added(old, new) \ Targets(R)   => status = "added"
      /\ p \in Deleted(old, new) \ Origins(R) => status = "deleted"
      /\ p \in Modified(old, new)            => status = "modified"
      /\ status = NoStatus
           \/ p \in Targets(R) \/ p \in Added(old, new) \ Targets(R)
           \/ p \in Deleted(old, new) \ Origins(R) \/ p \in Modified(old, new)
      /\ Origins(R) \subseteq Paths
      /\ \A r, s \in R : New(r) = New(s) => r = s
  BY StatusFacts DEF Deleted
<1>3. "renamed" # NoStatus /\ "added" # NoStatus /\ "deleted" # NoStatus /\ "modified" # NoStatus
  BY DEF NoStatus
<1> HIDE DEF old, new, R, changes, status, Named
<1>4. CASE status = NoStatus
  <2>1. \A d \in changes : d.path # p
    BY <1>1, <1>2, <1>3, <1>4 DEF Targets
  <2> QED BY <1>4, <2>1 DEF IsSilent, status, changes
<1>5. CASE status # NoStatus
  <2>1. \E o \in Paths \cup {NoPath} : {d \in changes : d.path = p} = {Named(status, o)}
    <3>1. CASE p \in Targets(R)
      <4>1. PICK r \in R : New(r) = p
        BY <3>1 DEF Targets
      <4>2. Old(r) \in Paths
        BY <1>2 DEF Origins
      <4>3. \A d : d \in changes /\ d.path = p <=> d = Named(status, Old(r))
        BY <1>1, <1>2, <1>3, <3>1, <4>1
      <4> QED BY <4>2, <4>3
    <3>2. CASE p \notin Targets(R)
      <4>1. \A d : d \in changes /\ d.path = p <=> d = Named(status, NoPath)
        BY <1>1, <1>2, <1>3, <1>5, <3>2 DEF Targets
      <4> QED BY <4>1
    <3> QED BY <3>1, <3>2
  <2>2. PICK o \in Paths \cup {NoPath} : {d \in changes : d.path = p} = {Named(status, o)}
    BY <2>1
  <2>3. /\ Named(status, o) \in Notes(p)
        /\ Named(status, o).status = status /\ Named(status, o).additions = 0
    <3>1. status \in Statuses
      BY <1>2, <1>5 DEF Statuses
    <3>2. Named(status, o) \in Notes(p)
      BY <3>1, NoteFacts DEF Named
    <3>3. Named(status, o).status = status
      BY ChangeFacts DEF Named
    <3>4. Named(status, o).additions = 0
      BY ChangeFacts DEF Named
    <3> QED BY <3>2, <3>3, <3>4
  <2> QED BY <1>5, <2>2, <2>3 DEF Tells, status, changes
<1> QED BY <1>4, <1>5 DEF status

LEMMA LineFacts ==
  ASSUME NEW s \in Texts \cup {NoFile}, NEW t \in Texts \cup {NoFile}
  PROVE  Cardinality(LinesOf(t) \ LinesOf(s)) \in Nat /\ Cardinality(LinesOf(t)) \in Nat
<1>1. IsFiniteSet(LinesOf(t))
  BY TextsAssumption, FS_EmptySet DEF LinesOf
<1>2. IsFiniteSet(LinesOf(t) \ LinesOf(s))
  BY <1>1, FS_Difference
<1> QED BY <1>1, <1>2, FS_CardinalityType

NoBracesIn(source) ==
  \A r \in Renames(OldTree(source), NewTree(source)) : ~Braced(r[1], r[2])

\* git diff --numstat counts the lines of the paths that the same comparison
\* gives a status, once, as long as it writes no braces.
LEMMA NumstatSays ==
  ASSUME TreesTyped, NEW source \in Range(Sources), NEW p \in Paths, NoBracesIn(source)
  PROVE  IF StatusIn(p, source) = NoStatus
         THEN IsSilent(ParseNumstat(source), p)
         ELSE NewLines(p, source) \in Nat /\ Tells(ParseNumstat(source), p, NoStatus, NewLines(p, source))
<1> DEFINE old == OldTree(source)
           new == NewTree(source)
           R == Renames(old, new)
           changes == ParseNumstat(source)
           single == (Added(old, new) \ Targets(R)) \cup (Deleted(old, new) \ Origins(R))
                     \cup Modified(old, new)
           Counted(q, o) == Stat(q, old[o], new[q], source)
           from == IF p \in Targets(R) THEN (CHOOSE r \in R : New(r) = p)[1] ELSE p
           status == StatusIn(p, source)
<1>1. \A d : d \in changes /\ d.path = p <=>
        \/ \E r \in R : New(r) = p /\ d = Counted(p, Old(r))
        \/ p \in single /\ d = Counted(p, p)
  <2>1. \A r \in R : NormalizeNumstatPath(r[1], r[2]) = r[2]
    BY DEF NoBracesIn, NormalizeNumstatPath
  <2>2. \A d : d \in changes <=>
          \/ \E r \in R : d = Counted(New(r), Old(r))
          \/ \E q \in single : d = Counted(q, q)
    <3>1. changes =
            {Stat(NormalizeNumstatPath(r[1], r[2]), old[r[1]], new[r[2]], source) : r \in R}
            \cup {Stat(q, old[q], new[q], source) : q \in single}
      BY DEF ParseNumstat, Targets, Origins, New, Old
    <3> HIDE DEF changes, single, old, new, R
    <3> QED BY <2>1, <3>1 DEF New, Old
  <2>3. \A q, o : Counted(q, o).path = q
    BY ChangeFacts DEF Stat
  <2> HIDE DEF old, new, R, changes, single, Counted
  <2> QED BY <2>2, <2>3
<1>2. /\ status # NoStatus <=> p \in Targets(R) \/ p \in single
      /\ Targets(R) \cap single = {}
      /\ old \in Trees /\ new \in Trees
      /\ Origins(R) \subseteq Paths
      /\ \A r, s \in R : New(r) = New(s) => r = s
  <2>1. "renamed" # NoStatus /\ "added" # NoStatus /\ "deleted" # NoStatus /\ "modified" # NoStatus
    BY DEF NoStatus
  <2> HIDE DEF R
  <2> QED BY <2>1, StatusFacts DEF Added, Deleted, Modified, R
<1>3. status # NoStatus =>
        NewLines(p, source) = Cardinality(LinesOf(new[p]) \ LinesOf(old[from]))
  <2>1. (\E r \in Renames(old, new) : r[2] = p) <=> p \in Targets(R)
    BY DEF Targets, New
  <2> QED BY <2>1 DEF NewLines, New
<1>4. from \in Paths /\ \A r \in R : New(r) = p => Old(r) = from
  <2> HIDE DEF R
  <2>1. CASE p \in Targets(R)
    <3>1. PICK r \in R : New(r) = p
      BY <2>1 DEF Targets
    <3>2. (CHOOSE s \in R : New(s) = p) = r
      BY <1>2, <3>1
    <3>3. from = Old(r) /\ Old(r) \in Origins(R)
      BY <2>1, <3>2 DEF Old, Origins
    <3> QED BY <1>2, <3>1, <3>3
  <2>2. CASE p \notin Targets(R)
    BY <2>2 DEF Targets
  <2> QED BY <2>1, <2>2
<1>5. p \notin Targets(R) => from = p
  OBVIOUS
<1> HIDE DEF old, new, R, changes, single, from, status, Counted
<1>6. CASE status = NoStatus
  <2>1. \A d \in changes : d.path # p
    BY <1>1, <1>2, <1>6 DEF Targets
  <2> QED BY <1>6, <2>1 DEF IsSilent, status, changes
<1>7. CASE status # NoStatus
  <2>1. {d \in changes : d.path = p} = {Counted(p, from)}
    <3>1. \A d : d \in changes /\ d.path = p <=> d = Counted(p, from)
      BY <1>1, <1>2, <1>4, <1>5, <1>7 DEF Targets
    <3> QED BY <3>1
  <2>2. old[from] \in Texts \cup {NoFile} /\ new[p] \in Texts \cup {NoFile}
    BY <1>2, <1>4 DEF Trees
  <2>3. /\ Cardinality(LinesOf(new[p]) \ LinesOf(old[from])) \in Nat
        /\ Cardinality(LinesOf(old[from]) \ LinesOf(new[p])) \in Nat
    BY <2>2, LineFacts
  <2>4. /\ Counted(p, from) \in Notes(p) /\ Counted(p, from).status = NoStatus
        /\ Counted(p, from).additions = NewLines(p, source)
    <3>1. NoStatus \in Statuses
      BY DEF Statuses
    <3>2. Counted(p, from) =
            Change(p, NoPath, NoStatus, Cardinality(LinesOf(new[p]) \ LinesOf(old[from])),
                   Cardinality(LinesOf(old[from]) \ LinesOf(new[p])), source)
      BY DEF Counted, Stat
    <3>3. Counted(p, from) \in Notes(p)
      BY <2>3, <3>1, <3>2, NoteFacts
    <3>4. Counted(p, from).status = NoStatus
      BY <3>2, ChangeFacts
    <3>5. Counted(p, from).additions = NewLines(p, source)
      BY <1>3, <1>7, <3>2, ChangeFacts
    <3> QED BY <3>3, <3>4, <3>5
  <2> QED BY <1>3, <1>7, <2>1, <2>3, <2>4 DEF Tells, status, changes
<1> QED BY <1>6, <1>7 DEF status

LEMMA UntrackedSays ==
  ASSUME TreesTyped, NEW p \in Paths
  PROVE  IF p \in Untracked
         THEN Cardinality(work[p]) \in Nat /\ Tells(UntrackedChanges, p, "untracked", Cardinality(work[p]))
         ELSE IsSilent(UntrackedChanges, p)
<1> DEFINE Listed(q) == Change(q, NoPath, "untracked", Cardinality(work[q]), 0, "untracked")
<1>1. \A d : d \in UntrackedChanges /\ d.path = p <=> p \in Untracked /\ d = Listed(p)
  <2>1. \A d : d \in UntrackedChanges <=> \E q \in Untracked : d = Listed(q)
    BY DEF UntrackedChanges
  <2>2. \A q : Listed(q).path = q
    BY ChangeFacts
  <2> HIDE DEF Listed
  <2> QED BY <2>1, <2>2
<1>2. CASE p \in Untracked
  <2>1. work[p] \in Texts \cup {NoFile} /\ LinesOf(work[p]) = work[p]
    BY <1>2 DEF TreesTyped, Trees, Untracked, LinesOf
  <2>2. Cardinality(work[p]) \in Nat
    BY <2>1, LineFacts
  <2>3. "untracked" \in Statuses
    BY DEF Statuses
  <2>4. /\ Listed(p) \in Notes(p) /\ Listed(p).status = "untracked"
        /\ Listed(p).additions = Cardinality(work[p])
    <3>1. Change(p, NoPath, "untracked", Cardinality(work[p]), 0, "untracked") \in Notes(p)
      BY <2>2, <2>3, NoteFacts
    <3>2. Listed(p) \in Notes(p)
      BY <3>1
    <3>3. Listed(p).status = "untracked"
      BY ChangeFacts
    <3>4. Listed(p).additions = Cardinality(work[p])
      BY ChangeFacts
    <3> QED BY <3>2, <3>3, <3>4
  <2> HIDE DEF Listed
  <2>5. {d \in UntrackedChanges : d.path = p} = {Listed(p)}
    BY <1>1, <1>2
  <2> QED BY <1>2, <2>2, <2>4, <2>5 DEF Tells
<1>3. CASE p \notin Untracked
  <2> HIDE DEF Listed
  <2> QED BY <1>1, <1>3 DEF IsSilent
<1> QED BY <1>2, <1>3

-----------------------------------------------------------------------------
(* Merging.                                                                 *)

LEMMA MaxFacts ==
  ASSUME NEW a \in Nat, NEW b \in Nat
  PROVE  Max({a, b}) \in {a, b} /\ Max({a, b}) >= a /\ Max({a, b}) >= b
<1>1. \E x \in {a, b} : \A y \in {a, b} : x >= y
  BY a >= b \/ b >= a
<1> QED BY <1>1 DEF Max

LEMMA MaxIs ==
  ASSUME NEW T \in SUBSET Nat, NEW a \in T, \A n \in T : a >= n
  PROVE  a = Max(T)
<1>1. Max(T) \in T /\ \A n \in T : Max(T) >= n
  BY DEF Max
<1>2. PICK x \in T : x = Max(T) /\ x >= a
  BY <1>1
<1>3. a >= x /\ a \in Nat /\ x \in Nat
  OBVIOUS
<1>4. a = x
  BY <1>2, <1>3
<1> QED BY <1>2, <1>4

LEMMA MinFacts ==
  ASSUME NEW T \in SUBSET Nat, T # {}
  PROVE  Min(T) \in T /\ \A n \in T : Min(T) <= n
BY LeastNat DEF Min

\* A fold over no change or over one.
LEMMA FoldOne ==
  ASSUME NEW file, NEW c
  PROVE  Merged(file, {}) = file /\ Merged(file, {c}) = MergeChangedFile(c, file)
<1> DEFINE one(s) == CHOOSE x \in s : TRUE
           next(f, s) == IF s = {} THEN file ELSE MergeChangedFile(one(s), f[s \ {one(s)}])
           IsFold(S, f) == f = [s \in SUBSET S |-> next(f, s)]
           fold(S) == CHOOSE f : IsFold(S, f)
<1>1. \A S : Merged(file, S) = fold(S)[S]
  BY DEF Merged, FoldSet, MapThenFoldSet
<1>2. IsFold({}, [s \in SUBSET {} |-> file])
  OBVIOUS
<1>3. IsFold({c}, [s \in SUBSET {c} |-> IF s = {} THEN file ELSE MergeChangedFile(c, file)])
  <2> DEFINE g == [s \in SUBSET {c} |-> IF s = {} THEN file ELSE MergeChangedFile(c, file)]
  <2>1. \A s \in SUBSET {c} : g[s] = next(g, s)
    <3> SUFFICES ASSUME NEW s \in SUBSET {c}, s # {} PROVE g[s] = next(g, s)
      OBVIOUS
    <3>1. s = {c} /\ one(s) = c /\ s \ {one(s)} = {} /\ {} \in SUBSET {c}
      OBVIOUS
    <3>2. g[{}] = file /\ g[s] = MergeChangedFile(c, file)
      OBVIOUS
    <3> HIDE DEF g, one
    <3> QED BY <3>1, <3>2
  <2> QED BY <2>1
<1>4. IsFold({}, fold({})) /\ IsFold({c}, fold({c}))
  <2> HIDE DEF next
  <2> QED BY <1>2, <1>3
<1> HIDE DEF fold
<1>5. fold({})[{}] = file
  BY <1>4
<1>6. fold({c})[{}] = file /\ fold({c})[{c}] = next(fold({c}), {c})
  BY <1>4
<1>7. one({c}) = c /\ {c} \ {one({c})} = {} /\ {c} # {}
  OBVIOUS
<1> HIDE DEF one
<1> QED BY <1>1, <1>5, <1>6, <1>7

\* What byPath has of a path before it is told of it.
NotedBefore(p) == IF p \in DOMAIN byPath THEN byPath[p] ELSE Unchanged(p)

LEMMA MergeSilent ==
  ASSUME NEW changes, NEW p, IsSilent(changes, p)
  PROVE  /\ p \in DOMAIN MergeAll(changes) <=> p \in DOMAIN byPath
         /\ p \in DOMAIN byPath => MergeAll(changes)[p] = byPath[p]
<1> DEFINE found == {c \in changes : ~IsCtxpackArtifact(c.path)}
<1>1. {c \in found : c.path = p} = {} /\ p \notin {c.path : c \in found}
  BY DEF IsSilent
<1>2. /\ DOMAIN MergeAll(changes) = DOMAIN byPath \cup {c.path : c \in found}
      /\ p \in DOMAIN byPath => MergeAll(changes)[p] = Merged(byPath[p], {c \in found : c.path = p})
  BY DEF MergeAll
<1> HIDE DEF found
<1> QED BY <1>1, <1>2, FoldOne

LEMMA MergeArtifact ==
  ASSUME NEW changes, NEW p, IsCtxpackArtifact(p)
  PROVE  p \in DOMAIN MergeAll(changes) <=> p \in DOMAIN byPath
<1> DEFINE found == {x \in changes : ~IsCtxpackArtifact(x.path)}
<1>1. p \notin {c.path : c \in found}
  OBVIOUS
<1>2. DOMAIN MergeAll(changes) = DOMAIN byPath \cup {c.path : c \in found}
  BY MergeFacts
<1> HIDE DEF found
<1> QED BY <1>1, <1>2

LEMMA MergeTells ==
  ASSUME NEW changes, NEW p \in Paths, ~IsCtxpackArtifact(p), NotedBefore(p) \in Notes(p),
         NEW status, NEW lines, Tells(changes, p, status, lines),
         NEW file, file = MergeAll(changes)[p]
  PROVE  /\ p \in DOMAIN MergeAll(changes)
         /\ file \in Notes(p)
         /\ file.status = IF NotedBefore(p).status = NoStatus THEN status ELSE NotedBefore(p).status
         /\ file.additions \in {NotedBefore(p).additions, lines}
         /\ file.additions >= NotedBefore(p).additions /\ file.additions >= lines
<1> DEFINE found == {d \in changes : ~IsCtxpackArtifact(d.path)}
<1>1. PICK c \in Notes(p) :
        {d \in changes : d.path = p} = {c} /\ c.status = status /\ c.additions = lines
  BY DEF Tells
<1>2. c \in changes /\ c.path = p
  BY <1>1
<1>3. {d \in found : d.path = p} = {c} /\ p \in {d.path : d \in found}
  BY <1>1, <1>2
<1>4. p \in DOMAIN MergeAll(changes) /\ file = Merged(NotedBefore(p), {d \in found : d.path = p})
  <2> HIDE DEF found
  <2>1. /\ MergeAll(changes) = [q \in DOMAIN byPath \cup {d.path : d \in found} |->
             Merged(NotedBefore(q), {d \in found : d.path = q})]
    BY DEF MergeAll, found, NotedBefore
  <2> QED BY <1>3, <2>1
<1>5. file = MergeChangedFile(c, NotedBefore(p))
  BY <1>3, <1>4, FoldOne
<1> DEFINE b == NotedBefore(p)
<1>6. /\ file.status = IF b.status = NoStatus THEN c.status ELSE b.status
      /\ file.oldPath = IF b.oldPath = NoPath THEN c.oldPath ELSE b.oldPath
      /\ file.additions = Max({b.additions, c.additions})
      /\ file.deletions = Max({b.deletions, c.deletions})
      /\ file.sources = b.sources \cup c.sources
      /\ file = [path |-> b.path, oldPath |-> file.oldPath, status |-> file.status,
                 additions |-> file.additions, deletions |-> file.deletions, sources |-> file.sources]
  <2> HIDE DEF b
  <2>1. b \in Notes(p) /\ file = MergeChangedFile(c, b)
    BY <1>5 DEF b
  <2> QED BY <2>1 DEF MergeChangedFile, Notes
<1>7. b \in Notes(p)
  OBVIOUS
<1> HIDE DEF b
<1>8. /\ c.additions \in Nat /\ c.deletions \in Nat /\ b.additions \in Nat /\ b.deletions \in Nat
      /\ c.status \in Statuses /\ b.status \in Statuses
      /\ c.oldPath \in Paths \cup {NoPath} /\ b.oldPath \in Paths \cup {NoPath}
      /\ b.sources \cup c.sources \in SUBSET (Range(Sources) \cup {"untracked"})
      /\ b.path = p
  BY <1>1, <1>7 DEF Notes
<1>9. /\ file.additions \in {b.additions, c.additions} /\ file.additions >= b.additions
      /\ file.additions >= c.additions
      /\ file.deletions \in Nat
  BY <1>6, <1>8, MaxFacts
<1>10. file \in Notes(p)
  BY <1>6, <1>8, <1>9 DEF Notes
<1> QED BY <1>1, <1>4, <1>6, <1>9, <1>10 DEF b

-----------------------------------------------------------------------------
(* The answer of a quiet run.                                               *)

\* What the n-th command says of a path.
Says(changes, p, n, said, lines, loose) ==
  /\ n \in 1 .. 4 => IF said[p][n] = NoStatus THEN IsSilent(changes, p)
                     ELSE Tells(changes, p, said[p][n], 0)
  /\ n \in 5 .. 8 => IF said[p][n - 4] = NoStatus THEN IsSilent(changes, p)
                     ELSE Tells(changes, p, NoStatus, lines[p][n - 4])
  /\ n = 9 => IF p \in DOMAIN loose THEN Tells(changes, p, "untracked", loose[p])
              ELSE IsSilent(changes, p)

\* With each command the notes of a path go on to be the ones due.
LEMMA NotesGrow ==
  ASSUME NEW changes, NEW p \in Paths, ~IsCtxpackArtifact(p), NEW n \in 1 .. 9,
         NEW said, NEW lines, NEW loose,
         \A k \in 1 .. 4 : lines[p][k] \in Nat /\ (said[p][k] = NoStatus => lines[p][k] = 0),
         p \in DOMAIN loose => loose[p] \in Nat,
         IsNoted(byPath, p, n, said, lines, loose),
         Says(changes, p, n, said, lines, loose)
  PROVE  IsNoted(MergeAll(changes), p, n + 1, said, lines, loose)
<1> DEFINE all == MergeAll(changes)
           file == all[p]
           b == NotedBefore(p)
<1>1. b \in Notes(p)
  BY DEF IsNoted, NotedBefore, Unchanged, Notes, Statuses
<1>2. /\ p \in DOMAIN byPath => b = byPath[p]
      /\ p \notin DOMAIN byPath => b.status = NoStatus /\ b.additions = 0
  BY DEF NotedBefore, Unchanged
<1>3. p \in DOMAIN byPath => b.status # NoStatus
  BY <1>2 DEF IsNoted, IsFirst, NoStatus
<1>4. b.additions \in Nat
  BY <1>1 DEF Notes
<1>5. IsSilent(changes, p) =>
        (p \in DOMAIN all <=> p \in DOMAIN byPath) /\ (p \in DOMAIN byPath => file = byPath[p])
  BY MergeSilent
<1>6. \A status, adds : Tells(changes, p, status, adds) =>
        /\ p \in DOMAIN all /\ file \in Notes(p)
        /\ file.status = IF b.status = NoStatus THEN status ELSE b.status
        /\ file.additions \in {b.additions, adds}
        /\ file.additions >= b.additions /\ file.additions >= adds
  BY <1>1, MergeTells
<1> HIDE DEF all, file, b
<1> DEFINE told == IsTold(p, n, said, loose)
           next == IsTold(p, n + 1, said, loose)
           first(status) == IsFirst(p, status, said, loose)
           most(m, adds) == IsMost(p, m, adds, lines, loose)
<1>7. SUFFICES /\ p \in DOMAIN all <=> next
               /\ p \in DOMAIN all => file \in Notes(p) /\ first(file.status) /\ most(n + 1, file.additions)
  BY DEF all, file, IsNoted
<1>8. /\ p \in DOMAIN byPath <=> told
      /\ p \in DOMAIN byPath => byPath[p] \in Notes(p) /\ first(b.status) /\ most(n, b.additions)
  BY <1>2 DEF IsNoted
<1>9. CASE IsSilent(changes, p)
  <2>1. /\ n \in 1 .. 4 => said[p][n] = NoStatus
        /\ n \in 5 .. 8 => said[p][n - 4] = NoStatus
        /\ n = 9 => p \notin DOMAIN loose
    BY <1>9 DEF Says, Tells, IsSilent
  <2>2. next <=> told
    BY <2>1 DEF IsTold
  <2>3. p \in DOMAIN all => file = byPath[p] /\ file.additions = b.additions
    BY <1>2, <1>5, <1>9
  <2>4. most(n, b.additions) => most(n + 1, b.additions)
    <3> SUFFICES ASSUME most(n, b.additions), NEW k \in 1 .. 4, k + 4 < n + 1
                 PROVE  b.additions >= lines[p][k]
      BY <2>1 DEF IsMost
    <3>1. CASE k + 4 < n
      BY <3>1 DEF IsMost
    <3>2. CASE k + 4 = n
      <4>1. n \in 5 .. 8 /\ n - 4 = k
        BY <3>2
      <4> QED BY <1>4, <2>1, <4>1
    <3> QED BY <3>1, <3>2
  <2> HIDE DEF told, next, first, most
  <2> QED BY <1>2, <1>5, <1>8, <1>9, <2>2, <2>3, <2>4
<1>10. CASE n \in 1 .. 4 /\ Tells(changes, p, said[p][n], 0)
  <2>1. said[p][n] # NoStatus
    BY <1>10 DEF Says, Tells, IsSilent
  <2>2. /\ p \in DOMAIN all /\ file \in Notes(p) /\ file.additions = b.additions
        /\ file.status = IF b.status = NoStatus THEN said[p][n] ELSE b.status
    BY <1>4, <1>6, <1>10
  <2>3. next
    BY <1>10, <2>1 DEF IsTold
  <2>4. first(file.status)
    <3>1. CASE p \in DOMAIN byPath
      BY <1>3, <1>8, <2>2, <3>1
    <3>2. CASE p \notin DOMAIN byPath
      <4>1. file.status = said[p][n]
        BY <1>2, <2>2, <3>2
      <4>2. \A j \in 1 .. n - 1 : said[p][j] = NoStatus
        BY <1>8, <1>10, <3>2 DEF IsTold
      <4> QED BY <1>10, <2>1, <4>1, <4>2 DEF IsFirst
    <3> QED BY <3>1, <3>2
  <2>5. most(n + 1, file.additions)
    <3>1. most(n, b.additions)
      BY <1>2, <1>8, <1>10 DEF IsMost
    <3> QED BY <1>10, <2>2, <3>1 DEF IsMost
  <2> QED BY <2>2, <2>3, <2>4, <2>5
<1>11. CASE n \in 5 .. 8 /\ Tells(changes, p, NoStatus, lines[p][n - 4])
  <2>1. said[p][n - 4] # NoStatus /\ n - 4 \in 1 .. 4 /\ n - 4 < n
    BY <1>11 DEF Says, Tells, IsSilent
  <2>2. told /\ next
    BY <2>1 DEF IsTold
  <2>3. p \in DOMAIN byPath /\ first(b.status) /\ most(n, b.additions)
    BY <1>8, <2>2
  <2>4. /\ p \in DOMAIN all /\ file \in Notes(p) /\ file.status = b.status
        /\ file.additions \in {b.additions, lines[p][n - 4]}
        /\ file.additions >= b.additions /\ file.additions >= lines[p][n - 4]
    BY <1>3, <1>6, <1>11, <2>3
  <2>5. most(n + 1, file.additions)
    <3>1. file.additions \in Nat
      BY <2>4 DEF Notes
    <3>2. ASSUME NEW k \in 1 .. 4, k + 4 < n + 1 PROVE file.additions >= lines[p][k]
      <4>1. CASE k + 4 < n
        <5>1. b.additions >= lines[p][k]
          BY <2>3, <4>1 DEF IsMost
        <5> QED BY <1>4, <2>4, <3>1, <5>1
      <4>2. CASE k = n - 4
        BY <2>4, <4>2
      <4> QED BY <3>2, <4>1, <4>2
    <3>3. ~(n + 1 > 9)
      BY <1>11
    <3>4. \/ file.additions = 0 \/ \E k \in 1 .. 4 : file.additions = lines[p][k]
          \/ p \in DOMAIN loose /\ file.additions = loose[p]
      BY <2>1, <2>3, <2>4 DEF IsMost
    <3> QED BY <3>2, <3>3, <3>4 DEF IsMost
  <2> HIDE DEF told, next, first, most
  <2> QED BY <2>2, <2>3, <2>4, <2>5
<1>12. CASE n = 9 /\ p \in DOMAIN loose /\ Tells(changes, p, "untracked", loose[p])
  <2>1. /\ p \in DOMAIN all /\ file \in Notes(p)
        /\ file.status = IF b.status = NoStatus THEN "untracked" ELSE b.status
        /\ file.additions \in {b.additions, loose[p]}
        /\ file.additions >= b.additions /\ file.additions >= loose[p]
    BY <1>6, <1>12
  <2>2. next
    BY <1>12 DEF IsTold
  <2>3. first(file.status)
    <3>1. CASE p \in DOMAIN byPath
      BY <1>3, <1>8, <2>1, <3>1
    <3>2. CASE p \notin DOMAIN byPath
      <4>1. \A j \in 1 .. 4 : said[p][j] = NoStatus
        BY <1>8, <1>12, <3>2 DEF IsTold
      <4> QED BY <1>2, <1>12, <2>1, <3>2, <4>1 DEF IsFirst
    <3> QED BY <3>1, <3>2
  <2>4. most(n + 1, file.additions)
    <3>1. file.additions \in Nat
      BY <2>1 DEF Notes
    <3>2. ASSUME NEW k \in 1 .. 4 PROVE file.additions >= lines[p][k]
      <4>1. CASE p \in DOMAIN byPath
        <5>1. k + 4 < n
          BY <1>12
        <5>2. b.additions >= lines[p][k]
          BY <1>8, <4>1, <5>1 DEF IsMost
        <5> QED BY <1>4, <2>1, <3>1, <5>2
      <4>2. CASE p \notin DOMAIN byPath
        <5>1. said[p][k] = NoStatus
          BY <1>8, <1>12, <4>2 DEF IsTold
        <5> QED BY <3>1, <5>1
      <4> QED BY <4>1, <4>2
    <3>3. \/ file.additions = 0 \/ \E k \in 1 .. 4 : file.additions = lines[p][k]
          \/ p \in DOMAIN loose /\ file.additions = loose[p]
      BY <1>2, <1>8, <1>12, <2>1 DEF IsMost
    <3> QED BY <1>12, <2>1, <3>2, <3>3 DEF IsMost
  <2> HIDE DEF told, next, first, most
  <2> QED BY <2>1, <2>2, <2>3, <2>4
<1> QED BY <1>9, <1>10, <1>11, <1>12 DEF Says

\* Every answer is about paths that there may be.
LEMMA AnswersArePaths ==
  ASSUME TreesTyped, NEW source \in Range(Sources), NoBracesIn(source)
  PROVE  /\ \A c \in ParseNameStatus(source) : c.path \in Paths
         /\ \A c \in ParseNumstat(source) : c.path \in Paths
         /\ \A c \in UntrackedChanges : c.path \in Paths
<1> DEFINE old == OldTree(source)
           new == NewTree(source)
           R == Renames(old, new)
<1>1. \A r \in R : r[2] \in Paths /\ NormalizeNumstatPath(r[1], r[2]) = r[2]
  BY RenamesFacts DEF NoBracesIn, NormalizeNumstatPath, Added
<1>2. Added(old, new) \subseteq Paths /\ Deleted(old, new) \subseteq Paths /\ Modified(old, new) \subseteq Paths
  BY DEF Added, Deleted, Modified
<1> HIDE DEF old, new, R
<1>3. ASSUME NEW c \in ParseNameStatus(source) PROVE c.path \in Paths
  <2>1. \/ \E r \in R : c = Change(r[2], r[1], "renamed", 0, 0, source)
        \/ \E q \in Paths, status \in Statuses : c = Change(q, NoPath, status, 0, 0, source)
    BY <1>2 DEF ParseNameStatus, old, new, R, Statuses
  <2> QED BY <1>1, <2>1, ChangeFacts
<1>4. ASSUME NEW c \in ParseNumstat(source) PROVE c.path \in Paths
  <2>1. \/ \E r \in R : c = Stat(NormalizeNumstatPath(r[1], r[2]), old[r[1]], new[r[2]], source)
        \/ \E q \in Paths : c = Stat(q, old[q], new[q], source)
    BY <1>2 DEF ParseNumstat, old, new, R
  <2>2. \A q, a, b : Stat(q, a, b, source).path = q
    BY ChangeFacts DEF Stat
  <2> QED BY <1>1, <2>1, <2>2
<1>5. ASSUME NEW c \in UntrackedChanges PROVE c.path \in Paths
  <2>1. PICK q \in Untracked : c = Change(q, NoPath, "untracked", Cardinality(work[q]), 0, "untracked")
    BY DEF UntrackedChanges
  <2>2. q \in Paths
    BY DEF Untracked
  <2> QED BY <2>1, <2>2, ChangeFacts
<1> QED BY <1>3, <1>4, <1>5

\* What the n-th command answers.
AnswerOf(n) ==
  CASE n \in 1 .. 4 -> ParseNameStatus(SourceOf(n))
    [] n \in 5 .. 8 -> ParseNumstat(SourceOf(n))
    [] OTHER        -> UntrackedChanges

LEMMA SourceFacts ==
  \A n \in 1 .. 4 : SourceOf(n) = Sources[n] /\ SourceOf(n + 4) = Sources[n] /\ Sources[n] \in Range(Sources)
<1>1. SourceOf(1) = Sources[1] /\ SourceOf(2) = Sources[2] /\ SourceOf(3) = Sources[3] /\ SourceOf(4) = Sources[4]
  BY DEF SourceOf
<1>2. SourceOf(5) = Sources[1] /\ SourceOf(6) = Sources[2] /\ SourceOf(7) = Sources[3] /\ SourceOf(8) = Sources[4]
  BY DEF SourceOf
<1>3. \A n \in 1 .. 4 : Sources[n] \in Range(Sources)
  BY DEF Sources, Range
<1> QED BY <1>1, <1>2, <1>3

LEMMA CommandSays ==
  ASSUME TreesTyped, NoBraces, NEW n \in 1 .. 9, NEW p \in Paths
  PROVE  /\ Says(AnswerOf(n), p, n, Said, Lines, Loose)
         /\ \A k \in 1 .. 4 : Lines[p][k] \in Nat /\ (Said[p][k] = NoStatus => Lines[p][k] = 0)
         /\ p \in DOMAIN Loose => Loose[p] \in Nat
<1>1. \A k \in 1 .. 4 : Sources[k] \in Range(Sources) /\ NoBracesIn(Sources[k])
  BY SourceFacts DEF NoBraces, NoBracesIn, Sources
<1>2. \A k \in 1 .. 4 : Said[p][k] = StatusIn(p, Sources[k]) /\ Lines[p][k] = NewLines(p, Sources[k])
  BY DEF Said, Lines
<1>3. /\ DOMAIN Loose = Untracked
      /\ p \in Untracked => Loose[p] = Cardinality(work[p])
  BY DEF Loose
<1>4. \A k \in 1 .. 4 : Lines[p][k] \in Nat /\ (Said[p][k] = NoStatus => Lines[p][k] = 0)
  <2> SUFFICES ASSUME NEW k \in 1 .. 4
               PROVE  Lines[p][k] \in Nat /\ (Said[p][k] = NoStatus => Lines[p][k] = 0)
    OBVIOUS
  <2>1. StatusIn(p, Sources[k]) = NoStatus => NewLines(p, Sources[k]) = 0
    BY DEF NewLines
  <2>2. StatusIn(p, Sources[k]) # NoStatus => NewLines(p, Sources[k]) \in Nat
    BY <1>1, NumstatSays
  <2> QED BY <1>2, <2>1, <2>2
<1>5. p \in DOMAIN Loose => Loose[p] \in Nat
  BY <1>3, UntrackedSays
<1>6. CASE n \in 1 .. 4
  <2>1. AnswerOf(n) = ParseNameStatus(Sources[n])
    BY <1>6, SourceFacts DEF AnswerOf
  <2>2. IF Said[p][n] = NoStatus THEN IsSilent(AnswerOf(n), p) ELSE Tells(AnswerOf(n), p, Said[p][n], 0)
    BY <1>1, <1>2, <1>6, <2>1, NameStatusSays
  <2>3. n \notin 5 .. 8 /\ n # 9
    BY <1>6
  <2> QED BY <1>4, <1>5, <2>2, <2>3 DEF Says
<1>7. CASE n \in 5 .. 8
  <2>1. n - 4 \in 1 .. 4 /\ n \notin 1 .. 4 /\ n # 9 /\ (n - 4) + 4 = n
    BY <1>7
  <2>2. AnswerOf(n) = ParseNumstat(Sources[n - 4])
    <3>1. SourceOf(n) = Sources[n - 4]
      BY <2>1, SourceFacts
    <3> QED BY <1>7, <2>1, <3>1 DEF AnswerOf
  <2>3. IF Said[p][n - 4] = NoStatus THEN IsSilent(AnswerOf(n), p)
        ELSE Tells(AnswerOf(n), p, NoStatus, Lines[p][n - 4])
    BY <1>1, <1>2, <2>1, <2>2, NumstatSays
  <2> QED BY <1>4, <1>5, <2>1, <2>3 DEF Says
<1>8. CASE n = 9
  <2>1. n \notin 1 .. 4 /\ n \notin 5 .. 8
    BY <1>8
  <2>2. AnswerOf(n) = UntrackedChanges
    BY <2>1 DEF AnswerOf
  <2>3. IF p \in DOMAIN Loose THEN Tells(AnswerOf(n), p, "untracked", Loose[p]) ELSE IsSilent(AnswerOf(n), p)
    BY <1>3, <2>2, UntrackedSays
  <2> QED BY <1>4, <1>5, <2>1, <2>3 DEF Says
<1> QED BY <1>6, <1>7, <1>8

LEMMA AnswerGrows ==
  ASSUME TreesTyped, NoBraces, NEW n \in 1 .. 9, IsAnswer(byPath, n, Said, Lines, Loose)
  PROVE  IsAnswer(MergeAll(AnswerOf(n)), n + 1, Said, Lines, Loose)
<1>1. ASSUME NEW p \in Paths, ~IsCtxpackArtifact(p)
      PROVE  IsNoted(MergeAll(AnswerOf(n)), p, n + 1, Said, Lines, Loose)
  <2>1. IsNoted(byPath, p, n, Said, Lines, Loose)
    BY <1>1 DEF IsAnswer
  <2> QED BY <1>1, <2>1, CommandSays, NotesGrow
<1>2. ASSUME NEW p \in DOMAIN MergeAll(AnswerOf(n))
      PROVE  p \in Paths /\ ~IsCtxpackArtifact(p)
  <2>1. p \in DOMAIN byPath \/ \E c \in AnswerOf(n) : ~IsCtxpackArtifact(c.path) /\ p = c.path
    <3> DEFINE found == {x \in AnswerOf(n) : ~IsCtxpackArtifact(x.path)}
    <3>1. DOMAIN MergeAll(AnswerOf(n)) = DOMAIN byPath \cup {c.path : c \in found}
      BY MergeFacts
    <3>2. \A c \in found : c \in AnswerOf(n) /\ ~IsCtxpackArtifact(c.path)
      OBVIOUS
    <3> HIDE DEF found
    <3> QED BY <1>2, <3>1, <3>2
  <2>2. \A k \in 1 .. 4 : Sources[k] \in Range(Sources) /\ NoBracesIn(Sources[k])
    BY SourceFacts DEF NoBraces, NoBracesIn, Sources
  <2>3. \A c \in AnswerOf(n) : c.path \in Paths
    <3>1. CASE n \in 1 .. 4
      <4>1. AnswerOf(n) = ParseNameStatus(Sources[n])
        BY <3>1, SourceFacts DEF AnswerOf
      <4> QED BY <2>2, <3>1, <4>1, AnswersArePaths
    <3>2. CASE n \in 5 .. 8
      <4>1. n - 4 \in 1 .. 4 /\ n \notin 1 .. 4 /\ (n - 4) + 4 = n
        BY <3>2
      <4>2. SourceOf(n) = Sources[n - 4]
        BY <4>1, SourceFacts
      <4> QED BY <2>2, <3>2, <4>1, <4>2, AnswersArePaths DEF AnswerOf
    <3>3. CASE n = 9
      <4>1. n \notin 1 .. 4 /\ n \notin 5 .. 8 /\ 1 \in 1 .. 4
        BY <3>3
      <4> QED BY <2>2, <4>1, AnswersArePaths DEF AnswerOf
    <3> QED BY <3>1, <3>2, <3>3
  <2> QED BY <2>1, <2>3 DEF IsAnswer
<1> QED BY <1>1, <1>2 DEF IsAnswer

-----------------------------------------------------------------------------
(* The steps.                                                               *)

\* Before the first command nothing is noted and nothing was to be.
LEMMA NothingNoted ==
  ASSUME NEW f, DOMAIN f = {}, NEW said, NEW lines, NEW loose
  PROVE  IsAnswer(f, 1, said, lines, loose)
BY DEF IsAnswer, IsNoted, IsTold

LEMMA InitIInv == Init => IInv
<1> SUFFICES ASSUME Init PROVE IInv
  OBVIOUS
<1>1. Shapes /\ TrackedFound /\ UntrackedFound
  BY TreesAssumption DEF Init, Shapes, TrackedFound, UntrackedFound, Trees
<1>2. step = 1 /\ DOMAIN byPath = {}
  BY DEF Init
<1>3. Gathered
  BY <1>2, NothingNoted DEF Gathered
<1> QED BY <1>1, <1>3 DEF IInv

\* What is to be said depends on the trees alone.
LEMMA SameTrees ==
  ASSUME UNCHANGED repo
  PROVE  Said' = Said /\ Lines' = Lines /\ Loose' = Loose /\ (NoBraces' <=> NoBraces)
<1>1. UNCHANGED <<fork, base, head, staged, work>>
  BY DEF repo
<1>2. Tracked' = Tracked /\ Untracked' = Untracked
  BY <1>1 DEF Tracked, Untracked
<1>3. \A source : OldTree(source)' = OldTree(source) /\ NewTree(source)' = NewTree(source)
  BY <1>1, <1>2 DEF OldTree, NewTree
<1>4. \A p, source : StatusIn(p, source)' = StatusIn(p, source)
  BY <1>3 DEF StatusIn
<1>5. \A p, source : NewLines(p, source)' = NewLines(p, source)
  BY <1>3, <1>4 DEF NewLines
<1>6. Loose' = Loose
  BY <1>1, <1>2 DEF Loose
<1> QED BY <1>3, <1>4, <1>5, <1>6 DEF Said, Lines, NoBraces

\* A command that succeeds.
LEMMA SucceedStep ==
  ASSUME IInv, NEW changes, Succeed(changes), step \in 1 .. 9, changes = AnswerOf(step)
  PROVE  IInv'
<1>0. /\ step = 2 => changes = ParseNameStatus("base")
      /\ step = 9 => changes = UntrackedChanges
  <2>1. SourceOf(2) = "base"
    BY DEF SourceOf, Sources
  <2> QED BY <2>1 DEF AnswerOf
<1>1. UNCHANGED <<fork, base, head, staged, work, touched, failed>> /\ step' = step + 1
  BY DEF Succeed, repo
<1>2. Tracked' = Tracked /\ Untracked' = Untracked
  BY <1>1 DEF Tracked, Untracked
<1>3. Shapes'
  BY <1>1 DEF IInv, Shapes
<1>4. TrackedFound'
  <2> SUFFICES ASSUME NEW p \in Paths \ touched, step' > 2, 2 \notin failed,
                      Tracked[p] # base[p], ~IsCtxpackArtifact(p)
               PROVE  Found(p)'
    BY <1>1, <1>2 DEF TrackedFound
  <2>1. CASE step = 2
    <3>1. PICK c \in changes : c.path = p \/ (c.oldPath = p /\ c.oldPath # NoPath)
      BY <1>0, <2>1, BaseCompared
    <3>2. CASE c.path = p
      BY <3>2, SucceedFacts DEF Found
    <3>3. CASE c.oldPath = p /\ c.oldPath # NoPath
      <4>1. <<p, c.path>> \in renames' /\ (IsCtxpackArtifact(c.path) \/ c.path \in DOMAIN byPath')
        BY <3>3, SucceedFacts
      <4> QED BY <4>1 DEF Found
    <3> QED BY <3>1, <3>2, <3>3
  <2>2. CASE step # 2
    <3>1. step > 2
      BY <1>1, <2>2
    <3> QED BY <3>1, SucceedFacts DEF IInv, TrackedFound
  <2> QED BY <2>1, <2>2
<1>5. UntrackedFound'
  <2> SUFFICES ASSUME NEW p \in Paths \ touched, step' > 9, p \in Untracked, ~IsCtxpackArtifact(p)
               PROVE  Found(p)'
    BY <1>1, <1>2 DEF UntrackedFound
  <2>1. step = 9
    BY <1>1
  <2>2. PICK c \in changes : c.path = p
    BY <1>0, <2>1, UntrackedListed
  <2> QED BY <2>2, SucceedFacts DEF Found
<1>6. Gathered'
  <2>1. byPath' = MergeAll(AnswerOf(step)) /\ step' = step + 1 /\ UNCHANGED <<repo, quiet, failed>>
    BY DEF Succeed
  <2>2. Said' = Said /\ Lines' = Lines /\ Loose' = Loose /\ (NoBraces' <=> NoBraces)
    BY <2>1, SameTrees
  <2>3. TreesTyped
    BY DEF IInv, Shapes, TreesTyped
  <2>4. quiet /\ failed = {} /\ NoBraces =>
          IsAnswer(MergeAll(AnswerOf(step)), step + 1, Said, Lines, Loose)
    BY <2>3, AnswerGrows DEF IInv, Gathered
  <2>5. step' # 1
    BY <2>1
  <2> QED BY <2>1, <2>2, <2>4, <2>5 DEF Gathered
<1> QED BY <1>3, <1>4, <1>5, <1>6 DEF IInv

\* The user's operations: what is not touched is what it was.
LEMMA UserStep == IInv /\ UserActs => IInv'
<1> SUFFICES ASSUME IInv, UserActs PROVE IInv'
  OBVIOUS
<1> DEFINE Quiet ==
             /\ UNCHANGED <<step, failed, renames, byPath>>
             /\ Shapes'
             /\ quiet' = (quiet /\ step = 1)
             /\ step # 1 => /\ touched \subseteq touched'
                            /\ \A p \in Paths \ touched' :
                                 base'[p] = base[p] /\ staged'[p] = staged[p] /\ work'[p] = work[p]
<1>1. Quiet
  <2>1. CASE Commit
    BY <2>1 DEF Commit, Edits, IInv, Shapes, Trees
  <2>2. ASSUME NEW p \in Paths, Add(p) PROVE Quiet
    BY <2>2 DEF Add, Edits, IInv, Shapes, Trees
  <2>3. ASSUME NEW p \in Paths, NEW q \in Paths, Move(p, q) PROVE Quiet
    BY <2>3 DEF Move, Edits, IInv, Shapes, Trees
  <2>4. ASSUME NEW p \in Paths, NEW t \in Texts \cup {NoFile}, Write(p, t) PROVE Quiet
    BY <2>4 DEF Write, Edits, IInv, Shapes, Trees
  <2>5. ASSUME NEW p \in Paths, NEW t \in Texts \cup {NoFile}, Fetch(p, t) PROVE Quiet
    BY <2>5 DEF Fetch, Edits, IInv, Shapes, Trees
  <2> QED BY <2>1, <2>2, <2>3, <2>4, <2>5 DEF UserActs
<1>2. \A p : Found(p)' <=> Found(p)
  BY <1>1 DEF Found
<1>3. step # 1 => \A p \in Paths \ touched' :
        /\ Tracked'[p] = Tracked[p]
        /\ p \in Untracked' <=> p \in Untracked
  BY <1>1 DEF Tracked, Untracked
<1>4. TrackedFound' /\ UntrackedFound'
  BY <1>1, <1>2, <1>3 DEF IInv, TrackedFound, UntrackedFound
<1>5. Gathered'
  <2>1. CASE step = 1
    <3>1. step' = 1 /\ byPath' = byPath /\ DOMAIN byPath = {}
      BY <1>1, <2>1 DEF IInv, Gathered
    <3>2. IsAnswer(byPath, 1, Said', Lines', Loose')
      BY <3>1, NothingNoted
    <3> QED BY <3>1, <3>2 DEF Gathered
  <2>2. CASE step # 1
    BY <1>1, <2>2 DEF Gathered
  <2> QED BY <2>1, <2>2
<1> QED BY <1>1, <1>4, <1>5 DEF IInv

LEMMA StepIInv == IInv /\ [Next]_vars => IInv'
<1> SUFFICES ASSUME IInv, [Next]_vars PROVE IInv'
  OBVIOUS
<1>1. CASE DiffNameStatus
  BY <1>1, SucceedStep DEF DiffNameStatus, AnswerOf
<1>2. CASE DiffNumstat
  <2>1. step \in 5 .. 8 /\ step \notin 1 .. 4 /\ Succeed(ParseNumstat(SourceOf(step)))
    BY <1>2 DEF DiffNumstat
  <2> QED BY <2>1, SucceedStep DEF AnswerOf
<1>3. CASE LsFilesOthers
  <2>1. step = 9 /\ step \notin 1 .. 4 /\ step \notin 5 .. 8 /\ Succeed(UntrackedChanges)
    BY <1>3 DEF LsFilesOthers
  <2> QED BY <2>1, SucceedStep DEF AnswerOf
<1>4. CASE CommandFails \/ Return \/ Returned \/ UNCHANGED vars
  <2>1. /\ UNCHANGED <<fork, base, head, staged, work, touched, renames, byPath>>
        /\ failed \subseteq failed' /\ step' \in 1 .. 11
        /\ step' = step \/ (step' = step + 1 /\ (step \in failed' \/ step = 10))
    BY <1>4 DEF CommandFails, Return, Returned, vars, repo, IInv, Shapes
  <2>2. Tracked' = Tracked /\ Untracked' = Untracked /\ \A p : Found(p)' <=> Found(p)
    BY <2>1 DEF Tracked, Untracked, Found
  <2>3. Shapes'
    BY <2>1 DEF IInv, Shapes
  <2>4. 2 \notin failed' /\ step' > 2 => 2 \notin failed /\ step > 2
    BY <2>1 DEF IInv, Shapes
  <2>5. 9 \notin failed' /\ step' > 9 => 9 \notin failed /\ step > 9
    BY <2>1 DEF IInv, Shapes
  <2>6. TrackedFound' /\ UntrackedFound'
    BY <2>1, <2>2, <2>4, <2>5 DEF IInv, TrackedFound, UntrackedFound
  <2>7. Gathered'
    <3>1. UNCHANGED <<repo, quiet, byPath>>
      BY <1>4 DEF CommandFails, Return, Returned, vars, repo
    <3>2. Said' = Said /\ Lines' = Lines /\ Loose' = Loose /\ (NoBraces' <=> NoBraces)
      BY <3>1, SameTrees
    <3>3. CASE CommandFails
      <4>1. failed' # {} /\ step' # 1
        BY <3>3 DEF CommandFails
      <4> QED BY <4>1 DEF Gathered
    <3>4. CASE Return
      <4>1. step = 10 /\ step' = 11 /\ failed' = failed
        BY <3>4 DEF Return
      <4>2. IsAnswer(byPath, 10, Said, Lines, Loose) => IsAnswer(byPath, 11, Said, Lines, Loose)
        BY DEF IsAnswer, IsNoted, IsTold, IsMost
      <4> QED BY <3>1, <3>2, <4>1, <4>2 DEF IInv, Gathered
    <3>5. CASE Returned \/ UNCHANGED vars
      <4>1. step' = step /\ failed' = failed
        BY <3>5 DEF Returned, vars
      <4> QED BY <3>1, <3>2, <4>1 DEF IInv, Gathered
    <3> QED BY <1>4, <3>3, <3>4, <3>5
  <2> QED BY <2>3, <2>6, <2>7 DEF IInv
<1>5. CASE UserActs
  BY <1>5, UserStep
<1> QED BY <1>1, <1>2, <1>3, <1>4, <1>5 DEF Next

LEMMA Invariance == Spec => []IInv
BY InitIInv, StepIInv, PTL DEF Spec

\* A file that the user leaves alone while the commands run and that differs
\* from the base is reported, whatever they do to the others and whichever of
\* the commands fail but the two that look for it.
THEOREM NoneMissed == Spec => []NoSteadyChangeMissed
<1>1. IInv => NoSteadyChangeMissed
  <2> SUFFICES ASSUME IInv, step = 11, failed \cap {2, 9} = {}, NEW p \in Paths \ touched,
                      work[p] # base[p], ~IsCtxpackArtifact(p)
               PROVE  Reported(p) \/ OldPathForgotten(p)
    BY DEF NoSteadyChangeMissed
  <2>1. Tracked[p] # base[p] \/ p \in Untracked
    BY DEF Tracked, Untracked
  <2>2. Found(p)
    BY <2>1 DEF IInv, TrackedFound, UntrackedFound
  <2> QED BY <2>2 DEF Found, Reported, OldPathForgotten
<1> QED BY Invariance, <1>1, PTL

\* If nobody touches the repository while the commands run, none of them fails
\* and no rename is written with braces, the answer is exactly what the trees
\* say: the paths that differ somewhere or are not tracked, each with the first
\* status that it has in one of the comparisons and its largest count of lines.
THEOREM QuietIsExact == Spec => []QuietAnswerIsExact
<1>1. IInv => QuietAnswerIsExact
  <2> SUFFICES ASSUME IInv, step = 11, quiet, failed = {}, NoBraces
               PROVE  /\ DOMAIN byPath = {p \in Paths : ~IsCtxpackArtifact(p) /\ FirstStatus(p) # NoStatus}
                      /\ \A p \in DOMAIN byPath : /\ byPath[p].status = FirstStatus(p)
                                                  /\ byPath[p].additions = Additions(p)
    BY DEF QuietAnswerIsExact
  <2>1. IsAnswer(byPath, 11, Said, Lines, Loose)
    BY DEF IInv, Gathered
  <2>2. ASSUME NEW p \in Paths, ~IsCtxpackArtifact(p)
        PROVE  /\ p \in DOMAIN byPath <=> FirstStatus(p) # NoStatus
               /\ p \in DOMAIN byPath => /\ byPath[p].status = FirstStatus(p)
                                         /\ byPath[p].additions = Additions(p)
    <3> DEFINE known == {k \in 1 .. 4 : Said[p][k] # NoStatus}
               counts == {Lines[p][k] : k \in 1 .. 4}
                         \cup {IF p \in Untracked THEN Cardinality(work[p]) ELSE 0}
               a == byPath[p].additions
    <3>1. /\ DOMAIN Sources = 1 .. 4 /\ DOMAIN Loose = Untracked
          /\ p \in Untracked => Loose[p] = Cardinality(work[p])
          /\ \A k \in 1 .. 4 : Said[p][k] = StatusIn(p, Sources[k]) /\ Lines[p][k] = NewLines(p, Sources[k])
      BY DEF Said, Lines, Loose, Sources
    <3>2. FirstStatus(p) = IF known # {} THEN Said[p][Min(known)]
                           ELSE IF p \in Untracked THEN "untracked" ELSE NoStatus
      <4>1. known = {k \in DOMAIN Sources : StatusIn(p, Sources[k]) # NoStatus} /\ known \subseteq 1 .. 4
        BY <3>1
      <4>2. known # {} => Min(known) \in 1 .. 4
        BY <4>1, MinFacts
      <4> HIDE DEF known
      <4> QED BY <3>1, <4>1, <4>2 DEF FirstStatus
    <3>3. Additions(p) = Max(counts)
      <4>1. counts = {NewLines(p, Sources[k]) : k \in DOMAIN Sources}
                     \cup {IF p \in Untracked THEN Cardinality(work[p]) ELSE 0}
        BY <3>1
      <4> HIDE DEF counts
      <4> QED BY <4>1 DEF Additions
    <3>4. known # {} => /\ Min(known) \in 1 .. 4 /\ Said[p][Min(known)] # NoStatus
                        /\ \A k \in known : Min(known) <= k
      BY MinFacts
    <3>5. IsNoted(byPath, p, 11, Said, Lines, Loose)
      BY <2>1, <2>2 DEF IsAnswer
    <3>6. p \in DOMAIN byPath <=> known # {} \/ p \in Untracked
      BY <3>1, <3>5 DEF IsNoted, IsTold
    <3>7. "untracked" # NoStatus
      BY DEF NoStatus
    <3>8. p \in DOMAIN byPath => byPath[p].status = FirstStatus(p)
      <4> SUFFICES ASSUME p \in DOMAIN byPath PROVE byPath[p].status = FirstStatus(p)
        OBVIOUS
      <4>1. IsFirst(p, byPath[p].status, Said, Loose)
        BY <3>5 DEF IsNoted
      <4>2. CASE \E k \in 1 .. 4 : /\ Said[p][k] # NoStatus /\ byPath[p].status = Said[p][k]
                                   /\ \A j \in 1 .. k - 1 : Said[p][j] = NoStatus
        <5>1. PICK k \in 1 .. 4 : /\ Said[p][k] # NoStatus /\ byPath[p].status = Said[p][k]
                                  /\ \A j \in 1 .. k - 1 : Said[p][j] = NoStatus
          BY <4>2
        <5>2. k \in known
          BY <5>1
        <5>3. Min(known) = k
          BY <3>4, <5>1, <5>2
        <5> QED BY <3>2, <5>1, <5>2, <5>3
      <4>3. CASE p \in DOMAIN Loose /\ byPath[p].status = "untracked" /\ \A k \in 1 .. 4 : Said[p][k] = NoStatus
        BY <3>1, <3>2, <4>3
      <4> QED BY <4>1, <4>2, <4>3 DEF IsFirst
    <3>9. p \in DOMAIN byPath => a = Additions(p)
      <4> SUFFICES ASSUME p \in DOMAIN byPath PROVE a = Additions(p)
        OBVIOUS
      <4>1. IsMost(p, 11, a, Lines, Loose) /\ a \in Nat
        BY <3>5 DEF IsNoted, Notes
      <4>2. /\ \A k \in 1 .. 4 : Lines[p][k] \in Nat
            /\ p \in DOMAIN Loose => Loose[p] \in Nat
        <5>1. TreesTyped /\ 1 \in 1 .. 9
          BY DEF IInv, Shapes, TreesTyped
        <5> QED BY <5>1, CommandSays
      <4> HIDE DEF a
      <4>3. counts \subseteq Nat
        BY <3>1, <4>2
      <4>4. \A n \in counts : a >= n
        BY <3>1, <4>1 DEF IsMost
      <4>5. a \in counts
        <5>1. CASE a = 0
          <6>1. Lines[p][1] \in counts /\ Lines[p][1] \in Nat /\ a >= Lines[p][1]
            BY <4>2, <4>4
          <6> QED BY <5>1, <6>1
        <5>2. CASE a # 0
          BY <3>1, <4>1, <5>2 DEF IsMost
        <5> QED BY <5>1, <5>2
      <4> HIDE DEF counts
      <4> QED BY <3>3, <4>3, <4>4, <4>5, MaxIs
    <3> HIDE DEF known
    <3> QED BY <3>2, <3>4, <3>6, <3>7, <3>8, <3>9
  <2>3. \A p \in DOMAIN byPath : p \in Paths /\ ~IsCtxpackArtifact(p)
    BY <2>1 DEF IsAnswer
  <2> QED BY <2>2, <2>3
<1> QED BY Invariance, <1>1, PTL

-----------------------------------------------------------------------------
(* The ranking of the files of an index, by the modules Ranking and         *)
(* ImportGraph.                                                             *)

LEMMA FilesAreFinite ==
  ASSUME NumFiles \in Nat
  PROVE  \A S \in SUBSET Files : IsFiniteSet(S) /\ Cardinality(S) \in Nat
<1>1. IsFiniteSet(Files)
  BY FS_Interval DEF Files
<1> QED BY <1>1, FS_Subset, FS_CardinalityType

-----------------------------------------------------------------------------
(* There is one order of the files by their scores.                         *)

Ahead(s, f, g) == s[f] > s[g] \/ (s[f] = s[g] /\ f < g)

LEMMA OneOrder ==
  ASSUME NumFiles \in Nat, NEW s \in [Files -> Nat], NEW q,
         q \in SortedFrom(s, Positive(s))
  PROVE  /\ q = Rankwise(s)
         /\ q \in [1 .. Cardinality(Positive(s)) -> Positive(s)]
         /\ \A i, j \in 1 .. Cardinality(Positive(s)) : i # j => q[i] # q[j]
<1> DEFINE S == Positive(s)
           n == Cardinality(S)
           AheadOf(f) == {g \in S : s[g] > s[f] \/ (s[g] = s[f] /\ g < f)}
<1>1. S \in SUBSET Files /\ IsFiniteSet(S) /\ n \in Nat
  BY FilesAreFinite DEF Positive
<1>2. /\ q \in [1 .. n -> S]
      /\ \A i, j \in 1 .. n : i < j => q[i] # q[j] /\ ~Ahead(s, q[j], q[i])
  BY DEF SortedFrom, Before, Ahead
<1>3. \A f, g \in S : f # g => Ahead(s, f, g) \/ Ahead(s, g, f)
  BY <1>1 DEF Ahead, Files
<1>4. \A f, g \in S : ~(Ahead(s, f, g) /\ Ahead(s, g, f))
  BY <1>1 DEF Ahead, Files
<1> HIDE DEF S, n
<1>5. \A i, j \in 1 .. n : i # j => q[i] # q[j]
  <2> SUFFICES ASSUME NEW i \in 1 .. n, NEW j \in 1 .. n, i # j PROVE q[i] # q[j]
    OBVIOUS
  <2>1. i < j \/ j < i
    BY <1>1
  <2> QED BY <2>1, <1>2
<1>6. \A i, j \in 1 .. n : i < j <=> Ahead(s, q[i], q[j])
  <2> SUFFICES ASSUME NEW i \in 1 .. n, NEW j \in 1 .. n PROVE i < j <=> Ahead(s, q[i], q[j])
    OBVIOUS
  <2>1. q[i] \in S /\ q[j] \in S
    BY <1>2
  <2>2. CASE i < j
    BY <2>1, <2>2, <1>2, <1>3
  <2>3. CASE j < i
    <3>1. ~(i < j) /\ ~Ahead(s, q[i], q[j])
      BY <2>3, <1>1, <1>2
    <3> QED BY <3>1
  <2>4. CASE i = j
    <3>1. ~(i < j)
      BY <2>4, <1>1
    <3> QED BY <2>1, <2>4, <3>1, <1>4
  <2> QED BY <2>2, <2>3, <2>4, <1>1
<1>7. \A f \in S : \E i \in 1 .. n : q[i] = f
  <2>1. q \in Injection(1 .. n, S)
    BY <1>2, <1>5 DEF Injection, IsInjective
  <2>2. Cardinality(1 .. n) = n /\ IsFiniteSet(1 .. n)
    BY <1>1, FS_Interval
  <2>3. q \in Surjection(1 .. n, S)
    BY <2>1, <2>2, <1>1, FS_Injection DEF n
  <2> QED BY <2>3 DEF Surjection
<1>8. ASSUME NEW k \in 1 .. n PROVE Cardinality(AheadOf(q[k])) = k - 1
  <2> DEFINE T == AheadOf(q[k])
             b == [j \in 1 .. k - 1 |-> q[j]]
  <2>1. k - 1 \in Nat /\ \A j \in 1 .. k - 1 : j \in 1 .. n /\ j < k
    BY <1>1
  <2>2. T = {g \in S : Ahead(s, g, q[k])}
    BY DEF Ahead
  <2> HIDE DEF T
  <2>3. \A j \in 1 .. k - 1 : q[j] \in T
    BY <2>1, <2>2, <1>2, <1>6
  <2>4. \A g \in T : \E j \in 1 .. k - 1 : q[j] = g
    <3> SUFFICES ASSUME NEW g \in T PROVE \E j \in 1 .. k - 1 : q[j] = g
      OBVIOUS
    <3>1. g \in S /\ Ahead(s, g, q[k])
      BY <2>2
    <3>2. PICK j \in 1 .. n : q[j] = g
      BY <3>1, <1>7
    <3>3. j < k
      BY <3>1, <3>2, <1>6
    <3>4. j \in 1 .. k - 1
      BY <3>3, <1>1
    <3> QED BY <3>2, <3>4
  <2>5. b \in Bijection(1 .. k - 1, T)
    <3>1. b \in [1 .. k - 1 -> T]
      BY <2>3
    <3>2. \A i, j \in 1 .. k - 1 : b[i] = b[j] => i = j
      BY <2>1, <1>5
    <3>3. \A g \in T : \E j \in 1 .. k - 1 : b[j] = g
      BY <2>4
    <3> HIDE DEF b
    <3> QED BY <3>1, <3>2, <3>3 DEF Bijection, Injection, IsInjective, Surjection
  <2>6. ExistsBijection(1 .. k - 1, T)
    <3> HIDE DEF b
    <3> QED BY <2>5 DEF ExistsBijection
  <2> QED BY <2>1, <2>6, FS_CountingElements DEF T
<1>9. ASSUME NEW k \in 1 .. n
      PROVE  q[k] = CHOOSE f \in S : Cardinality(AheadOf(f)) = k - 1
  <2> HIDE DEF AheadOf
  <2>1. q[k] \in S /\ Cardinality(AheadOf(q[k])) = k - 1
    BY <1>2, <1>8
  <2>2. ASSUME NEW f \in S, Cardinality(AheadOf(f)) = k - 1 PROVE f = q[k]
    <3>1. PICK j \in 1 .. n : q[j] = f
      BY <1>7
    <3>2. j - 1 = k - 1
      BY <3>1, <2>2, <1>8
    <3>3. j = k
      BY <3>2, <1>1
    <3> QED BY <3>1, <3>3
  <2> QED BY <2>1, <2>2
<1>10. q = [k \in 1 .. n |-> CHOOSE f \in S : Cardinality(AheadOf(f)) = k - 1]
  <2> HIDE DEF AheadOf
  <2> QED BY <1>2, <1>9
<1>11. n = Cardinality(S)
  BY DEF n
<1>12. q = Rankwise(s)
  BY <1>10, <1>11 DEF Rankwise, S
<1> QED BY <1>2, <1>5, <1>12 DEF S, n

-----------------------------------------------------------------------------
(* The scores after each visit.                                             *)

\* The visits are of different files that match the task by themselves.
GoodVisits ==
  /\ Len(Visits) \in Nat
  /\ \A k \in 1 .. Len(Visits) : Visits[k] \in Positive(own)
  /\ \A j, k \in 1 .. Len(Visits) : j # k => Visits[j] # Visits[k]

AfterVisit(s, k) ==
  IF Spreads(s, Visits[k]) THEN Boosted(s, Visits[k]) ELSE s

IsAfter(t, n) == t = [k \in 0 .. n |-> IF k = 0 THEN own ELSE AfterVisit(t[k - 1], k)]

After == CHOOSE t : IsAfter(t, Len(Visits))

LEMMA LeastIs ==
  ASSUME NEW N \in Nat, NEW T, 0 \in T, \A n \in 1 .. N : n - 1 \in T => n \in T
  PROVE  \A n \in 0 .. N : n \in T
<1> SUFFICES ASSUME {n \in 0 .. N : n \notin T} # {} PROVE FALSE
  OBVIOUS
<1>1. PICK n \in {n \in 0 .. N : n \notin T} : \A k \in {k \in 0 .. N : k \notin T} : n <= k
  <2>1. {n \in 0 .. N : n \notin T} \in SUBSET Nat
    OBVIOUS
  <2> QED BY <2>1, LeastNat
<1>2. n \in 1 .. N /\ n - 1 \in 0 .. N /\ ~(n <= n - 1)
  BY <1>1
<1> QED BY <1>1, <1>2

LEMMA Afters ==
  ASSUME Len(Visits) \in Nat
  PROVE  /\ After[0] = own
         /\ \A k \in 1 .. Len(Visits) : After[k] = AfterVisit(After[k - 1], k)
         /\ Expected = After[Len(Visits)]
<1> DEFINE N == Len(Visits)
           T == {n \in 0 .. N : \E t : IsAfter(t, n)}
<1>1. Expected = After[N]
  BY DEF Expected, After, IsAfter, AfterVisit
<1> HIDE DEF N
<1>2. 0 \in T
  <2> DEFINE t == [k \in 0 .. 0 |-> own]
  <2>1. IsAfter(t, 0)
    BY DEF IsAfter
  <2> HIDE DEF t
  <2> QED BY <2>1 DEF N
<1>3. ASSUME NEW n \in 1 .. N, n - 1 \in T PROVE n \in T
  <2>1. PICK f : IsAfter(f, n - 1)
    BY <1>3
  <2> DEFINE t == [k \in 0 .. n |-> IF k = n THEN AfterVisit(f[n - 1], n) ELSE f[k]]
             h == [k \in 0 .. n |-> IF k = 0 THEN own ELSE AfterVisit(t[k - 1], k)]
  <2>2. \A k \in 0 .. n - 1 : f[k] = IF k = 0 THEN own ELSE AfterVisit(f[k - 1], k)
    BY <2>1 DEF IsAfter
  <2>3. \A k \in 0 .. n : k # n => k \in 0 .. n - 1
    BY DEF N
  <2>4. \A k \in 1 .. n : t[k - 1] = f[k - 1]
    BY DEF N
  <2>5. \A k \in 0 .. n : t[k] = h[k]
    BY <2>2, <2>3, <2>4 DEF N
  <2>6. t = h
    BY <2>5
  <2>7. IsAfter(t, n)
    BY <2>6 DEF IsAfter
  <2> HIDE DEF t
  <2> QED BY <2>7
<1>4. IsAfter(After, N)
  <2>1. N \in T
    <3> HIDE DEF T
    <3>1. \A n \in 0 .. N : n \in T
      BY <1>2, <1>3, LeastIs DEF N
    <3> QED BY <3>1 DEF N
  <2> QED BY <2>1 DEF After, N
<1>5. \A k \in 0 .. N : After[k] = IF k = 0 THEN own ELSE AfterVisit(After[k - 1], k)
  BY <1>4 DEF IsAfter
<1>6. /\ After[0] = own
      /\ \A k \in 1 .. N : After[k] = AfterVisit(After[k - 1], k)
  BY <1>5 DEF N
<1> QED BY <1>1, <1>6 DEF N

BoostIsSmall(seed, f, x) ==
  /\ Boost(seed, f, x) \in Nat /\ Boost(seed, f, x) <= 2000
  /\ seed \notin Neighbours(f) => Boost(seed, f, x) = 0

LEMMA BoostIsBounded ==
  ASSUME NEW seed \in Files, NEW f \in Files, NEW x \in Nat
  PROVE  BoostIsSmall(seed, f, x)
<1>1. \A cap \in {600, 800} : RelatedBoost(x, cap) \in Nat /\ RelatedBoost(x, cap) <= cap
  BY DEF RelatedBoost
<1>2. /\ RelatedBoost(x, 600) \in Nat /\ RelatedBoost(x, 600) <= 600
      /\ RelatedBoost(x, 800) \in Nat /\ RelatedBoost(x, 800) <= 800
  BY <1>1
<1> DEFINE a == IF f \in Deps(seed) THEN RelatedBoost(x, 800) ELSE 0
           b == IF f \in Importers(seed) THEN RelatedBoost(x, 600) ELSE 0
           c == IF includeTests /\ seed \in Code /\ f \in nearby[seed]
                THEN RelatedBoost(x, 600) ELSE 0
<1>3. Boost(seed, f, x) = a + b + c
  BY DEF Boost
<1>4. /\ a \in Nat /\ a <= 800
      /\ b \in Nat /\ b <= 600
      /\ c \in Nat /\ c <= 600
  BY <1>2
<1>5. seed \notin Neighbours(f) =>
        f \notin Deps(seed) /\ f \notin Importers(seed) /\ f \notin nearby[seed]
  BY DEF Neighbours, Importers
<1>6. seed \notin Neighbours(f) => a = 0 /\ b = 0 /\ c = 0
  BY <1>5
<1> HIDE DEF a, b, c
<1> QED BY <1>3, <1>4, <1>6 DEF BoostIsSmall

Visited(k) == {Visits[j] : j \in 1 .. k}

\* However a file is boosted, each of its neighbours that was visited gives it 20
\* points at most.
Gains(s, k) ==
  /\ s \in [Files -> Nat]
  /\ \A f \in Files : own[f] <= s[f]
  /\ \A f \in Files : s[f] <= own[f] + 2000 * Cardinality(Neighbours(f) \cap Visited(k))

LEMMA GainsAfterVisit ==
  ASSUME NumFiles \in Nat, own \in [Files -> Nat], GoodVisits,
         NEW k \in 1 .. Len(Visits), NEW s, Gains(s, k - 1)
  PROVE  Gains(AfterVisit(s, k), k)
<1> DEFINE seed == Visits[k]
           near(f, j) == Neighbours(f) \cap Visited(j)
<1>1. /\ k \in Nat /\ k - 1 \in Nat
      /\ \A j \in 1 .. k : j \in 1 .. Len(Visits) /\ (j \in 1 .. k - 1 \/ j = k)
      /\ \A j \in 1 .. k - 1 : j \in 1 .. k /\ j # k
  BY DEF GoodVisits
<1>2. seed \in Files /\ seed \notin Visited(k - 1)
  <2>1. seed \in Files
    BY DEF GoodVisits, Positive
  <2>2. \A j \in 1 .. k - 1 : Visits[j] # seed
    BY <1>1 DEF GoodVisits
  <2> QED BY <2>1, <2>2 DEF Visited
<1>3. Visited(k) = Visited(k - 1) \cup {seed}
  BY <1>1 DEF Visited
<1>4. s \in [Files -> Nat] /\ s[seed] \in Nat
  BY <1>2 DEF Gains
<1> HIDE DEF seed
<1>5. ASSUME NEW f \in Files
      PROVE  /\ Cardinality(near(f, k - 1)) \in Nat
             /\ Cardinality(near(f, k)) = Cardinality(near(f, k - 1))
                                          + IF seed \in Neighbours(f) THEN 1 ELSE 0
  <2>1. near(f, k - 1) \in SUBSET Files
    BY DEF Neighbours
  <2>2. IsFiniteSet(near(f, k - 1)) /\ Cardinality(near(f, k - 1)) \in Nat
    BY <2>1, FilesAreFinite
  <2>3. CASE seed \in Neighbours(f)
    <3>1. near(f, k) = near(f, k - 1) \cup {seed} /\ seed \notin near(f, k - 1)
      BY <2>3, <1>2, <1>3
    <3> HIDE DEF near
    <3>2. Cardinality(near(f, k)) = Cardinality(near(f, k - 1)) + 1
      BY <3>1, <2>2, FS_AddElement
    <3> QED BY <3>2, <2>2, <2>3
  <2>4. CASE seed \notin Neighbours(f)
    <3>1. near(f, k) = near(f, k - 1)
      BY <2>4, <1>3
    <3> HIDE DEF near
    <3> QED BY <3>1, <2>2, <2>4
  <2> QED BY <2>3, <2>4
<1>6. ASSUME NEW f \in Files
      PROVE  /\ own[f] \in Nat /\ s[f] \in Nat
             /\ own[f] <= s[f] /\ s[f] <= own[f] + 2000 * Cardinality(near(f, k - 1))
  BY <1>4 DEF Gains
<1>7. CASE Spreads(s, seed)
  <2> DEFINE r == AfterVisit(s, k)
  <2>1. r = [f \in Files |-> s[f] + Boost(seed, f, s[seed])]
    BY <1>7 DEF AfterVisit, seed, Boosted
  <2> HIDE DEF r
  <2>2. ASSUME NEW f \in Files
        PROVE  r[f] \in Nat /\ own[f] <= r[f] /\ r[f] <= own[f] + 2000 * Cardinality(near(f, k))
    <3>1. BoostIsSmall(seed, f, s[seed])
      BY <1>2, <1>4, BoostIsBounded
    <3>2. r[f] = s[f] + Boost(seed, f, s[seed])
      BY <2>1
    <3> HIDE DEF near
    <3>5. /\ s[f] \in Nat /\ own[f] \in Nat /\ own[f] <= s[f]
           /\ s[f] <= own[f] + 2000 * Cardinality(near(f, k - 1))
      BY <1>6
    <3>6. /\ Cardinality(near(f, k - 1)) \in Nat
           /\ Cardinality(near(f, k)) = Cardinality(near(f, k - 1))
                                          + IF seed \in Neighbours(f) THEN 1 ELSE 0
      BY <1>5
    <3>3. CASE seed \in Neighbours(f)
      <4> DEFINE b == Boost(seed, f, s[seed])
                 c == Cardinality(near(f, k - 1))
                 x == s[f]
                 y == own[f]
      <4>1. b \in Nat /\ b <= 2000 /\ c \in Nat
        BY <3>1, <3>6 DEF BoostIsSmall
      <4>2. r[f] = x + b /\ Cardinality(near(f, k)) = c + 1
        BY <3>2, <3>6, <3>3
      <4>3. x \in Nat /\ y \in Nat /\ y <= x /\ x <= y + 2000 * c
        BY <3>5
      <4> HIDE DEF b, c, x, y
      <4>4. x + b \in Nat /\ y <= x + b /\ x + b <= y + 2000 * (c + 1)
        BY <4>1, <4>3
      <4> QED BY <4>2, <4>4 DEF y
    <3>4. CASE seed \notin Neighbours(f)
      BY <3>1, <3>2, <3>4, <3>5, <3>6 DEF BoostIsSmall
    <3> QED BY <3>3, <3>4
  <2>3. DOMAIN r = Files /\ r = [f \in DOMAIN r |-> r[f]]
    BY <2>1
  <2>4. \A f \in Files : r[f] \in Nat
    <3> HIDE DEF near
    <3> QED BY <2>2
  <2>5. r \in [Files -> Nat]
    <3> HIDE DEF near
    <3> QED BY <2>4, <2>3
  <2>6. Gains(r, k)
    <3>1. \A f \in Files : own[f] <= r[f]
      <4> HIDE DEF near
      <4> QED BY <2>2
    <3>2. \A f \in Files : r[f] <= own[f] + 2000 * Cardinality(near(f, k))
      <4> HIDE DEF near
      <4> QED BY <2>2
    <3> QED BY <3>1, <3>2, <2>5 DEF Gains
  <2> QED BY <2>6 DEF r
<1>8. CASE ~Spreads(s, seed)
  <2>1. AfterVisit(s, k) = s
    BY <1>8 DEF AfterVisit, seed
  <2>2. ASSUME NEW f \in Files
        PROVE  own[f] <= s[f] /\ s[f] <= own[f] + 2000 * Cardinality(near(f, k))
    <3> HIDE DEF near
    <3>1. /\ s[f] \in Nat /\ own[f] \in Nat /\ own[f] <= s[f]
          /\ s[f] <= own[f] + 2000 * Cardinality(near(f, k - 1))
      BY <1>6
    <3>2. /\ Cardinality(near(f, k - 1)) \in Nat
          /\ Cardinality(near(f, k)) = Cardinality(near(f, k - 1))
                                         + IF seed \in Neighbours(f) THEN 1 ELSE 0
      BY <1>5
    <3> QED BY <3>1, <3>2
  <2> QED BY <2>1, <2>2, <1>4 DEF Gains
<1> QED BY <1>7, <1>8

LEMMA GainsAreBounded ==
  ASSUME NumFiles \in Nat, own \in [Files -> Nat], GoodVisits
  PROVE  \A k \in 0 .. Len(Visits) : Gains(After[k], k)
<1> DEFINE N == Len(Visits)
           T == {k \in 0 .. N : Gains(After[k], k)}
<1>1. N \in Nat
  BY DEF GoodVisits
<1>2. After[0] = own /\ \A k \in 1 .. N : After[k] = AfterVisit(After[k - 1], k)
  BY <1>1, Afters
<1>3. 0 \in T
  <2>1. Visited(0) = {}
    BY DEF Visited
  <2>2. \A f \in Files : Cardinality(Neighbours(f) \cap Visited(0)) = 0
    BY <2>1, FS_EmptySet
  <2>3. \A f \in Files : own[f] <= own[f] /\ own[f] <= own[f] + 2000 * 0
    OBVIOUS
  <2>4. Gains(own, 0)
    BY <2>2, <2>3 DEF Gains
  <2> QED BY <2>4, <1>1, <1>2
<1>4. ASSUME NEW k \in 1 .. N, k - 1 \in T PROVE k \in T
  <2>1. Gains(After[k - 1], k - 1)
    BY <1>4
  <2>2. Gains(AfterVisit(After[k - 1], k), k)
    BY <2>1, GainsAfterVisit
  <2>3. k \in 0 .. N
    BY <1>1
  <2> QED BY <2>2, <2>3, <1>2
<1>5. \A k \in 0 .. N : k \in T
  <2> HIDE DEF T, N
  <2> QED BY <1>1, <1>3, <1>4, LeastIs
<1> QED BY <1>5

-----------------------------------------------------------------------------
(* The invariant.                                                           *)

\* What is left to visit, after k visits.
Left(k) ==
  /\ seeds \in Seq(Files)
  /\ Len(seeds) = Len(Visits) - k
  /\ \A j \in 1 .. Len(seeds) : seeds[j] = Visits[k + j]

\* After k of the visits the score is what they make of the files' own.
IsVisiting ==
  GoodVisits /\ \E k \in 0 .. Len(Visits) : score = After[k] /\ Left(k)

VisitInv ==
  /\ own \in [Files -> Nat]
  /\ pc \in {"tables", "packages", "seeds", "boost", "done"}
  /\ pc \in {"tables", "packages", "seeds"} => score = own
  /\ pc \in {"boost", "done"} => IsVisiting
  /\ pc = "done" => seeds = <<>> /\ (Positive(score) # {} => ranking = Rankwise(score))

LEMMA StaySame ==
  ASSUME UNCHANGED inputs
  PROVE  /\ Visits' = Visits
         /\ After' = After
         /\ GoodVisits' <=> GoodVisits
<1>1. resolved' = resolved /\ own' = own /\ nearby' = nearby /\ includeTests' = includeTests /\ changed' = changed
  BY DEF inputs, graph
<1>2. NoLocalDeps' = NoLocalDeps
  BY <1>1 DEF NoLocalDeps, Deps
<1>3. Rankwise(own)' = Rankwise(own)
  BY <1>1 DEF Rankwise, Positive
<1>4. Visits' = Visits
  BY <1>2, <1>3 DEF Visits, Capped
<1>5. \A s, k : AfterVisit(s, k)' = AfterVisit(s, k)
  BY <1>1, <1>4 DEF AfterVisit, Spreads, Boosted, Boost, Deps, Importers
<1>6. After' = After
  BY <1>1, <1>4, <1>5 DEF After, IsAfter
<1>7. Positive(own)' = Positive(own)
  BY <1>1 DEF Positive
<1>8. GoodVisits' <=> GoodVisits
  BY <1>4, <1>7 DEF GoodVisits
<1> QED BY <1>4, <1>6, <1>8

LEMMA VisitInvInit == RankingInit => VisitInv
<1> SUFFICES ASSUME RankingInit PROVE VisitInv
  OBVIOUS
<1>1. own \in [Files -> Nat]
  BY CasesAssumption DEF RankingInit
<1> QED BY <1>1 DEF VisitInv, RankingInit

\* The sorted seeds, or what the limit leaves of them, are the visits.
LEMMA SeedsAreVisits ==
  ASSUME VisitInv, TopSeedPaths
  PROVE  /\ GoodVisits /\ seeds' = Visits /\ Visits \in Seq(Files)
<1>1. NumFiles \in Nat /\ SeedLimit \in Nat
  BY FilesAssumption, SeedLimitAssumption
<1>2. own \in [Files -> Nat] /\ score = own
  BY DEF VisitInv, TopSeedPaths
<1>3. CASE NoLocalDeps
  <2>1. seeds' = <<>> /\ Visits = <<>>
    BY <1>3 DEF TopSeedPaths, Visits
  <2> QED BY <2>1 DEF GoodVisits
<1>4. CASE ~NoLocalDeps
  <2> DEFINE S == Positive(own)
             n == Cardinality(S)
  <2>1. PICK q \in SortedFrom(own, S) : seeds' = Capped(q, SeedLimit)
    BY <1>2, <1>4 DEF TopSeedPaths
  <2>2. /\ q = Rankwise(own)
        /\ q \in [1 .. n -> S]
        /\ \A i, j \in 1 .. n : i # j => q[i] # q[j]
    BY <1>1, <1>2, <2>1, OneOrder
  <2>3. seeds' = Visits
    BY <1>4, <2>1, <2>2 DEF Visits
  <2>4. n \in Nat /\ \A f \in S : f \in Files
    BY <1>1, FilesAreFinite DEF Positive
  <2> HIDE DEF S, n
  <2>5. q \in Seq(S) /\ Len(q) = n
    BY <2>2, <2>4
  <2> DEFINE v == Capped(q, SeedLimit)
  <2>6. /\ v \in Seq(S) /\ Len(v) \in Nat /\ Len(v) <= n
        /\ \A k \in 1 .. Len(v) : v[k] = q[k] /\ k \in 1 .. n
    <3>1. CASE n > SeedLimit
      <4>1. v = SubSeq(q, 1, SeedLimit)
        BY <3>1, <2>5 DEF Capped
      <4> HIDE DEF v
      <4>2. Len(v) = SeedLimit /\ \A k \in 1 .. SeedLimit : v[k] = q[k] /\ k \in 1 .. n
        BY <4>1, <3>1, <2>4, <2>5, <1>1
      <4>3. v \in Seq(S)
        BY <4>1, <3>1, <2>4, <2>5, <1>1
      <4> QED BY <4>2, <4>3, <3>1, <1>1, <2>4
    <3>2. CASE ~(n > SeedLimit)
      <4>1. v = q
        BY <3>2, <2>5 DEF Capped
      <4> HIDE DEF v
      <4> QED BY <4>1, <2>4, <2>5
    <3> QED BY <3>1, <3>2
  <2>7. v = Visits
    BY <2>1, <2>3
  <2> HIDE DEF v
  <2>8. GoodVisits
    <3>1. \A k \in 1 .. Len(v) : v[k] \in S
      BY <2>6
    <3>2. \A j, k \in 1 .. Len(v) : j # k => v[j] # v[k]
      BY <2>2, <2>6
    <3> QED BY <3>1, <3>2, <2>6, <2>7 DEF GoodVisits, S
  <2>9. v \in Seq(Files)
    BY <2>6, <2>4
  <2> QED BY <2>3, <2>7, <2>8, <2>9
<1> QED BY <1>3, <1>4

\* One more visit.
LEMMA NextVisit ==
  ASSUME own \in [Files -> Nat], GoodVisits,
         NEW k \in 0 .. Len(Visits), score = After[k], Left(k), seeds # <<>>
  PROVE  /\ k + 1 \in 1 .. Len(Visits) /\ Head(seeds) = Visits[k + 1]
         /\ After[k + 1] = AfterVisit(score, k + 1)
         /\ seeds' = Tail(seeds) => Left(k + 1)'
                                       \/ Visits' # Visits
<1>1. /\ seeds \in Seq(Files) /\ Len(seeds) \in Nat /\ Len(seeds) > 0
      /\ Len(Visits) \in Nat /\ Len(seeds) = Len(Visits) - k
  BY DEF Left, GoodVisits
<1>2. k + 1 \in 1 .. Len(Visits) /\ k + 1 - 1 = k
  BY <1>1
<1>3. Head(seeds) = Visits[k + 1]
  <2>1. Head(seeds) = seeds[1] /\ 1 \in 1 .. Len(seeds)
    BY <1>1
  <2> QED BY <2>1 DEF Left
<1>4. After[k + 1] = AfterVisit(score, k + 1)
  <2>1. \A n \in 1 .. Len(Visits) : After[n] = AfterVisit(After[n - 1], n)
    BY <1>1, Afters
  <2>2. After[k + 1] = AfterVisit(After[k + 1 - 1], k + 1)
    BY <1>2, <2>1
  <2> QED BY <1>2, <2>2
<1>5. ASSUME seeds' = Tail(seeds), Visits' = Visits PROVE Left(k + 1)'
  <2>1. seeds' \in Seq(Files) /\ Len(seeds') = Len(seeds) - 1
    BY <1>1, <1>5
  <2>2. \A j \in 1 .. Len(seeds') : seeds'[j] = seeds[j + 1] /\ j + 1 \in 1 .. Len(seeds)
    BY <1>1, <1>5
  <2>3. \A j \in 1 .. Len(seeds') : seeds'[j] = Visits[(k + 1) + j]
    <3> SUFFICES ASSUME NEW j \in 1 .. Len(seeds') PROVE seeds'[j] = Visits[(k + 1) + j]
      OBVIOUS
    <3>1. seeds'[j] = seeds[j + 1] /\ j + 1 \in 1 .. Len(seeds)
      BY <2>2
    <3>2. seeds[j + 1] = Visits[k + (j + 1)]
      BY <3>1 DEF Left
    <3>3. k + (j + 1) = (k + 1) + j
      BY <1>1, <2>1
    <3> QED BY <3>1, <3>2, <3>3
  <2>4. Len(seeds') = Len(Visits') - (k + 1)
    BY <1>1, <1>5, <2>1
  <2> QED BY <2>1, <2>3, <2>4, <1>5 DEF Left, Files
<1> QED BY <1>2, <1>3, <1>4, <1>5

LEMMA VisitInvNext ==
  ASSUME VisitInv, [RankingNext]_rankingVars
  PROVE  VisitInv'
<1>1. NumFiles \in Nat
  BY FilesAssumption
<1>2. own \in [Files -> Nat]
  BY DEF VisitInv
<1>3. CASE BuildLocalGraph
  <2>1. /\ pc \in {"tables", "packages"} /\ pc' \in {"packages", "seeds"}
        /\ own' = own /\ score' = score
    BY <1>3 DEF BuildLocalGraph, IndexNames, AddPackageTSModules, ResolveImports
  <2> QED BY <2>1, <1>2 DEF VisitInv, Files
<1>4. CASE TopSeedPaths
  <2>1. /\ pc = "seeds" /\ pc' = "boost" /\ UNCHANGED inputs /\ score' = score /\ score = own
    BY <1>4 DEF TopSeedPaths, VisitInv
  <2>2. own' = own
    BY <2>1 DEF inputs
  <2>3. Visits' = Visits /\ After' = After /\ GoodVisits'
    BY <1>4, <2>1, SeedsAreVisits, StaySame
  <2>4. Left(0)'
    <3>1. seeds' = Visits' /\ Visits \in Seq(Files)
      BY <1>4, <2>3, SeedsAreVisits
    <3>2. Len(Visits) \in Nat
      BY <3>1
    <3> QED BY <3>1, <3>2, <2>3 DEF Left, Files
  <2>5. score' = After'[0] /\ Len(Visits') \in Nat
    <3>1. Len(Visits) \in Nat
      BY <1>4, SeedsAreVisits DEF GoodVisits
    <3> QED BY <2>1, <2>3, <3>1, Afters
  <2>6. IsVisiting'
    BY <2>3, <2>4, <2>5 DEF IsVisiting
  <2> QED BY <2>1, <2>2, <2>6, <1>2 DEF VisitInv, Files
<1>5. CASE SkipSeed \/ BoostRelated
  <2>1. /\ pc = "boost" /\ pc' = "boost" /\ UNCHANGED inputs /\ seeds # <<>> /\ seeds' = Tail(seeds)
        /\ score' = IF Spreads(score, Head(seeds)) THEN Boosted(score, Head(seeds)) ELSE score
    BY <1>5 DEF SkipSeed, BoostRelated
  <2>2. own' = own
    BY <2>1 DEF inputs
  <2>3. PICK k \in 0 .. Len(Visits) : score = After[k] /\ Left(k)
    BY <2>1 DEF VisitInv, IsVisiting
  <2>4. GoodVisits
    BY <2>1 DEF VisitInv, IsVisiting
  <2>5. Visits' = Visits /\ After' = After /\ GoodVisits'
    BY <2>1, <2>4, StaySame
  <2>6. /\ k + 1 \in 1 .. Len(Visits) /\ Head(seeds) = Visits[k + 1]
        /\ After[k + 1] = AfterVisit(score, k + 1)
        /\ Left(k + 1)'
    BY <1>2, <2>1, <2>3, <2>4, <2>5, NextVisit
  <2>7. score' = After'[k + 1] /\ k + 1 \in 0 .. Len(Visits')
    <3>1. score' = AfterVisit(score, k + 1)
      BY <2>1, <2>6 DEF AfterVisit
    <3>2. Len(Visits) \in Nat
      BY <2>4 DEF GoodVisits
    <3> QED BY <3>1, <3>2, <2>5, <2>6
  <2>8. IsVisiting'
    BY <2>5, <2>6, <2>7 DEF IsVisiting
  <2> QED BY <2>1, <2>2, <2>8, <1>2 DEF VisitInv, Files
<1>6. CASE Rank
  <2>1. /\ pc = "boost" /\ pc' = "done" /\ UNCHANGED inputs /\ seeds = <<>>
        /\ seeds' = seeds /\ score' = score
    BY <1>6 DEF Rank
  <2>2. own' = own
    BY <2>1 DEF inputs
  <2>3. PICK k \in 0 .. Len(Visits) : score = After[k] /\ Left(k)
    BY <2>1 DEF VisitInv, IsVisiting
  <2>4. GoodVisits
    BY <2>1 DEF VisitInv, IsVisiting
  <2>5. Visits' = Visits /\ After' = After /\ GoodVisits'
    BY <2>1, <2>4, StaySame
  <2>6. Left(k)'
    BY <2>1, <2>3, <2>5 DEF Left, Files
  <2>7. IsVisiting'
    BY <2>1, <2>3, <2>5, <2>6 DEF IsVisiting
  <2>8. Positive(score) # {} => ranking' = Rankwise(score)
    <3> SUFFICES ASSUME Positive(score) # {} PROVE ranking' = Rankwise(score)
      OBVIOUS
    <3>1. ranking' \in SortedFrom(score, Positive(score))
      BY <1>6 DEF Rank
    <3>2. score \in [Files -> Nat]
      BY <1>1, <1>2, <2>3, <2>4, GainsAreBounded DEF Gains
    <3> QED BY <1>1, <3>1, <3>2, OneOrder
  <2>9. Positive(score)' = Positive(score) /\ Rankwise(score)' = Rankwise(score)
    BY <2>1 DEF Positive, Rankwise
  <2> QED BY <2>1, <2>2, <2>7, <2>8, <2>9, <1>2 DEF VisitInv, Files
<1>7. CASE UNCHANGED rankingVars
  <2>1. /\ UNCHANGED inputs /\ own' = own /\ pc' = pc /\ score' = score /\ seeds' = seeds /\ ranking' = ranking
    BY <1>7 DEF rankingVars, inputs
  <2>2. Visits' = Visits /\ After' = After /\ (GoodVisits' <=> GoodVisits)
    BY <2>1, StaySame
  <2>3. IsVisiting' <=> IsVisiting
    BY <2>1, <2>2 DEF IsVisiting, Left, Files
  <2>4. Positive(score)' = Positive(score) /\ Rankwise(score)' = Rankwise(score)
    BY <2>1 DEF Positive, Rankwise
  <2> QED BY <2>1, <2>3, <2>4 DEF VisitInv, Files
<1> QED BY <1>3, <1>4, <1>5, <1>6, <1>7 DEF RankingNext, Done

LEMMA VisitInvariance == RankingSpec => []VisitInv
  BY VisitInvInit, VisitInvNext, PTL DEF RankingSpec

\* Whatever order Go's maps deliver their elements in, the ranking is the same.
THEOREM RankingIsSameEveryTime == RankingSpec => []SameEveryTime
<1>1. VisitInv => SameEveryTime
  <2> SUFFICES ASSUME VisitInv, pc = "done", Positive(own) # {}
               PROVE  score = Expected /\ ranking = Rankwise(score)
    BY DEF SameEveryTime
  <2>1. PICK k \in 0 .. Len(Visits) : score = After[k] /\ Left(k)
    BY DEF VisitInv, IsVisiting
  <2>2. GoodVisits /\ seeds = <<>> /\ own \in [Files -> Nat]
    BY DEF VisitInv, IsVisiting
  <2>3. k = Len(Visits)
    BY <2>1, <2>2 DEF Left, GoodVisits
  <2>4. score = Expected
    BY <2>1, <2>2, <2>3, Afters DEF GoodVisits
  <2>5. Gains(score, k)
    BY <2>1, <2>2, GainsAreBounded, FilesAssumption
  <2>6. PICK f \in Files : own[f] > 0
    BY DEF Positive
  <2>7. score[f] > 0
    <3>1. score \in [Files -> Nat]
      BY <2>5 DEF Gains
    <3>2. own[f] <= score[f]
      BY <2>5 DEF Gains
    <3>3. own[f] \in Nat /\ score[f] \in Nat
      BY <2>2, <3>1
    <3> QED BY <3>2, <3>3, <2>6
  <2>8. Positive(score) # {}
    BY <2>7 DEF Positive
  <2> QED BY <2>4, <2>8 DEF VisitInv
<1> QED BY <1>1, VisitInvariance, PTL

\* Import cycles do not amplify a score.
THEOREM GainsComeFromNeighbours == RankingSpec => []GainsFromNeighbours
<1>1. ASSUME VisitInv PROVE GainsFromNeighbours
  <2> SUFFICES ASSUME NEW f \in Files
               PROVE  score[f] - own[f] <= 2000 * Cardinality(Neighbours(f) \cap Positive(own))
    BY DEF GainsFromNeighbours
  <2> DEFINE near == Neighbours(f) \cap Positive(own)
  <2>1. NumFiles \in Nat /\ own \in [Files -> Nat] /\ own[f] \in Nat
    BY <1>1, FilesAssumption DEF VisitInv
  <2>2. IsFiniteSet(near) /\ Cardinality(near) \in Nat
    BY <2>1, FilesAreFinite DEF Positive
  <2>4. score[f] - own[f] <= 2000 * Cardinality(near)
    <3>1. CASE score = own
      <4>1. score[f] - own[f] = 0
        BY <2>1, <3>1
      <4> HIDE DEF near
      <4> QED BY <2>2, <4>1
    <3>2. CASE score # own
      <4>1. IsVisiting
        BY <1>1, <3>2 DEF VisitInv
      <4>2. PICK k \in 0 .. Len(Visits) : score = After[k]
        BY <4>1 DEF IsVisiting
      <4>3. Gains(score, k) /\ GoodVisits /\ Len(Visits) \in Nat
        BY <4>1, <4>2, <2>1, GainsAreBounded DEF IsVisiting, GoodVisits
      <4> DEFINE some == Neighbours(f) \cap Visited(k)
      <4>4. some \in SUBSET near
        <5>1. \A j \in 1 .. k : Visits[j] \in Positive(own)
          BY <4>3 DEF GoodVisits
        <5> QED BY <5>1 DEF Visited
      <4>5. score[f] \in Nat /\ score[f] <= own[f] + 2000 * Cardinality(some)
        BY <4>3 DEF Gains
      <4> HIDE DEF near, some
      <4>6. Cardinality(some) \in Nat /\ Cardinality(some) <= Cardinality(near)
        BY <4>4, <2>2, FS_Subset, FS_CardinalityType
      <4> DEFINE x == score[f]
                 y == own[f]
                 m == Cardinality(some)
                 n == Cardinality(near)
      <4>7. x \in Nat /\ y \in Nat /\ m \in Nat /\ n \in Nat /\ m <= n /\ x <= y + 2000 * m
        BY <4>5, <4>6, <2>1, <2>2
      <4> HIDE DEF x, y, m, n
      <4>8. x - y <= 2000 * n
        BY <4>7
      <4> QED BY <4>8 DEF x, y, n
    <3> QED BY <3>1, <3>2
  <2> QED BY <2>4
<1> QED BY <1>1, VisitInvariance, PTL

-----------------------------------------------------------------------------
(* The files that imports lead to.                                          *)

IsLastOf(g, S) == g \in S /\ \A h \in S : h <= g

LEMMA LastIsMax ==
  ASSUME NEW S \in SUBSET Int, NEW g, IsLastOf(g, S)
  PROVE  Max(S) = g /\ LastOf(S) = {g}
<1>1. g \in S /\ \A h \in S : g >= h
  BY DEF IsLastOf
<1>2. ASSUME NEW x \in S, \A h \in S : x >= h PROVE x = g
  BY <1>1, <1>2
<1>3. Max(S) = g
  BY <1>1, <1>2 DEF Max
<1> QED BY <1>1, <1>3 DEF LastOf

LEMMA SomeIsLast ==
  ASSUME NumFiles \in Nat, NEW S \in SUBSET Files, S # {}
  PROVE  \E g \in S : IsLastOf(g, S)
<1> DEFINE T == {NumFiles - g : g \in S}
<1>1. T \in SUBSET Nat /\ T # {}
  <2>1. \A g \in S : g \in Int /\ g <= NumFiles
    BY DEF Files
  <2>2. \A g \in S : NumFiles - g \in Nat
    BY <2>1
  <2> QED BY <2>2
<1>2. PICK x \in T : \A y \in T : x <= y
  <2> HIDE DEF T
  <2> QED BY <1>1, LeastNat
<1>3. PICK g \in S : x = NumFiles - g
  BY <1>2
<1>4. \A h \in S : h <= g
  <2> SUFFICES ASSUME NEW h \in S PROVE h <= g
    OBVIOUS
  <2>1. x <= NumFiles - h
    BY <1>2
  <2>2. g \in Int /\ h \in Int
    BY DEF Files
  <2> QED BY <2>1, <2>2, <1>3
<1> QED BY <1>4 DEF IsLastOf

LEMMA LastOfIsIn ==
  ASSUME NumFiles \in Nat, NEW S \in SUBSET Files
  PROVE  LastOf(S) \subseteq S /\ \A f, g \in LastOf(S) : f = g
<1>1. CASE S = {}
  BY <1>1 DEF LastOf
<1>2. CASE S # {}
  <2>1. PICK g \in S : IsLastOf(g, S)
    BY <1>2, SomeIsLast
  <2>2. S \in SUBSET Int
    BY DEF Files
  <2>3. LastOf(S) = {g}
    BY <2>1, <2>2, LastIsMax
  <2> QED BY <2>1, <2>3
<1> QED BY <1>1, <1>2

\* The TypeScript files to which the packages visited so far give a name, or, if
\* there are none, those that have it by their path.
AddedBy(n) ==
  {f \in OfLang("ts") :
     \E p \in PackageNames : <<f, p>> \notin todo /\ n \in NamesInPackage(p, f)}
SoNamed(n) == IF AddedBy(n) # {} THEN AddedBy(n) ELSE NamedByPath(n)

ModulesInv ==
  /\ todo \subseteq OfLang("ts") \X PackageNames
  /\ \A f \in OfLang("ts"), p \in PackageNames :
       <<f, p>> \notin todo => \A t \in todo : f <= t[1]
  /\ \A n : n \in DOMAIN modules <=> SoNamed(n) # {}
  /\ \A n \in DOMAIN modules : IsLastOf(modules[n], SoNamed(n))

FiniteImports == \A f \in Files : IsFiniteSet(index[f].imports)

GraphInv ==
  /\ pc \in {"tables", "packages", "seeds", "boost", "done"}
  /\ FiniteImports
  /\ pc = "packages" => ModulesInv
  /\ ImportsLeadToOneFile

LEMMA SameFiles ==
  ASSUME index' = index
  PROVE  /\ \A lang : OfLang(lang)' = OfLang(lang)
         /\ PackageNames' = PackageNames
         /\ \A p, f : NamesInPackage(p, f)' = NamesInPackage(p, f)
         /\ \A n : NamedByPath(n)' = NamedByPath(n)
<1>1. \A lang : OfLang(lang)' = OfLang(lang)
  BY DEF OfLang
<1>2. OfLang("ts")' = OfLang("ts") /\ OfLang("json")' = OfLang("json")
  BY DEF OfLang
<1>3. PackageNames' = PackageNames
  BY <1>2 DEF PackageNames
<1>4. \A p : PackageRoot(p)' = PackageRoot(p)
  BY <1>2 DEF PackageRoot
<1>5. \A p, f : NamesInPackage(p, f)' = NamesInPackage(p, f)
  BY <1>4 DEF NamesInPackage
<1>6. \A f : TSModuleNames(f)' = TSModuleNames(f)
  BY DEF TSModuleNames
<1>7. \A n : NamedByPath(n)' = NamedByPath(n)
  BY <1>2, <1>6 DEF NamedByPath
<1> QED BY <1>1, <1>3, <1>5, <1>7

\* The first table.
LEMMA TablesAreRight ==
  ASSUME NumFiles \in Nat, IndexNames
  PROVE  ModulesInv'
<1> DEFINE ts == OfLang("ts")
           names == UNION {TSModuleNames(f) : f \in ts}
<1>1. /\ index' = index /\ todo' = ts \X PackageNames
      /\ modules' = [n \in names |-> Max({f \in ts : n \in TSModuleNames(f)})]
  BY DEF IndexNames
<1>2. /\ OfLang("ts")' = ts /\ PackageNames' = PackageNames
      /\ \A n : NamedByPath(n)' = NamedByPath(n)
  BY <1>1, SameFiles
<1>3. \A n : AddedBy(n)' = {}
  BY <1>1, <1>2 DEF AddedBy
<1>4. \A n : SoNamed(n)' = NamedByPath(n)
  BY <1>2, <1>3 DEF SoNamed
<1>5. \A n : NamedByPath(n) = {f \in ts : n \in TSModuleNames(f)}
  BY DEF NamedByPath
<1>6. \A n : n \in names <=> NamedByPath(n) # {}
  BY <1>5
<1>7. ts \in SUBSET Files
  BY DEF OfLang
<1> HIDE DEF ts, names
<1>8. ASSUME NEW n \in names PROVE IsLastOf(modules'[n], NamedByPath(n))
  <2>1. PICK g : IsLastOf(g, NamedByPath(n))
    <3>1. NamedByPath(n) \in SUBSET Files /\ NamedByPath(n) # {}
      BY <1>5, <1>6, <1>7
    <3> QED BY <3>1, SomeIsLast
  <2>2. NamedByPath(n) \in SUBSET Int
    <3>1. NamedByPath(n) \in SUBSET Files
      BY <1>5, <1>7
    <3> QED BY <3>1 DEF Files
  <2>3. Max(NamedByPath(n)) = g
    BY <2>1, <2>2, LastIsMax
  <2>4. modules'[n] = Max(NamedByPath(n))
    BY <1>1, <1>5
  <2> QED BY <2>1, <2>3, <2>4
<1>9. DOMAIN modules' = names
  BY <1>1
<1>10. todo' \subseteq OfLang("ts")' \X PackageNames'
  BY <1>1, <1>2
<1>11. \A f \in OfLang("ts")', p \in PackageNames' : <<f, p>> \in todo'
  BY <1>1, <1>2
<1> QED BY <1>4, <1>6, <1>8, <1>9, <1>10, <1>11 DEF ModulesInv

\* One more package for a file: no file after it has been given a name yet.
LEMMA PackageIsAdded ==
  ASSUME NumFiles \in Nat, ModulesInv, AddPackageTSModules
  PROVE  ModulesInv'
<1>1. PICK file \in Files, name \in PackageNames :
        /\ <<file, name>> \in todo /\ \A t \in todo : file <= t[1]
        /\ modules' = [n \in DOMAIN modules \cup NamesInPackage(name, file) |->
                         IF n \in NamesInPackage(name, file) THEN file ELSE modules[n]]
        /\ todo' = todo \ {<<file, name>>}
  BY DEF AddPackageTSModules, IsNext
<1>2. index' = index
  BY DEF AddPackageTSModules
<1> DEFINE ts == OfLang("ts")
           names == NamesInPackage(name, file)
<1>3. /\ OfLang("ts")' = ts /\ PackageNames' = PackageNames
      /\ \A p, f : NamesInPackage(p, f)' = NamesInPackage(p, f)
      /\ \A n : NamedByPath(n)' = NamedByPath(n)
  BY <1>2, SameFiles
<1>4. /\ todo \subseteq ts \X PackageNames /\ file \in ts
      /\ \A f \in ts : f \in Int
  BY <1>1 DEF ModulesInv, OfLang, Files
<1>5. \A n : AddedBy(n)' = IF n \in names THEN AddedBy(n) \cup {file} ELSE AddedBy(n)
  <2> SUFFICES ASSUME NEW n
               PROVE  AddedBy(n)' = IF n \in names THEN AddedBy(n) \cup {file} ELSE AddedBy(n)
    OBVIOUS
  <2>1. AddedBy(n)' = {f \in ts : \E p \in PackageNames :
                         <<f, p>> \notin todo' /\ n \in NamesInPackage(p, f)}
    BY <1>3 DEF AddedBy
  <2>2. \A f \in ts, p \in PackageNames :
          <<f, p>> \notin todo' <=> (<<f, p>> \notin todo \/ (f = file /\ p = name))
    BY <1>1
  <2> QED BY <2>1, <2>2, <1>4 DEF AddedBy
<1>6. \A f \in ts, p \in PackageNames : <<f, p>> \notin todo' => \A t \in todo' : f <= t[1]
  <2> SUFFICES ASSUME NEW f \in ts, NEW p \in PackageNames, <<f, p>> \notin todo', NEW t \in todo'
               PROVE  f <= t[1]
    OBVIOUS
  <2>1. CASE <<f, p>> \notin todo
    BY <2>1, <1>1 DEF ModulesInv
  <2>2. CASE <<f, p>> \in todo
    BY <2>2, <1>1
  <2> QED BY <2>1, <2>2
<1>7. ASSUME NEW n PROVE \A f \in AddedBy(n) : f <= file
  BY <1>1 DEF AddedBy, ModulesInv
<1>8. ASSUME NEW n \in DOMAIN modules'
      PROVE  SoNamed(n)' # {} /\ IsLastOf(modules'[n], SoNamed(n)')
  <2>1. CASE n \in names
    <3>1. modules'[n] = file /\ SoNamed(n)' = AddedBy(n) \cup {file}
      BY <2>1, <1>1, <1>5 DEF SoNamed
    <3>2. file <= file
      BY <1>4
    <3> QED BY <3>1, <3>2, <1>7 DEF IsLastOf
  <2>2. CASE n \notin names
    <3>1. modules'[n] = modules[n] /\ n \in DOMAIN modules
      BY <2>2, <1>1
    <3>2. SoNamed(n)' = SoNamed(n)
      BY <2>2, <1>3, <1>5 DEF SoNamed
    <3> QED BY <3>1, <3>2 DEF ModulesInv
  <2> QED BY <2>1, <2>2
<1>9. ASSUME NEW n, SoNamed(n)' # {} PROVE n \in DOMAIN modules'
  <2>1. CASE n \in names
    BY <2>1, <1>1
  <2>2. CASE n \notin names
    <3>1. SoNamed(n)' = SoNamed(n)
      BY <2>2, <1>3, <1>5 DEF SoNamed
    <3>2. n \in DOMAIN modules
      BY <3>1, <1>9 DEF ModulesInv
    <3> QED BY <3>2, <1>1
  <2> QED BY <2>1, <2>2
<1>10. todo' \subseteq OfLang("ts")' \X PackageNames'
  BY <1>1, <1>3, <1>4
<1>11. \A f \in OfLang("ts")', p \in PackageNames' :
         <<f, p>> \notin todo' => \A t \in todo' : f <= t[1]
  BY <1>3, <1>6
<1> QED BY <1>8, <1>9, <1>10, <1>11 DEF ModulesInv

\* When every package is added, the table says what each name means.
LEMMA ModuleIsMeant ==
  ASSUME NumFiles \in Nat, ModulesInv, todo = {}, NEW n
  PROVE  Module(n) = Meant(n)
<1>1. AddedBy(n) = NamedInPackage(n)
  BY DEF AddedBy, NamedInPackage
<1>2. Meant(n) = LastOf(SoNamed(n))
  BY <1>1 DEF Meant, SoNamed
<1>3. SoNamed(n) \in SUBSET Int
  BY DEF SoNamed, AddedBy, NamedByPath, OfLang, Files
<1>4. CASE n \in DOMAIN modules
  <2>1. IsLastOf(modules[n], SoNamed(n))
    BY <1>4 DEF ModulesInv
  <2>2. LastOf(SoNamed(n)) = {modules[n]}
    BY <2>1, <1>3, LastIsMax
  <2> QED BY <2>2, <1>2, <1>4 DEF Module
<1>5. CASE n \notin DOMAIN modules
  <2>1. SoNamed(n) = {}
    BY <1>5 DEF ModulesInv
  <2> QED BY <2>1, <1>2, <1>5 DEF Module, LastOf
<1> QED BY <1>4, <1>5

Meaning(f, i) == Meant(IF i.kind = "relative" THEN Joined(Dir(index[f].stem), i) ELSE i.name)

LEMMA ImportIsMeant ==
  ASSUME NumFiles \in Nat, ModulesInv, todo = {}, NEW f \in OfLang("ts"), NEW i
  PROVE  ResolveImport(f, i) = Meaning(f, i)
<1>1. index[f].lang = "ts"
  BY DEF OfLang
<1>2. ResolveImport(f, i) =
        IF i.kind = "relative" THEN Module(Joined(Dir(index[f].stem), i))
                               ELSE Module(i.name)
  BY <1>1 DEF ResolveImport
<1> QED BY <1>2, ModuleIsMeant DEF Meaning

\* An import leads to files of its language, and to one at most unless it is of
\* Go or has a star.
LEMMA ImportKeepsLanguage ==
  ASSUME NumFiles \in Nat, ModulesInv, todo = {}, NEW f \in Files, NEW i
  PROVE  ResolveImport(f, i) \subseteq OfLang(index[f].lang)
<1>1. \A lang : OfLang(lang) \in SUBSET Files
  BY DEF OfLang
<1>2. CASE index[f].lang = "java"
  <2>1. JavaTypes(i.name) \subseteq OfLang("java")
    <3> DEFINE S == {g \in OfLang("java") :
                       /\ index[g].package # <<>>
                       /\ \E type \in index[g].declares : index[g].package \o <<".">> \o type = i.name}
    <3>1. S \in SUBSET Files /\ S \subseteq OfLang("java")
      BY <1>1
    <3>2. JavaTypes(i.name) = LastOf(S)
      BY DEF JavaTypes
    <3> HIDE DEF S
    <3> QED BY <3>1, <3>2, LastOfIsIn
  <2>2. First(JavaPackages(i.name), 8) \subseteq OfLang("java")
    BY DEF First, JavaPackages
  <2>3. ResolveImport(f, i) =
          IF i.kind = "package" THEN First(JavaPackages(i.name), 8) ELSE JavaTypes(i.name)
    BY <1>2 DEF ResolveImport
  <2> QED BY <2>1, <2>2, <2>3, <1>2
<1>3. CASE index[f].lang = "ts"
  <2>1. f \in OfLang("ts")
    BY <1>3 DEF OfLang
  <2>2. \A n : Meant(n) \subseteq OfLang("ts")
    <3> SUFFICES ASSUME NEW n PROVE Meant(n) \subseteq OfLang("ts")
      OBVIOUS
    <3> DEFINE S == IF NamedInPackage(n) # {} THEN NamedInPackage(n) ELSE NamedByPath(n)
    <3>1. S \subseteq OfLang("ts")
      BY DEF NamedInPackage, NamedByPath
    <3>2. Meant(n) = LastOf(S)
      BY DEF Meant
    <3> HIDE DEF S
    <3>3. S \in SUBSET Files
      BY <3>1, <1>1
    <3> QED BY <3>1, <3>2, <3>3, LastOfIsIn
  <2>3. ResolveImport(f, i) = Meaning(f, i)
    BY <2>1, ImportIsMeant
  <2> QED BY <2>2, <2>3, <1>3 DEF Meaning
<1>4. CASE index[f].lang = "pom"
  <2> DEFINE S == {g \in OfLang("pom") : \E a \in index[g].declares : i.name \in {a, <<a[Len(a)]>>}}
  <2>1. S \in SUBSET Files /\ S \subseteq OfLang("pom")
    BY <1>1
  <2>2. ResolveImport(f, i) = LastOf(S)
    BY <1>4 DEF ResolveImport, MavenArtifacts
  <2> HIDE DEF S
  <2> QED BY <2>1, <2>2, <1>4, LastOfIsIn
<1>5. CASE index[f].lang = "go"
  <2> DEFINE D == {d \in {Dir(index[g].stem) : g \in OfLang("go")} : IsSuffix(d, i.name)}
  <2>1. ResolveImport(f, i) = First(UNION {GoPackages(d) : d \in D}, 6)
    BY <1>5 DEF ResolveImport
  <2>2. \A d : GoPackages(d) \subseteq OfLang("go")
    BY DEF GoPackages
  <2> HIDE DEF D
  <2>3. UNION {GoPackages(d) : d \in D} \subseteq OfLang("go")
    BY <2>2
  <2> QED BY <2>1, <2>3, <1>5 DEF First
<1>6. CASE index[f].lang \notin {"java", "ts", "pom", "go"}
  BY <1>6 DEF ResolveImport
<1> QED BY <1>2, <1>3, <1>4, <1>5, <1>6

LEMMA ImportIsOneFile ==
  ASSUME NumFiles \in Nat, NEW f \in OfLang("java") \cup OfLang("pom"), NEW i, i.kind # "package"
  PROVE  \A g, h \in ResolveImport(f, i) : g = h
<1>1. \A lang : OfLang(lang) \in SUBSET Files
  BY DEF OfLang
<1>2. CASE index[f].lang = "java"
  <2> DEFINE S == {g \in OfLang("java") :
                     /\ index[g].package # <<>>
                     /\ \E type \in index[g].declares : index[g].package \o <<".">> \o type = i.name}
  <2>1. S \in SUBSET Files
    BY <1>1
  <2>2. ResolveImport(f, i) = LastOf(S)
    BY <1>2 DEF ResolveImport, JavaTypes
  <2> HIDE DEF S
  <2> QED BY <2>1, <2>2, LastOfIsIn
<1>3. CASE index[f].lang = "pom"
  <2> DEFINE S == {g \in OfLang("pom") : \E a \in index[g].declares : i.name \in {a, <<a[Len(a)]>>}}
  <2>1. S \in SUBSET Files
    BY <1>1
  <2>2. ResolveImport(f, i) = LastOf(S)
    BY <1>3 DEF ResolveImport, MavenArtifacts
  <2> HIDE DEF S
  <2> QED BY <2>1, <2>2, LastOfIsIn
<1> QED BY <1>2, <1>3 DEF OfLang

LEMMA OneFileEach ==
  ASSUME NEW I, IsFiniteSet(I), NEW R, \A i \in I : \A g, h \in R[i] : g = h
  PROVE  Cardinality(UNION {R[i] : i \in I}) <= Cardinality(I)
<1> DEFINE J == {i \in I : R[i] # {}}
           U == UNION {R[i] : i \in I}
           file == [i \in J |-> CHOOSE g \in R[i] : TRUE]
<1>1. \A i \in J : file[i] \in R[i]
  OBVIOUS
<1>2. file \in Surjection(J, U)
  <2>1. file \in [J -> U]
    BY <1>1
  <2>2. \A g \in U : \E i \in J : file[i] = g
    <3> SUFFICES ASSUME NEW i \in I, NEW g \in R[i] PROVE \E j \in J : file[j] = g
      OBVIOUS
    <3>1. i \in J
      OBVIOUS
    <3>2. file[i] \in R[i]
      BY <1>1, <3>1
    <3> QED BY <3>1, <3>2
  <2> HIDE DEF file
  <2> QED BY <2>1, <2>2 DEF Surjection
<1>3. IsFiniteSet(J) /\ Cardinality(J) <= Cardinality(I) /\ Cardinality(J) \in Nat /\ Cardinality(I) \in Nat
  <2>1. J \in SUBSET I
    OBVIOUS
  <2> HIDE DEF J
  <2> QED BY <2>1, FS_Subset, FS_CardinalityType
<1> HIDE DEF J, U, file
<1>4. IsFiniteSet(U) /\ Cardinality(U) <= Cardinality(J)
  BY <1>2, <1>3, FS_Surjection
<1>5. Cardinality(U) \in Nat
  BY <1>4, FS_CardinalityType
<1>6. Cardinality(U) <= Cardinality(I)
  BY <1>3, <1>4, <1>5
<1> QED BY <1>6 DEF U

LEMMA ImportsAreResolved ==
  ASSUME NumFiles \in Nat, ModulesInv, FiniteImports, ResolveImports
  PROVE  ImportsLeadToOneFile'
<1>1. /\ todo = {} /\ index' = index /\ pc' = "seeds"
      /\ \A f \in Files : resolved'[f] = UNION {ResolveImport(f, i) : i \in index[f].imports}
  BY DEF ResolveImports
<1>2. /\ \A lang : OfLang(lang)' = OfLang(lang)
      /\ PackageNames' = PackageNames
      /\ \A p, f : NamesInPackage(p, f)' = NamesInPackage(p, f)
      /\ \A n : NamedByPath(n)' = NamedByPath(n)
  BY <1>1, SameFiles
<1>3. \A n : Meant(n)' = Meant(n)
  <2>1. OfLang("ts")' = OfLang("ts")
    BY <1>2
  <2>2. \A n : NamedInPackage(n)' = NamedInPackage(n)
    BY <2>1, <1>2 DEF NamedInPackage
  <2> QED BY <2>2, <1>2 DEF Meant
<1>4. \A lang : OfLang(lang) \in SUBSET Files
  BY DEF OfLang
<1>5. ASSUME NEW f \in OfLang("ts")
      PROVE  resolved'[f] = UNION {Meaning(f, i) : i \in index[f].imports}
  BY <1>1, <1>4, ImportIsMeant
<1>6. ASSUME NEW f \in Files, NEW g \in resolved'[f]
      PROVE  index[f].lang = index[g].lang
  <2>1. PICK i \in index[f].imports : g \in ResolveImport(f, i)
    BY <1>1
  <2>2. g \in OfLang(index[f].lang)
    BY <1>1, <2>1, ImportKeepsLanguage
  <2> QED BY <2>2 DEF OfLang
<1>7. ASSUME NEW f \in OfLang("java") \cup OfLang("pom"),
             \A i \in index[f].imports : i.kind # "package"
      PROVE  Cardinality(resolved'[f]) <= Cardinality(index[f].imports)
  <2>1. f \in Files
    BY <1>4
  <2>2. \A i \in index[f].imports : \A g, h \in ResolveImport(f, i) : g = h
    BY <1>7, ImportIsOneFile
  <2> DEFINE I == index[f].imports
             R == [i \in I |-> ResolveImport(f, i)]
  <2>3. IsFiniteSet(I)
    BY <2>1 DEF FiniteImports
  <2>4. \A i \in I : \A g, h \in R[i] : g = h
    BY <2>2
  <2>5. resolved'[f] = UNION {R[i] : i \in I}
    BY <1>1, <2>1
  <2> HIDE DEF R, I
  <2>6. Cardinality(UNION {R[i] : i \in I}) <= Cardinality(I)
    BY <2>3, <2>4, OneFileEach
  <2> QED BY <2>5, <2>6 DEF I
<1>8. \A f \in OfLang("ts") :
        resolved'[f] = UNION {Meaning(f, i)' : i \in index[f].imports}
  <2>1. \A f, i : Meaning(f, i)' = Meaning(f, i)
    BY <1>1, <1>3 DEF Meaning
  <2> QED BY <1>5, <2>1
<1>9. OfLang("ts")' = OfLang("ts") /\ OfLang("java")' = OfLang("java")
      /\ OfLang("pom")' = OfLang("pom")
  BY <1>2
<1> QED BY <1>1, <1>6, <1>7, <1>8, <1>9 DEF ImportsLeadToOneFile, Meaning

LEMMA GraphInvNext ==
  ASSUME GraphInv, [RankingNext]_rankingVars
  PROVE  GraphInv'
<1>1. NumFiles \in Nat
  BY FilesAssumption
<1>2. index' = index
  BY DEF RankingNext, BuildLocalGraph, IndexNames, AddPackageTSModules, ResolveImports,
         TopSeedPaths, SkipSeed, BoostRelated, Rank, Done, rankingVars, inputs, graph
<1>3. FiniteImports'
  BY <1>2 DEF GraphInv, FiniteImports, Files
<1>4. CASE IndexNames
  BY <1>1, <1>3, <1>4, TablesAreRight DEF GraphInv, IndexNames, ImportsLeadToOneFile
<1>5. CASE AddPackageTSModules
  <2>1. ModulesInv /\ pc = "packages" /\ pc' = "packages"
    BY <1>5 DEF GraphInv, AddPackageTSModules
  <2>2. ModulesInv'
    BY <1>1, <1>5, <2>1, PackageIsAdded
  <2> QED BY <1>3, <2>1, <2>2 DEF GraphInv, ImportsLeadToOneFile
<1>6. CASE ResolveImports
  <2>1. ModulesInv /\ FiniteImports /\ pc' = "seeds"
    BY <1>6 DEF GraphInv, ResolveImports
  <2>2. ImportsLeadToOneFile'
    BY <1>1, <1>6, <2>1, ImportsAreResolved
  <2> QED BY <1>3, <2>1, <2>2 DEF GraphInv
<1>7. CASE TopSeedPaths \/ SkipSeed \/ BoostRelated \/ Rank
  <2>1. pc' \in {"boost", "done"}
    BY <1>7 DEF TopSeedPaths, SkipSeed, BoostRelated, Rank
  <2> QED BY <1>3, <2>1 DEF GraphInv, ImportsLeadToOneFile
<1>8. CASE UNCHANGED rankingVars
  <2>1. pc' = pc /\ UNCHANGED <<index, modules, todo, resolved>>
    BY <1>8 DEF rankingVars, graph
  <2>2. /\ \A lang : OfLang(lang)' = OfLang(lang)
        /\ PackageNames' = PackageNames
        /\ \A p, f : NamesInPackage(p, f)' = NamesInPackage(p, f)
        /\ \A n : NamedByPath(n)' = NamedByPath(n)
    BY <2>1, SameFiles
  <2>3. OfLang("ts")' = OfLang("ts") /\ OfLang("java")' = OfLang("java")
        /\ OfLang("pom")' = OfLang("pom")
    BY <2>2
  <2>4. \A n : SoNamed(n)' = SoNamed(n)
    BY <2>1, <2>2, <2>3 DEF SoNamed, AddedBy
  <2>5. ModulesInv' <=> ModulesInv
    BY <2>1, <2>2, <2>3, <2>4 DEF ModulesInv
  <2>6. \A n : Meant(n)' = Meant(n)
    BY <2>2, <2>3 DEF Meant, NamedInPackage
  <2>7. ImportsLeadToOneFile' <=> ImportsLeadToOneFile
    BY <2>1, <2>3, <2>6 DEF ImportsLeadToOneFile, Files
  <2> QED BY <1>3, <2>1, <2>5, <2>7 DEF GraphInv
<1> QED BY <1>4, <1>5, <1>6, <1>7, <1>8 DEF RankingNext, BuildLocalGraph, Done

\* Each import leads to the one file that it means, whatever order the packages
\* are joined in.
THEOREM ImportsAreMeant == RankingSpec => []ImportsLeadToOneFile
<1>1. RankingInit => GraphInv
  <2> SUFFICES ASSUME RankingInit PROVE GraphInv
    OBVIOUS
  <2>1. pc = "tables"
    BY DEF RankingInit
  <2>2. FiniteImports
    <3>1. PICK c \in Cases : index = c.index
      BY DEF RankingInit
    <3>2. \A f \in Files : IsFiniteSet(c.index[f].imports)
      BY CasesAssumption
    <3> QED BY <3>1, <3>2 DEF FiniteImports
  <2> QED BY <2>1, <2>2 DEF GraphInv, ImportsLeadToOneFile
<1>2. GraphInv => ImportsLeadToOneFile
  BY DEF GraphInv
<1> QED BY <1>1, <1>2, GraphInvNext, PTL DEF RankingSpec

=============================================================================
