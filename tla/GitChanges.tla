----------------------------- MODULE GitChanges -----------------------------
(***************************************************************************)
(* rank.ChangedFilesDetailed: which files does a diff pack talk about?     *)
(*                                                                         *)
(* Nine git commands run one after another: git diff --name-status for     *)
(* four pairs of trees, git diff --numstat for the same pairs, and git     *)
(* ls-files --others.  Each may fail, and between any two of them the user *)
(* may go on editing, staging, committing, renaming and fetching.  What    *)
(* the commands answer is merged path by path.                             *)
(*                                                                         *)
(* A path is a directory and a name; deeper directories are not modelled.  *)
(* A text is the set of its lines.                                         *)
(***************************************************************************)
EXTENDS Integers, Sequences, FiniteSets, FiniteSetsExt, Functions

CONSTANTS
  Paths,        \* the paths that may exist, [dir, name]
  Texts,        \* what a file may hold: sets of lines
  FirstTrees,   \* the trees the repository may start from
  NoFile,       \* no file at a path
  MaxEdits,     \* bound on what the user does to the repository
  MaxFailures   \* bound on git commands that fail for reasons of their own

Trees == [Paths -> Texts \cup {NoFile}]

\* The directory of a file that is in none.
Root == "."

\* What a change has where the code has an empty string: no status, and no old
\* path if it is no rename.
NoStatus == "none"
NoPath   == [dir |-> Root, name |-> "none"]

ASSUME PathsAssumption ==
  IsFiniteSet(Paths) /\ Paths \subseteq [dir : STRING, name : STRING] \ {NoPath}
ASSUME TextsAssumption == NoFile \notin Texts /\ \A t \in Texts : IsFiniteSet(t)
ASSUME TreesAssumption == FirstTrees \subseteq Trees
ASSUME BoundsAssumption == MaxEdits \in Nat /\ MaxFailures \in Nat

VARIABLES
  fork,      \* the merge base of the base branch and HEAD
  base,      \* the tip of the base branch
  head,      \* HEAD
  staged,    \* git's index
  work,      \* the work tree
  baseKnown, \* whether git can resolve the base ref
  edits,     \* the user's operations so far
  quiet,     \* whether they have done nothing since the first command ran
  touched,   \* the paths they changed since then
  step,      \* the next command, then 10 and 11
  failed,    \* the commands that failed
  renames,   \* the renames git has reported, <<old path, path>>
  byPath     \* path -> the change gathered for it

repo == <<fork, base, head, staged, work, baseKnown, edits>>
vars == <<fork, base, head, staged, work, baseKnown, edits, quiet, touched, step, failed, renames, byPath>>
-----------------------------------------------------------------------------
(* Git.                                                                     *)

MutantSources == <<"base...HEAD", "staged", "staged", "unstaged">>  \* no comparison with base

\* The four comparisons: base...HEAD, base, staged and unstaged.
Sources == <<"base...HEAD", "base", "staged", "unstaged">>
SourceOf(s) == Sources[((s - 1) % 4) + 1]

\* Comparisons with the work tree see only what the index tracks.
Tracked == [p \in Paths |-> IF staged[p] = NoFile THEN NoFile ELSE work[p]]

OldTree(source) ==
  CASE source = "base...HEAD" -> fork
    [] source = "base"        -> base
    [] source = "staged"      -> head
    [] source = "unstaged"    -> staged

NewTree(source) ==
  CASE source = "base...HEAD" -> head
    [] source = "base"        -> Tracked
    [] source = "staged"      -> staged
    [] source = "unstaged"    -> Tracked

Deleted(old, new) == {p \in Paths : old[p] # NoFile /\ new[p] = NoFile}
Added(old, new)   == {p \in Paths : old[p] = NoFile /\ new[p] # NoFile}
Modified(old, new) ==
  {p \in Paths : old[p] # NoFile /\ new[p] # NoFile /\ old[p] # new[p]}

Similar(s, t) == 2 * Cardinality(s \cap t) >= Max({Cardinality(s), Cardinality(t)})

\* Rename detection pairs deleted with added files of similar text, each once.
Renames(old, new) ==
  LET pairs == {pq \in Deleted(old, new) \X Added(old, new) : Similar(old[pq[1]], new[pq[2]])}
      oneToOne(R) == \A x, y \in R : x # y => x[1] # y[1] /\ x[2] # y[2]
  IN CHOOSE R \in SUBSET pairs :
       oneToOne(R) /\ \A S \in SUBSET pairs : oneToOne(S) => Cardinality(S) <= Cardinality(R)

Untracked == {p \in Paths : staged[p] = NoFile /\ work[p] # NoFile}

\* numstat writes a rename with braces around the part that differs if the
\* directory or the name is common: "{src => lib}/a.go", "src/{a.go => b.go}".
Braced(p, q) == (p.dir = q.dir /\ p.dir # Root) \/ (p.name = q.name /\ p.dir # Root /\ q.dir # Root)
-----------------------------------------------------------------------------
(* Parsing and merging.                                                     *)

Change(p, old, status, adds, dels, source) ==
  [path |-> p, oldPath |-> old, status |-> status, additions |-> adds, deletions |-> dels,
   sources |-> {source}]

\* The lines of git diff --name-status, parsed.
ParseNameStatus(source) ==
  LET old == OldTree(source)
      new == NewTree(source)
      R   == Renames(old, new)
  IN {Change(r[2], r[1], "renamed", 0, 0, source) : r \in R}
     \cup {Change(p, NoPath, "added", 0, 0, source) : p \in Added(old, new) \ {r[2] : r \in R}}
     \cup {Change(p, NoPath, "deleted", 0, 0, source) : p \in Deleted(old, new) \ {r[1] : r \in R}}
     \cup {Change(p, NoPath, "modified", 0, 0, source) : p \in Modified(old, new)}

\* Of a braced rename only what follows the directory is kept.
NormalizeNumstatPath(p, q) == IF Braced(p, q) THEN [dir |-> Root, name |-> q.name] ELSE q

LinesOf(t) == IF t = NoFile THEN {} ELSE t

Stat(p, s, t, source) ==
  Change(p, NoPath, NoStatus, Cardinality(LinesOf(t) \ LinesOf(s)), Cardinality(LinesOf(s) \ LinesOf(t)),
         source)

\* The lines of git diff --numstat, parsed; they carry no status.
ParseNumstat(source) ==
  LET old == OldTree(source)
      new == NewTree(source)
      R   == Renames(old, new)
      single == (Added(old, new) \ {r[2] : r \in R}) \cup (Deleted(old, new) \ {r[1] : r \in R})
                \cup Modified(old, new)
  IN {Stat(NormalizeNumstatPath(r[1], r[2]), old[r[1]], new[r[2]], source) : r \in R}
     \cup {Stat(p, old[p], new[p], source) : p \in single}

UntrackedChanges ==
  {Change(p, NoPath, "untracked", Cardinality(work[p]), 0, "untracked") : p \in Untracked}

IsCtxpackArtifact(p) == p.dir = ".ctxpack"

MutantMergeChangedFile(change, file) ==  \* the latest status wins
  [file EXCEPT !.status    = IF change.status = NoStatus THEN @ ELSE change.status,
               !.oldPath   = IF @ = NoPath THEN change.oldPath ELSE @,
               !.additions = Max({@, change.additions}),
               !.deletions = Max({@, change.deletions}),
               !.sources   = @ \cup change.sources]

\* Of two changes of a file, the first to give it a status or an old path
\* decides it; the largest line counts win.
MergeChangedFile(change, file) ==
  [file EXCEPT !.status    = IF @ = NoStatus THEN change.status ELSE @,
               !.oldPath   = IF @ = NoPath THEN change.oldPath ELSE @,
               !.additions = Max({@, change.additions}),
               !.deletions = Max({@, change.deletions}),
               !.sources   = @ \cup change.sources]

\* What no command has said anything about yet; merged into it, a change stays
\* what it is.
Unchanged(p) ==
  [path |-> p, oldPath |-> NoPath, status |-> NoStatus, additions |-> 0, deletions |-> 0, sources |-> {}]

Merged(file, changes) == FoldSet(MergeChangedFile, file, changes)

\* The changes that one command reports of a path, merged in any order: at most
\* one of them has a status and an old path.
MergeAll(changes) ==
  LET found == {c \in changes : ~IsCtxpackArtifact(c.path)}
      before(p) == IF p \in DOMAIN byPath THEN byPath[p] ELSE Unchanged(p)
  IN  [p \in DOMAIN byPath \cup {c.path : c \in found} |->
         Merged(before(p), {c \in found : c.path = p})]
-----------------------------------------------------------------------------
(* ChangedFilesDetailed.                                                    *)

Succeed(changes) ==
  /\ byPath' = MergeAll(changes)
  /\ step' = step + 1
  /\ renames' = renames \cup {<<c.oldPath, c.path>> : c \in {x \in changes : x.oldPath # NoPath}}
  /\ UNCHANGED <<repo, quiet, touched, failed>>

NeedsBase(s) == s <= 8 /\ SourceOf(s) \in {"base...HEAD", "base"}
Answers(s) == baseKnown \/ ~NeedsBase(s)

DiffNameStatus == step \in 1 .. 4 /\ Answers(step) /\ Succeed(ParseNameStatus(SourceOf(step)))

\* The code merges the statistics after the last of the four commands; nothing
\* looks at byPath in between.
DiffNumstat == step \in 5 .. 8 /\ Answers(step) /\ Succeed(ParseNumstat(SourceOf(step)))

LsFilesOthers == step = 9 /\ Succeed(UntrackedChanges)

\* The command's answer is lost, its error remembered, and the rest still run.
CommandFails ==
  /\ step \in 1 .. 9
  /\ ~Answers(step) \/ Cardinality(failed) < MaxFailures
  /\ failed' = failed \cup {step}
  /\ step' = step + 1
  /\ UNCHANGED <<repo, quiet, touched, renames, byPath>>

ReturnsError == DOMAIN byPath = {} /\ failed # {}

Return ==
  /\ step = 10
  /\ step' = 11
  /\ UNCHANGED <<repo, quiet, touched, failed, renames, byPath>>

Returned == step = 11 /\ UNCHANGED vars
-----------------------------------------------------------------------------
(* The user.                                                                *)

Edits(S) ==
  /\ edits < MaxEdits /\ step <= 9
  /\ edits' = edits + 1
  /\ quiet' = (quiet /\ step = 1)
  /\ touched' = IF step = 1 THEN touched ELSE touched \cup S
  /\ UNCHANGED <<fork, baseKnown, step, failed, renames, byPath>>

Write(p, t) ==
  /\ Edits({p})
  /\ work' = [work EXCEPT ![p] = t]
  /\ UNCHANGED <<base, head, staged>>

\* git add, of a new, changed or removed file.
Add(p) ==
  /\ Edits({p})
  /\ staged' = [staged EXCEPT ![p] = work[p]]
  /\ UNCHANGED <<base, head, work>>

\* git mv: on disk and in the index.
Move(p, q) ==
  /\ staged[p] # NoFile /\ work[p] # NoFile /\ staged[q] = NoFile /\ work[q] = NoFile
  /\ Edits({p, q})
  /\ work' = [work EXCEPT ![p] = NoFile, ![q] = work[p]]
  /\ staged' = [staged EXCEPT ![p] = NoFile, ![q] = staged[p]]
  /\ UNCHANGED <<base, head>>

Commit ==
  /\ Edits({})
  /\ head' = staged
  /\ UNCHANGED <<base, staged, work>>

\* git fetch: the base branch got ahead of the merge base.
Fetch(p, t) ==
  /\ Edits({p})
  /\ base' = [base EXCEPT ![p] = t]
  /\ UNCHANGED <<head, staged, work>>

UserActs ==
  \/ Commit
  \/ \E p \in Paths : \/ Add(p)
                      \/ \E q \in Paths : Move(p, q)
                      \/ \E t \in Texts \cup {NoFile} : Write(p, t) \/ Fetch(p, t)
-----------------------------------------------------------------------------
Init ==
  /\ fork \in FirstTrees
  /\ base = fork /\ head = fork /\ staged = fork /\ work = fork
  /\ baseKnown \in BOOLEAN
  /\ edits = 0
  /\ quiet = TRUE
  /\ touched = {}
  /\ step = 1
  /\ failed = {}
  /\ renames = {}
  /\ byPath = [p \in {} |-> {}]

Next ==
  \/ DiffNameStatus \/ DiffNumstat \/ LsFilesOthers \/ CommandFails \/ Return \/ Returned
  \/ UserActs

Spec == Init /\ [][Next]_vars
-----------------------------------------------------------------------------
(* Properties.                                                              *)

Reports(T) ==
  [oldPath : Paths \cup {NoPath}, additions : Nat, deletions : Nat,
   status : {NoStatus, "renamed", "added", "deleted", "modified", "untracked"},
   sources : (SUBSET (Range(Sources) \cup {"untracked"})) \ {{}}, path : T]

TypeOK ==
  /\ {fork, base, head, staged, work} \subseteq Trees
  /\ baseKnown \in BOOLEAN /\ quiet \in BOOLEAN
  /\ edits \in 0 .. MaxEdits
  /\ touched \subseteq Paths
  /\ step \in 1 .. 11
  /\ failed \subseteq 1 .. 9
  /\ renames \subseteq Paths \X Paths
  /\ \A p \in DOMAIN byPath : byPath[p] \in Reports({p})

\* However the user's operations interleave with the commands, a file that they
\* leave alone and that differs from the base is reported, under its path or as
\* what a reported file was renamed from; of the nine commands only the two that
\* look at the work tree and the untracked files are needed for it, the others
\* may fail.  The exceptions: a file moved into
\* .ctxpack disappears, and one renamed from different paths in different
\* comparisons remembers the first only.
Reported(p) ==
  \/ p \in DOMAIN byPath
  \/ \E q \in DOMAIN byPath : byPath[q].oldPath = p

OldPathForgotten(p) ==
  \E r \in renames : r[1] = p /\ (IsCtxpackArtifact(r[2]) \/ byPath[r[2]].oldPath # p)

NoSteadyChangeMissed ==
  step = 11 /\ ~ReturnsError /\ failed \cap {2, 9} = {} =>
    \A p \in Paths \ touched :
      work[p] # base[p] /\ ~IsCtxpackArtifact(p) => Reported(p) \/ OldPathForgotten(p)

\* If nobody touches the repository meanwhile and no rename is written with
\* braces, the answer is exactly the differences between the trees: each path
\* has the status the first comparison gives it, and its largest line counts.
StatusIn(p, source) ==
  LET old == OldTree(source)
      new == NewTree(source)
  IN CASE \E r \in Renames(old, new) : r[2] = p -> "renamed"
       [] \E r \in Renames(old, new) : r[1] = p -> NoStatus
       [] OTHER -> IF old[p] = new[p] THEN NoStatus
                   ELSE IF old[p] = NoFile THEN "added"
                   ELSE IF new[p] = NoFile THEN "deleted" ELSE "modified"

FirstStatus(p) ==
  LET known == {k \in DOMAIN Sources : StatusIn(p, Sources[k]) # NoStatus}
  IN IF known # {} THEN StatusIn(p, Sources[Min(known)])
     ELSE IF p \in Untracked THEN "untracked" ELSE NoStatus

NewLines(p, source) ==
  LET old == OldTree(source)
      new == NewTree(source)
      from == IF \E r \in Renames(old, new) : r[2] = p
              THEN old[(CHOOSE r \in Renames(old, new) : r[2] = p)[1]] ELSE old[p]
  IN IF StatusIn(p, source) = NoStatus THEN 0 ELSE Cardinality(LinesOf(new[p]) \ LinesOf(from))

Additions(p) ==
  Max({NewLines(p, Sources[k]) : k \in DOMAIN Sources}
      \cup {IF p \in Untracked THEN Cardinality(work[p]) ELSE 0})

NoBraces ==
  \A k \in DOMAIN Sources :
    \A r \in Renames(OldTree(Sources[k]), NewTree(Sources[k])) : ~Braced(r[1], r[2])

QuietAnswerIsExact ==
  step = 11 /\ quiet /\ failed = {} /\ NoBraces =>
    /\ DOMAIN byPath = {p \in Paths : ~IsCtxpackArtifact(p) /\ FirstStatus(p) # NoStatus}
    /\ \A p \in DOMAIN byPath : /\ byPath[p].status = FirstStatus(p)
                               /\ byPath[p].additions = Additions(p)

\* The summary's schema allows a reported file no empty status.  It may have
\* one: see the run "brace_rename".
EveryStatusKnown ==
  step = 11 /\ quiet /\ failed = {} => \A p \in DOMAIN byPath : byPath[p].status # NoStatus
=============================================================================
