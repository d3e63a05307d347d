----------------------------- MODULE IndexCache -----------------------------
(***************************************************************************)
(* The repository index and its SQLite cache, .ctxpack/index.sqlite.       *)
(*                                                                         *)
(* ctxpack processes run side by side on one work tree that is edited      *)
(* under them.  Each loads the cache, scans the tree, and for every path   *)
(* stats the file, reads it, and either reuses the cached analysis (same   *)
(* size, modification time and token estimate) or parses the text; then it *)
(* replaces the cached rows, statement by statement, in one transaction.   *)
(*                                                                         *)
(* The symbols, imports and flags extracted from a text are represented by *)
(* that text.  A file's language is a function of its path, so a cached    *)
(* row always has the language of the file it is compared with.  A missing *)
(* database, one without tables and one without rows all load as no rows.  *)
(*                                                                         *)
(* Of SQLite, which is not part of the repository, what the code relies on *)
(* is modelled: one writer at a time, statements that change the database  *)
(* file, and a journal of the rows before the first of them, which readers *)
(* are given until the transaction commits and which is played back when   *)
(* it is rolled back or, if its process died, by whoever opens next.       *)
(***************************************************************************)
EXTENDS Integers, Sequences, Functions

CONSTANTS
  Procs,      \* ctxpack processes
  Files,      \* the supported, unignored paths
  Walk,       \* Walk[S]: the paths of S in the order in which repo.Scan lists them
  Contents,   \* what may be written to a file
  Size,       \* Size[c]: bytes of c
  Tokens,     \* Tokens[c]: tokens.Estimate of c
  NoProc,     \* no process holds the database's write lock
  MaxEdits,   \* bound on the number of edits of the work tree
  MaxAborts   \* bound on the number of processes that die or fail

ASSUME WalkAssumption ==
  Walk \in [SUBSET Files -> Seq(Files)] /\ \A S \in SUBSET Files : Range(Walk[S]) = S
ASSUME ContentsAssumption ==
  Size \in [Contents -> Nat] /\ Tokens \in [Contents -> Nat]
ASSUME BoundsAssumption == MaxEdits \in Nat /\ MaxAborts \in Nat
ASSUME NoProcAssumption == NoProc \notin Procs

VARIABLES
  disk,    \* path -> [content, mtime], for the files that exist
  clock,   \* the modification time of the latest edit
  db,      \* path -> row: the rows of the database file, as the statements left them
  journal, \* the rows before an open or interrupted transaction: <<>> or <<rows>>
  lock,    \* the process whose transaction holds the write lock
  pc,      \* what each process does next
  cached,  \* the rows each process loaded
  since,   \* the clock when each process scanned the tree
  todo,    \* the paths each process has still to index or, later, to insert
  info,    \* what os.Stat told each process of the first of them
  idx,     \* path -> the index entry each process built
  aborts

tree == <<disk, clock>>
locals == <<pc, cached, since, todo, info, idx>>
store == <<db, journal, lock>>
vars == <<disk, clock, db, journal, lock, pc, cached, since, todo, info, idx, aborts>>

Version == [content : Contents, mtime : Nat]
Stamp   == [size : Nat, mtime : Nat]
Row     == [size : Nat, mtime : Nat, tokens : Nat, symbols : Contents]
Entry   == [size : Nat, mtime : Nat, tokens : Nat, symbols : Contents, content : Contents]

NoFiles == [f \in {} |-> {}]
NoStamp == [size |-> 0, mtime |-> 0]
Put(fn, f, e) == [g \in DOMAIN fn \cup {f} |-> IF g = f THEN e ELSE fn[g]]
IsPartial(fn, T) == DOMAIN fn \subseteq Files /\ fn \in [DOMAIN fn -> T]
Stages == {"idle", "scan", "stat", "read", "save", "delete", "insert"}

\* What a build without a cache makes of a file.
ColdEntry(v) ==
  [size |-> Size[v.content], mtime |-> v.mtime, tokens |-> Tokens[v.content],
   symbols |-> v.content, content |-> v.content]

ColdIndex == [f \in DOMAIN disk |-> ColdEntry(disk[f])]

\* Mutant: the text of the file is stored too.
MutantRowOf(e) == e

RowOf(e) == [size |-> e.size, mtime |-> e.mtime, tokens |-> e.tokens, symbols |-> e.symbols]
RowsOf(index) == [f \in DOMAIN index |-> RowOf(index[f])]
-----------------------------------------------------------------------------
(* The work tree.                                                           *)

\* Editors, checkouts and generators create, rewrite and remove files; every
\* write is stamped with a new modification time.
Write(f, c) ==
  /\ clock < MaxEdits
  /\ clock' = clock + 1
  /\ disk' = Put(disk, f, [content |-> c, mtime |-> clock'])
  /\ UNCHANGED <<store, locals, aborts>>

Remove(f) ==
  /\ clock < MaxEdits /\ f \in DOMAIN disk
  /\ clock' = clock + 1
  /\ disk' = Restrict(disk, DOMAIN disk \ {f})
  /\ UNCHANGED <<store, locals, aborts>>

Edit == \E f \in Files : Remove(f) \/ \E c \in Contents : Write(f, c)
-----------------------------------------------------------------------------
(* A process: BuildCached, then Save.                                       *)

\* What a reader is given.
Rows == IF journal = <<>> THEN db ELSE journal[1]

\* A transaction is rolled back: the rows before it are written back.
PlayBack == db' = Rows /\ journal' = <<>>

\* Opening a database that no living process writes to plays back the journal
\* of one that died.  While another process writes or plays back, the query
\* may find the database locked; any error loads nothing.
LoadCache(p) ==
  /\ pc[p] = "idle"
  /\ \/ cached' = [cached EXCEPT ![p] = Rows]
     \/ (lock # NoProc \/ journal # <<>>) /\ cached' = [cached EXCEPT ![p] = NoFiles]
  /\ IF lock = NoProc THEN PlayBack ELSE UNCHANGED <<db, journal>>
  /\ pc' = [pc EXCEPT ![p] = "scan"]
  /\ UNCHANGED <<tree, lock, since, todo, info, idx, aborts>>

\* Mutant: an incremental build starts from the loaded rows and never drops one.
MutantScan(p) ==
  /\ pc[p] = "scan"
  /\ todo' = [todo EXCEPT ![p] = Walk[DOMAIN disk]]
  /\ idx' = [idx EXCEPT ![p] = [f \in DOMAIN cached[p] |->
               [size |-> cached[p][f].size, mtime |-> cached[p][f].mtime, tokens |-> cached[p][f].tokens,
                symbols |-> cached[p][f].symbols, content |-> cached[p][f].symbols]]]
  /\ since' = [since EXCEPT ![p] = clock]
  /\ pc' = [pc EXCEPT ![p] = "stat"]
  /\ UNCHANGED <<tree, store, cached, info, aborts>>

Scan(p) ==
  /\ pc[p] = "scan"
  /\ todo' = [todo EXCEPT ![p] = Walk[DOMAIN disk]]
  /\ idx' = [idx EXCEPT ![p] = NoFiles]
  /\ since' = [since EXCEPT ![p] = clock]
  /\ pc' = [pc EXCEPT ![p] = "stat"]
  /\ UNCHANGED <<tree, store, cached, info, aborts>>

Skip(p) ==
  /\ todo' = [todo EXCEPT ![p] = Tail(@)]
  /\ pc' = [pc EXCEPT ![p] = "stat"]
  /\ UNCHANGED <<tree, store, cached, since, info, idx, aborts>>

StatFile(p) ==
  /\ pc[p] = "stat" /\ todo[p] # <<>>
  /\ LET f == Head(todo[p]) IN
     \/ f \notin DOMAIN disk /\ Skip(p)
     \/ /\ f \in DOMAIN disk
        /\ info' = [info EXCEPT ![p] = [size  |-> Size[disk[f].content],
                                        mtime |-> disk[f].mtime]]
        /\ pc' = [pc EXCEPT ![p] = "read"]
        /\ UNCHANGED <<tree, store, cached, since, todo, idx, aborts>>

CacheEntryReusable(row, stamp, tokens) ==
  row.size = stamp.size /\ row.mtime = stamp.mtime /\ row.tokens = tokens

\* Mutant: the file is stamped again after it was read and compared.
MutantIndexEntry(p, f) ==
  LET text  == disk[f].content
      reuse == /\ f \in DOMAIN cached[p]
               /\ CacheEntryReusable(cached[p][f], info[p], Tokens[text])
  IN [size |-> Size[text], mtime |-> disk[f].mtime, tokens |-> Tokens[text],
      symbols |-> IF reuse THEN cached[p][f].symbols ELSE text, content |-> text]

\* The entry has the size and time of os.Stat, the text of the later
\* os.ReadFile, and an analysis of that text unless the row can be reused.
IndexEntry(p, f) ==
  LET text  == disk[f].content
      reuse == /\ f \in DOMAIN cached[p]
               /\ CacheEntryReusable(cached[p][f], info[p], Tokens[text])
  IN [size |-> info[p].size, mtime |-> info[p].mtime, tokens |-> Tokens[text],
      symbols |-> IF reuse THEN cached[p][f].symbols ELSE text, content |-> text]

ReadFile(p) ==
  /\ pc[p] = "read"
  /\ LET f == Head(todo[p]) IN
     \/ f \notin DOMAIN disk /\ Skip(p)
     \/ /\ f \in DOMAIN disk
        /\ idx' = [idx EXCEPT ![p] = Put(@, f, IndexEntry(p, f))]
        /\ todo' = [todo EXCEPT ![p] = Tail(@)]
        /\ pc' = [pc EXCEPT ![p] = "stat"]
        /\ UNCHANGED <<tree, store, cached, since, info, aborts>>

\* BuildCached returns its index; what it loaded and read is forgotten.
Built(p) ==
  /\ pc[p] = "stat" /\ todo[p] = <<>>
  /\ cached' = [cached EXCEPT ![p] = NoFiles]
  /\ info' = [info EXCEPT ![p] = NoStamp]
  /\ pc' = [pc EXCEPT ![p] = "save"]
  /\ UNCHANGED <<tree, store, since, todo, idx, aborts>>

\* The command is over, and its variables with it.
Exit(p) ==
  /\ pc' = [pc EXCEPT ![p] = "idle"]
  /\ cached' = [cached EXCEPT ![p] = NoFiles]
  /\ since' = [since EXCEPT ![p] = 0]
  /\ todo' = [todo EXCEPT ![p] = <<>>]
  /\ info' = [info EXCEPT ![p] = NoStamp]
  /\ idx' = [idx EXCEPT ![p] = NoFiles]

\* The first DELETE, of the table meta, takes the write lock after a journal
\* left by a dead process was played back.
BeginSave(p) ==
  /\ pc[p] = "save" /\ lock = NoProc
  /\ lock' = p
  /\ db' = Rows /\ journal' = <<Rows>>
  /\ pc' = [pc EXCEPT ![p] = "delete"]
  /\ UNCHANGED <<tree, cached, since, todo, info, idx, aborts>>

\* There is no busy timeout: a process that finds the lock taken gives up at
\* once and its command fails.
SaveBusy(p) ==
  /\ pc[p] = "save" /\ lock # NoProc
  /\ Exit(p)
  /\ UNCHANGED <<tree, store, aborts>>

\* Mutant: rows are inserted or replaced, and never deleted.
MutantDeleteRows(p) ==
  /\ pc[p] = "delete"
  /\ todo' = [todo EXCEPT ![p] = Walk[DOMAIN idx[p]]]
  /\ pc' = [pc EXCEPT ![p] = "insert"]
  /\ UNCHANGED <<tree, store, cached, since, info, idx, aborts>>

DeleteRows(p) ==
  /\ pc[p] = "delete"
  /\ db' = NoFiles
  /\ todo' = [todo EXCEPT ![p] = Walk[DOMAIN idx[p]]]
  /\ pc' = [pc EXCEPT ![p] = "insert"]
  /\ UNCHANGED <<tree, journal, lock, cached, since, info, idx, aborts>>

InsertRow(p) ==
  /\ pc[p] = "insert" /\ todo[p] # <<>>
  /\ LET f == Head(todo[p]) IN db' = Put(db, f, RowOf(idx[p][f]))
  /\ todo' = [todo EXCEPT ![p] = Tail(@)]
  /\ UNCHANGED <<tree, journal, lock, pc, cached, since, info, idx, aborts>>

Commit(p) ==
  /\ pc[p] = "insert" /\ todo[p] = <<>>
  /\ journal' = <<>>
  /\ lock' = NoProc
  /\ Exit(p)
  /\ UNCHANGED <<tree, db, aborts>>

\* Mutant: the deferred call commits what the statements have done so far.
MutantFail(p) ==
  /\ pc[p] # "idle" /\ aborts < MaxAborts
  /\ aborts' = aborts + 1
  /\ IF lock = p THEN journal' = <<>> /\ lock' = NoProc ELSE UNCHANGED <<journal, lock>>
  /\ Exit(p)
  /\ UNCHANGED <<tree, db>>

\* The scan, a statement or the commit returns an error: the deferred
\* Rollback undoes what the statements did, and the command fails.
Fail(p) ==
  /\ pc[p] # "idle" /\ aborts < MaxAborts
  /\ aborts' = aborts + 1
  /\ IF lock = p THEN PlayBack /\ lock' = NoProc ELSE UNCHANGED store
  /\ Exit(p)
  /\ UNCHANGED tree

\* A process dies: its lock is gone with it, its journal and the rows that its
\* statements left in the file are not.
Die(p) ==
  /\ pc[p] # "idle" /\ aborts < MaxAborts
  /\ aborts' = aborts + 1
  /\ lock' = IF lock = p THEN NoProc ELSE lock
  /\ Exit(p)
  /\ UNCHANGED <<tree, db, journal>>

Step(p) ==
  \/ LoadCache(p) \/ Scan(p) \/ StatFile(p) \/ ReadFile(p) \/ Built(p)
  \/ BeginSave(p) \/ SaveBusy(p) \/ DeleteRows(p) \/ InsertRow(p) \/ Commit(p)
-----------------------------------------------------------------------------
Init ==
  /\ \E S \in SUBSET Files : disk \in [S -> [content : Contents, mtime : {0}]]
  /\ clock = 0
  /\ db = NoFiles
  /\ journal = <<>>
  /\ lock = NoProc
  /\ pc = [p \in Procs |-> "idle"]
  /\ cached = [p \in Procs |-> NoFiles]
  /\ since = [p \in Procs |-> 0]
  /\ todo = [p \in Procs |-> <<>>]
  /\ info = [p \in Procs |-> NoStamp]
  /\ idx = [p \in Procs |-> NoFiles]
  /\ aborts = 0

Next == Edit \/ \E p \in Procs : Step(p) \/ Fail(p) \/ Die(p)

Spec == Init /\ [][Next]_vars

\* A started command runs on, and commands keep being started.
FairSpec == Spec /\ \A p \in Procs : WF_vars(Step(p))
-----------------------------------------------------------------------------
(* Properties.                                                              *)

TypeOK ==
  /\ IsPartial(disk, Version)
  /\ clock \in Nat
  /\ IsPartial(db, Row)
  /\ Len(journal) \in {0, 1} /\ IsPartial(Rows, Row)
  /\ lock \in Procs \cup {NoProc}
  /\ pc \in [Procs -> Stages]
  /\ DOMAIN cached = Procs /\ \A p \in Procs : IsPartial(cached[p], Row)
  /\ since \in [Procs -> Nat]
  /\ todo \in [Procs -> Seq(Files)]
  /\ info \in [Procs -> Stamp]
  /\ DOMAIN idx = Procs /\ \A p \in Procs : IsPartial(idx[p], Entry)
  /\ aborts \in Nat

\* The cache never vouches for an analysis of another text: a row that carries
\* the modification time of the file on disk holds the analysis of that file,
\* whatever edits, failures and slower processes came in between.
RowsFresh ==
  \A f \in DOMAIN Rows \cap DOMAIN disk :
    Rows[f].mtime = disk[f].mtime => Rows[f].symbols = disk[f].content

\* A build during which nobody edits the tree yields, with any cache, exactly
\* what a build without a cache yields.
CacheTransparent ==
  \A p \in Procs :
    pc[p] \in {"save", "delete", "insert"} /\ since[p] = clock => idx[p] = ColdIndex

\* However a save ends, and whoever opens the database then, readers are given
\* the rows of before it or the rows of every file that its process indexed,
\* the latter only by its commit: never rows of two saves, or of half a one.
ReplacedWhole ==
  [][Rows' # Rows => \E p \in Procs : pc[p] = "insert" /\ pc'[p] = "idle" /\ Rows' = RowsOf(idx[p])]_vars

\* When edits and failures end, the cache ends up describing the tree for good.
EventuallyFresh == <>[](Rows = RowsOf(ColdIndex))
=============================================================================
