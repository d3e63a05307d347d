-------------------------- MODULE IndexCache_proofs -------------------------
(***************************************************************************)
(* What the index cache guarantees for any number of processes, files,     *)
(* texts, edits and failures.                                              *)
(***************************************************************************)
EXTENDS IndexCache, TLAPS

-----------------------------------------------------------------------------
(* The inductive invariant.                                                 *)

\* Nothing anyone remembers of a file is younger than the latest edit, so the
\* next write of a file makes every memory of it recognisably old.
Ages ==
  /\ \A f \in DOMAIN disk : disk[f].mtime <= clock
  /\ \A f \in DOMAIN Rows : Rows[f].mtime <= clock
  /\ \A p \in Procs :
       /\ since[p] <= clock /\ info[p].mtime <= clock
       /\ \A f \in DOMAIN cached[p] : cached[p][f].mtime <= clock
       /\ \A f \in DOMAIN idx[p] : idx[p][f].mtime <= clock

\* Whatever carries the modification time of the file on disk has its analysis.
Vouched(rows) ==
  \A f \in DOMAIN rows \cap DOMAIN disk :
    rows[f].mtime = disk[f].mtime => rows[f].symbols = disk[f].content

AllVouched ==
  /\ Vouched(Rows)
  /\ \A p \in Procs : Vouched(cached[p]) /\ Vouched(idx[p])

\* A file is pending while it is being read; nothing is pending once built,
\* and then only what was built.
Queued ==
  \A p \in Procs :
    /\ pc[p] = "read" => todo[p] # <<>>
    /\ pc[p] \in {"save", "delete"} => todo[p] = <<>>
    /\ pc[p] = "insert" => Range(todo[p]) \subseteq DOMAIN idx[p]

StampOf(v) == [size |-> Size[v.content], mtime |-> v.mtime]

\* As long as nobody edits the tree, a build has indexed each file as it is, or
\* still has it pending.
Tracks(p) ==
  pc[p] \in {"stat", "read", "save", "delete", "insert"} /\ since[p] = clock =>
    /\ DOMAIN idx[p] \cup Range(todo[p]) = DOMAIN disk
    /\ \A f \in DOMAIN idx[p] : idx[p][f] = ColdEntry(disk[f])
    /\ pc[p] = "read" => info[p] = StampOf(disk[Head(todo[p])])

\* Whoever is between the first DELETE and the commit, and nobody else, holds
\* the lock, and a journal; what it has inserted is what it had not to insert
\* any more.
InTransaction ==
  /\ \A p \in Procs : lock = p <=> pc[p] \in {"delete", "insert"}
  /\ lock # NoProc => journal # <<>>
  /\ \A p \in Procs : pc[p] = "insert" =>
       /\ DOMAIN db \cup Range(todo[p]) = DOMAIN idx[p]
       /\ \A f \in DOMAIN db : db[f] = RowOf(idx[p][f])

IInv ==
  /\ TypeOK
  /\ Ages
  /\ AllVouched
  /\ Queued
  /\ InTransaction
  /\ \A p \in Procs : Tracks(p)
-----------------------------------------------------------------------------
(* Facts about the operators.                                               *)

\* Recording one more file leaves the others alone.
LEMMA PutFacts ==
  ASSUME NEW T, NEW fn, IsPartial(fn, T), NEW f \in Files, NEW e \in T
  PROVE  /\ IsPartial(Put(fn, f, e), T)
         /\ DOMAIN Put(fn, f, e) = DOMAIN fn \cup {f}
         /\ Put(fn, f, e)[f] = e
         /\ \A g \in DOMAIN fn : g # f => Put(fn, f, e)[g] = fn[g]
BY DEF Put, IsPartial

\* The values of a partial map are of its type.
LEMMA PartialFacts ==
  ASSUME NEW T, NEW fn, IsPartial(fn, T), NEW f \in DOMAIN fn
  PROVE  f \in Files /\ fn[f] \in T
BY DEF IsPartial

\* Forgetting every file of a partial map leaves a partial map.
LEMMA NoFilesFacts ==
  ASSUME NEW T
  PROVE  DOMAIN NoFiles = {} /\ IsPartial(NoFiles, T)
BY DEF NoFiles, IsPartial

\* A nonempty list of files is its head and its tail.
LEMMA TailFacts ==
  ASSUME NEW s \in Seq(Files), s # <<>>
  PROVE  /\ Head(s) \in Files
         /\ Tail(s) \in Seq(Files)
         /\ Range(s) = {Head(s)} \cup Range(Tail(s))
<1>1. Head(s) \in Files /\ Tail(s) \in Seq(Files) /\ Len(s) \in Nat \ {0} /\ Head(s) = s[1]
  OBVIOUS
<1>2. Len(Tail(s)) = Len(s) - 1 /\ DOMAIN s = 1 .. Len(s) /\ DOMAIN Tail(s) = 1 .. Len(s) - 1
  BY <1>1
<1>3. \A k \in DOMAIN Tail(s) : k + 1 \in DOMAIN s /\ Tail(s)[k] = s[k + 1]
  BY <1>1, <1>2
<1>4. Range(s) \subseteq {Head(s)} \cup Range(Tail(s))
  <2> SUFFICES ASSUME NEW k \in DOMAIN s, k # 1
               PROVE  s[k] \in Range(Tail(s))
    BY <1>1 DEF Range
  <2>1. k - 1 \in DOMAIN Tail(s) /\ Tail(s)[k - 1] = s[k]
    BY <1>2, <1>3
  <2> QED BY <2>1 DEF Range
<1>5. {Head(s)} \cup Range(Tail(s)) \subseteq Range(s)
  BY <1>1, <1>2, <1>3 DEF Range
<1> QED BY <1>1, <1>4, <1>5

\* A build without a cache makes an entry of the file's own text and stamp.
LEMMA ColdEntryFacts ==
  ASSUME NEW v \in Version
  PROVE  /\ ColdEntry(v) \in Entry
         /\ StampOf(v) \in Stamp
         /\ StampOf(v).mtime = v.mtime
BY ContentsAssumption DEF Version, ColdEntry, Entry, Stamp, StampOf

\* The entry of a file has the stamp given and, if that is the file's, the
\* analysis of its text: a row is reused only under its own stamp.
LEMMA IndexEntryFacts ==
  ASSUME TypeOK, NEW p \in Procs, NEW f \in DOMAIN disk, Vouched(cached[p])
  PROVE  /\ IndexEntry(p, f) \in Entry
         /\ IndexEntry(p, f).mtime = info[p].mtime
         /\ info[p].mtime = disk[f].mtime => IndexEntry(p, f).symbols = disk[f].content
         /\ info[p] = StampOf(disk[f]) => IndexEntry(p, f) = ColdEntry(disk[f])
<1> DEFINE text  == disk[f].content
           reuse == /\ f \in DOMAIN cached[p]
                    /\ CacheEntryReusable(cached[p][f], info[p], Tokens[text])
<1>1. disk[f] \in Version /\ info[p] \in Stamp /\ IsPartial(cached[p], Row)
  BY PartialFacts DEF TypeOK
<1>2. text \in Contents /\ Tokens[text] \in Nat
  BY <1>1, ContentsAssumption DEF Version
<1>3. reuse => cached[p][f] \in Row /\ cached[p][f].mtime = info[p].mtime
  BY <1>1, PartialFacts DEF CacheEntryReusable
<1>4. IndexEntry(p, f) = [size |-> info[p].size, mtime |-> info[p].mtime,
                          tokens |-> Tokens[text],
                          symbols |-> IF reuse THEN cached[p][f].symbols ELSE text,
                          content |-> text]
  BY DEF IndexEntry
<1>5. reuse => cached[p][f].symbols \in Contents
  BY <1>3 DEF Row
<1>6. IndexEntry(p, f) \in Entry
  BY <1>1, <1>2, <1>4, <1>5 DEF Entry, Stamp
<1>7. info[p].mtime = disk[f].mtime => IndexEntry(p, f).symbols = text
  BY <1>3, <1>4 DEF Vouched
<1>8. info[p] = StampOf(disk[f]) => IndexEntry(p, f) = ColdEntry(disk[f])
  BY <1>4, <1>7 DEF StampOf, ColdEntry
<1> QED BY <1>4, <1>6, <1>7, <1>8

\* The rows of an index have the stamps and analyses of its entries.
LEMMA RowsOfFacts ==
  ASSUME NEW index, IsPartial(index, Entry)
  PROVE  /\ IsPartial(RowsOf(index), Row)
         /\ DOMAIN RowsOf(index) = DOMAIN index
         /\ \A f \in DOMAIN index : /\ RowsOf(index)[f].mtime = index[f].mtime
                                    /\ RowsOf(index)[f].symbols = index[f].symbols
BY DEF IsPartial, RowsOf, RowOf, Row, Entry

\* An entry's row is a row.
LEMMA RowOfFacts ==
  ASSUME NEW e \in Entry
  PROVE  RowOf(e) \in Row
BY DEF RowOf, Row, Entry

\* Nothing is in the empty list.
LEMMA EmptyFacts == Range(<<>>) = {}
BY DEF Range

\* Neither opening a transaction nor a statement in it nor a rollback changes
\* what readers are given.
LEMMA RowsKept ==
  ASSUME \/ UNCHANGED <<db, journal>>
         \/ journal' = <<Rows>>
         \/ PlayBack
         \/ journal # <<>> /\ journal' = journal
  PROVE  Rows' = Rows
BY DEF Rows, PlayBack

\* A step of a process outside a transaction disturbs nobody's transaction.
LEMMA OutsideTransaction ==
  ASSUME InTransaction, NEW p \in Procs,
         pc[p] \notin {"delete", "insert"}, pc'[p] \notin {"delete", "insert"},
         lock' = lock,
         UNCHANGED <<db, journal>> \/ (lock = NoProc /\ PlayBack),
         \A q \in Procs : q # p => pc'[q] = pc[q] /\ idx'[q] = idx[q] /\ todo'[q] = todo[q]
  PROVE  InTransaction'
<1>1. \A q \in Procs : lock' = q <=> pc'[q] \in {"delete", "insert"}
  BY DEF InTransaction
<1>2. lock' # NoProc => journal' # <<>>
  BY DEF InTransaction
<1>3. ASSUME NEW q \in Procs, pc'[q] = "insert"
      PROVE  /\ DOMAIN db' \cup Range(todo'[q]) = DOMAIN idx'[q]
             /\ \A f \in DOMAIN db' : db'[f] = RowOf(idx'[q][f])
  <2>1. q # p /\ pc[q] = "insert" /\ lock = q
    BY <1>3 DEF InTransaction
  <2>2. UNCHANGED <<db, journal>> /\ idx'[q] = idx[q] /\ todo'[q] = todo[q]
    BY <2>1, NoProcAssumption
  <2> QED BY <2>1, <2>2 DEF InTransaction
<1> QED BY <1>1, <1>2, <1>3 DEF InTransaction
-----------------------------------------------------------------------------
(* The inductive invariant holds initially and is preserved by each action. *)

LEMMA InitIInv == Init => IInv
<1> SUFFICES ASSUME Init PROVE IInv
  OBVIOUS
<1>1. IsPartial(disk, Version) /\ \A f \in DOMAIN disk : disk[f].mtime = 0
  BY DEF Init, IsPartial, Version
<1>2. /\ Rows = db /\ DOMAIN db = {} /\ IsPartial(db, Row)
      /\ \A p \in Procs : /\ DOMAIN cached[p] = {} /\ IsPartial(cached[p], Row)
                          /\ DOMAIN idx[p] = {} /\ IsPartial(idx[p], Entry)
  BY NoFilesFacts DEF Init, Rows
<1>3. TypeOK
  BY <1>1, <1>2 DEF TypeOK, Init, Stages, Stamp, NoStamp
<1>4. Ages
  BY <1>1, <1>2 DEF Ages, Init, NoStamp
<1>5. AllVouched /\ Queued /\ \A p \in Procs : Tracks(p)
  BY <1>2 DEF AllVouched, Vouched, Queued, Tracks, Init
<1>6. InTransaction
  BY NoProcAssumption DEF InTransaction, Init
<1> QED BY <1>3, <1>4, <1>5, <1>6 DEF IInv

\* The times anyone remembers are numbers.
LEMMA TimeTypes ==
  ASSUME TypeOK
  PROVE  /\ clock \in Nat
         /\ \A f \in DOMAIN disk : disk[f].mtime \in Nat
         /\ \A f \in DOMAIN Rows : Rows[f].mtime \in Nat
         /\ \A p \in Procs :
              /\ since[p] \in Nat /\ info[p].mtime \in Nat
              /\ \A f \in DOMAIN cached[p] : cached[p][f].mtime \in Nat
              /\ \A f \in DOMAIN idx[p] : idx[p][f].mtime \in Nat
<1>1. \A f \in DOMAIN disk : disk[f] \in Version
  BY PartialFacts DEF TypeOK
<1>2. \A f \in DOMAIN Rows : Rows[f] \in Row
  BY PartialFacts DEF TypeOK
<1>3. \A p \in Procs : \A f \in DOMAIN cached[p] : cached[p][f] \in Row
  BY PartialFacts DEF TypeOK
<1>4. \A p \in Procs : \A f \in DOMAIN idx[p] : idx[p][f] \in Entry
  BY PartialFacts DEF TypeOK
<1> QED BY <1>1, <1>2, <1>3, <1>4 DEF TypeOK, Version, Row, Entry, Stamp

\* When time passes, what was not younger than the latest edit is older.
LEMMA AgesPass ==
  ASSUME TypeOK, Ages
  PROVE  /\ \A f \in DOMAIN disk : disk[f].mtime <= clock + 1
         /\ \A f \in DOMAIN Rows : Rows[f].mtime <= clock + 1
         /\ \A p \in Procs :
              /\ since[p] < clock + 1 /\ since[p] <= clock + 1 /\ info[p].mtime <= clock + 1
              /\ \A f \in DOMAIN cached[p] : cached[p][f].mtime <= clock + 1
              /\ \A f \in DOMAIN idx[p] : idx[p][f].mtime <= clock + 1
<1>1. \A n \in Nat : n <= clock => n < clock + 1 /\ n <= clock + 1
  BY TimeTypes
<1> QED BY <1>1, TimeTypes DEF Ages

\* A write gives the file a time nobody has seen.
LEMMA WriteIInv ==
  ASSUME IInv, NEW f \in Files, NEW c \in Contents, Write(f, c)
  PROVE  IInv'
<1> USE DEF IInv
<1> DEFINE v == [content |-> c, mtime |-> clock']
<1>1. /\ clock' = clock + 1 /\ clock \in Nat
      /\ v \in Version /\ v.mtime = clock + 1
      /\ disk' = Put(disk, f, v)
  BY DEF Write, TypeOK, Version
<1> HIDE DEF v
<1>2. /\ DOMAIN disk' = DOMAIN disk \cup {f} /\ IsPartial(disk', Version)
      /\ disk'[f] = v
      /\ \A g \in DOMAIN disk : g # f => disk'[g] = disk[g]
  <2>1. IsPartial(disk, Version) /\ v \in Version
    BY <1>1 DEF TypeOK
  <2>2. /\ IsPartial(Put(disk, f, v), Version)
        /\ DOMAIN Put(disk, f, v) = DOMAIN disk \cup {f}
        /\ Put(disk, f, v)[f] = v
        /\ \A g \in DOMAIN disk : g # f => Put(disk, f, v)[g] = disk[g]
    <3> HIDE DEF IInv
    <3> QED BY <2>1, PutFacts
  <2> QED BY <1>1, <2>2
<1>3. UNCHANGED <<db, journal, lock, pc, cached, since, todo, info, idx, aborts>>
  BY DEF Write, locals, store
<1>0. Rows' = Rows
  BY <1>3, RowsKept
<1>4. TypeOK'
  BY <1>0, <1>1, <1>2, <1>3 DEF TypeOK
<1>5. Ages'
  <2>1. \A g \in DOMAIN disk' : disk'[g].mtime <= clock'
    BY <1>1, <1>2, AgesPass
  <2> QED BY <1>0, <1>1, <1>3, <2>1, AgesPass DEF Ages
<1>6. AllVouched'
  <2>1. ASSUME NEW rows, Vouched(rows), 
               \A g \in DOMAIN rows : rows[g].mtime \in Nat /\ rows[g].mtime <= clock
        PROVE  \A g \in DOMAIN rows \cap DOMAIN disk' :
                 rows[g].mtime = disk'[g].mtime => rows[g].symbols = disk'[g].content
    BY <1>1, <1>2, <2>1 DEF Vouched
  <2>2. Vouched(Rows)'
    BY <1>0, <2>1, TimeTypes DEF Vouched, AllVouched, Ages
  <2>3. \A p \in Procs : Vouched(cached[p])' /\ Vouched(idx[p])'
    BY <1>3, <2>1, TimeTypes DEF Vouched, AllVouched, Ages
  <2> QED BY <2>2, <2>3 DEF AllVouched
<1>7. Queued' /\ InTransaction'
  BY <1>3 DEF Queued, InTransaction
<1>8. \A p \in Procs : Tracks(p)'
  BY <1>1, <1>3, AgesPass DEF Tracks, TypeOK
<1> QED BY <1>4, <1>5, <1>6, <1>7, <1>8

LEMMA RemoveIInv ==
  ASSUME IInv, NEW f \in Files, Remove(f)
  PROVE  IInv'
<1> USE DEF IInv
<1>1. /\ clock' = clock + 1 /\ clock \in Nat
      /\ DOMAIN disk' = DOMAIN disk \ {f} /\ IsPartial(disk', Version)
      /\ \A g \in DOMAIN disk' : disk'[g] = disk[g]
  BY DEF Remove, TypeOK, Restrict, IsPartial
<1>3. UNCHANGED <<db, journal, lock, pc, cached, since, todo, info, idx, aborts>>
  BY DEF Remove, locals, store
<1>0. Rows' = Rows
  BY <1>3, RowsKept
<1>4. TypeOK'
  BY <1>0, <1>1, <1>3 DEF TypeOK
<1>5. Ages'
  BY <1>0, <1>1, <1>3, AgesPass DEF Ages
<1>6. AllVouched'
  BY <1>0, <1>1, <1>3 DEF AllVouched, Vouched
<1>7. Queued' /\ InTransaction'
  BY <1>3 DEF Queued, InTransaction
<1>8. \A p \in Procs : Tracks(p)'
  BY <1>1, <1>3, AgesPass DEF Tracks, TypeOK
<1> QED BY <1>4, <1>5, <1>6, <1>7, <1>8

LEMMA LoadCacheIInv ==
  ASSUME IInv, NEW p \in Procs, LoadCache(p)
  PROVE  IInv'
<1> USE DEF IInv
<1>1. /\ UNCHANGED <<disk, clock, lock, since, todo, info, idx, aborts>>
      /\ UNCHANGED <<db, journal>> \/ (lock = NoProc /\ PlayBack)
      /\ pc[p] = "idle" /\ pc' = [pc EXCEPT ![p] = "scan"]
      /\ cached'[p] \in {Rows, NoFiles}
      /\ DOMAIN cached' = DOMAIN cached
      /\ \A q \in Procs : q # p => cached'[q] = cached[q]
  BY DEF LoadCache, tree, TypeOK
<1>0. Rows' = Rows
  BY <1>1, RowsKept
<1>2. /\ IsPartial(cached'[p], Row)
      /\ Vouched(cached'[p])
      /\ \A f \in DOMAIN cached'[p] : cached'[p][f].mtime <= clock
  BY <1>1, NoFilesFacts DEF TypeOK, AllVouched, Vouched, Ages
<1>3. TypeOK'
  <2>1. pc' \in [Procs -> Stages]
    BY <1>1 DEF TypeOK, Stages
  <2>2. DOMAIN cached' = Procs /\ \A q \in Procs : IsPartial(cached'[q], Row)
    BY <1>1, <1>2 DEF TypeOK
  <2>3. IsPartial(db', Row) /\ Len(journal') \in {0, 1} /\ IsPartial(Rows', Row)
    BY <1>0, <1>1 DEF TypeOK, PlayBack
  <2> QED BY <1>1, <2>1, <2>2, <2>3 DEF TypeOK
<1>4. Ages'
  BY <1>0, <1>1, <1>2 DEF Ages
<1>5. AllVouched'
  <2>1. \A q \in Procs : Vouched(cached'[q])
    BY <1>1, <1>2 DEF AllVouched
  <2> QED BY <1>0, <1>1, <2>1 DEF AllVouched, Vouched
<1>6. Queued' /\ \A q \in Procs : Tracks(q)'
  BY <1>1 DEF Queued, Tracks, TypeOK
<1>7. InTransaction'
  <2>1. pc[p] \notin {"delete", "insert"} /\ pc'[p] \notin {"delete", "insert"}
    BY <1>1 DEF TypeOK
  <2>2. \A q \in Procs : q # p => pc'[q] = pc[q] /\ idx'[q] = idx[q] /\ todo'[q] = todo[q]
    BY <1>1 DEF TypeOK
  <2> QED BY <1>1, <2>1, <2>2, OutsideTransaction
<1> QED BY <1>3, <1>4, <1>5, <1>6, <1>7

LEMMA ScanIInv ==
  ASSUME IInv, NEW p \in Procs, Scan(p)
  PROVE  IInv'
<1> USE DEF IInv
<1>1. /\ UNCHANGED <<disk, clock, db, journal, lock, cached, info, aborts>>
      /\ pc[p] = "scan" /\ pc' = [pc EXCEPT ![p] = "stat"]
      /\ todo' = [todo EXCEPT ![p] = Walk[DOMAIN disk]]
      /\ idx' = [idx EXCEPT ![p] = NoFiles]
      /\ since' = [since EXCEPT ![p] = clock]
  BY DEF Scan, tree, store
<1>0. Rows' = Rows
  BY <1>1, RowsKept
<1>2. Walk[DOMAIN disk] \in Seq(Files) /\ Range(Walk[DOMAIN disk]) = DOMAIN disk
  BY WalkAssumption DEF TypeOK, IsPartial
<1>3. TypeOK'
  <2>1. /\ pc' \in [Procs -> Stages] /\ todo' \in [Procs -> Seq(Files)]
        /\ since' \in [Procs -> Nat]
    BY <1>1, <1>2 DEF TypeOK, Stages
  <2>2. DOMAIN idx' = Procs /\ \A q \in Procs : IsPartial(idx'[q], Entry)
    BY <1>1, NoFilesFacts DEF TypeOK
  <2> QED BY <1>0, <1>1, <2>1, <2>2 DEF TypeOK
<1>4. \A q \in Procs : idx'[q] \in {idx[q], NoFiles} /\ since'[q] \in {since[q], clock}
  BY <1>1 DEF TypeOK
<1>5. Ages' /\ AllVouched'
  <2>1. \A q \in Procs : since'[q] <= clock /\ \A f \in DOMAIN idx'[q] : idx'[q][f].mtime <= clock
    BY <1>4, NoFilesFacts, TimeTypes DEF Ages
  <2>2. \A q \in Procs : Vouched(idx'[q])
    BY <1>4, NoFilesFacts DEF AllVouched, Vouched
  <2> QED BY <1>0, <1>1, <2>1, <2>2 DEF Ages, AllVouched, Vouched
<1>6. Queued'
  BY <1>1 DEF Queued, TypeOK
<1>7. \A q \in Procs : Tracks(q)'
  <2>1. Tracks(p)'
    BY <1>1, <1>2, NoFilesFacts DEF Tracks, TypeOK
  <2>2. \A q \in Procs : q # p => Tracks(q)'
    BY <1>1 DEF Tracks, TypeOK
  <2> QED BY <2>1, <2>2
<1>8. InTransaction'
  <2>1. pc[p] \notin {"delete", "insert"} /\ pc'[p] \notin {"delete", "insert"}
    BY <1>1 DEF TypeOK
  <2>2. \A q \in Procs : q # p => pc'[q] = pc[q] /\ idx'[q] = idx[q] /\ todo'[q] = todo[q]
    BY <1>1 DEF TypeOK
  <2> QED BY <1>1, <2>1, <2>2, OutsideTransaction
<1> QED BY <1>3, <1>5, <1>6, <1>7, <1>8

\* A file that is gone is skipped; a scanned tree cannot lose one unedited.
LEMMA SkipIInv ==
  ASSUME IInv, NEW p \in Procs, pc[p] \in {"stat", "read"}, todo[p] # <<>>,
         Head(todo[p]) \notin DOMAIN disk, Skip(p)
  PROVE  IInv'
<1> USE DEF IInv
<1>1. /\ UNCHANGED <<disk, clock, db, journal, lock, cached, since, info, idx, aborts>>
      /\ pc' = [pc EXCEPT ![p] = "stat"]
      /\ todo' = [todo EXCEPT ![p] = Tail(todo[p])]
  BY DEF Skip, tree, store, TypeOK
<1>0. Rows' = Rows
  BY <1>1, RowsKept
<1>2. todo[p] \in Seq(Files)
  BY DEF TypeOK
<1>3. Tail(todo[p]) \in Seq(Files) /\ Head(todo[p]) \in Range(todo[p])
  BY <1>2, TailFacts
<1>4. TypeOK'
  BY <1>0, <1>1, <1>3 DEF TypeOK, Stages
<1>5. Ages' /\ AllVouched'
  BY <1>0, <1>1 DEF Ages, AllVouched, Vouched
<1>6. Queued'
  BY <1>1 DEF Queued, TypeOK
<1>7. \A q \in Procs : Tracks(q)'
  <2>1. since[p] # clock
    BY <1>3 DEF Tracks
  <2> QED BY <1>1, <2>1 DEF Tracks, TypeOK
<1>8. InTransaction'
  <2>1. pc[p] \notin {"delete", "insert"} /\ pc'[p] \notin {"delete", "insert"}
    BY <1>1 DEF TypeOK
  <2>2. \A q \in Procs : q # p => pc'[q] = pc[q] /\ idx'[q] = idx[q] /\ todo'[q] = todo[q]
    BY <1>1 DEF TypeOK
  <2> QED BY <1>1, <2>1, <2>2, OutsideTransaction
<1> QED BY <1>4, <1>5, <1>6, <1>7, <1>8

LEMMA StatFileIInv ==
  ASSUME IInv, NEW p \in Procs, StatFile(p)
  PROVE  IInv'
<1> USE DEF IInv
<1> DEFINE f == Head(todo[p])
<1>1. CASE f \notin DOMAIN disk
  BY <1>1, SkipIInv DEF StatFile
<1>2. CASE f \in DOMAIN disk
  <2>1. /\ UNCHANGED <<disk, clock, db, journal, lock, cached, since, todo, idx, aborts>>
        /\ pc[p] = "stat" /\ todo[p] # <<>>
        /\ pc' = [pc EXCEPT ![p] = "read"]
        /\ info' = [info EXCEPT ![p] = StampOf(disk[f])]
    BY <1>2 DEF StatFile, tree, store, StampOf
  <2>0. Rows' = Rows
    BY <2>1, RowsKept
  <2>2. disk[f] \in Version
    BY <1>2, PartialFacts DEF TypeOK
  <2>3. StampOf(disk[f]) \in Stamp /\ StampOf(disk[f]).mtime <= clock
    BY <1>2, <2>2, ColdEntryFacts DEF Ages
  <2>4. TypeOK'
    BY <2>0, <2>1, <2>3 DEF TypeOK, Stages
  <2>5. Ages' /\ AllVouched'
    BY <2>0, <2>1, <2>3 DEF Ages, AllVouched, Vouched, TypeOK
  <2>6. Queued'
    BY <2>1 DEF Queued, TypeOK
  <2>7. \A q \in Procs : Tracks(q)'
    <3>1. Tracks(p)'
      BY <2>1 DEF Tracks, TypeOK
    <3>2. \A q \in Procs : q # p => Tracks(q)'
      BY <2>1 DEF Tracks, TypeOK
    <3> QED BY <3>1, <3>2
  <2>8. InTransaction'
    <3>1. pc[p] \notin {"delete", "insert"} /\ pc'[p] \notin {"delete", "insert"}
      BY <2>1 DEF TypeOK
    <3>2. \A q \in Procs : q # p => pc'[q] = pc[q] /\ idx'[q] = idx[q] /\ todo'[q] = todo[q]
      BY <2>1 DEF TypeOK
    <3> QED BY <2>1, <3>1, <3>2, OutsideTransaction
  <2> QED BY <2>4, <2>5, <2>6, <2>7, <2>8
<1> QED BY <1>1, <1>2

\* An entry is vouched for by its stamp, and an undisturbed build enters the
\* file as a build without a cache does.
LEMMA ReadFileIInv ==
  ASSUME IInv, NEW p \in Procs, ReadFile(p)
  PROVE  IInv'
<1> USE DEF IInv
<1> DEFINE f == Head(todo[p])
           e == IndexEntry(p, f)
<1>1. todo[p] # <<>> /\ todo[p] \in Seq(Files) /\ pc[p] = "read"
  BY DEF ReadFile, Queued, TypeOK
<1>2. CASE f \notin DOMAIN disk
  BY <1>1, <1>2, SkipIInv DEF ReadFile
<1>3. CASE f \in DOMAIN disk
  <2>1. /\ UNCHANGED <<disk, clock, db, journal, lock, cached, since, info, aborts>>
        /\ pc' = [pc EXCEPT ![p] = "stat"]
        /\ todo' = [todo EXCEPT ![p] = Tail(todo[p])]
        /\ idx' = [idx EXCEPT ![p] = Put(idx[p], f, e)]
    BY <1>3 DEF ReadFile, tree, store, TypeOK
  <2>0. Rows' = Rows
    BY <2>1, RowsKept
  <2>2. f \in Files /\ Tail(todo[p]) \in Seq(Files) /\ Range(todo[p]) = {f} \cup Range(Tail(todo[p]))
    BY <1>1, TailFacts
  <2>3. /\ e \in Entry /\ e.mtime = info[p].mtime
        /\ e.mtime = disk[f].mtime => e.symbols = disk[f].content
        /\ info[p] = StampOf(disk[f]) => e = ColdEntry(disk[f])
    BY <1>3, IndexEntryFacts DEF AllVouched
  <2>4. idx'[p] = Put(idx[p], f, e)
    BY <2>1 DEF TypeOK
  <2> HIDE DEF e, f
  <2>5. /\ IsPartial(idx'[p], Entry)
        /\ DOMAIN idx'[p] = DOMAIN idx[p] \cup {f}
        /\ idx'[p][f] = e
        /\ \A g \in DOMAIN idx[p] : g # f => idx'[p][g] = idx[p][g]
    <3>1. IsPartial(idx[p], Entry)
      BY DEF TypeOK
    <3>2. f \in Files /\ e \in Entry
      BY <2>2, <2>3
    <3>3. /\ IsPartial(Put(idx[p], f, e), Entry)
          /\ DOMAIN Put(idx[p], f, e) = DOMAIN idx[p] \cup {f}
          /\ Put(idx[p], f, e)[f] = e
          /\ \A g \in DOMAIN idx[p] : g # f => Put(idx[p], f, e)[g] = idx[p][g]
      BY <3>1, <3>2 DEF Put, IsPartial
    <3> QED BY <2>4, <3>3
  <2>6. \A q \in Procs : q # p => idx'[q] = idx[q] /\ todo'[q] = todo[q] /\ pc'[q] = pc[q]
    BY <2>1 DEF TypeOK
  <2>7. TypeOK'
    <3>1. DOMAIN idx' = Procs /\ \A q \in Procs : IsPartial(idx'[q], Entry)
      BY <2>1, <2>5, <2>6 DEF TypeOK
    <3> QED BY <2>0, <2>1, <2>2, <3>1 DEF TypeOK, Stages
  <2>8. Ages'
    <3>1. \A g \in DOMAIN idx'[p] : idx'[p][g].mtime <= clock
      BY <2>3, <2>5 DEF Ages
    <3> QED BY <2>0, <2>1, <2>6, <3>1 DEF Ages
  <2>9. AllVouched'
    <3>1. Vouched(idx'[p])
      BY <2>3, <2>5 DEF AllVouched, Vouched
    <3> QED BY <2>0, <2>1, <2>6, <3>1 DEF AllVouched, Vouched
  <2>10. Queued'
    BY <2>1 DEF Queued, TypeOK
  <2>11. \A q \in Procs : Tracks(q)'
    <3>1. Tracks(p)'
      <4>0. /\ pc'[p] = "stat" /\ since'[p] = since[p] /\ clock' = clock /\ disk' = disk
            /\ todo'[p] = Tail(todo[p])
        BY <2>1 DEF TypeOK
      <4> SUFFICES ASSUME since[p] = clock
                   PROVE  /\ DOMAIN idx'[p] \cup Range(Tail(todo[p])) = DOMAIN disk
                          /\ \A g \in DOMAIN idx'[p] : idx'[p][g] = ColdEntry(disk[g])
        BY <4>0 DEF Tracks, ColdEntry
      <4>1. /\ DOMAIN idx[p] \cup Range(todo[p]) = DOMAIN disk
            /\ \A g \in DOMAIN idx[p] : idx[p][g] = ColdEntry(disk[g])
            /\ info[p] = StampOf(disk[f])
        BY <1>1 DEF Tracks, f
      <4> QED BY <2>2, <2>3, <2>5, <4>1
    <3>2. ASSUME NEW q \in Procs, q # p
          PROVE  Tracks(q)'
      <4>1. /\ idx'[q] = idx[q] /\ todo'[q] = todo[q] /\ pc'[q] = pc[q]
            /\ since' = since /\ info' = info /\ clock' = clock /\ disk' = disk
        BY <2>1, <2>6, <3>2
      <4>2. Tracks(q)
        OBVIOUS
      <4> QED BY <4>1, <4>2 DEF Tracks
    <3> QED BY <3>1, <3>2
  <2>12. InTransaction'
    <3>1. pc[p] \notin {"delete", "insert"} /\ pc'[p] \notin {"delete", "insert"}
      BY <1>1, <2>1 DEF TypeOK
    <3>2. \A q \in Procs : q # p => pc'[q] = pc[q] /\ idx'[q] = idx[q] /\ todo'[q] = todo[q]
      BY <2>6
    <3> QED BY <2>1, <3>1, <3>2, OutsideTransaction
  <2> QED BY <2>7, <2>8, <2>9, <2>10, <2>11, <2>12
<1> QED BY <1>2, <1>3

LEMMA BuiltIInv ==
  ASSUME IInv, NEW p \in Procs, Built(p)
  PROVE  IInv'
<1> USE DEF IInv
<1>1. /\ UNCHANGED <<disk, clock, db, journal, lock, since, todo, idx, aborts>>
      /\ pc[p] = "stat" /\ todo[p] = <<>>
      /\ pc' = [pc EXCEPT ![p] = "save"]
      /\ cached' = [cached EXCEPT ![p] = NoFiles]
      /\ info' = [info EXCEPT ![p] = NoStamp]
  BY DEF Built, tree, store
<1>0. Rows' = Rows
  BY <1>1, RowsKept
<1>2. \A q \in Procs :
        /\ cached'[q] \in {cached[q], NoFiles} /\ info'[q] \in {info[q], NoStamp}
        /\ q # p => info'[q] = info[q] /\ pc'[q] = pc[q]
  BY <1>1 DEF TypeOK
<1>3. TypeOK'
  <2>1. pc' \in [Procs -> Stages] /\ info' \in [Procs -> Stamp]
    BY <1>1 DEF TypeOK, Stages, Stamp, NoStamp
  <2>2. DOMAIN cached' = Procs /\ \A q \in Procs : IsPartial(cached'[q], Row)
    BY <1>1, <1>2, NoFilesFacts DEF TypeOK
  <2> QED BY <1>0, <1>1, <2>1, <2>2 DEF TypeOK
<1>4. Ages'
  <2>1. \A q \in Procs : info'[q].mtime <= clock
    BY <1>2, TimeTypes DEF Ages, NoStamp
  <2>2. \A q \in Procs : \A f \in DOMAIN cached'[q] : cached'[q][f].mtime <= clock
    BY <1>2, NoFilesFacts DEF Ages
  <2> QED BY <1>0, <1>1, <2>1, <2>2 DEF Ages
<1>5. AllVouched'
  <2>0. Vouched(NoFiles)
    BY NoFilesFacts DEF Vouched
  <2>1. \A q \in Procs : Vouched(cached'[q])
    BY <1>1, <1>2, <2>0 DEF AllVouched, Vouched
  <2> QED BY <1>0, <1>1, <2>1 DEF AllVouched, Vouched
<1>6. Queued'
  BY <1>1 DEF Queued, TypeOK
<1>7. ASSUME NEW q \in Procs
      PROVE  Tracks(q)'
  <2>1. Tracks(q)
    OBVIOUS
  <2>2. CASE q = p
    BY <1>1, <2>1, <2>2 DEF Tracks, TypeOK
  <2>3. CASE q # p
    BY <1>1, <1>2, <2>1, <2>3 DEF Tracks
  <2> QED BY <2>2, <2>3
<1>8. InTransaction'
  <2>1. pc[p] \notin {"delete", "insert"} /\ pc'[p] \notin {"delete", "insert"}
    BY <1>1 DEF TypeOK
  <2>2. \A q \in Procs : q # p => pc'[q] = pc[q] /\ idx'[q] = idx[q] /\ todo'[q] = todo[q]
    BY <1>1 DEF TypeOK
  <2> QED BY <1>1, <2>1, <2>2, OutsideTransaction
<1> QED BY <1>3, <1>4, <1>5, <1>6, <1>7, <1>8

\* Statements of a save neither change what readers are given nor what anyone
\* remembers of the tree; what is left to insert are files of the index.
LEMMA StatementIInv ==
  ASSUME IInv, NEW p \in Procs, pc[p] \in {"save", "delete", "insert"},
         UNCHANGED <<disk, clock, cached, since, info, idx, aborts>>,
         pc' \in [Procs -> Stages], todo' \in [Procs -> Seq(Files)],
         pc'[p] \in {"delete", "insert"},
         Range(todo'[p]) \subseteq DOMAIN idx[p], pc'[p] = "delete" => todo'[p] = <<>>,
         \A q \in Procs : q # p => pc'[q] = pc[q] /\ todo'[q] = todo[q],
         Rows' = Rows, IsPartial(db', Row), Len(journal') \in {0, 1},
         lock' \in Procs \cup {NoProc}, InTransaction'
  PROVE  IInv'
<1> USE DEF IInv
<1>1. TypeOK'
  BY DEF TypeOK
<1>2. Ages' /\ AllVouched'
  BY DEF Ages, AllVouched, Vouched
<1>3. Queued'
  BY DEF Queued, Stages
<1>4. ASSUME NEW q \in Procs
      PROVE  Tracks(q)'
  <2>1. Tracks(q)
    OBVIOUS
  <2>2. CASE q # p
    BY <2>1, <2>2 DEF Tracks
  <2>3. CASE q = p
    <3>1. Range(todo[p]) \subseteq DOMAIN idx[p]
      BY EmptyFacts DEF Queued
    <3> QED BY <2>1, <2>3, <3>1 DEF Tracks
  <2> QED BY <2>2, <2>3
<1> QED BY <1>1, <1>2, <1>3, <1>4

LEMMA BeginSaveIInv ==
  ASSUME IInv, NEW p \in Procs, BeginSave(p)
  PROVE  IInv'
<1> USE DEF IInv
<1>1. /\ UNCHANGED <<disk, clock, cached, since, todo, info, idx, aborts>>
      /\ pc[p] = "save" /\ pc' = [pc EXCEPT ![p] = "delete"]
      /\ lock = NoProc /\ lock' = p /\ db' = Rows /\ journal' = <<Rows>>
  BY DEF BeginSave, tree
<1>2. Rows' = Rows
  BY <1>1, RowsKept
<1>3. /\ pc' \in [Procs -> Stages] /\ pc'[p] = "delete"
      /\ \A q \in Procs : q # p => pc'[q] = pc[q]
  BY <1>1 DEF TypeOK, Stages
<1>4. /\ todo[p] = <<>> /\ Range(todo[p]) \subseteq DOMAIN idx[p]
      /\ todo \in [Procs -> Seq(Files)]
  BY <1>1, EmptyFacts DEF Queued, TypeOK
<1>5. IsPartial(db', Row) /\ Len(journal') \in {0, 1}
  BY <1>1 DEF TypeOK
<1>6. InTransaction'
  <2>1. \A q \in Procs : pc[q] \notin {"delete", "insert"}
    BY <1>1, NoProcAssumption DEF InTransaction
  <2>2. \A q \in Procs : lock' = q <=> pc'[q] \in {"delete", "insert"}
    BY <1>1, <1>3, <2>1
  <2>3. journal' # <<>>
    BY <1>1
  <2>4. \A q \in Procs : pc'[q] # "insert"
    BY <1>3, <2>1
  <2> QED BY <2>2, <2>3, <2>4 DEF InTransaction
<1> QED BY <1>1, <1>2, <1>3, <1>4, <1>5, <1>6, StatementIInv

LEMMA DeleteRowsIInv ==
  ASSUME IInv, NEW p \in Procs, DeleteRows(p)
  PROVE  IInv'
<1> USE DEF IInv
<1>1. /\ UNCHANGED <<disk, clock, journal, lock, cached, since, info, idx, aborts>>
      /\ pc[p] = "delete" /\ pc' = [pc EXCEPT ![p] = "insert"]
      /\ todo' = [todo EXCEPT ![p] = Walk[DOMAIN idx[p]]]
      /\ db' = NoFiles
  BY DEF DeleteRows, tree
<1>2. lock = p /\ journal # <<>>
  BY <1>1, NoProcAssumption DEF InTransaction
<1>3. Rows' = Rows
  BY <1>1, <1>2, RowsKept
<1>4. DOMAIN idx[p] \in SUBSET Files
  BY DEF TypeOK, IsPartial
<1>5. Walk[DOMAIN idx[p]] \in Seq(Files) /\ Range(Walk[DOMAIN idx[p]]) = DOMAIN idx[p]
  BY <1>4, WalkAssumption
<1>6. /\ pc' \in [Procs -> Stages] /\ pc'[p] = "insert"
      /\ todo' \in [Procs -> Seq(Files)] /\ todo'[p] = Walk[DOMAIN idx[p]]
      /\ \A q \in Procs : q # p => pc'[q] = pc[q] /\ todo'[q] = todo[q]
  BY <1>1, <1>5 DEF TypeOK, Stages
<1>7. /\ IsPartial(db', Row) /\ DOMAIN db' = {}
      /\ Len(journal') \in {0, 1} /\ lock' \in Procs \cup {NoProc}
  BY <1>1, NoFilesFacts DEF TypeOK
<1>8. InTransaction'
  <2>1. \A q \in Procs : lock' = q <=> pc'[q] \in {"delete", "insert"}
    BY <1>1, <1>6 DEF InTransaction
  <2>2. ASSUME NEW q \in Procs, pc'[q] = "insert"
        PROVE  /\ DOMAIN db' \cup Range(todo'[q]) = DOMAIN idx'[q]
               /\ \A f \in DOMAIN db' : db'[f] = RowOf(idx'[q][f])
    <3>1. q = p
      BY <1>1, <1>2, <2>1, <2>2
    <3> QED BY <1>1, <1>5, <1>6, <1>7, <3>1
  <2> QED BY <1>1, <1>2, <2>1, <2>2 DEF InTransaction
<1> QED BY <1>1, <1>3, <1>5, <1>6, <1>7, <1>8, StatementIInv

LEMMA InsertRowIInv ==
  ASSUME IInv, NEW p \in Procs, InsertRow(p)
  PROVE  IInv'
<1> USE DEF IInv
<1> DEFINE f == Head(todo[p])
           e == RowOf(idx[p][f])
<1>1. /\ UNCHANGED <<disk, clock, journal, lock, pc, cached, since, info, idx, aborts>>
      /\ pc[p] = "insert" /\ todo[p] # <<>>
      /\ todo' = [todo EXCEPT ![p] = Tail(todo[p])]
      /\ db' = Put(db, f, e)
  BY DEF InsertRow, tree
<1>2. lock = p /\ journal # <<>>
  BY <1>1, NoProcAssumption DEF InTransaction
<1>3. Rows' = Rows
  BY <1>1, <1>2, RowsKept
<1>4. /\ f \in Files /\ Tail(todo[p]) \in Seq(Files)
      /\ Range(todo[p]) = {f} \cup Range(Tail(todo[p]))
  BY <1>1, TailFacts DEF TypeOK
<1>5. Range(todo[p]) \subseteq DOMAIN idx[p] /\ f \in DOMAIN idx[p]
  BY <1>1, <1>4 DEF Queued
<1>6. idx[p][f] \in Entry
  BY <1>5, PartialFacts DEF TypeOK
<1>7. e \in Row
  BY <1>6, RowOfFacts
<1> HIDE DEF f, e
<1>8. /\ IsPartial(db', Row)
      /\ DOMAIN db' = DOMAIN db \cup {f}
      /\ db'[f] = e
      /\ \A g \in DOMAIN db : g # f => db'[g] = db[g]
  <2>1. IsPartial(db, Row)
    BY DEF TypeOK
  <2>2. /\ IsPartial(Put(db, f, e), Row)
        /\ DOMAIN Put(db, f, e) = DOMAIN db \cup {f}
        /\ Put(db, f, e)[f] = e
        /\ \A g \in DOMAIN db : g # f => Put(db, f, e)[g] = db[g]
    BY <1>4, <1>7, <2>1 DEF Put, IsPartial
  <2> QED BY <1>1, <2>2
<1>9. /\ todo' \in [Procs -> Seq(Files)] /\ todo'[p] = Tail(todo[p])
      /\ \A q \in Procs : q # p => todo'[q] = todo[q]
  BY <1>1, <1>4 DEF TypeOK
<1>10. InTransaction'
  <2>1. /\ DOMAIN db \cup Range(todo[p]) = DOMAIN idx[p]
        /\ \A g \in DOMAIN db : db[g] = RowOf(idx[p][g])
    BY <1>1 DEF InTransaction
  <2>2. /\ DOMAIN db' \cup Range(todo'[p]) = DOMAIN idx[p]
        /\ \A g \in DOMAIN db' : db'[g] = RowOf(idx[p][g])
    BY <1>4, <1>8, <1>9, <2>1 DEF e
  <2>3. \A q \in Procs : pc[q] = "insert" => q = p
    BY <1>2 DEF InTransaction
  <2> QED BY <1>1, <2>2, <2>3 DEF InTransaction
<1>11. /\ Range(todo'[p]) \subseteq DOMAIN idx[p]
       /\ pc' \in [Procs -> Stages] /\ pc'[p] = "insert"
       /\ Len(journal') \in {0, 1} /\ lock' \in Procs \cup {NoProc}
  BY <1>1, <1>4, <1>5, <1>9 DEF TypeOK
<1> QED BY <1>1, <1>3, <1>8, <1>9, <1>10, <1>11, StatementIInv

\* A process that ends disturbs no other.
LEMMA EndsFacts ==
  ASSUME TypeOK, NEW p \in Procs, Exit(p)
  PROVE  /\ pc'[p] = "idle"
         /\ \A q \in Procs : q # p => pc'[q] = pc[q] /\ idx'[q] = idx[q] /\ todo'[q] = todo[q]
BY DEF Exit, TypeOK

\* When the writer ends and its lock is free, nobody is in a transaction.
LEMMA ReleasedFacts ==
  ASSUME TypeOK, InTransaction, NEW p \in Procs, lock = p, Exit(p), lock' = NoProc
  PROVE  InTransaction'
<1>1. \A q \in Procs : pc'[q] \notin {"delete", "insert"}
  BY EndsFacts DEF InTransaction
<1>2. \A q \in Procs : lock' # q
  BY NoProcAssumption
<1> QED BY <1>1, <1>2 DEF InTransaction

\* A command that is over has nothing left that could be wrong, and what it
\* saved is what it had indexed.
LEMMA ExitIInv ==
  ASSUME IInv, NEW p \in Procs, Exit(p), UNCHANGED tree,
         Rows' \in {Rows, RowsOf(idx[p])}, IsPartial(db', Row), Len(journal') \in {0, 1},
         lock' \in Procs \cup {NoProc}, aborts' \in Nat, InTransaction'
  PROVE  IInv'
<1> USE DEF IInv
<1>1. /\ disk' = disk /\ clock' = clock
      /\ pc' = [pc EXCEPT ![p] = "idle"]
      /\ since' = [since EXCEPT ![p] = 0]
      /\ todo' = [todo EXCEPT ![p] = <<>>] /\ info' = [info EXCEPT ![p] = NoStamp]
      /\ cached' = [cached EXCEPT ![p] = NoFiles] /\ idx' = [idx EXCEPT ![p] = NoFiles]
  BY DEF Exit, tree
<1>2. \A q \in Procs :
        /\ cached'[q] \in {cached[q], NoFiles} /\ idx'[q] \in {idx[q], NoFiles}
        /\ q # p => /\ pc'[q] = pc[q] /\ since'[q] = since[q] /\ todo'[q] = todo[q]
                    /\ info'[q] = info[q] /\ idx'[q] = idx[q]
  BY <1>1 DEF TypeOK
<1>3. IsPartial(idx[p], Entry)
  BY DEF TypeOK
<1>4. /\ IsPartial(Rows', Row)
      /\ \A f \in DOMAIN Rows' : Rows'[f].mtime <= clock
      /\ Vouched(Rows')
  <2>1. CASE Rows' = Rows
    BY <2>1 DEF TypeOK, Ages, AllVouched
  <2>2. CASE Rows' = RowsOf(idx[p])
    BY <1>3, <2>2, RowsOfFacts DEF Ages, AllVouched, Vouched
  <2> QED BY <2>1, <2>2
<1>5. TypeOK'
  <2>1. \A q \in Procs : IsPartial(cached'[q], Row) /\ IsPartial(idx'[q], Entry)
    BY <1>2, NoFilesFacts DEF TypeOK
  <2>2. DOMAIN cached' = Procs /\ DOMAIN idx' = Procs
    BY <1>1 DEF TypeOK
  <2>3. pc' \in [Procs -> Stages] /\ since' \in [Procs -> Nat] /\ todo' \in [Procs -> Seq(Files)]
        /\ info' \in [Procs -> Stamp]
    BY <1>1 DEF TypeOK, Stages, Stamp, NoStamp
  <2> QED BY <1>1, <1>4, <2>1, <2>2, <2>3 DEF TypeOK
<1>6. Ages'
  <2>1. \A q \in Procs : since'[q] <= clock /\ info'[q].mtime <= clock
    BY <1>1 DEF Ages, TypeOK, NoStamp
  <2>2. \A q \in Procs : /\ \A f \in DOMAIN cached'[q] : cached'[q][f].mtime <= clock
                         /\ \A f \in DOMAIN idx'[q] : idx'[q][f].mtime <= clock
    BY <1>2, NoFilesFacts DEF Ages
  <2> QED BY <1>1, <1>4, <2>1, <2>2 DEF Ages
<1>7. AllVouched'
  <2>0. Vouched(NoFiles)
    BY NoFilesFacts DEF Vouched
  <2>1. \A q \in Procs : Vouched(cached'[q]) /\ Vouched(idx'[q])
    BY <1>2, <2>0 DEF AllVouched
  <2> QED BY <1>1, <1>4, <2>1 DEF AllVouched, Vouched
<1>8. Queued'
  BY <1>1 DEF Queued, TypeOK
<1>9. \A q \in Procs : Tracks(q)'
  <2>1. Tracks(p)'
    BY <1>1 DEF Tracks, TypeOK
  <2>2. ASSUME NEW q \in Procs, q # p
        PROVE  Tracks(q)'
    <3>1. /\ idx'[q] = idx[q] /\ todo'[q] = todo[q] /\ pc'[q] = pc[q]
          /\ since'[q] = since[q] /\ info'[q] = info[q] /\ clock' = clock /\ disk' = disk
      BY <1>1, <1>2, <2>2
    <3>2. Tracks(q)
      OBVIOUS
    <3> QED BY <3>1, <3>2 DEF Tracks
  <2> QED BY <2>1, <2>2
<1> QED BY <1>5, <1>6, <1>7, <1>8, <1>9
-----------------------------------------------------------------------------
(* The theorems.                                                            *)

LEMMA SaveBusyIInv ==
  ASSUME IInv, NEW p \in Procs, SaveBusy(p)
  PROVE  IInv'
<1>1. /\ pc[p] = "save" /\ Exit(p) /\ UNCHANGED tree
      /\ UNCHANGED <<db, journal, lock, aborts>>
  BY DEF SaveBusy, store
<1>2. Rows' = Rows
  BY <1>1, RowsKept
<1>3. InTransaction'
  BY <1>1, EndsFacts, OutsideTransaction DEF IInv
<1> QED BY <1>1, <1>2, <1>3, ExitIInv DEF IInv, TypeOK

\* Once every row is inserted, the commit gives readers the rows of the index.
LEMMA CommitFacts ==
  ASSUME IInv, NEW p \in Procs, Commit(p)
  PROVE  IInv' /\ Rows' = RowsOf(idx[p])
<1>1. /\ pc[p] = "insert" /\ todo[p] = <<>> /\ Exit(p) /\ UNCHANGED tree
      /\ journal' = <<>> /\ lock' = NoProc /\ db' = db /\ aborts' = aborts
  BY DEF Commit
<1>2. db = RowsOf(idx[p])
  <2>1. DOMAIN db = DOMAIN idx[p] /\ \A f \in DOMAIN db : db[f] = RowOf(idx[p][f])
    BY <1>1, EmptyFacts DEF IInv, InTransaction
  <2>2. db = [f \in DOMAIN db |-> db[f]]
    BY DEF IInv, TypeOK, IsPartial
  <2> QED BY <2>1, <2>2 DEF RowsOf
<1>3. Rows' = RowsOf(idx[p])
  BY <1>1, <1>2 DEF Rows
<1>4. lock = p
  BY <1>1 DEF IInv, InTransaction
<1>5. InTransaction'
  BY <1>1, <1>4, ReleasedFacts DEF IInv
<1> QED BY <1>1, <1>3, <1>5, ExitIInv DEF IInv, TypeOK

\* A rollback, at once or by whoever opens the database next, gives readers
\* what they were given before.
LEMMA AbortFacts ==
  ASSUME IInv, NEW p \in Procs, Fail(p) \/ Die(p)
  PROVE  IInv' /\ Rows' = Rows
<1>1. /\ Exit(p) /\ UNCHANGED tree /\ aborts' = aborts + 1
      /\ lock' = IF lock = p THEN NoProc ELSE lock
      /\ \/ UNCHANGED <<db, journal>>
         \/ lock = p /\ PlayBack
  BY DEF Fail, Die, store
<1>2. Rows' = Rows
  BY <1>1, RowsKept
<1>3. IsPartial(db', Row) /\ Len(journal') \in {0, 1}
  BY <1>1 DEF IInv, TypeOK, PlayBack
<1>4. InTransaction'
  <2>1. CASE lock = p
    BY <1>1, <2>1, ReleasedFacts DEF IInv
  <2>2. CASE lock # p
    <3>1. pc[p] \notin {"delete", "insert"}
      BY <2>2 DEF IInv, InTransaction
    <3>2. lock' = lock /\ UNCHANGED <<db, journal>>
      BY <1>1, <2>2
    <3> QED BY <1>1, <3>1, <3>2, EndsFacts, OutsideTransaction DEF IInv
  <2> QED BY <2>1, <2>2
<1>5. lock' \in Procs \cup {NoProc} /\ aborts' \in Nat
  BY <1>1 DEF IInv, TypeOK
<1> QED BY <1>1, <1>2, <1>3, <1>4, <1>5, ExitIInv

LEMMA NextIInv == IInv /\ [Next]_vars => IInv'
<1> SUFFICES ASSUME IInv, [Next]_vars PROVE IInv'
  OBVIOUS
<1>1. CASE Edit
  BY <1>1, WriteIInv, RemoveIInv DEF Edit
<1>2. ASSUME NEW p \in Procs, Step(p)
      PROVE  IInv'
  <2>1. Scan(p) \/ StatFile(p) \/ ReadFile(p) \/ Built(p) => IInv'
    BY ScanIInv, StatFileIInv, ReadFileIInv, BuiltIInv
  <2>2. LoadCache(p) \/ BeginSave(p) \/ SaveBusy(p) => IInv'
    BY LoadCacheIInv, BeginSaveIInv, SaveBusyIInv
  <2>3. DeleteRows(p) \/ InsertRow(p) \/ Commit(p) => IInv'
    BY DeleteRowsIInv, InsertRowIInv, CommitFacts
  <2> QED BY <1>2, <2>1, <2>2, <2>3 DEF Step
<1>3. ASSUME NEW p \in Procs, Fail(p) \/ Die(p)
      PROVE  IInv'
  BY <1>3, AbortFacts
<1>4. CASE UNCHANGED vars
  <2>1. Rows' = Rows
    BY <1>4, RowsKept DEF vars
  <2> QED BY <1>4, <2>1 DEF vars, IInv, TypeOK, Ages, AllVouched, Vouched, Queued, Tracks, InTransaction
<1> QED BY <1>1, <1>2, <1>3, <1>4 DEF Next

LEMMA Invariance == Spec => []IInv
BY InitIInv, NextIInv, PTL DEF Spec

\* Every variable of the cache and of its processes keeps its type.
THEOREM TypeCorrect == Spec => []TypeOK
<1>1. IInv => TypeOK
  BY DEF IInv
<1> QED BY <1>1, Invariance, PTL

\* A row under the modification time of the file on disk has that file's
\* analysis, whatever edits, other processes and failures came in between.
THEOREM CacheIsFresh == Spec => []RowsFresh
<1>1. IInv => RowsFresh
  BY DEF IInv, AllVouched, Vouched, RowsFresh
<1> QED BY <1>1, Invariance, PTL

\* A build of an unedited tree yields what a build without a cache yields.
THEOREM CacheIsTransparent == Spec => []CacheTransparent
<1>1. IInv => CacheTransparent
  <2> SUFFICES ASSUME IInv, NEW p \in Procs, pc[p] \in {"save", "delete", "insert"}, since[p] = clock
               PROVE  idx[p] = ColdIndex
    BY DEF CacheTransparent
  <2>1. Range(todo[p]) \subseteq DOMAIN idx[p]
    BY EmptyFacts DEF IInv, Queued
  <2>2. DOMAIN idx[p] = DOMAIN disk /\ \A f \in DOMAIN idx[p] : idx[p][f] = ColdEntry(disk[f])
    BY <2>1 DEF IInv, Tracks
  <2>3. idx[p] = [f \in DOMAIN idx[p] |-> idx[p][f]]
    BY DEF IInv, TypeOK, IsPartial
  <2> QED BY <2>2, <2>3 DEF ColdIndex
<1> QED BY <1>1, Invariance, PTL

\* However a save ends and whoever opens the database then, what readers are
\* given changes only by a commit, and to the rows of a whole index.
THEOREM ReplacedAsAWhole == Spec => ReplacedWhole
<1> DEFINE Replaced ==
      \E p \in Procs : pc[p] = "insert" /\ pc'[p] = "idle" /\ Rows' = RowsOf(idx[p])
<1>1. IInv /\ [Next]_vars => [Rows' # Rows => Replaced]_vars
  <2> SUFFICES ASSUME IInv, Next PROVE Rows' = Rows \/ Replaced
    OBVIOUS
  <2>1. CASE Edit
    BY <2>1, RowsKept DEF Edit, Write, Remove, store
  <2>2. ASSUME NEW p \in Procs, Commit(p)
        PROVE  Replaced
    <3>1. pc[p] = "insert" /\ Rows' = RowsOf(idx[p])
      BY <2>2, CommitFacts DEF Commit
    <3>2. pc'[p] = "idle"
      BY <2>2, EndsFacts DEF Commit, IInv
    <3> QED BY <3>1, <3>2
  <2>3. ASSUME NEW p \in Procs, Fail(p) \/ Die(p)
        PROVE  Rows' = Rows
    BY <2>3, AbortFacts
  <2>4. ASSUME NEW p \in Procs, Scan(p) \/ StatFile(p) \/ ReadFile(p) \/ Built(p) \/ SaveBusy(p)
        PROVE  Rows' = Rows
    BY <2>4, RowsKept DEF Scan, StatFile, Skip, ReadFile, Built, SaveBusy, store
  <2>5. ASSUME NEW p \in Procs, LoadCache(p) \/ BeginSave(p)
        PROVE  Rows' = Rows
    BY <2>5, RowsKept DEF LoadCache, BeginSave
  <2>6. ASSUME NEW p \in Procs, DeleteRows(p) \/ InsertRow(p)
        PROVE  Rows' = Rows
    <3>1. lock = p /\ journal # <<>> /\ journal' = journal
      BY <2>6, NoProcAssumption DEF DeleteRows, InsertRow, IInv, InTransaction
    <3> QED BY <3>1, RowsKept
  <2> QED BY <2>1, <2>2, <2>3, <2>4, <2>5, <2>6 DEF Next, Step
<1> QED BY <1>1, Invariance, PTL DEF Spec, ReplacedWhole
=============================================================================
