------------------------ MODULE PackCommand_proofs ------------------------
(***************************************************************************)
(* What ctxpack pack guarantees of the files under .ctxpack for any number *)
(* of processes, tasks, files and deaths, and of the options and words of  *)
(* command lines of any length.                                            *)
(***************************************************************************)
EXTENDS PackCommand, WellFoundedInduction, SequenceTheorems, TLAPS

-----------------------------------------------------------------------------
(* The inductive invariant.                                                 *)

PackFields == {"command", "refused", "task", "budget", "tests", "output", "stdout"}

\* Every process has its own of everything, and every file a time and blocks.
Shapes ==
  /\ DOMAIN pc = Procs /\ DOMAIN opt = Procs /\ DOMAIN offset = Procs /\ DOMAIN at = Procs
  /\ DOMAIN args = Procs /\ DOMAIN shown = Procs
  /\ DOMAIN disk = Outputs
  /\ clock \in Nat /\ clock > 0 /\ begun \in 0 .. Commands

HasPack(p) ==
  /\ DOMAIN opt[p] = PackFields /\ opt[p].command = "pack"
  /\ Sections(opt[p].task) \in Seq(STRING) \ {<<>>}

\* A pack that is made has a task with sections, and is written from its start.
Making ==
  \A p \in Procs :
    /\ pc[p] = "parsed" /\ opt[p].command = "pack" /\ ~opt[p].refused => HasPack(p)
    /\ pc[p] \in {"built", "writing"} => HasPack(p)
    /\ pc[p] \notin {"writing"} => offset[p] = 0
    /\ pc[p] = "writing" => at[p] \in Outputs /\ offset[p] \in 0 .. Len(Blocks(opt[p].task))

\* An undisturbed file has one writer at most, and holds what that one has
\* written so far.
Undisturbed ==
  \A p \in Procs :
    pc[p] = "writing" /\ at[p] \notin disturbed =>
      /\ \A q \in Procs : pc[q] = "writing" /\ at[q] = at[p] => q = p
      /\ disk[at[p]].blocks = [k \in 1 .. offset[p] |-> Blocks(opt[p].task)[k]]

IInv ==
  /\ Shapes
  /\ Making
  /\ Undisturbed
  /\ PackIsWhole
-----------------------------------------------------------------------------
(* Facts about the operators.                                               *)

\* A command line that pack accepts gives it a task with sections.
LEMMA PackOptFacts ==
  ASSUME NEW n \in 1 .. Commands, NEW list \in PackArgs(n), ~PackOpt(list).refused
  PROVE  /\ DOMAIN PackOpt(list) = PackFields /\ PackOpt(list).command = "pack"
         /\ Sections(PackOpt(list).task) \in Seq(STRING) \ {<<>>}
<1>1. DOMAIN PackOpt(list) = PackFields /\ PackOpt(list).command = "pack"
  BY DEF PackOpt, PackFields
<1> QED BY <1>1, SectionsAssumption

\* A pack has as many blocks as sections, and each of them names its task.
LEMMA BlocksFacts ==
  ASSUME NEW task, Sections(task) \in Seq(STRING) \ {<<>>}
  PROVE  /\ Len(Blocks(task)) \in Nat \ {0}
         /\ Blocks(task) = [k \in 1 .. Len(Blocks(task)) |-> Blocks(task)[k]]
         /\ Blocks(task) # <<>> /\ Blocks(task)[1][1] = task
<1>1. DOMAIN Sections(task) = 1 .. Len(Sections(task)) /\ Len(Sections(task)) \in Nat \ {0}
  OBVIOUS
<1>2. Blocks(task) \in Seq({task} \X STRING) /\ Len(Blocks(task)) = Len(Sections(task))
  BY <1>1 DEF Blocks
<1>3. Blocks(task)[1] = <<task, Sections(task)[1]>>
  BY <1>1 DEF Blocks
<1> QED BY <1>1, <1>2, <1>3

LEMMA InitIInv == Init => IInv
BY BoundsAssumption
   DEF Init, IInv, Shapes, Making, Undisturbed, PackIsWhole, Present, Absent, NoOpt

\* A process that is done forgets its command and leaves the others theirs.
LEMMA EndFacts ==
  ASSUME Shapes, NEW p \in Procs, End(p)
  PROVE  /\ DOMAIN pc' = Procs /\ DOMAIN opt' = Procs /\ DOMAIN offset' = Procs
         /\ DOMAIN at' = Procs /\ DOMAIN args' = Procs /\ DOMAIN shown' = Procs
         /\ pc'[p] = "idle" /\ offset'[p] = 0
         /\ \A q \in Procs \ {p} : /\ pc'[q] = pc[q] /\ opt'[q] = opt[q]
                                  /\ offset'[q] = offset[q] /\ at'[q] = at[q]
BY DEF End, Shapes

LEMMA ShapesStep == Shapes /\ Making /\ [Next]_vars => Shapes'
<1> SUFFICES ASSUME Shapes, Making, [Next]_vars PROVE Shapes'
  OBVIOUS
<1>1. ASSUME NEW p \in Procs, Refuse(p) \/ WriteElsewhere(p) \/ Close(p) \/ NothingToRead(p)
                             \/ Exit(p) \/ Die(p)
      PROVE  Shapes'
  <2>1. End(p) /\ disk' = disk /\ clock' = clock /\ begun' = begun
    BY <1>1 DEF Refuse, WriteElsewhere, Close, NothingToRead, Exit, Die
  <2> QED BY <2>1, EndFacts DEF Shapes
<1>2. ASSUME NEW p \in Procs, BeginPack(p) \/ BeginExplain(p) PROVE Shapes'
  <2>1. begun' \in 0 .. Commands
    BY <1>2, BoundsAssumption DEF BeginPack, BeginExplain, Shapes
  <2> QED BY <1>2, <2>1 DEF BeginPack, BeginExplain, Shapes
<1>3. ASSUME NEW p \in Procs, Build(p) \/ PrintPack(p) \/ List(p) \/ ReadPack(p) PROVE Shapes'
  BY <1>3 DEF Build, PrintPack, List, ReadPack, Shapes
<1>4. ASSUME NEW p \in Procs, Truncate(p) PROVE Shapes'
  BY <1>4 DEF Truncate, Emptied, Shapes
<1>5. ASSUME NEW p \in Procs, WriteBlock(p) PROVE Shapes'
  BY <1>5 DEF WriteBlock, Shapes
<1>6. CASE Tick
  BY <1>6 DEF Tick, proc, Shapes
<1>7. CASE Finished \/ UNCHANGED vars
  BY <1>7 DEF Finished, vars, Shapes
<1> QED BY <1>1, <1>2, <1>3, <1>4, <1>5, <1>6, <1>7 DEF Next

\* Of the step of a process, what it makes, of the others, nothing changes.
LEMMA MakingStep == Shapes /\ Making /\ [Next]_vars => Making'
<1> SUFFICES ASSUME Shapes, Making, [Next]_vars PROVE Making'
  OBVIOUS
<1> DEFINE Made(p) ==
             /\ pc[p] = "parsed" /\ opt[p].command = "pack" /\ ~opt[p].refused => HasPack(p)
             /\ pc[p] \in {"built", "writing"} => HasPack(p)
             /\ pc[p] \notin {"writing"} => offset[p] = 0
             /\ pc[p] = "writing" =>
                  at[p] \in Outputs /\ offset[p] \in 0 .. Len(Blocks(opt[p].task))
<1>0. /\ \A q \in Procs : Made(q)
      /\ (\A q \in Procs : Made(q)') => Making'
  BY DEF Making
<1>s. ASSUME NEW q \in Procs, pc'[q] = pc[q], opt'[q] = opt[q], offset'[q] = offset[q], at'[q] = at[q]
      PROVE  Made(q)'
  BY <1>0, <1>s DEF HasPack, Blocks
<1> HIDE DEF Made
<1>1. ASSUME NEW p \in Procs, Refuse(p) \/ WriteElsewhere(p) \/ Close(p) \/ NothingToRead(p)
                             \/ Exit(p) \/ Die(p)
      PROVE  Making'
  <2>1. End(p)
    BY <1>1 DEF Refuse, WriteElsewhere, Close, NothingToRead, Exit, Die
  <2>2. Made(p)'
    BY <2>1, EndFacts DEF Made
  <2> QED BY <1>0, <1>s, <2>1, <2>2, EndFacts
<1>2. ASSUME NEW p \in Procs, BeginPack(p) PROVE Making'
  <2>1. PICK list \in PackArgs(begun') : opt' = [opt EXCEPT ![p] = PackOpt(list)]
    BY <1>2 DEF BeginPack
  <2>2. begun' \in 1 .. Commands
    BY <1>2, BoundsAssumption DEF BeginPack, Shapes
  <2>3. ~PackOpt(list).refused =>
          /\ DOMAIN PackOpt(list) = PackFields /\ PackOpt(list).command = "pack"
          /\ Sections(PackOpt(list).task) \in Seq(STRING) \ {<<>>}
    BY <2>2, PackOptFacts
  <2>4. opt'[p] = PackOpt(list) /\ pc'[p] = "parsed" /\ offset'[p] = 0
    BY <1>0, <1>2, <2>1 DEF BeginPack, Shapes, Made
  <2>5. Made(p)'
    BY <2>3, <2>4 DEF Made, HasPack
  <2> QED BY <1>0, <1>2, <1>s, <2>1, <2>5 DEF BeginPack, Shapes
<1>3. ASSUME NEW p \in Procs, BeginExplain(p) PROVE Making'
  <2>1. PICK list \in ExplainArgs : opt' = [opt EXCEPT ![p] = ExplainOpt(list)]
    BY <1>3 DEF BeginExplain
  <2>2. opt'[p].command = "explain" /\ pc'[p] = "parsed" /\ offset'[p] = 0
    BY <1>0, <1>3, <2>1 DEF BeginExplain, Shapes, ExplainOpt, Made
  <2>3. Made(p)'
    BY <2>2 DEF Made
  <2> QED BY <1>0, <1>3, <1>s, <2>1, <2>3 DEF BeginExplain, Shapes
<1>4. ASSUME NEW p \in Procs, Build(p) PROVE Making'
  <2>1. HasPack(p) /\ offset[p] = 0
    BY <1>0, <1>4 DEF Build, Made
  <2>2. DOMAIN opt'[p] = DOMAIN opt[p] /\ opt'[p].task = opt[p].task
        /\ opt'[p].command = opt[p].command
    BY <1>4, <2>1 DEF Build, Shapes, HasPack, PackFields
  <2>3. Made(p)'
    BY <1>4, <2>1, <2>2 DEF Made, HasPack, Build, Shapes
  <2> QED BY <1>0, <1>4, <1>s, <2>3 DEF Build, Shapes
<1>5. ASSUME NEW p \in Procs, PrintPack(p) \/ List(p) \/ ReadPack(p) PROVE Making'
  <2>1. pc[p] \in {"built", "parsed", "listed"} /\ pc'[p] \in {"shown", "listed"}
        /\ offset' = offset
    BY <1>5 DEF PrintPack, List, ReadPack, Shapes
  <2>2. Made(p)'
    BY <1>0, <2>1 DEF Made
  <2>3. \A q \in Procs \ {p} : pc'[q] = pc[q] /\ opt'[q] = opt[q] /\ at'[q] = at[q]
    BY <1>5 DEF PrintPack, List, ReadPack, Shapes
  <2> QED BY <1>0, <1>s, <2>1, <2>2, <2>3
<1>6. ASSUME NEW p \in Procs, Truncate(p) PROVE Making'
  <2>1. /\ HasPack(p) /\ offset[p] = 0 /\ opt' = opt /\ offset' = offset
        /\ at'[p] = opt[p].output /\ opt[p].output \in Outputs /\ pc'[p] = "writing"
    BY <1>0, <1>6 DEF Truncate, Emptied, Made, Shapes
  <2>2. Len(Blocks(opt[p].task)) \in Nat
    BY <2>1, BlocksFacts DEF HasPack
  <2>3. Made(p)'
    BY <2>1, <2>2 DEF Made, HasPack, Blocks
  <2> QED BY <1>0, <1>6, <1>s, <2>3 DEF Truncate, Emptied, Shapes
<1>7. ASSUME NEW p \in Procs, WriteBlock(p) PROVE Making'
  <2>1. /\ HasPack(p) /\ offset[p] \in 0 .. Len(Blocks(opt[p].task)) /\ at[p] \in Outputs
        /\ opt' = opt /\ at' = at /\ pc' = pc /\ pc[p] = "writing"
        /\ offset' = [offset EXCEPT ![p] = offset[p] + 1] /\ offset[p] + 1 <= Len(Blocks(opt[p].task))
    BY <1>0, <1>7 DEF WriteBlock, Made
  <2>2. Len(Blocks(opt[p].task)) \in Nat
    BY <2>1, BlocksFacts DEF HasPack
  <2>3. Made(p)'
    BY <2>1, <2>2 DEF Made, HasPack, Blocks, Shapes
  <2> QED BY <1>0, <1>s, <2>1, <2>3 DEF Shapes
<1>8. CASE Tick \/ Finished \/ UNCHANGED vars
  BY <1>0, <1>8, <1>s DEF Tick, Finished, vars, proc
<1> QED BY <1>1, <1>2, <1>3, <1>4, <1>5, <1>6, <1>7, <1>8 DEF Next

\* Who writes, what and how far, and whether a file is undisturbed: a step that
\* changes none of this for the worse keeps the files as they are said to be.
LEMMA QuietStep ==
  ASSUME Shapes, Undisturbed, PackIsWhole, disk' = disk, disturbed \subseteq disturbed',
         \A q \in Procs : pc'[q] = "writing" =>
           pc[q] = "writing" /\ at'[q] = at[q] /\ opt'[q] = opt[q] /\ offset'[q] = offset[q],
         \A q \in Procs : pc[q] = "writing" /\ pc'[q] # "writing" => at[q] \in disturbed'
  PROVE  Undisturbed' /\ PackIsWhole'
<1>1. Undisturbed'
  BY DEF Undisturbed, Blocks
<1>2. PackIsWhole'
  <2> SUFFICES ASSUME NEW f \in Present, f \notin disturbed', Writers(f)' = {}
               PROVE  disk[f].blocks # <<>> /\ disk[f].blocks = Blocks(disk[f].blocks[1][1])
    BY DEF PackIsWhole, Present, Blocks
  <2>1. Writers(f) = {}
    BY DEF Writers
  <2> QED BY <2>1 DEF PackIsWhole
<1> QED BY <1>1, <1>2

\* A pack that is emptied has one writer, or is disturbed from now on.
LEMMA TruncateStep ==
  ASSUME IInv, NEW p \in Procs, Truncate(p)
  PROVE  Undisturbed' /\ PackIsWhole'
<1> DEFINE file == opt[p].output
<1>1. /\ pc[p] = "built" /\ file \in Outputs /\ offset[p] = 0
      /\ disk' = [disk EXCEPT ![file] = [mtime |-> clock, blocks |-> <<>>]]
      /\ disturbed' = IF Writers(file) = {} THEN disturbed \ {file} ELSE disturbed \cup {file}
      /\ opt' = opt /\ offset' = offset
  BY DEF Truncate, Emptied, IInv, Shapes, Making
<1>2. /\ pc'[p] = "writing" /\ at'[p] = file
      /\ \A q \in Procs \ {p} : pc'[q] = pc[q] /\ at'[q] = at[q]
  BY DEF Truncate, Emptied, IInv, Shapes
<1>3. \A f \in Outputs \ {file} : disk'[f] = disk[f] /\ (f \in disturbed' <=> f \in disturbed)
  BY <1>1 DEF IInv, Shapes
<1>4. disk'[file].blocks = <<>>
  BY <1>1 DEF IInv, Shapes
<1>5. Undisturbed'
  <2> SUFFICES ASSUME NEW q \in Procs, pc'[q] = "writing", at'[q] \notin disturbed'
               PROVE  /\ \A r \in Procs : pc'[r] = "writing" /\ at'[r] = at'[q] => r = q
                      /\ disk'[at'[q]].blocks = [k \in 1 .. offset'[q] |-> Blocks(opt'[q].task)[k]]
    BY DEF Undisturbed, Blocks
  <2>1. CASE at'[q] = file
    <3>1. Writers(file) = {}
      BY <1>1, <2>1
    <3>2. \A r \in Procs : pc'[r] = "writing" /\ at'[r] = file => r = p
      BY <1>2, <3>1 DEF Writers
    <3>3. q = p
      BY <2>1, <3>2
    <3>4. [k \in 1 .. 0 |-> Blocks(opt[p].task)[k]] = <<>>
      OBVIOUS
    <3> QED BY <1>1, <1>4, <2>1, <3>2, <3>3, <3>4
  <2>2. CASE at'[q] # file
    <3>1. q # p /\ pc[q] = "writing" /\ at[q] = at'[q] /\ at[q] \in Outputs
      BY <1>2, <2>2 DEF IInv, Making
    <3>2. /\ at[q] \notin disturbed
          /\ \A r \in Procs : pc[r] = "writing" /\ at[r] = at[q] => r = q
          /\ disk[at[q]].blocks = [k \in 1 .. offset[q] |-> Blocks(opt[q].task)[k]]
      BY <1>3, <2>2, <3>1 DEF IInv, Undisturbed
    <3> QED BY <1>1, <1>2, <1>3, <2>2, <3>1, <3>2
  <2> QED BY <2>1, <2>2
<1>6. PackIsWhole'
  <2> SUFFICES ASSUME NEW f \in Outputs, f \in Present', f \notin disturbed', Writers(f)' = {}
               PROVE  /\ disk'[f].blocks # <<>>
                      /\ disk'[f].blocks = Blocks(disk'[f].blocks[1][1])
    BY <1>1 DEF PackIsWhole, Present, Blocks, IInv, Shapes
  <2>1. f # file
    BY <1>2 DEF Writers
  <2>2. disk'[f] = disk[f] /\ f \in Present /\ f \notin disturbed
    BY <1>3, <2>1 DEF Present, IInv, Shapes
  <2>3. Writers(f) = {}
    BY <1>1, <1>2 DEF Writers
  <2> QED BY <2>2, <2>3 DEF IInv, PackIsWhole
<1> QED BY <1>5, <1>6

\* A block that is written is the next one of the only writer, or goes to a
\* disturbed file.
LEMMA BlockStep ==
  ASSUME IInv, NEW p \in Procs, WriteBlock(p)
  PROVE  Undisturbed' /\ PackIsWhole'
<1> DEFINE f0 == at[p]
           n == offset[p] + 1
           pack == Blocks(opt[p].task)
<1>1. /\ pc[p] = "writing" /\ f0 \in Outputs /\ n \in Nat \ {0} /\ n <= Len(pack)
      /\ disk' = [disk EXCEPT ![f0] = [mtime |-> clock, blocks |-> Overlaid(disk[f0].blocks, n, pack[n])]]
      /\ offset' = [offset EXCEPT ![p] = n]
      /\ pc' = pc /\ opt' = opt /\ at' = at /\ disturbed' = disturbed
  BY DEF WriteBlock, IInv, Making
<1>2. /\ disk'[f0].blocks = Overlaid(disk[f0].blocks, n, pack[n])
      /\ \A f \in Outputs \ {f0} : disk'[f] = disk[f]
      /\ offset'[p] = n /\ \A q \in Procs \ {p} : offset'[q] = offset[q]
  BY <1>1 DEF IInv, Shapes
<1>3. f0 \notin disturbed =>
        /\ \A q \in Procs : pc[q] = "writing" /\ at[q] = f0 => q = p
        /\ disk'[f0].blocks = [k \in 1 .. n |-> pack[k]]
  <2> SUFFICES ASSUME f0 \notin disturbed
               PROVE  /\ \A q \in Procs : pc[q] = "writing" /\ at[q] = f0 => q = p
                      /\ disk'[f0].blocks = [k \in 1 .. n |-> pack[k]]
    OBVIOUS
  <2> DEFINE old == [k \in 1 .. n - 1 |-> pack[k]]
  <2>1. disk[f0].blocks = old /\ \A q \in Procs : pc[q] = "writing" /\ at[q] = f0 => q = p
    <3>1. n - 1 = offset[p]
      BY <1>1 DEF IInv, Making
    <3> QED BY <1>1, <3>1 DEF IInv, Undisturbed
  <2>2. Len(old) = n - 1 /\ DOMAIN old = 1 .. n - 1
    BY <1>1
  <2>3. Overlaid(old, n, pack[n]) = [k \in 1 .. n |-> pack[k]]
    <3> HIDE DEF pack, n
    <3> QED BY <1>1, <2>2 DEF Overlaid
  <2> QED BY <1>2, <2>1, <2>3
<1>4. Undisturbed'
  <2> SUFFICES ASSUME NEW q \in Procs, pc'[q] = "writing", at'[q] \notin disturbed'
               PROVE  /\ \A r \in Procs : pc'[r] = "writing" /\ at'[r] = at'[q] => r = q
                      /\ disk'[at'[q]].blocks = [k \in 1 .. offset'[q] |-> Blocks(opt'[q].task)[k]]
    BY DEF Undisturbed, Blocks
  <2>0. pc[q] = "writing" /\ at[q] \notin disturbed
    BY <1>1
  <2>1. CASE q = p
    BY <1>1, <1>2, <1>3, <2>0, <2>1
  <2>2. CASE q # p
    <3>1. /\ \A r \in Procs : pc[r] = "writing" /\ at[r] = at[q] => r = q
          /\ disk[at[q]].blocks = [k \in 1 .. offset[q] |-> Blocks(opt[q].task)[k]]
      BY <2>0 DEF IInv, Undisturbed
    <3>2. at[q] # f0 /\ at[q] \in Outputs
      BY <1>1, <2>0, <2>2, <3>1 DEF IInv, Making
    <3>3. disk'[at[q]] = disk[at[q]] /\ offset'[q] = offset[q]
      BY <1>2, <2>2, <3>2
    <3>4. opt'[q] = opt[q] /\ at'[q] = at[q]
      BY <1>1
    <3>5. \A r \in Procs : pc'[r] = "writing" /\ at'[r] = at'[q] => r = q
      BY <1>1, <3>1
    <3> QED BY <3>1, <3>3, <3>4, <3>5
  <2> QED BY <2>1, <2>2
<1>5. PackIsWhole'
  <2> SUFFICES ASSUME NEW f \in Outputs, f \in Present', f \notin disturbed, Writers(f)' = {}
               PROVE  /\ disk'[f].blocks # <<>>
                      /\ disk'[f].blocks = Blocks(disk'[f].blocks[1][1])
    BY <1>1 DEF PackIsWhole, Present, Blocks, IInv, Shapes
  <2>1. f # f0 /\ Writers(f) = {}
    BY <1>1 DEF Writers
  <2> QED BY <1>2, <2>1 DEF IInv, PackIsWhole, Present, Shapes
<1> QED BY <1>4, <1>5

\* The only writer of a pack that closes it has written all of it.
LEMMA CloseStep ==
  ASSUME IInv, NEW p \in Procs, Close(p)
  PROVE  Undisturbed' /\ PackIsWhole'
<1>1. /\ End(p) /\ pc[p] = "writing" /\ offset[p] = Len(Blocks(opt[p].task))
      /\ disk' = disk /\ disturbed' = disturbed
  BY DEF Close
<1>2. pc'[p] # "writing"
      /\ \A q \in Procs \ {p} : /\ pc'[q] = pc[q] /\ at'[q] = at[q]
                               /\ opt'[q] = opt[q] /\ offset'[q] = offset[q]
  BY <1>1, EndFacts DEF IInv
<1>3. Undisturbed'
  <2> SUFFICES ASSUME NEW q \in Procs, pc'[q] = "writing", at'[q] \notin disturbed'
               PROVE  /\ \A r \in Procs : pc'[r] = "writing" /\ at'[r] = at'[q] => r = q
                      /\ disk'[at'[q]].blocks = [k \in 1 .. offset'[q] |-> Blocks(opt'[q].task)[k]]
    BY DEF Undisturbed, Blocks
  <2>1. pc[q] = "writing" /\ at[q] \notin disturbed /\ opt'[q] = opt[q] /\ offset'[q] = offset[q]
        /\ at'[q] = at[q]
    BY <1>1, <1>2
  <2>2. /\ \A r \in Procs : pc[r] = "writing" /\ at[r] = at[q] => r = q
        /\ disk[at[q]].blocks = [k \in 1 .. offset[q] |-> Blocks(opt[q].task)[k]]
    BY <2>1 DEF IInv, Undisturbed
  <2>3. \A r \in Procs : pc'[r] = "writing" /\ at'[r] = at'[q] => r = q
    BY <1>1, <1>2, <2>1, <2>2
  <2> QED BY <1>1, <2>1, <2>2, <2>3
<1>4. PackIsWhole'
  <2> SUFFICES ASSUME NEW f \in Present, f \notin disturbed, Writers(f)' = {}
               PROVE  disk[f].blocks # <<>> /\ disk[f].blocks = Blocks(disk[f].blocks[1][1])
    BY <1>1 DEF PackIsWhole, Present, Blocks
  <2>1. CASE f = at[p]
    <3>1. disk[f].blocks = Blocks(opt[p].task)
      BY <1>1, <2>1, BlocksFacts DEF IInv, Undisturbed, Making, HasPack
    <3> QED BY <1>1, <3>1, BlocksFacts DEF IInv, Making, HasPack
  <2>2. CASE f # at[p]
    <3>1. Writers(f) = {}
      BY <1>2, <2>2 DEF Writers
    <3> QED BY <3>1 DEF IInv, PackIsWhole
  <2> QED BY <2>1, <2>2
<1> QED BY <1>3, <1>4
-----------------------------------------------------------------------------
(* The theorem.                                                             *)

LEMMA Steps == IInv /\ [Next]_vars => Undisturbed' /\ PackIsWhole'
<1> SUFFICES ASSUME IInv, [Next]_vars PROVE Undisturbed' /\ PackIsWhole'
  OBVIOUS
<1>1. ASSUME NEW p \in Procs, Truncate(p) PROVE Undisturbed' /\ PackIsWhole'
  BY <1>1, TruncateStep
<1>2. ASSUME NEW p \in Procs, WriteBlock(p) PROVE Undisturbed' /\ PackIsWhole'
  BY <1>2, BlockStep
<1>3. ASSUME NEW p \in Procs, Close(p) PROVE Undisturbed' /\ PackIsWhole'
  BY <1>3, CloseStep
<1>4. ASSUME NEW p \in Procs, BeginPack(p) \/ BeginExplain(p) \/ Build(p) \/ PrintPack(p)
                             \/ List(p) \/ ReadPack(p)
      PROVE  Undisturbed' /\ PackIsWhole'
  <2>1. /\ pc[p] # "writing" /\ pc'[p] # "writing" /\ disk' = disk /\ disturbed' = disturbed
        /\ \A q \in Procs \ {p} : /\ pc'[q] = pc[q] /\ at'[q] = at[q]
                                 /\ opt'[q] = opt[q] /\ offset'[q] = offset[q]
    BY <1>4 DEF BeginPack, BeginExplain, Build, PrintPack, List, ReadPack, IInv, Shapes
  <2> QED BY <2>1, QuietStep DEF IInv
<1>5. ASSUME NEW p \in Procs, Refuse(p) \/ WriteElsewhere(p) \/ NothingToRead(p) \/ Exit(p) \/ Die(p)
      PROVE  Undisturbed' /\ PackIsWhole'
  <2>1. /\ End(p) /\ disk' = disk /\ disturbed \subseteq disturbed'
        /\ pc[p] = "writing" => at[p] \in disturbed'
    BY <1>5 DEF Refuse, WriteElsewhere, NothingToRead, Exit, Die
  <2>2. /\ pc'[p] # "writing"
        /\ \A q \in Procs \ {p} : /\ pc'[q] = pc[q] /\ at'[q] = at[q]
                                 /\ opt'[q] = opt[q] /\ offset'[q] = offset[q]
    BY <2>1, EndFacts DEF IInv
  <2> QED BY <2>1, <2>2, QuietStep DEF IInv
<1>6. CASE Tick \/ Finished \/ UNCHANGED vars
  <2>1. UNCHANGED <<pc, opt, offset, at, disk, disturbed>>
    BY <1>6 DEF Tick, Finished, vars, proc
  <2> QED BY <2>1, QuietStep DEF IInv
<1> QED BY <1>1, <1>2, <1>3, <1>4, <1>5, <1>6 DEF Next

LEMMA IInvStep == IInv /\ [Next]_vars => IInv'
BY ShapesStep, MakingStep, Steps DEF IInv

LEMMA Invariance == Spec => []IInv
BY InitIInv, IInvStep, PTL DEF Spec

\* However many packs are made at a time, of tasks with one file or with many,
\* and wherever they die: a pack file that nobody is writing, that no two writers
\* had open at a time and no writer left unfinished, is one whole pack.
THEOREM WholePacks == Spec => []PackIsWhole
<1>1. IInv => PackIsWhole
  BY DEF IInv
<1> QED BY Invariance, <1>1, PTL
-----------------------------------------------------------------------------
(* What explain shows of a pack.                                            *)

LEMMA LeastNat ==
  ASSUME NEW T \in SUBSET Nat, T # {}
  PROVE  \E x \in T : \A y \in T : x <= y
<1> DEFINE R == {ss \in Nat \X Nat : ss[1] < ss[2]}
<1>1. IsWellFoundedOn(R, Nat)
  BY NatLessThanWellFounded DEF OpToRel
<1>2. PICK x \in T : \A y \in T : ~(<<y, x>> \in R)
  BY <1>1, WFMin
<1>3. ASSUME NEW y \in T PROVE x <= y
  <2>1. x \in Nat /\ y \in Nat /\ <<y, x>> \in Nat \X Nat
    OBVIOUS
  <2>2. ~(y < x)
    BY <1>2, <2>1
  <2> QED BY <2>1, <2>2
<1> QED BY <1>3

LEMMA MinFacts ==
  ASSUME NEW T \in SUBSET Nat, T # {}
  PROVE  Min(T) \in T /\ \A y \in T : Min(T) <= y
BY LeastNat DEF Min

\* Of a whole pack, the excerpt of a section is its first block of that name.
LEMMA ExcerptFacts ==
  ASSUME NEW task, Sections(task) \in Seq(STRING) \ {<<>>}, NEW s
  PROVE  Excerpt(Blocks(task), s) =
           IF s \in ToSet(Sections(task)) THEN << <<task, s>> >> ELSE <<>>
<1> DEFINE blocks == Blocks(task)
           n == Len(Sections(task))
           starts == {k \in 1 .. n : Sections(task)[k] = s}
           first == Min(starts)
           next == {k \in 1 .. n : k > first}
<1>1. /\ DOMAIN Sections(task) = 1 .. n /\ n \in Nat \ {0}
      /\ \A k \in 1 .. n : Sections(task)[k] \in STRING
  OBVIOUS
<1>2. /\ blocks = [k \in 1 .. n |-> <<task, Sections(task)[k]>>]
      /\ blocks \in Seq({task} \X STRING) /\ Len(blocks) = n /\ DOMAIN blocks = 1 .. n
  BY <1>1 DEF Blocks
<1>3. \A k \in 1 .. n : blocks[k] # <<"zeros">> /\ blocks[k][2] = Sections(task)[k]
  BY <1>2
<1>4. Excerpt(blocks, s) =
        IF starts = {} THEN <<>>
        ELSE SubSeq(blocks, first, IF next = {} THEN Len(blocks) ELSE Min(next) - 1)
  <2>1. {k \in DOMAIN blocks : blocks[k] # <<"zeros">> /\ blocks[k][2] = s} = starts
    BY <1>2, <1>3
  <2>2. {k \in DOMAIN blocks : blocks[k] # <<"zeros">> /\ k > first} = next
    BY <1>2, <1>3
  <2> HIDE DEF blocks, starts, next
  <2> QED BY <2>1, <2>2 DEF Excerpt, first
<1>5. s \in ToSet(Sections(task)) <=> starts # {}
  BY <1>1 DEF ToSet
<1> HIDE DEF n
<1>6. CASE starts = {}
  BY <1>4, <1>5, <1>6
<1>7. CASE starts # {}
  <2>1. starts \in SUBSET Nat
    BY <1>1, 1 .. n \in SUBSET Nat
  <2>2. first \in 1 .. n /\ Sections(task)[first] = s
    BY <1>7, <2>1, MinFacts
  <2>3. (IF next = {} THEN n ELSE Min(next) - 1) = first
    <3>1. CASE next = {}
      <4>0. n \in 1 .. n
        BY <1>1
      <4>1. ~(n > first)
        BY <4>0, <3>1
      <4> HIDE DEF first
      <4>2. first = n
        BY <1>1, <2>2, <4>1
      <4> QED BY <3>1, <4>2
    <3>2. CASE next # {}
      <4>1. next \in SUBSET Nat
        BY 1 .. n \in SUBSET Nat
      <4>2. Min(next) \in next /\ \A y \in next : Min(next) <= y
        BY <3>2, <4>1, MinFacts
      <4>3. first + 1 \in next
        <5>1. PICK k \in 1 .. n : k > first
          BY <3>2
        <5> HIDE DEF first
        <5>2. first + 1 \in 1 .. n /\ first + 1 > first
          BY <1>1, <2>2, <5>1
        <5> QED BY <5>2
      <4> HIDE DEF next
      <4>4. Min(next) > first /\ Min(next) <= first + 1 /\ Min(next) \in Nat
        <5>1. Min(next) \in {k \in 1 .. n : k > first}
          BY <4>2 DEF next
        <5> QED BY <1>1, <4>2, <4>3, <5>1
      <4> HIDE DEF first
      <4> QED BY <2>2, <3>2, <4>4
    <3> QED BY <3>1, <3>2
  <2>4. Excerpt(blocks, s) = SubSeq(blocks, first, first)
    BY <1>2, <1>4, <1>7, <2>3
  <2>5. SubSeq(blocks, first, first) = << <<task, s>> >>
    <3> HIDE DEF first
    <3>1. blocks[first] = <<task, s>>
      BY <1>2, <2>2
    <3> HIDE DEF blocks
    <3>2. /\ SubSeq(blocks, first, first) \in Seq({blocks[first]})
          /\ Len(SubSeq(blocks, first, first)) = 1
          /\ SubSeq(blocks, first, first)[1] = blocks[first]
      <4>1. first \in Int /\ first - first + 1 = 1 /\ first + 1 - 1 = first
        BY <2>2
      <4>2. \A k \in first .. first : blocks[k] \in {blocks[first]}
        BY <4>1
      <4> HIDE DEF blocks
      <4> QED BY <4>1, <4>2, SubSeqProperties
    <3>3. \A q \in Seq({blocks[first]}) : Len(q) = 1 /\ q[1] = blocks[first] => q = <<blocks[first]>>
      <4> HIDE DEF blocks
      <4> QED OBVIOUS
    <3> QED BY <3>1, <3>2, <3>3
  <2> QED BY <1>5, <1>7, <2>4, <2>5
<1> QED BY <1>6, <1>7

\* What explain shows of a whole pack is what it is to show.
LEMMA WholeExcerpt ==
  ASSUME NEW task, Sections(task) \in Seq(STRING) \ {<<>>}
  PROVE  LET part(k) == IF Explained[k] \in ToSet(Sections(task))
                        THEN << <<task, Explained[k]>> >> ELSE <<>>
         IN  ExcerptOf(Blocks(task)) = part(1) \o part(2) \o part(3)
<1>1. \A s : Excerpt(Blocks(task), s) =
               IF s \in ToSet(Sections(task)) THEN << <<task, s>> >> ELSE <<>>
  BY ExcerptFacts
<1> DEFINE part(k) == IF Explained[k] \in ToSet(Sections(task))
                      THEN << <<task, Explained[k]>> >> ELSE <<>>
<1>2. /\ Excerpt(Blocks(task), Explained[1]) = part(1)
      /\ Excerpt(Blocks(task), Explained[2]) = part(2)
      /\ Excerpt(Blocks(task), Explained[3]) = part(3)
  BY <1>1
<1> HIDE DEF part
<1>3. ExcerptOf(Blocks(task)) = part(1) \o part(2) \o part(3)
  BY <1>2 DEF ExcerptOf
<1> QED BY <1>3 DEF part

-----------------------------------------------------------------------------
(* The invariant of explain.                                                *)

ExplainFields == {"command", "refused", "expects", "file"}

\* The last pack to get its last block is on disk, as long as nothing is written.
NewestWhole ==
  /\ DOMAIN newest = {"file", "task", "alone"}
  /\ newest.alone =>
       /\ newest.file \in Outputs /\ disk[newest.file].mtime > 0
       /\ Sections(newest.task) \in Seq(STRING) \ {<<>>}
       /\ newest.file \notin disturbed => disk[newest.file].blocks = Blocks(newest.task)

Explains(p) == opt[p].command = "explain"
AsksLatest(p) == opt[p].file = "latest" /\ opt[p].expects # NoPack

\* Whoever listed the packs while one was clearly the latest has picked that one,
\* and shows it whole.
Picked ==
  \A p \in Procs :
    /\ pc[p] = "parsed" /\ Explains(p) /\ ~opt[p].refused => DOMAIN opt[p] = ExplainFields
    /\ pc[p] = "listed" =>
         /\ Explains(p) /\ DOMAIN opt[p] = ExplainFields
         /\ AsksLatest(p) => at[p] = opt[p].expects.file
    /\ pc[p] = "shown" /\ Explains(p) /\ AsksLatest(p) =>
         /\ Sections(opt[p].expects.task) \in Seq(STRING) \ {<<>>}
         /\ shown[p] = ExcerptOf(Blocks(opt[p].expects.task))

\* Times are times.
Timed == \A f \in Outputs : disk[f].mtime \in Nat

EInv == IInv /\ Timed /\ NewestWhole /\ Picked

LEMMA InitEInv == Init => EInv
<1>1. Init => Timed
  BY DEF Init, Timed, Absent
<1>2. Init => NewestWhole
  BY DEF Init, NewestWhole, NoPack
<1>3. Init => Picked
  BY DEF Init, Picked
<1> QED BY <1>1, <1>2, <1>3, InitIInv DEF EInv

LEMMA TimedStep == EInv /\ [Next]_vars => Timed'
<1> SUFFICES ASSUME EInv, [Next]_vars PROVE Timed'
  OBVIOUS
<1>1. disk' = disk => Timed'
  BY DEF EInv, Timed
<1>2. clock \in Nat /\ DOMAIN disk = Outputs
  BY DEF EInv, IInv, Shapes
<1>3. ASSUME NEW p \in Procs, Truncate(p) PROVE Timed'
  <2>1. PICK f, b : disk' = [disk EXCEPT ![f] = [mtime |-> clock, blocks |-> b]]
    BY <1>3 DEF Truncate, Emptied
  <2> QED BY <1>2, <2>1 DEF EInv, Timed
<1>4. ASSUME NEW p \in Procs, WriteBlock(p) PROVE Timed'
  <2>1. PICK f, b : disk' = [disk EXCEPT ![f] = [mtime |-> clock, blocks |-> b]]
    BY <1>4 DEF WriteBlock
  <2> QED BY <1>2, <2>1 DEF EInv, Timed
<1>5. ASSUME NEW p \in Procs, ~Truncate(p), ~WriteBlock(p),
             \/ BeginPack(p) \/ Refuse(p) \/ Build(p) \/ PrintPack(p) \/ WriteElsewhere(p)
             \/ Truncate(p) \/ WriteBlock(p) \/ Close(p)
             \/ BeginExplain(p) \/ List(p) \/ ReadPack(p) \/ NothingToRead(p) \/ Exit(p) \/ Die(p)
      PROVE  disk' = disk
  BY <1>5 DEF BeginPack, Refuse, Build, PrintPack, WriteElsewhere, Close, BeginExplain, List,
              ReadPack, NothingToRead, Exit, Die
<1>6. CASE Tick \/ Finished \/ UNCHANGED vars
  BY <1>1, <1>6 DEF Tick, Finished, vars
<1> QED BY <1>1, <1>3, <1>4, <1>5, <1>6 DEF Next

LEMMA NewestStep == EInv /\ [Next]_vars => NewestWhole'
<1> SUFFICES ASSUME EInv, [Next]_vars PROVE NewestWhole'
  OBVIOUS
<1>1. newest' = newest /\ disk' = disk /\ disturbed \subseteq disturbed' => NewestWhole'
  BY DEF EInv, NewestWhole, Blocks
<1>2. newest' = [newest EXCEPT !.alone = FALSE] => NewestWhole'
  <2>1. newest' = [newest EXCEPT !.alone = FALSE] => ~newest'.alone
    BY DEF EInv, NewestWhole
  <2> QED BY <2>1 DEF EInv, NewestWhole
<1>3. ASSUME NEW p \in Procs, Truncate(p) PROVE NewestWhole'
  BY <1>2, <1>3 DEF Truncate, Emptied
<1>4. ASSUME NEW p \in Procs, WriteBlock(p) PROVE NewestWhole'
  <2>1. CASE offset'[p] = Len(Blocks(opt[p].task))
    <3>1. /\ newest' = [file |-> at[p], task |-> opt[p].task, alone |-> TRUE]
          /\ pc'[p] = "writing" /\ at' = at /\ opt' = opt
      BY <1>4, <2>1 DEF WriteBlock
    <3>2. /\ DOMAIN newest' = {"file", "task", "alone"}
          /\ newest'.file = at[p] /\ newest'.task = opt[p].task
      BY <3>1
    <3>3. /\ at[p] \in Outputs /\ Sections(opt[p].task) \in Seq(STRING) \ {<<>>}
      BY <1>4 DEF WriteBlock, EInv, IInv, Making, HasPack
    <3>4. disk'[at[p]].mtime = clock /\ clock > 0
      BY <1>4, <3>3 DEF WriteBlock, EInv, IInv, Shapes
    <3>5. Undisturbed'
      BY <1>4, BlockStep DEF EInv
    <3>6. at[p] \notin disturbed' =>
            disk'[at[p]].blocks = [k \in 1 .. offset'[p] |-> Blocks(opt[p].task)[k]]
      BY <3>1, <3>5 DEF Undisturbed, Blocks
    <3>7. Blocks(opt[p].task) = [k \in 1 .. offset'[p] |-> Blocks(opt[p].task)[k]]
      BY <2>1, <3>3, BlocksFacts
    <3> QED BY <3>2, <3>3, <3>4, <3>6, <3>7 DEF NewestWhole, Blocks
  <2>2. CASE offset'[p] # Len(Blocks(opt[p].task))
    BY <1>2, <1>4, <2>2 DEF WriteBlock
  <2> QED BY <2>1, <2>2
<1>5. ASSUME NEW p \in Procs, ~Truncate(p), ~WriteBlock(p),
             \/ BeginPack(p) \/ Refuse(p) \/ Build(p) \/ PrintPack(p) \/ WriteElsewhere(p)
             \/ Truncate(p) \/ WriteBlock(p) \/ Close(p)
             \/ BeginExplain(p) \/ List(p) \/ ReadPack(p) \/ NothingToRead(p) \/ Exit(p) \/ Die(p)
      PROVE  newest' = newest /\ disk' = disk /\ disturbed \subseteq disturbed'
  BY <1>5 DEF BeginPack, Refuse, Build, PrintPack, WriteElsewhere, Close, BeginExplain, List,
              ReadPack, NothingToRead, Exit, Die
<1>6. CASE Tick \/ Finished \/ UNCHANGED vars
  BY <1>1, <1>6 DEF Tick, Finished, vars
<1> QED BY <1>1, <1>3, <1>4, <1>5, <1>6 DEF Next

LEMMA PickedStep == EInv /\ [Next]_vars => Picked'
<1> SUFFICES ASSUME EInv, [Next]_vars PROVE Picked'
  OBVIOUS
<1> DEFINE P(p) ==
      /\ pc[p] = "parsed" /\ Explains(p) /\ ~opt[p].refused => DOMAIN opt[p] = ExplainFields
      /\ pc[p] = "listed" =>
           /\ Explains(p) /\ DOMAIN opt[p] = ExplainFields
           /\ AsksLatest(p) => at[p] = opt[p].expects.file
      /\ pc[p] = "shown" /\ Explains(p) /\ AsksLatest(p) =>
           /\ Sections(opt[p].expects.task) \in Seq(STRING) \ {<<>>}
           /\ shown[p] = ExcerptOf(Blocks(opt[p].expects.task))
<1>0. /\ \A p \in Procs : P(p)
      /\ (\A p \in Procs : P(p)') => Picked'
      /\ Shapes
  BY DEF EInv, IInv, Picked
<1>s. ASSUME NEW q \in Procs, pc'[q] = pc[q], opt'[q] = opt[q], at'[q] = at[q], shown'[q] = shown[q]
      PROVE  P(q)'
  BY <1>0, <1>s DEF Explains, AsksLatest
<1>q. ASSUME NEW q \in Procs, pc'[q] \notin {"parsed", "listed", "shown"}
      PROVE  P(q)'
  BY <1>q
<1> HIDE DEF P
<1>1. ASSUME NEW p \in Procs, Refuse(p) \/ WriteElsewhere(p) \/ Close(p) \/ NothingToRead(p)
                             \/ Exit(p) \/ Die(p)
      PROVE  Picked'
  <2>1. End(p)
    BY <1>1 DEF Refuse, WriteElsewhere, Close, NothingToRead, Exit, Die
  <2>2. pc'[p] = "idle"
        /\ \A q \in Procs \ {p} : /\ pc'[q] = pc[q] /\ opt'[q] = opt[q]
                                 /\ at'[q] = at[q] /\ shown'[q] = shown[q]
    BY <1>0, <2>1 DEF End, Shapes
  <2> QED BY <1>0, <1>q, <1>s, <2>2
<1>2. ASSUME NEW p \in Procs, BeginPack(p) PROVE Picked'
  <2>1. PICK list \in PackArgs(begun') : opt' = [opt EXCEPT ![p] = PackOpt(list)]
    BY <1>2 DEF BeginPack
  <2>2. opt'[p].command = "pack" /\ pc'[p] = "parsed"
    BY <1>0, <1>2, <2>1 DEF BeginPack, Shapes, PackOpt
  <2>3. P(p)'
    BY <2>2 DEF P, Explains
  <2> QED BY <1>0, <1>2, <1>s, <2>1, <2>3 DEF BeginPack, Shapes
<1>3. ASSUME NEW p \in Procs, BeginExplain(p) PROVE Picked'
  <2>1. PICK list \in ExplainArgs : opt' = [opt EXCEPT ![p] = ExplainOpt(list)]
    BY <1>3 DEF BeginExplain
  <2>2. ~ExplainOpt(list).refused => DOMAIN ExplainOpt(list) = ExplainFields
    BY DEF ExplainOpt, ExplainFields
  <2>3. opt'[p] = ExplainOpt(list) /\ pc'[p] = "parsed"
    BY <1>0, <1>3, <2>1 DEF BeginExplain, Shapes
  <2>4. P(p)'
    BY <2>2, <2>3 DEF P
  <2> QED BY <1>0, <1>3, <1>s, <2>1, <2>4 DEF BeginExplain, Shapes
<1>4. ASSUME NEW p \in Procs, Build(p) \/ Truncate(p) PROVE Picked'
  <2>1. /\ pc'[p] \in {"built", "writing"}
        /\ \A q \in Procs \ {p} : /\ pc'[q] = pc[q] /\ opt'[q] = opt[q]
                                 /\ at'[q] = at[q] /\ shown'[q] = shown[q]
    BY <1>0, <1>4 DEF Build, Truncate, Emptied, Shapes
  <2> QED BY <1>0, <1>q, <1>s, <2>1
<1>5. ASSUME NEW p \in Procs, PrintPack(p) PROVE Picked'
  <2>1. opt[p].command = "pack"
    BY <1>5 DEF PrintPack, EInv, IInv, Making, HasPack
  <2>2. /\ pc'[p] = "shown" /\ opt' = opt
        /\ \A q \in Procs \ {p} : /\ pc'[q] = pc[q] /\ at'[q] = at[q] /\ shown'[q] = shown[q]
    BY <1>0, <1>5 DEF PrintPack, Shapes
  <2>3. P(p)'
    BY <2>1, <2>2 DEF P, Explains
  <2> QED BY <1>0, <1>s, <2>2, <2>3
<1>6. ASSUME NEW p \in Procs, WriteBlock(p) PROVE Picked'
  <2>1. pc' = pc /\ opt' = opt /\ at' = at /\ shown' = shown
    BY <1>6 DEF WriteBlock
  <2> QED BY <1>0, <1>s, <2>1
<1>7. ASSUME NEW p \in Procs, List(p) PROVE Picked'
  <2>0. /\ pc[p] = "parsed" /\ Explains(p) /\ DOMAIN opt[p] = ExplainFields
        /\ pc' = [pc EXCEPT ![p] = "listed"] /\ shown' = shown
        /\ opt' = [opt EXCEPT ![p].expects = IF IsClear THEN newest ELSE NoPack]
    BY <1>0, <1>7 DEF List, P, Explains
  <2>1. PICK f \in IF opt[p].file = "latest" THEN Latest ELSE {opt[p].file} :
          at' = [at EXCEPT ![p] = f]
    BY <1>7 DEF List
  <2>2. /\ pc'[p] = "listed" /\ at'[p] = f /\ DOMAIN opt'[p] = ExplainFields
        /\ opt'[p].command = opt[p].command /\ opt'[p].file = opt[p].file
        /\ opt'[p].expects = IF IsClear THEN newest ELSE NoPack
    BY <1>0, <2>0, <2>1 DEF Shapes, ExplainFields
  <2>3. opt[p].file = "latest" /\ IsClear => f = newest.file
    <3>1. SUFFICES ASSUME opt[p].file = "latest", IsClear, f # newest.file PROVE FALSE
      OBVIOUS
    <3>2. f \in Present /\ newest.file \in Present
      BY <2>1, <3>1 DEF Latest, IsClear, EInv, NewestWhole, IInv, Shapes, Present
    <3>3. disk[f].mtime < disk[newest.file].mtime /\ disk[f].mtime >= disk[newest.file].mtime
      BY <2>1, <3>1, <3>2 DEF Latest, IsClear
    <3>4. disk[f].mtime \in Nat /\ disk[newest.file].mtime \in Nat
      BY <3>2 DEF EInv, Timed, IInv, Shapes, Present
    <3> QED BY <3>3, <3>4
  <2>4. P(p)'
    BY <2>0, <2>2, <2>3 DEF P, Explains, AsksLatest
  <2>5. \A q \in Procs \ {p} : pc'[q] = pc[q] /\ opt'[q] = opt[q] /\ at'[q] = at[q] /\ shown'[q] = shown[q]
    BY <1>0, <2>0, <2>1 DEF Shapes
  <2> QED BY <1>0, <1>s, <2>4, <2>5
<1>8. ASSUME NEW p \in Procs, ReadPack(p) PROVE Picked'
  <2>0. /\ pc[p] = "listed" /\ Explains(p) /\ DOMAIN opt[p] = ExplainFields
        /\ AsksLatest(p) => at[p] = opt[p].expects.file
        /\ pc' = [pc EXCEPT ![p] = "shown"] /\ at' = at
        /\ shown' = [shown EXCEPT ![p] = ExcerptOf(disk[at[p]].blocks)]
    BY <1>0, <1>8 DEF ReadPack, P, Explains
  <2>1. opt' = [opt EXCEPT ![p].expects =
          IF opt[p].expects = newest /\ newest.alone /\ newest.file \notin disturbed
          THEN opt[p].expects ELSE NoPack]
    BY <1>8 DEF ReadPack
  <2>2. /\ pc'[p] = "shown" /\ shown'[p] = ExcerptOf(disk[at[p]].blocks)
        /\ opt'[p].file = opt[p].file
        /\ opt'[p].expects = IF opt[p].expects = newest /\ newest.alone /\ newest.file \notin disturbed
                             THEN opt[p].expects ELSE NoPack
    BY <1>0, <2>0, <2>1 DEF Shapes, ExplainFields
  <2>3. AsksLatest(p)' =>
          /\ Sections(newest.task) \in Seq(STRING) \ {<<>>}
          /\ disk[newest.file].blocks = Blocks(newest.task)
          /\ opt'[p].expects = newest /\ at[p] = newest.file
    BY <2>0, <2>2 DEF AsksLatest, EInv, NewestWhole
  <2>4. P(p)'
    BY <2>2, <2>3 DEF P
  <2>5. \A q \in Procs \ {p} : pc'[q] = pc[q] /\ opt'[q] = opt[q] /\ at'[q] = at[q] /\ shown'[q] = shown[q]
    BY <1>0, <2>0, <2>1 DEF Shapes
  <2> QED BY <1>0, <1>s, <2>4, <2>5
<1>9. CASE Tick \/ Finished \/ UNCHANGED vars
  <2>1. UNCHANGED <<pc, opt, at, shown>>
    BY <1>9 DEF Tick, Finished, vars, proc
  <2> QED BY <1>0, <1>s, <2>1
<1> QED BY <1>1, <1>2, <1>3, <1>4, <1>5, <1>6, <1>7, <1>8, <1>9 DEF Next

LEMMA EInvariance == Spec => []EInv
<1>1. EInv /\ [Next]_vars => IInv'
  <2> SUFFICES ASSUME EInv, [Next]_vars PROVE IInv'
    OBVIOUS
  <2>1. IInv
    BY DEF EInv
  <2> QED BY <2>1, IInvStep
<1>2. EInv /\ [Next]_vars => EInv'
  BY <1>1, TimedStep, NewestStep, PickedStep DEF EInv
<1> QED BY <1>2, InitEInv, PTL DEF Spec

\* Whoever runs explain while one pack is clearly the latest, and none is written
\* until it has read, sees the sections of that pack that it is to see, whatever
\* packs were written, overwritten and left unfinished before.
THEOREM LatestExplained == Spec => []ExplainShowsLatest
<1>1. EInv => ExplainShowsLatest
  <2> SUFFICES ASSUME EInv, NEW p \in Procs, pc[p] = "shown", opt[p].command = "explain",
                      opt[p].file = "latest", opt[p].expects # NoPack
               PROVE  LET task    == opt[p].expects.task
                          part(k) == IF Explained[k] \in ToSet(Sections(task))
                                     THEN << <<task, Explained[k]>> >> ELSE <<>>
                      IN  shown[p] = part(1) \o part(2) \o part(3)
    BY DEF ExplainShowsLatest
  <2>1. /\ Sections(opt[p].expects.task) \in Seq(STRING) \ {<<>>}
        /\ shown[p] = ExcerptOf(Blocks(opt[p].expects.task))
    BY DEF EInv, Picked, Explains, AsksLatest
  <2> QED BY <2>1, WholeExcerpt
<1> QED BY <1>1, EInvariance, PTL

-----------------------------------------------------------------------------
(* Recursive functions over an argument list.                               *)

LEMMA Induct ==
  ASSUME NEW N \in Nat, NEW T, 0 \in T, \A n \in 1 .. N : n - 1 \in T => n \in T
  PROVE  \A n \in 0 .. N : n \in T
<1> SUFFICES ASSUME {n \in 0 .. N : n \notin T} # {} PROVE FALSE
  OBVIOUS
<1>1. PICK n \in {n \in 0 .. N : n \notin T} : \A k \in {k \in 0 .. N : k \notin T} : n <= k
  <2>1. {n \in 0 .. N : n \notin T} \in SUBSET Nat
    OBVIOUS
  <2> QED BY <2>1, LeastNat
<1>2. n \in 1 .. N /\ n - 1 \in 0 .. N /\ ~(n <= n - 1)
  BY <1>1
<1> QED BY <1>1, <1>2

Start == [options |-> <<>>, words |-> <<>>, takes |-> FALSE, ended |-> FALSE]

LEMMA Taken ==
  ASSUME NEW options, NEW argv, Len(argv) \in Nat
  PROVE  \E t : /\ t[0] = Start
                /\ \A k \in 1 .. Len(argv) : t[k] = TakeArg(options, t[k - 1], argv[k])
                /\ FlexibleFlagArgs(options, argv) = t[Len(argv)].options \o t[Len(argv)].words
<1> DEFINE Is(n, t) == t = [k \in 0 .. n |-> IF k = 0
                             THEN [options |-> <<>>, words |-> <<>>, takes |-> FALSE, ended |-> FALSE]
                             ELSE TakeArg(options, t[k - 1], argv[k])]
           T == {n \in 0 .. Len(argv) : \E t : Is(n, t)}
           taken == CHOOSE t : Is(Len(argv), t)
<1>1. FlexibleFlagArgs(options, argv) = taken[Len(argv)].options \o taken[Len(argv)].words
  BY DEF FlexibleFlagArgs
<1> HIDE DEF taken
<1>2. 0 \in T
  <2> DEFINE t == [k \in 0 .. 0 |-> Start]
  <2>1. Is(0, t)
    BY DEF Start
  <2> HIDE DEF t
  <2> QED BY <2>1
<1>3. ASSUME NEW n \in 1 .. Len(argv), n - 1 \in T PROVE n \in T
  <2>1. PICK f : Is(n - 1, f)
    BY <1>3
  <2> DEFINE t == [k \in 0 .. n |-> IF k = n THEN TakeArg(options, f[n - 1], argv[n]) ELSE f[k]]
             h == [k \in 0 .. n |-> IF k = 0 THEN Start ELSE TakeArg(options, t[k - 1], argv[k])]
  <2>2. \A k \in 0 .. n - 1 : f[k] = IF k = 0 THEN Start ELSE TakeArg(options, f[k - 1], argv[k])
    BY <2>1 DEF Start
  <2>3. \A k \in 0 .. n : k # n => k \in 0 .. n - 1
    OBVIOUS
  <2>4. \A k \in 1 .. n : t[k - 1] = f[k - 1]
    OBVIOUS
  <2>5. \A k \in 0 .. n : t[k] = h[k]
    BY <2>2, <2>3, <2>4
  <2>6. t = h
    BY <2>5
  <2>7. Is(n, t)
    BY <2>6 DEF Start
  <2> HIDE DEF t, Is
  <2> QED BY <2>7
<1>4. Is(Len(argv), taken)
  <2>1. Len(argv) \in T
    <3> HIDE DEF T
    <3>1. \A n \in 0 .. Len(argv) : n \in T
      BY <1>2, <1>3, Induct
    <3> QED BY <3>1
  <2> HIDE DEF Is
  <2> QED BY <2>1 DEF taken
<1>5. \A k \in 0 .. Len(argv) : taken[k] = IF k = 0 THEN Start ELSE TakeArg(options, taken[k - 1], argv[k])
  BY <1>4 DEF Start
<1> HIDE DEF Is
<1>6. /\ taken[0] = Start
      /\ \A k \in 1 .. Len(argv) : taken[k] = TakeArg(options, taken[k - 1], argv[k])
  BY <1>5
<1> QED BY <1>1, <1>6

Needs(options, arg) == arg.value = <<>> /\ ~IsBool(options, arg.name)

RoleAfter(options, argv, r, k) ==
  IF r \in {"end", "rest"} THEN "rest"
  ELSE IF r = "option" /\ Needs(options, argv[k - 1]) THEN "value"
  ELSE IF argv[k].kind = "dashes" THEN "end" ELSE argv[k].kind

LEMMA RolesOf ==
  ASSUME NEW options, NEW argv, Len(argv) \in Nat
  PROVE  /\ Roles(options, argv)[0] = "word"
         /\ \A k \in 1 .. Len(argv) :
              Roles(options, argv)[k] = RoleAfter(options, argv, Roles(options, argv)[k - 1], k)
<1> DEFINE Is(n, t) == t = [k \in 0 .. n |->
                             IF k = 0 THEN "word"
                             ELSE IF t[k - 1] \in {"end", "rest"} THEN "rest"
                             ELSE IF t[k - 1] = "option" /\ argv[k - 1].value = <<>> /\ ~IsBool(options, argv[k - 1].name)
                             THEN "value"
                             ELSE IF argv[k].kind = "dashes" THEN "end" ELSE argv[k].kind]
           T == {n \in 0 .. Len(argv) : \E t : Is(n, t)}
           role == CHOOSE t : Is(Len(argv), t)
<1>1. Roles(options, argv) = role
  BY DEF Roles
<1> HIDE DEF role
<1>2. 0 \in T
  <2> DEFINE t == [k \in 0 .. 0 |-> "word"]
  <2>1. Is(0, t)
    OBVIOUS
  <2> HIDE DEF t
  <2> QED BY <2>1
<1>3. ASSUME NEW n \in 1 .. Len(argv), n - 1 \in T PROVE n \in T
  <2>1. PICK f : Is(n - 1, f)
    BY <1>3
  <2> DEFINE t == [k \in 0 .. n |-> IF k = n THEN RoleAfter(options, argv, f[n - 1], n) ELSE f[k]]
             h == [k \in 0 .. n |-> IF k = 0 THEN "word" ELSE RoleAfter(options, argv, t[k - 1], k)]
  <2>2. \A k \in 0 .. n - 1 : f[k] = IF k = 0 THEN "word" ELSE RoleAfter(options, argv, f[k - 1], k)
    BY <2>1 DEF RoleAfter, Needs
  <2>3. \A k \in 0 .. n : k # n => k \in 0 .. n - 1
    OBVIOUS
  <2>4. \A k \in 1 .. n : t[k - 1] = f[k - 1]
    OBVIOUS
  <2>5. \A k \in 0 .. n : t[k] = h[k]
    BY <2>2, <2>3, <2>4
  <2>6. t = h
    BY <2>5
  <2> HIDE DEF t
  <2>7. Is(n, t)
    BY <2>6 DEF RoleAfter, Needs
  <2> HIDE DEF Is
  <2> QED BY <2>7
<1>4. Is(Len(argv), role)
  <2>1. Len(argv) \in T
    <3> HIDE DEF T
    <3>1. \A n \in 0 .. Len(argv) : n \in T
      BY <1>2, <1>3, Induct
    <3> QED BY <3>1
  <2> HIDE DEF Is
  <2> QED BY <2>1 DEF role
<1>5. \A k \in 0 .. Len(argv) : role[k] = IF k = 0 THEN "word" ELSE RoleAfter(options, argv, role[k - 1], k)
  BY <1>4 DEF RoleAfter, Needs
<1> HIDE DEF Is
<1>6. role[0] = "word" /\ \A k \in 1 .. Len(argv) : role[k] = RoleAfter(options, argv, role[k - 1], k)
  BY <1>5
<1> QED BY <1>1, <1>6

LEMMA WordsSoFar ==
  ASSUME NEW options, NEW argv, Len(argv) \in Nat
  PROVE  \E w : /\ w[0] = <<>>
                /\ \A k \in 1 .. Len(argv) :
                     w[k] = IF Roles(options, argv)[k] \in {"word", "rest"}
                            THEN Append(w[k - 1], argv[k]) ELSE w[k - 1]
                /\ WordsOf(options, argv) = w[Len(argv)]
<1> DEFINE role == Roles(options, argv)
           More(r, x, arg) == IF r \in {"word", "rest"} THEN Append(x, arg) ELSE x
           Is(n, t) == t = [k \in 0 .. n |->
                             IF k = 0 THEN <<>>
                             ELSE IF role[k] \in {"word", "rest"} THEN Append(t[k - 1], argv[k]) ELSE t[k - 1]]
           T == {n \in 0 .. Len(argv) : \E t : Is(n, t)}
           words == CHOOSE t : Is(Len(argv), t)
<1>1. WordsOf(options, argv) = words[Len(argv)]
  BY DEF WordsOf
<1> HIDE DEF words, role
<1>2. 0 \in T
  <2> DEFINE t == [k \in 0 .. 0 |-> <<>>]
  <2>1. Is(0, t)
    OBVIOUS
  <2> HIDE DEF t
  <2> QED BY <2>1
<1>3. ASSUME NEW n \in 1 .. Len(argv), n - 1 \in T PROVE n \in T
  <2>1. PICK f : Is(n - 1, f)
    BY <1>3
  <2> DEFINE t == [k \in 0 .. n |-> IF k = n THEN More(role[n], f[n - 1], argv[n]) ELSE f[k]]
             h == [k \in 0 .. n |-> IF k = 0 THEN <<>> ELSE More(role[k], t[k - 1], argv[k])]
  <2>2. \A k \in 0 .. n - 1 : f[k] = IF k = 0 THEN <<>> ELSE More(role[k], f[k - 1], argv[k])
    BY <2>1
  <2>3. \A k \in 0 .. n : k # n => k \in 0 .. n - 1
    OBVIOUS
  <2>4. \A k \in 1 .. n : t[k - 1] = f[k - 1]
    OBVIOUS
  <2>5. \A k \in 0 .. n : t[k] = h[k]
    BY <2>2, <2>3, <2>4
  <2>6. t = h
    BY <2>5
  <2> HIDE DEF t
  <2>7. Is(n, t)
    BY <2>6
  <2> HIDE DEF Is
  <2> QED BY <2>7
<1>4. Is(Len(argv), words)
  <2>1. Len(argv) \in T
    <3> HIDE DEF T
    <3>1. \A n \in 0 .. Len(argv) : n \in T
      BY <1>2, <1>3, Induct
    <3> QED BY <3>1
  <2> HIDE DEF Is
  <2> QED BY <2>1 DEF words
<1>5. \A k \in 0 .. Len(argv) : words[k] = IF k = 0 THEN <<>> ELSE More(role[k], words[k - 1], argv[k])
  BY <1>4
<1> HIDE DEF Is
<1>6. words[0] = <<>> /\ \A k \in 1 .. Len(argv) : words[k] = More(role[k], words[k - 1], argv[k])
  BY <1>5
<1> QED BY <1>1, <1>6 DEF role

ParseStart(options) ==
  [failed |-> FALSE, given |-> Unset(options), words |-> <<>>, wants |-> "none", ended |-> FALSE]

LEMMA Parsed ==
  ASSUME NEW options, NEW numbers, NEW argv, Len(argv) \in Nat
  PROVE  \E t :
           /\ t[0] = ParseStart(options)
           /\ \A k \in 1 .. Len(argv) : t[k] = ParseArg(options, numbers, t[k - 1], argv[k])
           /\ ~t[Len(argv)].failed /\ t[Len(argv)].wants = "none" =>
                FlagSetParse(options, numbers, argv)
                  = [failed |-> FALSE, given |-> t[Len(argv)].given, words |-> t[Len(argv)].words]
<1> DEFINE Is(n, t) == t = [k \in 0 .. n |->
                             IF k = 0
                             THEN [failed |-> FALSE, given |-> Unset(options), words |-> <<>>, wants |-> "none", ended |-> FALSE]
                             ELSE ParseArg(options, numbers, t[k - 1], argv[k])]
           T == {n \in 0 .. Len(argv) : \E t : Is(n, t)}
           parsed == CHOOSE t : Is(Len(argv), t)
<1>1. ~parsed[Len(argv)].failed /\ parsed[Len(argv)].wants = "none" =>
                FlagSetParse(options, numbers, argv)
                  = [failed |-> FALSE, given |-> parsed[Len(argv)].given, words |-> parsed[Len(argv)].words]
  BY DEF FlagSetParse
<1> HIDE DEF parsed
<1> DEFINE first == ParseStart(options)
<1>2. 0 \in T
  <2> DEFINE t == [k \in 0 .. 0 |-> first]
  <2>1. Is(0, t)
    BY DEF ParseStart
  <2> HIDE DEF t
  <2> QED BY <2>1
<1>3. ASSUME NEW n \in 1 .. Len(argv), n - 1 \in T PROVE n \in T
  <2>1. PICK f : Is(n - 1, f)
    BY <1>3
  <2> DEFINE t == [k \in 0 .. n |-> IF k = n THEN ParseArg(options, numbers, f[n - 1], argv[n]) ELSE f[k]]
             h == [k \in 0 .. n |-> IF k = 0 THEN first ELSE ParseArg(options, numbers, t[k - 1], argv[k])]
  <2>2. \A k \in 0 .. n - 1 : f[k] = IF k = 0 THEN first ELSE ParseArg(options, numbers, f[k - 1], argv[k])
    BY <2>1 DEF ParseStart
  <2>3. \A k \in 0 .. n : k # n => k \in 0 .. n - 1
    OBVIOUS
  <2>4. \A k \in 1 .. n : t[k - 1] = f[k - 1]
    OBVIOUS
  <2>5. \A k \in 0 .. n : t[k] = h[k]
    BY <2>2, <2>3, <2>4
  <2>6. t = h
    BY <2>5
  <2> HIDE DEF t
  <2>7. Is(n, t)
    BY <2>6 DEF ParseStart
  <2> HIDE DEF Is
  <2> QED BY <2>7
<1>4. Is(Len(argv), parsed)
  <2>1. Len(argv) \in T
    <3> HIDE DEF T
    <3>1. \A n \in 0 .. Len(argv) : n \in T
      BY <1>2, <1>3, Induct
    <3> QED BY <3>1
  <2> HIDE DEF Is
  <2> QED BY <2>1 DEF parsed
<1>5. \A k \in 0 .. Len(argv) : parsed[k] = IF k = 0 THEN first ELSE ParseArg(options, numbers, parsed[k - 1], argv[k])
  BY <1>4 DEF ParseStart
<1> HIDE DEF Is
<1>6. parsed[0] = first /\ \A k \in 1 .. Len(argv) : parsed[k] = ParseArg(options, numbers, parsed[k - 1], argv[k])
  BY <1>5
<1> QED BY <1>1, <1>6
-----------------------------------------------------------------------------
(* What flexibleFlagArgs makes of the arguments so far.                     *)

Takers(E) == [options : Seq(E), words : Seq(E), takes : BOOLEAN, ended : BOOLEAN]

LEMMA TakeStep ==
  ASSUME NEW options, NEW E, NEW st \in Takers(E), NEW arg \in E,
         arg.kind \in {"word", "option", "dashes"}
  PROVE  LET after == TakeArg(options, st, arg)
         IN  /\ after \in Takers(E)
             /\ after.ended <=> st.ended \/ (~st.takes /\ arg.kind = "dashes")
             /\ after.takes <=> IF st.ended THEN st.takes
                               ELSE ~st.takes /\ arg.kind = "option" /\ Needs(options, arg)
             /\ after.words = IF st.ended \/ (~st.takes /\ arg.kind = "word")
                              THEN Append(st.words, arg) ELSE st.words
             /\ after.options = IF ~st.ended /\ (st.takes \/ arg.kind = "option")
                                THEN Append(st.options, arg) ELSE st.options
<1> DEFINE after == TakeArg(options, st, arg)
           more  == Append(st.words, arg)
           opts  == Append(st.options, arg)
           S == Seq(E)
           needs == arg.value = <<>> /\ ~IsBool(options, arg.name)
<1>0. more \in S /\ opts \in S /\ needs \in BOOLEAN
  <2>1. st.words \in Seq(E) /\ st.options \in Seq(E)
    BY DEF Takers
  <2> QED BY <2>1
<1>1. needs <=> Needs(options, arg)
  BY DEF Needs
<1>2. st \in [options : S, words : S, takes : BOOLEAN, ended : BOOLEAN]
  BY DEF Takers
<1> HIDE DEF more, opts, S, needs
<1>3. CASE st.ended
  <2>1. after = [st EXCEPT !.words = more]
    BY <1>3 DEF TakeArg, more
  <2> HIDE DEF after
  <2>2. /\ after \in [options : S, words : S, takes : BOOLEAN, ended : BOOLEAN]
        /\ after.ended = st.ended /\ after.takes = st.takes
        /\ after.words = more /\ after.options = st.options
    BY <1>0, <1>2, <2>1
  <2> QED BY <1>3, <2>2 DEF Takers, S, more, after
<1>4. CASE ~st.ended /\ st.takes
  <2>1. after = [st EXCEPT !.options = opts, !.takes = FALSE]
    BY <1>4 DEF TakeArg, opts
  <2> HIDE DEF after
  <2>2. /\ after \in [options : S, words : S, takes : BOOLEAN, ended : BOOLEAN]
        /\ after.ended = st.ended /\ after.takes = FALSE
        /\ after.words = st.words /\ after.options = opts
    BY <1>0, <1>2, <2>1
  <2> QED BY <1>4, <2>2 DEF Takers, S, opts, after
<1>5. CASE ~st.ended /\ ~st.takes /\ arg.kind = "dashes"
  <2>1. after = [st EXCEPT !.ended = TRUE]
    BY <1>5 DEF TakeArg
  <2> HIDE DEF after
  <2>2. /\ after \in [options : S, words : S, takes : BOOLEAN, ended : BOOLEAN]
        /\ after.ended = TRUE /\ after.takes = st.takes
        /\ after.words = st.words /\ after.options = st.options
    BY <1>0, <1>2, <2>1
  <2> QED BY <1>5, <2>2 DEF Takers, S, after
<1>6. CASE ~st.ended /\ ~st.takes /\ arg.kind = "word"
  <2>1. after = [st EXCEPT !.words = more]
    BY <1>6 DEF TakeArg, more
  <2> HIDE DEF after
  <2>2. /\ after \in [options : S, words : S, takes : BOOLEAN, ended : BOOLEAN]
        /\ after.ended = st.ended /\ after.takes = st.takes
        /\ after.words = more /\ after.options = st.options
    BY <1>0, <1>2, <2>1
  <2> QED BY <1>6, <2>2 DEF Takers, S, more, after
<1>7. CASE ~st.ended /\ ~st.takes /\ arg.kind = "option"
  <2>1. after = [st EXCEPT !.options = opts, !.takes = needs]
    BY <1>7 DEF TakeArg, opts, needs
  <2> HIDE DEF after
  <2>2. /\ after \in [options : S, words : S, takes : BOOLEAN, ended : BOOLEAN]
        /\ after.ended = st.ended /\ after.takes = needs
        /\ after.words = st.words /\ after.options = opts
    BY <1>0, <1>2, <2>1
  <2> QED BY <1>1, <1>7, <2>2 DEF Takers, S, opts, after
<1> QED BY <1>3, <1>4, <1>5, <1>6, <1>7

\* Its state t behind the n-th argument, next to the roles and the words.
Agree(options, argv, t, w, n) ==
  LET role == Roles(options, argv)[n]
  IN  /\ t[n] \in Takers({argv[k] : k \in DOMAIN argv})
      /\ t[n].ended <=> role \in {"end", "rest"}
      /\ t[n].takes <=> role = "option" /\ Needs(options, argv[n])
      /\ t[n].words = w[n]

Moves(options, argv, t, w) ==
  LET role == Roles(options, argv)
  IN  /\ t[0] = Start /\ w[0] = <<>>
      /\ \A n \in 0 .. Len(argv) : Agree(options, argv, t, w, n)
      /\ \A n \in 1 .. Len(argv) :
           /\ w[n] = IF role[n] \in {"word", "rest"} THEN Append(w[n - 1], argv[n]) ELSE w[n - 1]
           /\ t[n].options = IF role[n] \in {"option", "value"}
                             THEN Append(t[n - 1].options, argv[n]) ELSE t[n - 1].options
      /\ FlexibleFlagArgs(options, argv) = t[Len(argv)].options \o w[Len(argv)]
      /\ WordsOf(options, argv) = w[Len(argv)]

LEMMA MovesExist ==
  ASSUME NEW options, NEW argv, IsCommandLine(argv)
  PROVE  \E t, w : Moves(options, argv, t, w)
<1> DEFINE N == Len(argv)
           E == {argv[k] : k \in DOMAIN argv}
           role == Roles(options, argv)
<1>1. N \in Nat /\ DOMAIN argv = 1 .. N
  BY DEF IsCommandLine
<1>2. \A k \in 1 .. N : argv[k] \in E /\ argv[k].kind \in {"word", "option", "dashes"}
  BY <1>1 DEF IsCommandLine
<1>3. PICK t : /\ t[0] = Start
               /\ \A k \in 1 .. N : t[k] = TakeArg(options, t[k - 1], argv[k])
               /\ FlexibleFlagArgs(options, argv) = t[N].options \o t[N].words
  BY <1>1, Taken
<1>4. PICK w : /\ w[0] = <<>>
               /\ \A k \in 1 .. N :
                    w[k] = IF role[k] \in {"word", "rest"} THEN Append(w[k - 1], argv[k]) ELSE w[k - 1]
               /\ WordsOf(options, argv) = w[N]
  BY <1>1, WordsSoFar
<1>5. role[0] = "word" /\ \A k \in 1 .. N : role[k] = RoleAfter(options, argv, role[k - 1], k)
  BY <1>1, RolesOf
<1> HIDE DEF N, role, E
<1>6. Agree(options, argv, t, w, 0)
  <2>1. Start \in Takers(E) /\ ~Start.ended /\ ~Start.takes /\ Start.words = <<>>
    BY DEF Start, Takers
  <2> QED BY <1>3, <1>4, <1>5, <2>1 DEF Agree, role, E
<1>7. ASSUME NEW n \in 1 .. N, Agree(options, argv, t, w, n - 1)
      PROVE  /\ Agree(options, argv, t, w, n)
             /\ t[n].options = IF role[n] \in {"option", "value"}
                               THEN Append(t[n - 1].options, argv[n]) ELSE t[n - 1].options
  <2> DEFINE st == t[n - 1]
             arg == argv[n]
             r == role[n - 1]
  <2>1. /\ st \in Takers(E)
        /\ st.ended <=> r \in {"end", "rest"}
        /\ st.takes <=> r = "option" /\ Needs(options, argv[n - 1])
        /\ st.words = w[n - 1]
    BY <1>7 DEF Agree, role, E
  <2>2. arg \in E /\ arg.kind \in {"word", "option", "dashes"}
    BY <1>2
  <2>3. t[n] = TakeArg(options, st, arg)
    BY <1>3
  <2>4. role[n] = IF r \in {"end", "rest"} THEN "rest"
                  ELSE IF r = "option" /\ Needs(options, argv[n - 1]) THEN "value"
                  ELSE IF arg.kind = "dashes" THEN "end" ELSE arg.kind
    BY <1>5 DEF RoleAfter
  <2>5. w[n] = IF role[n] \in {"word", "rest"} THEN Append(w[n - 1], arg) ELSE w[n - 1]
    BY <1>4
  <2> HIDE DEF st, arg, r
  <2>6. /\ t[n] \in Takers(E)
        /\ t[n].ended <=> st.ended \/ (~st.takes /\ arg.kind = "dashes")
        /\ t[n].takes <=> IF st.ended THEN st.takes
                               ELSE ~st.takes /\ arg.kind = "option" /\ Needs(options, arg)
        /\ t[n].words = IF st.ended \/ (~st.takes /\ arg.kind = "word")
                              THEN Append(st.words, arg) ELSE st.words
        /\ t[n].options = IF ~st.ended /\ (st.takes \/ arg.kind = "option")
                                THEN Append(st.options, arg) ELSE st.options
    BY <2>1, <2>2, <2>3, TakeStep
  <2>7. t[n].ended <=> role[n] \in {"end", "rest"}
    BY <2>1, <2>2, <2>4, <2>6
  <2>8. t[n].takes <=> role[n] = "option" /\ Needs(options, arg)
    BY <2>1, <2>2, <2>4, <2>6
  <2>9. t[n].words = w[n]
    BY <2>1, <2>2, <2>4, <2>5, <2>6
  <2>10. t[n].options = IF role[n] \in {"option", "value"} THEN Append(st.options, arg) ELSE st.options
    BY <2>1, <2>2, <2>4, <2>6
  <2> QED BY <2>6, <2>7, <2>8, <2>9, <2>10 DEF Agree, role, E, st, arg
<1> DEFINE T == {n \in 0 .. N : Agree(options, argv, t, w, n)}
<1>8. \A n \in 0 .. N : n \in T
  <2>1. 0 \in T
    BY <1>1, <1>6
  <2>2. ASSUME NEW n \in 1 .. N, n - 1 \in T PROVE n \in T
    BY <1>7, <2>2
  <2> HIDE DEF T
  <2> QED BY <1>1, <2>1, <2>2, Induct
<1>9. \A n \in 1 .. N : n - 1 \in 0 .. N
  BY <1>1
<1>10. \A n \in 1 .. N : t[n].options = IF role[n] \in {"option", "value"}
                               THEN Append(t[n - 1].options, argv[n]) ELSE t[n - 1].options
  BY <1>7, <1>8, <1>9
<1>11. N \in 0 .. N
  BY <1>1
<1>12. t[N].words = w[N]
  BY <1>8, <1>11 DEF Agree
<1>13. \A n \in 0 .. N : Agree(options, argv, t, w, n)
  BY <1>8
<1> HIDE DEF T
<1>14. Moves(options, argv, t, w)
  BY <1>3, <1>4, <1>10, <1>12, <1>13 DEF Moves, N, role
<1> QED BY <1>14
-----------------------------------------------------------------------------
(* How flag.FlagSet reads it.                                               *)

\* Where the arguments are then: the options made so far stay where they are, and
\* the words come behind all of them.
Placed(options, argv, t, w) ==
  LET N == Len(argv)
      E == {argv[k] : k \in DOMAIN argv}
      made == FlexibleFlagArgs(options, argv)
  IN  /\ \A n \in 0 .. N : t[n].options \in Seq(E)
      /\ \A n \in 0 .. N : w[n] \in Seq(E)
      /\ \A n \in 0 .. N : Len(t[n].options) <= Len(t[N].options)
      /\ \A n \in 0 .. N : \A i \in 1 .. Len(t[n].options) : made[i] = t[n].options[i]
      /\ Len(made) = Len(t[N].options) + Len(w[N])
      /\ \A i \in 1 .. Len(w[N]) : made[Len(t[N].options) + i] = w[N][i]

LEMMA MovesFacts ==
  ASSUME NEW options, NEW argv, IsCommandLine(argv), NEW t, NEW w, Moves(options, argv, t, w)
  PROVE  Placed(options, argv, t, w)
<1> DEFINE N == Len(argv)
           E == {argv[k] : k \in DOMAIN argv}
           made == FlexibleFlagArgs(options, argv)
           opts(n) == t[n].options
<1>1. N \in Nat /\ DOMAIN argv = 1 .. N
  BY DEF IsCommandLine
<1>2. \A n \in 0 .. N : /\ t[n] \in Takers(E) /\ t[n].words = w[n]
  BY DEF Moves, Agree
<1>3. \A n \in 0 .. N : t[n].options \in Seq(E) /\ w[n] \in Seq(E)
  BY <1>2 DEF Takers
<1>4. N \in 0 .. N
  BY <1>1
<1>5. w[N] \in Seq(E)
  BY <1>3, <1>4
<1>6. made = opts(N) \o w[N]
  BY DEF Moves
<1>7. \A n \in 1 .. N : opts(n) = opts(n - 1) \/ opts(n) = Append(opts(n - 1), argv[n])
  BY DEF Moves
<1>8. \A n \in 1 .. N : argv[n] \in E /\ n - 1 \in 0 .. N
  BY <1>1
<1>9. \A n \in 0 .. N : opts(n) \in Seq(E)
  BY <1>3
<1> HIDE DEF N, E, made, opts
<1>10. Len(made) = Len(opts(N)) + Len(w[N])
       /\ \A i \in 1 .. Len(w[N]) : made[Len(opts(N)) + i] = w[N][i]
  BY <1>4, <1>5, <1>6, <1>9
<1>11. ASSUME NEW n \in 0 .. N
       PROVE  /\ Len(opts(n)) <= Len(opts(N))
              /\ \A i \in 1 .. Len(opts(n)) : made[i] = opts(n)[i]
  <2> DEFINE Kept(m) == /\ Len(opts(n)) <= Len(opts(m))
                        /\ \A i \in 1 .. Len(opts(n)) : opts(m)[i] = opts(n)[i]
             T == {m \in 0 .. N : m >= n => Kept(m)}
  <2>0. Kept(n)
    BY <1>9
  <2>1. 0 \in T
    BY <1>1, <2>0
  <2>2. ASSUME NEW m \in 1 .. N, m - 1 \in T PROVE m \in T
    <3>1. CASE m <= n
      BY <1>1, <2>0, <3>1
    <3>2. CASE m > n
      <4>1. Kept(m - 1)
        BY <1>1, <2>2, <3>2
      <4>2. opts(m - 1) \in Seq(E) /\ opts(n) \in Seq(E) /\ argv[m] \in E
        BY <1>8, <1>9
      <4>3. Kept(m)
        <5>1. CASE opts(m) = opts(m - 1)
          BY <4>1, <5>1
        <5>2. CASE opts(m) = Append(opts(m - 1), argv[m])
          <6>1. Len(opts(m)) = Len(opts(m - 1)) + 1
            BY <4>2, <5>2
          <6>2. \A i \in 1 .. Len(opts(m - 1)) : opts(m)[i] = opts(m - 1)[i]
            BY <4>2, <5>2
          <6> QED BY <4>1, <4>2, <6>1, <6>2
        <5> QED BY <1>7, <5>1, <5>2
      <4> HIDE DEF Kept
      <4> QED BY <4>3
    <3> QED BY <1>1, <3>1, <3>2
  <2>3. \A m \in 0 .. N : m \in T
    <3> HIDE DEF T
    <3> QED BY <1>1, <2>1, <2>2, Induct
  <2>4. Kept(N)
    BY <1>1, <1>4, <2>3
  <2>5. \A i \in 1 .. Len(opts(N)) : made[i] = opts(N)[i]
    BY <1>4, <1>5, <1>6, <1>9
  <2>6. \A i \in 1 .. Len(opts(n)) : i \in 1 .. Len(opts(N))
    BY <1>4, <1>9, <2>4
  <2> QED BY <2>4, <2>5, <2>6
<1> QED BY <1>3, <1>10, <1>11 DEF Placed, N, E, made, opts

\* Its state while it reads options, with what is given so far and the option
\* that waits for a value, and when it reads words.
Reading(g, wants) ==
  [failed |-> FALSE, given |-> g, words |-> <<>>, wants |-> wants, ended |-> FALSE]
Ended(g, words) ==
  [failed |-> FALSE, given |-> g, words |-> words, wants |-> "none", ended |-> TRUE]

WithWords(st, v)    == [st EXCEPT !.words = v]
EndedWith(st, v)    == [st EXCEPT !.ended = TRUE, !.words = v]
WithWants(st, v)    == [st EXCEPT !.wants = v]
WithGiven(st, v, w) == [st EXCEPT !.given = v, !.wants = w]
Given(g, name, v)   == [g EXCEPT ![name] = <<v>>]

Readers(S) == [failed : BOOLEAN, given : S, words : S, wants : S, ended : BOOLEAN]

LEMMA ReaderIs ==
  ASSUME NEW S, NEW y \in Readers(S), y.failed = FALSE
  PROVE  /\ y.words = <<>> /\ y.ended = FALSE => y = Reading(y.given, y.wants)
         /\ y.wants = "none" /\ y.ended = TRUE => y = Ended(y.given, y.words)
BY DEF Readers, Reading, Ended

LEMMA WantsChange ==
  ASSUME NEW g, NEW wants, NEW v
  PROVE  WithWants(Reading(g, wants), v) = Reading(g, v)
<1> DEFINE S == {g, wants, v, <<>>}
           x == Reading(g, wants)
           y == WithWants(x, v)
<1>1. g \in S /\ wants \in S /\ v \in S /\ <<>> \in S
  OBVIOUS
<1> HIDE DEF S
<1>2. /\ x \in Readers(S) /\ x.failed = FALSE /\ x.given = g /\ x.words = <<>> /\ x.ended = FALSE
  BY <1>1 DEF Readers, Reading
<1> HIDE DEF x
<1>3. /\ y \in Readers(S) /\ y.failed = FALSE /\ y.given = g /\ y.words = <<>>
      /\ y.wants = v /\ y.ended = FALSE
  BY <1>1, <1>2 DEF Readers, WithWants
<1> HIDE DEF y
<1>4. y = Reading(g, v)
  BY <1>3, ReaderIs
<1> QED BY <1>4 DEF x, y

LEMMA GivenChanges ==
  ASSUME NEW g, NEW wants, NEW v, NEW w
  PROVE  WithGiven(Reading(g, wants), v, w) = Reading(v, w)
<1> DEFINE S == {g, wants, v, w, <<>>}
           x == Reading(g, wants)
           y == WithGiven(x, v, w)
<1>1. g \in S /\ wants \in S /\ v \in S /\ w \in S /\ <<>> \in S
  OBVIOUS
<1> HIDE DEF S
<1>2. /\ x \in Readers(S) /\ x.failed = FALSE /\ x.words = <<>> /\ x.ended = FALSE
  BY <1>1 DEF Readers, Reading
<1> HIDE DEF x
<1>3. /\ y \in Readers(S) /\ y.failed = FALSE /\ y.given = v /\ y.words = <<>>
      /\ y.wants = w /\ y.ended = FALSE
  BY <1>1, <1>2 DEF Readers, WithGiven
<1> HIDE DEF y
<1>4. y = Reading(v, w)
  BY <1>3, ReaderIs
<1> QED BY <1>4 DEF x, y

LEMMA WordsBegin ==
  ASSUME NEW g, NEW v
  PROVE  EndedWith(Reading(g, "none"), v) = Ended(g, v)
<1> DEFINE S == {g, v, "none", <<>>}
           x == Reading(g, "none")
           y == EndedWith(x, v)
<1>1. g \in S /\ v \in S /\ "none" \in S /\ <<>> \in S
  OBVIOUS
<1> HIDE DEF S
<1>2. /\ x \in Readers(S) /\ x.failed = FALSE /\ x.given = g /\ x.wants = "none"
  BY <1>1 DEF Readers, Reading
<1> HIDE DEF x
<1>3. /\ y \in Readers(S) /\ y.failed = FALSE /\ y.given = g /\ y.words = v
      /\ y.wants = "none" /\ y.ended = TRUE
  BY <1>1, <1>2 DEF Readers, EndedWith
<1> HIDE DEF y
<1>4. y = Ended(g, v)
  BY <1>3, ReaderIs
<1> QED BY <1>4 DEF x, y

LEMMA EndedChanges ==
  ASSUME NEW g, NEW words, NEW v
  PROVE  WithWords(Ended(g, words), v) = Ended(g, v)
<1> DEFINE S == {g, words, v, "none"}
           x == Ended(g, words)
           y == WithWords(x, v)
<1>0. g \in S /\ words \in S /\ v \in S /\ "none" \in S
  OBVIOUS
<1> HIDE DEF S
<1>1. /\ x \in Readers(S) /\ x.failed = FALSE /\ x.given = g /\ x.wants = "none" /\ x.ended = TRUE
  BY <1>0 DEF Readers, Ended
<1> HIDE DEF x
<1>2. /\ y \in Readers(S) /\ y.failed = FALSE /\ y.given = g /\ y.words = v
      /\ y.wants = "none" /\ y.ended = TRUE
  BY <1>0, <1>1 DEF Readers, WithWords
<1> HIDE DEF y
<1>3. y = Ended(g, v)
  BY <1>2, ReaderIs
<1> QED BY <1>3 DEF x, y

LEMMA FlagIsSet ==
  ASSUME NEW options, NEW numbers, NEW g, NEW wants, NEW name, NEW v,
         Accepts(options[name], v, numbers)
  PROVE  SetFlag(options, numbers, Reading(g, wants), name, v) = Reading(Given(g, name, v), "none")
<1>1. Reading(g, wants).given = g
  BY DEF Reading
<1>2. WithGiven(Reading(g, wants), Given(g, name, v), "none") = Reading(Given(g, name, v), "none")
  BY GivenChanges
<1>3. SetFlag(options, numbers, Reading(g, wants), name, v)
        = WithGiven(Reading(g, wants), Given(g, name, v), "none")
  BY <1>1 DEF SetFlag, WithGiven, Given
<1> QED BY <1>2, <1>3

\* An option behind others: it waits for its value, or has it.
LEMMA OptionWaits ==
  ASSUME NEW options, NEW numbers, NEW g, NEW arg, arg.kind = "option", arg.name \in DOMAIN options,
         Needs(options, arg)
  PROVE  ParseArg(options, numbers, Reading(g, "none"), arg) = Reading(g, arg.name)
<1> DEFINE st == Reading(g, "none")
<1>1. st.failed = FALSE /\ st.wants = "none" /\ st.ended = FALSE
  BY DEF Reading
<1>2. WithWants(st, arg.name) = Reading(g, arg.name)
  BY WantsChange
<1> HIDE DEF st
<1>3. ParseArg(options, numbers, st, arg) = WithWants(st, arg.name)
  BY <1>1 DEF ParseArg, Needs, WithWants
<1> QED BY <1>2, <1>3 DEF st

LEMMA OptionHasValue ==
  ASSUME NEW options, NEW numbers, NEW g, NEW arg, arg.kind = "option", arg.name \in DOMAIN options,
         ~Needs(options, arg),
         NEW v, v = IF arg.value # <<>> THEN arg.value[1] ELSE Word("true"),
         Accepts(options[arg.name], v, numbers)
  PROVE  ParseArg(options, numbers, Reading(g, "none"), arg) = Reading(Given(g, arg.name, v), "none")
<1> DEFINE st == Reading(g, "none")
<1>1. st.failed = FALSE /\ st.wants = "none" /\ st.ended = FALSE
  BY DEF Reading
<1>2. SetFlag(options, numbers, st, arg.name, v) = Reading(Given(g, arg.name, v), "none")
  BY FlagIsSet
<1> HIDE DEF st
<1>3. ParseArg(options, numbers, st, arg) = SetFlag(options, numbers, st, arg.name, v)
  <2>1. CASE arg.value # <<>>
    BY <1>1, <2>1 DEF ParseArg
  <2>2. CASE arg.value = <<>>
    BY <1>1, <2>2 DEF ParseArg, Needs
  <2> QED BY <2>1, <2>2
<1> QED BY <1>2, <1>3 DEF st

LEMMA ValueIsRead ==
  ASSUME NEW options, NEW numbers, NEW g, NEW wants, wants # "none", NEW arg,
         Accepts(options[wants], arg, numbers)
  PROVE  ParseArg(options, numbers, Reading(g, wants), arg) = Reading(Given(g, wants, arg), "none")
<1> DEFINE st == Reading(g, wants)
<1>1. ~st.failed /\ ~st.ended /\ st.wants = wants /\ st.wants # "none"
  BY DEF Reading
<1>2. SetFlag(options, numbers, st, wants, arg) = Reading(Given(g, wants, arg), "none")
  BY FlagIsSet
<1> HIDE DEF st
<1>3. ParseArg(options, numbers, st, arg) = SetFlag(options, numbers, st, st.wants, arg)
  BY <1>1 DEF ParseArg
<1>4. SetFlag(options, numbers, st, st.wants, arg) = SetFlag(options, numbers, st, wants, arg)
  BY <1>1
<1> QED BY <1>2, <1>3, <1>4 DEF st

LEMMA WordEnds ==
  ASSUME NEW options, NEW numbers, NEW g, NEW arg, arg.kind = "word"
  PROVE  ParseArg(options, numbers, Reading(g, "none"), arg) = Ended(g, Append(<<>>, arg))
<1> DEFINE st == Reading(g, "none")
<1>1. st.failed = FALSE /\ st.wants = "none" /\ st.ended = FALSE /\ st.words = <<>>
  BY DEF Reading
<1>2. EndedWith(st, Append(<<>>, arg)) = Ended(g, Append(<<>>, arg))
  BY WordsBegin
<1> HIDE DEF st
<1>3. ParseArg(options, numbers, st, arg) = EndedWith(st, Append(<<>>, arg))
  BY <1>1 DEF ParseArg, EndedWith
<1> QED BY <1>2, <1>3 DEF st

LEMMA WordFollows ==
  ASSUME NEW options, NEW numbers, NEW g, NEW words, NEW arg
  PROVE  ParseArg(options, numbers, Ended(g, words), arg) = Ended(g, Append(words, arg))
<1> DEFINE st == Ended(g, words)
<1>1. st.failed = FALSE /\ st.wants = "none" /\ st.ended = TRUE /\ st.words = words
  BY DEF Ended
<1>2. WithWords(st, Append(words, arg)) = Ended(g, Append(words, arg))
  BY EndedChanges
<1> HIDE DEF st
<1>3. ParseArg(options, numbers, st, arg) = WithWords(st, Append(words, arg))
  BY <1>1 DEF ParseArg, WithWords
<1> QED BY <1>2, <1>3 DEF st

\* The options whose values are read with the n-th argument.
SaidBy(options, argv, name, n) ==
  {k \in OptionsAt(options, argv, name) : k <= n /\ ~(k = n /\ Needs(options, argv[k]))}

IsLast(options, argv, v, S) ==
  \/ S = {} /\ v = <<>>
  \/ \E k \in S : (\A j \in S : j <= k) /\ v = <<ValueAt(options, argv, k)>>

SoFar(options, argv, g, n) ==
  /\ DOMAIN g = DOMAIN options
  /\ \A name \in DOMAIN options : IsLast(options, argv, g[name], SaidBy(options, argv, name, n))

WaitsFor(options, argv, n) ==
  IF Roles(options, argv)[n] = "option" /\ Needs(options, argv[n]) THEN argv[n].name ELSE "none"

LEMMA RoleFacts ==
  ASSUME NEW options, NEW numbers, NEW argv, IsCommandLine(argv), Sensible(options, numbers, argv),
         NEW n \in 1 .. Len(argv)
  PROVE  LET role == Roles(options, argv)
         IN  /\ role[n] \in {"word", "option", "value", "end", "rest"}
             /\ role[n] = "value" <=> role[n - 1] = "option" /\ Needs(options, argv[n - 1])
             /\ role[n] = "value" => n - 1 \in 1 .. Len(argv)
             /\ role[n] \in {"word", "rest", "value"} => argv[n].kind = "word"
             /\ role[n] = "option" =>
                  /\ argv[n].kind = "option" /\ argv[n].name \in DOMAIN options
                  /\ Needs(options, argv[n]) => n < Len(argv)
                  /\ Accepts(options[argv[n].name], ValueAt(options, argv, n), numbers)
<1> DEFINE role == Roles(options, argv)
<1>1. Len(argv) \in Nat /\ DOMAIN argv = 1 .. Len(argv) /\ argv[n].kind \in {"word", "option", "dashes"}
  BY DEF IsCommandLine
<1>2. role[0] = "word" /\ role[n] = RoleAfter(options, argv, role[n - 1], n)
  BY <1>1, RolesOf
<1>3. /\ role[n] \in {"word", "rest", "value"} => argv[n].kind = "word"
      /\ role[n] = "option" =>
           /\ argv[n].name \in DOMAIN options
           /\ argv[n].value = <<>> => IsBool(options, argv[n].name) \/ n < Len(argv)
           /\ Accepts(options[argv[n].name], ValueAt(options, argv, n), numbers)
  BY <1>1 DEF Sensible
<1> HIDE DEF role
<1>4. /\ role[n] \in {"word", "option", "value", "end", "rest"}
      /\ role[n] = "value" <=> role[n - 1] = "option" /\ Needs(options, argv[n - 1])
      /\ role[n] = "option" => argv[n].kind = "option"
  BY <1>1, <1>2 DEF RoleAfter
<1>5. role[n] = "value" => n - 1 \in 1 .. Len(argv)
  <2>1. n # 1 => n - 1 \in 1 .. Len(argv)
    BY <1>1
  <2>2. n = 1 => role[n - 1] = "word"
    BY <1>2
  <2> QED BY <1>4, <2>1, <2>2
<1>6. role[n] = "option" /\ Needs(options, argv[n]) => n < Len(argv)
  BY <1>3 DEF Needs
<1> QED BY <1>3, <1>4, <1>5, <1>6 DEF role

\* A value that is read is the last of its option.
LEMMA SaidMore ==
  ASSUME NEW options, NEW argv, NEW g, NEW n \in Nat, NEW m \in Nat, SoFar(options, argv, g, n),
         NEW name \in DOMAIN options, NEW k \in Nat,
         \A j \in SaidBy(options, argv, name, n) : j <= k,
         SaidBy(options, argv, name, m) = SaidBy(options, argv, name, n) \cup {k},
         \A x \in DOMAIN options \ {name} : SaidBy(options, argv, x, m) = SaidBy(options, argv, x, n)
  PROVE  SoFar(options, argv, Given(g, name, ValueAt(options, argv, k)), m)
<1> DEFINE h == Given(g, name, ValueAt(options, argv, k))
<1>1. DOMAIN h = DOMAIN options /\ h[name] = <<ValueAt(options, argv, k)>>
      /\ \A x \in DOMAIN options \ {name} : h[x] = g[x]
  BY DEF SoFar, Given
<1> HIDE DEF h
<1>2. ASSUME NEW x \in DOMAIN options PROVE IsLast(options, argv, h[x], SaidBy(options, argv, x, m))
  <2>1. CASE x = name
    <3>1. k \in SaidBy(options, argv, x, m) /\ \A j \in SaidBy(options, argv, x, m) : j <= k
      BY <2>1
    <3>2. h[x] = <<ValueAt(options, argv, k)>>
      BY <1>1, <2>1
    <3> QED BY <3>1, <3>2 DEF IsLast
  <2>2. CASE x # name
    <3>1. IsLast(options, argv, g[x], SaidBy(options, argv, x, n))
      BY DEF SoFar
    <3>2. h[x] = g[x] /\ SaidBy(options, argv, x, m) = SaidBy(options, argv, x, n)
      BY <1>1, <2>2
    <3> QED BY <3>1, <3>2
  <2> QED BY <2>1, <2>2
<1>3. SoFar(options, argv, h, m)
  BY <1>1, <1>2 DEF SoFar
<1> QED BY <1>3 DEF h

\* The sets of options read, one argument after the other.
LEMMA SaidStep ==
  ASSUME NEW options, NEW numbers, NEW argv, IsCommandLine(argv), Sensible(options, numbers, argv),
         NEW n \in 1 .. Len(argv)
  PROVE  LET role == Roles(options, argv)
             before(x) == SaidBy(options, argv, x, n - 1)
             after(x)  == SaidBy(options, argv, x, n)
         IN  /\ \A x : \A j \in before(x) : j \in Nat /\ j <= n - 1
             /\ role[n] \notin {"option", "value"} => \A x : after(x) = before(x)
             /\ role[n] = "option" =>
                  \A x : after(x) = IF x = argv[n].name /\ ~Needs(options, argv[n])
                                   THEN before(x) \cup {n} ELSE before(x)
             /\ role[n] = "value" =>
                  \A x : after(x) = IF x = argv[n - 1].name THEN before(x) \cup {n - 1} ELSE before(x)
<1> DEFINE role == Roles(options, argv)
           N == Len(argv)
<1>1. N \in Nat /\ DOMAIN argv = 1 .. N
  BY DEF IsCommandLine
<1>2. \A x : \A k : k \in OptionsAt(options, argv, x) <=> k \in 1 .. N /\ role[k] = "option" /\ argv[k].name = x
  BY <1>1 DEF OptionsAt
<1>3. /\ role[n] = "value" <=> role[n - 1] = "option" /\ Needs(options, argv[n - 1])
      /\ role[n] = "value" => n - 1 \in 1 .. N
  BY RoleFacts
<1> HIDE DEF role, N
<1>4. \A x, k, m : k \in SaidBy(options, argv, x, m) <=>
                     /\ k \in 1 .. N /\ role[k] = "option" /\ argv[k].name = x
                     /\ k <= m /\ ~(k = m /\ Needs(options, argv[k]))
  BY <1>2 DEF SaidBy
<1>5. n \in Nat /\ \A k \in 1 .. N : k <= n <=> k <= n - 1 \/ k = n
  BY <1>1 DEF N
<1>6. \A x : \A j \in SaidBy(options, argv, x, n - 1) : j \in Nat /\ j <= n - 1
  BY <1>4, <1>5
<1>a. ASSUME NEW x, NEW k
      PROVE  k \in SaidBy(options, argv, x, n) <=>
               \/ k \in SaidBy(options, argv, x, n - 1)
               \/ k = n - 1 /\ role[n] = "value" /\ argv[n - 1].name = x
               \/ k = n /\ role[n] = "option" /\ argv[n].name = x /\ ~Needs(options, argv[n])
  <2>1. CASE k = n
    <3>1. k \in 1 .. N /\ ~(k <= n - 1) /\ k # n - 1 /\ k <= n
      BY <1>1, <1>5, <2>1 DEF N
    <3> QED BY <1>4, <2>1, <3>1
  <2>2. CASE k = n - 1 /\ k \in 1 .. N
    <3>1. k <= n /\ k # n /\ k <= n - 1
      BY <1>1, <1>5, <2>2
    <3> QED BY <1>3, <1>4, <2>2, <3>1
  <2>3. CASE k # n /\ k # n - 1 /\ k \in 1 .. N
    <3>1. k <= n <=> k <= n - 1
      BY <1>5, <2>3
    <3> QED BY <1>4, <2>3, <3>1
  <2>4. CASE k # n /\ k \notin 1 .. N
    BY <1>3, <1>4, <2>4
  <2> QED BY <2>1, <2>2, <2>3, <2>4
<1>7. ASSUME role[n] \notin {"option", "value"}, NEW x
      PROVE  SaidBy(options, argv, x, n) = SaidBy(options, argv, x, n - 1)
  <2>1. \A k : k \in SaidBy(options, argv, x, n) <=> k \in SaidBy(options, argv, x, n - 1)
    BY <1>7, <1>a
  <2> QED BY <2>1
<1>8. ASSUME role[n] = "option", NEW x
      PROVE  SaidBy(options, argv, x, n)
               = IF x = argv[n].name /\ ~Needs(options, argv[n])
                 THEN SaidBy(options, argv, x, n - 1) \cup {n} ELSE SaidBy(options, argv, x, n - 1)
  <2>1. \A k : k \in SaidBy(options, argv, x, n) <=>
               \/ k \in SaidBy(options, argv, x, n - 1)
               \/ k = n /\ argv[n].name = x /\ ~Needs(options, argv[n])
    BY <1>8, <1>a
  <2> QED BY <2>1
<1>9. ASSUME role[n] = "value", NEW x
      PROVE  SaidBy(options, argv, x, n)
               = IF x = argv[n - 1].name
                 THEN SaidBy(options, argv, x, n - 1) \cup {n - 1} ELSE SaidBy(options, argv, x, n - 1)
  <2>1. \A k : k \in SaidBy(options, argv, x, n) <=>
               \/ k \in SaidBy(options, argv, x, n - 1)
               \/ k = n - 1 /\ argv[n - 1].name = x
    BY <1>9, <1>a
  <2> QED BY <2>1
<1> QED BY <1>6, <1>7, <1>8, <1>9 DEF role

\* What flag.FlagSet has read of the options with the n-th argument.
HasRead(options, argv, st, n) ==
  \E g : SoFar(options, argv, g, n) /\ st = Reading(g, WaitsFor(options, argv, n))

LEMMA OptionStep ==
  ASSUME NEW options, NEW numbers, NEW argv, IsCommandLine(argv), Sensible(options, numbers, argv),
         "none" \notin DOMAIN options, NEW n \in 1 .. Len(argv),
         NEW st, HasRead(options, argv, st, n - 1)
  PROVE  /\ Roles(options, argv)[n] \notin {"option", "value"} => HasRead(options, argv, st, n)
         /\ Roles(options, argv)[n] \in {"option", "value"} =>
              HasRead(options, argv, ParseArg(options, numbers, st, argv[n]), n)
<1> DEFINE role == Roles(options, argv)
           N == Len(argv)
           after == ParseArg(options, numbers, st, argv[n])
<1>1. N \in Nat /\ DOMAIN argv = 1 .. N /\ n \in Nat /\ n - 1 \in Nat
  BY DEF IsCommandLine
<1>2. PICK g : SoFar(options, argv, g, n - 1) /\ st = Reading(g, WaitsFor(options, argv, n - 1))
  BY DEF HasRead
<1>3. /\ role[n] = "value" <=> role[n - 1] = "option" /\ Needs(options, argv[n - 1])
      /\ role[n] = "value" => n - 1 \in 1 .. N
  BY RoleFacts
<1>4. role[n] # "value" => st = Reading(g, "none")
  BY <1>2, <1>3 DEF WaitsFor
<1>5. \A x : \A j \in SaidBy(options, argv, x, n - 1) : j \in Nat /\ j <= n - 1
  BY SaidStep
<1>6. CASE role[n] \notin {"option", "value"}
  <2>1. \A x : SaidBy(options, argv, x, n) = SaidBy(options, argv, x, n - 1)
    BY <1>6, SaidStep
  <2>2. SoFar(options, argv, g, n)
    BY <1>2, <2>1 DEF SoFar
  <2>3. WaitsFor(options, argv, n) = "none"
    BY <1>6 DEF WaitsFor
  <2>4. HasRead(options, argv, st, n)
    BY <1>4, <1>6, <2>2, <2>3 DEF HasRead
  <2> QED BY <1>6, <2>4
<1>7. CASE role[n] = "option"
  <2> DEFINE arg == argv[n]
             v == ValueAt(options, argv, n)
  <2>1. /\ arg.kind = "option" /\ arg.name \in DOMAIN options
        /\ Accepts(options[arg.name], v, numbers)
    BY <1>7, RoleFacts
  <2>2. ~Needs(options, arg) => /\ v = IF arg.value # <<>> THEN arg.value[1] ELSE Word("true")
                                /\ Accepts(options[arg.name], v, numbers)
    BY <2>1 DEF ValueAt, Needs
  <2>3. \A x : SaidBy(options, argv, x, n)
                 = IF x = arg.name /\ ~Needs(options, arg)
                   THEN SaidBy(options, argv, x, n - 1) \cup {n} ELSE SaidBy(options, argv, x, n - 1)
    BY <1>7, SaidStep
  <2>4. WaitsFor(options, argv, n) = IF Needs(options, arg) THEN arg.name ELSE "none"
    BY <1>7 DEF WaitsFor
  <2>5. st = Reading(g, "none")
    BY <1>4, <1>7
  <2> HIDE DEF v, arg
  <2>6. after = ParseArg(options, numbers, Reading(g, "none"), arg)
    BY <2>5 DEF arg
  <2> HIDE DEF after
  <2>7. CASE Needs(options, arg)
    <3>1. SoFar(options, argv, g, n)
      BY <1>2, <2>3, <2>7 DEF SoFar
    <3>2. after = Reading(g, arg.name)
      BY <2>1, <2>6, <2>7, OptionWaits
    <3>3. HasRead(options, argv, after, n)
      BY <2>4, <2>7, <3>1, <3>2 DEF HasRead
    <3> QED BY <1>7, <3>3 DEF after
  <2>8. CASE ~Needs(options, arg)
    <3>1. SoFar(options, argv, Given(g, arg.name, v), n)
      <4>1. \A j \in SaidBy(options, argv, arg.name, n - 1) : j <= n
        BY <1>1, <1>5
      <4>2. SaidBy(options, argv, arg.name, n) = SaidBy(options, argv, arg.name, n - 1) \cup {n}
        BY <2>3, <2>8
      <4>3. \A x \in DOMAIN options \ {arg.name} :
              SaidBy(options, argv, x, n) = SaidBy(options, argv, x, n - 1)
        BY <2>3
      <4> QED BY <1>1, <1>2, <2>1, <4>1, <4>2, <4>3, SaidMore DEF v
    <3>2. after = Reading(Given(g, arg.name, v), "none")
      BY <2>1, <2>2, <2>6, <2>8, OptionHasValue
    <3>3. HasRead(options, argv, after, n)
      BY <2>4, <2>8, <3>1, <3>2 DEF HasRead
    <3> QED BY <1>7, <3>3 DEF after
  <2> QED BY <2>7, <2>8
<1>8. CASE role[n] = "value"
  <2> DEFINE name == argv[n - 1].name
             k == n - 1
  <2>1. k \in 1 .. N /\ role[k] = "option" /\ Needs(options, argv[k])
    BY <1>3, <1>8
  <2>2. name \in DOMAIN options /\ Accepts(options[name], ValueAt(options, argv, k), numbers)
    BY <2>1, RoleFacts
  <2>3. ValueAt(options, argv, k) = argv[n]
    BY <1>1, <2>1 DEF ValueAt, Needs
  <2>4. st = Reading(g, name) /\ name # "none"
    BY <1>2, <2>1, <2>2 DEF WaitsFor
  <2>5. WaitsFor(options, argv, n) = "none"
    BY <1>8 DEF WaitsFor
  <2>6. \A x : SaidBy(options, argv, x, n)
                 = IF x = name THEN SaidBy(options, argv, x, n - 1) \cup {k} ELSE SaidBy(options, argv, x, n - 1)
    BY <1>8, SaidStep
  <2>7. k \in Nat /\ \A j \in SaidBy(options, argv, name, n - 1) : j <= k
    BY <1>1, <1>5
  <2> HIDE DEF name, k
  <2>8. after = Reading(Given(g, name, argv[n]), "none")
    BY <2>2, <2>3, <2>4, ValueIsRead
  <2>9. SoFar(options, argv, Given(g, name, argv[n]), n)
    <3>1. SaidBy(options, argv, name, n) = SaidBy(options, argv, name, n - 1) \cup {k}
      BY <2>6
    <3>2. \A x \in DOMAIN options \ {name} : SaidBy(options, argv, x, n) = SaidBy(options, argv, x, n - 1)
      BY <2>6
    <3>3. SoFar(options, argv, Given(g, name, ValueAt(options, argv, k)), n)
      BY <1>1, <1>2, <2>2, <2>7, <3>1, <3>2, SaidMore
    <3> QED BY <2>3, <3>3
  <2>10. HasRead(options, argv, after, n)
    BY <2>5, <2>8, <2>9 DEF HasRead
  <2> QED BY <1>8, <2>10
<1> QED BY <1>6, <1>7, <1>8

LEMMA OptionsAreRead ==
  ASSUME NEW options, NEW numbers, NEW argv, IsCommandLine(argv), Sensible(options, numbers, argv),
         "none" \notin DOMAIN options, NEW t, NEW w, Moves(options, argv, t, w),
         NEW P, P[0] = ParseStart(options),
         \A k \in 1 .. Len(FlexibleFlagArgs(options, argv)) :
           P[k] = ParseArg(options, numbers, P[k - 1], FlexibleFlagArgs(options, argv)[k])
  PROVE  \A n \in 0 .. Len(argv) : HasRead(options, argv, P[Len(t[n].options)], n)
<1> DEFINE N == Len(argv)
           E == {argv[k] : k \in DOMAIN argv}
           made == FlexibleFlagArgs(options, argv)
           role == Roles(options, argv)
           num(n) == Len(t[n].options)
           T == {n \in 0 .. N : HasRead(options, argv, P[num(n)], n)}
<1>1. /\ N \in Nat /\ DOMAIN argv = 1 .. N
      /\ \A n \in 0 .. N : t[n].options \in Seq(E)
      /\ \A n \in 0 .. N : Len(t[n].options) <= Len(t[N].options)
      /\ \A n \in 0 .. N : \A i \in 1 .. Len(t[n].options) : made[i] = t[n].options[i]
      /\ Len(made) = Len(t[N].options) + Len(w[N])
      /\ w[N] \in Seq(E)
  <2>1. N \in Nat /\ DOMAIN argv = 1 .. N /\ N \in 0 .. N
    BY DEF IsCommandLine
  <2>2. Placed(options, argv, t, w)
    BY MovesFacts
  <2> QED BY <2>1, <2>2 DEF Placed
<1>2. /\ t[0] = Start
      /\ \A n \in 1 .. N : t[n].options = IF role[n] \in {"option", "value"}
                             THEN Append(t[n - 1].options, argv[n]) ELSE t[n - 1].options
  BY DEF Moves
<1>3. role[0] = "word"
  BY <1>1, RolesOf
<1>4. \A n \in 1 .. N : argv[n] \in E /\ n - 1 \in 0 .. N /\ n \in 0 .. N
  BY <1>1
<1>5. \A k \in 1 .. Len(made) : P[k] = ParseArg(options, numbers, P[k - 1], made[k])
  OBVIOUS
<1>6. 0 \in T
  <2>1. num(0) = 0
    BY <1>2 DEF Start
  <2>2. P[0] = Reading(Unset(options), "none")
    BY DEF ParseStart, Reading
  <2>3. \A name : SaidBy(options, argv, name, 0) = {}
    BY <1>1 DEF SaidBy, OptionsAt
  <2>4. SoFar(options, argv, Unset(options), 0)
    BY <2>3 DEF SoFar, IsLast, Unset
  <2>5. WaitsFor(options, argv, 0) = "none"
    BY <1>3 DEF WaitsFor
  <2>6. HasRead(options, argv, P[0], 0)
    BY <2>2, <2>4, <2>5 DEF HasRead
  <2> QED BY <1>1, <2>1, <2>6
<1>7. ASSUME NEW n \in 1 .. N, n - 1 \in T PROVE n \in T
  <2>1. HasRead(options, argv, P[num(n - 1)], n - 1)
    BY <1>7
  <2>2. CASE role[n] \notin {"option", "value"}
    <3>1. num(n) = num(n - 1)
      BY <1>2, <2>2
    <3>2. HasRead(options, argv, P[num(n - 1)], n)
      BY <2>1, <2>2, OptionStep
    <3> QED BY <1>4, <3>1, <3>2
  <2>3. CASE role[n] \in {"option", "value"}
    <3> DEFINE old == t[n - 1].options
               new == t[n].options
    <3>1. old \in Seq(E) /\ argv[n] \in E /\ new = Append(old, argv[n]) /\ new \in Seq(E)
          /\ Len(new) <= Len(t[N].options) /\ t[N].options \in Seq(E)
      <4>1. N \in 0 .. N
        BY <1>1
      <4> QED BY <1>1, <1>2, <1>4, <2>3, <4>1
    <3>2. Len(new) = Len(old) + 1 /\ new[Len(new)] = argv[n] /\ Len(old) \in Nat
      BY <3>1
    <3>3. made[Len(new)] = argv[n]
      <4>1. Len(new) \in 1 .. Len(new)
        BY <3>2
      <4>2. n \in 0 .. N
        BY <1>4
      <4>3. made[Len(new)] = new[Len(new)]
        BY <1>1, <4>1, <4>2
      <4> QED BY <3>2, <4>3
    <3>4. Len(new) \in 1 .. Len(made) /\ Len(new) - 1 = Len(old)
      <4>1. Len(w[N]) \in Nat /\ Len(t[N].options) \in Nat /\ Len(made) = Len(t[N].options) + Len(w[N])
        BY <1>1, <3>1
      <4>2. Len(new) <= Len(t[N].options) /\ Len(new) = Len(old) + 1 /\ Len(old) \in Nat
        BY <3>1, <3>2
      <4> DEFINE a == Len(new)  b == Len(made)  c == Len(t[N].options)  d == Len(w[N])  e == Len(old)
      <4>3. d \in Nat /\ c \in Nat /\ b = c + d /\ a <= c /\ a = e + 1 /\ e \in Nat
        BY <4>1, <4>2
      <4> HIDE DEF a, b, c, d, e
      <4>4. a \in 1 .. b /\ a - 1 = e
        BY <4>3
      <4> QED BY <4>4 DEF a, b, e
    <3>5. P[num(n)] = ParseArg(options, numbers, P[num(n - 1)], argv[n])
      BY <1>5, <3>3, <3>4
    <3> HIDE DEF num
    <3>6. HasRead(options, argv, P[num(n)], n)
      BY <2>1, <2>3, <3>5, OptionStep
    <3> QED BY <1>4, <3>6
  <2> QED BY <2>2, <2>3
<1>8. \A n \in 0 .. N : n \in T
  <2> HIDE DEF T
  <2> QED BY <1>1, <1>6, <1>7, Induct
<1> QED BY <1>8

\* Nothing but words goes behind the options.
LEMMA OnlyWords ==
  ASSUME NEW options, NEW numbers, NEW argv, IsCommandLine(argv), Sensible(options, numbers, argv),
         NEW t, NEW w, Moves(options, argv, t, w)
  PROVE  \A i \in 1 .. Len(w[Len(argv)]) : w[Len(argv)][i].kind = "word"
<1> DEFINE N == Len(argv)
           E == {argv[k] : k \in DOMAIN argv}
           role == Roles(options, argv)
           Fine(n) == \A i \in 1 .. Len(w[n]) : w[n][i].kind = "word"
           T == {n \in 0 .. N : Fine(n)}
<1>1. N \in Nat /\ DOMAIN argv = 1 .. N /\ \A n \in 0 .. N : w[n] \in Seq(E)
  <2>1. N \in Nat /\ DOMAIN argv = 1 .. N
    BY DEF IsCommandLine
  <2>2. Placed(options, argv, t, w)
    BY MovesFacts
  <2> QED BY <2>1, <2>2 DEF Placed
<1>2. /\ w[0] = <<>>
      /\ \A n \in 1 .. N : w[n] = IF role[n] \in {"word", "rest"} THEN Append(w[n - 1], argv[n]) ELSE w[n - 1]
  BY DEF Moves
<1>3. \A n \in 1 .. N : /\ argv[n] \in E /\ n - 1 \in 0 .. N
                        /\ role[n] \in {"word", "rest"} => argv[n].kind = "word"
  BY <1>1, RoleFacts
<1> HIDE DEF role, E, N
<1>4. 0 \in T
  BY <1>1, <1>2
<1>5. ASSUME NEW n \in 1 .. N, n - 1 \in T PROVE n \in T
  <2>0. n - 1 \in 0 .. N /\ n \in 0 .. N
    BY <1>1
  <2>1. n - 1 \in 0 .. N /\ n \in 0 .. N /\ w[n - 1] \in Seq(E) /\ argv[n] \in E
    BY <1>1, <1>3, <2>0
  <2>2. Fine(n)
    <3>1. CASE role[n] \in {"word", "rest"}
      <4>1. w[n] = Append(w[n - 1], argv[n]) /\ argv[n].kind = "word"
        BY <1>2, <1>3, <3>1
      <4>2. \A i \in 1 .. Len(w[n]) : i \in 1 .. Len(w[n - 1]) \/ i = Len(w[n - 1]) + 1
        BY <2>1, <4>1
      <4>3. /\ w[n][Len(w[n - 1]) + 1] = argv[n]
            /\ \A i \in 1 .. Len(w[n - 1]) : w[n][i] = w[n - 1][i]
        BY <2>1, <4>1
      <4> QED BY <1>5, <4>1, <4>2, <4>3
    <3>2. CASE role[n] \notin {"word", "rest"}
      BY <1>2, <1>5, <3>2
    <3> QED BY <3>1, <3>2
  <2> HIDE DEF Fine
  <2> QED BY <2>1, <2>2
<1>6. N \in T
  <2>1. \A n \in 0 .. N : n \in T
    <3> HIDE DEF T
    <3> QED BY <1>1, <1>4, <1>5, Induct
  <2> QED BY <1>1, <2>1
<1> QED BY <1>6 DEF N

LEMMA MaxIs ==
  ASSUME NEW T \in SUBSET Nat, NEW a \in T, \A n \in T : n <= a
  PROVE  a = Max(T)
<1>1. Max(T) \in T /\ \A n \in T : Max(T) >= n
  BY DEF Max
<1>2. PICK x \in T : x = Max(T) /\ x >= a
  BY <1>1
<1>3. a >= x /\ a \in Nat /\ x \in Nat
  OBVIOUS
<1>4. a = x
  BY <1>2, <1>3
<1> QED BY <1>2, <1>4

LEMMA AllIsSaid ==
  ASSUME NEW options, NEW numbers, NEW argv, IsCommandLine(argv), Sensible(options, numbers, argv),
         NEW g, SoFar(options, argv, g, Len(argv)), NEW name \in DOMAIN options
  PROVE  g[name] = GivenBy(options, argv, name)
<1> DEFINE N == Len(argv)
           S == OptionsAt(options, argv, name)
<1>1. N \in Nat /\ DOMAIN argv = 1 .. N
  BY DEF IsCommandLine
<1>2. S \in SUBSET Nat /\ \A k \in S : k \in 1 .. N /\ Roles(options, argv)[k] = "option"
  BY <1>1 DEF OptionsAt
<1>3. \A k \in S : k <= N /\ ~(k = N /\ Needs(options, argv[k]))
  <2>1. \A k \in S : Needs(options, argv[k]) => k < N
    BY <1>2, RoleFacts
  <2> QED BY <1>1, <1>2, <2>1
<1>4. SaidBy(options, argv, name, N) = S
  BY <1>3 DEF SaidBy
<1>5. IsLast(options, argv, g[name], S)
  BY <1>4 DEF SoFar
<1>6. GivenBy(options, argv, name) = IF S = {} THEN <<>> ELSE <<ValueAt(options, argv, Max(S))>>
  BY DEF GivenBy
<1> HIDE DEF S
<1>7. CASE S = {}
  BY <1>5, <1>6, <1>7 DEF IsLast
<1>8. CASE S # {}
  <2>1. PICK k \in S : (\A j \in S : j <= k) /\ g[name] = <<ValueAt(options, argv, k)>>
    BY <1>5, <1>8 DEF IsLast
  <2>2. k = Max(S)
    BY <1>2, <2>1, MaxIs
  <2> QED BY <1>6, <1>8, <2>1, <2>2
<1> QED BY <1>7, <1>8

\* A sensible command line is understood as it says.
Understood(options, argv, parsed) ==
  /\ parsed.failed = FALSE
  /\ parsed.words = WordsOf(options, argv)
  /\ \A name \in DOMAIN options : parsed.given[name] = GivenBy(options, argv, name)

LEMMA SensibleIsUnderstood ==
  ASSUME NEW options, NEW numbers, NEW argv, IsCommandLine(argv), Sensible(options, numbers, argv),
         "none" \notin DOMAIN options
  PROVE  Understood(options, argv, Parse(options, numbers, argv))
<1> DEFINE N == Len(argv)
           made == FlexibleFlagArgs(options, argv)
           E == {argv[k] : k \in DOMAIN argv}
<1>1. N \in Nat /\ N \in 0 .. N /\ DOMAIN argv = 1 .. N
  BY DEF IsCommandLine
<1>2. PICK t, w : Moves(options, argv, t, w)
  BY MovesExist
<1> DEFINE o == Len(t[N].options)
           W == w[N]
           M == Len(W)
<1>3. /\ o \in Nat /\ M \in Nat /\ W \in Seq(E) /\ Len(made) = o + M
      /\ \A i \in 1 .. M : made[o + i] = W[i]
  <2>1. Placed(options, argv, t, w)
    BY <1>2, MovesFacts
  <2>2. t[N].options \in Seq(E) /\ w[N] \in Seq(E)
    BY <1>1, <2>1 DEF Placed
  <2>3. Len(made) = o + M /\ \A i \in 1 .. M : made[o + i] = W[i]
    BY <2>1 DEF Placed
  <2> HIDE DEF E, made
  <2>4. o \in Nat /\ M \in Nat /\ W \in Seq(E)
    BY <2>2
  <2> QED BY <2>3, <2>4
<1> HIDE DEF o, M, W, E
<1>4. Len(made) \in Nat
  BY <1>3
<1>5. PICK P :
        /\ P[0] = ParseStart(options)
        /\ \A k \in 1 .. Len(made) : P[k] = ParseArg(options, numbers, P[k - 1], made[k])
        /\ ~P[Len(made)].failed /\ P[Len(made)].wants = "none" =>
             FlagSetParse(options, numbers, made)
               = [failed |-> FALSE, given |-> P[Len(made)].given, words |-> P[Len(made)].words]
  BY <1>4, Parsed
<1>6. HasRead(options, argv, P[o], N)
  <2>1. \A n \in 0 .. Len(argv) : HasRead(options, argv, P[Len(t[n].options)], n)
    BY <1>2, <1>5, OptionsAreRead
  <2> QED BY <1>1, <2>1 DEF o
<1>7. WaitsFor(options, argv, N) = "none"
  <2>1. CASE N = 0
    BY <1>1, <2>1, RolesOf DEF WaitsFor
  <2>2. CASE N \in 1 .. N
    <3>1. Roles(options, argv)[N] = "option" /\ Needs(options, argv[N]) => N < N
      BY <2>2, RoleFacts
    <3> QED BY <1>1, <3>1 DEF WaitsFor
  <2> QED BY <1>1, <2>1, <2>2
<1>8. PICK g : SoFar(options, argv, g, N) /\ P[o] = Reading(g, "none")
  BY <1>6, <1>7 DEF HasRead
<1>9. \A i \in 1 .. M : W[i].kind = "word"
  BY <1>2, OnlyWords DEF W, M, N
<1>10. \A i \in 1 .. M : P[o + i] = ParseArg(options, numbers, P[o + (i - 1)], W[i])
  <2> SUFFICES ASSUME NEW i \in 1 .. M PROVE P[o + i] = ParseArg(options, numbers, P[o + (i - 1)], W[i])
    OBVIOUS
  <2>1. o + i \in 1 .. o + M /\ (o + i) - 1 = o + (i - 1)
    BY <1>3
  <2> QED BY <1>3, <1>5, <2>1
<1> HIDE DEF W, M, o, made, E, N
<1> DEFINE first(i) == SubSeq(W, 1, i)
           T == {i \in 0 .. M : i > 0 => P[o + i] = Ended(g, first(i))}
<1>11. M = Len(W)
  BY DEF M
<1>12. \A i \in 0 .. M : i \in T
  <2>1. 0 \in T
    BY <1>3
  <2>2. ASSUME NEW i \in 1 .. M, i - 1 \in T PROVE i \in T
    <3>1. first(i) = Append(first(i - 1), W[i])
      <4>1. i \in Nat /\ i - 1 \in Nat /\ i <= Len(W)
        BY <1>3, <1>11
      <4>2. Len(first(i)) = i /\ Len(first(i - 1)) = i - 1 /\ first(i) \in Seq(E) /\ first(i - 1) \in Seq(E)
        BY <1>3, <4>1
      <4>3. W[i] \in E
        BY <1>3, <1>11
      <4>4. \A k \in 1 .. i : first(i)[k] = W[k]
        BY <1>3, <4>1
      <4>5. \A k \in 1 .. i - 1 : first(i - 1)[k] = W[k]
        BY <1>3, <4>1
      <4> HIDE DEF first
      <4>6. Append(first(i - 1), W[i]) \in Seq(E) /\ Len(Append(first(i - 1), W[i])) = i
        BY <4>1, <4>2, <4>3
      <4>7. \A k \in 1 .. i : Append(first(i - 1), W[i])[k] = W[k]
        BY <4>1, <4>2, <4>3, <4>5
      <4> QED BY <4>2, <4>4, <4>6, <4>7, SeqEqual
    <3>2. P[o + i] = ParseArg(options, numbers, P[o + (i - 1)], W[i]) /\ W[i].kind = "word"
      BY <1>9, <1>10
    <3> HIDE DEF first
    <3>3. CASE i = 1
      <4>1. P[o + (i - 1)] = Reading(g, "none")
        BY <1>3, <1>8, <3>3
      <4>2. first(i - 1) = <<>>
        <5>1. SubSeq(W, 1, 0) = <<>>
          BY <1>3
        <5> QED BY <3>3, <5>1 DEF first
      <4>3. P[o + i] = Ended(g, Append(<<>>, W[i]))
        BY <3>2, <4>1, WordEnds
      <4>4. P[o + i] = Ended(g, first(i))
        BY <3>1, <4>2, <4>3
      <4> QED BY <1>3, <4>4
    <3>4. CASE i # 1
      <4>1. P[o + (i - 1)] = Ended(g, first(i - 1))
        BY <1>3, <2>2, <3>4
      <4>2. P[o + i] = Ended(g, Append(first(i - 1), W[i]))
        BY <3>2, <4>1, WordFollows
      <4>3. P[o + i] = Ended(g, first(i))
        BY <3>1, <4>2
      <4> QED BY <1>3, <4>3
    <3> QED BY <3>3, <3>4
  <2> HIDE DEF T
  <2> QED BY <1>3, <2>1, <2>2, Induct
<1> DEFINE st == P[Len(made)]
<1>13. st.failed = FALSE /\ st.wants = "none" /\ st.given = g /\ st.words = W
  <2>1. CASE M = 0
    <3>1. Len(made) = o
      BY <1>3, <2>1
    <3>2. W = <<>>
      <4>1. W \in Seq(E) /\ Len(W) = 0
        BY <1>3, <1>11, <2>1
      <4> QED BY <4>1
    <3> QED BY <1>8, <3>1, <3>2 DEF Reading
  <2>2. CASE M # 0
    <3>1. M \in 0 .. M /\ M > 0
      BY <1>3, <2>2
    <3>2. P[o + M] = Ended(g, first(M))
      BY <1>12, <3>1
    <3>3. SubSeq(W, 1, M) = W
      BY <1>3, <1>11
    <3> QED BY <1>3, <3>2, <3>3 DEF Ended
  <2> QED BY <2>1, <2>2
<1> HIDE DEF st
<1>14. Parse(options, numbers, argv) = [failed |-> FALSE, given |-> g, words |-> W]
  BY <1>5, <1>13 DEF Parse, made, st
<1>15. W = WordsOf(options, argv)
  BY <1>2 DEF Moves, W, N
<1>16. \A name \in DOMAIN options : g[name] = GivenBy(options, argv, name)
  BY <1>8, AllIsSaid DEF N
<1> QED BY <1>14, <1>15, <1>16 DEF Understood

-----------------------------------------------------------------------------
(* What pack and explain make of it.                                        *)

\* Of a sensible command line, whether an option is there is whether it says a value.
LEMMA PresentIsSaid ==
  ASSUME NEW options, NEW numbers, NEW list, IsCommandLine(list), Sensible(options, numbers, list), NEW name
  PROVE  /\ FlagPresent(list, name) <=> GivenBy(options, list, name) # <<>>
         /\ GivenBy(options, list, name) = <<>> \/ \E x : GivenBy(options, list, name) = <<x>>
<1> DEFINE role == Roles(options, list)
<1>1. Len(list) \in Nat /\ DOMAIN list = 1 .. Len(list)
  BY DEF IsCommandLine
<1>2. \A k \in 1 .. Len(list) : list[k].kind = "option" <=> role[k] = "option"
  <2> SUFFICES ASSUME NEW k \in 1 .. Len(list) PROVE list[k].kind = "option" <=> role[k] = "option"
    OBVIOUS
  <2>1. role[k] = "option" => list[k].kind = "option"
    BY RoleFacts
  <2>2. role[k] \in {"word", "option", "value", "end", "rest"}
    BY RoleFacts
  <2>3. role[k] \in {"word", "rest", "value"} => list[k].kind = "word"
    BY RoleFacts
  <2>4. role[k] = "end" => list[k].kind # "option"
    BY <1>1, RolesOf DEF RoleAfter
  <2> QED BY <2>1, <2>2, <2>3, <2>4
<1>3. FlagPresent(list, name) <=> OptionsAt(options, list, name) # {}
  BY <1>1, <1>2 DEF FlagPresent, OptionsAt
<1> QED BY <1>3 DEF GivenBy

\* What a pack's options are to be, of what the command line says of them.
Says(list, o) ==
  LET said(n) == GivenBy(PackOptions, list, n)
      text    == Task(WordsOf(PackOptions, list))
      unknown == said("format") \notin {<<>>, <<Word("markdown")>>, <<Word("claude")>>}
  IN  /\ o.refused <=> unknown \/ text = <<>>
      /\ ~o.refused =>
           /\ o.task = text
           /\ o.stdout <=> said("stdout") = <<Word("true")>>
           /\ o.budget = IF said("budget") = <<>> THEN DefaultBudget ELSE Numbers[said("budget")[1]]
           /\ o.tests = IF said("include-tests") = <<>> THEN "true" ELSE said("include-tests")[1].name

LEMMA PackOptSays ==
  ASSUME NEW list, IsCommandLine(list), Sensible(PackOptions, DOMAIN Numbers, list)
  PROVE  Says(list, PackOpt(list))
<1> DEFINE parsed == Parse(PackOptions, DOMAIN Numbers, list)
           said(n) == GivenBy(PackOptions, list, n)
           text    == Task(WordsOf(PackOptions, list))
           format  == Value(parsed.given, "format", Word("markdown"))
           o       == PackOpt(list)
<1>1. "none" \notin DOMAIN PackOptions
      /\ {"budget", "include-tests", "format", "stdout"} \subseteq DOMAIN PackOptions
  BY DEF PackOptions
<1>2. Understood(PackOptions, list, parsed)
  BY <1>1, SensibleIsUnderstood
<1>3. parsed.failed = FALSE /\ Task(parsed.words) = text
  BY <1>2 DEF Understood
<1>4. \A n \in {"budget", "include-tests", "format", "stdout"} : parsed.given[n] = said(n)
  BY <1>1, <1>2 DEF Understood
<1>5. \A n \in {"budget", "include-tests", "format", "stdout"} : said(n) = <<>> \/ \E x : said(n) = <<x>>
  BY PresentIsSaid
<1>6. o = IF format \notin {Word("markdown"), Word("claude")} \/ text = <<>>
          THEN [command |-> "pack", refused |-> TRUE]
          ELSE [command |-> "pack", refused |-> FALSE, task |-> text,
                budget  |-> IF parsed.given["budget"] = <<>> THEN DefaultBudget
                            ELSE Numbers[parsed.given["budget"][1]],
                tests   |-> Value(parsed.given, "include-tests", Word("true")).name,
                output  |-> IF parsed.given["output"] \in {<<>>, <<Empty>>} THEN FileOf(text)
                            ELSE parsed.given["output"][1].name,
                stdout  |-> Value(parsed.given, "stdout", Word("false")) = Word("true")]
  BY <1>3 DEF PackOpt
<1>7. format \in {Word("markdown"), Word("claude")}
        <=> said("format") \in {<<>>, <<Word("markdown")>>, <<Word("claude")>>}
  <2>1. format = IF said("format") = <<>> THEN Word("markdown") ELSE said("format")[1]
    BY <1>4 DEF Value
  <2>2. said("format") = <<>> \/ \E x : said("format") = <<x>>
    BY <1>5
  <2> QED BY <2>1, <2>2
<1>8. Value(parsed.given, "stdout", Word("false")) = Word("true") <=> said("stdout") = <<Word("true")>>
  <2>1. Value(parsed.given, "stdout", Word("false"))
          = IF said("stdout") = <<>> THEN Word("false") ELSE said("stdout")[1]
    BY <1>4 DEF Value
  <2>2. said("stdout") = <<>> \/ \E x : said("stdout") = <<x>>
    BY <1>5
  <2>3. Word("false") # Word("true")
    BY DEF Word
  <2> QED BY <2>1, <2>2, <2>3
<1>9. Value(parsed.given, "include-tests", Word("true")).name
        = IF said("include-tests") = <<>> THEN "true" ELSE said("include-tests")[1].name
  <2>1. Value(parsed.given, "include-tests", Word("true"))
          = IF said("include-tests") = <<>> THEN Word("true") ELSE said("include-tests")[1]
    BY <1>4 DEF Value
  <2>2. Word("true").name = "true"
    BY DEF Word
  <2> QED BY <2>1, <2>2
<1>10. parsed.given["budget"] = said("budget")
  BY <1>4
<1> HIDE DEF parsed, said, text, format, o
<1>11. CASE format \notin {Word("markdown"), Word("claude")} \/ text = <<>>
  <2>1. o.refused = TRUE
    BY <1>6, <1>11
  <2> QED BY <1>7, <1>11, <2>1 DEF Says, o, said, text
<1>12. CASE ~(format \notin {Word("markdown"), Word("claude")} \/ text = <<>>)
  <2>1. /\ o.refused = FALSE /\ o.task = text
        /\ o.budget = IF said("budget") = <<>> THEN DefaultBudget ELSE Numbers[said("budget")[1]]
        /\ o.tests = IF said("include-tests") = <<>> THEN "true" ELSE said("include-tests")[1].name
    BY <1>6, <1>9, <1>10, <1>12
  <2>2. o.stdout <=> said("stdout") = <<Word("true")>>
    BY <1>6, <1>8, <1>12
  <2> QED BY <1>7, <1>12, <2>1, <2>2 DEF Says, o, said, text
<1> QED BY <1>11, <1>12

LEMMA ExplainOptSays ==
  ASSUME NEW list, IsCommandLine(list), Sensible(ExplainOptions, DOMAIN Numbers, list)
  PROVE  LET read == WordsOf(ExplainOptions, list)
         IN  /\ ~ExplainOpt(list).refused
             /\ ExplainOpt(list).file = IF read = <<>> THEN "latest" ELSE read[1].name
<1> DEFINE parsed == Parse(ExplainOptions, DOMAIN Numbers, list)
           read   == WordsOf(ExplainOptions, list)
<1>1. "none" \notin DOMAIN ExplainOptions
  BY DEF ExplainOptions
<1>2. Understood(ExplainOptions, list, parsed)
  BY <1>1, SensibleIsUnderstood
<1>3. parsed.failed = FALSE /\ parsed.words = read
  BY <1>2 DEF Understood
<1>4. ExplainOpt(list) = [command |-> "explain", refused |-> FALSE, expects |-> NoPack,
                          file |-> IF read = <<>> THEN "latest" ELSE read[1].name]
  BY <1>3 DEF ExplainOpt
<1> HIDE DEF read
<1>5. ExplainOpt(list).refused = FALSE
      /\ ExplainOpt(list).file = IF read = <<>> THEN "latest" ELSE read[1].name
  BY <1>4
<1> QED BY <1>5 DEF read

-----------------------------------------------------------------------------
(* A process remembers the arguments it was given as long as it needs them. *)

\* The options with what .ctxpack.yml says, where the command line does not.
Configured(o, list, b) ==
  /\ b.command = o.command /\ b.refused = o.refused /\ b.task = o.task /\ b.stdout = o.stdout
  /\ b.budget = IF ~FlagPresent(list, "budget") /\ CfgBudget > 0 THEN CfgBudget ELSE o.budget
  /\ b.tests = IF ~FlagPresent(list, "include-tests") /\ CfgTests # "unset" THEN CfgTests ELSE o.tests

Told(p) ==
  /\ pc[p] \in {"parsed", "built"} => IsCommandLine(args[p])
  /\ pc[p] = "parsed" => opt[p] = PackOpt(args[p]) \/ opt[p] = ExplainOpt(args[p])
  /\ pc[p] = "built" => /\ PackOpt(args[p]).command = "pack" /\ ~PackOpt(args[p]).refused
                        /\ Configured(PackOpt(args[p]), args[p], opt[p])

FInv == IInv /\ \A p \in Procs : Told(p)

LEMMA CommandsDiffer ==
  ASSUME NEW list
  PROVE  PackOpt(list).command = "pack" /\ ExplainOpt(list).command = "explain"
<1>1. PackOpt(list).command = "pack"
  BY DEF PackOpt
<1>2. ExplainOpt(list).command = "explain"
  BY DEF ExplainOpt
<1> QED BY <1>1, <1>2

LEMMA ToldStep == FInv /\ [Next]_vars => \A p \in Procs : Told(p)'
<1> SUFFICES ASSUME IInv, \A p \in Procs : Told(p), [Next]_vars PROVE \A p \in Procs : Told(p)'
  BY DEF FInv
<1>1. Shapes /\ Making
  BY DEF IInv
<1>s. ASSUME NEW q \in Procs, pc'[q] = pc[q], opt'[q] = opt[q], args'[q] = args[q]
      PROVE  Told(q)'
  BY <1>s DEF Told, Configured
<1>o. ASSUME NEW q \in Procs, pc'[q] \notin {"parsed", "built"}
      PROVE  Told(q)'
  BY <1>o DEF Told
<1>2. ASSUME NEW p \in Procs, Refuse(p) \/ WriteElsewhere(p) \/ Close(p) \/ NothingToRead(p)
                             \/ Exit(p) \/ Die(p)
      PROVE  \A q \in Procs : Told(q)'
  <2>1. End(p)
    BY <1>2 DEF Refuse, WriteElsewhere, Close, NothingToRead, Exit, Die
  <2>2. pc'[p] = "idle" /\ \A q \in Procs \ {p} : pc'[q] = pc[q] /\ opt'[q] = opt[q] /\ args'[q] = args[q]
    BY <1>1, <2>1 DEF End, Shapes
  <2> QED BY <1>s, <1>o, <2>2
<1>3. ASSUME NEW p \in Procs, BeginPack(p) PROVE \A q \in Procs : Told(q)'
  <2>1. PICK list \in PackArgs(begun') : /\ args' = [args EXCEPT ![p] = list]
                                         /\ opt' = [opt EXCEPT ![p] = PackOpt(list)]
    BY <1>3 DEF BeginPack
  <2>2. begun' \in 1 .. Commands
    BY <1>1, <1>3, BoundsAssumption DEF BeginPack, Shapes
  <2>3. IsCommandLine(list)
    BY <2>2, ArgsAssumption
  <2>4. args'[p] = list /\ opt'[p] = PackOpt(list) /\ pc'[p] = "parsed"
    BY <1>1, <1>3, <2>1 DEF BeginPack, Shapes
  <2>5. Told(p)'
    BY <2>3, <2>4 DEF Told
  <2>6. \A q \in Procs \ {p} : pc'[q] = pc[q] /\ opt'[q] = opt[q] /\ args'[q] = args[q]
    BY <1>1, <1>3, <2>1 DEF BeginPack, Shapes
  <2> QED BY <1>s, <2>5, <2>6
<1>4. ASSUME NEW p \in Procs, BeginExplain(p) PROVE \A q \in Procs : Told(q)'
  <2>1. PICK list \in ExplainArgs : /\ args' = [args EXCEPT ![p] = list]
                                    /\ opt' = [opt EXCEPT ![p] = ExplainOpt(list)]
    BY <1>4 DEF BeginExplain
  <2>2. IsCommandLine(list)
    BY ArgsAssumption
  <2>3. args'[p] = list /\ opt'[p] = ExplainOpt(list) /\ pc'[p] = "parsed"
    BY <1>1, <1>4, <2>1 DEF BeginExplain, Shapes
  <2>4. Told(p)'
    BY <2>2, <2>3 DEF Told
  <2>5. \A q \in Procs \ {p} : pc'[q] = pc[q] /\ opt'[q] = opt[q] /\ args'[q] = args[q]
    BY <1>1, <1>4, <2>1 DEF BeginExplain, Shapes
  <2> QED BY <1>s, <2>4, <2>5
<1>5. ASSUME NEW p \in Procs, Build(p) PROVE \A q \in Procs : Told(q)'
  <2>1. /\ pc[p] = "parsed" /\ opt[p].command = "pack" /\ ~opt[p].refused
        /\ pc'[p] = "built" /\ args' = args
    BY <1>1, <1>5 DEF Build, Shapes
  <2>2. HasPack(p)
    BY <1>1, <2>1 DEF Making
  <2>3. IsCommandLine(args[p]) /\ opt[p] = PackOpt(args[p])
    BY <2>1, CommandsDiffer DEF Told
  <2>4. Configured(opt[p], args[p], opt'[p])
    BY <1>1, <1>5, <2>2 DEF Build, Shapes, HasPack, PackFields, Configured
  <2>5. Told(p)'
    BY <2>1, <2>3, <2>4 DEF Told, Configured
  <2>6. \A q \in Procs \ {p} : pc'[q] = pc[q] /\ opt'[q] = opt[q] /\ args'[q] = args[q]
    BY <1>1, <1>5 DEF Build, Shapes
  <2> QED BY <1>s, <2>5, <2>6
<1>6. ASSUME NEW p \in Procs, PrintPack(p) \/ Truncate(p) \/ List(p) \/ ReadPack(p)
      PROVE  \A q \in Procs : Told(q)'
  <2>1. /\ pc'[p] \in {"shown", "writing", "listed"}
        /\ \A q \in Procs \ {p} : pc'[q] = pc[q] /\ opt'[q] = opt[q] /\ args'[q] = args[q]
    BY <1>1, <1>6 DEF PrintPack, Truncate, Emptied, List, ReadPack, Shapes
  <2> QED BY <1>s, <1>o, <2>1
<1>7. ASSUME NEW p \in Procs, WriteBlock(p) PROVE \A q \in Procs : Told(q)'
  BY <1>s, <1>7 DEF WriteBlock
<1>8. CASE Tick \/ Finished \/ UNCHANGED vars
  BY <1>s, <1>8 DEF Tick, Finished, vars, proc
<1> QED BY <1>2, <1>3, <1>4, <1>5, <1>6, <1>7, <1>8 DEF Next

LEMMA FInvariance == Spec => []FInv
<1>1. Init => FInv
  <2> SUFFICES ASSUME Init PROVE FInv
    OBVIOUS
  <2>1. \A p \in Procs : Told(p)
    BY DEF Init, Told
  <2> QED BY <2>1, InitIInv DEF FInv
<1>2. FInv /\ [Next]_vars => FInv'
  BY ToldStep, IInvStep DEF FInv
<1> QED BY <1>1, <1>2, PTL DEF Spec

\* Wherever the options stand among the words of a sensible command line, pack
\* and explain understand what it says, and .ctxpack.yml counts where it says
\* nothing.
THEOREM FlagsAreUnderstood == Spec => []FlagsAnywhere
<1>1. FInv => FlagsAnywhere
  <2> SUFFICES ASSUME FInv, NEW p \in Procs
               PROVE
    LET list    == args[p]
        isPack  == pc[p] \in {"parsed", "built"} /\ opt[p].command = "pack"
        said(n) == GivenBy(PackOptions, list, n)
        text    == Task(WordsOf(PackOptions, list))
        unknown == said("format") \notin {<<>>, <<Word("markdown")>>, <<Word("claude")>>}
        read    == WordsOf(ExplainOptions, list)
    IN  /\ isPack /\ Sensible(PackOptions, DOMAIN Numbers, list) =>
             /\ opt[p].refused <=> unknown \/ text = <<>>
             /\ ~opt[p].refused =>
                  /\ opt[p].task = text
                  /\ opt[p].stdout <=> said("stdout") = <<Word("true")>>
                  /\ pc[p] = "built" =>
                       /\ opt[p].budget =
                            CASE said("budget") # <<>> -> Numbers[said("budget")[1]]
                              [] OTHER -> IF CfgBudget > 0 THEN CfgBudget ELSE DefaultBudget
                       /\ opt[p].tests =
                            CASE said("include-tests") # <<>> -> said("include-tests")[1].name
                              [] OTHER -> IF CfgTests = "unset" THEN "true" ELSE CfgTests
        /\ pc[p] = "parsed" /\ opt[p].command = "explain"
             /\ Sensible(ExplainOptions, DOMAIN Numbers, list) =>
             /\ ~opt[p].refused
             /\ opt[p].file = IF read = <<>> THEN "latest" ELSE read[1].name
    BY DEF FlagsAnywhere
  <2> DEFINE list == args[p]
             o == PackOpt(list)
             said(n) == GivenBy(PackOptions, list, n)
             text    == Task(WordsOf(PackOptions, list))
             unknown == said("format") \notin {<<>>, <<Word("markdown")>>, <<Word("claude")>>}
             read    == WordsOf(ExplainOptions, list)
  <2>0. Told(p)
    BY DEF FInv
  <2>1. ASSUME pc[p] \in {"parsed", "built"}, opt[p].command = "pack",
               Sensible(PackOptions, DOMAIN Numbers, list)
        PROVE  /\ opt[p].refused <=> unknown \/ text = <<>>
               /\ ~opt[p].refused =>
                  /\ opt[p].task = text
                  /\ opt[p].stdout <=> said("stdout") = <<Word("true")>>
                  /\ pc[p] = "built" =>
                       /\ opt[p].budget = IF said("budget") # <<>> THEN Numbers[said("budget")[1]]
                                          ELSE IF CfgBudget > 0 THEN CfgBudget ELSE DefaultBudget
                       /\ opt[p].tests = IF said("include-tests") # <<>> THEN said("include-tests")[1].name
                                         ELSE IF CfgTests = "unset" THEN "true" ELSE CfgTests
    <3>1. IsCommandLine(list)
      BY <2>0, <2>1 DEF Told
    <3>2. Says(list, o)
      BY <2>1, <3>1, PackOptSays
    <3>3. FlagPresent(list, "budget") <=> said("budget") # <<>>
      BY <2>1, <3>1, PresentIsSaid
    <3>4. FlagPresent(list, "include-tests") <=> said("include-tests") # <<>>
      BY <2>1, <3>1, PresentIsSaid
    <3>5. CASE pc[p] = "parsed"
      <4>1. opt[p] = o
        BY <2>0, <2>1, <3>5, CommandsDiffer DEF Told
      <4> HIDE DEF o, list
      <4> QED BY <3>2, <3>5, <4>1 DEF Says
    <3>6. CASE pc[p] = "built"
      <4>1. Configured(o, list, opt[p]) /\ ~o.refused
        BY <2>0, <3>6 DEF Told
      <4> HIDE DEF o, list
      <4> QED BY <3>2, <3>3, <3>4, <4>1 DEF Says, Configured
    <3> QED BY <2>1, <3>5, <3>6
  <2>2. ASSUME pc[p] = "parsed", opt[p].command = "explain",
               Sensible(ExplainOptions, DOMAIN Numbers, list)
        PROVE  ~opt[p].refused /\ opt[p].file = IF read = <<>> THEN "latest" ELSE read[1].name
    <3>1. IsCommandLine(list)
      BY <2>0, <2>2 DEF Told
    <3>2. opt[p] = ExplainOpt(list)
      BY <2>0, <2>2, CommandsDiffer DEF Told
    <3> QED BY <2>2, <3>1, <3>2, ExplainOptSays
  <2> HIDE DEF text, said, unknown, read
  <2> QED BY <2>1, <2>2 DEF text, said, unknown, read
<1> QED BY FInvariance, <1>1, PTL

=============================================================================
