---------------------------- MODULE PackCommand ----------------------------
(***************************************************************************)
(* ctxpack pack and ctxpack explain, run by several processes in one       *)
(* repository.  A pack goes with os.WriteFile into .ctxpack/<slug>.md: the *)
(* file is emptied, then written at the writer's own offset, block after   *)
(* block.  explain without a word lists .ctxpack, takes the latest .md     *)
(* file and reads it.  A process may die at any step.  The repository is   *)
(* given by its absolute path; what the index, the ranking and the         *)
(* rendering do is in the modules IndexCache, Ranking and PackBudget.      *)
(***************************************************************************)
EXTENDS FlagArgs, FiniteSets, TLC

CONSTANTS
  Procs,
  PackArgs(_),   \* of n: argument lists of pack for the n-th command ...
  ExplainArgs,   \* ... and those of explain
  Numbers,       \* a function from the arguments that are numbers to them
  CfgBudget,     \* the budget of .ctxpack.yml, 0 if it has none
  CfgTests,      \* its include_tests: "true", "false" or "unset"
  FileOf(_),     \* of the words of a task: its file in .ctxpack, from slugify
  Sections(_),   \* of the words of a task: the headings of its pack, in order
  Outputs,       \* the values of --output that are files in .ctxpack
  Commands,      \* bound: how many commands are run
  Ticks          \* bound: how far the clock goes

ASSUME BoundsAssumption == Commands \in Nat /\ Ticks \in Nat
ASSUME ArgsAssumption ==
  /\ \A n \in 1 .. Commands : \A list \in PackArgs(n) : IsCommandLine(list)
  /\ \A list \in ExplainArgs : IsCommandLine(list)

VARIABLES pc, args, opt, offset, at, shown, disk, clock, begun, disturbed, newest
proc == <<pc, args, opt, offset, at, shown>>
vars == <<pc, args, opt, offset, at, shown, disk, clock, begun, disturbed, newest>>

\* disk     function from the .md files in .ctxpack to their mtime and blocks;
\*          an mtime of 0 is that of a file that is not there
\* at       the file that a process writes or reads
\* Kept for the properties: disturbed are the files that two writers had open
\* at a time or that one left unfinished; newest is the file and the task of the
\* last pack to get its last block, alone as long as nothing was written since.

PackOptions ==
  [n \in {"repo", "budget", "output", "include-tests", "format", "stdout"} |->
     CASE n = "budget" -> "number" [] n \in {"include-tests", "stdout"} -> "bool" [] OTHER -> "text"]
ExplainOptions == [n \in {"repo"} |-> "text"]

DefaultBudget == 12000
NoOpt == [command |-> "none", refused |-> FALSE]
NoPack == [file |-> "none", task |-> <<>>, alone |-> FALSE]
Absent == [mtime |-> 0, blocks |-> <<>>]
Nothing == <<>>

Blocks(task) == [k \in DOMAIN Sections(task) |-> <<task, Sections(task)[k]>>]
-----------------------------------------------------------------------------
(* runPack                                                                  *)

Value(given, name, default) == IF given[name] = <<>> THEN default ELSE given[name][1]

\* The words of a task, without the spaces around it.
Task(words) == IF \A k \in DOMAIN words : words[k] = Empty THEN <<>> ELSE words

PackOpt(list) ==
  LET parsed == Parse(PackOptions, DOMAIN Numbers, list)
      given  == parsed.given
      task   == Task(parsed.words)
      format == Value(given, "format", Word("markdown"))
  IN  IF parsed.failed \/ format \notin {Word("markdown"), Word("claude")} \/ task = <<>>
      THEN [command |-> "pack", refused |-> TRUE]
      ELSE [command |-> "pack", refused |-> FALSE, task |-> task,
            budget  |-> IF given["budget"] = <<>> THEN DefaultBudget ELSE Numbers[given["budget"][1]],
            tests   |-> Value(given, "include-tests", Word("true")).name,
            output  |-> IF given["output"] \in {<<>>, <<Empty>>} THEN FileOf(task)
                        ELSE given["output"][1].name,
            stdout  |-> Value(given, "stdout", Word("false")) = Word("true")]

\* Every pack has sections.
ASSUME SectionsAssumption ==
  \A n \in 1 .. Commands : \A list \in PackArgs(n) :
    ~PackOpt(list).refused => Sections(PackOpt(list).task) \in Seq(STRING) \ {<<>>}

BeginPack(p) ==
  /\ pc[p] = "idle" /\ begun < Commands
  /\ begun' = begun + 1
  /\ \E list \in PackArgs(begun') :
       /\ args' = [args EXCEPT ![p] = list]
       /\ opt' = [opt EXCEPT ![p] = PackOpt(list)]
  /\ pc' = [pc EXCEPT ![p] = "parsed"]
  /\ UNCHANGED <<offset, at, shown, disk, clock, disturbed, newest>>

\* The command is over, with an error or without; what the process knew is gone.
End(p) ==
  /\ pc' = [pc EXCEPT ![p] = "idle"] /\ shown' = [shown EXCEPT ![p] = Nothing]
  /\ args' = [args EXCEPT ![p] = <<>>] /\ opt' = [opt EXCEPT ![p] = NoOpt]
  /\ offset' = [offset EXCEPT ![p] = 0] /\ at' = [at EXCEPT ![p] = "none"]

Refuse(p) ==
  /\ pc[p] = "parsed" /\ opt[p].refused
  /\ End(p)
  /\ UNCHANGED <<disk, clock, begun, disturbed, newest>>

\* The index is built and saved, the configuration is loaded, and the pack made.
Build(p) ==
  /\ pc[p] = "parsed" /\ opt[p].command = "pack" /\ ~opt[p].refused
  /\ opt' = [opt EXCEPT
       ![p].budget = IF ~FlagPresent(args[p], "budget") /\ CfgBudget > 0 THEN CfgBudget ELSE @,
       ![p].tests = IF ~FlagPresent(args[p], "include-tests") /\ CfgTests # "unset"
                    THEN CfgTests ELSE @]
  /\ pc' = [pc EXCEPT ![p] = "built"]
  /\ UNCHANGED <<args, offset, at, shown, disk, clock, begun, disturbed, newest>>

PrintPack(p) ==
  /\ pc[p] = "built" /\ opt[p].stdout
  /\ shown' = [shown EXCEPT ![p] = Blocks(opt[p].task)]
  /\ args' = [args EXCEPT ![p] = <<>>] /\ pc' = [pc EXCEPT ![p] = "shown"]
  /\ UNCHANGED <<opt, offset, at, disk, clock, begun, disturbed, newest>>

\* os.WriteFile of a file that is not in .ctxpack.
WriteElsewhere(p) ==
  /\ pc[p] = "built" /\ ~opt[p].stdout /\ opt[p].output \notin DOMAIN disk
  /\ End(p)
  /\ UNCHANGED <<disk, clock, begun, disturbed, newest>>

Writers(file) == {q \in Procs : pc[q] = "writing" /\ at[q] = file}

Emptied(p, blocks) ==
  LET file == opt[p].output
  IN  /\ disk' = [disk EXCEPT ![file] = [mtime |-> clock, blocks |-> blocks]]
      /\ disturbed' = IF Writers(file) = {} THEN disturbed \ {file} ELSE disturbed \cup {file}
      /\ newest' = [newest EXCEPT !.alone = FALSE]
      /\ at' = [at EXCEPT ![p] = file]
      /\ args' = [args EXCEPT ![p] = <<>>]
      /\ pc' = [pc EXCEPT ![p] = "writing"]
      /\ UNCHANGED <<opt, offset, shown, clock, begun>>

MutantTruncate(p) ==  \* opened without O_TRUNC
  /\ pc[p] = "built" /\ ~opt[p].stdout /\ opt[p].output \in DOMAIN disk
  /\ Emptied(p, disk[opt[p].output].blocks)

Truncate(p) ==
  /\ pc[p] = "built" /\ ~opt[p].stdout /\ opt[p].output \in DOMAIN disk
  /\ Emptied(p, <<>>)

\* A block goes where the writer is, over what another one may have put there;
\* beyond the end of an emptied file the system fills up with zeros.
Overlaid(blocks, n, block) ==
  [k \in 1 .. (IF Len(blocks) > n THEN Len(blocks) ELSE n) |->
     IF k = n THEN block ELSE IF k \in DOMAIN blocks THEN blocks[k] ELSE <<"zeros">>]

WriteBlock(p) ==
  /\ pc[p] = "writing"
  /\ LET n == offset[p] + 1
     IN  /\ n <= Len(Blocks(opt[p].task))
         /\ disk' = [disk EXCEPT ![at[p]] =
              [mtime |-> clock, blocks |-> Overlaid(@.blocks, n, Blocks(opt[p].task)[n])]]
         /\ offset' = [offset EXCEPT ![p] = n]
  /\ newest' = IF offset'[p] = Len(Blocks(opt[p].task))
               THEN [file |-> at[p], task |-> opt[p].task, alone |-> TRUE]
               ELSE [newest EXCEPT !.alone = FALSE]
  /\ UNCHANGED <<pc, args, opt, at, shown, clock, begun, disturbed>>

Close(p) ==
  /\ pc[p] = "writing" /\ offset[p] = Len(Blocks(opt[p].task))
  /\ End(p)
  /\ UNCHANGED <<disk, clock, begun, disturbed, newest>>

-----------------------------------------------------------------------------
(* runExplain                                                               *)

ExplainOpt(list) ==
  LET parsed == Parse(ExplainOptions, DOMAIN Numbers, list)
  IN  IF parsed.failed THEN [command |-> "explain", refused |-> TRUE]
      ELSE [command |-> "explain", refused |-> FALSE, expects |-> NoPack,
            file |-> IF parsed.words = <<>> THEN "latest" ELSE parsed.words[1].name]

BeginExplain(p) ==
  /\ pc[p] = "idle" /\ begun < Commands
  /\ begun' = begun + 1
  /\ \E list \in ExplainArgs :
       /\ args' = [args EXCEPT ![p] = list]
       /\ opt' = [opt EXCEPT ![p] = ExplainOpt(list)]
  /\ pc' = [pc EXCEPT ![p] = "parsed"]
  /\ UNCHANGED <<offset, at, shown, disk, clock, disturbed, newest>>

Present == {f \in DOMAIN disk : disk[f].mtime > 0}

\* latestPack sorts by mtime; of equal ones any may come first.
MutantLatest == {f \in Present : \A g \in Present : disk[f].mtime <= disk[g].mtime}  \* the oldest
Latest == {f \in Present : \A g \in Present : disk[f].mtime >= disk[g].mtime}

\* There is a latest pack, a whole one, and nobody is at work on another.
IsClear ==
  /\ newest.alone /\ newest.file \notin disturbed
  /\ \A f \in Present \ {newest.file} : disk[f].mtime < disk[newest.file].mtime

List(p) ==
  /\ pc[p] = "parsed" /\ opt[p].command = "explain" /\ ~opt[p].refused
  /\ opt' = [opt EXCEPT ![p].expects = IF IsClear THEN newest ELSE NoPack]
  /\ \E f \in IF opt[p].file = "latest" THEN Latest ELSE {opt[p].file} :
       at' = [at EXCEPT ![p] = f]
  /\ pc' = [pc EXCEPT ![p] = "listed"]
  /\ args' = [args EXCEPT ![p] = <<>>]
  /\ UNCHANGED <<offset, shown, disk, clock, begun, disturbed, newest>>

\* sectionExcerpt: from the first such heading to the next one.
Excerpt(blocks, section) ==
  LET isHeading(k) == blocks[k] # <<"zeros">>
      starts == {k \in DOMAIN blocks : isHeading(k) /\ blocks[k][2] = section}
      next   == {k \in DOMAIN blocks : isHeading(k) /\ k > Min(starts)}
  IN  IF starts = {} THEN <<>>
      ELSE SubSeq(blocks, Min(starts), IF next = {} THEN Len(blocks) ELSE Min(next) - 1)

Explained == <<"Files to read first", "Budget decisions", "Do not touch unless needed">>
ExcerptOf(blocks) ==
  Excerpt(blocks, Explained[1]) \o Excerpt(blocks, Explained[2]) \o Excerpt(blocks, Explained[3])

ReadPack(p) ==
  /\ pc[p] = "listed" /\ at[p] \in Present
  /\ shown' = [shown EXCEPT ![p] = ExcerptOf(disk[at[p]].blocks)]
  /\ opt' = [opt EXCEPT ![p].expects =
       IF @ = newest /\ newest.alone /\ newest.file \notin disturbed THEN @ ELSE NoPack]
  /\ pc' = [pc EXCEPT ![p] = "shown"]
  /\ UNCHANGED <<args, offset, at, disk, clock, begun, disturbed, newest>>

NothingToRead(p) ==
  /\ \/ pc[p] = "listed" /\ at[p] \notin Present
     \/ /\ pc[p] = "parsed" /\ opt[p].command = "explain" /\ ~opt[p].refused
        /\ opt[p].file = "latest" /\ Present = {}
  /\ End(p)
  /\ UNCHANGED <<disk, clock, begun, disturbed, newest>>

-----------------------------------------------------------------------------
Exit(p) ==
  /\ pc[p] = "shown"
  /\ End(p)
  /\ UNCHANGED <<disk, clock, begun, disturbed, newest>>

\* A step of the index, the configuration or the file system fails, or the
\* process is killed; a pack in the making stays as it is.
Die(p) ==
  /\ pc[p] \notin {"idle", "shown"}
  /\ disturbed' = IF pc[p] = "writing" THEN disturbed \cup {at[p]} ELSE disturbed
  /\ End(p)
  /\ UNCHANGED <<disk, clock, begun, newest>>

Tick ==
  /\ clock < Ticks /\ clock' = clock + 1
  /\ UNCHANGED <<proc, disk, begun, disturbed, newest>>

Finished == begun = Commands /\ (\A p \in Procs : pc[p] = "idle") /\ UNCHANGED vars

Init ==
  /\ pc = [p \in Procs |-> "idle"] /\ args = [p \in Procs |-> <<>>]
  /\ opt = [p \in Procs |-> NoOpt] /\ offset = [p \in Procs |-> 0]
  /\ at = [p \in Procs |-> "none"] /\ shown = [p \in Procs |-> Nothing]
  /\ disk = [f \in Outputs |-> Absent]
  /\ clock = 1 /\ begun = 0 /\ disturbed = {}
  /\ newest = NoPack

Next ==
  \/ \E p \in Procs :
       \/ BeginPack(p) \/ Refuse(p) \/ Build(p) \/ PrintPack(p) \/ WriteElsewhere(p)
       \/ Truncate(p) \/ WriteBlock(p) \/ Close(p)
       \/ BeginExplain(p) \/ List(p) \/ ReadPack(p) \/ NothingToRead(p) \/ Exit(p) \/ Die(p)
  \/ Tick \/ Finished

Spec == Init /\ [][Next]_vars

-----------------------------------------------------------------------------
(* Properties.                                                              *)

\* Options and words may come in any order (TestFlexibleFlagArgsAllowsFlagsAfterTask):
\* of a sensible command line, pack and explain understand what it says where
\* it stands, an option of which wins over .ctxpack.yml, and .ctxpack.yml over
\* the default, whatever the words between them are.
FlagsAnywhere ==
  \A p \in Procs :
    LET list    == args[p]
        isPack  == pc[p] \in {"parsed", "built"} /\ opt[p].command = "pack"
        said(n) == GivenBy(PackOptions, list, n)
        text    == Task(WordsOf(PackOptions, list))
        unknown == said("format") \notin {<<>>, <<Word("markdown")>>, <<Word("claude")>>}
        read    == WordsOf(ExplainOptions, list)
    IN  /\ isPack /\ Sensible(PackOptions, DOMAIN Numbers, list) =>
             /\ opt[p].refused <=> unknown \/ text = <<>>
             /\ ~opt[p].refused =>
                  /\ opt[p].task = text
                  /\ opt[p].stdout <=> said("stdout") = <<Word("true")>>
                  /\ pc[p] = "built" =>
                       /\ opt[p].budget =
                            CASE said("budget") # <<>> -> Numbers[said("budget")[1]]
                              [] OTHER -> IF CfgBudget > 0 THEN CfgBudget ELSE DefaultBudget
                       /\ opt[p].tests =
                            CASE said("include-tests") # <<>> -> said("include-tests")[1].name
                              [] OTHER -> IF CfgTests = "unset" THEN "true" ELSE CfgTests
        /\ pc[p] = "parsed" /\ opt[p].command = "explain"
             /\ Sensible(ExplainOptions, DOMAIN Numbers, list) =>
             /\ ~opt[p].refused
             /\ opt[p].file = IF read = <<>> THEN "latest" ELSE read[1].name

\* A pack file that nobody is writing is one whole pack of one task, whatever it
\* held before and whichever tasks share its name, unless two writers had it
\* open at a time or one of them died on it.
PackIsWhole ==
  \A f \in Present \ disturbed :
    Writers(f) = {} =>
      /\ disk[f].blocks # <<>>
      /\ disk[f].blocks = Blocks(disk[f].blocks[1][1])

\* When explain lists the packs while one of them is the latest, whole and by
\* its time alone, and none is written until it reads, it shows the sections of
\* that pack that it is to show, in its order and nothing else.
ExplainShowsLatest ==
  \A p \in Procs :
    /\ pc[p] = "shown" /\ opt[p].command = "explain" /\ opt[p].file = "latest"
    /\ opt[p].expects # NoPack
    => LET task    == opt[p].expects.task
           part(k) == IF Explained[k] \in ToSet(Sections(task))
                      THEN << <<task, Explained[k]>> >> ELSE <<>>
       IN  shown[p] = part(1) \o part(2) \o part(3)

=============================================================================
