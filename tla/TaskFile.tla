------------------------------ MODULE TaskFile ------------------------------
(***************************************************************************)
(* parseYAMLTasks of internal/bench/tasks.go: the benchmark's reader of    *)
(* task files, line by line.  A line is what the reader makes out of it:   *)
(*   blank     nothing but a comment, or "tasks:"                          *)
(*   dash      "- key: value"; an item with a colon reads as one too       *)
(*   item      "- value"                                                   *)
(*   heading   "key:"                                                      *)
(*   field     "key: value"                                                *)
(*   junk      anything else, and a budget that is no number               *)
(***************************************************************************)
EXTENDS Integers, Sequences, FiniteSets, SequencesExt

IsList(s) == Len(s) \in Nat /\ s = [k \in 1 .. Len(s) |-> s[k]]

BudgetLines(lines) == {k \in DOMAIN lines : lines[k].kind \in {"dash", "field"} /\ lines[k].key = "budget"}

\* The lines of a file; the value of a budget is a number.
IsFile(lines) ==
  /\ IsList(lines)
  /\ \A k \in DOMAIN lines : lines[k].kind \in {"blank", "dash", "item", "heading", "field", "junk"}
  /\ \A k \in BudgetLines(lines) : lines[k].value \in Int

NoName == "none"
NoTask == [name |-> NoName, task |-> NoName, budget |-> 0, expect |-> <<>>, avoid |-> <<>>]

\* The reader's variables.  current is <<>> before the first task.
Start == [tasks |-> <<>>, current |-> <<>>, section |-> NoName, failed |-> FALSE]
Failed(st) == [st EXCEPT !.failed = TRUE]

ApplyTaskField(st, key, value) ==
  CASE key \in {"name", "task"}           -> [st EXCEPT !.current[1][key] = value]
    [] key = "budget"                     -> [st EXCEPT !.current[1].budget = value]
    [] OTHER                              -> Failed(st)

ReadItem(st, value) ==
  IF st.current # <<>> /\ st.section \in {"expect", "avoid"}
  THEN [st EXCEPT !.current[1][st.section] = Append(@, value)]
  ELSE Failed(st)

ReadDash(st, line) ==
  ApplyTaskField([st EXCEPT !.tasks = @ \o st.current, !.current = <<NoTask>>, !.section = NoName],
                 line.key, line.value)

ReadField(st, line) ==
  IF st.current = <<>> THEN Failed(st)
  ELSE ApplyTaskField([st EXCEPT !.section = NoName], line.key, line.value)

ReadLine(st, line) ==
  IF st.failed THEN st
  ELSE CASE line.kind = "blank"   -> st
         [] line.kind = "dash"    -> ReadDash(st, line)
         [] line.kind = "item"    -> ReadItem(st, line.value)
         [] line.kind = "heading" -> IF st.current = <<>> THEN Failed(st)
                                     ELSE [st EXCEPT !.section = line.key]
         [] line.kind = "field"   -> ReadField(st, line)
         [] line.kind = "junk"    -> Failed(st)

ParseTasks(lines) ==
  LET read[n \in 0 .. Len(lines)] == IF n = 0 THEN Start ELSE ReadLine(read[n - 1], lines[n])
      st == read[Len(lines)]
  IN  [failed |-> st.failed, tasks |-> IF st.failed THEN <<>> ELSE st.tasks \o st.current]

-----------------------------------------------------------------------------
(* What a file that the reader accepts says, without the reader's state:    *)
(* each dash begins a task, a list item belongs to the heading above it,    *)
(* and the last of several values counts.                                   *)

Dashes(lines) == {k \in DOMAIN lines : lines[k].kind = "dash"}
TaskNumber(lines, d) == Cardinality({e \in Dashes(lines) : e <= d})

Body(lines, d) == {k \in DOMAIN lines : k >= d /\ \A e \in Dashes(lines) : e <= d \/ e > k}

ValueOf(lines, d, key, default) ==
  LET at == {k \in Body(lines, d) : lines[k].kind \in {"dash", "field"} /\ lines[k].key = key}
  IN  IF at = {} THEN default ELSE lines[Max(at)].value

Heads(lines, d, h, k) ==
  LET above == {i \in Body(lines, d) : lines[i].kind = "heading" /\ i < k}
  IN  h \in above /\ \A i \in above : i <= h

ItemsOf(lines, d, key) ==
  {lines[k].value : k \in {k \in Body(lines, d) :
     lines[k].kind = "item" /\ \E h \in Body(lines, d) : lines[h].key = key /\ Heads(lines, d, h, k)}}

\* The task of the dash at d; of its lists, what they hold.
AsWritten(lines, d) ==
  [name   |-> ValueOf(lines, d, "name", NoName),
   task   |-> ValueOf(lines, d, "task", NoName),
   budget |-> ValueOf(lines, d, "budget", 0),
   expect |-> ItemsOf(lines, d, "expect"),
   avoid  |-> ItemsOf(lines, d, "avoid")]

=============================================================================
