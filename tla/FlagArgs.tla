------------------------------ MODULE FlagArgs ------------------------------
(***************************************************************************)
(* The arguments of a command of internal/cli: flexibleFlagArgs puts the   *)
(* options before the words, and Go's flag.FlagSet, external, parses what  *)
(* comes of it.  An argument is a record, a value of an option <<>> or the *)
(* one argument that is its text.                                          *)
(***************************************************************************)
EXTENDS Integers, Sequences, SequencesExt

Word(text)         == [kind |-> "word", name |-> text, value |-> <<>>]
Option(name)       == [kind |-> "option", name |-> name, value |-> <<>>]       \* --name
OptionIs(name, arg) == [kind |-> "option", name |-> name, value |-> <<arg>>]   \* --name=arg
Empty              == Word("")
Dashes             == [kind |-> "dashes", name |-> "--", value |-> <<>>]

IsCommandLine(args) ==
  /\ Len(args) \in Nat /\ args = [k \in 1 .. Len(args) |-> args[k]]
  /\ \A k \in DOMAIN args : args[k].kind \in {"word", "option", "dashes"}

\* The options of a command: a function from their names to "text", "bool" and
\* "number".
IsBool(options, name) == name \in DOMAIN options /\ options[name] = "bool"

-----------------------------------------------------------------------------
(* flexibleFlagArgs                                                         *)

MutantTakeArg(options, st, arg) ==  \* an option takes the next argument, a bool as well
  CASE st.ended           -> [st EXCEPT !.words = Append(@, arg)]
    [] ~st.ended /\ st.takes    -> [st EXCEPT !.options = Append(@, arg), !.takes = FALSE]
    [] OTHER -> CASE arg.kind = "dashes" -> [st EXCEPT !.ended = TRUE]
                  [] arg.kind = "word"   -> [st EXCEPT !.words = Append(@, arg)]
                  [] OTHER -> [st EXCEPT !.options = Append(@, arg), !.takes = arg.value = <<>>]

TakeArg(options, st, arg) ==
  CASE st.ended                -> [st EXCEPT !.words = Append(@, arg)]
    [] ~st.ended /\ st.takes   -> [st EXCEPT !.options = Append(@, arg), !.takes = FALSE]
    [] OTHER ->
         CASE arg.kind = "dashes" -> [st EXCEPT !.ended = TRUE]
           [] arg.kind = "word"   -> [st EXCEPT !.words = Append(@, arg)]
           [] arg.kind = "option" ->
                [st EXCEPT !.options = Append(@, arg),
                           !.takes = arg.value = <<>> /\ ~IsBool(options, arg.name)]

FlexibleFlagArgs(options, args) ==
  LET taken[n \in 0 .. Len(args)] ==
        IF n = 0 THEN [options |-> <<>>, words |-> <<>>, takes |-> FALSE, ended |-> FALSE]
        ELSE TakeArg(options, taken[n - 1], args[n])
  IN  taken[Len(args)].options \o taken[Len(args)].words

FlagPresent(args, name) == \E k \in DOMAIN args : args[k].kind = "option" /\ args[k].name = name

-----------------------------------------------------------------------------
(* flag.FlagSet.Parse: options up to the first word; "--" ends them and     *)
(* goes.  given is a function from the options to their last value.         *)

Accepts(kind, arg, numbers) ==
  CASE kind = "text"   -> TRUE
    [] kind = "bool"   -> arg \in {Word("true"), Word("false")}
    [] kind = "number" -> arg \in numbers

SetFlag(options, numbers, st, name, arg) ==
  IF Accepts(options[name], arg, numbers)
  THEN [st EXCEPT !.given[name] = <<arg>>, !.wants = "none"]
  ELSE [st EXCEPT !.failed = TRUE]

ParseArg(options, numbers, st, arg) ==
  CASE st.failed                       -> st
    [] ~st.failed /\ st.wants # "none" -> SetFlag(options, numbers, st, st.wants, arg)
    [] ~st.failed /\ st.ended          -> [st EXCEPT !.words = Append(@, arg)]
    [] OTHER ->
         CASE arg.kind = "dashes" -> [st EXCEPT !.ended = TRUE]
           [] arg.kind = "word"   -> [st EXCEPT !.ended = TRUE, !.words = Append(@, arg)]
           [] arg.kind = "option" ->
                IF arg.name \notin DOMAIN options THEN [st EXCEPT !.failed = TRUE]
                ELSE IF arg.value # <<>> THEN SetFlag(options, numbers, st, arg.name, arg.value[1])
                ELSE IF IsBool(options, arg.name)
                THEN SetFlag(options, numbers, st, arg.name, Word("true"))
                ELSE [st EXCEPT !.wants = arg.name]

Unset(options) == [n \in DOMAIN options |-> <<>>]
Refused(options) == [failed |-> TRUE, given |-> Unset(options), words |-> <<>>]

FlagSetParse(options, numbers, args) ==
  LET parsed[n \in 0 .. Len(args)] ==
        IF n = 0
        THEN [failed |-> FALSE, given |-> Unset(options), words |-> <<>>, wants |-> "none", ended |-> FALSE]
        ELSE ParseArg(options, numbers, parsed[n - 1], args[n])
      st == parsed[Len(args)]
  IN  IF st.failed \/ st.wants # "none" THEN Refused(options)
      ELSE [failed |-> FALSE, given |-> st.given, words |-> st.words]

Parse(options, numbers, args) == FlagSetParse(options, numbers, FlexibleFlagArgs(options, args))

-----------------------------------------------------------------------------
(* What a command line says where it stands, with nothing moved: each       *)
(* argument is an option, the value of the option before it, the "--" that  *)
(* ends the options, or a word, before the end or in the rest behind it.    *)

Roles(options, args) ==
  LET role[k \in 0 .. Len(args)] ==
        IF k = 0 THEN "word"
        ELSE IF role[k - 1] \in {"end", "rest"} THEN "rest"
        ELSE IF role[k - 1] = "option" /\ args[k - 1].value = <<>> /\ ~IsBool(options, args[k - 1].name)
        THEN "value"
        ELSE IF args[k].kind = "dashes" THEN "end" ELSE args[k].kind
  IN  role

WordsOf(options, args) ==
  LET role == Roles(options, args)
      words[n \in 0 .. Len(args)] ==
        IF n = 0 THEN <<>>
        ELSE IF role[n] \in {"word", "rest"} THEN Append(words[n - 1], args[n]) ELSE words[n - 1]
  IN  words[Len(args)]

OptionsAt(options, args, name) ==
  {k \in DOMAIN args : Roles(options, args)[k] = "option" /\ args[k].name = name}

ValueAt(options, args, k) ==
  IF args[k].value # <<>> THEN args[k].value[1]
  ELSE IF IsBool(options, args[k].name) THEN Word("true") ELSE args[k + 1]

GivenBy(options, args, name) ==
  LET at == OptionsAt(options, args, name)
  IN  IF at = {} THEN <<>> ELSE <<ValueAt(options, args, Max(at))>>

\* The command lines that mean something to the command, and in which no dashed
\* argument stands for a word or a value and no option misses its value.  Of
\* these, the code moves words behind a last option, and reads dashed words as
\* options.
Sensible(options, numbers, args) ==
  LET role == Roles(options, args)
  IN  \A k \in DOMAIN args :
        /\ role[k] \in {"word", "rest", "value"} => args[k].kind = "word"
        /\ role[k] = "option" =>
             /\ args[k].name \in DOMAIN options
             /\ args[k].value = <<>> => IsBool(options, args[k].name) \/ k < Len(args)
             /\ Accepts(options[args[k].name], ValueAt(options, args, k), numbers)

=============================================================================
