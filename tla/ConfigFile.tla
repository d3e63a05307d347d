----------------------------- MODULE ConfigFile -----------------------------
(***************************************************************************)
(* config.Parse: .ctxpack.yml, line by line.                               *)
(*                                                                         *)
(* The parser keeps one section name and looks at the indentation of       *)
(* headings only.  Beside it stands the author of the file, who writes     *)
(* YAML of the documented fields and means by each line what its           *)
(* indentation says.  The question is when the two agree.                  *)
(*                                                                         *)
(* Blank lines and comments change nothing in either and are left out.     *)
(* The author uses two spaces per level, and each key at most once.        *)
(***************************************************************************)
EXTENDS Naturals, Sequences

CONSTANTS
  Items,         \* what a list may name
  Numbers, Bools, Texts, \* scalars, as written
  MaxItems       \* bound on the length of a list

ASSUME ValuesAssumption == Numbers \cap Bools = {}
ASSUME ItemsAssumption == MaxItems \in Nat

\* The documented fields.  "go" stands for any language.
Lists    == {<<"ignore">>, <<"priority">>, <<"ci", "fail_on">>, <<"ci", "forbid">>}
Sections == {<<"languages">>, <<"ci">>} \cup Lists
Scalars == {<<"budget">>, <<"include_tests">>, <<"languages", "go">>, <<"ci", "budget">>,
            <<"ci", "base">>, <<"ci", "output">>, <<"ci", "summary_json">>}
ValuesOf(path) ==
  CASE path \in {<<"budget">>, <<"ci", "budget">>}            -> Numbers
    [] path \in {<<"include_tests">>, <<"languages", "go">>} -> Bools
    [] path \in {<<"ci", "base">>, <<"ci", "output">>, <<"ci", "summary_json">>} -> Texts

\* What a file says: scalars by path, lists by path.
Nothing == [scalar |-> [p \in {} |-> ""], list |-> [p \in Lists |-> <<>>]]
SetScalar(c, path, v) ==
  [c EXCEPT !.scalar = [p \in DOMAIN @ \cup {path} |-> IF p = path THEN v ELSE @[p]]]
AddItems(c, path, s)  == [c EXCEPT !.list[path] = @ \o s]

Heading(level, key)     == [kind |-> "heading", indent |-> level, key |-> key]
Item(level, v)          == [kind |-> "item", indent |-> level, value |-> v]
Pair(level, key, v)     == [kind |-> "pair", indent |-> level, key |-> key, value |-> v]
\* fail_on and forbid in one line, with commas; the author writes them in ci only.
Inline(level, key, s)   == [kind |-> "inline", indent |-> level, key |-> key, value |-> s]

VARIABLES
  place,    \* the section the author is writing in
  used,     \* the paths the author has written
  said,     \* what the author means
  tidy,     \* whether the scalars of each level came before its sections so far
  section,  \* the parser's section
  cfg,      \* what the parser has understood
  failed    \* whether Parse has returned an error

author == <<place, used, said, tidy>>
parser == <<section, cfg, failed>>
fileVars == <<place, used, said, tidy, section, cfg, failed>>
-----------------------------------------------------------------------------
(* The parser.                                                              *)

Fail == failed' = TRUE /\ UNCHANGED <<section, cfg>>

InCI == section # <<>> /\ section[1] = "ci"

MutantReadHeading(line) ==  \* whatever follows ci belongs to ci
  /\ line.kind = "heading"
  /\ section' = IF InCI THEN <<"ci", line.key>> ELSE <<line.key>>
  /\ UNCHANGED <<cfg, failed>>

\* A line that ends in a colon.
ReadHeading(line) ==
  /\ line.kind = "heading"
  /\ section' = IF line.indent > 0 /\ InCI THEN <<"ci", line.key>> ELSE <<line.key>>
  /\ UNCHANGED <<cfg, failed>>

MutantReadItem(line) ==  \* an item out of place is skipped
  /\ line.kind = "item"
  /\ cfg' = IF section \in Lists THEN AddItems(cfg, section, <<line.value>>) ELSE cfg
  /\ UNCHANGED <<section, failed>>

ReadItem(line) ==
  /\ line.kind = "item"
  /\ \/ /\ section \in Lists
        /\ cfg' = AddItems(cfg, section, <<line.value>>)
        /\ UNCHANGED <<section, failed>>
     \/ section \notin Lists /\ Fail

ReadLanguage(line) ==
  /\ line.kind = "pair" /\ section = <<"languages">>
  /\ \/ /\ line.value \in Bools
        /\ cfg' = SetScalar(cfg, <<"languages", line.key>>, line.value)
        /\ UNCHANGED <<section, failed>>
     \/ line.value \notin Bools /\ Fail

ParseCIKey(line) ==
  /\ line.kind \in {"pair", "inline"} /\ section = <<"ci">>
  /\ LET path == <<"ci", line.key>> IN
     \/ /\ path \in Lists
        /\ cfg' = AddItems(cfg, path, line.value)
        /\ UNCHANGED <<section, failed>>
     \/ /\ path \in Scalars /\ line.value \in ValuesOf(path)
        /\ cfg' = SetScalar(cfg, path, line.value)
        /\ UNCHANGED <<section, failed>>
     \/ path \notin Lists /\ (path \in Scalars => line.value \notin ValuesOf(path)) /\ Fail

\* Anywhere else a pair is a top-level key, and ends the section.
ReadTopLevelKey(line) ==
  /\ line.kind \in {"pair", "inline"} /\ section \notin {<<"languages">>, <<"ci">>}
  /\ section' = <<>>
  /\ LET path == <<line.key>> IN
     \/ /\ path \in Scalars /\ line.value \in ValuesOf(path)
        /\ cfg' = SetScalar(cfg, path, line.value)
        /\ UNCHANGED failed
     \/ /\ path \in Scalars => line.value \notin ValuesOf(path)
        /\ failed' = TRUE /\ UNCHANGED cfg

Parse(line) ==
  /\ ~failed
  /\ \/ ReadHeading(line) \/ ReadItem(line) \/ ReadLanguage(line) \/ ParseCIKey(line)
     \/ ReadTopLevelKey(line)
-----------------------------------------------------------------------------
(* The author.                                                              *)

\* The level a path is written at, and the section it is written in.
Level(path) == Len(path) - 1
Within(path) == SubSeq(path, 1, Len(path) - 1)
Key(path) == path[Len(path)]

\* One may go on in the section one is in, or go back to an outer one.
Reachable(path) ==
  \/ Within(path) = <<>>
  \/ Within(path) = place
  \/ place # <<>> /\ Within(path) = <<place[1]>>

WriteHeading ==
  \E path \in Sections \ used :
    /\ Reachable(path)
    /\ place' = path /\ used' = used \cup {path}
    /\ UNCHANGED <<said, tidy>>
    /\ Parse(Heading(Level(path), Key(path)))

WriteItem ==
  \E v \in Items :
    /\ place \in Lists /\ Len(said.list[place]) < MaxItems
    /\ said' = AddItems(said, place, <<v>>)
    /\ UNCHANGED <<place, used, tidy>>
    /\ Parse(Item(Len(place), v))

WriteScalar ==
  \E path \in Scalars \ used : \E v \in ValuesOf(path) :
    /\ Reachable(path)
    /\ place' = Within(path) /\ used' = used \cup {path}
    /\ tidy' = (tidy /\ place = Within(path))
    /\ said' = SetScalar(said, path, v)
    /\ Parse(Pair(Level(path), Key(path), v))

WriteInline ==
  \E path \in Lists \ used : \E v, w \in Items :
    /\ Len(path) = 2 /\ Reachable(path)
    /\ place' = Within(path) /\ used' = used \cup {path}
    /\ tidy' = (tidy /\ place = Within(path))
    /\ said' = AddItems(said, path, <<v, w>>)
    /\ Parse(Inline(Level(path), Key(path), <<v, w>>))
-----------------------------------------------------------------------------
FileInit ==
  /\ place = <<>> /\ used = {} /\ said = Nothing /\ tidy = TRUE
  /\ section = <<>> /\ cfg = Nothing /\ failed = FALSE

FileNext == WriteHeading \/ WriteItem \/ WriteScalar \/ WriteInline

FileSpec == FileInit /\ [][FileNext]_fileVars
-----------------------------------------------------------------------------
(* Properties.                                                              *)

LanguagePaths == {<<"languages", Key(p)>> : p \in Scalars}

FileTypeOK ==
  /\ place \in Sections \cup {<<>>}
  /\ used \subseteq Scalars \cup Sections
  /\ section \in {<<>>} \cup Sections \cup {<<Key(p)>> : p \in Sections}
  /\ failed \in BOOLEAN /\ tidy \in BOOLEAN
  /\ DOMAIN said.scalar \subseteq Scalars
  /\ DOMAIN cfg.scalar \subseteq Scalars \cup LanguagePaths
  /\ \A p \in DOMAIN cfg.scalar :
       cfg.scalar[p] \in IF p \in LanguagePaths THEN Bools ELSE ValuesOf(p)
  /\ \A p \in Lists : said.list[p] \in Seq(Items) /\ cfg.list[p] \in Seq(Items)

\* A file that writes the scalars of each level before its lists and sections,
\* in whatever order otherwise, is accepted and means to ctxpack what its
\* indentation says.
MeansWhatItSays == tidy => ~failed /\ cfg = said

\* Whatever the order of a file, if it is accepted then no item of a list was
\* lost or given to another list.
ListsKeepTheirPlace == ~failed => cfg.list = said.list

=============================================================================
