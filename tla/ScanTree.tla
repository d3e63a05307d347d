------------------------------ MODULE ScanTree ------------------------------
(***************************************************************************)
(* Which files ctxpack looks at: repo.Scan walks the work tree and prunes  *)
(* what the built-in list and .gitignore exclude, and config.Apply removes *)
(* what .ctxpack.yml excludes from the index.                              *)
(*                                                                         *)
(* A directory may be unreadable, and one may be removed by somebody else  *)
(* during the walk.  Paths are those of PathSpec, relative to the root.    *)
(***************************************************************************)
EXTENDS PathSpec, FiniteSets

CONSTANTS
  Cases,               \* records of a tree, the lines of its .gitignore, and
                       \* ignore and languages of its .ctxpack.yml; a tree has
                       \* dirs, files, and the dirs that are unreadable or
                       \* that somebody may remove during the walk
  BuiltInIgnoredDirs,  \* names such as "vendor"
  IsSupportedSource(_),
  Language(_)

\* A path and the directories above it.
Above(path) ==
  {SubSeq(path, 1, k - 1) : k \in {j \in DOMAIN path : path[j] = "/"}} \cup {path}

\* Directories and files have different paths, with directories above them; no
\* path begins with "./" or ends in "/".
IsTree(t) ==
  /\ IsFiniteSet(t.dirs \cup t.files) /\ t.dirs \cap t.files = {}
  /\ \A p \in t.dirs \cup t.files :
       /\ p \in Seq(STRING) \ {<<>>} /\ Above(p) \ {p} \subseteq t.dirs
       /\ ~IsPrefix(<<".", "/">>, p) /\ Base(p) # <<>>
  /\ t.unreadable \cup t.removable \subseteq t.dirs

ASSUME TreesAssumption ==
  \A c \in Cases : /\ IsTree(c.tree)
                   /\ \A k \in DOMAIN c.lines : c.lines[k] \in Seq(STRING)
                   /\ \A k \in DOMAIN c.ignore : c.ignore[k] \in Seq(STRING)

VARIABLES phase, tree, gone, todo, files, patterns, ignore, languages
scanVars == <<phase, tree, gone, todo, files, patterns, ignore, languages>>
settings == <<patterns, ignore, languages>>

-----------------------------------------------------------------------------
(* ignore.go                                                                *)

\* load: what becomes of a line of .gitignore, or NoPattern.
NoPattern == [pattern |-> <<>>, dirOnly |-> FALSE, anchored |-> FALSE]
ParseLine(line) ==
  LET body == TrimPrefix(line, Slash)
  IN  IF line = <<>> \/ line[1] \in {"#", "!"} THEN NoPattern
      ELSE [pattern  |-> TrimSuffix(body, Slash),
            dirOnly  |-> IsSuffix(Slash, body),
            anchored |-> line[1] = "/"]

Load(lines) == {p \in {ParseLine(lines[k]) : k \in DOMAIN lines} : p.pattern # <<>>}

\* strings.Split(rel, "/")
PartsOf(rel) ==
  LET ends == {k \in DOMAIN rel : rel[k] = "/"} \cup {Len(rel) + 1}
      begin(e) == Max({0} \cup {k \in ends : k < e}) + 1
  IN  {SubSeq(rel, begin(e), e - 1) : e \in ends}

IgnoreMatch(p, rel, isDir) ==
  IF p.dirOnly
  THEN /\ isDir \/ IsPrefix(p.pattern \o Slash, rel)
       /\ \/ rel = p.pattern \/ IsPrefix(p.pattern \o Slash, rel)
          \/ Base(rel) = p.pattern
  ELSE IF p.anchored \/ Has(p.pattern, "/")
  THEN Glob(p.pattern, rel) \/ rel = p.pattern \/ IsPrefix(p.pattern \o Slash, rel)
  ELSE \E part \in PartsOf(rel) : Glob(p.pattern, part)

ShouldIgnore(rel, isDir) ==
  \/ isDir /\ Base(rel) \in BuiltInIgnoredDirs
  \/ \E p \in patterns : IgnoreMatch(p, rel, isDir)

-----------------------------------------------------------------------------
(* scan.go: WalkDir calls back for every entry, and reads a directory after *)
(* the call for it.  The entries come in the order of their names; any      *)
(* other fixed order gives the same result, which is sorted in the end.     *)

Parent(p) == SubSeq(p, 1, Len(p) - Len(Base(p)) - 1)
Children(d) == SetToSeq({p \in (tree.dirs \cup tree.files) \ gone : p # <<>> /\ Parent(p) = d})

Walking == phase = "walk" /\ todo # <<>>
IsDir(p) == p \in tree.dirs

VisitFile ==
  /\ Walking /\ ~IsDir(Head(todo))
  /\ files' = IF ShouldIgnore(Head(todo), FALSE) \/ ~IsSupportedSource(Head(todo)) THEN files
              ELSE files \cup {Head(todo)}
  /\ todo' = Tail(todo)
  /\ UNCHANGED <<phase, tree, gone, settings>>

SkipDir ==
  /\ Walking /\ IsDir(Head(todo)) /\ ShouldIgnore(Head(todo), TRUE)
  /\ todo' = Tail(todo)
  /\ UNCHANGED <<phase, tree, gone, files, settings>>

EnterDir ==
  /\ Walking /\ IsDir(Head(todo)) /\ ~ShouldIgnore(Head(todo), TRUE)
  /\ Head(todo) \notin tree.unreadable \cup gone
  /\ todo' = Children(Head(todo)) \o Tail(todo)
  /\ UNCHANGED <<phase, tree, gone, files, settings>>

MutantWalkError ==  \* goes on behind a directory it cannot read
  /\ Walking /\ IsDir(Head(todo)) /\ ~ShouldIgnore(Head(todo), TRUE)
  /\ Head(todo) \in tree.unreadable \cup gone
  /\ todo' = Tail(todo)
  /\ UNCHANGED <<phase, tree, gone, files, settings>>

\* The error of one directory is the result of the whole scan.
WalkError ==
  /\ Walking /\ IsDir(Head(todo)) /\ ~ShouldIgnore(Head(todo), TRUE)
  /\ Head(todo) \in tree.unreadable \cup gone
  /\ phase' = "error" /\ files' = {}
  /\ UNCHANGED <<tree, gone, todo, settings>>

EndWalk ==
  /\ phase = "walk" /\ todo = <<>>
  /\ phase' = "scanned"
  /\ UNCHANGED <<tree, gone, todo, files, settings>>

\* Somebody removes a directory and everything in it.
RemoveDir(d) ==
  /\ phase = "walk" /\ gone = {}
  /\ gone' = {p \in tree.dirs \cup tree.files : p = d \/ IsPrefix(d \o Slash, p)}
  /\ UNCHANGED <<phase, tree, todo, files, settings>>

-----------------------------------------------------------------------------
(* config.Apply                                                             *)

Setting(name) == name \in DOMAIN languages /\ languages[name]

LanguageEnabled(lang) ==
  IF lang \in DOMAIN languages THEN languages[lang]
  ELSE CASE lang = "typescriptreact" -> Setting("typescript") \/ Setting("react")
         [] lang = "javascriptreact" -> Setting("javascript") \/ Setting("react")
         [] lang = "xhtml"           -> Setting("html")
         [] OTHER                    -> FALSE

Apply ==
  /\ phase = "scanned"
  /\ files' = {f \in files : /\ ~MatchAny(ignore, f)
                             /\ DOMAIN languages # {} => LanguageEnabled(Language(f))}
  /\ phase' = "indexed"
  /\ UNCHANGED <<tree, gone, todo, settings>>

Stopped == phase \in {"error", "indexed"} /\ UNCHANGED scanVars

-----------------------------------------------------------------------------
ScanInit ==
  /\ \E c \in Cases : /\ tree = c.tree /\ patterns = Load(c.lines)
                      /\ ignore = c.ignore /\ languages = c.languages
  /\ phase = "walk" /\ gone = {} /\ files = {}
  /\ todo = Children(<<>>)

ScanNext ==
  \/ VisitFile \/ SkipDir \/ EnterDir \/ WalkError \/ EndWalk
  \/ \E d \in tree.removable : RemoveDir(d)
  \/ Apply \/ Stopped

ScanSpec == ScanInit /\ [][ScanNext]_scanVars

-----------------------------------------------------------------------------
(* What git makes of the lines, for the lines on which the two agree: the   *)
(* code leaves out "!" lines (and so does this reading, which starts from   *)
(* the lines as they were loaded), and does not look for stars, nor for a   *)
(* "/" in front, in a line for directories.                                 *)

AsInGit(p) ==
  /\ p.dirOnly => ~p.anchored /\ ~Has(p.pattern, "*")
  /\ Index(p.pattern, DoubleStar, 1) = 0

GitMatches(p, path) ==
  /\ p.dirOnly => IsDir(path)
  /\ Glob(p.pattern, IF p.anchored \/ Has(p.pattern, "/") THEN path ELSE Base(path))

Excluded(path) ==
  \E p \in Above(path) :
    \/ IsDir(p) /\ Base(p) \in BuiltInIgnoredDirs
    \/ \E line \in patterns : GitMatches(line, p)

\* The scan finds a supported file if and only if no line of .gitignore names
\* it or a directory above it, as git reads those lines; files of a directory
\* removed during the walk may be found or not.  It fails only for a directory
\* that it must look into and cannot, and never passes over one silently, and
\* what is excluded may be unreadable.
ScansWhatGitTracks ==
  (\A p \in patterns : AsInGit(p)) =>
    LET visible == {f \in tree.files : IsSupportedSource(f) /\ ~Excluded(f)}
        closed  == {d \in tree.unreadable : ~Excluded(d)}
    IN  /\ phase = "scanned" => /\ visible \ gone \subseteq files /\ files \subseteq visible
                                /\ closed \subseteq gone
        /\ phase = "error" => closed # {} \/ \E d \in gone : IsDir(d) /\ ~Excluded(d)

Enabled(f) == DOMAIN languages # {} => LanguageEnabled(Language(f))

\* config.Apply takes out of the index every file that a plain pattern names,
\* whatever other patterns are beside it and whatever characters the patterns
\* and the paths share, and every file of a language that is not enabled.  If
\* all patterns are plain, it takes out nothing else.
AppliesWhatIsNamed ==
  [][phase = "scanned" =>
       \A f \in files : ~Has(f, "*") =>
         /\ f \in files' => /\ Enabled(f)
                            /\ ~\E k \in DOMAIN ignore : Plain(ignore[k]) /\ MeansWhole(ignore[k], f)
         /\ f \notin files' => \/ ~Enabled(f)
                               \/ \E k \in DOMAIN ignore : Means(ignore[k], f) \/ ~Plain(ignore[k])]_scanVars

=============================================================================
