----------------------------- MODULE ImportGraph -----------------------------
(***************************************************************************)
(* buildLocalGraph of internal/rank/graph.go: which file an import means.  *)
(* Every name by which a file can be imported goes into a table, a later   *)
(* file over an earlier one; then the imports of each file are looked up.  *)
(* The packages of the npm workspace are kept in a Go map, which delivers  *)
(* them in any order.                                                      *)
(*                                                                         *)
(* Files are numbers in the order of their paths.  A file is what the two  *)
(* passes look at, with its path and names as sequences of characters in   *)
(* the manner of PathSpec:                                                 *)
(*   lang      "go", "java", "ts" (JavaScript as well), "pom" for pom.xml, *)
(*             "json", or another                                          *)
(*   stem      the path without its extension                              *)
(*   package   that of a Go or Java file                                   *)
(*   declares  the Java types, the npm package, or the Maven artifact, a   *)
(*             sequence of its group and its id                            *)
(*   imports   records of kind "name", as written; "package", a Java       *)
(*             import with a star; "relative", how many directories it     *)
(*             goes up and where from there                                *)
(***************************************************************************)
EXTENDS PathSpec, FiniteSets

CONSTANT NumFiles
Files == 1 .. NumFiles

VARIABLES
  pc,
  index,
  modules,   \* tsModules
  todo,      \* the files and packages that addPackageTSModules has still to join
  resolved   \* the files that the imports of a file name
graph == <<index, modules, todo, resolved>>

Dir(path) ==
  IF Has(path, "/") THEN SubSeq(path, 1, Len(path) - Len(Base(path)) - 1) ELSE <<".">>

OfLang(lang) == {f \in Files : index[f].lang = lang}
-----------------------------------------------------------------------------
(* The tables of the first pass.                                            *)

\* What a Go map holds in the end for a key that the files of a set write.
LastOf(S) == IF S = {} THEN {} ELSE {Max(S)}

JavaTypes(name) ==
  LastOf({f \in OfLang("java") : /\ index[f].package # <<>>
                               /\ \E type \in index[f].declares :
                                    index[f].package \o <<".">> \o type = name})
JavaPackages(name) == {f \in OfLang("java") : index[f].package # <<>> /\ index[f].package = name}
MavenArtifacts(name) ==
  LastOf({f \in OfLang("pom") : \E a \in index[f].declares : name \in {a, <<a[Len(a)]>>}})
GoPackages(dir) == {f \in OfLang("go") : index[f].package # <<>> /\ Dir(index[f].stem) = dir}

PackageNames == UNION {index[f].declares : f \in OfLang("json")}
PackageRoot(name) == Dir(index[Max({f \in OfLang("json") : name \in index[f].declares})].stem)

TSModuleNames(f) ==
  LET stem == index[f].stem
  IN  {stem} \cup IF Base(stem) = <<"index">> THEN {Dir(stem)} ELSE {}

IndexNames ==
  /\ pc = "tables"
  /\ LET names == UNION {TSModuleNames(f) : f \in OfLang("ts")}
     IN  modules' = [n \in names |-> Max({f \in OfLang("ts") : n \in TSModuleNames(f)})]
  /\ todo' = OfLang("ts") \X PackageNames
  /\ pc' = "packages"
  /\ UNCHANGED <<index, resolved>>

-----------------------------------------------------------------------------
(* addPackageTSModules                                                      *)

Src == <<"src", "/">>

\* The names of file f in the npm package.
NamesInPackage(name, f) ==
  LET root == PackageRoot(name) \o Slash
      rel  == TrimPrefix(index[f].stem, root)
  IN  IF ~IsPrefix(root, index[f].stem) THEN {}
      ELSE {n \in {name, name \o Slash \o rel, name \o Slash \o TrimPrefix(rel, Src)} :
              n = name => rel \in {<<"index">>, Src \o <<"index">>}}

MutantIsNext(file, name) ==  \* visits the packages, and the files of each
  <<file, name>> \in todo /\ \A t \in todo : t[2] = name => file <= t[1]

\* The files are visited in their order, the packages for each in any.
IsNext(file, name) == <<file, name>> \in todo /\ \A t \in todo : file <= t[1]

AddPackageTSModules ==
  /\ pc = "packages"
  /\ \E file \in Files, name \in PackageNames :
       /\ IsNext(file, name)
       /\ LET names == NamesInPackage(name, file)
          IN  modules' = [n \in DOMAIN modules \cup names |-> IF n \in names THEN file ELSE modules[n]]
       /\ todo' = todo \ {<<file, name>>}
  /\ UNCHANGED <<pc, index, resolved>>

-----------------------------------------------------------------------------
(* resolveImport                                                            *)

First(S, n) == {f \in S : Cardinality({g \in S : g < f}) < n}

Module(name) == IF name \in DOMAIN modules THEN {modules[name]} ELSE {}

\* filepath.Join of a directory and a relative import; above the root it goes on
\* with "..", which no file has in its path.
Up == <<".", ".">>
Parent(dir) ==
  CASE dir = <<".">>   -> Up
    [] Base(dir) = Up  -> dir \o Slash \o Up
    [] OTHER           -> Dir(dir)

Joined(dir, import) ==
  LET up[n \in 0 .. import.up] == IF n = 0 THEN dir ELSE Parent(up[n - 1])
      top == up[import.up]
  IN  IF import.name = <<>> THEN top
      ELSE IF top = <<".">> THEN import.name ELSE top \o Slash \o import.name

ResolveImport(f, import) ==
  LET name == import.name
  IN  CASE index[f].lang = "java" ->
             IF import.kind = "package" THEN First(JavaPackages(name), 8) ELSE JavaTypes(name)
        [] index[f].lang = "ts"   ->
             IF import.kind = "relative" THEN Module(Joined(Dir(index[f].stem), import))
                                         ELSE Module(name)
        [] index[f].lang = "pom"  -> MavenArtifacts(name)
        [] index[f].lang = "go"   ->
             First(UNION {GoPackages(d) : d \in {d \in {Dir(index[g].stem) : g \in OfLang("go")} :
                                                   IsSuffix(d, name)}}, 6)
        [] OTHER -> {}

ResolveImports ==
  /\ pc = "packages" /\ todo = {}
  /\ resolved' = [f \in Files |-> UNION {ResolveImport(f, i) : i \in index[f].imports}]
  /\ pc' = "seeds"
  /\ UNCHANGED <<index, modules, todo>>

-----------------------------------------------------------------------------
(* What an import means, by the files alone.                                *)

\* The names of a TypeScript file in a package are of a higher rank than those
\* by its path.
NamedInPackage(name) ==
  {f \in OfLang("ts") : \E p \in PackageNames : name \in NamesInPackage(p, f)}
NamedByPath(name) == {f \in OfLang("ts") : name \in TSModuleNames(f)}
Meant(name) == LastOf(IF NamedInPackage(name) # {} THEN NamedInPackage(name) ELSE NamedByPath(name))

\* Each import of a TypeScript file leads to one file, which has the name and is
\* the same in every run: a file of an npm package before one of that path, and
\* the last of several.  No import, of any language, leads to a file of another
\* language, and only a Go import or a star leads to several, in one order.
ImportsLeadToOneFile ==
  pc = "seeds" =>
    /\ \A f \in OfLang("ts") :
         resolved[f] = UNION {Meant(IF i.kind = "relative" THEN Joined(Dir(index[f].stem), i)
                                    ELSE i.name) : i \in index[f].imports}
    /\ \A f \in Files : \A g \in resolved[f] : index[f].lang = index[g].lang
    /\ \A f \in OfLang("java") \cup OfLang("pom") :
         (\A i \in index[f].imports : i.kind # "package") =>
           Cardinality(resolved[f]) <= Cardinality(index[f].imports)

=============================================================================
