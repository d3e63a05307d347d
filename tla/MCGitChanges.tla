---------------------------- MODULE MCGitChanges ----------------------------
EXTENDS GitChanges

CONSTANT none

At(dir, name) == [dir |-> dir, name |-> name]

\* The same name in three directories, one of them ctxpack's own.
MCPaths == {At(Root, "a.go"), At("src", "a.go"), At(".ctxpack", "a.go")}

\* Two directories, so that a move is written with braces.
MovePaths == {At("lib", "a.go"), At("src", "a.go")}

\* Texts similar enough to be renames of each other, and one that is not.
MCTexts == {{1, 2}, {1, 2, 3}, {9}}
TwoTexts == {{1, 2}, {1, 2, 3}}

\* At first one file is committed.
MCFirstTrees ==
  {[p \in Paths |-> IF p = At("src", "a.go") THEN {1, 2} ELSE NoFile]}
=============================================================================
