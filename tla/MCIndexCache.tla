---------------------------- MODULE MCIndexCache ----------------------------
EXTENDS IndexCache, TLC

CONSTANTS p1, p2, a, b, c1, c2, c3

\* filepath.WalkDir lists a directory in lexical order.
MCWalk == [S \in SUBSET {a, b} |-> SelectSeq(<<a, b>>, LAMBDA f : f \in S)]

\* c1 and c2 have the same size and the same estimate, as a changed identifier
\* or constant leaves them; c3 differs in both.
MCSize   == c1 :> 40 @@ c2 :> 40 @@ c3 :> 60
MCTokens == c1 :> 11 @@ c2 :> 11 @@ c3 :> 16
=============================================================================
