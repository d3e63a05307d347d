---------------------------- MODULE MCSliceRanges ----------------------------
(***************************************************************************)
(* Files whose matching lines lie at the boundaries of SliceRanges: at     *)
(* both ends of the file, windows that overlap, touch, leave one line      *)
(* between them and leave two, more than eight of them, and more than 90   *)
(* lines in all; and symbols that are said to be just behind the end of    *)
(* the file or far from it.                                                *)
(***************************************************************************)
EXTENDS SliceRanges

File(n, symbols, hits) == [lines |-> n, symbols |-> symbols, hits |-> hits]

\* Lines with a term 11 (a line between), 12 (two) and 9 or 10 apart.
Spread == {1, 12, 24, 33, 43, 55, 67, 79, 91}
\* Symbols 21 (a line between), 22 and 20 apart.
Classes == <<0, 4, 25, 47, 67, 115, 200>>
Only(s) == SelectSeq(Classes, LAMBDA line : line \in s)

MCFiles ==
  {File(200, s, h) : s \in {<<>>, <<30>>}, h \in SUBSET Spread}
  \cup {File(200, Only(s), h) : s \in SUBSET {0, 4, 25, 47, 67, 115, 200}, h \in SUBSET {2, 90, 134}}
  \cup {File(200, <<115, 4, 67, 0, 4, 25, 47, 114, 3, 1>>, h) : h \in SUBSET {2, 160}}
  \cup {File(200, <<line, 190>>, h) : line \in {197, 200, 201, 203, 204, 300}, h \in SUBSET {150, 196, 200}}
  \cup {File(5, <<s, t>>, h) : s \in {6, 8, 9, 30}, t \in {0, 1, 30}, h \in SUBSET {1, 5}}
  \cup {File(n, s, h) : n \in {1, 5}, s \in {<<>>, <<0>>, <<1, 1>>}, h \in SUBSET {1}}

=============================================================================
