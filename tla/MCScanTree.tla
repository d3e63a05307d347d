----------------------------- MODULE MCScanTree -----------------------------
(***************************************************************************)
(* Small trees whose names share characters; every pattern of up to six     *)
(* characters for .ctxpack.yml, some longer ones, and pairs of lines of    *)
(* .gitignore.                                                             *)
(***************************************************************************)
EXTENDS ScanTree

Tree(ds, fs, closed, unstable) ==
  [dirs |-> ds, files |-> fs, unreadable |-> closed, removable |-> unstable]
Case(t, ls, is, langs) == [tree |-> t, lines |-> ls, ignore |-> is, languages |-> langs]

A == <<"a">>   B == <<"b">>   Vendor == <<"vendor">>
P(d, p) == d \o Slash \o p

Names == Tree({A, B, P(A, B), P(B, B)},
              {<<"a", "b">>, P(B, A), P(P(B, B), A), P(A, <<"a", "b">>), P(P(A, B), B), P(A, A)},
              {}, {})
Files == Tree({P(A, B), A, <<"a", "b">>},
              {B, <<"b", "b">>, P(<<"a", "b">>, B), P(A, P(B, <<"a", "b">>)), <<"a", "a", "b">>}, {}, {})

Patterns ==
  (SeqOf({"a", "/", "*"}, 6) \ {<<>>}) \cup
  {<<".", "/", "a", "/", "*", "*">>, <<"a", "/", "*", "*", "/", "b">>, <<"*", "*", "/", "a", "b">>,
   <<"a", "b", "*", "*", "b">>, <<"*", "*", "b", "/", "*", "*">>, <<"a", "/", "*", "/", "a", "b">>}

Sources == Tree({A, P(A, B), B, P(B, A), Vendor, P(A, Vendor)},
                {<<"a", "b">>, <<"x">>, P(A, A), P(P(A, B), A), P(B, B), P(P(B, A), B),
                 P(Vendor, A), P(P(A, Vendor), B)},
                {}, {A, P(B, A)})
Closed == [Sources EXCEPT !.unreadable = {P(B, A), Vendor}]

Lines ==
  {<<"a">>, <<"/", "a">>, <<"a", "/">>, <<"/", "b", "/">>, <<"a", "/", "b">>, <<"a", "/", "b", "/">>,
   <<"b", "/", "*">>, <<"*", "b">>, <<"!", "a">>, <<"#", "a">>, <<"*", "*", "/", "b">>, <<"b", "*", "/">>,
   <<>>, <<"/">>}

\* services/billing/**/*test* of docs/evals.md, which names nothing, beside others.
Starry == <<"a", "/", "*", "*", "/", "*", "b", "*">>

MCCases ==
  {Case(t, <<>>, <<p>>, <<>>) : t \in {Names, Files}, p \in Patterns}
  \cup {Case(Names, <<>>, <<Starry, p>>, <<>>) : p \in SeqOf({"a", "/", "*"}, 3) \ {<<>>}}
  \cup {Case(t, <<l, m>>, <<>>, <<>>) : t \in {Sources, Closed}, l \in Lines, m \in Lines}
  \cup {Case(Sources, <<>>, <<A, P(B, B)>>, [x \in on \cup off |-> x \in on]) :
          on \in {{}, {"go"}, {"react"}, {"html", "typescript"}}, off \in {{}, {"xhtml"}, {"java"}}}

MCBuiltIn == {Vendor}
MCSupported(p) == Base(p) # <<"x">>
MCLanguage(p) ==
  CASE p = <<"a", "b">>  -> "go"
    [] p = P(A, A)       -> "typescriptreact"
    [] p = P(P(A, B), A) -> "xhtml"
    [] p = P(P(B, A), B) -> "javascriptreact"
    [] OTHER             -> "java"

=============================================================================
