------------------------------ MODULE PathSpec ------------------------------
(***************************************************************************)
(* pathspec.Match: does a pattern of .ctxpack.yml, of a task file or of    *)
(* --forbid name a path?  The matcher works on characters, and what it     *)
(* makes of "**" follows from that, so paths and patterns are sequences of *)
(* characters here: "/", "*", "." and any others; a run of characters that *)
(* no rule looks into may stand as one.                                    *)
(***************************************************************************)
EXTENDS Integers, Sequences, SequencesExt

Slash == <<"/">>
DoubleStar == <<"*", "*">>

Has(s, c) == \E k \in DOMAIN s : s[k] = c
TrimPrefix(s, p) == IF IsPrefix(p, s) THEN SubSeq(s, Len(p) + 1, Len(s)) ELSE s
TrimSuffix(s, p) == IF IsSuffix(p, s) THEN SubSeq(s, 1, Len(s) - Len(p)) ELSE s

\* strings.Index from position n on: where part begins, or 0.
Index(s, part, n) ==
  LET at == {k \in n .. Len(s) - Len(part) + 1 : SubSeq(s, k, k + Len(part) - 1) = part}
  IN  IF at = {} THEN 0 ELSE Min(at)

\* path.Base of a path of the index.
Base(s) ==
  LET slashes == {k \in DOMAIN s : s[k] = "/"}
  IN  IF slashes = {} THEN s ELSE SubSeq(s, Max(slashes) + 1, Len(s))

\* path.Match of the Go library: "*" stands for any characters but "/".  reach
\* has how many characters of s the first n of the pattern can stand for.
Glob(pattern, s) ==
  LET reach[n \in 0 .. Len(pattern)] ==
        IF n = 0 THEN {0}
        ELSE IF pattern[n] = "*"
        THEN {k \in 0 .. Len(s) : \E j \in reach[n - 1] : j <= k /\ \A m \in j + 1 .. k : s[m] # "/"}
        ELSE {k \in 1 .. Len(s) : k - 1 \in reach[n - 1] /\ s[k] = pattern[n]}
  IN Len(s) \in reach[Len(pattern)]

\* strings.Split(pattern, "**")
Split(pattern) ==
  LET from[n \in 1 .. Len(pattern) + 1] ==
        LET at == Index(pattern, DoubleStar, n)
        IN  IF at = 0 THEN <<SubSeq(pattern, n, Len(pattern))>>
            ELSE <<SubSeq(pattern, n, at - 1)>> \o from[at + 2]
  IN  from[1]

MutantMatchDoubleStar(pattern, path) ==  \* forgets how far the parts before reach
  LET parts == Split(pattern)
  IN  /\ IsPrefix(parts[1], path)
      /\ \A n \in DOMAIN parts : parts[n] # <<>> => Index(path, parts[n], 1) # 0

\* The parts between the double stars are looked for one behind the other, each
\* at the first place it is found.  pos is the position behind the last of
\* them, 0 when one was not found.  The last condition of the code, on pos,
\* holds whenever they all are.
MatchDoubleStar(pattern, path) ==
  LET parts == Split(pattern)
      pos[n \in 0 .. Len(parts)] ==
        IF n = 0 THEN 1
        ELSE IF pos[n - 1] = 0 \/ parts[n] = <<>> THEN pos[n - 1]
        ELSE IF n = 1 /\ ~IsPrefix(parts[1], path) THEN 0
        ELSE LET found == Index(path, parts[n], pos[n - 1])
             IN  IF found = 0 THEN 0 ELSE found + Len(parts[n])
  IN  pos[Len(parts)] # 0

Match(rawPattern, rawPath) ==
  LET pattern == TrimPrefix(rawPattern, <<".", "/">>)
      path    == TrimPrefix(rawPath, <<".", "/">>)
      beyond  == TrimSuffix(pattern, <<"/", "*", "*">>)
  IN  /\ rawPattern # <<>> /\ rawPath # <<>>
      /\ \/ pattern = path
         \/ IF IsSuffix(Slash, pattern) THEN IsPrefix(pattern, path)
            ELSE IF beyond # pattern THEN path = beyond \/ IsPrefix(beyond \o Slash, path)
            ELSE IF Index(pattern, DoubleStar, 1) # 0 THEN MatchDoubleStar(pattern, path)
            ELSE \/ Glob(pattern, path)
                 \/ ~Has(pattern, "/") /\ Glob(pattern, Base(path))
                 \/ IsPrefix(pattern \o Slash, path)

MatchAny(patterns, path) == \E k \in DOMAIN patterns : Match(patterns[k], path)

-----------------------------------------------------------------------------
(* What the patterns are documented and tested to mean.                     *)

\* The patterns of which the documents and the code make the same: those with
\* no star before a final "/" or "/**", and no single one beside "**".  In the
\* others the code looks for stars in the path itself, although docs/evals.md
\* writes "services/billing/**/*test*"; the properties require nothing of them.
Plain(spelled) ==
  LET pattern == TrimPrefix(spelled, <<".", "/">>)
      body  == TrimSuffix(pattern, <<"/", "*", "*">>)
      parts == Split(body)
  IN  \/ ~Has(body, "*")
      \/ /\ body = pattern /\ ~IsSuffix(Slash, pattern)
         /\ Len(parts) > 1 => \A n \in DOMAIN parts : ~Has(parts[n], "*")

\* "**" stands for any characters.  from[n] has the positions of s at which the
\* parts from the n-th on can begin.
Spans(parts, s) ==
  LET from[n \in 1 .. Len(parts)] ==
        {k \in 1 .. Len(s) + 1 :
          /\ IsPrefix(parts[n], SubSeq(s, k, Len(s)))
          /\ IF n = Len(parts) THEN k + Len(parts[n]) = Len(s) + 1
             ELSE \E j \in from[n + 1] : k + Len(parts[n]) <= j}
  IN  1 \in from[1]

\* A directory, with or without "/" or "/**" behind it, means all that is
\* below it; a name or a glob without "/" means a file of that name anywhere;
\* another glob means the whole path; and a pattern with "**" elsewhere at most
\* the paths that begin with something it matches.
Means(spelled, path) ==
  LET pattern == TrimPrefix(spelled, <<".", "/">>)
      body == TrimSuffix(pattern, <<"/", "*", "*">>)
      dir  == IF body = pattern THEN TrimSuffix(pattern, Slash) ELSE body
  IN  IF ~Has(dir, "*")
      THEN \/ IsPrefix(dir \o Slash, path)
           \/ path = dir /\ (body = pattern => dir = pattern)
           \/ dir = pattern /\ ~Has(pattern, "/") /\ Base(path) = pattern
      ELSE IF Index(pattern, DoubleStar, 1) # 0
      THEN \E n \in 1 .. Len(path) : Spans(Split(pattern), SubSeq(path, 1, n))
      ELSE Glob(pattern, path) \/ (~Has(pattern, "/") /\ Glob(pattern, Base(path)))

\* No document says whether a path may go on behind what a pattern with "**"
\* matches; the pattern means at least the paths that it matches as a whole.
MeansWhole(spelled, path) ==
  LET body == TrimSuffix(TrimPrefix(spelled, <<".", "/">>), <<"/", "*", "*">>)
  IN  Means(spelled, path) /\ (Index(body, DoubleStar, 1) # 0 => Spans(Split(body), path))

=============================================================================
