----------------------------- MODULE MCPServer -----------------------------
(***************************************************************************)
(* mcp.Server: "ctxpack mcp", a JSON-RPC server on standard input and      *)
(* output, its client, and an editor of the repository it answers about.   *)
(*                                                                         *)
(* Input and output are pipes of bounded capacity.  The client may send    *)
(* further lines before it has its answers, close the input, or die.       *)
(*                                                                         *)
(* A line is reduced to what the server makes of it; the n-th line carries *)
(* the id n if it is a request.  The text of an answer is reduced to the   *)
(* version of the repository it was built from.                            *)
(***************************************************************************)
EXTENDS Naturals, Sequences

CONSTANTS
  Kinds,     \* the kinds of lines the client sends
  Capacity,  \* of each pipe, in lines
  MaxLines,  \* bound on the lines the client sends
  MaxEdits   \* bound on the edits of the repository

\* "info" stands for initialize, ping and tools/list; "call" for a call of one of
\* the four tools, "unusable call" for one whose parameters do not parse or name
\* no tool, "bad arguments" for one whose arguments the tool refuses.
RequestKinds == {"info", "unknown method", "unusable call", "bad arguments", "call"}
SilentKinds  == {"blank", "invalid", "notification"}
LineKinds    == RequestKinds \cup SilentKinds \cup {"oversized"}

ASSUME KindsAssumption == Kinds \subseteq LineKinds
ASSUME BoundsAssumption ==
  Capacity \in Nat \ {0} /\ MaxLines \in Nat /\ MaxEdits \in Nat

\* What a request is answered with; a call may fail because the repository
\* cannot be indexed.
AnswersTo(kind) ==
  CASE kind = "info"           -> {"result"}
    [] kind = "unknown method" -> {"error -32601"}
    [] kind = "unusable call"  -> {"error -32000"}
    [] kind = "bad arguments"  -> {"tool error"}
    [] kind = "call"           -> {"text", "tool error"}

VARIABLES
  tree,      \* the version of the repository
  sent,      \* the lines sent so far, [kind, tree]
  stdin,     \* the numbers of those in the input pipe
  closed,    \* whether the client has closed the input
  stdout,    \* the answers in the output pipe, [id, answer, tree]
  received,  \* the answers the client has read
  alive,     \* whether the client lives
  pc,        \* "scan", "handle", "build", "write" or "exited"
  req,       \* the line in hand
  resp       \* the answer in hand

client == <<sent, closed, received, alive>>
vars == <<tree, sent, stdin, closed, stdout, received, alive, pc, req, resp>>

MutantAnswer(answer, t) ==  \* the id of the line sent last
  [id |-> Len(sent), answer |-> answer, tree |-> t]

Answer(answer, t) == [id |-> req, answer |-> answer, tree |-> t]
NoAnswer == [id |-> 0, answer |-> "result", tree |-> 0]
-----------------------------------------------------------------------------
(* The server.                                                              *)

Scan ==
  /\ pc = "scan" /\ stdin # <<>>
  /\ req' = Head(stdin) /\ stdin' = Tail(stdin)
  /\ UNCHANGED <<tree, client, stdout, resp>>

\* A blank line, a line that is no JSON (it goes to standard error) and a line
\* without an id are read and dropped.
Skip == Scan /\ sent[Head(stdin)].kind \in SilentKinds /\ pc' = "scan"

Accept == Scan /\ sent[Head(stdin)].kind \in RequestKinds /\ pc' = "handle"

\* A line longer than the scanner's buffer ends the server.
TooLong == Scan /\ sent[Head(stdin)].kind = "oversized" /\ pc' = "exited"

MutantEndOfInput ==  \* what is left in the pipe is dropped
  /\ pc = "scan" /\ closed
  /\ pc' = "exited"
  /\ UNCHANGED <<tree, client, stdin, stdout, req, resp>>

EndOfInput ==
  /\ pc = "scan" /\ stdin = <<>> /\ closed
  /\ pc' = "exited"
  /\ UNCHANGED <<tree, client, stdin, stdout, req, resp>>

\* Everything but the calls of tools is answered at once.
Handle ==
  /\ pc = "handle"
  /\ \/ /\ sent[req].kind = "call"
        /\ pc' = "build" /\ UNCHANGED resp
     \/ /\ sent[req].kind # "call"
        /\ resp' \in {Answer(a, 0) : a \in AnswersTo(sent[req].kind)}
        /\ pc' = "write"
  /\ UNCHANGED <<tree, client, stdin, stdout, req>>

MutantBuildIndex ==  \* the index of the last call is kept
  /\ pc = "build"
  /\ resp' = Answer("text", IF resp.tree > 0 THEN resp.tree ELSE tree)
  /\ pc' = "write"
  /\ UNCHANGED <<tree, client, stdin, stdout, req>>

\* Every call of a tool indexes the repository anew, without the cache.
BuildIndex ==
  /\ pc = "build"
  /\ resp' \in {Answer("text", tree), Answer("tool error", 0)}
  /\ pc' = "write"
  /\ UNCHANGED <<tree, client, stdin, stdout, req>>

WriteMessage ==
  /\ pc = "write" /\ alive /\ Len(stdout) < Capacity
  /\ stdout' = Append(stdout, resp)
  /\ pc' = "scan"
  /\ UNCHANGED <<tree, client, stdin, req, resp>>

WriteFails ==
  /\ pc = "write" /\ ~alive
  /\ pc' = "exited"
  /\ UNCHANGED <<tree, client, stdin, stdout, req, resp>>

ServerStep ==
  Skip \/ Accept \/ TooLong \/ EndOfInput \/ Handle \/ BuildIndex \/ WriteMessage \/ WriteFails
-----------------------------------------------------------------------------
(* The client and the editor.                                               *)

Send(kind) ==
  /\ alive /\ ~closed /\ pc # "exited"
  /\ Len(sent) < MaxLines /\ Len(stdin) < Capacity
  /\ sent' = Append(sent, [kind |-> kind, tree |-> tree])
  /\ stdin' = Append(stdin, Len(sent) + 1)
  /\ UNCHANGED <<tree, closed, stdout, received, alive, pc, req, resp>>

Receive ==
  /\ alive /\ stdout # <<>>
  /\ received' = Append(received, Head(stdout))
  /\ stdout' = Tail(stdout)
  /\ UNCHANGED <<tree, sent, stdin, closed, alive, pc, req, resp>>

Close ==
  /\ alive /\ ~closed
  /\ closed' = TRUE
  /\ UNCHANGED <<tree, sent, stdin, stdout, received, alive, pc, req, resp>>

Die ==
  /\ alive
  /\ alive' = FALSE /\ closed' = TRUE
  /\ UNCHANGED <<tree, sent, stdin, stdout, received, pc, req, resp>>

Edit ==
  /\ tree <= MaxEdits
  /\ tree' = tree + 1
  /\ UNCHANGED <<client, stdin, stdout, pc, req, resp>>
-----------------------------------------------------------------------------
Init ==
  /\ tree = 1
  /\ sent = <<>> /\ stdin = <<>> /\ closed = FALSE
  /\ stdout = <<>> /\ received = <<>> /\ alive = TRUE
  /\ pc = "scan" /\ req = 0 /\ resp = NoAnswer

Next == ServerStep \/ (\E kind \in Kinds : Send(kind)) \/ Receive \/ Close \/ Die \/ Edit

Spec == Init /\ [][Next]_vars

\* The server runs on, and the client reads what it is sent.
FairSpec == Spec /\ WF_vars(ServerStep) /\ WF_vars(Receive)
-----------------------------------------------------------------------------
(* Properties.                                                              *)

Answers == {"result", "error -32601", "error -32000", "tool error", "text"}
Responses == [id : 0 .. Len(sent), answer : Answers, tree : 0 .. tree]

TypeOK ==
  /\ tree \in 1 .. MaxEdits + 1
  /\ sent \in Seq([kind : Kinds, tree : 1 .. tree]) /\ Len(sent) <= MaxLines
  /\ closed \in BOOLEAN /\ alive \in BOOLEAN /\ (alive \/ closed)
  /\ pc \in {"scan", "handle", "build", "write", "exited"}
  /\ req \in 0 .. Len(sent) /\ resp \in Responses
  /\ stdin \in Seq(1 .. Len(sent)) /\ Len(stdin) <= Capacity
  /\ stdout \in Seq(Responses) /\ Len(stdout) <= Capacity
  /\ received \in Seq(Responses)

Answered == received \o stdout
IsRequest(n) == sent[n].kind \in RequestKinds

\* However much the client sends ahead, the answers are those of the first
\* requests in the order sent, one each, and each is an answer to its request;
\* and all the requests the server has taken from the pipe but the one in hand
\* have theirs.
AnsweredInOrder ==
  /\ \A k \in DOMAIN Answered :
       LET n == Answered[k].id
       IN  /\ n \in DOMAIN sent /\ IsRequest(n)
           /\ Answered[k].answer \in AnswersTo(sent[n].kind)
           /\ \A j \in 1 .. k - 1 : Answered[j].id < n
           /\ \A m \in 1 .. n - 1 : IsRequest(m) => \E j \in 1 .. k - 1 : Answered[j].id = m
  /\ pc = "scan" =>
       \A n \in DOMAIN sent : IsRequest(n) =>
         (\E k \in DOMAIN Answered : Answered[k].id = n) \/ (\E k \in DOMAIN stdin : stdin[k] = n)

\* An answer about the repository is never older than its request: whoever edits
\* a file and then asks gets an answer about the edited file.
NeverStale ==
  \A k \in DOMAIN Answered :
    Answered[k].answer = "text" => Answered[k].tree >= sent[Answered[k].id].tree

\* A client that keeps reading gets an answer to every request, also to those
\* sent before it closes the input, unless a line was oversized.
Obtained(n) == \E k \in DOMAIN received : received[k].id = n
Sent(n, kinds) == n \in DOMAIN sent /\ sent[n].kind \in kinds

EveryRequestAnswered ==
  \A n \in 1 .. MaxLines :
    Sent(n, RequestKinds) ~>
      Obtained(n) \/ ~alive \/ \E m \in DOMAIN sent : sent[m].kind = "oversized"
=============================================================================
