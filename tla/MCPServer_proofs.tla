------------------------- MODULE MCPServer_proofs -------------------------
(***************************************************************************)
(* What "ctxpack mcp" guarantees for any number and kinds of lines, pipes  *)
(* of any capacity, and an editor and a client that act at any time.       *)
(***************************************************************************)
EXTENDS MCPServer, TLAPS

-----------------------------------------------------------------------------
(* The inductive invariant.                                                 *)

Busy == pc \in {"handle", "build", "write"}

\* The pipe holds the lines after the one in hand, in the order sent.
PipeFollows ==
  /\ Len(sent) = req + Len(stdin)
  /\ \A k \in DOMAIN stdin : stdin[k] = req + k

\* A request in hand is one, and an answer in hand is an answer to it, about a
\* repository no older than it.
InHand ==
  /\ Busy => req # 0 /\ IsRequest(req)
  /\ pc = "build" => sent[req].kind = "call"
  /\ pc = "write" => /\ resp.id = req
                     /\ resp.answer \in AnswersTo(sent[req].kind)
                     /\ resp.answer = "text" => resp.tree >= sent[req].tree

\* Answers are given to lines taken before, in their order.
Rising ==
  \A k \in DOMAIN Answered :
    /\ Answered[k].id \in 1 .. req /\ IsRequest(Answered[k].id)
    /\ Busy => Answered[k].id < req
    /\ Answered[k].answer \in AnswersTo(sent[Answered[k].id].kind)
    /\ \A j \in 1 .. k - 1 : Answered[j].id < Answered[k].id

\* No request taken is passed over; the one in hand has its answer once the
\* server looks for the next line.
NonePassedOver ==
  \A n \in 1 .. req :
    IsRequest(n) /\ (n = req => pc = "scan") => \E k \in DOMAIN Answered : Answered[k].id = n

IInv ==
  /\ TypeOK
  /\ PipeFollows
  /\ InHand
  /\ Rising
  /\ NonePassedOver
  /\ NeverStale
-----------------------------------------------------------------------------
(* Facts about sequences and about the operators.                           *)

\* Moving the first answer of the pipe to what the client has leaves the answers
\* as they are.
LEMMA MoveHead ==
  ASSUME NEW S, NEW s \in Seq(S), NEW t \in Seq(S), t # <<>>
  PROVE  Append(s, Head(t)) \o Tail(t) = s \o t
<1> DEFINE a == Append(s, Head(t)) \o Tail(t)
           b == s \o t
<1>1. a \in Seq(S) /\ b \in Seq(S) /\ Len(a) = Len(b) /\ Len(b) = Len(s) + Len(t)
  OBVIOUS
<1>2. \A k \in 1 .. Len(b) : a[k] = b[k]
  OBVIOUS
<1> QED BY <1>1, <1>2

\* Putting an answer into the pipe puts it behind all others.
LEMMA AppendLast ==
  ASSUME NEW S, NEW s \in Seq(S), NEW t \in Seq(S), NEW e \in S
  PROVE  s \o Append(t, e) = Append(s \o t, e)
OBVIOUS

\* A sequence remains one over a larger set.
LEMMA SeqMonotonic ==
  ASSUME NEW S, NEW T, S \subseteq T, NEW s \in Seq(S)
  PROVE  s \in Seq(T)
OBVIOUS

\* What is answered is among the answers; only a call is answered with a text.
LEMMA AnswersFacts ==
  ASSUME NEW kind \in RequestKinds
  PROVE  /\ AnswersTo(kind) \subseteq Answers
         /\ kind # "call" => "text" \notin AnswersTo(kind)
         /\ kind = "call" => AnswersTo(kind) = {"text", "tool error"}
BY DEF RequestKinds, AnswersTo, Answers

\* Answers to the lines sent remain such when lines are sent and files edited.
LEMMA ResponsesGrow ==
  ASSUME TypeOK, Len(sent') \in Nat, Len(sent') >= Len(sent), tree' \in Nat, tree' >= tree
  PROVE  Responses \subseteq Responses'
<1>1. Len(sent) \in Nat /\ tree \in Nat
  BY DEF TypeOK
<1>2. 0 .. Len(sent) \subseteq 0 .. Len(sent') /\ 0 .. tree \subseteq 0 .. tree'
  BY <1>1
<1> QED BY <1>2, Zenon DEF Responses

\* The answers given are a sequence of answers.
LEMMA AnsweredType == TypeOK => Answered \in Seq(Responses)
BY DEF TypeOK, Answered

LEMMA InitIInv == Init => IInv
<1> SUFFICES ASSUME Init PROVE IInv
  OBVIOUS
<1>1. NoAnswer \in Responses
  BY DEF Init, NoAnswer, Responses, Answers
<1>2. TypeOK
  <2>1. tree \in 1 .. MaxEdits + 1 /\ req \in 0 .. Len(sent) /\ Len(sent) <= MaxLines
    BY BoundsAssumption DEF Init
  <2>2. /\ sent \in Seq([kind : Kinds, tree : 1 .. tree]) /\ stdin \in Seq(1 .. Len(sent))
        /\ stdout \in Seq(Responses) /\ received \in Seq(Responses)
    BY DEF Init
  <2>3. Len(stdin) <= Capacity /\ Len(stdout) <= Capacity
    BY BoundsAssumption DEF Init
  <2>4. closed \in BOOLEAN /\ alive \in BOOLEAN /\ (alive \/ closed) /\ pc = "scan"
    BY DEF Init
  <2>5. resp \in Responses
    BY <1>1 DEF Init
  <2> QED BY <2>1, <2>2, <2>3, <2>4, <2>5 DEF TypeOK
<1>3. Answered = <<>>
  BY DEF Init, Answered
<1> QED BY <1>2, <1>3 DEF Init, IInv, PipeFollows, InHand, Busy, Rising, NonePassedOver, NeverStale

\* The server takes the first line of the pipe.
LEMMA ScanFacts ==
  ASSUME TypeOK, PipeFollows, Scan
  PROVE  /\ req' = req + 1 /\ req' \in DOMAIN sent /\ Head(stdin) = req'
         /\ stdin' \in Seq(1 .. Len(sent)) /\ Len(stdin') <= Capacity
         /\ sent' = sent /\ tree' = tree /\ stdout' = stdout /\ received' = received
         /\ closed' = closed /\ alive' = alive /\ resp' = resp
         /\ PipeFollows'
<1>1. /\ stdin \in Seq(1 .. Len(sent)) /\ stdin # <<>> /\ Len(stdin) <= Capacity
      /\ sent \in Seq([kind : Kinds, tree : 1 .. tree]) /\ req \in 0 .. Len(sent)
  BY DEF TypeOK, Scan
<1>2. /\ req' = Head(stdin) /\ stdin' = Tail(stdin) /\ UNCHANGED <<tree, client, stdout, resp>>
  BY DEF Scan
<1>3. Head(stdin) = stdin[1] /\ 1 \in DOMAIN stdin /\ Len(stdin) \in Nat \ {0}
  BY <1>1
<1>4. req' = req + 1
  BY <1>2, <1>3 DEF PipeFollows
<1>5. stdin' \in Seq(1 .. Len(sent)) /\ Len(stdin') = Len(stdin) - 1
  BY <1>1, <1>2
<1>6. \A k \in DOMAIN stdin' : k + 1 \in DOMAIN stdin /\ stdin'[k] = stdin[k + 1] /\ k \in Nat
  <2>1. DOMAIN stdin' = 1 .. Len(stdin) - 1 /\ DOMAIN stdin = 1 .. Len(stdin)
    BY <1>1, <1>5
  <2>2. \A k \in 1 .. Len(stdin) - 1 : Tail(stdin)[k] = stdin[k + 1]
    BY <1>1
  <2> QED BY <1>2, <1>3, <2>1, <2>2
<1>7. PipeFollows'
  <2>1. Len(sent) = req' + Len(stdin')
    BY <1>1, <1>3, <1>4, <1>5 DEF PipeFollows
  <2>2. \A k \in DOMAIN stdin' : stdin'[k] = req' + k
    BY <1>1, <1>4, <1>6 DEF PipeFollows
  <2> QED BY <1>2, <2>1, <2>2 DEF PipeFollows, client
<1>8. req' \in DOMAIN sent
  BY <1>1, <1>2, <1>3
<1>9. Len(stdin') <= Capacity
  BY <1>1, <1>3, <1>5, BoundsAssumption
<1> QED BY <1>2, <1>4, <1>5, <1>7, <1>8, <1>9 DEF client

\* Every step keeps the pipes within their capacity and all in them of its type.
LEMMA TypeStep == TypeOK /\ PipeFollows /\ InHand /\ [Next]_vars => TypeOK'
<1> SUFFICES ASSUME TypeOK, PipeFollows, InHand, [Next]_vars PROVE TypeOK'
  OBVIOUS
<1>0. /\ Len(sent) \in Nat /\ tree \in Nat /\ req \in Nat
      /\ Len(stdin) \in Nat /\ Len(stdout) \in Nat
  BY DEF TypeOK
<1>1. CASE Skip \/ Accept \/ TooLong
  <2>1. Scan /\ pc' \in {"scan", "handle", "exited"}
    BY <1>1 DEF Skip, Accept, TooLong
  <2>2. Responses' = Responses
    BY <2>1, ScanFacts DEF Responses
  <2>3. /\ req' \in 0 .. Len(sent) /\ Len(sent') = Len(sent)
        /\ stdin' \in Seq(1 .. Len(sent)) /\ Len(stdin') <= Capacity
    <3>1. DOMAIN sent = 1 .. Len(sent)
      BY DEF TypeOK
    <3> QED BY <2>1, <3>1, ScanFacts
  <2>4. UNCHANGED <<tree, sent, closed, alive, stdout, received, resp>>
    BY <2>1, ScanFacts
  <2> QED BY <2>1, <2>2, <2>3, <2>4 DEF TypeOK
<1>2. CASE EndOfInput \/ WriteFails
  <2>1. Responses' = Responses
    BY <1>2 DEF EndOfInput, WriteFails, Responses, client
  <2> QED BY <1>2, <2>1 DEF EndOfInput, WriteFails, TypeOK, client
<1>3. CASE Handle \/ BuildIndex
  <2>1. sent' = sent /\ tree' = tree /\ req' = req
    BY <1>3 DEF Handle, BuildIndex, client
  <2>2. Responses' = Responses
    BY <2>1 DEF Responses
  <2>3. Busy /\ req \in 0 .. Len(sent) /\ sent[req].kind \in RequestKinds
    BY <1>3 DEF Handle, BuildIndex, Busy, InHand, IsRequest, TypeOK
  <2>4. \A answer \in Answers, t \in 0 .. tree : Answer(answer, t) \in Responses
    BY <2>3 DEF Answer, Responses
  <2>5. resp' \in Responses
    <3>0. 0 \in 0 .. tree /\ tree \in 0 .. tree /\ {"text", "tool error"} \subseteq Answers
      BY <1>0 DEF Answers
    <3>1. CASE Handle
      <4>1. CASE resp' = resp
        BY <4>1 DEF TypeOK
      <4>2. CASE resp' \in {Answer(a, 0) : a \in AnswersTo(sent[req].kind)}
        <5>1. PICK a \in AnswersTo(sent[req].kind) : resp' = Answer(a, 0)
          BY <4>2
        <5>2. a \in Answers
          BY <2>3, <5>1, AnswersFacts
        <5> QED BY <2>4, <3>0, <5>1, <5>2
      <4> QED BY <3>1, <4>1, <4>2 DEF Handle
    <3>2. CASE BuildIndex
      BY <2>4, <3>0, <3>2 DEF BuildIndex
    <3> QED BY <1>3, <3>1, <3>2
  <2> QED BY <1>3, <2>1, <2>2, <2>5 DEF Handle, BuildIndex, TypeOK, client
<1>4. CASE WriteMessage
  <2>1. Responses' = Responses
    BY <1>4 DEF WriteMessage, Responses, client
  <2>2. stdout' \in Seq(Responses) /\ Len(stdout') <= Capacity
    BY <1>0, <1>4, BoundsAssumption DEF WriteMessage, TypeOK
  <2> QED BY <1>4, <2>1, <2>2 DEF WriteMessage, TypeOK, client
<1>5. ASSUME NEW kind \in Kinds, Send(kind) PROVE TypeOK'
  <2> DEFINE line == [kind |-> kind, tree |-> tree]
  <2>1. /\ sent' = Append(sent, line) /\ stdin' = Append(stdin, Len(sent) + 1) /\ tree' = tree
        /\ Len(sent) < MaxLines /\ Len(stdin) < Capacity
    BY <1>5 DEF Send
  <2>2. line \in [kind : Kinds, tree : 1 .. tree] /\ sent \in Seq([kind : Kinds, tree : 1 .. tree])
    BY <1>0 DEF TypeOK
  <2>3. sent' \in Seq([kind : Kinds, tree : 1 .. tree]) /\ Len(sent') = Len(sent) + 1
    BY <2>1, <2>2
  <2>4. Responses \subseteq Responses'
    BY <1>0, <2>1, <2>3, ResponsesGrow
  <2>5. stdin \in Seq(1 .. Len(sent'))
    <3>1. 1 .. Len(sent) \subseteq 1 .. Len(sent')
      BY <1>0, <2>3
    <3> QED BY <3>1, SeqMonotonic DEF TypeOK
  <2>6. stdin' \in Seq(1 .. Len(sent')) /\ Len(stdin') <= Capacity
    BY <1>0, <2>1, <2>3, <2>5, BoundsAssumption
  <2>7. resp \in Responses' /\ stdout \in Seq(Responses') /\ received \in Seq(Responses')
    BY <2>4, SeqMonotonic DEF TypeOK
  <2>8. Len(sent') <= MaxLines /\ req \in 0 .. Len(sent')
    BY <1>0, <2>1, <2>3, BoundsAssumption DEF TypeOK
  <2> QED BY <1>5, <2>1, <2>3, <2>6, <2>7, <2>8 DEF Send, TypeOK
<1>6. CASE Receive
  <2>1. Responses' = Responses
    BY <1>6 DEF Receive, Responses
  <2>2. stdout' \in Seq(Responses) /\ Len(stdout') <= Capacity /\ received' \in Seq(Responses)
    BY <1>0, <1>6, BoundsAssumption DEF Receive, TypeOK
  <2> QED BY <1>6, <2>1, <2>2 DEF Receive, TypeOK
<1>7. CASE Close \/ Die
  <2>1. Responses' = Responses
    BY <1>7 DEF Close, Die, Responses
  <2> QED BY <1>7, <2>1 DEF Close, Die, TypeOK
<1>8. CASE Edit
  <2>1. tree' = tree + 1 /\ tree' \in 1 .. MaxEdits + 1 /\ sent' = sent
    BY <1>0, <1>8, BoundsAssumption DEF Edit, TypeOK, client
  <2>2. Responses \subseteq Responses'
    BY <1>0, <2>1, ResponsesGrow
  <2>3. [kind : Kinds, tree : 1 .. tree] \subseteq [kind : Kinds, tree : 1 .. tree']
    BY <1>0, <2>1
  <2>4. sent' \in Seq([kind : Kinds, tree : 1 .. tree'])
    <3> DEFINE Old == [kind : Kinds, tree : 1 .. tree]
               New == [kind : Kinds, tree : 1 .. tree']
    <3>1. sent \in Seq(Old) /\ Old \subseteq New
      BY <2>3 DEF TypeOK
    <3>2. sent \in Seq(New)
      <4> HIDE DEF Old, New
      <4> QED BY <3>1, SeqMonotonic
    <3> QED BY <2>1, <3>2
  <2>5. resp \in Responses' /\ stdout \in Seq(Responses') /\ received \in Seq(Responses')
    BY <2>2, SeqMonotonic DEF TypeOK
  <2> QED BY <1>8, <2>1, <2>4, <2>5 DEF Edit, TypeOK, client
<1>9. CASE UNCHANGED vars
  <2>1. Responses' = Responses
    BY <1>9 DEF vars, Responses
  <2> QED BY <1>9, <2>1 DEF vars, TypeOK
<1> QED
  BY <1>1, <1>2, <1>3, <1>4, <1>5, <1>6, <1>7, <1>8, <1>9 DEF Next, ServerStep

\* What was sent stays as it was sent.
LEMMA SentStep ==
  ASSUME TypeOK, [Next]_vars
  PROVE  /\ Len(sent') >= Len(sent)
         /\ \A n \in 1 .. Len(sent) : sent'[n] = sent[n]
<1>1. ASSUME NEW kind \in Kinds, Send(kind)
      PROVE  Len(sent') >= Len(sent) /\ \A n \in 1 .. Len(sent) : sent'[n] = sent[n]
  BY <1>1 DEF Send, TypeOK
<1>2. CASE sent' = sent
  BY <1>2 DEF TypeOK
<1> QED
  BY <1>1, <1>2 DEF Next, ServerStep, vars, client, Skip, Accept, TooLong, Scan, EndOfInput, Handle,
     BuildIndex, WriteMessage, WriteFails, Receive, Close, Die, Edit

\* The answers grow by those that the server writes; that the client reads one
\* changes nothing.
LEMMA AnsweredStep ==
  ASSUME TypeOK, [Next]_vars
  PROVE  \/ Answered' = Answered /\ ~(pc = "write" /\ pc' = "scan")
         \/ WriteMessage /\ Answered' = Append(Answered, resp)
<1>0. stdout \in Seq(Responses) /\ received \in Seq(Responses) /\ resp \in Responses
  BY DEF TypeOK
<1>1. CASE WriteMessage
  <2>1. stdout' = Append(stdout, resp) /\ received' = received
    BY <1>1 DEF WriteMessage, client
  <2> QED BY <1>0, <1>1, <2>1, AppendLast DEF Answered
<1>2. CASE Receive
  <2>1. stdout # <<>> /\ received' = Append(received, Head(stdout)) /\ stdout' = Tail(stdout)
        /\ pc' = pc
    BY <1>2 DEF Receive
  <2>2. Append(received, Head(stdout)) \o Tail(stdout) = received \o stdout
    BY <1>0, <2>1, MoveHead
  <2> QED BY <2>1, <2>2 DEF Answered
<1>3. CASE ~WriteMessage /\ ~Receive
  <2>1. stdout' = stdout /\ received' = received /\ ~(pc = "write" /\ pc' = "scan")
    BY <1>3 DEF Next, ServerStep, vars, client, Skip, Accept, TooLong, Scan, EndOfInput, Handle,
       BuildIndex, WriteFails, Send, Close, Die, Edit
  <2> QED BY <2>1 DEF Answered
<1> QED BY <1>1, <1>2, <1>3

\* How the server goes on: it takes the next line only when it has written its
\* answer to the last, or needs none.
LEMMA ServerFacts ==
  ASSUME [Next]_vars
  PROVE  \/ Scan /\ pc = "scan" /\ pc' \in {"scan", "handle", "exited"}
            /\ (pc' = "handle" => IsRequest(Head(stdin)))
            /\ (pc' = "scan" => sent[Head(stdin)].kind \in SilentKinds)
            /\ (pc' = "exited" => ~IsRequest(Head(stdin)))
         \/ req' = req /\ (Busy' => Busy) /\ (pc' = "scan" => pc \in {"scan", "write"})
<1>1. "oversized" \notin RequestKinds
  BY DEF RequestKinds
<1> QED
  BY <1>1 DEF Next, ServerStep, vars, client, Skip, Accept, TooLong, Scan, EndOfInput, Handle,
     BuildIndex, WriteMessage, WriteFails, Send, Receive, Close, Die, Edit, IsRequest, Busy

\* Lines are put behind the others and taken from the front.
LEMMA PipeStep == TypeOK /\ PipeFollows /\ [Next]_vars => PipeFollows'
<1> SUFFICES ASSUME TypeOK, PipeFollows, [Next]_vars PROVE PipeFollows'
  OBVIOUS
<1>1. CASE Scan
  BY <1>1, ScanFacts
<1>2. ASSUME NEW kind \in Kinds, Send(kind) PROVE PipeFollows'
  <2>1. /\ req' = req /\ stdin' = Append(stdin, Len(sent) + 1)
        /\ stdin \in Seq(1 .. Len(sent)) /\ Len(sent) \in Nat /\ req \in Nat
        /\ Len(sent') = Len(sent) + 1
    BY <1>2 DEF Send, TypeOK
  <2>2. Len(stdin') = Len(stdin) + 1 /\ DOMAIN stdin' = 1 .. Len(stdin) + 1
        /\ DOMAIN stdin = 1 .. Len(stdin) /\ Len(stdin) \in Nat
    BY <2>1
  <2>3. Len(sent) = req + Len(stdin) /\ \A k \in 1 .. Len(stdin) : stdin[k] = req + k
    BY <2>2 DEF PipeFollows
  <2>4. \A k \in DOMAIN stdin' : stdin'[k] = IF k = Len(stdin) + 1 THEN Len(sent) + 1 ELSE stdin[k]
    BY <2>1, <2>2
  <2>5. \A k \in DOMAIN stdin' : stdin'[k] = req' + k
    BY <2>1, <2>2, <2>3, <2>4
  <2>6. Len(sent') = req' + Len(stdin')
    BY <2>1, <2>2, <2>3
  <2> QED BY <2>5, <2>6 DEF PipeFollows
<1>3. CASE UNCHANGED <<req, stdin, sent>>
  BY <1>3 DEF PipeFollows
<1> QED
  BY <1>1, <1>2, <1>3 DEF Next, ServerStep, vars, client, Skip, Accept, TooLong, EndOfInput, Handle,
     BuildIndex, WriteMessage, WriteFails, Receive, Close, Die, Edit

\* Requests remain requests.
LEMMA RequestsStay ==
  ASSUME TypeOK, [Next]_vars, NEW n \in 1 .. Len(sent)
  PROVE  IsRequest(n)' <=> IsRequest(n)
BY SentStep DEF IsRequest

\* The server takes requests in hand and answers those.
LEMMA HandStep == TypeOK /\ PipeFollows /\ InHand /\ [Next]_vars => InHand'
<1> SUFFICES ASSUME TypeOK, PipeFollows, InHand, [Next]_vars PROVE InHand'
  OBVIOUS
<1>0. /\ req \in 0 .. Len(sent) /\ Len(sent) \in Nat /\ tree \in Nat
      /\ sent \in Seq([kind : Kinds, tree : 1 .. tree])
  BY DEF TypeOK
<1>1. CASE Scan /\ pc' \in {"scan", "handle", "exited"}
            /\ (pc' = "handle" => IsRequest(Head(stdin)))
  <2>1. req' # 0 /\ (pc' = "handle" => IsRequest(req)')
    BY <1>0, <1>1, ScanFacts DEF IsRequest
  <2> QED BY <1>1, <2>1 DEF InHand, Busy
<1>2. CASE Handle
  <2>1. Busy /\ req # 0 /\ sent[req].kind \in RequestKinds /\ req' = req /\ sent' = sent
    BY <1>2 DEF Handle, Busy, InHand, IsRequest, client
  <2>2. pc' = "write" =>
          \E a \in AnswersTo(sent[req].kind) : resp' = Answer(a, 0) /\ a # "text"
    BY <1>2, <2>1, AnswersFacts DEF Handle
  <2>3. pc' = "write" => /\ resp'.id = req
                         /\ resp'.answer \in AnswersTo(sent[req].kind) /\ resp'.answer # "text"
    BY <2>2 DEF Answer
  <2>4. pc' = "build" => sent[req].kind = "call"
    BY <1>2 DEF Handle
  <2> QED BY <2>1, <2>3, <2>4 DEF InHand, IsRequest
<1>3. CASE BuildIndex
  <2>1. /\ Busy /\ req # 0 /\ sent[req].kind = "call" /\ req' = req /\ sent' = sent /\ pc' = "write"
    BY <1>3 DEF BuildIndex, Busy, InHand, client
  <2>2. sent[req].tree <= tree
    <3> DEFINE Lines == [kind : Kinds, tree : 1 .. tree]
    <3>2. sent \in Seq(Lines) /\ req \in 1 .. Len(sent)
      BY <1>0, <2>1
    <3>1. sent[req] \in Lines
      <4> HIDE DEF Lines
      <4> QED BY <3>2
    <3> QED BY <1>0, <3>1
  <2>3. \/ resp'.id = req /\ resp'.answer = "text" /\ resp'.tree = tree
        \/ resp'.id = req /\ resp'.answer = "tool error"
    <3>1. CASE resp' = Answer("text", tree)
      BY <3>1 DEF Answer
    <3>2. CASE resp' = Answer("tool error", 0)
      BY <3>2 DEF Answer
    <3> QED BY <1>3, <3>1, <3>2 DEF BuildIndex
  <2>4. AnswersTo(sent[req].kind) = {"text", "tool error"}
    BY <2>1 DEF AnswersTo
  <2>5. "call" \in RequestKinds
    BY DEF RequestKinds
  <2> QED BY <2>1, <2>2, <2>3, <2>4, <2>5 DEF InHand, IsRequest
<1>4. CASE resp' = resp /\ req' = req /\ (pc' = pc \/ pc' = "scan" \/ pc' = "exited")
  <2>1. Busy' => Busy
    BY <1>4 DEF Busy
  <2>2. req # 0 => sent'[req] = sent[req]
    BY <1>0, SentStep
  <2> QED BY <1>4, <2>1, <2>2 DEF InHand, IsRequest, Busy
<1>5. CASE Skip \/ Accept \/ TooLong
  BY <1>1, <1>5 DEF Skip, Accept, TooLong, IsRequest
<1>6. CASE \/ EndOfInput \/ WriteMessage \/ WriteFails \/ Receive \/ Close \/ Die \/ Edit
           \/ UNCHANGED vars \/ \E kind \in Kinds : Send(kind)
  BY <1>4, <1>6 DEF EndOfInput, WriteMessage, WriteFails, Receive, Close, Die, Edit, vars, Send
<1> QED BY <1>2, <1>3, <1>5, <1>6 DEF Next, ServerStep

\* What is written is the answer to the line in hand, which is after all others
\* that were answered.
LEMMA RisingStep ==
  TypeOK /\ PipeFollows /\ InHand /\ Rising /\ [Next]_vars => Rising'
<1> SUFFICES ASSUME TypeOK, PipeFollows, InHand, Rising, [Next]_vars PROVE Rising'
  OBVIOUS
<1>0. /\ req \in 0 .. Len(sent) /\ Len(sent) \in Nat /\ Answered \in Seq(Responses)
      /\ resp \in Responses
  BY AnsweredType DEF TypeOK
<1>1. req' \in Nat /\ req' >= req /\ (Busy' => req' > req \/ Busy)
  BY <1>0, ServerFacts, ScanFacts
<1>2. \A id \in 1 .. req : IsRequest(id) =>
        id \in 1 .. req' /\ IsRequest(id)' /\ sent'[id] = sent[id]
  <2> TAKE id \in 1 .. req
  <2>1. id \in 1 .. Len(sent) /\ id \in 1 .. req'
    BY <1>0, <1>1
  <2> QED BY <2>1, SentStep, RequestsStay
<1>3. CASE Answered' = Answered
  <2> SUFFICES ASSUME NEW k \in DOMAIN Answered
               PROVE  /\ Answered[k].id \in 1 .. req' /\ IsRequest(Answered[k].id)'
                      /\ Busy' => Answered[k].id < req'
                      /\ Answered[k].answer \in AnswersTo(sent'[Answered[k].id].kind)
                      /\ \A j \in 1 .. k - 1 : Answered[j].id < Answered[k].id
    BY <1>3 DEF Rising, IsRequest
  <2>1. /\ Answered[k].id \in 1 .. req /\ IsRequest(Answered[k].id)
        /\ Busy => Answered[k].id < req
        /\ Answered[k].answer \in AnswersTo(sent[Answered[k].id].kind)
        /\ \A j \in 1 .. k - 1 : Answered[j].id < Answered[k].id
    BY DEF Rising
  <2>2. Busy' => Answered[k].id < req'
    BY <1>0, <1>1, <2>1
  <2>3. /\ Answered[k].id \in 1 .. req' /\ IsRequest(Answered[k].id)'
        /\ sent'[Answered[k].id] = sent[Answered[k].id]
    BY <1>2, <1>3, <2>1 DEF IsRequest
  <2> QED BY <2>1, <2>2, <2>3
<1>4. CASE WriteMessage /\ Answered' = Append(Answered, resp)
  <2>1. /\ req' = req /\ sent' = sent /\ ~Busy' /\ Busy /\ req # 0 /\ IsRequest(req)
        /\ resp.id = req /\ resp.answer \in AnswersTo(sent[req].kind)
    BY <1>4 DEF WriteMessage, Busy, InHand, client
  <2>2. /\ DOMAIN Answered' = 1 .. Len(Answered) + 1 /\ Len(Answered) \in Nat
        /\ DOMAIN Answered = 1 .. Len(Answered)
        /\ \A k \in DOMAIN Answered : Answered'[k] = Answered[k]
        /\ Answered'[Len(Answered) + 1] = resp
    BY <1>0, <1>4
  <2>3. \A k \in 1 .. Len(Answered) :
          /\ Answered[k].id \in 1 .. req /\ IsRequest(Answered[k].id) /\ Answered[k].id < req
          /\ Answered[k].answer \in AnswersTo(sent[Answered[k].id].kind)
          /\ \A j \in 1 .. k - 1 : Answered[j].id < Answered[k].id
    BY <2>1, <2>2 DEF Rising
  <2> SUFFICES ASSUME NEW k \in 1 .. Len(Answered) + 1
               PROVE  /\ Answered'[k].id \in 1 .. req /\ IsRequest(Answered'[k].id)
                      /\ Answered'[k].answer \in AnswersTo(sent[Answered'[k].id].kind)
                      /\ \A j \in 1 .. k - 1 : Answered'[j].id < Answered'[k].id
    BY <2>1, <2>2 DEF Rising, IsRequest
  <2>4. CASE k \in 1 .. Len(Answered)
    <3>1. \A j \in 1 .. k - 1 : j \in DOMAIN Answered
      BY <2>2, <2>4
    <3> QED BY <2>2, <2>3, <2>4, <3>1
  <2>5. CASE k = Len(Answered) + 1
    <3>1. \A j \in 1 .. k - 1 : j \in 1 .. Len(Answered)
      BY <2>2, <2>5
    <3>2. req \in 1 .. req
      BY <1>0, <2>1
    <3> QED BY <2>1, <2>2, <2>3, <2>5, <3>1, <3>2
  <2> QED BY <2>2, <2>4, <2>5
<1> QED BY <1>3, <1>4, AnsweredStep

\* Whatever was answered stays answered.
LEMMA AnsweredStays ==
  ASSUME TypeOK, [Next]_vars, NEW k \in DOMAIN Answered
  PROVE  k \in DOMAIN Answered' /\ Answered'[k] = Answered[k]
<1>1. Answered \in Seq(Responses) /\ resp \in Responses
  BY AnsweredType DEF TypeOK
<1>2. k \in DOMAIN Append(Answered, resp) /\ Append(Answered, resp)[k] = Answered[k]
  BY <1>1
<1> QED BY <1>2, AnsweredStep

\* The server takes a line only when it is done with the last, and it is done with
\* a request when it has written its answer.
LEMMA NoneStep ==
  TypeOK /\ PipeFollows /\ InHand /\ NonePassedOver /\ [Next]_vars => NonePassedOver'
<1> SUFFICES ASSUME TypeOK, PipeFollows, InHand, NonePassedOver, [Next]_vars,
                    NEW n \in 1 .. req', IsRequest(n)', n = req' => pc' = "scan"
             PROVE  \E k \in DOMAIN Answered' : Answered'[k].id = n
  BY DEF NonePassedOver
<1>0. /\ req \in 0 .. Len(sent) /\ Len(sent) \in Nat /\ Answered \in Seq(Responses)
      /\ resp \in Responses
  BY AnsweredType DEF TypeOK
<1>1. CASE \E k \in DOMAIN Answered : Answered[k].id = n
  BY <1>1, AnsweredStays
<1>2. CASE Scan /\ pc = "scan" /\ pc' \in {"scan", "handle", "exited"}
            /\ (pc' = "scan" => sent[Head(stdin)].kind \in SilentKinds)
  <2>1. req' = req + 1 /\ Head(stdin) = req' /\ sent' = sent
    BY <1>2, ScanFacts
  <2>2. n # req'
    BY <1>2, <2>1 DEF IsRequest, SilentKinds, RequestKinds
  <2>3. n \in 1 .. req /\ IsRequest(n)
    BY <1>0, <2>1, <2>2 DEF IsRequest
  <2> QED BY <1>1, <1>2, <2>3 DEF NonePassedOver
<1>3. CASE req' = req /\ (pc' = "scan" => pc \in {"scan", "write"})
  <2>1. n \in 1 .. req /\ IsRequest(n)
    BY <1>0, <1>3, RequestsStay
  <2>2. CASE n # req \/ pc = "scan"
    BY <1>1, <2>1, <2>2 DEF NonePassedOver
  <2>3. CASE n = req /\ pc = "write" /\ pc' = "scan"
    <3>1. Answered' = Append(Answered, resp) /\ resp.id = n
      BY <2>3, AnsweredStep DEF InHand
    <3>2. Len(Answered) + 1 \in DOMAIN Answered' /\ Answered'[Len(Answered) + 1] = resp
      BY <1>0, <3>1
    <3> QED BY <3>1, <3>2
  <2> QED BY <1>3, <2>2, <2>3
<1> QED BY <1>2, <1>3, ServerFacts

\* Only the answer in hand is new, and what the tree was when its request was
\* sent does not change.
LEMMA StaleStep ==
  TypeOK /\ InHand /\ Rising /\ NeverStale /\ [Next]_vars => NeverStale'
<1> SUFFICES ASSUME TypeOK, InHand, Rising, NeverStale, [Next]_vars,
                    NEW k \in DOMAIN Answered', Answered'[k].answer = "text"
             PROVE  Answered'[k].tree >= sent'[Answered'[k].id].tree
  BY DEF NeverStale
<1>0. /\ req \in 0 .. Len(sent) /\ Len(sent) \in Nat /\ Answered \in Seq(Responses)
      /\ resp \in Responses
  BY AnsweredType DEF TypeOK
<1>1. CASE k \in DOMAIN Answered
  <2>1. Answered'[k] = Answered[k]
    BY <1>1, AnsweredStays
  <2>2. Answered[k].id \in 1 .. Len(sent)
    <3>1. Answered[k].id \in 1 .. req
      BY <1>1 DEF Rising
    <3> QED BY <1>0, <3>1
  <2> QED BY <1>1, <2>1, <2>2, SentStep DEF NeverStale
<1>2. CASE k \notin DOMAIN Answered
  <2>1. WriteMessage /\ Answered' = Append(Answered, resp)
    BY <1>2, AnsweredStep
  <2>2. Answered'[k] = resp
    BY <1>0, <1>2, <2>1
  <2> QED BY <2>1, <2>2 DEF WriteMessage, InHand, client
<1> QED BY <1>1, <1>2
-----------------------------------------------------------------------------
LEMMA Invariance == Spec => []IInv
<1>1. IInv /\ [Next]_vars => IInv'
  BY TypeStep, PipeStep, HandStep, RisingStep, NoneStep, StaleStep DEF IInv
<1> QED BY <1>1, InitIInv, PTL DEF Spec

\* The server, its pipes and its client are always in a state of the declared types.
THEOREM TypeCorrect == Spec => []TypeOK
<1>1. IInv => TypeOK
  BY DEF IInv
<1> QED BY <1>1, Invariance, PTL

\* However the lines, the edits, the reads and the end of the input interleave,
\* every request taken is answered once, in order, with an answer to it.
THEOREM InOrder == Spec => []AnsweredInOrder
<1>1. IInv => AnsweredInOrder
  <2> SUFFICES ASSUME IInv PROVE AnsweredInOrder
    OBVIOUS
  <2>0. /\ req \in Nat /\ Len(sent) \in Nat /\ req <= Len(sent) /\ DOMAIN sent = 1 .. Len(sent)
        /\ DOMAIN Answered = 1 .. Len(Answered) /\ Len(Answered) \in Nat
    BY AnsweredType DEF IInv, TypeOK
  <2>1. ASSUME NEW k \in DOMAIN Answered
        PROVE  LET n == Answered[k].id
               IN  /\ n \in DOMAIN sent /\ IsRequest(n)
                   /\ Answered[k].answer \in AnswersTo(sent[n].kind)
                   /\ \A j \in 1 .. k - 1 : Answered[j].id < n
                   /\ \A m \in 1 .. n - 1 :
                        IsRequest(m) => \E j \in 1 .. k - 1 : Answered[j].id = m
    <3> DEFINE n == Answered[k].id
    <3>1. n \in 1 .. req /\ IsRequest(n) /\ Answered[k].answer \in AnswersTo(sent[n].kind)
          /\ \A j \in 1 .. k - 1 : Answered[j].id < n
      BY DEF IInv, Rising
    <3>2. ASSUME NEW m \in 1 .. n - 1, IsRequest(m)
          PROVE  \E j \in 1 .. k - 1 : Answered[j].id = m
      <4>1. m \in 1 .. req /\ m # req /\ m < n
        BY <2>0, <3>1
      <4>2. PICK j \in DOMAIN Answered : Answered[j].id = m
        BY <3>2, <4>1 DEF IInv, NonePassedOver
      <4>3. j > k => n < m
        <5>1. j > k => k \in 1 .. j - 1
          BY <2>0
        <5> QED BY <4>2, <5>1 DEF IInv, Rising
      <4>4. j # k /\ j \in Nat /\ k \in Nat
        BY <2>0, <4>1, <4>2
      <4>5. j \in 1 .. k - 1
        <5>1. n \in Nat /\ m \in Nat
          BY <2>0, <3>1, <4>1
        <5> QED BY <2>0, <4>1, <4>3, <4>4, <5>1
      <4> QED BY <4>2, <4>5
    <3> QED BY <2>0, <3>1, <3>2
  <2>2. ASSUME pc = "scan", NEW n \in DOMAIN sent, IsRequest(n)
        PROVE  \/ \E k \in DOMAIN Answered : Answered[k].id = n
               \/ \E k \in DOMAIN stdin : stdin[k] = n
    <3>1. CASE n <= req
      <4>1. n \in 1 .. req
        BY <2>0, <3>1
      <4> QED BY <2>2, <4>1 DEF IInv, NonePassedOver
    <3>2. CASE n > req
      <4>1. /\ Len(sent) = req + Len(stdin) /\ Len(stdin) \in Nat
            /\ DOMAIN stdin = 1 .. Len(stdin)
        BY DEF IInv, PipeFollows, TypeOK
      <4>2. n - req \in DOMAIN stdin
        BY <2>0, <3>2, <4>1
      <4>3. stdin[n - req] = n
        BY <2>0, <4>2 DEF IInv, PipeFollows
      <4> QED BY <4>2, <4>3
    <3> QED BY <2>0, <3>1, <3>2
  <2> QED BY <2>1, <2>2 DEF AnsweredInOrder
<1> QED BY <1>1, Invariance, PTL

\* No answer describes the repository as it was before the question.
THEOREM UpToDate == Spec => []NeverStale
<1>1. IInv => NeverStale
  BY DEF IInv
<1> QED BY <1>1, Invariance, PTL
=============================================================================
