------------------------- MODULE DecoupledModelProofs -------------------------
(***************************************************************************)
(* Theorems about DecoupledModel, for every size of a batch and every      *)
(* bound on its requests' tokens.                                          *)
(***************************************************************************)
EXTENDS DecoupledModel, FiniteSetTheorems, TLAPS

Answer == [kind : {"token", "empty", "error"}, n : 0..MaxTokens, final : BOOLEAN]

Numbered(stream) == \A i \in DOMAIN stream : stream[i].kind = "token" => stream[i].n = i

\* What has been sent for the current request, and what its generator is at:
\* the lookahead makes it one token ahead of the one to send.
CurrentInv ==
    cur \in Request =>
        /\ pc \in {"admit", "validate", "first"} => out[cur] = <<>> /\ after[cur] = 0
        /\ pc \in {"validate", "first"} => made = 0
        /\ pc \in {"check", "lookahead", "last"} => made = Len(out[cur]) + 1
        /\ pc = "send" => made = Len(out[cur]) + 2
        /\ pc \in {"lookahead", "send", "last"} => after[cur] = 0

\* The requests behind the current one have nothing yet; those before it are
\* complete, or cannot be completed.
BatchInv ==
    /\ cur = Batch + 1 => pc = "admit"
    /\ \A r \in Request : r > cur => out[r] = <<>> /\ after[r] = 0
    /\ EveryRequestCompleted

\* Only what is sent after a cancellation is counted.
CancelInv == \A r \in Request : after[r] <= 1 /\ (r \notin cancelled => after[r] = 0)

Inv == TypeOK /\ CurrentInv /\ BatchInv /\ CancelInv /\ TokensWithoutGap

----------------------------------------------------------------------------

LEMMA InitInv == Init => Inv
  BY BatchAssumption
  DEF Init, Inv, TypeOK, CurrentInv, BatchInv, CancelInv, TokensWithoutGap,
      EveryRequestCompleted, Request

\* A client that cancels changes nothing that has been sent.
LEMMA CancelKeepsInv == Inv /\ (\E r \in Request : Cancel(r)) => Inv'
  BY BatchAssumption
  DEF Cancel, Inv, TypeOK, CurrentInv, BatchInv, CancelInv, TokensWithoutGap,
      EveryRequestCompleted, Request

\* One more response at the end of a numbered stream.
LEMMA AppendNumbered ==
  ASSUME NEW stream \in Seq(Answer), NEW answer \in Answer, Numbered(stream),
         answer.kind = "token" => answer.n = Len(stream) + 1
  PROVE  /\ Append(stream, answer) \in Seq(Answer)
         /\ Append(stream, answer) # <<>>
         /\ Len(Append(stream, answer)) = Len(stream) + 1
         /\ Append(stream, answer)[Len(Append(stream, answer))] = answer
         /\ Numbered(Append(stream, answer))
  BY DEF Numbered

\* Steps that send nothing.
LEMMA AdmitKeepsInv == Inv /\ Admit => Inv'
<1> SUFFICES ASSUME Inv, Admit PROVE Inv'
    OBVIOUS
<1> USE BatchAssumption DEF Request
<1>1. TypeOK'
    <2>1. /\ cur' \in 1..(Batch + 1) /\ made' \in 0..MaxTokens
          /\ pc' \in {"final", "validate", "admit"}
        BY DEF Inv, TypeOK, Admit, Goto, NextRequest
    <2>2. broken' \in SUBSET Request /\ UNCHANGED <<out, cancelled, after>>
        BY DEF Inv, TypeOK, Admit
    <2> QED BY <2>1, <2>2 DEF Inv, TypeOK
<1>2. CASE made' = 0 /\ Goto(IF cur \in cancelled THEN "final" ELSE "validate") /\ UNCHANGED broken
    <2>1. UNCHANGED <<cur, out, after, cancelled, broken>> /\ pc' \in {"final", "validate"}
        BY <1>2 DEF Goto, Admit
    <2>2. CurrentInv'
        BY <1>2, <2>1 DEF Inv, CurrentInv, Admit
    <2>3. BatchInv'
        BY <2>1 DEF Inv, TypeOK, BatchInv, EveryRequestCompleted, Admit
    <2>4. CancelInv' /\ TokensWithoutGap'
        BY <2>1 DEF Inv, CancelInv, TokensWithoutGap
    <2> QED BY <1>1, <2>2, <2>3, <2>4 DEF Inv
<1>3. CASE broken' = broken \cup {cur} /\ NextRequest
    <2>1. cur' = cur + 1 /\ pc' = "admit" /\ UNCHANGED <<out, after, cancelled>> /\ cur \in Nat
        BY <1>3 DEF NextRequest, Admit
    <2>2. CurrentInv'
        BY <2>1, <1>1 DEF Inv, TypeOK, BatchInv, CurrentInv
    <2>3. BatchInv'
        BY <2>1, <1>1, <1>3 DEF Inv, TypeOK, BatchInv, EveryRequestCompleted
    <2>4. CancelInv' /\ TokensWithoutGap'
        BY <2>1 DEF Inv, CancelInv, TokensWithoutGap
    <2> QED BY <1>1, <2>2, <2>3, <2>4 DEF Inv
<1> QED BY <1>2, <1>3 DEF Admit

LEMMA QuietStepKeepsInv ==
  Inv /\ (Validate \/ FirstToken \/ Check \/ Lookahead) => Inv'
<1> SUFFICES ASSUME Inv, Validate \/ FirstToken \/ Check \/ Lookahead PROVE Inv'
    OBVIOUS
<1> USE BatchAssumption DEF Request, Goto, Pull
<1>1. UNCHANGED <<cur, out, after, cancelled, broken>> /\ pc # "admit" /\ cur \in Request
    BY DEF Validate, FirstToken, Check, Lookahead, Inv, TypeOK, BatchInv
<1>2. made' \in 0..MaxTokens /\ made' \in {made, made + 1}
    BY DEF Validate, FirstToken, Check, Lookahead, Inv, TypeOK
<1>3. TypeOK'
    <2>1. pc' \in {"first", "except", "check", "final", "lookahead", "send", "last"}
        BY DEF Validate, FirstToken, Check, Lookahead
    <2> QED BY <1>1, <1>2, <2>1 DEF Inv, TypeOK
<1>4. CurrentInv'
    <2>1. CASE Validate
        BY <2>1, <1>1 DEF Validate, Inv, CurrentInv, TypeOK
    <2>2. CASE FirstToken
        BY <2>2, <1>1 DEF FirstToken, Inv, CurrentInv, TypeOK
    <2>3. CASE Check
        BY <2>3, <1>1 DEF Check, Inv, CurrentInv, CancelInv, TypeOK
    <2>4. CASE Lookahead
        BY <2>4, <1>1 DEF Lookahead, Inv, CurrentInv, TypeOK
    <2> QED BY <2>1, <2>2, <2>3, <2>4
<1>5. BatchInv'
    BY <1>1 DEF Inv, BatchInv, EveryRequestCompleted
<1>6. CancelInv' /\ TokensWithoutGap'
    BY <1>1 DEF Inv, CancelInv, TokensWithoutGap
<1> QED BY <1>3, <1>4, <1>5, <1>6 DEF Inv

\* Steps that send a response to the current request, or fail to.
LEMMA DeliverKeepsInv ==
  ASSUME Inv, cur \in Request, NEW response \in Answer,
         response.kind = "token" => response.n = Len(out[cur]) + 1 /\ after[cur] = 0,
         out' = [out EXCEPT ![cur] = Append(@, response)],
         after' = IF cur \in cancelled /\ response.kind = "token"
                  THEN [after EXCEPT ![cur] = @ + 1] ELSE after,
         UNCHANGED <<made, cancelled, broken>>,
         \/ NextRequest /\ response.final
         \/ Goto("check") /\ made = Len(out[cur]) + 2
  PROVE  Inv'
<1> USE BatchAssumption
<1>1. /\ out'[cur] \in Seq(Answer) /\ out'[cur] # <<>> /\ Len(out'[cur]) = Len(out[cur]) + 1
      /\ out'[cur][Len(out'[cur])] = response
      /\ Numbered(out'[cur])
    BY AppendNumbered DEF Inv, TypeOK, TokensWithoutGap, Numbered, Answer
<1>2. out' \in [Request -> Seq(Answer)] /\ \A r \in Request \ {cur} : out'[r] = out[r]
    BY <1>1 DEF Inv, TypeOK, Answer
<1>3. /\ after' \in [Request -> Nat] /\ \A r \in Request \ {cur} : after'[r] = after[r]
      /\ after'[cur] <= 1 /\ (cur \notin cancelled => after'[cur] = 0)
    BY DEF Inv, TypeOK, CancelInv
<1>4. cur \in Nat /\ (cur' = cur \/ cur' = cur + 1) /\ cur' \in 1..(Batch + 1)
    BY DEF NextRequest, Goto, Request
<1>5. TypeOK'
    BY <1>2, <1>3, <1>4 DEF Inv, TypeOK, NextRequest, Goto, Answer
<1>6. CurrentInv'
    <2>1. CASE NextRequest
        <3>1. cur' = cur + 1 /\ pc' = "admit"
            BY <2>1 DEF NextRequest
        <3>2. cur' \in Request => out'[cur'] = <<>> /\ after'[cur'] = 0
            BY <3>1, <1>2, <1>3, <1>4 DEF Inv, BatchInv, Request
        <3> QED BY <3>1, <3>2 DEF CurrentInv
    <2>2. CASE Goto("check") /\ made = Len(out[cur]) + 2
        BY <2>2, <1>1 DEF Goto, CurrentInv, Inv, TypeOK
    <2> QED BY <2>1, <2>2
<1>7. BatchInv'
    <2>1. (cur = Batch + 1 => pc = "admit")'
        BY <1>4 DEF NextRequest, Goto, Request
    <2>2. (\A r \in Request : r > cur => out[r] = <<>> /\ after[r] = 0)'
        BY <1>2, <1>3, <1>4 DEF Inv, BatchInv, Request
    <2>3. EveryRequestCompleted'
        BY <1>1, <1>2, <1>4 DEF Inv, BatchInv, EveryRequestCompleted, NextRequest, Goto, Request
    <2> QED BY <2>1, <2>2, <2>3 DEF BatchInv
<1>8. CancelInv'
    BY <1>3 DEF Inv, CancelInv
<1>9. TokensWithoutGap'
    BY <1>1, <1>2 DEF Inv, TokensWithoutGap, Numbered
<1> QED BY <1>5, <1>6, <1>7, <1>8, <1>9 DEF Inv

LEMMA ExceptKeepsInv ==
  ASSUME Inv, cur \in Request, Goto("except"), UNCHANGED <<made, out, after, cancelled, broken>>
  PROVE  Inv'
<1>1. TypeOK'
    BY DEF Goto, Inv, TypeOK
<1>2. CurrentInv'
    BY DEF Goto, CurrentInv
<1>3. BatchInv'
    BY BatchAssumption DEF Goto, Inv, BatchInv, EveryRequestCompleted, Request
<1>4. CancelInv' /\ TokensWithoutGap'
    BY DEF Inv, CancelInv, TokensWithoutGap
<1> QED BY <1>1, <1>2, <1>3, <1>4 DEF Inv

LEMMA SendKeepsInv ==
  Inv /\ (SendToken \/ SendLastToken \/ SendFinal) => Inv'
<1> SUFFICES ASSUME Inv, SendToken \/ SendLastToken \/ SendFinal PROVE Inv'
    OBVIOUS
<1>1. cur \in Request /\ made \in 0..MaxTokens /\ Len(out[cur]) \in Nat
    <2>1. pc # "admit"
        BY DEF SendToken, SendLastToken, SendFinal
    <2>2. cur \in Request
        BY <2>1, BatchAssumption DEF Inv, TypeOK, BatchInv, Request
    <2> QED BY <2>2 DEF Inv, TypeOK
<1>2. CASE SendToken
    <2>1. /\ Response("token", made - 1, FALSE) \in Answer
          /\ made - 1 = Len(out[cur]) + 1 /\ after[cur] = 0
        BY <1>1, <1>2, BatchAssumption DEF SendToken, Response, Answer, Inv, CurrentInv
    <2>2. made = Len(out[cur]) + 2
        BY <1>1, <1>2 DEF SendToken, Inv, CurrentInv
    <2> QED BY <1>1, <1>2, <2>1, <2>2, DeliverKeepsInv, ExceptKeepsInv DEF SendToken, Send, Response
<1>3. CASE SendLastToken
    <2>1. Response("token", made, TRUE) \in Answer /\ made = Len(out[cur]) + 1 /\ after[cur] = 0
        BY <1>1, <1>3, BatchAssumption DEF SendLastToken, Response, Answer, Inv, CurrentInv
    <2> QED BY <1>1, <1>3, <2>1, DeliverKeepsInv, ExceptKeepsInv DEF SendLastToken, Send, Response
<1>4. CASE SendFinal
    <2>1. Response("empty", 0, TRUE) \in Answer
        BY BatchAssumption DEF Response, Answer
    <2> QED BY <1>1, <1>4, <2>1, DeliverKeepsInv, ExceptKeepsInv DEF SendFinal, Send, Response
<1> QED BY <1>2, <1>3, <1>4

LEMMA SendErrorKeepsInv == Inv /\ SendError => Inv'
<1> SUFFICES ASSUME Inv, SendError PROVE Inv'
    OBVIOUS
<1> USE BatchAssumption
<1>1. cur \in Request /\ NextRequest /\ UNCHANGED <<made, cancelled, after>>
    BY DEF SendError, Inv, TypeOK, BatchInv, Request
<1>2. CASE out' = [out EXCEPT ![cur] = Append(@, Response("error", 0, TRUE))] /\ UNCHANGED broken
    <2>1. Response("error", 0, TRUE) \in Answer
        BY DEF Response, Answer
    <2> QED BY <1>1, <1>2, <2>1, DeliverKeepsInv DEF Response
<1>3. CASE broken' = broken \cup {cur} /\ UNCHANGED out
    <2>1. cur' = cur + 1 /\ pc' = "admit" /\ cur \in Nat /\ cur' \in 1..(Batch + 1)
        BY <1>1 DEF NextRequest, Request
    <2>2. TypeOK'
        BY <1>1, <1>3, <2>1 DEF Inv, TypeOK
    <2>3. CurrentInv'
        BY <1>1, <1>3, <2>1 DEF Inv, BatchInv, CurrentInv, Request
    <2>4. BatchInv'
        BY <1>1, <1>3, <2>1 DEF Inv, BatchInv, EveryRequestCompleted, Request
    <2>5. CancelInv' /\ TokensWithoutGap'
        BY <1>1, <1>3 DEF Inv, CancelInv, TokensWithoutGap
    <2> QED BY <2>2, <2>3, <2>4, <2>5 DEF Inv
<1> QED BY <1>2, <1>3 DEF SendError

\* The invariant is inductive.
LEMMA NextKeepsInv == Inv /\ [Next]_vars => Inv'
<1>1. Inv /\ UNCHANGED vars => Inv'
    BY DEF vars, Inv, TypeOK, CurrentInv, BatchInv, CancelInv, TokensWithoutGap,
           EveryRequestCompleted
<1> QED BY <1>1, AdmitKeepsInv, QuietStepKeepsInv, SendKeepsInv, SendErrorKeepsInv, CancelKeepsInv
        DEF Next, Step, Returned

\* It holds in every reachable state.
THEOREM Invariant == Spec => []Inv
  BY InitInv, NextKeepsInv, PTL DEF Spec

----------------------------------------------------------------------------

\* The types; no generator is asked for more than max_tokens (model.py:136-142).
THEOREM DecoupledTypeCorrect == Spec => []TypeOK
<1>1. Inv => TypeOK
    BY DEF Inv
<1> QED BY <1>1, Invariant, PTL

\* The lookahead loses, repeats or reorders no token of any stream, however many
\* sends fail and clients cancel (model.py:72-89).
THEOREM StreamsNumbered == Spec => []TokensWithoutGap
<1>1. Inv => TokensWithoutGap
    BY DEF Inv
<1> QED BY <1>1, Invariant, PTL

\* One more token at most follows a cancellation (model.py:79-89).
THEOREM CancelStops == Spec => []CancelStopsGeneration
<1>1. Inv => CancelStopsGeneration
    BY DEF Inv, CancelInv, CancelStopsGeneration
<1> QED BY <1>1, Invariant, PTL

\* Every request that execute() has gone past was completed with a FINAL
\* response, unless none could be sent for it (model.py:36-52, 114-128).
THEOREM RequestsCompleted == Spec => []EveryRequestCompleted
<1>1. Inv => EveryRequestCompleted
    BY DEF Inv, BatchInv
<1> QED BY <1>1, Invariant, PTL

----------------------------------------------------------------------------
(* The refinement of ResponseStreams                                        *)

\* No stream is over before execute() leaves its request.
OpenInv == \A r \in Request : r >= cur => Finals(r) = {}

LEMMA StreamTyped ==
  ASSUME Inv, NEW r \in Request
  PROVE  out[r] \in Seq(Answer) /\ DOMAIN out[r] = 1..Len(out[r]) /\ Len(out[r]) \in Nat
<1>1. out \in [Request -> Seq(Answer)]
    BY DEF Inv, TypeOK, Answer
<1>2. out[r] \in Seq(Answer)
    BY <1>1
<1> QED BY <1>2

\* The positions of a stream's tokens are their numbers, which are at most
\* MaxTokens; so are those of what an appended response adds to it.
LEMMA StreamCounts ==
  ASSUME Inv, NEW r \in Request
  PROVE  /\ IsFiniteSet(Tokens(r)) /\ Cardinality(Tokens(r)) \in 0..MaxTokens
         /\ Len(out[r]) + 1 \notin Tokens(r)
<1>1. out[r] \in Seq(Answer) /\ DOMAIN out[r] = 1..Len(out[r]) /\ Len(out[r]) \in Nat
    BY StreamTyped
<1>2. Tokens(r) \subseteq 1..MaxTokens
    <2>1. ASSUME NEW i \in Tokens(r) PROVE i \in 1..MaxTokens
        <3>1. i \in 1..Len(out[r]) /\ out[r][i] \in Answer /\ out[r][i].n = i
            BY <1>1, <2>1 DEF Tokens, Inv, TokensWithoutGap
        <3> QED BY <3>1, BatchAssumption DEF Answer
    <2> QED BY <2>1
<1>3. IsFiniteSet(1..MaxTokens) /\ Cardinality(1..MaxTokens) = MaxTokens
    BY FS_Interval, BatchAssumption
<1>4. /\ IsFiniteSet(Tokens(r)) /\ Cardinality(Tokens(r)) <= MaxTokens
    BY <1>2, <1>3, FS_Subset
<1>5. Cardinality(Tokens(r)) \in Nat
    BY <1>4, FS_CardinalityType
<1>6. Len(out[r]) + 1 \notin Tokens(r)
    BY <1>1 DEF Tokens
<1> QED BY <1>4, <1>5, <1>6, BatchAssumption

LEMMA CountsBounded == Inv => \A r \in Request : Cardinality(Tokens(r)) \in 0..MaxTokens
  BY StreamCounts

LEMMA InitOpen == Init => OpenInv
  BY DEF Init, OpenInv, Finals

\* Steps that send nothing leave every stream as it is.
LEMMA QuietKeepsOpen ==
  ASSUME TypeOK, OpenInv, UNCHANGED out, cur' \in {cur, cur + 1}
  PROVE  OpenInv'
<1>1. \A r \in Request : Finals(r)' = Finals(r)
    BY DEF Finals
<1>2. cur \in Nat /\ \A r \in Request : r \in Nat /\ (r >= cur' => r >= cur)
    BY DEF TypeOK, Request
<1> QED BY <1>1, <1>2 DEF OpenInv

\* A response that is sent, and the abstract step it makes.
LEMMA DeliverResponds ==
  ASSUME Inv, Inv', OpenInv, NEW c \in Request, cur = c, NEW response \in Answer,
         out' = [out EXCEPT ![cur] = Append(@, response)],
         (cur' = cur /\ ~response.final) \/ cur' = cur + 1
  PROVE  OpenInv' /\ Responses!Respond(c)
<1> DEFINE n == Len(out[c]) + 1
<1>1. /\ out[c] \in Seq(Answer) /\ Len(out[c]) \in Nat /\ DOMAIN out[c] = 1..Len(out[c])
      /\ out \in [Request -> Seq(Answer)]
    <2>1. out \in [Request -> Seq(Answer)]
        BY DEF Inv, TypeOK, Answer
    <2> QED BY <2>1, StreamTyped
<1>2. /\ out'[c] = Append(out[c], response) /\ DOMAIN out'[c] = 1..n /\ out'[c][n] = response
      /\ \A i \in 1..Len(out[c]) : out'[c][i] = out[c][i]
      /\ \A r \in Request \ {c} : out'[r] = out[r]
    BY <1>1
<1>3. \A r \in Request \ {c} : Tokens(r)' = Tokens(r) /\ Finals(r)' = Finals(r)
    BY <1>2 DEF Tokens, Finals
<1>4. Tokens(c)' = Tokens(c) \cup (IF response.kind = "token" THEN {n} ELSE {})
    BY <1>1, <1>2 DEF Tokens
<1>5. Finals(c)' = Finals(c) \cup (IF response.final THEN {n} ELSE {}) /\ Finals(c) = {}
    BY <1>1, <1>2 DEF Finals, OpenInv, Request
<1>6. c \in Nat /\ \A r \in Request : r \in Nat /\ (r >= cur' => r >= cur)
    BY DEF Request
<1>7. OpenInv'
    <2>1. ASSUME NEW r \in Request, r >= cur' PROVE Finals(r)' = {}
        <3>1. CASE r = c
            BY <1>5, <1>6, <2>1, <3>1
        <3>2. CASE r # c
            BY <1>3, <1>6, <2>1, <3>2 DEF OpenInv
        <3> QED BY <3>1, <3>2
    <2> QED BY <2>1 DEF OpenInv
<1>8. /\ IsFiniteSet(Tokens(c)) /\ n \notin Tokens(c)
      /\ Cardinality(Tokens(c)) \in 0..MaxTokens /\ Cardinality(Tokens(c)') \in 0..MaxTokens
    <2>1. Cardinality(Tokens(c)') \in 0..MaxTokens
        <3>1. (\A r \in Request : Cardinality(Tokens(r)) \in 0..MaxTokens)'
            BY CountsBounded, PTL
        <3> QED BY <3>1
    <2> QED BY <2>1, StreamCounts
<1>9. Cardinality(Tokens(c)') = Cardinality(Tokens(c)) + (IF response.kind = "token" THEN 1 ELSE 0)
    <2>1. CASE response.kind = "token"
        BY <1>4, <1>8, <2>1, FS_AddElement
    <2>2. CASE response.kind # "token"
        BY <1>4, <1>8, <2>2
    <2> QED BY <2>1, <2>2
<1>10. /\ Cardinality(Finals(c)) = 0
       /\ Cardinality(Finals(c)') = IF response.final THEN 1 ELSE 0
    <2>1. Cardinality({n}) = 1 /\ Cardinality({}) = 0
        BY FS_Singleton, FS_EmptySet
    <2> QED BY <1>5, <2>1
<1> DEFINE sent == [r \in Request |-> Cardinality(Tokens(r))]
           ends == [r \in Request |-> Cardinality(Finals(r))]
<1>11. sent' \in {sent, [sent EXCEPT ![c] = @ + 1]} /\ sent'[c] <= MaxTokens
    <2>1. \A r \in Request \ {c} : sent'[r] = sent[r]
        BY <1>3
    <2>2. sent'[c] \in {sent[c], sent[c] + 1} /\ sent'[c] \in 0..MaxTokens
        BY <1>8, <1>9
    <2>3. sent' = [r \in Request |-> sent'[r]] /\ sent = [r \in Request |-> sent[r]]
        OBVIOUS
    <2> HIDE DEF sent
    <2> QED BY <2>1, <2>2, <2>3, BatchAssumption
<1>12. ends' \in {ends, [ends EXCEPT ![c] = 1]} /\ ends[c] = 0
    <2>1. \A r \in Request \ {c} : ends'[r] = ends[r]
        BY <1>3
    <2>2. ends'[c] \in {0, 1} /\ ends[c] = 0
        BY <1>10
    <2>3. ends' = [r \in Request |-> ends'[r]] /\ ends = [r \in Request |-> ends[r]]
        OBVIOUS
    <2> HIDE DEF ends
    <2> QED BY <2>1, <2>2, <2>3
<1> QED BY <1>7, <1>11, <1>12 DEF Responses!Respond

LEMMA SendsForRequest ==
  ASSUME Inv, SendToken \/ SendLastToken \/ SendFinal \/ SendError
  PROVE  cur \in Request /\ made \in 0..MaxTokens /\ cur \in Nat
<1>1. pc # "admit"
    BY DEF SendToken, SendLastToken, SendFinal, SendError
<1> QED BY <1>1, BatchAssumption DEF Inv, TypeOK, BatchInv, Request

LEMMA SendImplements ==
  ASSUME Inv, Inv', OpenInv, SendToken \/ SendLastToken \/ SendFinal \/ SendError
  PROVE  OpenInv' /\ (Responses!Respond(cur) \/ UNCHANGED out)
<1>1. cur \in Request /\ made \in 0..MaxTokens /\ cur \in Nat
    BY SendsForRequest
<1>2. CASE UNCHANGED out
    <2>1. cur' \in {cur, cur + 1}
        BY DEF SendToken, SendLastToken, SendFinal, SendError, Send, Goto, NextRequest
    <2> QED BY <1>2, <2>1, QuietKeepsOpen DEF Inv
<1>3. ASSUME NEW response \in Answer,
             out' = [out EXCEPT ![cur] = Append(@, response)],
             (cur' = cur /\ ~response.final) \/ cur' = cur + 1
      PROVE  OpenInv' /\ Responses!Respond(cur)
    BY <1>1, <1>3, DeliverResponds
<1>4. CASE SendToken
    <2>1. Response("token", made - 1, FALSE) \in Answer /\ ~Response("token", made - 1, FALSE).final
        BY <1>1, <1>4, BatchAssumption DEF SendToken, Response, Answer, Inv, CurrentInv, TypeOK
    <2> QED BY <1>2, <1>3, <1>4, <2>1 DEF SendToken, Send, Goto
<1>5. CASE SendLastToken
    <2>1. Response("token", made, TRUE) \in Answer
        BY <1>1 DEF Response, Answer
    <2> QED BY <1>2, <1>3, <1>5, <2>1 DEF SendLastToken, Send, NextRequest
<1>6. CASE SendFinal
    <2>1. Response("empty", 0, TRUE) \in Answer
        BY BatchAssumption DEF Response, Answer
    <2> QED BY <1>2, <1>3, <1>6, <2>1 DEF SendFinal, Send, NextRequest
<1>7. CASE SendError
    <2>1. Response("error", 0, TRUE) \in Answer
        BY BatchAssumption DEF Response, Answer
    <2> QED BY <1>2, <1>3, <1>7, <2>1 DEF SendError, NextRequest
<1> QED BY <1>4, <1>5, <1>6, <1>7

\* Every step is one response of the request at hand, or changes no stream.
LEMMA NextImplements ==
  Inv /\ Inv' /\ OpenInv /\ [Next]_vars
  => OpenInv' /\ [Responses!Next]_<<[r \in Request |-> Cardinality(Tokens(r))],
                                    [r \in Request |-> Cardinality(Finals(r))]>>
<1> SUFFICES ASSUME Inv, Inv', OpenInv, [Next]_vars
             PROVE  OpenInv' /\ [Responses!Next]_<<[r \in Request |-> Cardinality(Tokens(r))],
                                                  [r \in Request |-> Cardinality(Finals(r))]>>
    OBVIOUS
<1>1. ASSUME UNCHANGED out
      PROVE  UNCHANGED <<[r \in Request |-> Cardinality(Tokens(r))],
                         [r \in Request |-> Cardinality(Finals(r))]>>
    BY <1>1 DEF Tokens, Finals
<1>2. CASE SendToken \/ SendLastToken \/ SendFinal \/ SendError
    <2>1. OpenInv' /\ (Responses!Respond(cur) \/ UNCHANGED out)
        BY <1>2, SendImplements
    <2>2. cur \in Request
        BY <1>2, SendsForRequest
    <2> QED BY <1>1, <2>1, <2>2 DEF Responses!Next
<1>3. CASE \/ Admit \/ Validate \/ FirstToken \/ Check \/ Lookahead
           \/ (\E r \in Request : Cancel(r)) \/ UNCHANGED vars
    <2>1. UNCHANGED out /\ cur' \in {cur, cur + 1}
        BY <1>3 DEF Admit, Validate, FirstToken, Check, Lookahead, Pull, Goto, NextRequest, Cancel,
                    vars
    <2> QED BY <1>1, <2>1, QuietKeepsOpen DEF Inv
<1> QED BY <1>2, <1>3 DEF Next, Step, Returned

\* What every client is sent is what StreamingClient assumes of its server: at
\* most MaxTokens tokens, and nothing after a FINAL response (model.py:54-128).
THEOREM ModelImplementsResponseStreams == Spec => ImplementsResponseStreams
<1>1. Init => Responses!Init
    <2>1. ASSUME Init, NEW r \in Request PROVE Tokens(r) = {} /\ Finals(r) = {}
        BY <2>1 DEF Init, Tokens, Finals
    <2> QED BY <2>1, FS_EmptySet DEF Responses!Init
<1> QED BY <1>1, InitOpen, NextImplements, Invariant, PTL
        DEF Spec, ImplementsResponseStreams, Responses!Spec

----------------------------------------------------------------------------
(* How long execute() can go on.                                            *)

\* A request takes at most so many steps, and has taken so many.
Budget == 3 * MaxTokens + 5
Spent ==
    CASE pc = "admit" -> 0
      [] pc = "validate" -> 1
      [] pc = "first" -> 2
      [] pc = "check" -> 3 * made + 1
      [] pc = "lookahead" -> 3 * made + 2
      [] pc = "send" -> 3 * made
      [] pc \in {"last", "final"} -> 3 * MaxTokens + 3
      [] pc = "except" -> 3 * MaxTokens + 4

StepsLeft == Budget * (Batch + 1 - cur) - Spent

LEMMA SpentBounded == TypeOK => Spent \in 0..(Budget - 1)
<1> SUFFICES ASSUME TypeOK PROVE Spent \in 0..(Budget - 1)
    OBVIOUS
<1>1. made \in Nat /\ made <= MaxTokens /\ MaxTokens \in Nat
    BY BatchAssumption DEF TypeOK
<1>2. CASE pc \in {"admit", "validate", "first"}
    BY <1>1, <1>2 DEF Spent, Budget
<1>3. CASE pc \in {"check", "lookahead", "send"}
    BY <1>1, <1>3 DEF Spent, Budget
<1>4. CASE pc \in {"last", "final", "except"}
    BY <1>1, <1>4 DEF Spent, Budget
<1> QED BY <1>2, <1>3, <1>4 DEF TypeOK

\* A step spends some of its request's budget, or goes on to the next request.
LEMMA StepSpends ==
  ASSUME Inv, Step
  PROVE  /\ cur \in Request
         /\ \/ cur' = cur /\ Spent' > Spent
            \/ cur' = cur + 1 /\ Spent' = 0
<1>0. /\ made \in Nat /\ made <= MaxTokens /\ MaxTokens \in Nat /\ cur \in 1..(Batch + 1)
      /\ Batch \in Nat
    <2>1. TypeOK
        BY DEF Inv
    <2> QED BY <2>1, BatchAssumption DEF TypeOK
<1>1. cur \in Request
    <2>1. pc # "admit" \/ cur \in Request
        BY DEF Step, Admit, Validate, FirstToken, Check, Lookahead, SendToken, SendLastToken,
               SendFinal, SendError
    <2>2. cur = Batch + 1 => pc = "admit"
        BY DEF Inv, BatchInv
    <2> QED BY <1>0, <2>1, <2>2 DEF Request
<1>2. ASSUME NextRequest PROVE cur' = cur + 1 /\ Spent' = 0
    BY <1>2 DEF NextRequest, Spent
<1>3. CASE Admit
    <2>1. CASE Goto(IF cur \in cancelled THEN "final" ELSE "validate")
        BY <1>0, <1>3, <2>1 DEF Admit, Goto, Spent
    <2> QED BY <1>1, <1>2, <1>3, <2>1 DEF Admit
<1>4. CASE Validate
    BY <1>0, <1>1, <1>4 DEF Validate, Goto, Spent
<1>5. CASE FirstToken
    <2>1. pc = "first" /\ made = 0 /\ cur' = cur
        BY <1>1, <1>5 DEF FirstToken, Pull, Goto, Inv, CurrentInv
    <2>2. \/ pc' = "check" /\ made' = made + 1 /\ made < MaxTokens
          \/ pc' \in {"final", "except"}
        BY <1>5 DEF FirstToken, Pull, Goto
    <2> QED BY <1>0, <1>1, <2>1, <2>2 DEF Spent
<1>6. CASE Check
    BY <1>0, <1>1, <1>6 DEF Check, Goto, Spent
<1>7. CASE Lookahead
    <2>1. pc = "lookahead" /\ cur' = cur
        BY <1>7 DEF Lookahead, Pull, Goto
    <2>2. \/ pc' = "send" /\ made' = made + 1
          \/ pc' \in {"last", "except"}
        BY <1>7 DEF Lookahead, Pull, Goto
    <2> QED BY <1>0, <1>1, <2>1, <2>2 DEF Spent
<1>8. CASE SendToken
    <2>1. pc = "send" /\ cur' = cur /\ made' = made /\ pc' \in {"check", "except"}
        BY <1>8 DEF SendToken, Send, Goto
    <2> QED BY <1>0, <1>1, <2>1 DEF Spent
<1>9. CASE SendLastToken \/ SendFinal
    <2>0. SendLastToken => pc = "last" /\ (NextRequest \/ Goto("except"))
        BY DEF SendLastToken, Send
    <2>1. SendFinal => pc = "final" /\ (NextRequest \/ Goto("except"))
        BY DEF SendFinal, Send
    <2>2. CASE NextRequest
        BY <1>1, <1>2, <2>2
    <2>3. CASE Goto("except")
        BY <1>0, <1>1, <1>9, <2>0, <2>1, <2>3 DEF Spent, Goto
    <2> QED BY <1>9, <2>0, <2>1, <2>2, <2>3
<1>10. CASE SendError
    BY <1>1, <1>2, <1>10 DEF SendError
<1> QED BY <1>3, <1>4, <1>5, <1>6, <1>7, <1>8, <1>9, <1>10 DEF Step

LEMMA BudgetFacts ==
  ASSUME Inv
  PROVE  /\ Budget \in Nat /\ Batch \in Nat \ {0} /\ cur \in 1..(Batch + 1)
         /\ Spent \in Nat /\ Spent < Budget
<1>1. TypeOK
    BY DEF Inv
<1>2. Budget \in Nat /\ Batch \in Nat \ {0} /\ cur \in 1..(Batch + 1)
    BY <1>1, BatchAssumption DEF TypeOK, Budget
<1>3. Spent \in 0..(Budget - 1)
    BY <1>1, SpentBounded
<1> QED BY <1>2, <1>3

LEMMA BudgetFor ==
  ASSUME NEW a \in Nat, NEW k \in Nat \ {0}
  PROVE  a * k \in Nat /\ a * k >= a /\ a * (k - 1) = a * k - a /\ a * 0 = 0
OBVIOUS

\* What is left is a number, and not 0 before execute() is over.
LEMMA StepsLeftNat == Inv => StepsLeft \in 0..(Budget * Batch) /\ (StepsLeft = 0 => cur = Batch + 1)
<1> SUFFICES ASSUME Inv
             PROVE  StepsLeft \in 0..(Budget * Batch) /\ (StepsLeft = 0 => cur = Batch + 1)
    OBVIOUS
<1>1. /\ Budget \in Nat /\ Batch \in Nat \ {0} /\ cur \in 1..(Batch + 1) /\ Spent \in Nat
      /\ Spent < Budget
    BY BudgetFacts
<1>2. CASE cur = Batch + 1
    <2>1. Spent = 0 /\ Batch + 1 - cur = 0
        BY <1>1, <1>2 DEF Inv, BatchInv, Spent
    <2>2. Budget * (Batch + 1 - cur) = 0 /\ Budget * Batch \in Nat
        BY <1>1, <2>1, BudgetFor
    <2> QED BY <1>2, <2>1, <2>2 DEF StepsLeft
<1>3. CASE cur # Batch + 1
    <2> DEFINE k == Batch + 1 - cur
    <2>1. k \in Nat \ {0} /\ k <= Batch
        BY <1>1, <1>3
    <2>2. Budget * k \in Nat /\ Budget * k >= Budget /\ Budget * k <= Budget * Batch
        <3> HIDE DEF k
        <3>1. Batch = k + (Batch - k) /\ Batch - k \in Nat
            BY <1>1, <2>1
        <3>2. Budget * Batch = Budget * k + Budget * (Batch - k)
            BY <1>1, <2>1
        <3>3. Budget * (Batch - k) \in Nat
            BY <1>1, <3>1
        <3>4. Budget * k \in Nat /\ Budget * k >= Budget
            BY <1>1, <2>1, BudgetFor
        <3> QED BY <3>2, <3>3, <3>4
    <2>3. StepsLeft = Budget * k - Spent
        BY DEF StepsLeft
    <2>4. Budget * Batch \in Nat
        BY <1>1, BudgetFor
    <2> HIDE DEF k
    <2> QED BY <1>1, <2>2, <2>3, <2>4
<1> QED BY <1>2, <1>3

\* Every step of execute() leaves it fewer to take.
LEMMA StepsRunOut == Inv /\ Step => StepsLeft' < StepsLeft
<1> SUFFICES ASSUME Inv, Step PROVE StepsLeft' < StepsLeft
    OBVIOUS
<1>1. /\ Budget \in Nat /\ Batch \in Nat \ {0} /\ cur \in 1..Batch /\ Spent \in Nat
      /\ Spent < Budget
    BY BudgetFacts, StepSpends DEF Request
<1> DEFINE k == Batch + 1 - cur
<1>2. k \in Nat \ {0} /\ StepsLeft = Budget * k - Spent
    BY <1>1 DEF StepsLeft
<1>3. Budget * k \in Nat /\ Budget * (k - 1) = Budget * k - Budget
    <2> HIDE DEF k
    <2> QED BY <1>1, <1>2, BudgetFor
<1>4. Spent' \in Nat /\ Budget' = Budget
    <2>1. TypeOK'
        BY NextKeepsInv DEF Inv, Next
    <2>2. (Spent \in 0..(Budget - 1))'
        BY <2>1, SpentBounded, PTL
    <2> QED BY <1>1, <2>2 DEF Budget
<1>5. CASE cur' = cur /\ Spent' > Spent
    <2>1. StepsLeft' = Budget * k - Spent'
        BY <1>5 DEF StepsLeft, Budget
    <2> DEFINE total == Budget * k
    <2>2. total \in Nat /\ StepsLeft' = total - Spent' /\ StepsLeft = total - Spent
        BY <1>2, <1>3, <2>1
    <2> HIDE DEF total
    <2>3. ASSUME NEW s \in Nat, NEW t \in Nat, t > s PROVE total - t < total - s
        BY <2>2, <2>3
    <2> QED BY <1>1, <1>4, <1>5, <2>2, <2>3
<1>6. CASE cur' = cur + 1 /\ Spent' = 0
    <2>1. Batch + 1 - cur' = k - 1
        BY <1>1, <1>6
    <2>2. StepsLeft' = Budget * (k - 1) - 0
        BY <1>6, <2>1 DEF StepsLeft, Budget
    <2> HIDE DEF k
    <2> QED BY <1>1, <1>2, <1>3, <2>2
<1> QED BY <1>5, <1>6, StepSpends

\* execute() takes at most Budget steps for each request of its batch, whatever
\* sends fail and whoever cancels: no loop in it is endless (model.py:36-128).
THEOREM ExecuteRunsOut ==
  Spec => /\ [](StepsLeft \in 0..(Budget * Batch) /\ (StepsLeft = 0 => cur = Batch + 1))
          /\ [][Step => StepsLeft' < StepsLeft]_vars
<1>1. Inv /\ [Next]_vars => [Step => StepsLeft' < StepsLeft]_vars
    BY StepsRunOut
<1> QED BY <1>1, StepsLeftNat, Invariant, PTL DEF Spec

=============================================================================
