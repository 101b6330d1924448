--------------------------- MODULE DecoupledModel ---------------------------
(***************************************************************************)
(* models/_templates/decoupled_streaming/1/model.py: execute() answers a   *)
(* batch of requests one after the other, each with a stream of responses  *)
(* of which the last carries the FINAL flag.  The token generator is the   *)
(* placeholder for an engine: it stops, or fails, where it likes within    *)
(* the request's max_tokens.                                               *)
(***************************************************************************)
EXTENDS Naturals, Sequences, FiniteSets

CONSTANTS Batch,     \* number of requests given to execute()
          MaxTokens  \* bound on a request's MAX_TOKENS

ASSUME BatchAssumption == Batch \in Nat \ {0} /\ MaxTokens \in Nat

Request == 1..Batch

VARIABLES
    cur,       \* the request being executed; Batch + 1 when execute() returned
    pc,        \* where in _execute_request
    made,      \* tokens the generator has produced for it
    out,       \* responses delivered to each request's client
    cancelled, \* requests whose client has cancelled
    after,     \* tokens delivered to each request after its cancellation
    broken     \* requests without a sender, or whose error response failed

vars == <<cur, pc, made, out, cancelled, after, broken>>

Response(kind, n, final) == [kind |-> kind, n |-> n, final |-> final]

Init ==
    /\ cur = 1 /\ pc = "admit" /\ made = 0
    /\ out = [r \in Request |-> <<>>]
    /\ cancelled = {} /\ after = [r \in Request |-> 0] /\ broken = {}

Goto(phase) == pc' = phase /\ UNCHANGED cur
NextRequest == cur' = cur + 1 /\ pc' = "admit"

\* The client goes away at any time before the request's last response.
Cancel(r) ==
    /\ r \notin cancelled /\ r >= cur
    /\ cancelled' = cancelled \cup {r}
    /\ UNCHANGED <<cur, pc, made, out, after, broken>>

\* Deliver a response and go on, or have send() raise and end in the except
\* clause of execute().
Send(response, go) ==
    \/ /\ out' = [out EXCEPT ![cur] = Append(@, response)]
       /\ after' = IF cur \in cancelled /\ response.kind = "token"
                   THEN [after EXCEPT ![cur] = @ + 1] ELSE after
       /\ go
    \/ Goto("except") /\ UNCHANGED <<out, after>>

\* get_response_sender, and the first look at is_cancelled.
Admit ==
    /\ pc = "admit" /\ cur \in Request
    /\ \/ /\ Goto(IF cur \in cancelled THEN "final" ELSE "validate")
          /\ made' = 0 /\ UNCHANGED broken
       \/ /\ broken' = broken \cup {cur}
          /\ NextRequest /\ UNCHANGED made
    /\ UNCHANGED <<out, cancelled, after>>

\* INPUT_TEXT and MAX_TOKENS are well formed and in range, or they are not.
Validate ==
    /\ pc = "validate"
    /\ Goto("first") \/ Goto("except")
    /\ UNCHANGED <<made, out, cancelled, after, broken>>

\* next(tokens): one more token, the end, or an exception of the engine.
Pull(more, end) ==
    /\ \/ made < MaxTokens /\ made' = made + 1 /\ Goto(more)
       \/ (Goto(end) \/ Goto("except")) /\ UNCHANGED made
    /\ UNCHANGED <<out, cancelled, after, broken>>

FirstToken == pc = "first" /\ Pull("check", "final")

\* Fault: is_cancelled is not consulted between two tokens.
Check_Never ==
    /\ pc = "check"
    /\ Goto("lookahead")
    /\ UNCHANGED <<made, out, cancelled, after, broken>>

Check ==
    /\ pc = "check"
    /\ Goto(IF cur \in cancelled THEN "final" ELSE "lookahead")
    /\ UNCHANGED <<made, out, cancelled, after, broken>>

\* The next token is asked for while the current one is still unsent.
Lookahead == pc = "lookahead" /\ Pull("send", "last")

\* Fault: the lookahead token is sent in place of the current one.
SendToken_Newest ==
    /\ pc = "send"
    /\ Send(Response("token", made, FALSE), Goto("check"))
    /\ UNCHANGED <<made, cancelled, broken>>

SendToken ==
    /\ pc = "send"
    /\ Send(Response("token", made - 1, FALSE), Goto("check"))
    /\ UNCHANGED <<made, cancelled, broken>>

\* Fault: no return after the token that carries the flag.
SendLastToken_FallsThrough ==
    /\ pc = "last"
    /\ Send(Response("token", made, TRUE), Goto("final"))
    /\ UNCHANGED <<made, cancelled, broken>>

SendLastToken ==
    /\ pc = "last"
    /\ Send(Response("token", made, TRUE), NextRequest)
    /\ UNCHANGED <<made, cancelled, broken>>

SendFinal ==
    /\ pc = "final"
    /\ Send(Response("empty", 0, TRUE), NextRequest)
    /\ UNCHANGED <<made, cancelled, broken>>

\* Fault: the error response does not complete the request.
SendError_NotFinal ==
    /\ pc = "except"
    /\ \/ out' = [out EXCEPT ![cur] = Append(@, Response("error", 0, FALSE))]
          /\ UNCHANGED broken
       \/ broken' = broken \cup {cur} /\ UNCHANGED out
    /\ NextRequest
    /\ UNCHANGED <<made, cancelled, after>>

\* Fault: when the error response fails an empty final one is tried, inside
\* the same try.
SendError_TriesFinal ==
    /\ pc = "except"
    /\ \/ out' = [out EXCEPT ![cur] = Append(@, Response("error", 0, TRUE))]
          /\ NextRequest /\ UNCHANGED broken
       \/ broken' = broken \cup {cur} /\ Goto("final") /\ UNCHANGED out
    /\ UNCHANGED <<made, cancelled, after>>

\* _send_error completes the request, or logs why it could not.
SendError ==
    /\ pc = "except"
    /\ \/ out' = [out EXCEPT ![cur] = Append(@, Response("error", 0, TRUE))]
          /\ UNCHANGED broken
       \/ broken' = broken \cup {cur} /\ UNCHANGED out
    /\ NextRequest
    /\ UNCHANGED <<made, cancelled, after>>

Step ==
    \/ Admit \/ Validate \/ FirstToken \/ Check \/ Lookahead \/ SendToken
    \/ SendLastToken \/ SendFinal \/ SendError

Returned == cur = Batch + 1 /\ UNCHANGED vars

Next == Step \/ (\E r \in Request : Cancel(r)) \/ Returned

Spec == Init /\ [][Next]_vars /\ WF_vars(Step)

----------------------------------------------------------------------------

TypeOK ==
    /\ cur \in 1..(Batch + 1) /\ made \in 0..MaxTokens
    /\ pc \in {"admit", "validate", "first", "check", "lookahead", "send",
               "last", "final", "except"}
    /\ out \in [Request -> Seq([kind : {"token", "empty", "error"},
                                n : 0..MaxTokens, final : BOOLEAN])]
    /\ cancelled \in SUBSET Request /\ broken \in SUBSET Request
    /\ after \in [Request -> Nat]

\* Every client gets the generator's tokens in order and without a gap,
\* whatever ends its stream.
TokensWithoutGap ==
    \A r \in Request : \A i \in DOMAIN out[r] :
        out[r][i].kind = "token" => out[r][i].n = i

\* A client that has cancelled gets one more token at most: the one on its way
\* when the cancellation came.
CancelStopsGeneration == \A r \in Request : after[r] <= 1

\* When execute() has gone past a request, its client has its FINAL response,
\* unless this very request had no sender or its error response failed too:
\* neither a failed send of a token nor another request's failure matters.
EveryRequestCompleted ==
    \A r \in Request : r < cur /\ r \notin broken =>
        out[r] # <<>> /\ out[r][Len(out[r])].final

\* execute() comes back whatever the clients and the sends do.
ExecuteReturns == <>(cur = Batch + 1)

\* A request's responses as a client's library stream sees them.
Tokens(r) == {i \in DOMAIN out[r] : out[r][i].kind = "token"}
Finals(r) == {i \in DOMAIN out[r] : out[r][i].final}
Responses == INSTANCE ResponseStreams WITH
    sent <- [r \in Request |-> Cardinality(Tokens(r))],
    ends <- [r \in Request |-> Cardinality(Finals(r))]

\* execute() gives every request what StreamingClient assumes of its server: at
\* most MaxTokens tokens, and nothing more once it has sent a FINAL response.
ImplementsResponseStreams == Responses!Spec

============================================================================
