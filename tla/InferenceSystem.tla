--------------------------- MODULE InferenceSystem ---------------------------
(* The unary clients and the models they share: requests of both clients     *)
(* meet in the batches of the server.                                        *)
EXTENDS AsyncClient, SyncClient

ASSUME CallerAssumption == Requests = Tasks \cup Threads /\ Tasks \cap Threads = {}

clientVars == <<asyncVars, syncVars, got>>
vars == <<serverVars, clientVars>>

Init ==
    /\ ServerInit /\ AsyncInit /\ SyncInit
    /\ got = [r \in Requests |-> NoAnswer]

Next ==
    \/ AsyncNext /\ UNCHANGED syncVars
    \/ SyncNext /\ UNCHANGED asyncVars
    \/ \E m \in Models : ServerStep(m) /\ UNCHANGED clientVars

\* The models run: an external backend answers, and so does execute().
Spec == Init /\ [][Next]_vars /\ \A m \in Models : WF_vars(ServerStep(m) /\ UNCHANGED clientVars)

----------------------------------------------------------------------------

\* What a call returns was computed from its own input and has every requested
\* output, whatever else was in its batches: "no partial results"
\* (client/README.md:80-81, client/base.py:129-139).
AnswersAreOwn ==
    \A r \in Requests : got[r] # NoAnswer => got[r] = Response("output", r)

\* Every request that reaches the server is answered, also when its client has
\* gone: a BLS model that waits in exec() without a timeout depends on it.
EveryRequestAnswered ==
    \A r \in Requests : service[r] # NoAnswer ~> answer[r] # NoAnswer

\* An open channel can still be closed.  A synchronous client keeps it until it
\* is closed; an asynchronous close() that raised or was cancelled does not
\* (client/base.py:189-193, client/async_client.py:81-85).
ChannelsNotLost ==
    /\ syncChannel = "open" => held
    /\ aioChannel = "open" => \/ ~closed
                              \/ \E k \in AsyncClosers : aioCloser[k] \in {"closing", "failed"}

\* The calls and the server as one service.
Calls == INSTANCE RequestReply WITH
    asked <- {r \in Requests : service[r] # NoAnswer},
    Output <- [r \in Requests |-> Response("output", r)]

\* Through batches, ensembles, nested calls and closing clients, each request is
\* answered once, and an answer is not taken back; a call returns its own,
\* complete output, once, or raises (client/README.md:80-84).
ImplementsRequestReply == Calls!Spec

============================================================================
