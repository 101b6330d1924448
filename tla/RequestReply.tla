----------------------------- MODULE RequestReply -----------------------------
(***************************************************************************)
(* What the server and its unary clients promise to each call: its request *)
(* is answered once, after it was asked, and a call returns nothing but    *)
(* the output that answers its own request, once.                          *)
(***************************************************************************)
CONSTANTS Requests, NoAnswer,
          Output    \* the complete output of each request

VARIABLES asked,    \* requests that have reached the server
          answer,   \* what the server has answered
          got       \* what the call has returned

Init ==
    /\ asked = {}
    /\ answer = [r \in Requests |-> NoAnswer] /\ got = [r \in Requests |-> NoAnswer]

Ask(r) ==
    /\ r \notin asked /\ asked' = asked \cup {r}
    /\ UNCHANGED <<answer, got>>

\* Some requests that wait for an answer get theirs; those that have one keep it.
Serve ==
    /\ answer' = [r \in Requests |-> answer'[r]]
    /\ \A r \in Requests : answer'[r] # answer[r] => r \in asked /\ answer[r] = NoAnswer
    /\ UNCHANGED <<asked, got>>

Return(r) ==
    /\ answer[r] = Output[r] /\ got[r] = NoAnswer
    /\ got' = [got EXCEPT ![r] = Output[r]]
    /\ UNCHANGED <<asked, answer>>

Next == Serve \/ \E r \in Requests : Ask(r) \/ Return(r)

Spec == Init /\ [][Next]_<<asked, answer, got>>

===============================================================================
