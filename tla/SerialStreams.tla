--------------------------- MODULE SerialStreams ---------------------------
(***************************************************************************)
(* What client/README.md:53-57 promises of one streaming client: requests  *)
(* take turns on a single stream; a request's tokens arrive in order while *)
(* it has the stream; success is reported once, after its stream ended.    *)
(***************************************************************************)
EXTENDS Naturals, Sequences

CONSTANTS Req, NoOne

VARIABLES owner, log, state

Init ==
    /\ owner = NoOne
    /\ log = [r \in Req |-> <<>>]
    /\ state = [r \in Req |-> "waiting"]

Become(r, s) == state' = [state EXCEPT ![r] = s]

Open(r) ==
    /\ state[r] = "waiting" /\ owner = NoOne
    /\ owner' = r /\ Become(r, "streaming") /\ UNCHANGED log

Yield(r) ==
    /\ owner = r
    /\ log' = [log EXCEPT ![r] = Append(@, <<r, Len(@) + 1>>)]
    /\ UNCHANGED <<owner, state>>

Close(r) ==
    /\ owner = r
    /\ owner' = NoOne /\ Become(r, "ended") /\ UNCHANGED log

\* The request is refused or cancelled before its turn.
Refuse(r) ==
    /\ state[r] = "waiting"
    /\ Become(r, "ended") /\ UNCHANGED <<owner, log>>

Succeed(r) ==
    /\ state[r] = "ended"
    /\ Become(r, "succeeded") /\ UNCHANGED <<owner, log>>

Next == \E r \in Req : Open(r) \/ Yield(r) \/ Close(r) \/ Refuse(r) \/ Succeed(r)

vars == <<owner, log, state>>

Spec == Init /\ [][Next]_vars

============================================================================
