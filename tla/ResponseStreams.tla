-------------------------- MODULE ResponseStreams --------------------------
(***************************************************************************)
(* The contract between a decoupled model and a streaming client: at most  *)
(* MaxTokens tokens, one at a time, then nothing once the stream is over.  *)
(***************************************************************************)
EXTENDS Naturals

CONSTANTS Request, MaxTokens

VARIABLES sent,   \* tokens sent to each request
          ends    \* responses with the FINAL flag sent to it

Init == sent = [r \in Request |-> 0] /\ ends = [r \in Request |-> 0]

\* One response of r: a token or none, completing the stream or not.
Respond(r) ==
    /\ ends[r] = 0
    /\ sent' \in {sent, [sent EXCEPT ![r] = @ + 1]}
    /\ sent'[r] <= MaxTokens
    /\ ends' \in {ends, [ends EXCEPT ![r] = 1]}

Next == \E r \in Request : Respond(r)

Spec == Init /\ [][Next]_<<sent, ends>>

============================================================================
