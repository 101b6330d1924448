------------------------------ MODULE SyncClient ------------------------------
(***************************************************************************)
(* client/grpc_client.py and http_client.py with client/base.py: threads   *)
(* that call infer_numpy() on one client, and threads that close it.       *)
(***************************************************************************)
EXTENDS UnaryClient

CONSTANTS
    Threads, SyncClosers,
    EndsCalls    \* close() of the library client ends the calls in flight

ASSUME SyncAssumption == EndsCalls \in BOOLEAN

VARIABLES
    thread,      \* where each infer_numpy() is
    held,        \* _client is not None
    syncChannel, \* the connection of the library client
    syncCloser   \* where each close() is

syncVars == <<thread, held, syncChannel, syncCloser>>

SyncInit ==
    /\ thread = [c \in Threads |-> "new"] /\ syncCloser = [k \in SyncClosers |-> "new"]
    /\ held = TRUE /\ syncChannel = "open"

\* validate_numpy_request raises, or self._client.infer does because _client is
\* None or its connection closed, or the request is sent.
SyncCall(c) ==
    /\ thread[c] = "new"
    /\ \/ /\ held /\ syncChannel = "open" /\ \E s \in Services : Submit(c, s)
          /\ thread' = [thread EXCEPT ![c] = "sent"]
       \/ thread' = [thread EXCEPT ![c] = "raised"] /\ UNCHANGED serverVars
    /\ UNCHANGED <<held, syncChannel, syncCloser, got>>

SyncReturn(c) ==
    /\ thread[c] = "sent" /\ answer[c] # NoAnswer
    /\ IF Collected(answer[c])
       THEN thread' = [thread EXCEPT ![c] = "returned"] /\ got' = [got EXCEPT ![c] = answer[c]]
       ELSE thread' = [thread EXCEPT ![c] = "raised"] /\ UNCHANGED got
    /\ UNCHANGED <<serverVars, held, syncChannel, syncCloser>>

\* client_timeout, network_timeout or a broken connection.
SyncGiveUp(c) ==
    /\ thread[c] = "sent" /\ thread' = [thread EXCEPT ![c] = "raised"]
    /\ UNCHANGED <<serverVars, held, syncChannel, syncCloser, got>>

\* if self._client and hasattr(self._client, "close"); a close() that has raised
\* may be tried again.
SyncClose(k) ==
    /\ syncCloser[k] = "new"
    /\ syncCloser' = [syncCloser EXCEPT ![k] = IF held THEN "closing" ELSE "drop"]
    /\ UNCHANGED <<serverVars, thread, held, syncChannel, got>>

\* The connection is closed under the calls in flight: the gRPC channel ends them,
\* the HTTP library may leave them theirs (and SyncGiveUp may still end them).
EndCalls ==
    thread' = [c \in Threads |-> IF EndsCalls /\ thread[c] = "sent" THEN "raised" ELSE thread[c]]

\* Fault: _client becomes None also when its close() raises.
SyncCloseChannel_Finally(k) ==
    /\ syncCloser[k] = "closing"
    /\ \/ held /\ syncChannel' = "closed" /\ EndCalls
       \/ UNCHANGED <<syncChannel, thread>>
    /\ syncCloser' = [syncCloser EXCEPT ![k] = "drop"]
    /\ UNCHANGED <<serverVars, held, got>>

\* self._client.close(), or an exception of it; another close() may have made
\* _client None since.
SyncCloseChannel(k) ==
    /\ syncCloser[k] = "closing"
    /\ \/ /\ held /\ syncChannel' = "closed" /\ EndCalls
          /\ syncCloser' = [syncCloser EXCEPT ![k] = "drop"]
       \/ /\ syncCloser' = [syncCloser EXCEPT ![k] = "new"]
          /\ UNCHANGED <<syncChannel, thread>>
    /\ UNCHANGED <<serverVars, held, got>>

\* self._client = None
SyncDrop(k) ==
    /\ syncCloser[k] = "drop"
    /\ held' = FALSE /\ syncCloser' = [syncCloser EXCEPT ![k] = "done"]
    /\ UNCHANGED <<serverVars, thread, syncChannel, got>>

SyncStep(c) == SyncReturn(c) \/ SyncGiveUp(c)

SyncNext ==
    \/ \E c \in Threads : SyncCall(c) \/ SyncStep(c)
    \/ \E k \in SyncClosers : SyncClose(k) \/ SyncCloseChannel(k) \/ SyncDrop(k)

============================================================================
