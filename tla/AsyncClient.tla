----------------------------- MODULE AsyncClient -----------------------------
(***************************************************************************)
(* client/async_client.py: tasks of one event loop that call infer_numpy() *)
(* on one client, and tasks that close it.  Between two awaits a task is   *)
(* not interrupted.                                                        *)
(***************************************************************************)
EXTENDS UnaryClient

CONSTANTS Tasks, AsyncClosers

VARIABLES
    task,       \* where each infer_numpy() is
    closed,     \* _closed
    aioChannel, \* the channel of grpc.aio
    aioCloser   \* where each close() is

asyncVars == <<task, closed, aioChannel, aioCloser>>

AsyncInit ==
    /\ task = [c \in Tasks |-> "new"] /\ aioCloser = [k \in AsyncClosers |-> "new"]
    /\ closed = FALSE /\ aioChannel = "open"

\* _ensure_open and validate_numpy_request raise, or the request is sent.
AsyncCall(c) ==
    /\ task[c] = "new"
    /\ \/ /\ ~closed /\ aioChannel = "open" /\ \E s \in Services : Submit(c, s)
          /\ task' = [task EXCEPT ![c] = "sent"]
       \/ task' = [task EXCEPT ![c] = "raised"] /\ UNCHANGED serverVars
    /\ UNCHANGED <<closed, aioChannel, aioCloser, got>>

AsyncReturn(c) ==
    /\ task[c] = "sent" /\ answer[c] # NoAnswer
    /\ IF Collected(answer[c])
       THEN task' = [task EXCEPT ![c] = "returned"] /\ got' = [got EXCEPT ![c] = answer[c]]
       ELSE task' = [task EXCEPT ![c] = "raised"] /\ UNCHANGED got
    /\ UNCHANGED <<serverVars, closed, aioChannel, aioCloser>>

\* client_timeout, a broken connection, or the task is cancelled.
AsyncGiveUp(c) ==
    /\ task[c] = "sent" /\ task' = [task EXCEPT ![c] = "raised"]
    /\ UNCHANGED <<serverVars, closed, aioChannel, aioCloser, got>>

AsyncClose(k) ==
    /\ aioCloser[k] = "new"
    /\ aioCloser' = [aioCloser EXCEPT ![k] = IF closed THEN "done" ELSE "closing"]
    /\ closed' = TRUE
    /\ UNCHANGED <<serverVars, task, aioChannel, got>>

\* await self._client.close(), which ends the calls in flight; or it raises, or
\* the task is cancelled, and the channel stays open.
AsyncClosed(k) ==
    /\ aioCloser[k] = "closing"
    /\ \/ /\ aioCloser' = [aioCloser EXCEPT ![k] = "done"] /\ aioChannel' = "closed"
          /\ task' = [c \in Tasks |-> IF task[c] = "sent" THEN "raised" ELSE task[c]]
       \/ aioCloser' = [aioCloser EXCEPT ![k] = "failed"] /\ UNCHANGED <<aioChannel, task>>
    /\ UNCHANGED <<serverVars, closed, got>>

AsyncStep(c) == AsyncReturn(c) \/ AsyncGiveUp(c)

AsyncNext ==
    \/ \E c \in Tasks : AsyncCall(c) \/ AsyncStep(c)
    \/ \E k \in AsyncClosers : AsyncClose(k) \/ AsyncClosed(k)

============================================================================
