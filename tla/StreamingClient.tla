-------------------------- MODULE StreamingClient --------------------------
(***************************************************************************)
(* client/streaming_client.py: one TritonStreamingClient shared by threads *)
(* that iterate synchronously (Sync), by stream_infer_async workers        *)
(* (Async) and by threads that call close() (Closers).  The gRPC library   *)
(* and the server are external: at most one open library stream, whose     *)
(* callback feeds the queue of the request that opened it.                 *)
(***************************************************************************)
EXTENDS Naturals, Sequences

CONSTANTS Sync,       \* stream_infer / stream_generate_vllm iterators
          Async,      \* stream_infer_async requests, one worker thread each
          Closers,    \* threads that call close()
          MaxTokens,  \* the requests' max_tokens: the server sends no more
          NoOne       \* no thread: a free lock, no open stream

ASSUME ClientAssumption ==
    /\ Sync \cap Async = {} /\ NoOne \notin Sync \cup Async
    /\ MaxTokens \in Nat

Req == Sync \cup Async

VARIABLES
    pc, exit,       \* where each request's thread is; why its generator ended
    lock,           \* _stream_lock
    stream,         \* the request whose callback the open library stream has
    channel,        \* the gRPC channel is usable
    queue,          \* each request's `events`
    late,           \* has the lock holder's idle_deadline passed?  See DeadlinePasses
    got,            \* tokens each generator has yielded
    stateLock,      \* _async_state_lock
    registered,     \* _async_cancel_events
    cancel,         \* the cancel events that are set
    fut,            \* the state of each async request's Future
    observing,      \* Futures cancelled whose done callback has not run yet
    calls,          \* token_callback(token, False) calls of each request
    finals, errs,   \* token_callback("", True) returned; error_callback called
    closed,         \* _closed
    closePc,        \* where each close() call is
    sent, over      \* the open request: tokens the server sent; it has finished

futureVars   == <<fut, observing, calls, finals, errs>>
registryVars == <<stateLock, registered, cancel>>
closeVars    == <<closed, closePc, channel>>
streamVars   == <<lock, stream, queue, late, got>>
serverVars   == <<sent, over>>
vars == <<pc, exit, streamVars, registryVars, futureVars, closeVars, serverVars>>

\* A queued event; a token carries the request it answers and its position.
Events == [kind : {"token", "final", "error"}, of : Req, n : Nat]
Event(kind, r, n) == [kind |-> kind, of |-> r, n |-> n]

Init ==
    /\ pc = [r \in Req |-> IF r \in Async THEN "idle" ELSE "begin"]
    /\ exit = [r \in Req |-> "none"]
    /\ lock = NoOne /\ stream = NoOne /\ channel = TRUE
    /\ queue = [r \in Req |-> <<>>] /\ late = "no" /\ got = [r \in Req |-> <<>>]
    /\ stateLock = NoOne /\ registered = {} /\ cancel = {}
    /\ fut = [r \in Async |-> "none"] /\ observing = {}
    /\ calls = [r \in Async |-> 0] /\ finals = {} /\ errs = {}
    /\ closed = FALSE /\ closePc = [c \in Closers |-> "idle"]
    /\ sent = 0 /\ over = FALSE

Goto(r, phase) == pc' = [pc EXCEPT ![r] = phase] /\ UNCHANGED exit
Leave(r, why, phase) ==
    exit' = [exit EXCEPT ![r] = why] /\ pc' = [pc EXCEPT ![r] = phase]

----------------------------------------------------------------------------
(* _stream_request: the generator both kinds of request run.                *)

\* Where it leads once it has let go of the lock: a sync caller sees the
\* outcome, a worker handles it in consume().
After(r) == IF r \in Sync THEN "done" ELSE "consumed"

\* The only look at _closed, when the generator is first advanced.
Begin(r) ==
    /\ pc[r] = "begin"
    /\ IF closed THEN Leave(r, "error", After(r)) ELSE Goto(r, "wait")
    /\ UNCHANGED streamVars

\* Fault: go on when acquire(timeout=0.1) returns False.
Acquire_IgnoresTimeout(r) ==
    /\ pc[r] = "wait"
    /\ Goto(r, "locked")
    /\ lock' = IF lock = NoOne THEN r ELSE lock
    /\ UNCHANGED <<stream, queue, late, got>>

\* acquire(timeout=0.1) gets the lock, or returns False and the caller polls.
Acquire(r) ==
    /\ pc[r] = "wait"
    /\ IF lock = NoOne THEN lock' = r /\ Goto(r, "locked")
                       ELSE Goto(r, "poll") /\ UNCHANGED lock
    /\ UNCHANGED <<stream, queue, late, got>>

Poll(r) ==
    /\ pc[r] = "poll"
    /\ IF r \in cancel THEN Leave(r, "cancelled", After(r)) ELSE Goto(r, "wait")
    /\ UNCHANGED streamVars

\* Fault: a return under the lock outside of the try.
Recheck_KeepsLock(r) ==
    /\ pc[r] = "locked"
    /\ IF r \in cancel THEN Leave(r, "cancelled", After(r)) ELSE Goto(r, "start")
    /\ UNCHANGED streamVars

\* The second look at the event, now under the lock.
Recheck(r) ==
    /\ pc[r] = "locked"
    /\ IF r \in cancel THEN Leave(r, "cancelled", "release") ELSE Goto(r, "start")
    /\ UNCHANGED streamVars

\* start_stream fails on a closed channel or while a stream is open, and may
\* fail in the transport; the lock is then released without stop_stream.
StartStream(r) ==
    /\ pc[r] = "start"
    /\ \/ channel /\ stream = NoOne /\ stream' = r /\ Goto(r, "infer")
       \/ Leave(r, "error", "release") /\ UNCHANGED stream
    /\ UNCHANGED <<lock, queue, late, got>>

\* async_stream_infer needs the stream, which close() may have stopped.
SendRequest(r) ==
    /\ pc[r] = "infer"
    /\ \/ stream = r /\ late' = "no" /\ Goto(r, "loop")
       \/ Leave(r, "error", "stop") /\ UNCHANGED late
    /\ UNCHANGED <<lock, stream, queue, got>>

\* Faults: no idle deadline; a timeout raised outside of the inner try.
LoopTest_NoDeadline(r) ==
    /\ pc[r] = "loop"
    /\ IF r \in cancel THEN Leave(r, "cancelled", "stop") ELSE Goto(r, "get")
    /\ UNCHANGED streamVars

LoopTest_NoFinally(r) ==
    /\ pc[r] = "loop"
    /\ IF r \in cancel THEN Leave(r, "cancelled", "stop")
       ELSE IF late # "no" THEN Leave(r, "timeout", "release")
       ELSE Goto(r, "get")
    /\ UNCHANGED streamVars

\* Top of the read loop: the cancel event, then the idle deadline.
LoopTest(r) ==
    /\ pc[r] = "loop"
    /\ IF r \in cancel THEN Leave(r, "cancelled", "stop")
       ELSE IF late # "no" THEN Leave(r, "timeout", "stop")
       ELSE Goto(r, "get")
    /\ UNCHANGED streamVars

\* Fault: a look at the head of the queue that leaves it there.
Get_Peeks(r) ==
    /\ pc[r] = "get" /\ queue[r] # <<>>
    /\ late' = "no"
    /\ LET event == Head(queue[r]) IN
       IF event.kind = "token"
       THEN got' = [got EXCEPT ![r] = Append(@, <<event.of, event.n>>)]
            /\ Goto(r, "yield")
       ELSE Leave(r, event.kind, "stop") /\ UNCHANGED got
    /\ UNCHANGED <<lock, stream, queue>>

\* events.get: an event restarts the deadline, Empty goes round the loop.
Get(r) ==
    /\ pc[r] = "get" /\ queue[r] # <<>>
    /\ queue' = [queue EXCEPT ![r] = Tail(@)] /\ late' = "no"
    /\ LET event == Head(queue[r]) IN
       IF event.kind = "token"
       THEN got' = [got EXCEPT ![r] = Append(@, <<event.of, event.n>>)]
            /\ Goto(r, "yield")
       ELSE Leave(r, event.kind, "stop") /\ UNCHANGED got
    /\ UNCHANGED <<lock, stream>>

GetEmpty(r) ==
    /\ pc[r] = "get" /\ queue[r] = <<>>
    /\ Goto(r, "loop")
    /\ UNCHANGED streamVars

\* What the yield hands the token to: a sync caller, who may keep it for as
\* long as it likes and then asks for more or drops the iterator...
SyncCaller(r) ==
    /\ pc[r] = "yield" /\ r \in Sync
    /\ Goto(r, "loop") \/ Leave(r, "abandoned", "stop")
    /\ UNCHANGED streamVars

\* ... or consume(), which leaves the loop, and so closes the generator, if
\* the request was cancelled.
TokenArrives(r) ==
    /\ pc[r] = "yield" /\ r \in Async
    /\ IF r \in cancel THEN Leave(r, "cancelled", "stop") ELSE Goto(r, "call")
    /\ UNCHANGED streamVars

\* The finally blocks.  If stop_stream raises, the generator ends with that;
\* the lock is released either way, and what the generator and the server
\* kept for the request is dropped.
StopStream(r) ==
    /\ pc[r] = "stop"
    /\ stream' = NoOne
    /\ Goto(r, "release") \/ Leave(r, "error", "release")
    /\ UNCHANGED <<lock, queue, late, got>>

Release(r) ==
    /\ pc[r] = "release"
    /\ lock' = NoOne /\ Goto(r, After(r))
    /\ queue' = [queue EXCEPT ![r] = <<>>] /\ late' = "no"
    /\ sent' = 0 /\ over' = FALSE
    /\ UNCHANGED <<stream, got>>

\* config.timeout seconds since the loop began or last took an event: the
\* time the token's receiver takes counts as well.
DeadlinePasses(r) ==
    /\ pc[r] \in {"loop", "get", "yield", "call"} /\ late = "no"
    /\ late' = "passed"
    /\ UNCHANGED <<pc, exit, lock, stream, queue, got>>

GeneratorStep(r) ==
    /\ \/ Begin(r) \/ Acquire(r) \/ Poll(r) \/ Recheck(r) \/ StartStream(r)
       \/ SendRequest(r) \/ LoopTest(r) \/ Get(r) \/ GetEmpty(r)
       \/ StopStream(r) \/ TokenArrives(r)
    /\ UNCHANGED <<registryVars, futureVars, closeVars, serverVars>>

ReleaseStep(r) == Release(r) /\ UNCHANGED <<registryVars, futureVars, closeVars>>

\* Steps of the generator's surroundings: its sync caller, and time.
AmbientStep(r) ==
    /\ SyncCaller(r) \/ DeadlinePasses(r)
    /\ UNCHANGED <<registryVars, futureVars, closeVars, serverVars>>

----------------------------------------------------------------------------
(* stream_infer_async and its worker's consume().                           *)

\* The critical section on the caller's thread: refuse if closed, or go on to
\* add the event.
Submit(r) ==
    /\ pc[r] = "idle" /\ stateLock = NoOne
    /\ IF closed THEN Leave(r, "error", "done") /\ UNCHANGED stateLock
                 ELSE Goto(r, "register") /\ stateLock' = r
    /\ UNCHANGED <<futureVars, registered, cancel>>

Register(r) ==
    /\ pc[r] = "register"
    /\ registered' = registered \cup {r} /\ stateLock' = NoOne
    /\ fut' = [fut EXCEPT ![r] = "pending"]
    /\ Goto(r, "begin")
    /\ UNCHANGED <<cancel, observing, calls, finals, errs>>

\* The user's Future.cancel(): the Future changes state first ...
CancelFuture(r) ==
    /\ fut[r] = "pending"
    /\ fut' = [fut EXCEPT ![r] = "cancelled"] /\ observing' = observing \cup {r}
    /\ UNCHANGED <<pc, exit, registryVars, calls, finals, errs>>

\* ... and runs observe_completion, which sets the event, afterwards.
ObserveCompletion(r) ==
    /\ r \in observing
    /\ observing' = observing \ {r} /\ cancel' = cancel \cup {r}
    /\ UNCHANGED <<pc, exit, stateLock, registered, fut, calls, finals, errs>>

TokenCallback(r) ==
    /\ pc[r] = "call"
    /\ calls' = [calls EXCEPT ![r] = @ + 1]
    /\ Goto(r, "loop") \/ Leave(r, "error", "stop")
    /\ UNCHANGED <<registryVars, fut, observing, finals, errs>>

\* Fault: report success without a look at the cancel event.
Consumed_IgnoresCancel(r) ==
    /\ pc[r] = "consumed"
    /\ Goto(r, IF exit[r] \in {"error", "timeout"} THEN "handler"
               ELSE IF fut[r] # "pending" THEN "cleanup"
               ELSE "final")
    /\ UNCHANGED <<registryVars, futureVars>>

\* The loop is over, by an exception or not; success is reported only if
\* nothing cancelled the request.
Consumed(r) ==
    /\ pc[r] = "consumed"
    /\ Goto(r, IF exit[r] \in {"error", "timeout"} THEN "handler"
               ELSE IF r \in cancel \/ fut[r] # "pending" THEN "cleanup"
               ELSE "final")
    /\ UNCHANGED <<registryVars, futureVars>>

FinalCallback(r) ==
    /\ pc[r] = "final"
    /\ \/ Goto(r, "set_result") /\ finals' = finals \cup {r}
       \/ Leave(r, "error", "handler") /\ UNCHANGED finals
    /\ UNCHANGED <<registryVars, fut, observing, calls, errs>>

\* On a Future cancelled meanwhile, set_result raises InvalidStateError.
SetResult(r) ==
    /\ pc[r] = "set_result"
    /\ IF fut[r] = "pending"
       THEN fut' = [fut EXCEPT ![r] = "result"] /\ Goto(r, "cleanup")
       ELSE Leave(r, "error", "handler") /\ UNCHANGED fut
    /\ UNCHANGED <<registryVars, observing, calls, finals, errs>>

\* Fault: only the event is consulted, which cancel() sets a step late.
Handler_EventOnly(r) ==
    /\ pc[r] = "handler"
    /\ Goto(r, IF r \in cancel THEN "cleanup" ELSE "report")
    /\ UNCHANGED <<registryVars, futureVars>>

\* `except`: a cancelled request, by event or by Future, reports nothing.
Handler(r) ==
    /\ pc[r] = "handler"
    /\ Goto(r, IF r \in cancel \/ fut[r] = "cancelled" THEN "cleanup" ELSE "report")
    /\ UNCHANGED <<registryVars, futureVars>>

\* error_callback; what it raises is logged.
ErrorCallback(r) ==
    /\ pc[r] = "report"
    /\ errs' = errs \cup {r} /\ Goto(r, "set_exception")
    /\ UNCHANGED <<registryVars, fut, observing, calls, finals>>

\* Fault: the error goes to error_callback only.
SetException_Forgets(r) ==
    /\ pc[r] = "set_exception"
    /\ Goto(r, "cleanup")
    /\ UNCHANGED <<registryVars, futureVars>>

\* A Future done by now is left alone, by the test or by InvalidStateError.
SetException(r) ==
    /\ pc[r] = "set_exception"
    /\ fut' = IF fut[r] = "pending" THEN [fut EXCEPT ![r] = "exception"] ELSE fut
    /\ Goto(r, "cleanup")
    /\ UNCHANGED <<registryVars, observing, calls, finals, errs>>

Unregister(r) ==
    /\ pc[r] = "cleanup" /\ stateLock = NoOne
    /\ registered' = registered \ {r} /\ Goto(r, "done")
    /\ UNCHANGED <<stateLock, cancel, futureVars>>

WorkerStep(r) ==
    /\ \/ Register(r) \/ TokenCallback(r) \/ Consumed(r) \/ FinalCallback(r)
       \/ SetResult(r) \/ Handler(r) \/ ErrorCallback(r) \/ SetException(r)
       \/ Unregister(r) \/ ObserveCompletion(r)
    /\ UNCHANGED <<streamVars, closeVars, serverVars>>

UserStep(r) ==
    /\ Submit(r) \/ CancelFuture(r)
    /\ UNCHANGED <<streamVars, closeVars, serverVars>>

----------------------------------------------------------------------------
(* close()                                                                  *)

CloseGoto(c, phase) == closePc' = [closePc EXCEPT ![c] = phase]

\* `if self._closed: return`; the test and the assignment are two steps.
CloseTest(c) ==
    /\ closePc[c] = "idle"
    /\ CloseGoto(c, IF closed THEN "done" ELSE "flag")
    /\ UNCHANGED <<closed, channel, cancel, stream, queue>>

CloseFlag(c) ==
    /\ closePc[c] = "flag"
    /\ closed' = TRUE /\ CloseGoto(c, "sweep")
    /\ UNCHANGED <<channel, cancel, stream, queue>>

\* Fault: the events are swept without _async_state_lock.
CloseSweep_NoLock(c) ==
    /\ closePc[c] = "sweep"
    /\ cancel' = cancel \cup registered /\ CloseGoto(c, "stop")
    /\ UNCHANGED <<closed, channel, stream, queue>>

CloseSweep(c) ==
    /\ closePc[c] = "sweep" /\ stateLock = NoOne
    /\ cancel' = cancel \cup registered /\ CloseGoto(c, "stop")
    /\ UNCHANGED <<closed, channel, stream, queue>>

\* The open stream goes away under its reader, who may or may not be told
\* through the callback.
DropStream ==
    /\ stream' = NoOne
    /\ \/ /\ stream # NoOne
          /\ queue' = [queue EXCEPT ![stream] = Append(@, Event("error", stream, 0))]
       \/ UNCHANGED queue

\* stop_stream, without the stream lock; its RuntimeErrors are swallowed, any
\* other exception leaves close() with the channel open.
CloseStop(c) ==
    /\ closePc[c] = "stop"
    /\ DropStream \/ UNCHANGED <<stream, queue>>
    /\ CloseGoto(c, "close") \/ CloseGoto(c, "done")
    /\ UNCHANGED <<closed, channel, cancel>>

\* _client.close(), which may raise too, before or after it has closed.
CloseChannel(c) ==
    /\ closePc[c] = "close" /\ CloseGoto(c, "done")
    /\ \/ DropStream /\ channel' = FALSE
       \/ (DropStream \/ UNCHANGED <<stream, queue>>) /\ UNCHANGED channel
    /\ UNCHANGED <<closed, cancel>>

CloserStep(c) ==
    /\ CloseFlag(c) \/ CloseSweep(c) \/ CloseStop(c) \/ CloseChannel(c)
    /\ UNCHANGED <<pc, exit, lock, late, got, stateLock, registered, futureVars,
                   serverVars>>

CloseCall(c) ==
    /\ CloseTest(c)
    /\ UNCHANGED <<pc, exit, lock, late, got, stateLock, registered, futureVars,
                   serverVars>>

----------------------------------------------------------------------------
(* The server's responses, as response_callback puts them in the queue.     *)

Respond(r, events, tokens, isLast) ==
    /\ stream = r /\ pc[r] # "infer" /\ ~over
    /\ sent + tokens <= MaxTokens
    /\ queue' = [queue EXCEPT ![r] = @ \o events]
    /\ sent' = sent + tokens /\ over' = isLast
    /\ UNCHANGED <<pc, exit, lock, stream, late, got, registryVars, futureVars,
                   closeVars>>

Token(r) == Event("token", r, sent + 1)
Final(r) == Event("final", r, 0)
Error(r) == Event("error", r, 0)

\* Fault: the final flag of a response is put before its token.
ServerStep_FinalFirst(r) ==
    \/ Respond(r, <<Token(r)>>, 1, FALSE)
    \/ Respond(r, <<Final(r), Token(r)>>, 1, TRUE)

\* A token, the last one with the final flag on it or before an empty final
\* response; an error of the server or of the transport; a token the callback
\* fails to decode, after which the server goes on.
ServerStep(r) ==
    \/ Respond(r, <<Token(r)>>, 1, FALSE)
    \/ Respond(r, <<Token(r), Final(r)>>, 1, TRUE)
    \/ Respond(r, <<Final(r)>>, 0, TRUE)
    \/ Respond(r, <<Error(r)>>, 0, TRUE)
    \/ Respond(r, <<Error(r)>>, 1, FALSE)

----------------------------------------------------------------------------

\* Every request and every close() call is over.
Finished ==
    /\ \A r \in Req : pc[r] = "done"
    /\ observing = {} /\ \A c \in Closers : closePc[c] = "done"
    /\ UNCHANGED vars

Next ==
    \/ \E r \in Req : GeneratorStep(r) \/ ReleaseStep(r) \/ AmbientStep(r) \/ ServerStep(r)
    \/ \E r \in Async : UserStep(r) \/ WorkerStep(r)
    \/ \E c \in Closers : CloseCall(c) \/ CloserStep(c)
    \/ Finished

Spec == Init /\ [][Next]_vars

----------------------------------------------------------------------------
(* Fairness.  Threads that can run do run, and the clock advances: a worker *)
(* is a daemon thread, user callbacks return, and a lock is free again only *)
(* finitely often before each of the finitely many contenders has had it.   *)
(* Nothing obliges the server to answer, or the user to call or to cancel.  *)

\* A sync caller goes on with its iterator or drops it.
CallerReturns(r) ==
    /\ SyncCaller(r)
    /\ UNCHANGED <<registryVars, futureVars, closeVars, serverVars>>

Clock(r) ==
    /\ DeadlinePasses(r)
    /\ UNCHANGED <<registryVars, futureVars, closeVars, serverVars>>

FairSpec ==
    /\ Spec
    /\ \A r \in Req : WF_vars(GeneratorStep(r) \/ ReleaseStep(r)) /\ WF_vars(Clock(r))
    /\ \A r \in Sync : WF_vars(CallerReturns(r))
    /\ \A r \in Async : WF_vars(WorkerStep(r))
    /\ \A c \in Closers : WF_vars(CloserStep(c))

----------------------------------------------------------------------------
(* Correctness.                                                             *)

Before == {"idle", "register", "begin", "wait", "poll"}
Streaming == {"infer", "loop", "get", "yield", "call", "stop"}
Holding == {"locked", "start", "release"} \cup Streaming
Settling == {"consumed", "final", "set_result", "handler", "report",
             "set_exception", "cleanup"}

TypeOK ==
    /\ pc \in [Req -> Before \cup Holding \cup Settling \cup {"done"}]
    /\ exit \in [Req -> {"none", "final", "error", "timeout", "cancelled", "abandoned"}]
    /\ lock \in Req \cup {NoOne} /\ stream \in Req \cup {NoOne}
    /\ channel \in BOOLEAN /\ late \in {"no", "passed"} /\ closed \in BOOLEAN
    /\ queue \in [Req -> Seq(Events)]
    /\ got \in [Req -> Seq(Req \X Nat)]
    /\ stateLock \in Async \cup {NoOne}
    /\ registered \in SUBSET Async /\ cancel \in SUBSET Async
    /\ fut \in [Async -> {"none", "pending", "cancelled", "result", "exception"}]
    /\ observing \in SUBSET Async /\ finals \in SUBSET Async /\ errs \in SUBSET Async
    /\ calls \in [Async -> Nat]
    /\ closePc \in [Closers -> {"idle", "flag", "sweep", "stop", "close", "done"}]
    /\ sent \in 0..MaxTokens /\ over \in BOOLEAN

\* Streams are serialized: the open library stream is that of the lock's
\* holder, who is between start_stream and stop_stream; so nobody ever stops
\* or feeds another request's stream and no stream outlives its request.
StreamOfLockHolder ==
    stream # NoOne => lock = stream /\ pc[stream] \in Streaming

\* Every generator yields its own request's tokens, in the server's order,
\* from the first, none lost and none twice.
TokensInOrder ==
    \A r \in Req : got[r] = [i \in 1..Len(got[r]) |-> <<r, i>>]

\* A generator that ends on the final response has yielded every token the
\* server sent, and the server has no more to say.
FinalIsLast ==
    \A r \in Req : lock = r /\ exit[r] = "final" => over /\ Len(got[r]) = sent

\* A Future's success means that whole answer was delivered: token_callback
\* got every token and then the final call, and error_callback was not called.
SuccessIsComplete ==
    \A r \in Async : fut[r] = "result" =>
        /\ exit[r] = "final" /\ calls[r] = Len(got[r])
        /\ r \in finals /\ r \notin errs

\* The end-of-stream call and the error callback exclude each other.
FinalExcludesError == finals \cap errs = {}

\* Once a close() call has swept the cancel events, every worker in flight
\* has been told to stop, and no later stream_infer_async slips past it.
CloseReachesAllWorkers ==
    (\E c \in Closers : closePc[c] \in {"stop", "close"}) \/ ~channel
        => registered \subseteq cancel

\* Seen from outside the client is a queue of streams with one server.
Serial == INSTANCE SerialStreams WITH
    owner <- lock, log <- got,
    state <- [r \in Req |->
                IF lock = r THEN "streaming"
                ELSE IF pc[r] \in Before THEN "waiting"
                ELSE IF r \in Async /\ fut[r] = "result" THEN "succeeded"
                ELSE "ended"]

\* The client implements SerialStreams: each request has the stream at most
\* once, alone, its tokens come while it has it, and success comes after it.
ImplementsSerialStreams == Serial!Spec

\* Every submitted worker ends and forgets its cancel event, whatever the
\* server, the user's cancel() and close() do; so the lock comes back.
WorkersFinish ==
    \A r \in Async : (r \in registered) ~> (pc[r] = "done" /\ r \notin registered)

\* As long as nobody closes the client, every Future is settled.
FutureSettlesUnlessClosed ==
    \A r \in Async : (fut[r] = "pending") ~> (fut[r] # "pending" \/ closed)

\* Future.cancel() takes the request off the stream and off the lock.
CancelStopsStream ==
    \A r \in Async : (fut[r] = "cancelled") ~> [](stream # r /\ lock # r)

\* client/README.md:56: result() returns None on success and raises the
\* streaming exception on failure.
FutureSettles == \A r \in Async : (fut[r] = "pending") ~> (fut[r] # "pending")

============================================================================
