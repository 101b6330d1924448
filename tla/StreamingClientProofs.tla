----------------------- MODULE StreamingClientProofs -----------------------
(***************************************************************************)
(* Invariants of StreamingClient, proved for any number of threads, any    *)
(* number of close() calls and any max_tokens.                             *)
(***************************************************************************)
EXTENDS StreamingClient, SequenceTheorems, TLAPS

\* Async requests are requests, and NoOne is none.
LEMMA Requests == Async \subseteq Req /\ Sync \subseteq Req /\ NoOne \notin Req
BY ClientAssumption DEF Req

----------------------------------------------------------------------------
(* Types.                                                                   *)

\* The initial state has the right types.
LEMMA InitTypeOK == Init => TypeOK
<1> SUFFICES ASSUME Init PROVE TypeOK
  OBVIOUS
<1> USE DEF Init
<1>1. pc \in [Req -> Before \cup Holding \cup Settling \cup {"done"}]
  BY DEF Before
<1>2. queue \in [Req -> Seq(Events)] /\ got \in [Req -> Seq(Req \X Nat)]
  OBVIOUS
<1>3. sent \in 0..MaxTokens
  BY ClientAssumption
<1> QED
  BY <1>1, <1>2, <1>3 DEF TypeOK

\* Each step of a request's generator keeps the types.
LEMMA GeneratorTypeOK ==
    ASSUME TypeOK, NEW r \in Req, GeneratorStep(r)
    PROVE  TypeOK'
<1> USE DEF TypeOK, Before, Holding, Streaming, Settling, GeneratorStep, Goto, Leave,
            After, streamVars, registryVars, futureVars, closeVars, serverVars
<1>1. CASE Begin(r)
  BY <1>1 DEF Begin
<1>2. CASE Acquire(r)
  BY <1>2 DEF Acquire
<1>3. CASE Poll(r)
  BY <1>3 DEF Poll
<1>4. CASE Recheck(r)
  BY <1>4 DEF Recheck
<1>5. CASE StartStream(r)
  BY <1>5 DEF StartStream
<1>6. CASE SendRequest(r)
  BY <1>6 DEF SendRequest
<1>7. CASE LoopTest(r)
  BY <1>7 DEF LoopTest
<1>8. CASE Get(r)
  <2> DEFINE event == Head(queue[r])
  <2>1. queue[r] \in Seq(Events) /\ queue[r] # <<>>
    BY <1>8 DEF Get
  <2>2. event \in Events /\ Tail(queue[r]) \in Seq(Events)
    BY <2>1
  <2>3. event.kind \in {"token", "final", "error"} /\ <<event.of, event.n>> \in Req \X Nat
    BY <2>2 DEF Events
  <2>4. queue' \in [Req -> Seq(Events)]
    BY <1>8, <2>2 DEF Get
  <2>5. got' \in [Req -> Seq(Req \X Nat)]
    <3>1. Append(got[r], <<event.of, event.n>>) \in Seq(Req \X Nat)
      BY <2>3
    <3> QED
      BY <1>8, <3>1 DEF Get
  <2> QED
    BY <1>8, <2>3, <2>4, <2>5, ZenonT(60) DEF Get
<1>9. CASE GetEmpty(r)
  BY <1>9 DEF GetEmpty
<1>10. CASE StopStream(r)
  BY <1>10 DEF StopStream
<1>11. CASE TokenArrives(r)
  BY <1>11 DEF TokenArrives
<1> QED
  BY <1>1, <1>2, <1>3, <1>4, <1>5, <1>6, <1>7, <1>8, <1>9, <1>10, <1>11

\* So do its release of the lock, the clock and the consumer of a generator.
LEMMA ReleaseAndAmbientTypeOK ==
    ASSUME TypeOK, NEW r \in Req, ReleaseStep(r) \/ AmbientStep(r)
    PROVE  TypeOK'
<1> USE DEF TypeOK, Before, Holding, Streaming, Settling, Goto, Leave, After, streamVars,
            registryVars, futureVars, closeVars, serverVars
<1>1. CASE ReleaseStep(r)
  <2>1. queue' \in [Req -> Seq(Events)] /\ sent' \in 0..MaxTokens
    BY <1>1, ClientAssumption DEF ReleaseStep, Release
  <2> QED
    BY <1>1, <2>1 DEF ReleaseStep, Release
<1>2. CASE AmbientStep(r)
  BY <1>2 DEF AmbientStep, SyncCaller, DeadlinePasses
<1> QED
  BY <1>1, <1>2

\* So do the steps of stream_infer_async, of its worker and of the Future's owner.
LEMMA WorkerTypeOK ==
    ASSUME TypeOK, NEW r \in Async, WorkerStep(r) \/ UserStep(r)
    PROVE  TypeOK'
<1> USE Requests DEF TypeOK, Before, Holding, Streaming, Settling, WorkerStep, UserStep,
            Goto, Leave, streamVars, registryVars, futureVars, closeVars, serverVars
<1>1. CASE UserStep(r)
  BY <1>1 DEF Submit, CancelFuture
<1>2. CASE WorkerStep(r)
  <2>1. CASE Register(r)
    BY <2>1, <1>2 DEF Register
  <2>2. CASE TokenCallback(r)
    <3>1. calls' \in [Async -> Nat]
      BY <2>2 DEF TokenCallback
    <3> QED
      BY <2>2, <1>2, <3>1, ZenonT(60) DEF TokenCallback
  <2>3. CASE Consumed(r)
    BY <2>3, <1>2 DEF Consumed
  <2>4. CASE FinalCallback(r)
    <3>1. CASE Goto(r, "set_result") /\ finals' = finals \cup {r}
      BY <2>4, <1>2, <3>1 DEF FinalCallback
    <3>2. CASE Leave(r, "error", "handler") /\ UNCHANGED finals
      BY <2>4, <1>2, <3>2 DEF FinalCallback
    <3> QED
      BY <2>4, <3>1, <3>2 DEF FinalCallback
  <2>5. CASE SetResult(r)
    BY <2>5, <1>2 DEF SetResult
  <2>6. CASE Handler(r)
    BY <2>6, <1>2 DEF Handler
  <2>7. CASE ErrorCallback(r)
    BY <2>7, <1>2 DEF ErrorCallback
  <2>8. CASE SetException(r)
    BY <2>8, <1>2 DEF SetException
  <2>9. CASE Unregister(r)
    BY <2>9, <1>2 DEF Unregister
  <2>10. CASE ObserveCompletion(r)
    BY <2>10, <1>2 DEF ObserveCompletion
  <2> QED
    BY <1>2, <2>1, <2>2, <2>3, <2>4, <2>5, <2>6, <2>7, <2>8, <2>9, <2>10
<1> QED
  BY <1>1, <1>2

\* stop_stream leaves the stream, the queues and the response count well typed.
LEMMA DropStreamType ==
    ASSUME TypeOK, DropStream
    PROVE  stream' = NoOne /\ queue' \in [Req -> Seq(Events)]
<1>1. CASE UNCHANGED queue
  BY <1>1 DEF DropStream, TypeOK
<1>2. CASE stream # NoOne /\ queue' = [queue EXCEPT ![stream] = Append(@, Event("error", stream, 0))]
  <2>1. stream \in Req /\ queue[stream] \in Seq(Events)
    BY <1>2 DEF TypeOK
  <2>2. Event("error", stream, 0) \in Events
    BY <2>1 DEF Event, Events
  <2>3. Append(queue[stream], Event("error", stream, 0)) \in Seq(Events)
    BY <2>1, <2>2
  <2> QED
    BY <1>2, <2>3 DEF DropStream, TypeOK
<1> QED
  BY <1>1, <1>2 DEF DropStream

\* So do the steps of close().
LEMMA CloserTypeOK ==
    ASSUME TypeOK, NEW c \in Closers, CloseCall(c) \/ CloserStep(c)
    PROVE  TypeOK'
<1> USE DEF TypeOK, CloseGoto, futureVars, serverVars
<1>1. CASE CloseCall(c)
  BY <1>1 DEF CloseCall, CloseTest
<1>2. CASE CloserStep(c)
  <2>1. stream' \in Req \cup {NoOne} /\ queue' \in [Req -> Seq(Events)]
    BY <1>2, DropStreamType
       DEF CloserStep, CloseFlag, CloseSweep, CloseStop, CloseChannel
  <2>2. closed' \in BOOLEAN /\ channel' \in BOOLEAN
    BY <1>2 DEF CloserStep, CloseFlag, CloseSweep, CloseStop, CloseChannel
  <2>3. cancel' \in SUBSET Async
    BY <1>2 DEF CloserStep, CloseFlag, CloseSweep, CloseStop, CloseChannel
  <2>4. closePc' \in [Closers -> {"idle", "flag", "sweep", "stop", "close", "done"}]
    BY <1>2 DEF CloserStep, CloseFlag, CloseSweep, CloseStop, CloseChannel
  <2> QED
    BY <1>2, <2>1, <2>2, <2>3, <2>4 DEF CloserStep
<1> QED
  BY <1>1, <1>2

\* The five things a server does, as one use of Respond each.
LEMMA ServerResponds ==
    ASSUME TypeOK, NEW r \in Req, ServerStep(r)
    PROVE  \E events \in Seq(Events), tokens \in {0, 1}, isLast \in BOOLEAN :
               Respond(r, events, tokens, isLast)
<1>1. Token(r) \in Events /\ Final(r) \in Events /\ Error(r) \in Events
  BY DEF TypeOK, Token, Final, Error, Event, Events
<1>2. /\ <<Token(r)>> \in Seq(Events) /\ <<Token(r), Final(r)>> \in Seq(Events)
      /\ <<Final(r)>> \in Seq(Events) /\ <<Error(r)>> \in Seq(Events)
  BY <1>1
<1> QED
  BY <1>2 DEF ServerStep

\* So do the responses of the server.
LEMMA ServerTypeOK ==
    ASSUME TypeOK, NEW r \in Req, ServerStep(r)
    PROVE  TypeOK'
<1>1. PICK events \in Seq(Events), tokens \in {0, 1}, isLast \in BOOLEAN :
          Respond(r, events, tokens, isLast)
  BY ServerResponds
<1>2. queue' \in [Req -> Seq(Events)]
  <2>1. queue[r] \in Seq(Events)
    BY DEF TypeOK
  <2>2. queue[r] \o events \in Seq(Events)
    BY <2>1
  <2> QED
    BY <1>1, <2>2 DEF Respond, TypeOK
<1>3. sent' \in 0..MaxTokens
  BY <1>1, ClientAssumption DEF Respond, TypeOK
<1> QED
  BY <1>1, <1>2, <1>3 DEF Respond, TypeOK, registryVars, futureVars, closeVars

\* TypeOK is inductive.
LEMMA NextTypeOK == TypeOK /\ [Next]_vars => TypeOK'
<1> SUFFICES ASSUME TypeOK, [Next]_vars PROVE TypeOK'
  OBVIOUS
<1>1. CASE UNCHANGED vars
  BY <1>1 DEF TypeOK, vars, streamVars, registryVars, futureVars, closeVars, serverVars
<1>2. CASE Finished
  BY <1>1, <1>2 DEF Finished
<1> QED
  BY <1>1, <1>2, GeneratorTypeOK, ReleaseAndAmbientTypeOK, WorkerTypeOK, CloserTypeOK,
     ServerTypeOK DEF Next

\* Every variable keeps its type, and the server its limit of max_tokens.
THEOREM TypeCorrect == Spec => []TypeOK
BY InitTypeOK, NextTypeOK, PTL DEF Spec
----------------------------------------------------------------------------
(* Streams are serialized.                                                  *)

\* The lock's holder is the one thread in the locked region, and the open
\* stream belongs to a thread that is past start_stream and not yet past
\* stop_stream.
LockInv ==
    /\ \A r \in Req : lock = r <=> pc[r] \in Holding
    /\ \A r \in Req : stream = r => pc[r] \in Streaming

\* Nobody holds the lock at the start.
LEMMA InitLockInv == Init => LockInv
BY Requests DEF Init, LockInv, Holding, Streaming

\* A generator step moves the lock, the stream and pc together.
LEMMA GeneratorLockInv ==
    ASSUME TypeOK, LockInv, NEW r \in Req, GeneratorStep(r)
    PROVE  LockInv'
<1>0. pc \in [Req -> Before \cup Holding \cup Settling \cup {"done"}] /\ NoOne \notin Req
  BY Requests DEF TypeOK
<1> USE <1>0 DEF LockInv, Before, Holding, Streaming, Settling, GeneratorStep, Goto, Leave,
            After, streamVars
<1>1. CASE Begin(r)
  BY <1>1 DEF Begin
<1>2. CASE Acquire(r)
  BY <1>2 DEF Acquire
<1>3. CASE Poll(r)
  BY <1>3 DEF Poll
<1>4. CASE Recheck(r)
  BY <1>4 DEF Recheck
<1>5. CASE StartStream(r)
  BY <1>5 DEF StartStream
<1>6. CASE SendRequest(r)
  BY <1>6 DEF SendRequest
<1>7. CASE LoopTest(r)
  BY <1>7 DEF LoopTest
<1>8. CASE Get(r)
  BY <1>8 DEF Get
<1>9. CASE GetEmpty(r)
  BY <1>9 DEF GetEmpty
<1>10. CASE StopStream(r)
  BY <1>10 DEF StopStream
<1>11. CASE TokenArrives(r)
  BY <1>11 DEF TokenArrives
<1> QED
  BY <1>1, <1>2, <1>3, <1>4, <1>5, <1>6, <1>7, <1>8, <1>9, <1>10, <1>11

\* LockInv is inductive, given the types.
LEMMA NextLockInv == TypeOK /\ LockInv /\ [Next]_vars => LockInv'
<1> SUFFICES ASSUME TypeOK, LockInv, [Next]_vars PROVE LockInv'
  OBVIOUS
<1>0. pc \in [Req -> Before \cup Holding \cup Settling \cup {"done"}] /\ NoOne \notin Req
  BY Requests DEF TypeOK
<1>1. ASSUME NEW r \in Req, GeneratorStep(r) PROVE LockInv'
  BY <1>1, GeneratorLockInv
<1>2. ASSUME NEW r \in Req, ReleaseStep(r) PROVE LockInv'
  BY <1>0, <1>2 DEF LockInv, ReleaseStep, Release, Goto, After, Holding, Streaming
<1>3. ASSUME NEW r \in Req, AmbientStep(r) PROVE LockInv'
  BY <1>0, <1>3
     DEF LockInv, AmbientStep, SyncCaller, DeadlinePasses, Goto, Leave, Holding, Streaming,
         streamVars
<1>4. ASSUME NEW r \in Req, ServerStep(r) PROVE LockInv'
  <2>1. UNCHANGED <<pc, lock, stream>>
    BY <1>4 DEF ServerStep, Respond
  <2> QED
    BY <2>1 DEF LockInv
<1>5. ASSUME NEW r \in Async, UserStep(r) \/ WorkerStep(r) PROVE LockInv'
  \* A worker outside of the generator only moves between phases without the
  \* lock, or between two phases of its read loop.
  <2>1. UNCHANGED <<lock, stream>>
    BY <1>5 DEF UserStep, WorkerStep, streamVars
  <2>2. \/ UNCHANGED pc
        \/ \E from, to \in {"idle", "register", "begin", "done"} \cup Settling :
              pc[r] = from /\ pc' = [pc EXCEPT ![r] = to]
        \/ \E to \in {"loop", "stop"} : pc[r] = "call" /\ pc' = [pc EXCEPT ![r] = to]
    BY <1>5
       DEF UserStep, WorkerStep, Submit, CancelFuture, Register, TokenCallback, Consumed,
           FinalCallback, SetResult, Handler, ErrorCallback, SetException, Unregister,
           ObserveCompletion, Goto, Leave, Settling
  <2> QED
    BY <1>0, <2>1, <2>2 DEF LockInv, Holding, Streaming, Settling
<1>6. ASSUME NEW c \in Closers, CloseCall(c) \/ CloserStep(c) PROVE LockInv'
  BY <1>0, <1>6
     DEF LockInv, CloseCall, CloserStep, CloseTest, CloseFlag, CloseSweep, CloseStop,
         CloseChannel, DropStream
<1>7. CASE UNCHANGED vars \/ Finished
  BY <1>7 DEF LockInv, Finished, vars, streamVars
<1> QED
  BY <1>1, <1>2, <1>3, <1>4, <1>5, <1>6, <1>7 DEF Next

\* Whatever close(), cancel(), timeouts and failures do, the open library
\* stream is the one of the thread that holds _stream_lock.
THEOREM StreamsSerialized == Spec => []StreamOfLockHolder
<1>1. TypeOK /\ LockInv => StreamOfLockHolder
  BY Requests DEF TypeOK, LockInv, StreamOfLockHolder, Holding, Streaming
<1> QED
  BY <1>1, InitTypeOK, NextTypeOK, InitLockInv, NextLockInv, PTL DEF Spec
----------------------------------------------------------------------------
(* Tokens arrive in order.                                                  *)

\* The phases in which a request's generator has not ended.
Running == Before \cup {"locked", "start"} \cup (Streaming \ {"stop"})

\* Counting from the tokens already yielded, a token sits in the queue at the
\* place of its own number, and the final event right after the last one.
QueueOK(r) ==
    /\ stream = r /\ ~over => Len(queue[r]) + Len(got[r]) = sent
    /\ \A i \in 1..Len(queue[r]) :
          /\ queue[r][i].kind = "token" =>
                queue[r][i].of = r /\ queue[r][i].n = Len(got[r]) + i
          /\ queue[r][i].kind = "final" => over /\ Len(got[r]) + i = sent + 1

Reads(r) ==
    /\ \A i \in 1..Len(got[r]) : got[r][i] = <<r, i>>
    /\ pc[r] \in Running => exit[r] = "none"
    /\ pc[r] \in Before \cup {"locked", "start"} => got[r] = <<>> /\ queue[r] = <<>>
    /\ pc[r] = "infer" => got[r] = <<>> /\ (stream = r => queue[r] = <<>>)
    /\ pc[r] \in {"locked", "start", "infer"} => sent = 0 /\ ~over
    /\ lock = r /\ pc[r] \in Running => QueueOK(r)
    /\ lock = r /\ exit[r] = "final" => over /\ Len(got[r]) = sent

ReadInv ==
    /\ \A r \in Req : Reads(r)
    /\ lock = NoOne => sent = 0 /\ ~over

\* Nothing is sent or read at the start.
LEMMA InitReadInv == Init => ReadInv
BY Requests
   DEF Init, ReadInv, Reads, Running, Before, Streaming
\* A step that leaves the tokens and the queues alone, and opens no stream,
\* keeps a queue in order.
LEMMA QueueKept ==
    ASSUME NEW q \in Req, QueueOK(q), UNCHANGED <<queue[q], got[q], sent, over>>,
           stream' = q => stream = q
    PROVE  QueueOK(q)'
BY DEF QueueOK

\* A step of other threads does not disturb what q reads.
LEMMA ReadsKept ==
    ASSUME NEW q \in Req, Reads(q), sent' = sent, over' = over,
           UNCHANGED <<pc[q], exit[q], queue[q], got[q]>>,
           lock' = q => lock = q, stream' = q => stream = q
    PROVE  Reads(q)'
<1>1. QueueOK(q) => QueueOK(q)'
  BY QueueKept
<1> QED
  BY <1>1 DEF Reads

\* A position in the queue, before and after the head is yielded.
LEMMA TokenTaken == \A g, i \in Nat : (g + 1) + i = g + (i + 1)
OBVIOUS

\* A generator step takes from the head of its queue or leaves it.
LEMMA GeneratorReadInv ==
    ASSUME TypeOK, LockInv, ReadInv, NEW r \in Req, GeneratorStep(r)
    PROVE  ReadInv'
<1>0. /\ pc \in [Req -> Before \cup Holding \cup Settling \cup {"done"}]
      /\ exit \in [Req -> {"none", "final", "error", "timeout", "cancelled", "abandoned"}]
      /\ queue \in [Req -> Seq(Events)] /\ got \in [Req -> Seq(Req \X Nat)]
      /\ NoOne \notin Req /\ sent \in Nat /\ UNCHANGED <<sent, over>>
  BY Requests, ClientAssumption DEF TypeOK, GeneratorStep, serverVars
<1>1. (lock = NoOne => sent = 0 /\ ~over)'
  BY <1>0
     DEF ReadInv, GeneratorStep, Begin, Acquire, Poll, Recheck, StartStream, SendRequest,
         LoopTest, Get, GetEmpty, StopStream, TokenArrives, streamVars
<1> SUFFICES ASSUME NEW q \in Req PROVE Reads(q)'
  BY <1>1 DEF ReadInv
<1>2. Reads(q) /\ (lock = q <=> pc[q] \in Holding) /\ (stream = q => pc[q] \in Streaming)
  BY DEF ReadInv, LockInv
<1>3. CASE ~ Get(r) /\ ~ StartStream(r)
  <2>1. UNCHANGED <<queue, got>> /\ stream' \in {stream, NoOne}
    BY <1>3
       DEF GeneratorStep, Begin, Acquire, Poll, Recheck, SendRequest, LoopTest, GetEmpty,
           StopStream, TokenArrives, streamVars
  <2>2. QueueOK(q) => QueueOK(q)'
    BY <1>0, <2>1, QueueKept
  <2> USE <1>0, <1>2, <2>1, <2>2
      DEF Reads, Running, Before, Holding, Streaming, Settling, Goto, Leave, After,
          streamVars
  <2>3. CASE Begin(r)
    BY <2>3 DEF Begin
  <2>4. CASE Acquire(r)
    <3>1. CASE q = r /\ lock = NoOne
      <4>1. QueueOK(q)'
        BY <2>4, <3>1 DEF Acquire, QueueOK, ReadInv
      <4> QED
        BY <2>4, <3>1, <4>1 DEF Acquire, ReadInv
    <3>2. CASE q = r /\ lock # NoOne
      BY <2>4, <3>2 DEF Acquire
    <3>3. CASE q # r
      BY <2>4, <3>3, ReadsKept DEF Acquire
    <3> QED
      BY <3>1, <3>2, <3>3
  <2>5. CASE Poll(r)
    BY <2>5 DEF Poll
  <2>6. CASE Recheck(r)
    BY <2>6 DEF Recheck
  <2>7. CASE SendRequest(r)
    BY <2>7 DEF SendRequest
  <2>8. CASE LoopTest(r)
    BY <2>8 DEF LoopTest
  <2>9. CASE GetEmpty(r)
    BY <2>9 DEF GetEmpty
  <2>10. CASE StopStream(r)
    BY <2>10 DEF StopStream
  <2>11. CASE TokenArrives(r)
    BY <2>11 DEF TokenArrives
  <2> QED
    BY <1>3, <2>3, <2>4, <2>5, <2>6, <2>7, <2>8, <2>9, <2>10, <2>11 DEF GeneratorStep
<1>4. CASE StartStream(r)
  BY <1>0, <1>2, <1>4
     DEF StartStream, Reads, Running, Before, Holding, Streaming, Goto, Leave, QueueOK
<1>5. CASE Get(r)
  <2>1. CASE q # r
    <3>1. UNCHANGED <<pc[q], exit[q], queue[q], got[q], lock, stream>>
      BY <1>0, <1>5, <2>1 DEF Get, Goto, Leave
    <3> QED
      BY <1>0, <1>2, <3>1, ReadsKept
  <2>2. CASE q = r
    <3> DEFINE event == Head(queue[r])
    <3>1. pc[r] = "get" /\ lock = r /\ QueueOK(r) /\ exit[r] = "none"
      BY <1>2, <1>5, <2>2 DEF Get, Reads, Running, Holding, Streaming
    <3>2. /\ queue[r] \in Seq(Events) /\ queue[r] # <<>> /\ got[r] \in Seq(Req \X Nat)
          /\ event = queue[r][1] /\ Len(queue[r]) > 0
          /\ Len(Tail(queue[r])) = Len(queue[r]) - 1
          /\ \A i \in 1..Len(Tail(queue[r])) : Tail(queue[r])[i] = queue[r][i + 1]
      BY <1>0, <1>5 DEF Get
    <3>3. CASE event.kind = "token"
      <4>1. /\ pc' = [pc EXCEPT ![r] = "yield"] /\ UNCHANGED <<exit, lock, stream>>
            /\ queue'[r] = Tail(queue[r])
            /\ got'[r] = Append(got[r], <<event.of, event.n>>)
        BY <1>0, <1>5, <3>3 DEF Get, Goto
      <4>2. <<event.of, event.n>> = <<r, Len(got[r]) + 1>>
        BY <3>1, <3>2, <3>3 DEF QueueOK
      <4>3. Len(got'[r]) = Len(got[r]) + 1 /\ \A i \in 1..Len(got'[r]) : got'[r][i] = <<r, i>>
        BY <1>2, <2>2, <3>2, <4>1, <4>2 DEF Reads
      <4>4. QueueOK(r)'
        <5>1. Len(queue'[r]) = Len(queue[r]) - 1
          BY <3>2, <4>1
        <5>2. stream' = r /\ ~over' => Len(queue'[r]) + Len(got'[r]) = sent'
          BY <1>0, <3>1, <3>2, <4>1, <4>3, <5>1 DEF QueueOK
        <5>3. ASSUME NEW i \in 1..Len(queue'[r])
              PROVE  /\ queue'[r][i].kind = "token" =>
                           queue'[r][i].of = r /\ queue'[r][i].n = Len(got'[r]) + i
                     /\ queue'[r][i].kind = "final" => over' /\ Len(got'[r]) + i = sent' + 1
          <6>1. i + 1 \in 1..Len(queue[r]) /\ queue'[r][i] = queue[r][i + 1]
            BY <3>2, <4>1, <5>1, SMTT(60)
          <6>2. /\ queue[r][i + 1].kind = "token" =>
                     queue[r][i + 1].of = r /\ queue[r][i + 1].n = Len(got[r]) + (i + 1)
                /\ queue[r][i + 1].kind = "final" => over /\ Len(got[r]) + (i + 1) = sent + 1
            BY <3>1, <6>1 DEF QueueOK
          <6>3. Len(got[r]) \in Nat /\ i \in Nat
            BY <3>2
          <6>4. Len(got'[r]) = Len(got[r]) + 1
            BY <4>3
          <6>5. Len(got'[r]) + i = Len(got[r]) + (i + 1)
            BY <6>3, <6>4, TokenTaken, Zenon
          <6>6. sent' = sent /\ over' = over
            BY <1>0
          <6> QED
            BY <6>1, <6>2, <6>5, <6>6
        <5> QED
          BY <5>2, <5>3 DEF QueueOK
      <4> QED
        BY <1>0, <2>2, <3>1, <4>1, <4>3, <4>4 DEF Reads, Running, Before, Streaming
    <3>4. CASE event.kind # "token"
      <4>1. /\ pc' = [pc EXCEPT ![r] = "stop"] /\ exit' = [exit EXCEPT ![r] = event.kind]
            /\ UNCHANGED <<got, lock, stream>>
        BY <1>5, <3>4 DEF Get, Leave
      <4>2. event.kind = "final" => over /\ Len(got[r]) = sent
        <5>1. 1 \in 1..Len(queue[r]) /\ Len(got[r]) \in Nat
          BY <3>2
        <5>2. event.kind = "final" => over /\ Len(got[r]) + 1 = sent + 1
          BY <3>1, <3>2, <5>1 DEF QueueOK
        <5> QED
          BY <1>0, <5>1, <5>2
      <4> QED
        BY <1>0, <1>2, <2>2, <3>1, <4>1, <4>2 DEF Reads, Running, Before, Streaming
    <3> QED
      BY <3>3, <3>4
  <2> QED
    BY <2>1, <2>2
<1> QED
  BY <1>3, <1>4, <1>5

\* Releasing the lock forgets the open request; the clock reads nothing.
LEMMA ReleaseAndAmbientReadInv ==
    ASSUME TypeOK, LockInv, ReadInv, NEW r \in Req, ReleaseStep(r) \/ AmbientStep(r)
    PROVE  ReadInv'
<1>0. /\ pc \in [Req -> Before \cup Holding \cup Settling \cup {"done"}]
      /\ exit \in [Req -> {"none", "final", "error", "timeout", "cancelled", "abandoned"}]
      /\ queue \in [Req -> Seq(Events)] /\ got \in [Req -> Seq(Req \X Nat)]
      /\ NoOne \notin Req
  BY Requests DEF TypeOK
<1>1. (lock = NoOne => sent = 0 /\ ~over)'
  BY DEF ReadInv, ReleaseStep, Release, AmbientStep, SyncCaller, DeadlinePasses, streamVars,
         serverVars
<1> SUFFICES ASSUME NEW q \in Req PROVE Reads(q)'
  BY <1>1 DEF ReadInv
<1>2. Reads(q) /\ (lock = q <=> pc[q] \in Holding) /\ (lock = r <=> pc[r] \in Holding)
  BY DEF ReadInv, LockInv
<1>3. CASE ReleaseStep(r)
  BY <1>0, <1>2, <1>3
     DEF ReleaseStep, Release, Goto, After, Reads, Running, Before, Holding, Streaming, QueueOK
<1>4. CASE AmbientStep(r)
  <2>1. UNCHANGED <<queue, got, sent, over, lock, stream>>
    BY <1>4 DEF AmbientStep, SyncCaller, DeadlinePasses, streamVars, serverVars
  <2>2. QueueOK(q) => QueueOK(q)'
    BY <2>1, QueueKept
  <2> QED
    BY <1>0, <1>2, <1>4, <2>1, <2>2
       DEF AmbientStep, SyncCaller, DeadlinePasses, Goto, Leave, Reads, Running, Before, Streaming
<1> QED
  BY <1>3, <1>4

\* Workers and Futures read what the generator has yielded, and add nothing.
LEMMA WorkerReadInv ==
    ASSUME TypeOK, LockInv, ReadInv, NEW r \in Async, UserStep(r) \/ WorkerStep(r)
    PROVE  ReadInv'
<1>0. /\ pc \in [Req -> Before \cup Holding \cup Settling \cup {"done"}]
      /\ exit \in [Req -> {"none", "final", "error", "timeout", "cancelled", "abandoned"}]
      /\ NoOne \notin Req /\ r \in Req
  BY Requests DEF TypeOK
<1>1. UNCHANGED <<lock, stream, queue, got, sent, over>>
  BY DEF UserStep, WorkerStep, streamVars, serverVars
<1>2. \/ UNCHANGED <<pc, exit>>
      \/ /\ \E from \in {"idle", "register"}, to \in {"register", "begin"} :
               pc[r] = from /\ pc' = [pc EXCEPT ![r] = to]
         /\ UNCHANGED exit
      \/ pc[r] = "call" /\ pc' = [pc EXCEPT ![r] = "loop"] /\ UNCHANGED exit
      \/ pc[r] = "call" /\ pc' = [pc EXCEPT ![r] = "stop"] /\ exit' = [exit EXCEPT ![r] = "error"]
      \/ /\ \E from \in {"idle"} \cup Settling, to \in Settling \cup {"done"} :
               pc[r] = from /\ pc' = [pc EXCEPT ![r] = to]
         /\ exit' \in {exit, [exit EXCEPT ![r] = "error"]}
  BY DEF UserStep, WorkerStep, Submit, CancelFuture, Register, TokenCallback, Consumed,
         FinalCallback, SetResult, Handler, ErrorCallback, SetException, Unregister,
         ObserveCompletion, Goto, Leave, Settling
<1> SUFFICES ASSUME NEW q \in Req PROVE Reads(q)'
  BY <1>1 DEF ReadInv
<1>3. Reads(q) /\ (lock = q <=> pc[q] \in Holding)
  BY DEF ReadInv, LockInv
<1>4. QueueOK(q) => QueueOK(q)'
  BY <1>1, QueueKept
<1> QED
  BY <1>0, <1>1, <1>2, <1>3, <1>4 DEF Reads, Running, Before, Holding, Streaming, Settling

\* close() may drop the open stream, and appends to no queue.
LEMMA CloserReadInv ==
    ASSUME TypeOK, LockInv, ReadInv, NEW c \in Closers, CloseCall(c) \/ CloserStep(c)
    PROVE  ReadInv'
<1>0. queue \in [Req -> Seq(Events)] /\ NoOne \notin Req /\ stream \in Req \cup {NoOne}
  BY Requests DEF TypeOK
<1>1. UNCHANGED <<pc, exit, lock, got, sent, over>>
  BY DEF CloseCall, CloserStep, serverVars
<1>2. UNCHANGED <<stream, queue>> \/ DropStream
  BY DEF CloseCall, CloserStep, CloseTest, CloseFlag, CloseSweep, CloseStop, CloseChannel
<1> SUFFICES ASSUME NEW q \in Req PROVE Reads(q)'
  BY <1>1 DEF ReadInv
<1>3. Reads(q) /\ (stream = q => pc[q] \in Streaming)
  BY DEF ReadInv, LockInv
<1>4. CASE UNCHANGED queue[q] /\ stream' \in {stream, NoOne}
  BY <1>0, <1>1, <1>3, <1>4, ReadsKept
<1>5. CASE stream = q /\ stream' = NoOne /\ queue'[q] = Append(queue[q], Event("error", q, 0))
  <2>1. pc[q] \in Streaming /\ queue[q] \in Seq(Events)
    BY <1>0, <1>3, <1>5
  <2>2. QueueOK(q) => QueueOK(q)'
    <3>1. /\ Len(queue'[q]) = Len(queue[q]) + 1
          /\ \A i \in 1..Len(queue'[q]) :
                \/ i \in 1..Len(queue[q]) /\ queue'[q][i] = queue[q][i]
                \/ queue'[q][i] = Event("error", q, 0)
      BY <1>5, <2>1
    <3>2. Event("error", q, 0).kind = "error"
      BY DEF Event
    <3> QED
      BY <1>0, <1>1, <1>5, <3>1, <3>2 DEF QueueOK
  <2> QED
    BY <1>0, <1>1, <1>3, <1>5, <2>1, <2>2 DEF Reads, Before, Streaming
<1> QED
  BY <1>0, <1>2, <1>4, <1>5 DEF DropStream
\* A response's events carry on the numbering of the tokens sent before.
Continues(r, events, tokens, isLast) ==
    /\ \A k \in 1..Len(events) :
          /\ events[k].kind = "token" => events[k].of = r /\ events[k].n = sent + k
          /\ events[k].kind = "final" => isLast /\ k = tokens + 1
    /\ ~isLast => Len(events) = tokens

\* Positions in a queue of q events after m more, numbered on from g tokens.
LEMMA Renumbered ==
    \A q, g, m \in Nat : \A i \in 1..(q + m) :
        i > q => \E k \in 1..m : i = q + k /\ (q + g) + k = g + i
<1> SUFFICES ASSUME NEW q \in Nat, NEW g \in Nat, NEW m \in Nat, NEW i \in 1..(q + m), i > q
             PROVE  \E k \in 1..m : i = q + k /\ (q + g) + k = g + i
  OBVIOUS
<1>1. i - q \in 1..m /\ i = q + (i - q) /\ (q + g) + (i - q) = g + i
  OBVIOUS
<1> QED
  BY <1>1

\* What a response appends continues the numbering of its queue.
LEMMA QueueExtended ==
    ASSUME TypeOK, NEW r \in Req, QueueOK(r), stream = r,
           NEW events \in Seq(Events), NEW tokens \in {0, 1}, NEW isLast \in BOOLEAN,
           Respond(r, events, tokens, isLast), Continues(r, events, tokens, isLast)
    PROVE  QueueOK(r)'
<1>1. /\ queue \in [Req -> Seq(Events)] /\ got \in [Req -> Seq(Req \X Nat)] /\ sent \in Nat
  BY ClientAssumption DEF TypeOK
<1>2. /\ queue'[r] = queue[r] \o events /\ got' = got /\ stream' = stream
      /\ sent' = sent + tokens /\ over' = isLast /\ ~over
  BY <1>1 DEF Respond
<1>3. /\ queue[r] \in Seq(Events) /\ Len(queue[r]) \in Nat /\ Len(got[r]) \in Nat
      /\ Len(events) \in Nat /\ Len(queue'[r]) = Len(queue[r]) + Len(events)
  BY <1>1, <1>2
<1>4. Len(queue[r]) + Len(got[r]) = sent
  BY <1>2 DEF QueueOK
<1>5. ASSUME NEW i \in 1..Len(queue'[r])
      PROVE  /\ queue'[r][i].kind = "token" =>
                   queue'[r][i].of = r /\ queue'[r][i].n = Len(got'[r]) + i
             /\ queue'[r][i].kind = "final" => over' /\ Len(got'[r]) + i = sent' + 1
  <2>1. CASE i <= Len(queue[r])
    <3>1. i \in 1..Len(queue[r]) /\ queue'[r][i] = queue[r][i]
      BY <1>2, <1>3, <2>1
    <3>2. /\ queue[r][i].kind = "token" =>
                queue[r][i].of = r /\ queue[r][i].n = Len(got[r]) + i
          /\ queue[r][i].kind # "final"
      BY <1>2, <3>1 DEF QueueOK
    <3> QED
      BY <1>2, <3>1, <3>2
  <2>2. CASE i > Len(queue[r])
    <3>1. PICK k \in 1..Len(events) : i = Len(queue[r]) + k /\ sent + k = Len(got[r]) + i
      <4>1. i \in 1..(Len(queue[r]) + Len(events))
        BY <1>3
      <4> QED
        BY <1>3, <1>4, <2>2, <4>1, Renumbered, Zenon
    <3>2. queue'[r][i] = events[k]
      BY <1>2, <1>3, <2>2, <3>1, SMTT(60)
    <3>3. /\ events[k].kind = "token" => events[k].of = r /\ events[k].n = sent + k
          /\ events[k].kind = "final" => isLast /\ k = tokens + 1
      BY DEF Continues
    <3>4. events[k].kind = "final" => Len(got[r]) + i = sent + tokens + 1
      BY <1>1, <3>1, <3>3
    <3> QED
      BY <1>2, <3>1, <3>2, <3>3, <3>4
  <2> QED
    BY <1>3, <2>1, <2>2
<1>6. stream' = r /\ ~over' => Len(queue'[r]) + Len(got'[r]) = sent'
  BY <1>1, <1>2, <1>3, <1>4 DEF Continues
<1> QED
  BY <1>5, <1>6 DEF QueueOK

\* A response is appended to the queue of the open request alone.
LEMMA ServerReadInv ==
    ASSUME TypeOK, LockInv, ReadInv, NEW r \in Req, ServerStep(r)
    PROVE  ReadInv'
<1>0. queue \in [Req -> Seq(Events)] /\ NoOne \notin Req /\ sent \in Nat
  BY Requests, ClientAssumption DEF TypeOK
<1>1. /\ stream = r /\ pc[r] # "infer" /\ ~over /\ UNCHANGED <<pc, exit, lock, stream, got>>
      /\ \A q \in Req : q # r => queue'[q] = queue[q]
  BY <1>0 DEF ServerStep, Respond
<1>2. lock = r /\ pc[r] \in Streaming /\ Reads(r)
  BY <1>1 DEF LockInv, ReadInv, Holding
<1>3. QueueOK(r) => QueueOK(r)'
  <2> SUFFICES ASSUME QueueOK(r) PROVE QueueOK(r)'
    OBVIOUS
  <2>0. /\ Token(r).kind = "token" /\ Token(r).of = r /\ Token(r).n = sent + 1
        /\ Final(r).kind = "final" /\ Error(r).kind = "error"
        /\ Token(r) \in Events /\ Final(r) \in Events /\ Error(r) \in Events
    BY <1>0 DEF Token, Final, Error, Event, Events
  <2>1. CASE Respond(r, <<Token(r)>>, 1, FALSE)
    <3>1. <<Token(r)>> \in Seq(Events) /\ Continues(r, <<Token(r)>>, 1, FALSE)
      BY <1>0, <2>0 DEF Continues
    <3> QED
      BY <1>1, <2>1, <3>1, QueueExtended
  <2>2. CASE Respond(r, <<Token(r), Final(r)>>, 1, TRUE)
    <3>1. <<Token(r), Final(r)>> \in Seq(Events) /\ Continues(r, <<Token(r), Final(r)>>, 1, TRUE)
      BY <1>0, <2>0 DEF Continues
    <3> QED
      BY <1>1, <2>2, <3>1, QueueExtended
  <2>3. CASE Respond(r, <<Final(r)>>, 0, TRUE)
    <3>1. <<Final(r)>> \in Seq(Events) /\ Continues(r, <<Final(r)>>, 0, TRUE)
      BY <1>0, <2>0 DEF Continues
    <3> QED
      BY <1>1, <2>3, <3>1, QueueExtended
  <2>4. CASE Respond(r, <<Error(r)>>, 0, TRUE)
    <3>1. <<Error(r)>> \in Seq(Events) /\ Continues(r, <<Error(r)>>, 0, TRUE)
      BY <1>0, <2>0 DEF Continues
    <3> QED
      BY <1>1, <2>4, <3>1, QueueExtended
  <2>5. CASE Respond(r, <<Error(r)>>, 1, FALSE)
    <3>1. <<Error(r)>> \in Seq(Events) /\ Continues(r, <<Error(r)>>, 1, FALSE)
      BY <1>0, <2>0 DEF Continues
    <3> QED
      BY <1>1, <2>5, <3>1, QueueExtended
  <2> QED
    BY <2>1, <2>2, <2>3, <2>4, <2>5 DEF ServerStep
<1>4. Reads(r)'
  BY <1>0, <1>1, <1>2, <1>3 DEF Reads, Before, Streaming
<1>5. ASSUME NEW q \in Req, q # r PROVE Reads(q)'
  <2>1. pc[q] \notin Holding /\ Reads(q)
    BY <1>2, <1>5 DEF LockInv, ReadInv
  <2> QED
    BY <1>1, <1>2, <1>5, <2>1 DEF Reads, Holding, Streaming
<1> QED
  BY <1>0, <1>1, <1>2, <1>4, <1>5 DEF ReadInv

\* ReadInv is inductive, given the types and LockInv.
LEMMA NextReadInv == TypeOK /\ LockInv /\ ReadInv /\ [Next]_vars => ReadInv'
<1> SUFFICES ASSUME TypeOK, LockInv, ReadInv, [Next]_vars PROVE ReadInv'
  OBVIOUS
<1>1. CASE UNCHANGED vars \/ Finished
  <2>1. UNCHANGED <<pc, exit, lock, stream, queue, got, sent, over>>
    BY <1>1 DEF Finished, vars, streamVars, serverVars
  <2> QED
    BY <2>1, ReadsKept DEF ReadInv
<1> QED
  BY <1>1, GeneratorReadInv, ReleaseAndAmbientReadInv, WorkerReadInv, CloserReadInv,
     ServerReadInv DEF Next

\* The three together hold in every reachable state.
LEMMA ReadInvariant == Spec => [](TypeOK /\ LockInv /\ ReadInv)
BY InitTypeOK, NextTypeOK, InitLockInv, NextLockInv, InitReadInv, NextReadInv, PTL DEF Spec

\* No generator skips, repeats or reorders a token, or yields another request's.
THEOREM TokensOrdered == Spec => []TokensInOrder
<1>1. TypeOK /\ ReadInv => TokensInOrder
  <2> SUFFICES ASSUME TypeOK, ReadInv, NEW r \in Req
               PROVE  got[r] = [i \in 1..Len(got[r]) |-> <<r, i>>]
    BY DEF TokensInOrder
  <2>1. got[r] \in Seq(Req \X Nat) /\ \A i \in 1..Len(got[r]) : got[r][i] = <<r, i>>
    BY DEF TypeOK, ReadInv, Reads
  <2>2. got[r] \in [1..Len(got[r]) -> Req \X Nat]
    BY <2>1, LenProperties
  <2> QED
    BY <2>1, <2>2
<1> QED
  BY <1>1, ReadInvariant, PTL

\* A generator that ends on the final response has yielded all that was sent.
THEOREM FinalComesLast == Spec => []FinalIsLast
<1>1. ReadInv => FinalIsLast
  BY DEF ReadInv, Reads, FinalIsLast
<1> QED
  BY <1>1, ReadInvariant, PTL

----------------------------------------------------------------------------
(* close() reaches every worker.                                            *)

\* A close() call has swept the cancel events, or closed the channel since.
Swept == (\E c \in Closers : closePc[c] \in {"stop", "close"}) \/ ~channel

\* The client is marked as closed before the sweep, a caller that saw it open
\* holds _async_state_lock until its event is in, and so nothing can be
\* added once the sweep has been through.
CloseInv ==
    /\ \A c \in Closers : closePc[c] \in {"sweep", "stop", "close"} => closed
    /\ \A r \in Async : pc[r] = "register" => stateLock = r
    /\ Swept => closed /\ stateLock = NoOne /\ registered \subseteq cancel

\* Nobody has called close() at the start, nor stream_infer_async.
LEMMA InitCloseInv == Init => CloseInv
BY Requests DEF Init, CloseInv, Swept

\* A step that only moves threads of the generator does not concern close().
LEMMA CloseInvKept ==
    ASSUME CloseInv, UNCHANGED <<closePc, channel, closed, stateLock, registered, cancel>>,
           \A r \in Async : pc'[r] = "register" => pc[r] = "register"
    PROVE  CloseInv'
BY DEF CloseInv, Swept

\* CloseInv is inductive, given the types.
LEMMA NextCloseInv == TypeOK /\ CloseInv /\ [Next]_vars => CloseInv'
<1> SUFFICES ASSUME TypeOK, CloseInv, [Next]_vars PROVE CloseInv'
  OBVIOUS
<1>0. /\ pc \in [Req -> Before \cup Holding \cup Settling \cup {"done"}]
      /\ closePc \in [Closers -> {"idle", "flag", "sweep", "stop", "close", "done"}]
      /\ NoOne \notin Req /\ Async \subseteq Req
  BY Requests DEF TypeOK
<1>1. ASSUME NEW r \in Req, GeneratorStep(r) PROVE CloseInv'
  <2>1. pc' = pc \/ \E to \in Holding \cup {"done", "consumed", "wait", "poll"} :
                        pc' = [pc EXCEPT ![r] = to]
    BY <1>0, <1>1
       DEF GeneratorStep, Begin, Acquire, Poll, Recheck, StartStream, SendRequest, LoopTest,
           Get, GetEmpty, StopStream, TokenArrives, Goto, Leave, After, Holding, Streaming
  <2>2. UNCHANGED <<closePc, channel, closed, stateLock, registered, cancel>>
    BY <1>1 DEF GeneratorStep, registryVars, closeVars
  <2>3. \A q \in Async : pc'[q] = "register" => pc[q] = "register"
    BY <1>0, <2>1 DEF Holding, Streaming
  <2> QED
    BY <2>2, <2>3, CloseInvKept
<1>2. ASSUME NEW r \in Req, ReleaseStep(r) \/ AmbientStep(r) \/ ServerStep(r)
      PROVE  CloseInv'
  <2>1. /\ UNCHANGED <<closePc, channel, closed, stateLock, registered, cancel>>
        /\ pc' = pc \/ \E to \in {"done", "consumed", "loop", "stop"} :
                           pc' = [pc EXCEPT ![r] = to]
    BY <1>2
       DEF ReleaseStep, Release, AmbientStep, SyncCaller, DeadlinePasses, ServerStep, Respond,
           Goto, Leave, After, registryVars, closeVars
  <2>2. \A q \in Async : pc'[q] = "register" => pc[q] = "register"
    BY <1>0, <2>1
  <2> QED
    BY <2>1, <2>2, CloseInvKept
<1>3. ASSUME NEW r \in Async, UserStep(r) PROVE CloseInv'
  <2>1. CASE Submit(r)
    BY <1>0, <1>3, <2>1
       DEF CloseInv, Swept, UserStep, Submit, Goto, Leave, closeVars
  <2>2. CASE CancelFuture(r)
    BY <1>3, <2>2, CloseInvKept DEF UserStep, CancelFuture, registryVars, closeVars
  <2> QED
    BY <1>3, <2>1, <2>2 DEF UserStep
<1>4. ASSUME NEW r \in Async, WorkerStep(r) PROVE CloseInv'
  <2>0. UNCHANGED <<closePc, channel, closed>>
    BY <1>4 DEF WorkerStep, closeVars
  <2>1. CASE Register(r)
    BY <1>0, <2>0, <2>1 DEF CloseInv, Swept, Register, Goto
  <2>2. CASE Unregister(r)
    BY <1>0, <2>0, <2>2 DEF CloseInv, Swept, Unregister, Goto
  <2>3. CASE ObserveCompletion(r)
    BY <2>0, <2>3 DEF CloseInv, Swept, ObserveCompletion
  <2>4. CASE ~Register(r) /\ ~Unregister(r) /\ ~ObserveCompletion(r)
    <3>1. /\ UNCHANGED <<stateLock, registered, cancel>>
          /\ \E to \in {"loop", "stop"} \cup Settling : pc' = [pc EXCEPT ![r] = to]
      BY <1>4, <2>4
         DEF WorkerStep, TokenCallback, Consumed, FinalCallback, SetResult, Handler,
             ErrorCallback, SetException, Goto, Leave, Settling, registryVars
    <3>2. \A q \in Async : pc'[q] = "register" => pc[q] = "register"
      BY <1>0, <3>1 DEF Settling
    <3> QED
      BY <2>0, <3>1, <3>2, CloseInvKept
  <2> QED
    BY <2>1, <2>2, <2>3, <2>4
<1>5. ASSUME NEW c \in Closers, CloseCall(c) \/ CloserStep(c) PROVE CloseInv'
  <2>0. UNCHANGED <<pc, stateLock, registered>>
    BY <1>5 DEF CloseCall, CloserStep
  <2>1. CASE CloseTest(c)
    BY <1>0, <2>0, <2>1 DEF CloseInv, Swept, CloseTest, CloseGoto
  <2>2. CASE CloseFlag(c)
    BY <1>0, <2>0, <2>2 DEF CloseInv, Swept, CloseFlag, CloseGoto
  <2>3. CASE CloseSweep(c)
    BY <1>0, <2>0, <2>3 DEF CloseInv, Swept, CloseSweep, CloseGoto
  <2>4. CASE CloseStop(c)
    BY <1>0, <2>0, <2>4 DEF CloseInv, Swept, CloseStop, CloseGoto
  <2>5. CASE CloseChannel(c)
    BY <1>0, <2>0, <2>5 DEF CloseInv, Swept, CloseChannel, CloseGoto
  <2> QED
    BY <1>5, <2>1, <2>2, <2>3, <2>4, <2>5 DEF CloseCall, CloserStep
<1>6. CASE UNCHANGED vars \/ Finished
  BY <1>6, CloseInvKept DEF Finished, vars, registryVars, closeVars
<1> QED
  BY <1>1, <1>2, <1>3, <1>4, <1>5, <1>6 DEF Next

\* From the sweep on, every worker in flight has been told to stop, however
\* submissions, cancellations and other close() calls interleave with it.
THEOREM CloseIsThorough == Spec => []CloseReachesAllWorkers
<1>1. CloseInv => CloseReachesAllWorkers
  BY DEF CloseInv, Swept, CloseReachesAllWorkers
<1> QED
  BY <1>1, InitTypeOK, NextTypeOK, InitCloseInv, NextCloseInv, PTL DEF Spec

----------------------------------------------------------------------------
(* What a Future's outcome says.                                            *)

\* The token a generator has yielded and token_callback has not returned from.
InHand(r) == IF pc[r] \in {"yield", "call"} THEN 1 ELSE 0

\* How far a request came: what was delivered, why its generator ended, and
\* which of the final call, the error callback and the Future know of it.
Outcome(r) ==
    /\ exit[r] \in {"none", "final"} => calls[r] + InHand(r) = Len(got[r])
    /\ exit[r] = "none" => pc[r] \in Running
    /\ exit[r] # "abandoned" /\ (exit[r] = "cancelled" => r \in cancel)
    /\ pc[r] \in {"final", "set_result"} => exit[r] = "final"
    /\ fut[r] \in {"pending", "cancelled"}
          \/ pc[r] \in {"idle", "register", "cleanup", "done"}
    /\ pc[r] = "set_result" => r \in finals
    /\ r \in finals => /\ r \notin errs
                       /\ \/ pc[r] \in {"set_result", "cleanup", "done"}
                          \/ pc[r] = "handler" /\ fut[r] = "cancelled"
    /\ r \in errs => pc[r] \in {"set_exception", "cleanup", "done"}
    /\ fut[r] = "result" =>
          /\ pc[r] \in {"cleanup", "done"} /\ exit[r] = "final"
          /\ calls[r] = Len(got[r]) /\ r \in finals /\ r \notin errs

OutcomeInv == \A r \in Async : Outcome(r)

\* Nothing has been delivered or reported at the start.
LEMMA InitOutcomeInv == Init => OutcomeInv
BY Requests DEF Init, OutcomeInv, Outcome, InHand, Running, Before

\* A step that moves other threads keeps q's outcome.
LEMMA OutcomeKept ==
    ASSUME NEW q \in Async, Outcome(q), cancel \subseteq cancel',
           UNCHANGED <<pc[q], exit[q], got[q], fut[q], calls[q], q \in finals, q \in errs>>
    PROVE  Outcome(q)'
BY DEF Outcome, InHand

\* A generator ends once, on a token that it has handed out.
LEMMA GeneratorOutcomeInv ==
    ASSUME TypeOK, ReadInv, OutcomeInv, NEW r \in Req, GeneratorStep(r)
    PROVE  OutcomeInv'
<1>0. /\ pc \in [Req -> Before \cup Holding \cup Settling \cup {"done"}]
      /\ exit \in [Req -> {"none", "final", "error", "timeout", "cancelled", "abandoned"}]
      /\ queue \in [Req -> Seq(Events)] /\ got \in [Req -> Seq(Req \X Nat)]
      /\ calls \in [Async -> Nat] /\ Async \subseteq Req
      /\ UNCHANGED <<cancel, fut, calls, finals, errs>>
  BY Requests DEF TypeOK, GeneratorStep, registryVars, futureVars
<1> SUFFICES ASSUME NEW q \in Async PROVE Outcome(q)'
  BY DEF OutcomeInv
<1>1. Outcome(q) /\ q \in Req /\ (pc[q] \in Running => exit[q] = "none")
  BY <1>0 DEF OutcomeInv, ReadInv, Reads
<1>2. CASE q # r
  <2>1. UNCHANGED <<pc[q], exit[q], got[q]>>
    BY <1>0, <1>2
       DEF GeneratorStep, Begin, Acquire, Poll, Recheck, StartStream, SendRequest, LoopTest,
           Get, GetEmpty, StopStream, TokenArrives, Goto, Leave, streamVars
  <2> QED
    BY <1>0, <1>1, <2>1, OutcomeKept
<1>3. CASE q = r /\ Get(r)
  <2> DEFINE event == Head(queue[r])
  <2>0. /\ pc[q] = "get" /\ exit[q] = "none" /\ calls[q] = Len(got[q])
        /\ queue[q] \in Seq(Events) /\ queue[q] # <<>>
        /\ got[q] \in Seq(Req \X Nat) /\ calls[q] \in Nat
    BY <1>0, <1>1, <1>3 DEF Get, Outcome, InHand, Running, Streaming
  <2>1. CASE event.kind = "token"
    <3>1. /\ pc'[q] = "yield" /\ exit' = exit
          /\ got'[q] = Append(got[q], <<event.of, event.n>>)
      BY <1>0, <1>1, <1>3, <2>1 DEF Get, Goto
    <3>2. Len(got'[q]) = Len(got[q]) + 1
      BY <2>0, <3>1
    <3> QED
      BY <1>0, <1>1, <2>0, <3>1, <3>2 DEF Outcome, InHand, Running, Streaming
  <2>2. CASE event.kind # "token"
    <3>0. event \in Events
      BY <1>3, <2>0
    <3>1. event.kind \in {"final", "error"}
      BY <2>2, <3>0 DEF Events
    <3>2. pc'[q] = "stop" /\ exit'[q] = event.kind /\ got' = got
      BY <1>0, <1>1, <1>3, <2>2 DEF Get, Leave
    <3> QED
      BY <1>0, <1>1, <2>0, <3>1, <3>2 DEF Outcome, InHand
  <2> QED
    BY <2>1, <2>2
<1>4. CASE q = r /\ ~Get(r)
  <2>0. got' = got
    BY <1>4
       DEF GeneratorStep, Begin, Acquire, Poll, Recheck, StartStream, SendRequest, LoopTest,
           GetEmpty, StopStream, TokenArrives, streamVars
  <2> USE <1>0, <1>1, <1>4, <2>0
      DEF Outcome, InHand, Running, Before, Streaming, Goto, Leave, After
  <2>1. CASE Begin(r)
    BY <2>1, ClientAssumption DEF Begin
  <2>2. CASE Acquire(r)
    BY <2>2 DEF Acquire
  <2>3. CASE Poll(r)
    BY <2>3, ClientAssumption DEF Poll
  <2>4. CASE Recheck(r)
    BY <2>4 DEF Recheck
  <2>5. CASE StartStream(r)
    BY <2>5 DEF StartStream
  <2>6. CASE SendRequest(r)
    BY <2>6 DEF SendRequest
  <2>7. CASE LoopTest(r)
    BY <2>7 DEF LoopTest
  <2>8. CASE GetEmpty(r)
    BY <2>8 DEF GetEmpty
  <2>9. CASE StopStream(r)
    BY <2>9 DEF StopStream
  <2>10. CASE TokenArrives(r)
    BY <2>10 DEF TokenArrives
  <2> QED
    BY <2>1, <2>2, <2>3, <2>4, <2>5, <2>6, <2>7, <2>8, <2>9, <2>10 DEF GeneratorStep
<1> QED
  BY <1>2, <1>3, <1>4

\* Letting go of the lock, time passing and a response change no outcome.
LEMMA SurroundingsOutcomeInv ==
    ASSUME TypeOK, OutcomeInv, NEW r \in Req,
           ReleaseStep(r) \/ AmbientStep(r) \/ ServerStep(r)
    PROVE  OutcomeInv'
<1>0. /\ pc \in [Req -> Before \cup Holding \cup Settling \cup {"done"}]
      /\ exit \in [Req -> {"none", "final", "error", "timeout", "cancelled", "abandoned"}]
      /\ Async \subseteq Req /\ Async \cap Sync = {}
      /\ UNCHANGED <<cancel, got, fut, calls, finals, errs>>
  BY Requests, ClientAssumption
     DEF TypeOK, ReleaseStep, Release, AmbientStep, SyncCaller, DeadlinePasses, ServerStep,
         Respond, streamVars, registryVars, futureVars
<1> SUFFICES ASSUME NEW q \in Async PROVE Outcome(q)'
  BY DEF OutcomeInv
<1>1. Outcome(q) /\ q \in Req
  BY <1>0 DEF OutcomeInv
<1>2. UNCHANGED <<pc[q], exit[q]>> => Outcome(q)'
  BY <1>0, <1>1, OutcomeKept
<1>3. CASE q = r /\ Release(r)
  BY <1>0, <1>1, <1>3
     DEF Release, Goto, After, Outcome, InHand, Running, Before, Streaming
<1>4. CASE ReleaseStep(r) /\ q # r
  <2>1. UNCHANGED <<pc[q], exit[q]>>
    BY <1>0, <1>4 DEF ReleaseStep, Release, Goto
  <2> QED
    BY <1>2, <2>1
<1>5. CASE AmbientStep(r)
  <2>1. UNCHANGED <<pc[q], exit[q]>>
    BY <1>0, <1>5 DEF AmbientStep, SyncCaller, DeadlinePasses, Goto, Leave
  <2> QED
    BY <1>2, <2>1
<1>6. CASE ServerStep(r)
  <2>1. UNCHANGED <<pc, exit>>
    BY <1>6 DEF ServerStep, Respond
  <2> QED
    BY <1>2, <2>1
<1> QED
  BY <1>3, <1>4, <1>5, <1>6 DEF ReleaseStep

\* A worker reports an outcome once, and only what happened.
LEMMA WorkerOutcomeInv ==
    ASSUME TypeOK, OutcomeInv, NEW r \in Async, UserStep(r) \/ WorkerStep(r)
    PROVE  OutcomeInv'
<1>0. /\ pc \in [Req -> Before \cup Holding \cup Settling \cup {"done"}]
      /\ exit \in [Req -> {"none", "final", "error", "timeout", "cancelled", "abandoned"}]
      /\ fut \in [Async -> {"none", "pending", "cancelled", "result", "exception"}]
      /\ calls \in [Async -> Nat] /\ Async \subseteq Req /\ UNCHANGED got
      /\ got \in [Req -> Seq(Req \X Nat)]
  BY Requests DEF TypeOK, UserStep, WorkerStep, streamVars
<1> SUFFICES ASSUME NEW q \in Async PROVE Outcome(q)'
  BY DEF OutcomeInv
<1>1. Outcome(q) /\ q \in Req /\ Len(got[q]) \in Nat
  BY <1>0 DEF OutcomeInv
<1>2. cancel \subseteq cancel'
  BY DEF UserStep, WorkerStep, Submit, CancelFuture, Register, TokenCallback, Consumed,
         FinalCallback, SetResult, Handler, ErrorCallback, SetException, Unregister,
         ObserveCompletion, registryVars
<1>3. CASE q # r
  <2>1. /\ UNCHANGED <<pc[q], exit[q], fut[q], calls[q]>>
        /\ (q \in finals)' = (q \in finals) /\ (q \in errs)' = (q \in errs)
    BY <1>0, <1>3
       DEF UserStep, WorkerStep, Submit, CancelFuture, Register, TokenCallback, Consumed,
           FinalCallback, SetResult, Handler, ErrorCallback, SetException, Unregister,
           ObserveCompletion, Goto, Leave, futureVars
  <2> QED
    BY <1>0, <1>1, <1>2, <2>1, OutcomeKept
<1>4. CASE q = r
  <2> USE <1>0, <1>1, <1>2, <1>4
      DEF Outcome, InHand, Running, Before, Streaming, Goto, Leave, futureVars
  <2>1. CASE Submit(r)
    BY <2>1 DEF Submit
  <2>2. CASE CancelFuture(r)
    BY <2>2 DEF CancelFuture
  <2>3. CASE Register(r)
    BY <2>3 DEF Register
  <2>4. CASE TokenCallback(r)
    BY <2>4 DEF TokenCallback
  <2>5. CASE Consumed(r)
    BY <2>5 DEF Consumed
  <2>6. CASE FinalCallback(r)
    BY <2>6 DEF FinalCallback
  <2>7. CASE SetResult(r)
    BY <2>7 DEF SetResult
  <2>8. CASE Handler(r)
    BY <2>8 DEF Handler
  <2>9. CASE ErrorCallback(r)
    BY <2>9 DEF ErrorCallback
  <2>10. CASE SetException(r)
    BY <2>10 DEF SetException
  <2>11. CASE Unregister(r)
    BY <2>11 DEF Unregister
  <2>12. CASE ObserveCompletion(r)
    BY <2>12 DEF ObserveCompletion
  <2> QED
    BY <2>1, <2>2, <2>3, <2>4, <2>5, <2>6, <2>7, <2>8, <2>9, <2>10, <2>11, <2>12
       DEF UserStep, WorkerStep
<1> QED
  BY <1>3, <1>4

\* OutcomeInv is inductive, given the types and what the generators read.
LEMMA NextOutcomeInv == TypeOK /\ ReadInv /\ OutcomeInv /\ [Next]_vars => OutcomeInv'
<1> SUFFICES ASSUME TypeOK, ReadInv, OutcomeInv, [Next]_vars PROVE OutcomeInv'
  OBVIOUS
<1>1. ASSUME NEW c \in Closers, CloseCall(c) \/ CloserStep(c) PROVE OutcomeInv'
  <2>1. UNCHANGED <<pc, exit, got, fut, calls, finals, errs>> /\ cancel \subseteq cancel'
    BY <1>1
       DEF CloseCall, CloserStep, CloseTest, CloseFlag, CloseSweep, CloseStop, CloseChannel,
           futureVars
  <2> QED
    BY <2>1, OutcomeKept DEF OutcomeInv
<1>2. CASE UNCHANGED vars \/ Finished
  BY <1>2, OutcomeKept
     DEF OutcomeInv, Finished, vars, streamVars, registryVars, futureVars
<1> QED
  BY <1>1, <1>2, GeneratorOutcomeInv, SurroundingsOutcomeInv, WorkerOutcomeInv DEF Next

\* The outcome invariant, with those it rests on, holds in every state.
LEMMA OutcomeInvariant == Spec => [](TypeOK /\ LockInv /\ ReadInv /\ OutcomeInv)
BY InitTypeOK, NextTypeOK, InitLockInv, NextLockInv, InitReadInv, NextReadInv,
   InitOutcomeInv, NextOutcomeInv, PTL DEF Spec

\* A Future succeeds only when every token of a complete answer has been
\* through token_callback, the final call was made and no error was reported.
THEOREM SuccessMeansComplete == Spec => []SuccessIsComplete
<1>1. OutcomeInv => SuccessIsComplete
  BY DEF OutcomeInv, Outcome, SuccessIsComplete
<1> QED
  BY <1>1, OutcomeInvariant, PTL

\* No request gets both the end-of-stream call and the error callback.
THEOREM FinalOrError == Spec => []FinalExcludesError
<1>1. TypeOK /\ OutcomeInv => FinalExcludesError
  BY DEF TypeOK, OutcomeInv, Outcome, FinalExcludesError
<1> QED
  BY <1>1, OutcomeInvariant, PTL

----------------------------------------------------------------------------
(* The client implements SerialStreams.                                     *)

\* The abstract state of a request, and of all of them, as Serial maps them.
Phase(r) ==
    IF lock = r THEN "streaming"
    ELSE IF pc[r] \in Before THEN "waiting"
    ELSE IF r \in Async /\ fut[r] = "result" THEN "succeeded"
    ELSE "ended"

Phases == [r \in Req |-> Phase(r)]

\* Requests none of whose steps counts, or one of which has changed.
LEMMA PhasesKept ==
    ASSUME \A q \in Req : Phase(q)' = Phase(q)
    PROVE  Phases' = Phases
BY DEF Phases

LEMMA PhaseChanged ==
    ASSUME NEW r \in Req, NEW s, Phase(r)' = s,
           \A q \in Req : q # r => Phase(q)' = Phase(q)
    PROVE  Phases' = [Phases EXCEPT ![r] = s]
BY DEF Phases

\* A step that leaves the lock and the tokens alone and moves one request
\* within a phase is invisible.
LEMMA Invisible ==
    ASSUME NEW r \in Req, UNCHANGED <<lock, got>>, Phase(r)' = Phase(r),
           \A q \in Req : q # r =>
               pc'[q] = pc[q] /\ (q \in Async => (fut'[q] = "result" <=> fut[q] = "result"))
    PROVE  UNCHANGED <<lock, got, Phases>>
<1>1. ASSUME NEW q \in Req PROVE Phase(q)' = Phase(q)
  BY DEF Phase
<1> QED
  BY <1>1, PhasesKept

\* The initial states agree.
LEMMA InitRefines == Init => Serial!Init
BY Requests DEF Init, Serial!Init, Before

\* What the invariants say of the thread that makes a step.
LEMMA StepFacts ==
    ASSUME TypeOK, LockInv, ReadInv, OutcomeInv
    PROVE  /\ pc \in [Req -> Before \cup Holding \cup Settling \cup {"done"}]
           /\ got \in [Req -> Seq(Req \X Nat)] /\ queue \in [Req -> Seq(Events)]
           /\ fut \in [Async -> {"none", "pending", "cancelled", "result", "exception"}]
           /\ NoOne \notin Req /\ Async \subseteq Req
           /\ \A q \in Req : lock = q <=> pc[q] \in Holding
           /\ \A q \in Async : fut[q] = "result" => pc[q] \in {"cleanup", "done"}
BY Requests DEF TypeOK, LockInv, OutcomeInv, Outcome

\* A generator step opens, refuses or yields, or is invisible.
LEMMA GeneratorRefines ==
    ASSUME TypeOK, LockInv, ReadInv, OutcomeInv, NEW r \in Req, GeneratorStep(r)
    PROVE  \/ UNCHANGED <<lock, got, Phases>>
           \/ Serial!Open(r) \/ Serial!Refuse(r) \/ Serial!Yield(r)
<1>0. UNCHANGED fut
  BY DEF GeneratorStep, futureVars
<1> USE StepFacts, <1>0
<1>1. ASSUME UNCHANGED <<lock, got>>, pc[r] \in Holding,
             \E to \in Holding : pc' = [pc EXCEPT ![r] = to]
      PROVE  UNCHANGED <<lock, got, Phases>>
  <2>1. Phase(r)' = Phase(r) /\ \A q \in Req : q # r => pc'[q] = pc[q]
    BY <1>1 DEF Phase
  <2> QED
    BY <1>1, <2>1, Invisible
<1>2. ASSUME UNCHANGED <<lock, got>>, pc[r] \in {"begin", "wait", "poll"},
             \E to \in {"wait", "poll"} : pc' = [pc EXCEPT ![r] = to]
      PROVE  UNCHANGED <<lock, got, Phases>>
  <2>1. Phase(r)' = Phase(r) /\ \A q \in Req : q # r => pc'[q] = pc[q]
    BY <1>2 DEF Phase, Before, Holding, Streaming
  <2> QED
    BY <1>2, <2>1, Invisible
<1>3. ASSUME UNCHANGED <<lock, got>>, pc[r] \in {"begin", "poll"},
             pc' = [pc EXCEPT ![r] = After(r)]
      PROVE  Serial!Refuse(r)
  <2>1. Phase(r) = "waiting" /\ Phase(r)' = "ended"
    BY <1>3 DEF Phase, After, Before, Holding, Streaming
  <2>2. \A q \in Req : q # r => Phase(q)' = Phase(q)
    BY <1>3 DEF Phase
  <2>3. Phases[r] = "waiting" /\ Phases' = [Phases EXCEPT ![r] = "ended"]
    BY <2>1, <2>2, PhaseChanged DEF Phases
  <2> QED
    BY <1>3, <2>3 DEF Serial!Refuse, Serial!Become, Phases, Phase
<1>4. CASE Acquire(r) /\ lock = NoOne
  <2>1. Phase(r) = "waiting" /\ Phase(r)' = "streaming"
    BY <1>4 DEF Acquire, Phase, Before
  <2>2. \A q \in Req : q # r => Phase(q)' = Phase(q)
    BY <1>4 DEF Acquire, Goto, Phase
  <2>3. Phases[r] = "waiting" /\ Phases' = [Phases EXCEPT ![r] = "streaming"]
    BY <2>1, <2>2, PhaseChanged DEF Phases
  <2> QED
    BY <1>4, <2>3 DEF Acquire, Serial!Open, Serial!Become, Phases, Phase
<1>5. CASE Get(r) /\ Head(queue[r]).kind = "token"
  <2> DEFINE event == Head(queue[r])
  <2>1. pc[r] = "get" /\ lock = r /\ QueueOK(r) /\ queue[r] # <<>>
    BY <1>5 DEF Get, ReadInv, Reads, Running, Holding, Streaming
  <2>2. <<event.of, event.n>> = <<r, Len(got[r]) + 1>>
    <3>1. event = queue[r][1] /\ 1 \in 1..Len(queue[r])
      BY <2>1
    <3> QED
      BY <1>5, <2>1, <3>1 DEF QueueOK
  <2>3. got' = [got EXCEPT ![r] = Append(@, <<r, Len(@) + 1>>)] /\ lock' = lock
    BY <1>5, <2>2 DEF Get
  <2>4. ASSUME NEW q \in Req PROVE Phase(q)' = Phase(q)
    BY <1>5, <2>1 DEF Get, Goto, Phase
  <2>5. Phases' = Phases
    BY <2>4, PhasesKept
  <2> QED
    BY <2>1, <2>3, <2>5 DEF Serial!Yield, Phases, Phase
<1>6. CASE Begin(r) \/ Poll(r)
  BY <1>2, <1>3, <1>6 DEF Begin, Poll, Goto, Leave, streamVars
<1>7. CASE Acquire(r) /\ lock # NoOne
  BY <1>2, <1>7 DEF Acquire, Goto
<1>8. CASE Recheck(r) \/ StartStream(r) \/ SendRequest(r) \/ LoopTest(r) \/ GetEmpty(r)
  BY <1>1, <1>8
     DEF Recheck, StartStream, SendRequest, LoopTest, GetEmpty, Goto, Leave, streamVars,
         Holding, Streaming
<1>9. CASE StopStream(r) \/ TokenArrives(r) \/ (Get(r) /\ Head(queue[r]).kind # "token")
  BY <1>1, <1>9
     DEF StopStream, TokenArrives, Get, Goto, Leave, streamVars, Holding, Streaming
<1> QED
  BY <1>4, <1>5, <1>6, <1>7, <1>8, <1>9 DEF GeneratorStep

\* Release gives the stream back; the rest of the surroundings is invisible.
LEMMA SurroundingsRefine ==
    ASSUME TypeOK, LockInv, ReadInv, OutcomeInv, NEW r \in Req,
           ReleaseStep(r) \/ AmbientStep(r) \/ ServerStep(r)
    PROVE  UNCHANGED <<lock, got, Phases>> \/ Serial!Close(r)
<1> USE StepFacts
<1>0. UNCHANGED fut
  BY DEF ReleaseStep, AmbientStep, ServerStep, Respond, futureVars
<1>1. CASE ReleaseStep(r)
  <2>0. /\ pc[r] = "release" /\ lock' = NoOne /\ got' = got
        /\ pc' = [pc EXCEPT ![r] = After(r)]
    BY <1>1 DEF ReleaseStep, Release, Goto
  <2>1. lock = r /\ Phase(r)' = "ended"
    BY <1>0, <2>0 DEF Phase, After, Before, Holding
  <2>2. \A q \in Req : q # r => Phase(q)' = Phase(q)
    BY <1>0, <2>0, <2>1 DEF Phase
  <2>3. Phases' = [Phases EXCEPT ![r] = "ended"]
    BY <2>1, <2>2, PhaseChanged
  <2> QED
    BY <2>0, <2>1, <2>3 DEF Serial!Close, Serial!Become, Phases, Phase
<1>2. CASE AmbientStep(r)
  <2>1. UNCHANGED <<lock, got>> /\ Phase(r)' = Phase(r)
    BY <1>0, <1>2
       DEF AmbientStep, SyncCaller, DeadlinePasses, Goto, Leave, Phase, Before, Holding,
           Streaming, streamVars
  <2>2. \A q \in Req : q # r => pc'[q] = pc[q]
    BY <1>2 DEF AmbientStep, SyncCaller, DeadlinePasses, Goto, Leave
  <2> QED
    BY <1>0, <2>1, <2>2, Invisible
<1>3. CASE ServerStep(r)
  <2>1. UNCHANGED <<lock, got, pc>>
    BY <1>3 DEF ServerStep, Respond
  <2> QED
    BY <1>0, <2>1, PhasesKept DEF Phase
<1> QED
  BY <1>1, <1>2, <1>3

\* A worker succeeds or is refused, or is invisible.
LEMMA WorkerRefines ==
    ASSUME TypeOK, LockInv, ReadInv, OutcomeInv, NEW r \in Async,
           UserStep(r) \/ WorkerStep(r)
    PROVE  UNCHANGED <<lock, got, Phases>> \/ Serial!Refuse(r) \/ Serial!Succeed(r)
<1> USE StepFacts
<1>0. UNCHANGED <<lock, got>> /\ r \in Req
  BY DEF UserStep, WorkerStep, streamVars
<1>1. \A q \in Req : q # r => pc'[q] = pc[q] /\ (q \in Async => fut'[q] = fut[q])
  BY DEF UserStep, WorkerStep, Submit, CancelFuture, Register, TokenCallback, Consumed,
         FinalCallback, SetResult, Handler, ErrorCallback, SetException, Unregister,
         ObserveCompletion, Goto, Leave, futureVars
<1>2. \A q \in Req : q # r => Phase(q)' = Phase(q)
  BY <1>0, <1>1 DEF Phase
<1>3. CASE SetResult(r) /\ fut[r] = "pending"
  <2>1. Phase(r) = "ended" /\ Phase(r)' = "succeeded"
    BY <1>0, <1>3 DEF SetResult, Goto, Phase, Before, Holding, Streaming
  <2>2. Phases[r] = "ended" /\ Phases' = [Phases EXCEPT ![r] = "succeeded"]
    BY <1>0, <1>2, <2>1, PhaseChanged DEF Phases
  <2> QED
    BY <1>0, <2>2 DEF Serial!Succeed, Serial!Become, Phases, Phase
<1>4. CASE Submit(r) /\ closed
  <2>1. Phase(r) = "waiting" /\ Phase(r)' = "ended"
    BY <1>0, <1>4 DEF Submit, Leave, Phase, Before, Holding, Streaming, futureVars
  <2>2. Phases[r] = "waiting" /\ Phases' = [Phases EXCEPT ![r] = "ended"]
    BY <1>0, <1>2, <2>1, PhaseChanged DEF Phases
  <2> QED
    BY <1>0, <2>2 DEF Serial!Refuse, Serial!Become, Phases, Phase
<1>5. CASE Phase(r)' = Phase(r)
  BY <1>0, <1>1, <1>5, Invisible
<1>6. CASE UserStep(r) /\ ~(Submit(r) /\ closed)
  <2>1. Phase(r)' = Phase(r)
    BY <1>0, <1>6
       DEF UserStep, Submit, CancelFuture, Goto, Phase, Before, Holding, Streaming,
           futureVars
  <2> QED
    BY <1>5, <2>1
<1>7. CASE WorkerStep(r) /\ ~(SetResult(r) /\ fut[r] = "pending")
  <2>1. Phase(r)' = Phase(r)
    BY <1>0, <1>7
       DEF WorkerStep, Register, TokenCallback, Consumed, FinalCallback, SetResult, Handler,
           ErrorCallback, SetException, Unregister, ObserveCompletion, Goto, Leave, Phase,
           Before, Holding, Streaming, futureVars
  <2> QED
    BY <1>5, <2>1
<1> QED
  BY <1>3, <1>4, <1>6, <1>7

\* Every step of the client is one of SerialStreams or invisible to it.
LEMMA NextRefines ==
    TypeOK /\ LockInv /\ ReadInv /\ OutcomeInv /\ [Next]_vars
        => [Serial!Next]_(Serial!vars)
<1> SUFFICES ASSUME TypeOK, LockInv, ReadInv, OutcomeInv, [Next]_vars
             PROVE  Serial!Next \/ UNCHANGED <<lock, got, Phases>>
  BY DEF Serial!vars, Phases, Phase
<1>1. ASSUME NEW c \in Closers, CloseCall(c) \/ CloserStep(c)
      PROVE  UNCHANGED <<lock, got, Phases>>
  <2>1. UNCHANGED <<pc, lock, got, fut>>
    BY <1>1 DEF CloseCall, CloserStep, futureVars
  <2> QED
    BY <2>1, PhasesKept DEF Phase
<1>2. CASE UNCHANGED vars \/ Finished
  <2>1. UNCHANGED <<pc, lock, got, fut>>
    BY <1>2 DEF Finished, vars, streamVars, futureVars
  <2> QED
    BY <2>1, PhasesKept DEF Phase
<1> QED
  BY <1>1, <1>2, Requests, GeneratorRefines, SurroundingsRefine, WorkerRefines
     DEF Next, Serial!Next

\* The client, with its locks, its queue and its faults, behaves as a queue
\* of streams with one server.
THEOREM ClientImplementsSerialStreams == Spec => ImplementsSerialStreams
BY InitRefines, NextRefines, OutcomeInvariant, PTL
   DEF Spec, ImplementsSerialStreams, Serial!Spec

----------------------------------------------------------------------------
(* How long a cancelled worker can go on.                                   *)

\* The steps a worker whose cancel event is set has left, at most.
StepsToGo(phase) ==
    CASE phase = "done"                                 -> 0
      [] phase = "cleanup"                              -> 1
      [] phase \in {"handler", "set_exception"}         -> 2
      [] phase \in {"consumed", "set_result", "report"} -> 3
      [] phase \in {"release", "final", "poll"}         -> 4
      [] phase \in {"stop", "locked"}                   -> 5
      [] phase \in {"loop", "yield", "wait"}            -> 6
      [] phase \in {"begin", "infer", "get", "call"}    -> 7
      [] phase \in {"register", "start"}                -> 8
      [] phase = "idle"                                 -> 9

\* A step brings a worker nearer to its end, or is not its own.
Nearer(r) == pc'[r] = pc[r] \/ StepsToGo(pc'[r]) < StepsToGo(pc[r])

\* A step from one phase to another that has fewer steps left does so.
LEMMA MovesNearer ==
    ASSUME TypeOK, NEW r \in Async, NEW from, NEW to,
           pc[r] = from, pc' = [pc EXCEPT ![r] = to], StepsToGo(to) < StepsToGo(from)
    PROVE  Nearer(r)
BY Requests DEF TypeOK, Nearer

\* A step of the generator looks at the event wherever it could go round.
LEMMA GeneratorNearer ==
    ASSUME TypeOK, NEW r \in Async, r \in cancel, GeneratorStep(r) \/ ReleaseStep(r)
    PROVE  Nearer(r)
<1>0. /\ r \in Req /\ r \notin Sync
      /\ \A to : pc' = [pc EXCEPT ![r] = to] /\ StepsToGo(to) < StepsToGo(pc[r]) => Nearer(r)
  BY Requests, MovesNearer, ClientAssumption
<1>1. CASE Begin(r)
  BY <1>0, <1>1 DEF Begin, Goto, Leave, After, StepsToGo
<1>2. CASE Acquire(r) \/ Poll(r)
  BY <1>0, <1>2 DEF Acquire, Poll, Goto, Leave, After, StepsToGo
<1>3. CASE Recheck(r) \/ StartStream(r)
  BY <1>0, <1>3 DEF Recheck, StartStream, Goto, Leave, After, StepsToGo
<1>4. CASE SendRequest(r) \/ LoopTest(r)
  BY <1>0, <1>4 DEF SendRequest, LoopTest, Goto, Leave, After, StepsToGo
<1>5. CASE Get(r)
  <2>1. pc[r] = "get" /\ (Goto(r, "yield") \/ \E why : Leave(r, why, "stop"))
    BY <1>5 DEF Get
  <2> QED
    BY <2>1, <1>0 DEF Goto, Leave, StepsToGo
<1>6. CASE GetEmpty(r)
  <2>1. pc[r] = "get" /\ pc' = [pc EXCEPT ![r] = "loop"]
    BY <1>0, <1>6 DEF GetEmpty, Goto
  <2>2. StepsToGo("loop") < StepsToGo("get")
    BY DEF StepsToGo
  <2> QED
    BY <1>0, <2>1, <2>2
<1>7. CASE StopStream(r)
  BY <1>0, <1>7 DEF StopStream, Goto, Leave, After, StepsToGo
<1>8. CASE TokenArrives(r)
  BY <1>0, <1>8 DEF TokenArrives, Goto, Leave, After, StepsToGo
<1>9. CASE Release(r)
  <2>1. pc[r] = "release" /\ pc' = [pc EXCEPT ![r] = "consumed"]
    BY <1>0, <1>9 DEF Release, Goto, After
  <2>2. StepsToGo("consumed") < StepsToGo("release")
    BY DEF StepsToGo
  <2> QED
    BY <1>0, <2>1, <2>2
<1> QED
  BY <1>1, <1>2, <1>3, <1>4, <1>5, <1>6, <1>7, <1>8, <1>9 DEF GeneratorStep, ReleaseStep

\* So does consume(), which never starts anything again.
LEMMA WorkerNearer ==
    ASSUME TypeOK, NEW r \in Async, r \in cancel, UserStep(r) \/ WorkerStep(r)
    PROVE  Nearer(r)
<1> USE MovesNearer DEF UserStep, WorkerStep, Goto, Leave, StepsToGo
<1>1. CASE Submit(r) \/ Register(r)
  BY <1>1 DEF Submit, Register
<1>2. CASE CancelFuture(r) \/ ObserveCompletion(r)
  BY <1>2 DEF CancelFuture, ObserveCompletion, Nearer
<1>3. CASE TokenCallback(r) \/ Consumed(r)
  BY <1>3 DEF TokenCallback, Consumed
<1>4. CASE FinalCallback(r) \/ SetResult(r)
  BY <1>4 DEF FinalCallback, SetResult
<1>5. CASE Handler(r) \/ ErrorCallback(r)
  BY <1>5 DEF Handler, ErrorCallback
<1>6. CASE SetException(r) \/ Unregister(r)
  BY <1>6 DEF SetException, Unregister
<1> QED
  BY <1>1, <1>2, <1>3, <1>4, <1>5, <1>6

\* Nobody else moves a worker.
LEMMA OthersLeaveWorker ==
    ASSUME TypeOK, NEW r \in Async, Next,
           ~(GeneratorStep(r) \/ ReleaseStep(r) \/ UserStep(r) \/ WorkerStep(r))
    PROVE  pc'[r] = pc[r]
<1> USE Requests DEF TypeOK, Goto, Leave
<1>1. ASSUME NEW q \in Req, AmbientStep(q) PROVE pc'[r] = pc[r]
  BY <1>1, ClientAssumption DEF AmbientStep, SyncCaller, DeadlinePasses
<1>2. ASSUME NEW q \in Req, ServerStep(q) PROVE pc'[r] = pc[r]
  BY <1>2 DEF ServerStep, Respond
<1>3. ASSUME NEW q \in Req, q # r, GeneratorStep(q) \/ ReleaseStep(q) PROVE pc'[r] = pc[r]
  BY <1>3
     DEF GeneratorStep, ReleaseStep, Begin, Acquire, Poll, Recheck, StartStream, SendRequest,
         LoopTest, Get, GetEmpty, StopStream, TokenArrives, Release
<1>4. ASSUME NEW q \in Async, q # r, UserStep(q) \/ WorkerStep(q) PROVE pc'[r] = pc[r]
  BY <1>4
     DEF UserStep, WorkerStep, Submit, CancelFuture, Register, TokenCallback, Consumed,
         FinalCallback, SetResult, Handler, ErrorCallback, SetException, Unregister,
         ObserveCompletion
<1>5. ASSUME NEW c \in Closers, CloseCall(c) \/ CloserStep(c) PROVE pc'[r] = pc[r]
  BY <1>5 DEF CloseCall, CloserStep
<1>6. CASE Finished
  BY <1>6 DEF Finished, vars
<1> QED
  BY <1>1, <1>2, <1>3, <1>4, <1>5, <1>6 DEF Next

\* A cancel event is never cleared.
LEMMA CancelStays == [Next]_vars => cancel \subseteq cancel'
<1> SUFFICES ASSUME [Next]_vars PROVE cancel \subseteq cancel'
  OBVIOUS
<1>1. ASSUME NEW r \in Req, GeneratorStep(r) \/ ReleaseStep(r) \/ AmbientStep(r) \/ ServerStep(r)
      PROVE  cancel' = cancel
  BY <1>1 DEF GeneratorStep, ReleaseStep, AmbientStep, ServerStep, Respond, registryVars
<1>2. ASSUME NEW r \in Async, UserStep(r) \/ WorkerStep(r) PROVE cancel \subseteq cancel'
  BY <1>2
     DEF UserStep, WorkerStep, Submit, CancelFuture, Register, TokenCallback, Consumed,
         FinalCallback, SetResult, Handler, ErrorCallback, SetException, Unregister,
         ObserveCompletion, registryVars
<1>3. ASSUME NEW c \in Closers, CloseCall(c) \/ CloserStep(c) PROVE cancel \subseteq cancel'
  BY <1>3 DEF CloseCall, CloserStep, CloseTest, CloseFlag, CloseSweep, CloseStop, CloseChannel
<1>4. CASE UNCHANGED vars \/ Finished
  BY <1>4 DEF Finished, vars, registryVars
<1> QED
  BY <1>1, <1>2, <1>3, <1>4 DEF Next

\* A worker that is told to stop, by Future.cancel() or by close(), has at most
\* nine more steps to make, wherever it is in the wait for the lock, in the
\* read loop or in consume(), whatever the server sends and whoever else wants
\* the stream (streaming_client.py:84-136, 201-243).
THEOREM CancelledWorkersLeave ==
    Spec => [][\A r \in Async : r \in cancel =>
                  /\ r \in cancel'
                  /\ pc'[r] = pc[r] \/ StepsToGo(pc'[r]) < StepsToGo(pc[r])]_vars
<1>1. TypeOK /\ [Next]_vars
      => [\A r \in Async : r \in cancel =>
             /\ r \in cancel'
             /\ pc'[r] = pc[r] \/ StepsToGo(pc'[r]) < StepsToGo(pc[r])]_vars
  <2> SUFFICES ASSUME TypeOK, Next, NEW r \in Async, r \in cancel
               PROVE  r \in cancel' /\ Nearer(r)
    BY DEF Nearer
  <2>1. r \in cancel'
    BY CancelStays
  <2>2. CASE GeneratorStep(r) \/ ReleaseStep(r) \/ UserStep(r) \/ WorkerStep(r)
    BY <2>1, <2>2, GeneratorNearer, WorkerNearer
  <2> QED
    BY <2>1, <2>2, OthersLeaveWorker DEF Nearer
<1> QED
  BY <1>1, TypeCorrect, PTL DEF Spec

============================================================================
