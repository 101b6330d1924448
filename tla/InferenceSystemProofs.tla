------------------------ MODULE InferenceSystemProofs ------------------------
(***************************************************************************)
(* Theorems about the unary clients and the models behind them, for all    *)
(* sets of callers and closers, services and batch sizes.                  *)
(***************************************************************************)
EXTENDS InferenceSystem, FiniteSetTheorems, SequenceTheorems, TLAPS

Jobs == [for : Requests, of : Requests]
Answers == [kind : {"output", "error", "lacks"}, of : Requests]

ServerTypes ==
    /\ service \in [Requests -> Services \cup {NoAnswer}]
    /\ queue \in [Models -> Seq(Jobs)] /\ batch \in [Models -> Seq(Jobs)]
    /\ responses \in [Models -> Seq(Answers)]
    /\ calling \in {NoAnswer, "preprocessor", "inferencer"}
    /\ reply \in Answers \cup {NoAnswer}
    /\ answer \in [Requests -> Answers \cup {NoAnswer}]

\* The calls that have sent nothing yet.
Unsent == {c \in Tasks : task[c] = "new"} \cup {c \in Threads : thread[c] = "new"}

ClientTypes ==
    /\ task \in [Tasks -> {"new", "sent", "returned", "raised"}]
    /\ thread \in [Threads -> {"new", "sent", "returned", "raised"}]
    /\ got \in [Requests -> Answers \cup {NoAnswer}]

\* A job carries its own request's tensors.
Sound(job) == job.of = job.for /\ job.for \notin Unsent

JobInv ==
    \A m \in Models : /\ \A i \in 1..Len(queue[m]) : Sound(queue[m][i])
                      /\ \A i \in 1..Len(batch[m]) : Sound(batch[m][i])

\* An answer is the request's own, or the error of one whose exception has
\* left another model's execute().
Proper(response, r, errors) ==
    \/ response.of = r
    \/ /\ response.kind = "error"
       /\ \E m \in Models \ {"bls_model"} : <<response.of, m>> \in errors

\* Responses answer the batch by position.
ResponseInv ==
    \A m \in Models :
        /\ Len(responses[m]) <= Len(batch[m])
        /\ \A i \in 1..Len(responses[m]) : Proper(responses[m][i], batch[m][i].for, escaped)

AnswerInv == \A r \in Requests : answer[r] # NoAnswer => Proper(answer[r], r, escaped)

\* The jobs that the BLS model has put into the queues of other models.
Nested(job) == service[job.for] = "bls"
NestedQueued(m) == {i \in 1..Len(queue[m]) : Nested(queue[m][i])}
NestedRunning(m) == {i \in 1..Len(batch[m]) : Nested(batch[m][i])}

\* There is at most one, at the model that exec() waits for, and none once the
\* reply is there; both belong to the request the BLS model is working on.
ExecInv ==
    /\ calling # NoAnswer => Running("bls_model")
    /\ reply # NoAnswer => calling # NoAnswer /\ Proper(reply, Current("bls_model").for, escaped)

AtMostOne(m) ==
    /\ \A i, j \in NestedQueued(m) : i = j
    /\ NestedQueued(m) # {} => NestedRunning(m) = {}
    /\ NestedQueued(m) \cup NestedRunning(m) # {} => calling = m /\ reply = NoAnswer
    /\ \A i \in NestedQueued(m) : queue[m][i].for = Current("bls_model").for
    /\ \A i \in NestedRunning(m) : batch[m][i].for = Current("bls_model").for

NestInv == ExecInv /\ \A m \in Models \ {"bls_model"} : AtMostOne(m)

ServerInv == ServerTypes /\ JobInv /\ ResponseInv /\ AnswerInv /\ NestInv

----------------------------------------------------------------------------
(* The models and the routes.                                               *)

\* Where a BLS request and its calls go.
LEMMA BlsFacts ==
    /\ {"bls_model", "preprocessor", "inferencer"} \subseteq Models
    /\ "bls_model" \notin External /\ NoAnswer \notin Models
    /\ Python["bls_model"].raises \subseteq Python["bls_model"].answers
BY ServiceAssumption DEF Models, External, Python, BlsModel, Model

\* Every route begins at a model, and only the BLS service's begins at its own.
LEMMA RouteFacts ==
    ASSUME NEW s \in Services
    PROVE  /\ Head(Route[s]) \in Models
           /\ s = "bls" => Head(Route[s]) = "bls_model"
BY ServiceAssumption DEF Models, External, Python, Route

\* The BLS model is the last one of its route.
LEMMA BlsIsLast ==
    ASSUME NEW r, service[r] = "bls"
    PROVE  Onward("bls_model", r) = "bls_model"
<1> DEFINE i == CHOOSE j \in DOMAIN Route["bls"] : Route["bls"][j] = "bls_model"
<1>1. Route["bls"] = <<"bls_model">>
  BY DEF Route
<1>2. i = 1
  <2>1. 1 \in DOMAIN Route["bls"] /\ Route["bls"][1] = "bls_model" /\ DOMAIN Route["bls"] = {1}
    BY <1>1
  <2> QED
    BY <2>1
<1>3. ~(i < Len(Route["bls"]))
  BY <1>1, <1>2
<1> QED
  BY <1>3 DEF Onward

----------------------------------------------------------------------------

\* Nothing is anywhere at the start.
LEMMA InitServerInv == Init => ServerInv /\ ClientTypes /\ AnswersAreOwn
<1> SUFFICES ASSUME Init PROVE ServerInv /\ ClientTypes /\ AnswersAreOwn
  OBVIOUS
<1>1. ServerTypes /\ ClientTypes /\ AnswersAreOwn
  BY CallerAssumption
  DEF Init, ServerInit, AsyncInit, SyncInit, ServerTypes, ClientTypes, AnswersAreOwn
<1>2. \A m \in Models : queue[m] = <<>> /\ batch[m] = <<>> /\ responses[m] = <<>>
  BY DEF Init, ServerInit
<1>3. JobInv /\ ResponseInv
  BY <1>2 DEF JobInv, ResponseInv
<1>4. AnswerInv /\ ExecInv
  BY DEF Init, ServerInit, AnswerInv, ExecInv
<1>5. \A m \in Models : NestedQueued(m) = {} /\ NestedRunning(m) = {}
  BY <1>2 DEF NestedQueued, NestedRunning
<1>6. \A m \in Models : AtMostOne(m)
  BY <1>5 DEF AtMostOne
<1> QED
  BY <1>1, <1>3, <1>4, <1>6 DEF ServerInv, NestInv

\* An answer stays proper while exceptions escape.
LEMMA ProperKept ==
    ASSUME NEW response, NEW r, NEW errors, NEW more, errors \subseteq more,
           Proper(response, r, errors)
    PROVE  Proper(response, r, more)
BY DEF Proper

\* What a step of the server may leave alone of the calls it nests.
LEMMA AtMostOneKept ==
    ASSUME NEW m, AtMostOne(m), UNCHANGED <<service, queue[m], batch[m], calling, reply>>,
           Current("bls_model")' = Current("bls_model")
    PROVE  AtMostOne(m)'
BY DEF AtMostOne, NestedQueued, NestedRunning, Nested

\* The BLS model outside of exec() goes on; any other model leaves it alone.
BlsGoesOn(m) ==
    IF m = "bls_model"
    THEN (calling = NoAnswer \/ reply # NoAnswer) /\ calling' = NoAnswer /\ reply' = NoAnswer
    ELSE UNCHANGED blsVars

\* A model gives responses to the jobs of a batch.
LEMMA RespondKeepsInv ==
    ASSUME ServerInv, NEW m \in Models, Running(m), NEW new \in Seq(Answers),
           responses' = [responses EXCEPT ![m] = new], Len(new) <= Len(batch[m]),
           escaped \subseteq escaped',
           \A i \in 1..Len(new) : Proper(new[i], batch[m][i].for, escaped'),
           BlsGoesOn(m), UNCHANGED <<service, queue, batch, answer, clientVars>>
    PROVE  ServerInv'
<1>1. ServerTypes'
  BY DEF ServerInv, ServerTypes, BlsGoesOn, blsVars
<1>2. JobInv'
  BY DEF ServerInv, JobInv, Sound, Unsent, clientVars, asyncVars, syncVars
<1>3. ResponseInv'
  <2> SUFFICES ASSUME NEW n \in Models
               PROVE  /\ Len(responses'[n]) <= Len(batch'[n])
                      /\ \A i \in 1..Len(responses'[n]) :
                            Proper(responses'[n][i], batch'[n][i].for, escaped')
    BY DEF ResponseInv
  <2>1. CASE n = m
    BY <2>1 DEF ServerInv, ServerTypes
  <2>2. CASE n # m
    BY <2>2, ProperKept DEF ServerInv, ServerTypes, ResponseInv
  <2> QED
    BY <2>1, <2>2
<1>4. AnswerInv'
  BY ProperKept DEF ServerInv, AnswerInv
<1>5. NestInv'
  <2>1. CASE m = "bls_model"
    <3>1. /\ calling' = NoAnswer /\ reply' = NoAnswer
          /\ \A n \in Models \ {"bls_model"} : NestedQueued(n) \cup NestedRunning(n) = {}
      BY <2>1, BlsFacts DEF ServerInv, NestInv, ExecInv, AtMostOne, BlsGoesOn
    <3>2. \A n \in Models \ {"bls_model"} : NestedQueued(n)' \cup NestedRunning(n)' = {}
      BY <3>1 DEF NestedQueued, NestedRunning, Nested
    <3> QED
      BY <2>1, <3>1, <3>2 DEF NestInv, ExecInv, AtMostOne
  <2>2. CASE m # "bls_model"
    <3>1. responses'["bls_model"] = responses["bls_model"]
      BY <2>2, BlsFacts DEF ServerInv, ServerTypes
    <3>2. /\ Current("bls_model")' = Current("bls_model")
          /\ Running("bls_model")' = Running("bls_model")
      BY <3>1 DEF Current, Running
    <3>3. ExecInv' /\ UNCHANGED <<calling, reply>>
      BY <2>2, <3>2, ProperKept DEF ServerInv, NestInv, ExecInv, BlsGoesOn, blsVars
    <3> QED
      BY <3>2, <3>3, AtMostOneKept DEF ServerInv, NestInv
  <2> QED
    BY <2>1, <2>2
<1> QED
  BY <1>1, <1>2, <1>3, <1>4, <1>5 DEF ServerInv

\* The job a running model is at.
LEMMA CurrentJob ==
    ASSUME ServerInv, NEW m \in Models, Running(m)
    PROVE  /\ Current(m) \in Jobs /\ Sound(Current(m))
           /\ Len(responses[m]) + 1 \in 1..Len(batch[m])
           /\ Current(m) = batch[m][Len(responses[m]) + 1]
           /\ responses[m] \in Seq(Answers) /\ Len(responses[m]) \in Nat
           /\ Len(batch[m]) \in Nat
<1>1. responses[m] \in Seq(Answers) /\ batch[m] \in Seq(Jobs)
  BY DEF ServerInv, ServerTypes
<1>2. Len(responses[m]) + 1 \in 1..Len(batch[m])
  BY <1>1 DEF Running
<1> QED
  BY <1>1, <1>2 DEF ServerInv, JobInv, Current

\* A response with the current job's own output or error.
LEMMA AnswerKeepsInv ==
    ASSUME ServerInv, NEW m \in Models, Running(m), BlsGoesOn(m),
           NEW response \in Answers, Proper(response, Current(m).for, escaped),
           Answer(m, response), UNCHANGED <<service, queue, batch, answer, clientVars>>
    PROVE  ServerInv'
<1> DEFINE new == Append(responses[m], response)
<1>1. new \in Seq(Answers) /\ Len(new) = Len(responses[m]) + 1 /\ Len(new) <= Len(batch[m])
  BY CurrentJob
<1>2. responses' = [responses EXCEPT ![m] = new] /\ escaped' = escaped
  BY DEF Answer
<1>3. ASSUME NEW i \in 1..Len(new) PROVE Proper(new[i], batch[m][i].for, escaped')
  <2>1. CASE i = Len(new)
    <3>1. new[i] = response /\ batch[m][i] = Current(m)
      BY <1>1, <2>1, CurrentJob
    <3> QED
      BY <1>2, <3>1 DEF Proper
  <2>2. CASE i # Len(new)
    <3>1. i \in 1..Len(responses[m]) /\ new[i] = responses[m][i]
      BY <1>1, <2>2, CurrentJob
    <3> QED
      BY <1>2, <3>1 DEF Proper, ServerInv, ResponseInv
  <2> QED
    BY <2>1, <2>2
<1> QED
  BY <1>1, <1>2, <1>3, RespondKeepsInv

\* An exception of the loop body: the current job's error, or everybody's.
LEMMA RaiseKeepsInv ==
    ASSUME ServerInv, NEW m \in Models, Running(m), BlsGoesOn(m),
           NEW e \in Python[m].raises, Raise(m, e),
           UNCHANGED <<service, queue, batch, answer, clientVars>>
    PROVE  ServerInv'
<1> DEFINE r == Current(m).for
<1>0. r \in Requests
  BY CurrentJob DEF Jobs
<1>1. CASE e \in Python[m].answers
  <2>1. Response("error", r) \in Answers /\ Response("error", r).of = r
    BY <1>0 DEF Response, Answers
  <2> QED
    BY <1>1, <2>1, AnswerKeepsInv DEF Raise, Proper
<1>2. CASE e \notin Python[m].answers
  <2> DEFINE new == [i \in DOMAIN batch[m] |-> Response("error", r)]
  <2>0. m # "bls_model"
    BY <1>2, BlsFacts
  <2>1. /\ responses' = [responses EXCEPT ![m] = new] /\ escaped' = escaped \cup {<<r, m>>}
    BY <1>2 DEF Raise
  <2>2. batch[m] \in Seq(Jobs) /\ DOMAIN batch[m] = 1..Len(batch[m]) /\ Len(batch[m]) \in Nat
    BY DEF ServerInv, ServerTypes
  <2>3. Response("error", r) \in Answers
    BY <1>0 DEF Response, Answers
  <2>4. new \in [1..Len(batch[m]) -> Answers]
    BY <2>2, <2>3
  <2>5. new \in Seq(Answers) /\ Len(new) = Len(batch[m])
    BY <2>2, <2>4
  <2>6. ASSUME NEW i \in 1..Len(new) PROVE Proper(new[i], batch[m][i].for, escaped')
    <3>1. new[i].kind = "error" /\ new[i].of = r
      BY <2>2, <2>5 DEF Response
    <3>2. <<r, m>> \in escaped' /\ m \in Models \ {"bls_model"}
      BY <2>0, <2>1
    <3> HIDE DEF new, r
    <3> QED
      BY <3>1, <3>2 DEF Proper
  <2>7. escaped \subseteq escaped' /\ Len(new) <= Len(batch[m])
    BY <2>1, <2>2, <2>5
  <2> HIDE DEF new
  <2> QED
    BY <2>0, <2>1, <2>5, <2>6, <2>7, RespondKeepsInv
<1> QED
  BY <1>1, <1>2

\* A model that calls no other.
LEMMA ExecuteInv ==
    ASSUME ServerInv, NEW m \in Models, Execute(m), UNCHANGED clientVars
    PROVE  ServerInv'
<1>1. Running(m) /\ BlsGoesOn(m) /\ UNCHANGED <<service, queue, batch, answer, clientVars>>
  BY DEF Execute, BlsGoesOn
<1>2. CASE Answer(m, Response("output", Current(m).of))
  <2>1. /\ Response("output", Current(m).of) \in Answers
        /\ Proper(Response("output", Current(m).of), Current(m).for, escaped)
    BY <1>1, CurrentJob DEF Response, Answers, Jobs, Sound, Proper
  <2> QED
    BY <1>1, <1>2, <2>1, AnswerKeepsInv
<1>3. CASE \E e \in Python[m].raises : Raise(m, e)
  BY <1>1, <1>3, RaiseKeepsInv
<1> QED
  BY <1>2, <1>3 DEF Execute

\* A model of another backend.
LEMMA ExecuteExternalInv ==
    ASSUME ServerInv, NEW m \in Models, ExecuteExternal(m), UNCHANGED clientVars
    PROVE  ServerInv'
<1>1. /\ Running(m) /\ BlsGoesOn(m) /\ UNCHANGED <<service, queue, batch, answer, clientVars>>
      /\ UNCHANGED escaped
  BY BlsFacts DEF ExecuteExternal, BlsGoesOn
<1>2. PICK kind \in {"output", "error", "lacks"} :
          responses' = [responses EXCEPT ![m] =
              [i \in DOMAIN batch[m] |->
                  Response(kind, IF kind = "output" THEN batch[m][i].of ELSE batch[m][i].for)]]
  BY DEF ExecuteExternal
<1> DEFINE new == [i \in DOMAIN batch[m] |->
                      Response(kind, IF kind = "output" THEN batch[m][i].of ELSE batch[m][i].for)]
<1>3. batch[m] \in Seq(Jobs) /\ DOMAIN batch[m] = 1..Len(batch[m]) /\ Len(batch[m]) \in Nat
  BY DEF ServerInv, ServerTypes
<1>4. ASSUME NEW i \in DOMAIN batch[m]
      PROVE  new[i] \in Answers /\ Proper(new[i], batch[m][i].for, escaped')
  <2>1. batch[m][i] \in Jobs /\ batch[m][i].of = batch[m][i].for
    BY <1>3 DEF ServerInv, JobInv, Sound
  <2>2. new[i] = Response(kind, batch[m][i].for)
    BY <2>1
  <2> QED
    BY <2>1, <2>2 DEF Response, Answers, Jobs, Proper
<1>5. new \in [1..Len(batch[m]) -> Answers]
  BY <1>3, <1>4
<1>6. new \in Seq(Answers) /\ Len(new) = Len(batch[m])
  BY <1>3, <1>5
<1>7. \A i \in 1..Len(new) : Proper(new[i], batch[m][i].for, escaped')
  BY <1>3, <1>4, <1>6
<1>8. responses' = [responses EXCEPT ![m] = new] /\ Len(new) <= Len(batch[m])
  BY <1>2, <1>3, <1>6
<1> HIDE DEF new
<1> QED
  BY <1>1, <1>6, <1>7, <1>8, RespondKeepsInv

----------------------------------------------------------------------------
(* The batcher.                                                             *)

\* execute() gets a prefix of the queue.
LEMMA FormBatchInv ==
    ASSUME ServerInv, NEW m \in Models, FormBatch(m), UNCHANGED clientVars
    PROVE  ServerInv'
<1>1. /\ batch[m] = <<>>
      /\ UNCHANGED <<service, responses, blsVars, answer, escaped, clientVars>>
  BY DEF FormBatch
<1>2. PICK n \in 1..MaxBatch :
          /\ n <= Len(queue[m])
          /\ batch' = [batch EXCEPT ![m] = SubSeq(queue[m], 1, n)]
          /\ queue' = [queue EXCEPT ![m] = SubSeq(queue[m], n + 1, Len(queue[m]))]
  BY DEF FormBatch
<1>3. /\ queue \in [Models -> Seq(Jobs)] /\ batch \in [Models -> Seq(Jobs)]
      /\ queue[m] \in Seq(Jobs) /\ Len(queue[m]) \in Nat /\ n \in Nat \ {0}
  BY ServiceAssumption DEF ServerInv, ServerTypes
<1>4. /\ batch'[m] = SubSeq(queue[m], 1, n)
      /\ queue'[m] = SubSeq(queue[m], n + 1, Len(queue[m]))
      /\ \A k \in Models \ {m} : batch'[k] = batch[k] /\ queue'[k] = queue[k]
  BY <1>2, <1>3
<1>5. /\ batch'[m] \in Seq(Jobs) /\ Len(batch'[m]) = n
      /\ \A i \in 1..n : batch'[m][i] = queue[m][i]
  BY <1>2, <1>3, <1>4
<1>6. /\ queue'[m] \in Seq(Jobs) /\ Len(queue'[m]) = Len(queue[m]) - n
      /\ \A i \in 1..(Len(queue[m]) - n) : queue'[m][i] = queue[m][i + n]
  BY <1>2, <1>3, <1>4
<1>7. ServerTypes'
  <2>1. queue' \in [Models -> Seq(Jobs)] /\ batch' \in [Models -> Seq(Jobs)]
    BY <1>2, <1>3, <1>4, <1>5, <1>6
  <2> QED
    BY <1>1, <2>1 DEF ServerInv, ServerTypes, blsVars
<1>8. JobInv'
  <2>1. \A job : Sound(job)' <=> Sound(job)
    BY <1>1 DEF Sound, Unsent, clientVars, asyncVars, syncVars
  <2>2. \A i \in 1..Len(queue[m]) : Sound(queue[m][i])
    BY DEF ServerInv, JobInv
  <2>3. ASSUME NEW i \in 1..Len(queue'[m]) PROVE Sound(queue'[m][i])
    <3>1. i + n \in 1..Len(queue[m]) /\ queue'[m][i] = queue[m][i + n]
      BY <1>3, <1>6
    <3> QED
      BY <2>2, <3>1
  <2>4. ASSUME NEW i \in 1..Len(batch'[m]) PROVE Sound(batch'[m][i])
    <3>1. i \in 1..Len(queue[m]) /\ batch'[m][i] = queue[m][i]
      BY <1>2, <1>3, <1>5
    <3> QED
      BY <2>2, <3>1
  <2> QED
    BY <1>4, <2>1, <2>3, <2>4 DEF ServerInv, JobInv
<1>9. Len(responses[m]) = 0
  <2>1. responses[m] \in Seq(Answers) /\ Len(responses[m]) <= 0
    BY <1>1 DEF ServerInv, ServerTypes, ResponseInv
  <2> QED
    BY <2>1
<1>10. ResponseInv'
  <2> SUFFICES ASSUME NEW k \in Models
               PROVE  /\ Len(responses'[k]) <= Len(batch'[k])
                      /\ \A i \in 1..Len(responses'[k]) :
                            Proper(responses'[k][i], batch'[k][i].for, escaped')
    BY DEF ResponseInv
  <2>1. CASE k = m
    BY <1>1, <1>3, <1>5, <1>9, <2>1
  <2>2. CASE k # m
    BY <1>1, <1>4, <2>2 DEF ServerInv, ResponseInv
  <2> QED
    BY <2>1, <2>2
<1>11. AnswerInv'
  BY <1>1 DEF ServerInv, AnswerInv
<1>12. NestInv'
  <2>1. CASE m = "bls_model"
    <3>1. calling = NoAnswer /\ reply = NoAnswer
      BY <1>1, <1>9, <2>1 DEF ServerInv, NestInv, ExecInv, Running
    <3>2. \A k \in Models \ {"bls_model"} : NestedQueued(k) \cup NestedRunning(k) = {}
      BY <3>1, BlsFacts DEF ServerInv, NestInv, AtMostOne
    <3>3. \A k \in Models \ {"bls_model"} : NestedQueued(k)' \cup NestedRunning(k)' = {}
      BY <1>1, <1>4, <2>1, <3>2 DEF NestedQueued, NestedRunning, Nested
    <3> QED
      BY <1>1, <3>1, <3>3 DEF NestInv, ExecInv, AtMostOne, blsVars
  <2>2. CASE m # "bls_model"
    <3>1. /\ Current("bls_model")' = Current("bls_model")
          /\ Running("bls_model")' = Running("bls_model") /\ UNCHANGED <<calling, reply>>
      BY <1>1, <1>4, <2>2, BlsFacts DEF Current, Running, blsVars
    <3>2. ExecInv'
      BY <1>1, <3>1 DEF ServerInv, NestInv, ExecInv
    <3>3. \A k \in Models \ {m, "bls_model"} : AtMostOne(k)'
      BY <1>1, <1>4, <3>1, AtMostOneKept DEF ServerInv, NestInv
    <3>4. AtMostOne(m)
      BY <2>2 DEF ServerInv, NestInv
    <3>5. \A i \in NestedRunning(m)' : i \in NestedQueued(m) /\ batch'[m][i] = queue[m][i]
      BY <1>1, <1>2, <1>3, <1>5 DEF NestedQueued, NestedRunning, Nested
    <3>6. \A i \in NestedQueued(m)' : i + n \in NestedQueued(m) /\ queue'[m][i] = queue[m][i + n]
      BY <1>1, <1>2, <1>3, <1>6 DEF NestedQueued, Nested
    <3>7. NestedQueued(m)' \subseteq Nat \ {0} /\ \A i \in NestedRunning(m)' : i <= n
      BY <1>3, <1>5, <1>6 DEF NestedQueued, NestedRunning
    <3>8. AtMostOne(m)'
      <4>1. \A i, j \in NestedQueued(m)' : i = j
        BY <1>3, <3>4, <3>6, <3>7 DEF AtMostOne
      <4>2. NestedQueued(m)' # {} => NestedRunning(m)' = {}
        <5> SUFFICES ASSUME NEW i \in NestedQueued(m)', NEW j \in NestedRunning(m)' PROVE FALSE
          OBVIOUS
        <5>1. i + n = j
          BY <3>4, <3>5, <3>6 DEF AtMostOne
        <5> QED
          BY <1>3, <3>7, <5>1
      <4>3. NestedQueued(m)' \cup NestedRunning(m)' # {} => calling' = m /\ reply' = NoAnswer
        BY <3>1, <3>4, <3>5, <3>6 DEF AtMostOne
      <4>4. \A i \in NestedQueued(m)' : queue'[m][i].for = Current("bls_model").for
        BY <3>4, <3>6 DEF AtMostOne
      <4>5. \A i \in NestedRunning(m)' : batch'[m][i].for = Current("bls_model").for
        BY <3>4, <3>5 DEF AtMostOne
      <4> QED
        BY <3>1, <4>1, <4>2, <4>3, <4>4, <4>5 DEF AtMostOne
    <3> QED
      BY <3>2, <3>3, <3>8 DEF NestInv
  <2> QED
    BY <2>1, <2>2
<1> QED
  BY <1>7, <1>8, <1>10, <1>11, <1>12 DEF ServerInv

----------------------------------------------------------------------------
(* The BLS model.                                                           *)

\* exec() puts a request of the BLS model's current job into a queue.
LEMMA NestedCallInv ==
    ASSUME ServerInv, NEW k \in {"preprocessor", "inferencer"}, NEW job \in Jobs, Sound(job),
           Running("bls_model"), job.for = Current("bls_model").for,
           calling = NoAnswer \/ reply # NoAnswer, Exec(k, job), reply' = NoAnswer,
           UNCHANGED <<service, batch, responses, answer, escaped, clientVars>>
    PROVE  ServerInv'
<1>0. k \in Models \ {"bls_model"}
  BY BlsFacts
<1>1. /\ queue \in [Models -> Seq(Jobs)] /\ queue[k] \in Seq(Jobs) /\ Len(queue[k]) \in Nat
      /\ queue' = [queue EXCEPT ![k] = Append(queue[k], job)] /\ calling' = k
  BY <1>0 DEF ServerInv, ServerTypes, Exec
<1>2. /\ queue'[k] \in Seq(Jobs) /\ Len(queue'[k]) = Len(queue[k]) + 1
      /\ queue'[k][Len(queue[k]) + 1] = job
      /\ \A i \in 1..Len(queue[k]) : queue'[k][i] = queue[k][i]
      /\ \A m \in Models \ {k} : queue'[m] = queue[m]
  BY <1>0, <1>1
<1>3. queue' \in [Models -> Seq(Jobs)]
  BY <1>1, <1>2
<1>4. ServerTypes'
  BY <1>1, <1>3 DEF ServerInv, ServerTypes
<1>5. JobInv'
  <2>1. \A j : Sound(j)' <=> Sound(j)
    BY DEF Sound, Unsent, clientVars, asyncVars, syncVars
  <2>2. ASSUME NEW i \in 1..Len(queue'[k]) PROVE Sound(queue'[k][i])
    <3>1. CASE i = Len(queue[k]) + 1
      BY <1>2, <3>1
    <3>2. CASE i # Len(queue[k]) + 1
      <4>1. i \in 1..Len(queue[k])
        BY <1>1, <1>2, <3>2
      <4> QED
        BY <1>2, <4>1, BlsFacts DEF ServerInv, JobInv
    <3> QED
      BY <3>1, <3>2
  <2> QED
    BY <1>2, <2>1, <2>2 DEF ServerInv, JobInv
<1>6. ResponseInv' /\ AnswerInv'
  BY DEF ServerInv, ResponseInv, AnswerInv
<1>7. /\ Current("bls_model")' = Current("bls_model")
      /\ Running("bls_model")' = Running("bls_model")
  BY DEF Current, Running
<1>8. ExecInv'
  BY <1>7 DEF ExecInv
<1>9. \A m \in Models \ {"bls_model"} : NestedQueued(m) \cup NestedRunning(m) = {}
  BY BlsFacts DEF ServerInv, NestInv, ExecInv, AtMostOne
<1>10. \A m \in Models \ {"bls_model"} : NestedRunning(m)' = {}
  BY <1>9 DEF NestedRunning, Nested
<1>11. \A m \in Models \ {"bls_model", k} : NestedQueued(m)' = {}
  BY <1>2, <1>9 DEF NestedQueued, Nested
<1>12. \A i \in NestedQueued(k)' : i = Len(queue[k]) + 1
  <2> SUFFICES ASSUME NEW i \in NestedQueued(k)', i # Len(queue[k]) + 1 PROVE FALSE
    OBVIOUS
  <2>1. i \in 1..Len(queue[k]) /\ Nested(queue[k][i])
    BY <1>1, <1>2 DEF NestedQueued, Nested
  <2> QED
    BY <1>9, <2>1, BlsFacts DEF NestedQueued
<1>13. \A m \in Models \ {"bls_model"} : AtMostOne(m)'
  <2> SUFFICES ASSUME NEW m \in Models \ {"bls_model"} PROVE AtMostOne(m)'
    OBVIOUS
  <2>1. CASE m = k
    BY <1>1, <1>2, <1>7, <1>10, <1>12, <2>1 DEF AtMostOne
  <2>2. CASE m # k
    BY <1>10, <1>11, <2>2 DEF AtMostOne
  <2> QED
    BY <2>1, <2>2
<1> QED
  BY <1>4, <1>5, <1>6, <1>8, <1>13 DEF ServerInv, NestInv

\* What the BLS model answers without another exec() keeps the invariant.
LEMMA BlsBeginInv == ASSUME ServerInv, BlsBegin, UNCHANGED clientVars PROVE ServerInv'
<1>1. /\ "bls_model" \in Models /\ Running("bls_model") /\ calling = NoAnswer
      /\ reply = NoAnswer /\ reply' = NoAnswer
      /\ UNCHANGED <<service, batch, answer, clientVars>>
  BY BlsFacts DEF BlsBegin, ServerInv, NestInv, ExecInv
<1>2. Current("bls_model") \in Jobs /\ Sound(Current("bls_model"))
  BY <1>1, CurrentJob
<1>3. CASE Exec("preprocessor", Current("bls_model")) /\ UNCHANGED <<responses, escaped>>
  BY <1>1, <1>2, <1>3, NestedCallInv
<1>4. ASSUME UNCHANGED <<calling, queue>> PROVE BlsGoesOn("bls_model") /\ UNCHANGED queue
  BY <1>1, <1>4 DEF BlsGoesOn
<1>5. CASE /\ Answer("bls_model", Response("error", Current("bls_model").for))
           /\ UNCHANGED <<calling, queue>>
  <2>1. /\ Response("error", Current("bls_model").for) \in Answers
        /\ Proper(Response("error", Current("bls_model").for), Current("bls_model").for, escaped)
    BY <1>2 DEF Response, Answers, Jobs, Proper
  <2> QED
    BY <1>1, <1>4, <1>5, <2>1, AnswerKeepsInv
<1>6. CASE /\ \E e \in Python["bls_model"].raises : Raise("bls_model", e)
           /\ UNCHANGED <<calling, queue>>
  BY <1>1, <1>4, <1>6, RaiseKeepsInv
<1> QED
  BY <1>3, <1>5, <1>6 DEF BlsBegin

\* What the other model has answered is the answer to the current request.
LEMMA BlsContinueInv == ASSUME ServerInv, BlsContinue, UNCHANGED clientVars PROVE ServerInv'
<1> DEFINE r == Current("bls_model").for
<1>1. /\ "bls_model" \in Models /\ reply # NoAnswer /\ reply' = NoAnswer /\ calling # NoAnswer
      /\ Running("bls_model") /\ reply \in Answers /\ Proper(reply, r, escaped)
      /\ UNCHANGED <<service, batch, answer, clientVars>>
  BY BlsFacts DEF BlsContinue, ServerInv, ServerTypes, NestInv, ExecInv
<1>2. r \in Requests /\ r \notin Unsent
  BY <1>1, CurrentJob DEF Jobs, Sound
<1>3. CASE /\ reply.kind = "output" /\ Exec("inferencer", Job(r, reply.of))
           /\ UNCHANGED <<responses, escaped>>
  <2>1. reply.of = r
    BY <1>1, <1>3 DEF Proper
  <2>2. Job(r, reply.of) \in Jobs /\ Sound(Job(r, reply.of)) /\ Job(r, reply.of).for = r
    BY <1>2, <2>1 DEF Job, Jobs, Sound
  <2> QED
    BY <1>1, <1>3, <2>2, NestedCallInv
<1>4. ASSUME calling' = NoAnswer, UNCHANGED queue PROVE BlsGoesOn("bls_model") /\ UNCHANGED queue
  BY <1>1, <1>4 DEF BlsGoesOn
<1>5. CASE calling' = NoAnswer /\ UNCHANGED queue /\ Answer("bls_model", reply)
  BY <1>1, <1>4, <1>5, AnswerKeepsInv
<1>6. CASE /\ calling' = NoAnswer /\ UNCHANGED queue /\ reply.kind # "output"
           /\ Answer("bls_model", Response("error", reply.of))
  <2>1. Response("error", reply.of) \in Answers /\ Proper(Response("error", reply.of), r, escaped)
    BY <1>1, <1>6 DEF Response, Answers, Proper
  <2> QED
    BY <1>1, <1>4, <1>6, <2>1, AnswerKeepsInv
<1>7. CASE /\ calling' = NoAnswer /\ UNCHANGED queue
           /\ \E e \in Python["bls_model"].raises : Raise("bls_model", e)
  BY <1>1, <1>4, <1>7, RaiseKeepsInv
<1> QED
  BY <1>3, <1>5, <1>6, <1>7 DEF BlsContinue

----------------------------------------------------------------------------
(* What Triton does with the responses of a batch.                          *)

\* In a finite set of numbers, each rank is somebody's.
LEMMA EveryRank ==
    ASSUME NEW n \in Nat, NEW to \in SUBSET (1..n), NEW k \in 1..Cardinality(to)
    PROVE  \E j \in to : Cardinality({l \in to : l <= j}) = k
<1> DEFINE upTo(j) == {l \in to : l <= j}
           rank == [j \in to |-> Cardinality(upTo(j))]
           c == Cardinality(to)
<1>1. IsFiniteSet(to) /\ c \in Nat
  <2>1. IsFiniteSet(1..n)
    BY FS_Interval
  <2> QED
    BY <2>1, FS_Subset, FS_CardinalityType
<1>2. ASSUME NEW S \in SUBSET to
      PROVE  /\ IsFiniteSet(S) /\ Cardinality(S) \in Nat
             /\ \A T \in SUBSET S : /\ Cardinality(T) <= Cardinality(S)
                                    /\ Cardinality(S) = Cardinality(T) => S = T
  <2>1. IsFiniteSet(S) /\ Cardinality(S) \in Nat
    BY <1>1, FS_Subset, FS_CardinalityType
  <2> QED
    BY <2>1, FS_Subset
<1>3. ASSUME NEW j \in to PROVE Cardinality(upTo(j)) \in 1..c
  <2>1. upTo(j) \in SUBSET to /\ j \in upTo(j)
    OBVIOUS
  <2>2. Cardinality(upTo(j)) # 0
    BY <1>2, <2>1, FS_EmptySet
  <2>3. Cardinality(upTo(j)) \in Nat /\ Cardinality(upTo(j)) <= c
    BY <1>2, <2>1
  <2> HIDE DEF upTo
  <2> QED
    BY <1>1, <2>2, <2>3
<1>4. ASSUME NEW i \in to, NEW j \in to, i < j PROVE rank[i] # rank[j]
  <2>0. i \in Int /\ j \in Int /\ \A l \in to : l \in Int
    OBVIOUS
  <2>1. upTo(i) \in SUBSET upTo(j) /\ upTo(j) \in SUBSET to
    <3>1. \A l \in to : l <= i => l <= j
      BY <1>4, <2>0
    <3> QED
      BY <3>1, Zenon
  <2>2. j \in upTo(j) /\ j \notin upTo(i)
    BY <1>4, <2>0
  <2> HIDE DEF upTo
  <2> QED
    BY <1>2, <2>1, <2>2
<1>5. \A i, j \in to : rank[i] = rank[j] => i = j
  BY <1>4
<1>6. rank \in Injection(to, 1..c)
  <2>1. rank \in [to -> 1..c]
    BY <1>3
  <2> QED
    BY <1>5, <2>1 DEF Injection, IsInjective
<1>7. IsFiniteSet(1..c) /\ Cardinality(1..c) = c
  BY <1>1, FS_Interval
<1>8. rank \in Surjection(to, 1..c)
  <2> HIDE DEF rank
  <2> QED
    BY <1>6, <1>7, FS_Injection
<1> QED
  BY <1>8 DEF Surjection

\* The positions of a batch that go on to model n, and the jobs they become.
Positions(m, n) ==
    {i \in {j \in DOMAIN batch[m] : Advances(m, batch[m][j].for, responses[m][j])} :
        Onward(m, batch[m][i].for) = n}
Position(m, n, k) ==
    CHOOSE j \in Positions(m, n) : Cardinality({l \in Positions(m, n) : l <= j}) = k
Following(m, n) ==
    [k \in 1..Cardinality(Positions(m, n)) |->
        Job(batch[m][Position(m, n, k)].for, responses[m][Position(m, n, k)].of)]

\* A batch that execute() has returned from has one proper response per job.
LEMMA ReturnedBatch ==
    ASSUME ServerInv, NEW m \in Models, ~Running(m)
    PROVE  /\ Len(batch[m]) \in Nat /\ DOMAIN batch[m] = 1..Len(batch[m])
           /\ \A i \in DOMAIN batch[m] :
                 /\ batch[m][i] \in Jobs /\ Sound(batch[m][i]) /\ responses[m][i] \in Answers
                 /\ Proper(responses[m][i], batch[m][i].for, escaped)
<1>1. /\ batch[m] \in Seq(Jobs) /\ responses[m] \in Seq(Answers)
      /\ Len(responses[m]) <= Len(batch[m])
  BY DEF ServerInv, ServerTypes, ResponseInv
<1>2. Len(responses[m]) = Len(batch[m])
  BY <1>1 DEF Running
<1> QED
  BY <1>1, <1>2 DEF ServerInv, JobInv, ResponseInv

\* The jobs an ensemble goes on with are sound, and none is nested.
LEMMA FollowingJobs ==
    ASSUME ServerInv, NEW m \in Models, ~Running(m), NEW n
    PROVE  /\ Following(m, n) \in Seq(Jobs)
           /\ \A k \in 1..Len(Following(m, n)) :
                 Sound(Following(m, n)[k]) /\ ~Nested(Following(m, n)[k])
<1> DEFINE c == Cardinality(Positions(m, n))
<1>1. c \in Nat /\ Positions(m, n) \in SUBSET (1..Len(batch[m])) /\ Len(batch[m]) \in Nat
  <2>1. Positions(m, n) \in SUBSET (1..Len(batch[m])) /\ Len(batch[m]) \in Nat
    BY ReturnedBatch DEF Positions
  <2>2. IsFiniteSet(1..Len(batch[m]))
    BY <2>1, FS_Interval
  <2>3. IsFiniteSet(Positions(m, n))
    BY <2>1, <2>2, FS_Subset
  <2> QED
    BY <2>1, <2>3, FS_CardinalityType
<1>2. ASSUME NEW k \in 1..c
      PROVE  /\ Following(m, n)[k] \in Jobs /\ Sound(Following(m, n)[k])
             /\ ~Nested(Following(m, n)[k])
  <2> DEFINE i == Position(m, n, k)
             r == batch[m][i].for
  <2>1. i \in Positions(m, n)
    BY <1>1, <1>2, EveryRank DEF Position
  <2>2. /\ i \in DOMAIN batch[m] /\ ~IsNested(m, r) /\ responses[m][i].kind = "output"
        /\ Onward(m, r) # m
    BY <2>1 DEF Positions, Advances
  <2>3. Sound(batch[m][i]) /\ r \in Requests /\ responses[m][i].of = r
    BY <2>2, ReturnedBatch DEF Jobs, Proper
  <2>4. service[r] # "bls"
    BY <2>2, BlsIsLast DEF IsNested
  <2>5. Following(m, n)[k] = Job(r, r)
    BY <2>3 DEF Following
  <2> HIDE DEF i, r
  <2>6. Job(r, r) \in Jobs /\ Job(r, r).for = r /\ Job(r, r).of = r
    BY <2>3 DEF Job, Jobs
  <2>7. r \notin Unsent
    BY <2>3 DEF Sound, r
  <2> QED
    BY <2>4, <2>5, <2>6, <2>7 DEF Sound, Nested
<1>3. Following(m, n) \in [1..c -> Jobs]
  <2>1. Following(m, n) = [k \in 1..c |-> Following(m, n)[k]]
    BY DEF Following
  <2> QED
    BY <1>2, <2>1
<1>4. Following(m, n) \in Seq(Jobs) /\ Len(Following(m, n)) = c
  BY <1>1, <1>3
<1> QED
  BY <1>2, <1>4


\* Answers, nested replies and the next models' jobs are those of the positions.
LEMMA ReturnInv ==
    ASSUME ServerInv, NEW m \in Models, Return(m), UNCHANGED clientVars
    PROVE  ServerInv'
<1> DEFINE N == {i \in DOMAIN batch[m] : IsNested(m, batch[m][i].for)}
           O == DOMAIN batch[m] \ (N \cup
                    {i \in DOMAIN batch[m] : Advances(m, batch[m][i].for, responses[m][i])})
<1>1. /\ answer' = [r \in Requests |->
             IF \E i \in O : batch[m][i].for = r
             THEN responses[m][CHOOSE i \in O : batch[m][i].for = r] ELSE answer[r]]
      /\ queue' = [n \in Models |-> queue[n] \o Following(m, n)]
      /\ reply' = IF N = {} THEN reply ELSE responses[m][CHOOSE i \in N : TRUE]
  BY Zenon DEF Return, Following, Position, Positions
<1>2. /\ ~Running(m) /\ UNCHANGED <<service, calling, escaped, clientVars>>
      /\ batch' = [batch EXCEPT ![m] = <<>>] /\ responses' = [responses EXCEPT ![m] = <<>>]
  BY Zenon DEF Return
<1>3. \A i \in DOMAIN batch[m] :
          /\ batch[m][i] \in Jobs /\ Sound(batch[m][i]) /\ responses[m][i] \in Answers
          /\ Proper(responses[m][i], batch[m][i].for, escaped)
  BY <1>2, ReturnedBatch
<1> HIDE DEF N, O
<1>4. N \subseteq DOMAIN batch[m] /\ O \subseteq DOMAIN batch[m]
  BY DEF N, O
<1>5. /\ answer' \in [Requests -> Answers \cup {NoAnswer}] /\ AnswerInv'
  <2> SUFFICES ASSUME NEW r \in Requests
               PROVE  /\ answer'[r] \in Answers \cup {NoAnswer}
                      /\ answer'[r] # NoAnswer => Proper(answer'[r], r, escaped)
    BY <1>1, <1>2 DEF AnswerInv
  <2>1. CASE \E i \in O : batch[m][i].for = r
    BY <1>1, <1>3, <1>4, <2>1
  <2>2. CASE ~ \E i \in O : batch[m][i].for = r
    BY <1>1, <2>2 DEF ServerInv, ServerTypes, AnswerInv
  <2> QED
    BY <2>1, <2>2
<1>6. ASSUME NEW n \in Models
      PROVE  /\ queue'[n] \in Seq(Jobs) /\ Len(queue[n]) \in Nat
             /\ \A i \in 1..Len(queue'[n]) :
                   \/ i \in 1..Len(queue[n]) /\ queue'[n][i] = queue[n][i]
                   \/ i \notin 1..Len(queue[n]) /\ Sound(queue'[n][i]) /\ ~Nested(queue'[n][i])
             /\ \A i \in 1..Len(queue[n]) : i \in 1..Len(queue'[n])
  <2> DEFINE q == queue[n]
             f == Following(m, n)
  <2>1. q \in Seq(Jobs) /\ f \in Seq(Jobs) /\ queue'[n] = q \o f
    BY <1>1, <1>2, FollowingJobs DEF ServerInv, ServerTypes
  <2>2. \A k \in 1..Len(f) : Sound(f[k]) /\ ~Nested(f[k])
    BY <1>2, FollowingJobs
  <2> HIDE DEF q, f
  <2>3. /\ q \o f \in Seq(Jobs) /\ Len(q \o f) = Len(q) + Len(f)
        /\ Len(q) \in Nat /\ Len(f) \in Nat
    BY <2>1
  <2>4. \A i \in 1..Len(q) : (q \o f)[i] = q[i]
    BY <2>1, <2>3
  <2>5. ASSUME NEW i \in 1..Len(q \o f), i \notin 1..Len(q)
        PROVE  i - Len(q) \in 1..Len(f) /\ (q \o f)[i] = f[i - Len(q)]
    BY <2>1, <2>3, <2>5
  <2> QED
    BY <2>1, <2>2, <2>3, <2>4, <2>5 DEF q
<1>7. queue' \in [Models -> Seq(Jobs)]
  BY <1>1, <1>6
<1>8. /\ batch'[m] = <<>> /\ responses'[m] = <<>>
      /\ \A n \in Models \ {m} : batch'[n] = batch[n] /\ responses'[n] = responses[n]
      /\ batch' \in [Models -> Seq(Jobs)] /\ responses' \in [Models -> Seq(Answers)]
  BY <1>2 DEF ServerInv, ServerTypes
<1>9. reply' \in Answers \cup {NoAnswer}
  BY <1>1, <1>3, <1>4 DEF ServerInv, ServerTypes
<1>10. ServerTypes'
  BY <1>2, <1>5, <1>7, <1>8, <1>9 DEF ServerInv, ServerTypes
<1>11. JobInv'
  <2>1. \A job : Sound(job)' <=> Sound(job)
    BY <1>2 DEF Sound, Unsent, clientVars, asyncVars, syncVars
  <2> SUFFICES ASSUME NEW n \in Models
               PROVE  /\ \A i \in 1..Len(queue'[n]) : Sound(queue'[n][i])
                      /\ \A i \in 1..Len(batch'[n]) : Sound(batch'[n][i])
    BY <2>1 DEF JobInv
  <2>2. \A i \in 1..Len(queue'[n]) : Sound(queue'[n][i])
    BY <1>6 DEF ServerInv, JobInv
  <2>3. \A i \in 1..Len(batch'[n]) : Sound(batch'[n][i])
    BY <1>8 DEF ServerInv, JobInv
  <2> QED
    BY <2>2, <2>3
<1>12. ResponseInv'
  BY <1>2, <1>8 DEF ServerInv, ResponseInv
<1>13. \A n \in Models : NestedQueued(n)' = NestedQueued(n)
  <2> SUFFICES ASSUME NEW n \in Models PROVE NestedQueued(n)' = NestedQueued(n)
    OBVIOUS
  <2>1. \A job : Nested(job)' <=> Nested(job)
    BY <1>2 DEF Nested
  <2>2. NestedQueued(n)' = {i \in 1..Len(queue'[n]) : Nested(queue'[n][i])}
    BY <2>1 DEF NestedQueued
  <2> QED
    BY <1>6, <2>2 DEF NestedQueued
<1>14. /\ NestedRunning(m)' = {}
       /\ \A n \in Models \ {m} : NestedRunning(n)' = NestedRunning(n)
  BY <1>2, <1>8 DEF NestedRunning, Nested
<1>15. CASE m = "bls_model"
  <2>1. N = {} /\ reply' = reply
    BY <1>1, <1>15 DEF N, IsNested
  <2>2. calling = NoAnswer /\ reply = NoAnswer
    BY <1>2, <1>15 DEF ServerInv, NestInv, ExecInv
  <2>3. \A n \in Models \ {"bls_model"} : NestedQueued(n) \cup NestedRunning(n) = {}
    BY <2>2, BlsFacts DEF ServerInv, NestInv, AtMostOne
  <2>4. \A n \in Models \ {"bls_model"} : NestedQueued(n)' \cup NestedRunning(n)' = {}
    BY <1>13, <1>14, <1>15, <2>3
  <2>5. NestInv'
    BY <1>2, <2>1, <2>2, <2>4 DEF NestInv, ExecInv, AtMostOne
  <2> QED
    BY <1>5, <1>10, <1>11, <1>12, <2>5 DEF ServerInv
<1>16. CASE m # "bls_model"
  <2>1. /\ Current("bls_model")' = Current("bls_model")
        /\ Running("bls_model")' = Running("bls_model")
    BY <1>8, <1>16, BlsFacts DEF Current, Running
  <2>2. N = NestedRunning(m)
    BY <1>2, <1>16, ReturnedBatch DEF N, IsNested, NestedRunning, Nested
  <2>3. AtMostOne(m) /\ ExecInv
    BY <1>16 DEF ServerInv, NestInv
  <2>4. CASE N = {}
    <3>1. UNCHANGED <<calling, reply>>
      BY <1>1, <1>2, <2>4
    <3>2. \A n \in Models \ {"bls_model"} :
              /\ NestedQueued(n)' = NestedQueued(n) /\ NestedRunning(n)' = NestedRunning(n)
              /\ \A i \in NestedQueued(n) : queue'[n][i] = queue[n][i]
              /\ \A i \in NestedRunning(n) : batch'[n][i] = batch[n][i]
      BY <1>6, <1>8, <1>13, <1>14, <2>2, <2>4 DEF NestedQueued
    <3>3. \A n \in Models \ {"bls_model"} : AtMostOne(n)'
      BY <2>1, <3>1, <3>2 DEF ServerInv, NestInv, AtMostOne
    <3>4. ExecInv'
      BY <1>2, <2>1, <2>3, <3>1 DEF ExecInv
    <3> QED
      BY <1>5, <1>10, <1>11, <1>12, <3>3, <3>4 DEF ServerInv, NestInv
  <2>5. CASE N # {}
    <3>1. calling = m /\ reply = NoAnswer /\ NestedQueued(m) = {}
      BY <2>2, <2>3, <2>5 DEF AtMostOne
    <3>2. \A n \in Models \ {m, "bls_model"} : NestedQueued(n) \cup NestedRunning(n) = {}
      BY <3>1 DEF ServerInv, NestInv, AtMostOne
    <3>3. \A n \in Models \ {"bls_model"} : NestedQueued(n)' \cup NestedRunning(n)' = {}
      BY <1>13, <1>14, <3>1, <3>2
    <3>4. \A n \in Models \ {"bls_model"} : AtMostOne(n)'
      BY <3>3 DEF AtMostOne
    <3>5. PICK i \in N : reply' = responses[m][i]
      BY <1>1, <2>5
    <3>6. batch[m][i].for = Current("bls_model").for
      BY <2>2, <2>3 DEF AtMostOne
    <3>7. Proper(reply', Current("bls_model").for, escaped)
      BY <1>3, <1>4, <3>5, <3>6
    <3>8. calling # NoAnswer /\ Running("bls_model")
      BY <3>1, <2>3, BlsFacts DEF ExecInv
    <3>9. ExecInv'
      BY <1>2, <2>1, <3>7, <3>8 DEF ExecInv
    <3> QED
      BY <1>5, <1>10, <1>11, <1>12, <3>4, <3>9 DEF ServerInv, NestInv
  <2> QED
    BY <2>4, <2>5
<1> QED
  BY <1>15, <1>16


\* Every step of the server.
LEMMA ServerStepInv ==
    ASSUME ServerInv, NEW m \in Models, ServerStep(m), UNCHANGED clientVars
    PROVE  ServerInv'
<1>1. CASE FormBatch(m)
  BY <1>1, FormBatchInv
<1>2. CASE Execute(m)
  BY <1>2, ExecuteInv
<1>3. CASE ExecuteExternal(m)
  BY <1>3, ExecuteExternalInv
<1>4. CASE Return(m)
  BY <1>4, ReturnInv
<1>5. CASE BlsBegin
  BY <1>5, BlsBeginInv
<1>6. CASE BlsContinue
  BY <1>6, BlsContinueInv
<1> QED
  BY <1>1, <1>2, <1>3, <1>4, <1>5, <1>6 DEF ServerStep

----------------------------------------------------------------------------
(* The clients.                                                             *)

\* A call that sends its request has had no job at the server before.
LEMMA SubmitInv ==
    ASSUME ServerInv, NEW r \in Requests, r \in Unsent, r \notin Unsent', Unsent' \subseteq Unsent,
           NEW s \in Services, Submit(r, s)
    PROVE  ServerInv'
<1> DEFINE h == Head(Route[s])
           job == Job(r, r)
           soon(j) == j.of = j.for /\ j.for \notin Unsent'
           nested(j) == service'[j.for] = "bls"
<1>1. /\ h \in Models /\ (s = "bls" => h = "bls_model") /\ job \in Jobs
      /\ job.for = r /\ job.of = r
  BY RouteFacts DEF Job, Jobs
<1>2. /\ queue' = [queue EXCEPT ![h] = Append(queue[h], job)]
      /\ service' = [service EXCEPT ![r] = s]
      /\ UNCHANGED <<batch, responses, calling, reply, answer, escaped>>
  BY DEF Submit, blsVars
<1> HIDE DEF h, job
<1>3. /\ queue \in [Models -> Seq(Jobs)] /\ queue[h] \in Seq(Jobs) /\ Len(queue[h]) \in Nat
      /\ service \in [Requests -> Services \cup {NoAnswer}]
  BY <1>1 DEF ServerInv, ServerTypes
<1>4. /\ queue'[h] \in Seq(Jobs) /\ Len(queue'[h]) = Len(queue[h]) + 1
      /\ queue'[h][Len(queue[h]) + 1] = job
      /\ \A i \in 1..Len(queue[h]) : queue'[h][i] = queue[h][i]
      /\ \A m \in Models \ {h} : queue'[m] = queue[m]
  BY <1>1, <1>2, <1>3
<1>5. \A i \in 1..Len(queue'[h]) : i = Len(queue[h]) + 1 \/ i \in 1..Len(queue[h])
  BY <1>3, <1>4
<1>6. ServerTypes'
  <2>1. queue' \in [Models -> Seq(Jobs)] /\ service' \in [Requests -> Services \cup {NoAnswer}]
    BY <1>1, <1>2, <1>3, <1>4
  <2> QED
    BY <1>2, <2>1 DEF ServerInv, ServerTypes
<1>7. JobInv'
  <2>1. \A j : Sound(j) => soon(j)
    BY DEF Sound
  <2>2. soon(job)
    BY <1>1
  <2> SUFFICES ASSUME NEW m \in Models
               PROVE  /\ \A i \in 1..Len(queue'[m]) : soon(queue'[m][i])
                      /\ \A i \in 1..Len(batch'[m]) : soon(batch'[m][i])
    BY DEF JobInv, Sound
  <2> HIDE DEF soon
  <2>3. \A i \in 1..Len(batch'[m]) : soon(batch'[m][i])
    BY <1>2, <2>1 DEF ServerInv, JobInv
  <2>4. \A i \in 1..Len(queue'[m]) : soon(queue'[m][i])
    BY <1>4, <1>5, <2>1, <2>2 DEF ServerInv, JobInv
  <2> QED
    BY <2>3, <2>4
<1>8. ResponseInv' /\ AnswerInv'
  BY <1>2 DEF ServerInv, ResponseInv, AnswerInv
<1>9. \A j : Sound(j) => (nested(j) <=> Nested(j))
  BY <1>2, <1>3 DEF Sound, Nested
<1>10. ASSUME NEW m \in Models \ {"bls_model"}
       PROVE  /\ NestedQueued(m)' = NestedQueued(m) /\ NestedRunning(m)' = NestedRunning(m)
              /\ \A i \in NestedQueued(m) : queue'[m][i] = queue[m][i]
  <2>0. /\ NestedQueued(m)' = {i \in 1..Len(queue'[m]) : nested(queue'[m][i])}
        /\ NestedRunning(m)' = {i \in 1..Len(batch[m]) : nested(batch[m][i])}
    BY <1>2 DEF NestedQueued, NestedRunning, Nested
  <2>1. ~nested(job) \/ h = "bls_model"
    BY <1>1, <1>2, <1>3
  <2> HIDE DEF nested
  <2>2. NestedRunning(m)' = NestedRunning(m)
    BY <1>9, <2>0 DEF ServerInv, JobInv, NestedRunning
  <2>3. CASE m # h
    BY <1>4, <1>9, <2>0, <2>2, <2>3 DEF ServerInv, JobInv, NestedQueued
  <2>4. CASE m = h
    <3>1. \A i \in 1..Len(queue[m]) : nested(queue'[m][i]) <=> Nested(queue[m][i])
      BY <1>4, <1>9, <2>4 DEF ServerInv, JobInv
    <3>2. \A i \in 1..Len(queue[m]) : i \in 1..Len(queue'[m])
      BY <1>3, <1>4, <2>4
    <3>3. \A i \in 1..Len(queue'[m]) : nested(queue'[m][i]) => i \in 1..Len(queue[m])
      BY <1>4, <1>5, <2>1, <2>4
    <3> QED
      BY <1>4, <2>0, <2>2, <2>4, <3>1, <3>2, <3>3 DEF NestedQueued
  <2> QED
    BY <2>3, <2>4
<1>11. NestInv'
  <2>1. /\ Current("bls_model")' = Current("bls_model")
        /\ Running("bls_model")' = Running("bls_model")
    BY <1>2 DEF Current, Running
  <2>2. ExecInv'
    BY <1>2, <2>1 DEF ServerInv, NestInv, ExecInv
  <2>3. ASSUME NEW m \in Models \ {"bls_model"} PROVE AtMostOne(m)'
    <3>1. AtMostOne(m) /\ UNCHANGED <<batch, calling, reply>>
      BY <1>2 DEF ServerInv, NestInv
    <3> QED
      BY <1>10, <2>1, <3>1 DEF AtMostOne
  <2> QED
    BY <2>2, <2>3 DEF NestInv
<1> QED
  BY <1>6, <1>7, <1>8, <1>11 DEF ServerInv

\* Any other step of a client leaves the server alone.
LEMMA ServerKeptInv ==
    ASSUME ServerInv, UNCHANGED serverVars, Unsent' \subseteq Unsent
    PROVE  ServerInv'
<1> USE DEF serverVars
<1>1. ServerTypes' /\ ResponseInv' /\ AnswerInv'
  BY DEF ServerInv, ServerTypes, ResponseInv, AnswerInv
<1>2. JobInv'
  BY DEF ServerInv, JobInv, Sound
<1>3. NestInv'
  BY DEF ServerInv, NestInv, ExecInv, AtMostOne, NestedQueued, NestedRunning, Nested, Current,
         Running
<1> QED
  BY <1>1, <1>2, <1>3 DEF ServerInv


Inv == ServerInv /\ ClientTypes /\ AnswersAreOwn

\* A call that returns has the output of its own request.
LEMMA CollectedIsOwn ==
    ASSUME ServerInv, NEW r \in Requests, answer[r] # NoAnswer, Collected(answer[r])
    PROVE  answer[r] = Response("output", r)
<1>1. answer[r] \in Answers /\ answer[r].kind = "output" /\ answer[r].of = r
  BY DEF ServerInv, ServerTypes, AnswerInv, Proper, Collected
<1> QED
  BY <1>1 DEF Answers, Response

\* The asynchronous client.
LEMMA AsyncStepInv ==
    ASSUME Inv, AsyncNext, UNCHANGED syncVars PROVE Inv'
<1> USE CallerAssumption
<1>1. ASSUME NEW c \in Tasks, AsyncCall(c) PROVE Inv'
  <2>1. /\ c \in Requests /\ c \in Unsent /\ c \notin Threads
        /\ task[c] = "new" /\ UNCHANGED <<thread, got>>
    BY <1>1 DEF AsyncCall, Unsent, syncVars
  <2>2. /\ task' = [task EXCEPT ![c] = "sent"] \/ task' = [task EXCEPT ![c] = "raised"]
        /\ \/ \E s \in Services : Submit(c, s)
           \/ UNCHANGED serverVars
    BY <1>1 DEF AsyncCall
  <2>3. c \notin Unsent' /\ Unsent' \subseteq Unsent
    BY <2>1, <2>2 DEF Inv, ClientTypes, Unsent
  <2>4. ServerInv'
    BY <2>1, <2>2, <2>3, SubmitInv, ServerKeptInv DEF Inv
  <2> QED
    BY <2>1, <2>2, <2>4 DEF Inv, ClientTypes, AnswersAreOwn
<1>2. ASSUME UNCHANGED <<serverVars, syncVars, got>>,
             task' \in [Tasks -> {"new", "sent", "returned", "raised"}],
             \A c \in Tasks : task'[c] = "new" => task[c] = "new"
      PROVE  Inv'
  <2>1. Unsent' \subseteq Unsent
    BY <1>2 DEF Unsent, syncVars
  <2> QED
    BY <1>2, <2>1, ServerKeptInv DEF Inv, ClientTypes, AnswersAreOwn, syncVars
<1>3. ASSUME NEW c \in Tasks, AsyncReturn(c) PROVE Inv'
  <2>1. /\ c \in Requests /\ answer[c] # NoAnswer /\ UNCHANGED <<serverVars, thread>>
    BY <1>3 DEF AsyncReturn, syncVars
  <2>2. CASE /\ Collected(answer[c]) /\ task' = [task EXCEPT ![c] = "returned"]
             /\ got' = [got EXCEPT ![c] = answer[c]]
    <3>1. answer[c] = Response("output", c) /\ answer[c] \in Answers
      BY <2>1, <2>2, CollectedIsOwn DEF Inv, ServerInv, ServerTypes
    <3>2. ServerInv'
      BY <2>1, <2>2, ServerKeptInv DEF Inv, ClientTypes, Unsent
    <3> QED
      BY <2>1, <2>2, <3>1, <3>2 DEF Inv, ClientTypes, AnswersAreOwn
  <2>3. CASE task' = [task EXCEPT ![c] = "raised"] /\ UNCHANGED got
    BY <1>2, <2>1, <2>3 DEF Inv, ClientTypes
  <2> QED
    BY <1>3, <2>2, <2>3 DEF AsyncReturn
<1>4. ASSUME NEW c \in Tasks, AsyncGiveUp(c) PROVE Inv'
  BY <1>2, <1>4 DEF AsyncGiveUp, Inv, ClientTypes
<1>5. ASSUME NEW k \in AsyncClosers, AsyncClose(k) \/ AsyncClosed(k) PROVE Inv'
  BY <1>2, <1>5 DEF AsyncClose, AsyncClosed, Inv, ClientTypes
<1> QED
  BY <1>1, <1>3, <1>4, <1>5 DEF AsyncNext, AsyncStep

\* The synchronous clients.
LEMMA SyncStepInv ==
    ASSUME Inv, SyncNext, UNCHANGED asyncVars PROVE Inv'
<1> USE CallerAssumption
<1>1. ASSUME NEW c \in Threads, SyncCall(c) PROVE Inv'
  <2>1. /\ c \in Requests /\ c \in Unsent /\ c \notin Tasks
        /\ thread[c] = "new" /\ UNCHANGED <<task, got>>
    BY <1>1 DEF SyncCall, Unsent, asyncVars
  <2>2. /\ thread' = [thread EXCEPT ![c] = "sent"] \/ thread' = [thread EXCEPT ![c] = "raised"]
        /\ \/ \E s \in Services : Submit(c, s)
           \/ UNCHANGED serverVars
    BY <1>1 DEF SyncCall
  <2>3. c \notin Unsent' /\ Unsent' \subseteq Unsent
    BY <2>1, <2>2 DEF Inv, ClientTypes, Unsent
  <2>4. ServerInv'
    BY <2>1, <2>2, <2>3, SubmitInv, ServerKeptInv DEF Inv
  <2> QED
    BY <2>1, <2>2, <2>4 DEF Inv, ClientTypes, AnswersAreOwn
<1>2. ASSUME UNCHANGED <<serverVars, asyncVars, got>>,
             thread' \in [Threads -> {"new", "sent", "returned", "raised"}],
             \A c \in Threads : thread'[c] = "new" => thread[c] = "new"
      PROVE  Inv'
  <2>1. Unsent' \subseteq Unsent
    BY <1>2 DEF Unsent, asyncVars
  <2> QED
    BY <1>2, <2>1, ServerKeptInv DEF Inv, ClientTypes, AnswersAreOwn, asyncVars
<1>3. ASSUME NEW c \in Threads, SyncReturn(c) PROVE Inv'
  <2>1. /\ c \in Requests /\ answer[c] # NoAnswer /\ UNCHANGED <<serverVars, task>>
    BY <1>3 DEF SyncReturn, asyncVars
  <2>2. CASE /\ Collected(answer[c]) /\ thread' = [thread EXCEPT ![c] = "returned"]
             /\ got' = [got EXCEPT ![c] = answer[c]]
    <3>1. answer[c] = Response("output", c) /\ answer[c] \in Answers
      BY <2>1, <2>2, CollectedIsOwn DEF Inv, ServerInv, ServerTypes
    <3>2. ServerInv'
      BY <2>1, <2>2, ServerKeptInv DEF Inv, ClientTypes, Unsent
    <3> QED
      BY <2>1, <2>2, <3>1, <3>2 DEF Inv, ClientTypes, AnswersAreOwn
  <2>3. CASE thread' = [thread EXCEPT ![c] = "raised"] /\ UNCHANGED got
    BY <1>2, <2>1, <2>3 DEF Inv, ClientTypes
  <2> QED
    BY <1>3, <2>2, <2>3 DEF SyncReturn
<1>4. ASSUME NEW c \in Threads, SyncGiveUp(c) PROVE Inv'
  BY <1>2, <1>4 DEF SyncGiveUp, Inv, ClientTypes
<1>5. ASSUME NEW k \in SyncClosers, SyncClose(k) \/ SyncCloseChannel(k) \/ SyncDrop(k) PROVE Inv'
  BY <1>2, <1>5 DEF SyncClose, SyncCloseChannel, EndCalls, SyncDrop, Inv, ClientTypes
<1> QED
  BY <1>1, <1>3, <1>4, <1>5 DEF SyncNext, SyncStep

\* Every step of the system.
LEMMA NextInv == Inv /\ [Next]_vars => Inv'
<1> SUFFICES ASSUME Inv, [Next]_vars PROVE Inv'
  OBVIOUS
<1>1. CASE AsyncNext /\ UNCHANGED syncVars
  BY <1>1, AsyncStepInv
<1>2. CASE SyncNext /\ UNCHANGED asyncVars
  BY <1>2, SyncStepInv
<1>3. ASSUME NEW m \in Models, ServerStep(m), UNCHANGED clientVars PROVE Inv'
  BY <1>3, ServerStepInv
  DEF Inv, ClientTypes, AnswersAreOwn, clientVars, asyncVars, syncVars
<1>4. CASE UNCHANGED vars
  BY <1>4, ServerKeptInv
  DEF Inv, ClientTypes, AnswersAreOwn, Unsent, vars, clientVars, asyncVars, syncVars
<1> QED
  BY <1>1, <1>2, <1>3, <1>4 DEF Next

\* The inductive invariant, for all callers, closers, services and batch sizes.
THEOREM InvAlways == Spec => []Inv
<1>1. Init => Inv
  BY InitServerInv DEF Inv
<1> QED
  BY <1>1, NextInv, PTL DEF Spec

\* A failure reaches the request that caused it and nobody else, unless its
\* exception left the execute() of a model that does not catch it
\* (the except clauses of models/*/1/model.py).
THEOREM FailuresAlone == Spec => []FailuresStayAlone
<1>1. Inv => FailuresStayAlone
  BY DEF Inv, ServerInv, AnswerInv, Proper, FailuresStayAlone
<1> QED
  BY <1>1, InvAlways, PTL

\* What infer_numpy() returns was computed from its own input, whatever shared
\* its batches and whatever the BLS model called meanwhile.
THEOREM OwnAnswers == Spec => []AnswersAreOwn
<1>1. Inv => AnswersAreOwn
  BY DEF Inv
<1> QED
  BY <1>1, InvAlways, PTL

----------------------------------------------------------------------------

\* A close() that is about to drop its client has closed the channel, or
\* another one has dropped it before.
ChannelInv ==
    /\ ChannelsNotLost
    /\ syncCloser \in [SyncClosers -> {"new", "closing", "drop", "done"}]
    /\ aioCloser \in [AsyncClosers -> {"new", "closing", "done", "failed"}]
    /\ \A k \in SyncClosers : syncCloser[k] = "drop" => ~held \/ syncChannel = "closed"

\* Overlapping close() calls of a synchronous client.
LEMMA SyncChannelInv == ChannelInv /\ SyncNext /\ UNCHANGED asyncVars => ChannelInv'
<1> SUFFICES ASSUME ChannelInv, SyncNext, UNCHANGED asyncVars PROVE ChannelInv'
  OBVIOUS
<1> USE DEF ChannelInv, ChannelsNotLost, asyncVars
<1>1. ASSUME NEW c \in Threads, SyncCall(c) \/ SyncStep(c) PROVE ChannelInv'
  BY <1>1 DEF SyncCall, SyncStep, SyncReturn, SyncGiveUp
<1>2. ASSUME NEW k \in SyncClosers, SyncClose(k) PROVE ChannelInv'
  BY <1>2 DEF SyncClose
<1>3. ASSUME NEW k \in SyncClosers, SyncCloseChannel(k) PROVE ChannelInv'
  BY <1>3 DEF SyncCloseChannel
<1>4. ASSUME NEW k \in SyncClosers, SyncDrop(k) PROVE ChannelInv'
  BY <1>4 DEF SyncDrop
<1> QED
  BY <1>1, <1>2, <1>3, <1>4 DEF SyncNext

\* Overlapping close() calls of an asynchronous client.
LEMMA AsyncChannelInv == ChannelInv /\ AsyncNext /\ UNCHANGED syncVars => ChannelInv'
<1> SUFFICES ASSUME ChannelInv, AsyncNext, UNCHANGED syncVars PROVE ChannelInv'
  OBVIOUS
<1> USE DEF ChannelInv, ChannelsNotLost, syncVars
<1>1. ASSUME NEW c \in Tasks, AsyncCall(c) \/ AsyncStep(c) PROVE ChannelInv'
  BY <1>1 DEF AsyncCall, AsyncStep, AsyncReturn, AsyncGiveUp
<1>2. ASSUME NEW k \in AsyncClosers, AsyncClose(k) PROVE ChannelInv'
  BY <1>2 DEF AsyncClose
<1>3. ASSUME NEW k \in AsyncClosers, AsyncClosed(k) PROVE ChannelInv'
  BY <1>3 DEF AsyncClosed
<1> QED
  BY <1>1, <1>2, <1>3 DEF AsyncNext

\* A channel that is open can still be closed, whatever close() calls overlap.
THEOREM ChannelsKept == Spec => []ChannelsNotLost
<1>1. Init => ChannelInv
  BY DEF Init, AsyncInit, SyncInit, ChannelInv, ChannelsNotLost
<1>2. ChannelInv /\ [Next]_vars => ChannelInv'
  <2> SUFFICES ASSUME ChannelInv, [Next]_vars PROVE ChannelInv'
    OBVIOUS
  <2>1. CASE UNCHANGED clientVars
    BY <2>1 DEF ChannelInv, ChannelsNotLost, clientVars, asyncVars, syncVars
  <2> QED
    BY <2>1, SyncChannelInv, AsyncChannelInv DEF Next, vars
<1>3. ChannelInv => ChannelsNotLost
  BY DEF ChannelInv
<1> QED
  BY <1>1, <1>2, <1>3, PTL DEF Spec

----------------------------------------------------------------------------
(* One answer to a request.                                                 *)

\* What a model has to do: its batch, and then its queue.
Slots(m) == batch[m] \o queue[m]
Who(m, i) == Slots(m)[i].for

\* A request that is there itself, and not a call the BLS model makes for it.
Own(m, i) == ~IsNested(m, Who(m, i))

\* A request is in one place at a time.
OnePlace ==
    \A m, n \in Models : \A i \in 1..Len(Slots(m)), j \in 1..Len(Slots(n)) :
        Own(m, i) /\ Own(n, j) /\ Who(m, i) = Who(n, j) => m = n /\ i = j

OnRoute(m, r) == \E k \in DOMAIN Route[service[r]] : Route[service[r]][k] = m

\* It is at a model of its service, and has no answer yet.
Waits(m, r) == answer[r] = NoAnswer /\ service[r] \in Services /\ OnRoute(m, r)
WaitInv == \A m \in Models : \A i \in 1..Len(Slots(m)) : Own(m, i) => Waits(m, Who(m, i))

OnceInv == OnePlace /\ WaitInv /\ \A r \in Unsent : service[r] = NoAnswer /\ answer[r] = NoAnswer

\* One sequence after another.
LEMMA Concatenated ==
    ASSUME NEW S, NEW b \in Seq(S), NEW q \in Seq(S)
    PROVE  /\ Len(b) \in Nat /\ Len(q) \in Nat
           /\ b \o q \in Seq(S) /\ Len(b \o q) = Len(b) + Len(q)
           /\ \A i \in 1..Len(b) : (b \o q)[i] = b[i]
           /\ \A i \in 1..Len(q) : (b \o q)[Len(b) + i] = q[i]
           /\ \A i \in 1..Len(b \o q) :
                 \/ i \in 1..Len(b)
                 \/ i - Len(b) \in 1..Len(q) /\ (b \o q)[i] = q[i - Len(b)]
<1>1. /\ Len(b) \in Nat /\ Len(q) \in Nat
      /\ b \o q \in Seq(S) /\ Len(b \o q) = Len(b) + Len(q)
  BY ConcatProperties
<1>2. ASSUME NEW i \in 1..(Len(b) + Len(q))
      PROVE  (b \o q)[i] = IF i <= Len(b) THEN b[i] ELSE q[i - Len(b)]
  BY ConcatProperties
<1>3. ASSUME NEW i \in 1..Len(b) PROVE (b \o q)[i] = b[i]
  <2>1. i \in 1..(Len(b) + Len(q)) /\ i <= Len(b)
    BY <1>1
  <2> QED
    BY <1>2, <2>1
<1>4. ASSUME NEW i \in 1..Len(q) PROVE (b \o q)[Len(b) + i] = q[i]
  <2>1. /\ Len(b) + i \in 1..(Len(b) + Len(q)) /\ ~(Len(b) + i <= Len(b))
        /\ (Len(b) + i) - Len(b) = i
    BY <1>1
  <2> QED
    BY <1>2, <2>1
<1>5. ASSUME NEW i \in 1..Len(b \o q), i \notin 1..Len(b)
      PROVE  i - Len(b) \in 1..Len(q) /\ (b \o q)[i] = q[i - Len(b)]
  <2>1. i \in 1..(Len(b) + Len(q)) /\ ~(i <= Len(b)) /\ i - Len(b) \in 1..Len(q)
    BY <1>1, <1>5
  <2> QED
    BY <1>2, <2>1
<1> QED
  BY <1>1, <1>3, <1>4, <1>5

\* A job at the end of a queue is at the end of what the model has to do.
LEMMA AppendLast ==
    ASSUME NEW S, NEW b \in Seq(S), NEW q \in Seq(S), NEW e \in S
    PROVE  b \o Append(q, e) = Append(b \o q, e)
<1>1. /\ b \o q \in Seq(S) /\ <<e>> \in Seq(S)
      /\ Append(q, e) = q \o <<e>> /\ Append(b \o q, e) = (b \o q) \o <<e>>
  BY ConcatProperties, AppendIsConcat
<1>2. b \o (q \o <<e>>) = (b \o q) \o <<e>>
  BY <1>1, ConcatAssociative
<1> QED
  BY <1>1, <1>2

\* What is in front of a cut, and what is behind it.
LEMMA CutInTwo ==
    ASSUME NEW S, NEW q \in Seq(S), NEW n \in 0..Len(q)
    PROVE  SubSeq(q, 1, n) \o SubSeq(q, n + 1, Len(q)) = q
<1> DEFINE front == SubSeq(q, 1, n)
           rest == SubSeq(q, n + 1, Len(q))
<1>0. Len(q) \in Nat /\ n \in Nat /\ n <= Len(q)
  OBVIOUS
<1>1. front \in Seq(S) /\ Len(front) = n /\ \A i \in 1..n : front[i] = q[i]
  <2>1. \A i \in 1..n : i \in 1..Len(q) /\ q[i] \in S
    BY <1>0
  <2>2. front = [i \in 1..n |-> q[i]]
    BY <1>0
  <2> HIDE DEF front
  <2>3. front \in [1..n -> S]
    BY <2>1, <2>2
  <2> QED
    BY <1>0, <2>2, <2>3
<1>2. /\ rest \in Seq(S) /\ Len(rest) = Len(q) - n
      /\ \A i \in 1..(Len(q) - n) : rest[i] = q[i + n]
  <2>1. \A i \in 1..(Len(q) - n) : i + n \in 1..Len(q) /\ q[i + n] \in S
    BY <1>0
  <2>2. rest = [i \in 1..(Len(q) - n) |-> q[i + n]]
    BY <1>0
  <2> HIDE DEF rest
  <2>3. rest \in [1..(Len(q) - n) -> S]
    BY <2>1, <2>2
  <2> QED
    BY <1>0, <2>2, <2>3
<1> HIDE DEF front, rest
<1>3. front \o rest \in Seq(S) /\ Len(front \o rest) = Len(q)
  <2>1. Len(front) + Len(rest) = Len(q)
    BY <1>0, <1>1, <1>2
  <2> QED
    BY <1>1, <1>2, <2>1, ConcatProperties
<1>4. ASSUME NEW i \in 1..Len(q) PROVE (front \o rest)[i] = q[i]
  <2>1. (front \o rest)[i] = IF i <= Len(front) THEN front[i] ELSE rest[i - Len(front)]
    <3>1. i \in 1..(Len(front) + Len(rest))
      BY <1>0, <1>1, <1>2
    <3> QED
      BY <1>1, <1>2, <3>1, ConcatProperties
  <2>2. CASE i <= n
    BY <1>0, <1>1, <2>1, <2>2
  <2>3. CASE ~(i <= n)
    <3>1. i - n \in 1..(Len(q) - n) /\ (i - n) + n = i
      BY <1>0, <2>3
    <3> QED
      BY <1>1, <1>2, <2>1, <2>3, <3>1
  <2> QED
    BY <2>2, <2>3
<1> QED
  BY <1>3, <1>4, SeqEqual DEF front, rest

\* Whatever is somewhere has been sent.
LEMMA SlotTypes ==
    ASSUME ServerInv, NEW m \in Models
    PROVE  /\ batch[m] \in Seq(Jobs) /\ queue[m] \in Seq(Jobs) /\ Slots(m) \in Seq(Jobs)
           /\ Len(Slots(m)) \in Nat
           /\ \A i \in 1..Len(Slots(m)) : Who(m, i) \in Requests /\ Who(m, i) \notin Unsent
<1> DEFINE b == batch[m]
           q == queue[m]
<1>1. b \in Seq(Jobs) /\ q \in Seq(Jobs) /\ Slots(m) = b \o q
  BY DEF ServerInv, ServerTypes, Slots
<1>2. /\ \A i \in 1..Len(b) : Sound(b[i]) /\ b[i] \in Jobs
      /\ \A i \in 1..Len(q) : Sound(q[i]) /\ q[i] \in Jobs
  <2>1. /\ \A i \in 1..Len(b) : Sound(b[i])
        /\ \A i \in 1..Len(q) : Sound(q[i])
    BY DEF ServerInv, JobInv
  <2> HIDE DEF b, q
  <2> QED
    BY <1>1, <2>1
<1> HIDE DEF b, q
<1>3. \A i \in 1..Len(b \o q) : Sound((b \o q)[i]) /\ (b \o q)[i] \in Jobs
  BY <1>1, <1>2, Concatenated
<1>4. b \o q \in Seq(Jobs) /\ Len(b \o q) \in Nat
  BY <1>1, Concatenated
<1>5. \A i \in 1..Len(Slots(m)) : Who(m, i) \in Requests /\ Who(m, i) \notin Unsent
  BY <1>1, <1>3 DEF Who, Sound, Jobs
<1> QED
  BY <1>1, <1>4, <1>5 DEF b, q

\* A route is a sequence of models, and only one has the BLS model.
LEMMA RouteModels ==
    ASSUME NEW s \in Services
    PROVE  /\ DOMAIN Route[s] = 1..Len(Route[s]) /\ Len(Route[s]) \in Nat \ {0}
           /\ \A k \in DOMAIN Route[s] :
                 /\ Route[s][k] \in Models
                 /\ Route[s][k] = "bls_model" => s = "bls"
           /\ Head(Route[s]) = Route[s][1]
<1>1. /\ Route["ensemble"] = <<"preprocessor", "inferencer", "postprocessor">>
      /\ Route["detection"] = <<"od_preprocessor", "yolox", "od_postprocessor">>
      /\ Route["text"] = <<"text_classifier">> /\ Route["image"] = <<"resnet50">>
      /\ Route["bls"] = <<"bls_model">>
  BY DEF Route
<1>2. s \in {"ensemble", "detection", "text", "image", "bls"}
  BY ServiceAssumption DEF Route
<1>3. {"preprocessor", "inferencer", "postprocessor", "od_preprocessor", "yolox",
       "od_postprocessor", "text_classifier", "resnet50", "bls_model"} \subseteq Models
  BY DEF Models, External, Python
<1>4. CASE s = "ensemble"
  BY <1>1, <1>3, <1>4
<1>5. CASE s = "detection"
  BY <1>1, <1>3, <1>5
<1>6. CASE s \in {"text", "image", "bls"}
  BY <1>1, <1>3, <1>6
<1> QED
  BY <1>2, <1>4, <1>5, <1>6

\* What is at the BLS model is there for the BLS service.
LEMMA AtBls ==
    ASSUME ServerInv, OnceInv, NEW i \in 1..Len(Slots("bls_model"))
    PROVE  service[Who("bls_model", i)] = "bls"
<1>1. "bls_model" \in Models /\ Own("bls_model", i)
  BY BlsFacts DEF Own, IsNested
<1>2. Waits("bls_model", Who("bls_model", i))
  BY <1>1 DEF OnceInv, WaitInv
<1> QED
  BY <1>2, RouteModels DEF Waits, OnRoute

\* The next model of an ensemble is one of its route.
LEMMA OnwardOnRoute ==
    ASSUME NEW m \in Models, NEW r, service[r] \in Services, OnRoute(m, r), Onward(m, r) # m
    PROVE  OnRoute(Onward(m, r), r)
<1> DEFINE route == Route[service[r]]
           i == CHOOSE j \in DOMAIN route : route[j] = m
<1>1. i \in DOMAIN route
  BY DEF OnRoute
<1>2. Onward(m, r) = IF i < Len(route) THEN route[i + 1] ELSE m
  BY DEF Onward
<1>3. DOMAIN route = 1..Len(route) /\ Len(route) \in Nat
  BY RouteModels
<1> HIDE DEF i
<1>4. i + 1 \in DOMAIN route /\ Onward(m, r) = route[i + 1]
  BY <1>1, <1>2, <1>3
<1> QED
  BY <1>4 DEF OnRoute

\* Steps after which every request that is somewhere has been there before.
LEMMA OnceKept ==
    ASSUME OnceInv, UNCHANGED <<service, answer>>, Unsent' \subseteq Unsent,
           \A m \in Models : \A i \in 1..Len(Slots(m)') :
               Own(m, i)' => i \in 1..Len(Slots(m)) /\ Who(m, i)' = Who(m, i)
    PROVE  OnceInv'
<1>1. ASSUME NEW m \in Models, NEW i \in 1..Len(Slots(m)'), Own(m, i)'
      PROVE  i \in 1..Len(Slots(m)) /\ Who(m, i)' = Who(m, i) /\ Own(m, i)
  BY <1>1 DEF Own, IsNested
<1>2. OnePlace'
  BY <1>1 DEF OnceInv, OnePlace
<1>3. WaitInv'
  BY <1>1 DEF OnceInv, WaitInv, Waits, OnRoute
<1> QED
  BY <1>2, <1>3 DEF OnceInv

\* A batch takes its jobs from the front of the queue.
LEMMA FormBatchOnce ==
    ASSUME ServerInv, OnceInv, NEW m \in Models, FormBatch(m), UNCHANGED clientVars
    PROVE  OnceInv'
<1>1. batch[m] = <<>> /\ UNCHANGED <<service, answer>>
  BY DEF FormBatch
<1>2. PICK n \in 1..MaxBatch :
          /\ n <= Len(queue[m])
          /\ batch' = [batch EXCEPT ![m] = SubSeq(queue[m], 1, n)]
          /\ queue' = [queue EXCEPT ![m] = SubSeq(queue[m], n + 1, Len(queue[m]))]
  BY DEF FormBatch
<1>3. /\ queue \in [Models -> Seq(Jobs)] /\ batch \in [Models -> Seq(Jobs)] /\ n \in Nat
      /\ queue[m] \in Seq(Jobs)
  BY ServiceAssumption DEF ServerInv, ServerTypes
<1>4. Slots(m)' = Slots(m)
  <2> DEFINE q == queue[m]
  <2>1. q \in Seq(Jobs) /\ n \in 0..Len(q)
    BY <1>2, <1>3
  <2>2. batch'[m] = SubSeq(q, 1, n) /\ queue'[m] = SubSeq(q, n + 1, Len(q))
    BY <1>2, <1>3
  <2>3. Slots(m)' = SubSeq(q, 1, n) \o SubSeq(q, n + 1, Len(q)) /\ Slots(m) = <<>> \o q
    BY <1>1, <2>2 DEF Slots
  <2> HIDE DEF q
  <2> QED
    BY <2>1, <2>3, CutInTwo, ConcatEmptySeq
<1>5. \A k \in Models \ {m} : Slots(k)' = Slots(k)
  BY <1>2, <1>3 DEF Slots
<1>6. Unsent' \subseteq Unsent
  BY DEF Unsent, clientVars, asyncVars, syncVars
<1>7. \A k \in Models : Slots(k)' = Slots(k)
  BY <1>4, <1>5
<1> QED
  BY <1>1, <1>6, <1>7, OnceKept DEF Who

\* Steps of execute() that call no other model.
LEMMA ExecuteOnce ==
    ASSUME OnceInv, UNCHANGED <<service, answer, queue, batch, clientVars>>
    PROVE  OnceInv'
<1>1. \A k \in Models : Slots(k)' = Slots(k)
  BY DEF Slots
<1>2. Unsent' \subseteq Unsent
  BY DEF Unsent, clientVars, asyncVars, syncVars
<1> QED
  BY <1>1, <1>2, OnceKept DEF Who

\* exec() puts a call into a queue, not the request itself.
LEMMA ExecOnce ==
    ASSUME ServerInv, OnceInv, NEW k \in Models \ {"bls_model"}, NEW job \in Jobs, Exec(k, job),
           service[job.for] = "bls", UNCHANGED <<service, answer, batch, clientVars>>
    PROVE  OnceInv'
<1>1. /\ queue' = [queue EXCEPT ![k] = Append(queue[k], job)]
      /\ queue \in [Models -> Seq(Jobs)]
  BY DEF Exec, ServerInv, ServerTypes
<1>2. \A m \in Models \ {k} : Slots(m)' = Slots(m)
  BY <1>1 DEF Slots
<1>3. Slots(k) \in Seq(Jobs) /\ Slots(k)' = Append(Slots(k), job)
  <2> DEFINE b == batch[k]
             q == queue[k]
  <2>1. b \in Seq(Jobs) /\ q \in Seq(Jobs) /\ Slots(k) \in Seq(Jobs)
    BY SlotTypes
  <2>2. Slots(k)' = b \o Append(q, job) /\ Slots(k) = b \o q
    BY <1>1 DEF Slots
  <2> HIDE DEF b, q
  <2> QED
    BY <2>1, <2>2, AppendLast
<1>4. ASSUME NEW i \in 1..Len(Slots(k)'), Own(k, i)'
      PROVE  i \in 1..Len(Slots(k)) /\ Who(k, i)' = Who(k, i)
  <2> DEFINE s == Slots(k)
  <2>0. s \in Seq(Jobs) /\ Slots(k)' = Append(s, job) /\ Len(s) \in Nat
    BY <1>3
  <2> HIDE DEF s
  <2>1. CASE i = Len(s) + 1
    <3>1. Who(k, i)' = job.for
      BY <2>0, <2>1 DEF Who
    <3> QED
      BY <1>4, <3>1 DEF Own, IsNested
  <2>2. CASE i # Len(s) + 1
    <3>1. i \in 1..Len(s) /\ Slots(k)'[i] = s[i]
      BY <2>0, <2>2
    <3> QED
      BY <3>1 DEF Who, s
  <2> QED
    BY <2>1, <2>2
<1>5. Unsent' \subseteq Unsent
  BY DEF Unsent, clientVars, asyncVars, syncVars
<1>6. \A m \in Models : \A i \in 1..Len(Slots(m)') :
          Own(m, i)' => i \in 1..Len(Slots(m)) /\ Who(m, i)' = Who(m, i)
  BY <1>2, <1>4 DEF Who
<1> QED
  BY <1>5, <1>6, OnceKept

\* The BLS model's calls are not the request itself.
LEMMA BlsOnce ==
    ASSUME ServerInv, OnceInv, BlsBegin \/ BlsContinue, UNCHANGED clientVars
    PROVE  OnceInv'
<1>1. UNCHANGED <<service, answer, batch>> /\ Running("bls_model") /\ "bls_model" \in Models
  BY BlsFacts DEF BlsBegin, BlsContinue, ServerInv, NestInv, ExecInv
<1>2. service[Current("bls_model").for] = "bls" /\ Current("bls_model") \in Jobs
  <2> DEFINE i == Len(responses["bls_model"]) + 1
  <2>1. i \in 1..Len(batch["bls_model"]) /\ Current("bls_model") = batch["bls_model"][i]
        /\ Current("bls_model") \in Jobs
    BY <1>1, CurrentJob
  <2> HIDE DEF i
  <2>2. i \in 1..Len(Slots("bls_model")) /\ Who("bls_model", i) = batch["bls_model"][i].for
    <3> DEFINE b == batch["bls_model"]
               q == queue["bls_model"]
    <3>1. b \in Seq(Jobs) /\ q \in Seq(Jobs) /\ Slots("bls_model") = b \o q /\ i \in 1..Len(b)
      BY <1>1, <2>1, SlotTypes DEF Slots
    <3> HIDE DEF b, q
    <3>2. i \in 1..Len(b \o q) /\ (b \o q)[i] = b[i]
      <4>1. Len(b) \in Nat /\ Len(q) \in Nat /\ Len(b \o q) = Len(b) + Len(q)
        BY <3>1, Concatenated
      <4> QED
        BY <3>1, <4>1, Concatenated
    <3> QED
      BY <3>1, <3>2 DEF Who, b
  <2> QED
    BY <2>1, <2>2, AtBls
<1>3. ASSUME NEW k \in {"preprocessor", "inferencer"}, NEW job \in Jobs, Exec(k, job),
             job.for = Current("bls_model").for
      PROVE  OnceInv'
  <2>1. k \in Models \ {"bls_model"}
    BY BlsFacts
  <2> QED
    BY <1>1, <1>2, <1>3, <2>1, ExecOnce
<1>4. CASE UNCHANGED queue
  BY <1>1, <1>4, ExecuteOnce
<1>5. CASE BlsBegin /\ ~UNCHANGED queue
  <2>1. Exec("preprocessor", Current("bls_model"))
    BY <1>5 DEF BlsBegin
  <2> QED
    BY <1>2, <1>3, <2>1
<1>6. CASE BlsContinue /\ ~UNCHANGED queue
  <2>1. /\ Exec("inferencer", Job(Current("bls_model").for, reply.of))
        /\ reply # NoAnswer
    BY <1>6 DEF BlsContinue
  <2>2. /\ Job(Current("bls_model").for, reply.of) \in Jobs
        /\ Job(Current("bls_model").for, reply.of).for = Current("bls_model").for
    BY <1>2, <2>1 DEF Job, Jobs, ServerInv, ServerTypes, Answers
  <2> QED
    BY <1>3, <2>1, <2>2
<1> QED
  BY <1>4, <1>5, <1>6

\* A request that a client sends is nowhere yet.
LEMMA SubmitOnce ==
    ASSUME ServerInv, OnceInv, NEW r \in Requests, r \in Unsent, r \notin Unsent',
           Unsent' \subseteq Unsent, NEW s \in Services, Submit(r, s)
    PROVE  OnceInv'
<1> DEFINE h == Head(Route[s])
           job == Job(r, r)
<1>1. /\ h \in Models /\ job \in Jobs /\ job.for = r
      /\ 1 \in DOMAIN Route[s] /\ Route[s][1] = h
  BY RouteFacts, RouteModels DEF Job, Jobs
<1>2. /\ queue' = [queue EXCEPT ![h] = Append(queue[h], job)]
      /\ service' = [service EXCEPT ![r] = s]
      /\ UNCHANGED <<batch, responses, calling, reply, answer, escaped>>
  BY DEF Submit, blsVars
<1> HIDE DEF h, job
<1>3. /\ queue \in [Models -> Seq(Jobs)]
      /\ service' \in [Requests -> Services \cup {NoAnswer}] /\ service'[r] = s
      /\ \A c \in Requests \ {r} : service'[c] = service[c]
  BY <1>2 DEF ServerInv, ServerTypes
<1>4. Slots(h)' = Append(Slots(h), job)
  <2> DEFINE b == batch[h]
             q == queue[h]
  <2>1. b \in Seq(Jobs) /\ q \in Seq(Jobs) /\ Slots(h)' = b \o Append(q, job) /\ Slots(h) = b \o q
    BY <1>1, <1>2, <1>3, SlotTypes DEF Slots
  <2> HIDE DEF b, q
  <2> QED
    BY <1>1, <2>1, AppendLast
<1>5. \A m \in Models \ {h} : Slots(m)' = Slots(m)
  BY <1>2, <1>3 DEF Slots
<1>6. ASSUME NEW m \in Models, NEW i \in 1..Len(Slots(m)')
      PROVE  \/ m = h /\ i = Len(Slots(h)) + 1 /\ Who(m, i)' = r
             \/ i \in 1..Len(Slots(m)) /\ Who(m, i)' = Who(m, i)
  <2>1. CASE m # h
    BY <1>5, <2>1 DEF Who
  <2>2. CASE m = h
    <3> DEFINE t == Slots(h)
    <3>1. t \in Seq(Jobs) /\ Slots(h)' = Append(t, job) /\ Len(t) \in Nat
      BY <1>1, <1>4, SlotTypes
    <3> HIDE DEF t
    <3>2. CASE i = Len(t) + 1
      BY <1>1, <2>2, <3>1, <3>2 DEF Who, t
    <3>3. CASE i # Len(t) + 1
      <4>1. i \in 1..Len(t) /\ Slots(h)'[i] = t[i]
        BY <1>1, <2>2, <3>1, <3>3
      <4> QED
        BY <2>2, <4>1 DEF Who, t
    <3> QED
      BY <3>2, <3>3
  <2> QED
    BY <2>1, <2>2
<1>7. ASSUME NEW m \in Models, NEW i \in 1..Len(Slots(m)), Who(m, i)' = Who(m, i)
      PROVE  /\ Who(m, i) # r /\ service'[Who(m, i)] = service[Who(m, i)]
             /\ Own(m, i)' => Own(m, i)
  <2>1. Who(m, i) \in Requests /\ Who(m, i) # r
    BY SlotTypes
  <2> QED
    BY <1>3, <1>7, <2>1 DEF Own, IsNested
<1>8. OnePlace'
  <2> SUFFICES ASSUME NEW m \in Models, NEW n \in Models,
                      NEW i \in 1..Len(Slots(m)'), NEW j \in 1..Len(Slots(n)'),
                      Own(m, i)', Own(n, j)', Who(m, i)' = Who(n, j)'
               PROVE  m = n /\ i = j
    BY DEF OnePlace
  <2> QED
    BY <1>6, <1>7 DEF OnceInv, OnePlace
<1>9. WaitInv'
  <2> SUFFICES ASSUME NEW m \in Models, NEW i \in 1..Len(Slots(m)'), Own(m, i)'
               PROVE  Waits(m, Who(m, i))'
    BY DEF WaitInv
  <2>1. CASE m = h /\ Who(m, i)' = r
    <3>1. answer'[r] = NoAnswer /\ service'[r] = s
      BY <1>2, <1>3 DEF OnceInv
    <3> QED
      BY <1>1, <2>1, <3>1 DEF Waits, OnRoute
  <2>2. CASE i \in 1..Len(Slots(m)) /\ Who(m, i)' = Who(m, i)
    <3>1. Waits(m, Who(m, i)) /\ service'[Who(m, i)] = service[Who(m, i)]
      BY <1>7, <2>2 DEF OnceInv, WaitInv
    <3> QED
      BY <1>2, <2>2, <3>1 DEF Waits, OnRoute
  <2> QED
    BY <1>6, <2>1, <2>2
<1>10. \A c \in Unsent' : service'[c] = NoAnswer /\ answer'[c] = NoAnswer
  BY <1>2, <1>3, CallerAssumption DEF OnceInv, Unsent
<1> QED
  BY <1>8, <1>9, <1>10 DEF OnceInv

\* The positions that Triton answers itself.
Finished(m) ==
    DOMAIN batch[m] \ ({i \in DOMAIN batch[m] : IsNested(m, batch[m][i].for)} \cup
                       {i \in DOMAIN batch[m] : Advances(m, batch[m][i].for, responses[m][i])})

\* What Return does, by positions.
LEMMA ReturnFacts ==
    ASSUME NEW m, Return(m)
    PROVE  /\ answer' = [r \in Requests |->
                 IF \E i \in Finished(m) : batch[m][i].for = r
                 THEN responses[m][CHOOSE i \in Finished(m) : batch[m][i].for = r] ELSE answer[r]]
           /\ queue' = [n \in Models |-> queue[n] \o Following(m, n)]
           /\ ~Running(m) /\ UNCHANGED <<service, calling, escaped>>
           /\ batch' = [batch EXCEPT ![m] = <<>>]
BY Zenon DEF Return, Finished, Following, Position, Positions

\* A batch is the front of what a model has to do.
LEMMA BatchSlots ==
    ASSUME ServerInv, NEW m \in Models, NEW p \in DOMAIN batch[m]
    PROVE  /\ p \in 1..Len(batch[m]) /\ p \in 1..Len(Slots(m)) /\ Len(batch[m]) \in Nat
           /\ Who(m, p) = batch[m][p].for
<1> DEFINE b == batch[m]
           q == queue[m]
<1>1. b \in Seq(Jobs) /\ q \in Seq(Jobs) /\ Slots(m) = b \o q
  BY SlotTypes DEF Slots
<1>2. p \in 1..Len(b)
  BY <1>1
<1> HIDE DEF b, q
<1>3. /\ Len(b) \in Nat /\ Len(q) \in Nat /\ Len(b \o q) = Len(b) + Len(q)
      /\ (b \o q)[p] = b[p]
  BY <1>1, <1>2, Concatenated
<1>4. p \in 1..Len(b \o q)
  BY <1>2, <1>3
<1> QED
  BY <1>1, <1>2, <1>3, <1>4 DEF Who, b

\* Only what is here itself is answered, and then it waits for the answer.
LEMMA FinishedWaits ==
    ASSUME ServerInv, OnceInv, NEW m \in Models, NEW p \in Finished(m)
    PROVE  /\ p \in 1..Len(batch[m]) /\ Own(m, p) /\ Who(m, p) = batch[m][p].for
           /\ p \in 1..Len(Slots(m)) /\ Waits(m, batch[m][p].for)
           /\ batch[m][p].for \in Requests /\ batch[m][p].for \notin Unsent
           /\ \A n : p \notin Positions(m, n)
<1>1. /\ p \in DOMAIN batch[m] /\ ~IsNested(m, batch[m][p].for)
      /\ ~Advances(m, batch[m][p].for, responses[m][p])
  BY DEF Finished
<1>2. /\ p \in 1..Len(batch[m]) /\ p \in 1..Len(Slots(m)) /\ Who(m, p) = batch[m][p].for
  BY <1>1, BatchSlots
<1>3. Own(m, p) /\ \A n : p \notin Positions(m, n)
  BY <1>1, <1>2 DEF Own, Positions
<1>4. Waits(m, batch[m][p].for)
  BY <1>2, <1>3 DEF OnceInv, WaitInv
<1>5. Who(m, p) \in Requests /\ Who(m, p) \notin Unsent
  BY <1>2, SlotTypes
<1> QED
  BY <1>2, <1>3, <1>4, <1>5

\* An ensemble goes on with a request that is here itself, at another model.
LEMMA PositionsMove ==
    ASSUME ServerInv, OnceInv, NEW m \in Models, ~Running(m), NEW n, NEW p \in Positions(m, n)
    PROVE  /\ n # m /\ p \in DOMAIN batch[m] /\ p \in 1..Len(Slots(m)) /\ Own(m, p)
           /\ n = Onward(m, Who(m, p)) /\ OnRoute(n, Who(m, p)) /\ service[Who(m, p)] # "bls"
<1>1. /\ p \in DOMAIN batch[m] /\ ~IsNested(m, batch[m][p].for)
      /\ Onward(m, batch[m][p].for) = n /\ n # m
  BY DEF Positions, Advances
<1>2. p \in 1..Len(Slots(m)) /\ Who(m, p) = batch[m][p].for
  BY <1>1, BatchSlots
<1>3. Own(m, p)
  BY <1>1, <1>2 DEF Own
<1>4. Waits(m, Who(m, p))
  BY <1>2, <1>3 DEF OnceInv, WaitInv
<1>5. OnRoute(n, Who(m, p))
  BY <1>1, <1>2, <1>4, OnwardOnRoute DEF Waits
<1>6. service[Who(m, p)] # "bls"
  BY <1>1, <1>2, BlsIsLast DEF IsNested
<1> QED
  BY <1>1, <1>2, <1>3, <1>5, <1>6

\* The rank of a position among those that go to the same model.
Rank(m, n, p) == Cardinality({l \in Positions(m, n) : l <= p})

\* Where a place in a queue or a batch comes from when m has returned.
LEMMA WhereFrom ==
    ASSUME ServerInv, OnceInv, NEW m \in Models, Return(m), NEW n \in Models,
           NEW i \in 1..Len(Slots(n)')
    PROVE  \/ n # m /\ i \in 1..Len(Slots(n)) /\ Who(n, i)' = Who(n, i)
           \/ /\ n = m /\ i + Len(batch[m]) \in 1..Len(Slots(m))
              /\ i + Len(batch[m]) \notin DOMAIN batch[m]
              /\ Who(n, i)' = Who(m, i + Len(batch[m]))
           \/ /\ n # m /\ \E p \in Positions(m, n) :
                    Who(n, i)' = Who(m, p) /\ i = Len(Slots(n)) + Rank(m, n, p)
<1> DEFINE b == batch[n]
           q == queue[n]
           f == Following(m, n)
<1>1. /\ ~Running(m) /\ queue'[n] = q \o f
      /\ batch'[n] = IF n = m THEN <<>> ELSE b
  BY ReturnFacts DEF ServerInv, ServerTypes
<1>2. /\ b \in Seq(Jobs) /\ q \in Seq(Jobs) /\ Slots(n) = b \o q /\ f \in Seq(Jobs)
      /\ Len(b) \in Nat /\ DOMAIN b = 1..Len(b)
  <2>1. f \in Seq(Jobs)
    BY <1>1, FollowingJobs
  <2>2. b \in Seq(Jobs) /\ q \in Seq(Jobs) /\ Slots(n) = b \o q
    BY SlotTypes DEF Slots
  <2> HIDE DEF b, q, f
  <2> QED
    BY <2>1, <2>2
<1>3. Slots(n)' = (IF n = m THEN <<>> ELSE b) \o (q \o f)
  BY <1>1 DEF Slots
<1>4. CASE n = m
  <2>1. Positions(m, n) = {}
    BY <1>1, <1>4, PositionsMove
  <2>2. f = <<>>
    <3>1. Cardinality(Positions(m, n)) = 0
      BY <2>1, FS_EmptySet
    <3>2. DOMAIN f = {}
      BY <3>1 DEF Following
    <3> HIDE DEF f
    <3> QED
      BY <1>2, <3>2
  <2> HIDE DEF b, q, f
  <2>3. Slots(n)' = q
    BY <1>2, <1>3, <1>4, <2>2, ConcatEmptySeq
  <2>4. /\ Len(b \o q) = Len(b) + Len(q) /\ Len(q) \in Nat
        /\ i \in 1..Len(q) /\ (b \o q)[Len(b) + i] = q[i]
    <3>1. i \in 1..Len(q)
      BY <2>3
    <3> QED
      BY <1>2, <3>1, Concatenated
  <2>5. /\ i + Len(b) = Len(b) + i /\ i + Len(b) \in 1..Len(b \o q)
        /\ i + Len(b) \notin 1..Len(b)
    BY <1>2, <2>4
  <2>6. Who(n, i)' = Who(n, i + Len(b))
    BY <1>2, <2>3, <2>4, <2>5 DEF Who
  <2> QED
    BY <1>2, <1>4, <2>5, <2>6 DEF b
<1>5. CASE n # m
  <2> DEFINE c == Cardinality(Positions(m, n))
  <2>0. /\ f = [k \in 1..c |-> Job(batch[m][Position(m, n, k)].for,
                                   responses[m][Position(m, n, k)].of)]
        /\ Positions(m, n) \in SUBSET (1..Len(batch[m])) /\ Len(batch[m]) \in Nat
    BY SlotTypes DEF Following, Positions
  <2>1. c \in Nat
    <3>1. IsFiniteSet(1..Len(batch[m]))
      BY <2>0, FS_Interval
    <3>2. IsFiniteSet(Positions(m, n))
      BY <2>0, <3>1, FS_Subset
    <3> QED
      BY <3>2, FS_CardinalityType
  <2>2. Len(f) = c
    BY <1>2, <2>0, <2>1
  <2>3. ASSUME NEW k \in 1..c
        PROVE  \E p \in Positions(m, n) : f[k].for = Who(m, p) /\ k = Rank(m, n, p)
    <3> DEFINE p == Position(m, n, k)
    <3>1. p \in Positions(m, n) /\ Rank(m, n, p) = k
      BY <2>0, EveryRank DEF Position, Rank
    <3>2. f[k].for = batch[m][p].for
      BY <2>0 DEF Job
    <3> HIDE DEF p
    <3>3. batch[m][p].for = Who(m, p)
      BY <1>1, <3>1, PositionsMove, BatchSlots
    <3> QED
      BY <3>1, <3>2, <3>3
  <2> HIDE DEF b, q, f, c
  <2>4. Slots(n)' = Slots(n) \o f
    BY <1>2, <1>3, <1>5, ConcatAssociative
  <2>5. Slots(n) \in Seq(Jobs)
    BY SlotTypes
  <2> DEFINE t == Slots(n)
  <2>6. /\ t \in Seq(Jobs) /\ f \in Seq(Jobs) /\ i \in 1..Len(t \o f)
        /\ Who(n, i)' = (t \o f)[i].for
    BY <1>2, <2>4, <2>5 DEF Who
  <2>7. \A j \in 1..Len(t) : Who(n, j) = t[j].for
    BY DEF Who
  <2> HIDE DEF t
  <2>8. Len(t) \in Nat /\ Len(f) \in Nat
    BY <2>6
  <2>9. CASE i \in 1..Len(t)
    <3>1. (t \o f)[i] = t[i]
      BY <2>6, <2>9, Concatenated
    <3> QED
      BY <1>5, <2>6, <2>7, <2>9, <3>1 DEF t
  <2>10. CASE i \notin 1..Len(t)
    <3> DEFINE k == i - Len(t)
    <3>1. k \in 1..Len(f) /\ (t \o f)[i] = f[k]
      BY <2>6, <2>10, Concatenated
    <3>2. i = Len(t) + k
      BY <2>6, <2>8
    <3> HIDE DEF k
    <3> QED
      BY <1>5, <2>2, <2>3, <2>6, <3>1, <3>2 DEF t
  <2> QED
    BY <2>9, <2>10
<1> QED
  BY <1>4, <1>5

\* What is in a queue or a batch after a model has returned was in one place
\* before, and not among what was answered.
LEMMA ReturnOnce ==
    ASSUME ServerInv, OnceInv, NEW m \in Models, Return(m), UNCHANGED clientVars
    PROVE  OnceInv'
<1> DEFINE Stayed(n, i, k, o) == k = n /\ n # m /\ o = i
           Shifted(n, i, k, o) == /\ k = m /\ n = m /\ o = i + Len(batch[m])
                                  /\ o \notin DOMAIN batch[m]
           Moved(n, i, k, o) == /\ k = m /\ n # m /\ o \in Positions(m, n)
                                /\ i = Len(Slots(n)) + Rank(m, n, o)
           From(n, i, k, o) == Stayed(n, i, k, o) \/ Shifted(n, i, k, o) \/ Moved(n, i, k, o)
<1>1. /\ answer' = [r \in Requests |->
             IF \E i \in Finished(m) : batch[m][i].for = r
             THEN responses[m][CHOOSE i \in Finished(m) : batch[m][i].for = r] ELSE answer[r]]
      /\ ~Running(m) /\ UNCHANGED service /\ Len(batch[m]) \in Nat
      /\ DOMAIN batch[m] = 1..Len(batch[m])
  BY ReturnFacts, ReturnedBatch
<1>2. ASSUME NEW n \in Models, NEW i \in 1..Len(Slots(n)'), Own(n, i)'
      PROVE  \E k \in Models, o \in Int :
                /\ o \in 1..Len(Slots(k)) /\ From(n, i, k, o)
                /\ Who(n, i)' = Who(k, o) /\ Own(k, o)
  <2>1. CASE n # m /\ i \in 1..Len(Slots(n)) /\ Who(n, i)' = Who(n, i)
    <3>1. From(n, i, n, i) /\ Own(n, i)
      BY <1>1, <1>2, <2>1 DEF Own, IsNested
    <3> QED
      BY <2>1, <3>1
  <2>2. CASE /\ n = m /\ i + Len(batch[m]) \in 1..Len(Slots(m))
             /\ i + Len(batch[m]) \notin DOMAIN batch[m]
             /\ Who(n, i)' = Who(m, i + Len(batch[m]))
    <3>1. From(n, i, m, i + Len(batch[m])) /\ Own(m, i + Len(batch[m]))
      BY <1>1, <1>2, <2>2 DEF Own, IsNested
    <3> QED
      BY <2>2, <3>1
  <2>3. CASE /\ n # m /\ \E p \in Positions(m, n) :
                    Who(n, i)' = Who(m, p) /\ i = Len(Slots(n)) + Rank(m, n, p)
    <3>1. PICK p \in Positions(m, n) :
              Who(n, i)' = Who(m, p) /\ i = Len(Slots(n)) + Rank(m, n, p)
      BY <2>3
    <3>2. p \in 1..Len(Slots(m)) /\ Own(m, p)
      BY <1>1, PositionsMove
    <3>3. From(n, i, m, p)
      BY <2>3, <3>1
    <3> HIDE DEF From
    <3> QED
      BY <3>1, <3>2, <3>3
  <2> HIDE DEF From
  <2> QED
    BY <2>1, <2>2, <2>3, WhereFrom
<1>3. ASSUME NEW n \in Models, NEW i \in 1..Len(Slots(n)'),
             NEW l \in Models, NEW j \in 1..Len(Slots(l)'),
             NEW k \in Models, NEW o \in 1..Len(Slots(k)), From(n, i, k, o), From(l, j, k, o)
      PROVE  n = l /\ i = j
  <2>0. i \in Int /\ j \in Int /\ o \in Int
    OBVIOUS
  <2>1. ASSUME NEW a \in Models, NEW x, NEW c \in Models, NEW y,
               Moved(a, x, k, o), From(c, y, k, o)
        PROVE  Moved(c, y, k, o)
    <3>1. o \in DOMAIN batch[m] /\ k = m
      BY <1>1, <2>1, PositionsMove
    <3> QED
      BY <2>1, <3>1
  <2>2. CASE Moved(n, i, k, o) \/ Moved(l, j, k, o)
    <3>1. Moved(n, i, k, o) /\ Moved(l, j, k, o)
      BY <1>3, <2>1, <2>2
    <3>2. n = l
      BY <1>1, <3>1, PositionsMove
    <3> QED
      BY <3>1, <3>2
  <2>3. CASE ~Moved(n, i, k, o) /\ ~Moved(l, j, k, o)
    <3> HIDE DEF Moved
    <3> QED
      BY <1>1, <1>3, <2>0, <2>3
  <2> QED
    BY <2>2, <2>3
<1>4. ASSUME NEW n \in Models, NEW i \in 1..Len(Slots(n)'),
             NEW k \in Models, NEW o \in 1..Len(Slots(k)), From(n, i, k, o)
      PROVE  k # m \/ o \notin Finished(m)
  <2>1. CASE Moved(n, i, k, o)
    BY <2>1, FinishedWaits
  <2>2. CASE ~Moved(n, i, k, o)
    <3> HIDE DEF Moved
    <3> QED
      BY <1>4, <2>2 DEF Finished
  <2> QED
    BY <2>1, <2>2
<1>5. ASSUME NEW n \in Models, NEW i \in 1..Len(Slots(n)'),
             NEW k \in Models, NEW o \in 1..Len(Slots(k)), From(n, i, k, o),
             Waits(k, Who(k, o))
      PROVE  OnRoute(n, Who(k, o))
  <2>1. CASE Moved(n, i, k, o)
    BY <1>1, <2>1, PositionsMove
  <2>2. CASE ~Moved(n, i, k, o)
    <3> HIDE DEF Moved
    <3> QED
      BY <1>5, <2>2 DEF Waits
  <2> QED
    BY <2>1, <2>2
<1> HIDE DEF From
<1>6. OnePlace'
  <2> SUFFICES ASSUME NEW n \in Models, NEW l \in Models,
                      NEW i \in 1..Len(Slots(n)'), NEW j \in 1..Len(Slots(l)'),
                      Own(n, i)', Own(l, j)', Who(n, i)' = Who(l, j)'
               PROVE  n = l /\ i = j
    BY DEF OnePlace
  <2>1. PICK k \in Models, o \in Int :
            /\ o \in 1..Len(Slots(k)) /\ From(n, i, k, o)
            /\ Who(n, i)' = Who(k, o) /\ Own(k, o)
    BY <1>2
  <2>2. PICK c \in Models, p \in Int :
            /\ p \in 1..Len(Slots(c)) /\ From(l, j, c, p)
            /\ Who(l, j)' = Who(c, p) /\ Own(c, p)
    BY <1>2
  <2>3. k = c /\ o = p
    BY <2>1, <2>2 DEF OnceInv, OnePlace
  <2> QED
    BY <1>3, <2>1, <2>2, <2>3
<1>7. WaitInv'
  <2> SUFFICES ASSUME NEW n \in Models, NEW i \in 1..Len(Slots(n)'), Own(n, i)'
               PROVE  Waits(n, Who(n, i))'
    BY DEF WaitInv
  <2>1. PICK k \in Models, o \in Int :
            /\ o \in 1..Len(Slots(k)) /\ From(n, i, k, o)
            /\ Who(n, i)' = Who(k, o) /\ Own(k, o)
    BY <1>2
  <2>2. Waits(k, Who(k, o)) /\ Who(k, o) \in Requests
    BY <2>1, SlotTypes DEF OnceInv, WaitInv
  <2>3. ~ \E p \in Finished(m) : batch[m][p].for = Who(k, o)
    <3> SUFFICES ASSUME NEW p \in Finished(m), batch[m][p].for = Who(k, o) PROVE FALSE
      OBVIOUS
    <3>1. p \in 1..Len(Slots(m)) /\ Own(m, p) /\ Who(m, p) = Who(k, o)
      BY FinishedWaits
    <3>2. k = m /\ o = p
      BY <2>1, <3>1 DEF OnceInv, OnePlace
    <3> QED
      BY <1>4, <2>1, <3>2
  <2>4. answer'[Who(k, o)] = NoAnswer
    BY <1>1, <2>2, <2>3 DEF Waits
  <2>5. OnRoute(n, Who(k, o))
    BY <1>5, <2>1, <2>2
  <2> QED
    BY <1>1, <2>1, <2>2, <2>4, <2>5 DEF Waits, OnRoute
<1>8. ASSUME NEW c \in Unsent' PROVE service'[c] = NoAnswer /\ answer'[c] = NoAnswer
  <2>1. c \in Unsent /\ c \in Requests
    BY CallerAssumption DEF Unsent, clientVars, asyncVars, syncVars
  <2>2. ~ \E p \in Finished(m) : batch[m][p].for = c
    BY <2>1, FinishedWaits
  <2> QED
    BY <1>1, <2>1, <2>2 DEF OnceInv
<1> QED
  BY <1>6, <1>7, <1>8 DEF OnceInv

\* A call that is not over has returned nothing.
SentInv ==
    /\ \A c \in Tasks : task[c] \in {"new", "sent"} => got[c] = NoAnswer
    /\ \A c \in Threads : thread[c] \in {"new", "sent"} => got[c] = NoAnswer

CallsInv == Inv /\ OnceInv /\ SentInv
callVars == <<{r \in Requests : service[r] # NoAnswer}, answer, got>>

\* A step of the server answers requests that wait, or nothing.
LEMMA ServerCalls ==
    ASSUME CallsInv, NEW m \in Models, ServerStep(m), UNCHANGED clientVars
    PROVE  OnceInv' /\ SentInv' /\ (Calls!Serve \/ UNCHANGED callVars)
<1>1. ServerInv /\ OnceInv /\ UNCHANGED got /\ SentInv'
  BY DEF CallsInv, Inv, SentInv, clientVars, asyncVars, syncVars
<1>2. CASE FormBatch(m)
  BY <1>1, <1>2, FormBatchOnce DEF FormBatch, callVars
<1>3. CASE Execute(m)
  BY <1>1, <1>3, ExecuteOnce DEF Execute, callVars
<1>4. CASE ExecuteExternal(m)
  BY <1>1, <1>4, ExecuteOnce DEF ExecuteExternal, callVars
<1>5. CASE BlsBegin \/ BlsContinue
  BY <1>1, <1>5, BlsOnce DEF BlsBegin, BlsContinue, callVars
<1>6. CASE Return(m)
  <2>1. OnceInv'
    BY <1>1, <1>6, ReturnOnce
  <2>2. /\ answer' = [r \in Requests |->
               IF \E i \in Finished(m) : batch[m][i].for = r
               THEN responses[m][CHOOSE i \in Finished(m) : batch[m][i].for = r]
               ELSE answer[r]]
        /\ UNCHANGED service
    BY <1>6, ReturnFacts
  <2>3. ASSUME NEW r \in Requests, answer'[r] # answer[r]
        PROVE  service[r] # NoAnswer /\ answer[r] = NoAnswer
    <3>1. PICK i \in Finished(m) : batch[m][i].for = r
      BY <2>2, <2>3
    <3>2. Waits(m, r)
      BY <1>1, <3>1, FinishedWaits
    <3> QED
      BY <3>2, ServiceAssumption DEF Waits
  <2>4. answer' = [r \in Requests |-> answer'[r]]
    BY <2>2
  <2>5. Calls!Serve
    BY <1>1, <2>2, <2>3, <2>4 DEF Calls!Serve
  <2> QED
    BY <1>1, <2>1, <2>5
<1> QED
  BY <1>2, <1>3, <1>4, <1>5, <1>6 DEF ServerStep

\* A request is sent once.
LEMMA SubmitAsks ==
    ASSUME CallsInv, NEW r \in Requests, r \in Unsent, r \notin Unsent', Unsent' \subseteq Unsent,
           NEW s \in Services, Submit(r, s), UNCHANGED got
    PROVE  OnceInv' /\ Calls!Ask(r)
<1>1. /\ service' = [service EXCEPT ![r] = s] /\ UNCHANGED answer /\ s # NoAnswer
      /\ service \in [Requests -> Services \cup {NoAnswer}] /\ service[r] = NoAnswer
  BY ServiceAssumption DEF Submit, CallsInv, Inv, OnceInv, ServerInv, ServerTypes
<1>2. {c \in Requests : service'[c] # NoAnswer} = {c \in Requests : service[c] # NoAnswer} \cup {r}
  BY <1>1
<1>3. OnceInv'
  BY SubmitOnce DEF CallsInv, Inv
<1> QED
  BY <1>1, <1>2, <1>3 DEF Calls!Ask

\* A call returns its answer once.
LEMMA ReturnsOwn ==
    ASSUME CallsInv, NEW r \in Requests, got[r] = NoAnswer, answer[r] # NoAnswer,
           Collected(answer[r]), got' = [got EXCEPT ![r] = answer[r]], UNCHANGED <<service, answer>>
    PROVE  Calls!Return(r)
<1>1. answer[r] = Response("output", r)
  BY CollectedIsOwn DEF CallsInv, Inv
<1> QED
  BY <1>1 DEF Calls!Return

\* Other steps of the clients.
LEMMA ClientOnce ==
    ASSUME OnceInv, UNCHANGED serverVars, Unsent' \subseteq Unsent PROVE OnceInv'
<1>1. UNCHANGED <<service, answer, queue, batch>>
  BY DEF serverVars
<1>2. \A m \in Models : Slots(m)' = Slots(m)
  BY <1>1 DEF Slots
<1> QED
  BY <1>1, <1>2, OnceKept DEF Who

\* What a step of a client means for its call.
ClientCalls ==
    /\ OnceInv' /\ SentInv'
    /\ (\E r \in Requests : Calls!Ask(r) \/ Calls!Return(r)) \/ UNCHANGED callVars

\* The asynchronous client.
LEMMA AsyncCalls == ASSUME CallsInv, AsyncNext, UNCHANGED syncVars PROVE ClientCalls
<1> USE CallerAssumption
<1>0. /\ task \in [Tasks -> {"new", "sent", "returned", "raised"}]
      /\ got \in [Requests -> Answers \cup {NoAnswer}] /\ OnceInv /\ SentInv
      /\ UNCHANGED thread
  BY DEF CallsInv, Inv, ClientTypes, syncVars
<1>1. ASSUME NEW c \in Tasks, AsyncCall(c) PROVE ClientCalls
  <2>1. c \in Requests /\ c \in Unsent /\ task[c] = "new" /\ UNCHANGED got
    BY <1>1 DEF AsyncCall, Unsent
  <2>2. /\ task' = [task EXCEPT ![c] = "sent"] \/ task' = [task EXCEPT ![c] = "raised"]
        /\ (\E s \in Services : Submit(c, s)) \/ UNCHANGED serverVars
    BY <1>1 DEF AsyncCall
  <2>3. c \notin Unsent' /\ Unsent' \subseteq Unsent /\ SentInv'
    BY <1>0, <2>1, <2>2 DEF Unsent, SentInv
  <2>4. CASE \E s \in Services : Submit(c, s)
    BY <2>1, <2>3, <2>4, SubmitAsks DEF ClientCalls
  <2>5. CASE UNCHANGED serverVars
    BY <1>0, <2>1, <2>3, <2>5, ClientOnce DEF ClientCalls, callVars, serverVars
  <2> QED
    BY <2>2, <2>4, <2>5
<1>2. ASSUME UNCHANGED <<serverVars, got>>,
             \A c \in Tasks : task'[c] \in {"new", "sent"} => task'[c] = task[c]
      PROVE  ClientCalls
  <2>1. Unsent' \subseteq Unsent /\ SentInv'
    BY <1>0, <1>2 DEF Unsent, SentInv
  <2> QED
    BY <1>0, <1>2, <2>1, ClientOnce DEF ClientCalls, callVars, serverVars
<1>3. ASSUME NEW c \in Tasks, AsyncReturn(c) PROVE ClientCalls
  <2>1. /\ c \in Requests /\ task[c] = "sent" /\ answer[c] # NoAnswer /\ UNCHANGED serverVars
    BY <1>3 DEF AsyncReturn
  <2>2. CASE /\ Collected(answer[c]) /\ task' = [task EXCEPT ![c] = "returned"]
             /\ got' = [got EXCEPT ![c] = answer[c]]
    <3>1. Unsent' \subseteq Unsent /\ SentInv' /\ got[c] = NoAnswer
      BY <1>0, <2>1, <2>2 DEF Unsent, SentInv
    <3>2. Calls!Return(c)
      BY <2>1, <2>2, <3>1, ReturnsOwn DEF serverVars
    <3> QED
      BY <1>0, <2>1, <3>1, <3>2, ClientOnce DEF ClientCalls
  <2>3. CASE task' = [task EXCEPT ![c] = "raised"] /\ UNCHANGED got
    BY <1>0, <1>2, <2>1, <2>3
  <2> QED
    BY <1>3, <2>2, <2>3 DEF AsyncReturn
<1>4. ASSUME NEW c \in Tasks, AsyncGiveUp(c) PROVE ClientCalls
  BY <1>0, <1>2, <1>4 DEF AsyncGiveUp
<1>5. ASSUME NEW k \in AsyncClosers, AsyncClose(k) \/ AsyncClosed(k) PROVE ClientCalls
  BY <1>0, <1>2, <1>5 DEF AsyncClose, AsyncClosed
<1> QED
  BY <1>1, <1>3, <1>4, <1>5 DEF AsyncNext, AsyncStep

\* The synchronous clients.
LEMMA SyncCalls == ASSUME CallsInv, SyncNext, UNCHANGED asyncVars PROVE ClientCalls
<1> USE CallerAssumption
<1>0. /\ thread \in [Threads -> {"new", "sent", "returned", "raised"}]
      /\ got \in [Requests -> Answers \cup {NoAnswer}] /\ OnceInv /\ SentInv
      /\ UNCHANGED task
  BY DEF CallsInv, Inv, ClientTypes, asyncVars
<1>1. ASSUME NEW c \in Threads, SyncCall(c) PROVE ClientCalls
  <2>1. c \in Requests /\ c \in Unsent /\ thread[c] = "new" /\ UNCHANGED got
    BY <1>1 DEF SyncCall, Unsent
  <2>2. /\ thread' = [thread EXCEPT ![c] = "sent"] \/ thread' = [thread EXCEPT ![c] = "raised"]
        /\ (\E s \in Services : Submit(c, s)) \/ UNCHANGED serverVars
    BY <1>1 DEF SyncCall
  <2>3. c \notin Unsent' /\ Unsent' \subseteq Unsent /\ SentInv'
    BY <1>0, <2>1, <2>2 DEF Unsent, SentInv
  <2>4. CASE \E s \in Services : Submit(c, s)
    BY <2>1, <2>3, <2>4, SubmitAsks DEF ClientCalls
  <2>5. CASE UNCHANGED serverVars
    BY <1>0, <2>1, <2>3, <2>5, ClientOnce DEF ClientCalls, callVars, serverVars
  <2> QED
    BY <2>2, <2>4, <2>5
<1>2. ASSUME UNCHANGED <<serverVars, got>>,
             \A c \in Threads : thread'[c] \in {"new", "sent"} => thread'[c] = thread[c]
      PROVE  ClientCalls
  <2>1. Unsent' \subseteq Unsent /\ SentInv'
    BY <1>0, <1>2 DEF Unsent, SentInv
  <2> QED
    BY <1>0, <1>2, <2>1, ClientOnce DEF ClientCalls, callVars, serverVars
<1>3. ASSUME NEW c \in Threads, SyncReturn(c) PROVE ClientCalls
  <2>1. /\ c \in Requests /\ thread[c] = "sent" /\ answer[c] # NoAnswer /\ UNCHANGED serverVars
    BY <1>3 DEF SyncReturn
  <2>2. CASE /\ Collected(answer[c]) /\ thread' = [thread EXCEPT ![c] = "returned"]
             /\ got' = [got EXCEPT ![c] = answer[c]]
    <3>1. Unsent' \subseteq Unsent /\ SentInv' /\ got[c] = NoAnswer
      BY <1>0, <2>1, <2>2 DEF Unsent, SentInv
    <3>2. Calls!Return(c)
      BY <2>1, <2>2, <3>1, ReturnsOwn DEF serverVars
    <3> QED
      BY <1>0, <2>1, <3>1, <3>2, ClientOnce DEF ClientCalls
  <2>3. CASE thread' = [thread EXCEPT ![c] = "raised"] /\ UNCHANGED got
    BY <1>0, <1>2, <2>1, <2>3
  <2> QED
    BY <1>3, <2>2, <2>3 DEF SyncReturn
<1>4. ASSUME NEW c \in Threads, SyncGiveUp(c) PROVE ClientCalls
  BY <1>0, <1>2, <1>4 DEF SyncGiveUp
<1>5. ASSUME NEW k \in SyncClosers, SyncClose(k) \/ SyncCloseChannel(k) \/ SyncDrop(k)
      PROVE  ClientCalls
  BY <1>0, <1>2, <1>5 DEF SyncClose, SyncCloseChannel, EndCalls, SyncDrop
<1> QED
  BY <1>1, <1>3, <1>4, <1>5 DEF SyncNext, SyncStep

\* Nothing is anywhere at the start, and nobody has asked.
LEMMA InitCalls == Init => OnceInv /\ SentInv /\ Calls!Init
<1> SUFFICES ASSUME Init PROVE OnceInv /\ SentInv /\ Calls!Init
  OBVIOUS
<1> USE CallerAssumption
<1>1. /\ service = [r \in Requests |-> NoAnswer] /\ answer = [r \in Requests |-> NoAnswer]
      /\ got = [r \in Requests |-> NoAnswer]
      /\ \A m \in Models : batch[m] = <<>> /\ queue[m] = <<>>
  BY DEF Init, ServerInit
<1>2. \A m \in Models : Len(Slots(m)) = 0
  <2>1. <<>> \in Seq({}) /\ Len(<<>>) = 0
    OBVIOUS
  <2>2. \A m \in Models : Slots(m) = <<>> \o <<>>
    BY <1>1 DEF Slots
  <2> QED
    BY <2>1, <2>2, ConcatEmptySeq
<1>3. OnePlace /\ WaitInv
  BY <1>2 DEF OnePlace, WaitInv
<1>4. \A r \in Unsent : service[r] = NoAnswer /\ answer[r] = NoAnswer
  BY <1>1 DEF Unsent
<1>5. SentInv
  BY <1>1 DEF SentInv
<1>6. Calls!Init
  BY <1>1 DEF Calls!Init
<1> QED
  BY <1>3, <1>4, <1>5, <1>6 DEF OnceInv

\* Every step of the system, seen as one of the abstract service.
LEMMA NextCalls ==
    CallsInv /\ [Next]_vars => OnceInv' /\ SentInv' /\ [Calls!Next]_callVars
<1> SUFFICES ASSUME CallsInv, [Next]_vars PROVE OnceInv' /\ SentInv' /\ [Calls!Next]_callVars
  OBVIOUS
<1>1. CASE AsyncNext /\ UNCHANGED syncVars
  BY <1>1, AsyncCalls DEF ClientCalls, Calls!Next
<1>2. CASE SyncNext /\ UNCHANGED asyncVars
  BY <1>2, SyncCalls DEF ClientCalls, Calls!Next
<1>3. ASSUME NEW m \in Models, ServerStep(m), UNCHANGED clientVars
      PROVE  OnceInv' /\ SentInv' /\ [Calls!Next]_callVars
  BY <1>3, ServerCalls DEF Calls!Next
<1>4. CASE UNCHANGED vars
  <2>1. UNCHANGED <<serverVars, task, thread, got>>
    BY <1>4 DEF vars, clientVars, asyncVars, syncVars
  <2>2. OnceInv'
    BY <2>1, ClientOnce DEF CallsInv, Unsent
  <2> QED
    BY <2>1, <2>2 DEF CallsInv, SentInv, callVars, serverVars
<1> QED
  BY <1>1, <1>2, <1>3, <1>4 DEF Next

\* Batches, ensembles, nested calls and closing clients are invisible to a
\* caller: its request is answered once, nobody takes the answer back, and the
\* call returns the complete output for its own input, once, or raises
\* (client/README.md:80-84).
THEOREM SystemImplementsRequestReply == Spec => ImplementsRequestReply
<1>1. Init => OnceInv /\ SentInv /\ Calls!Init
  BY InitCalls
<1>2. Inv /\ OnceInv /\ SentInv /\ [Next]_vars => OnceInv' /\ SentInv' /\ [Calls!Next]_callVars
  BY NextCalls DEF CallsInv
<1> QED
  BY <1>1, <1>2, InvAlways, PTL DEF Spec, ImplementsRequestReply, Calls!Spec, callVars

==============================================================================
