---------------------------- MODULE BatchedModels ----------------------------
(***************************************************************************)
(* The models' execute() functions behind Triton's dynamic batcher and     *)
(* ensemble scheduler.  execute() answers the requests of a batch one by   *)
(* one, by position; an exception that its except clause does not name     *)
(* leaves it, and then Triton fails the whole batch.  The BLS model calls  *)
(* two of the other models inside of its own execute().                    *)
(***************************************************************************)
EXTENDS Naturals, Sequences, FiniteSets

CONSTANTS Requests,  \* one inference request each
          Services,  \* the services the clients use
          MaxBatch,  \* max_batch_size
          NoAnswer

----------------------------------------------------------------------------
(* The models.                                                              *)

\* What the code for one request may raise, and what the except clause around
\* it turns into an error response.  An allocation may fail anywhere.
Model(raises, answers) == [raises |-> raises \cup {"MemoryError"}, answers |-> answers]

EnsemblePreprocessor == Model({"ValueError"}, {"TypeError", "ValueError"})
EnsemblePostprocessor == Model({"ValueError"}, {"TypeError", "ValueError"})
DetectionPreprocessor == Model({"ValueError"}, {"TypeError", "ValueError"})
DetectionPostprocessor == Model({"ValueError"}, {"KeyError", "TypeError", "ValueError"})
TextClassifier ==
    Model({"UnicodeDecodeError", "ValueError"}, {"TypeError", "UnicodeDecodeError", "ValueError"})

\* Fault: execute() of the template catches what the other models catch.
BlsModel_Narrow == Model({"AttributeError"}, {"TypeError", "ValueError"})

\* except Exception.
BlsModel == Model({"AttributeError"}, {"AttributeError", "MemoryError"})

Python == [preprocessor |-> EnsemblePreprocessor, postprocessor |-> EnsemblePostprocessor,
           od_preprocessor |-> DetectionPreprocessor,
           od_postprocessor |-> DetectionPostprocessor,
           text_classifier |-> TextClassifier, bls_model |-> BlsModel]

\* Models of other backends.
External == {"inferencer", "yolox", "resnet50"}

Models == DOMAIN Python \cup External

\* The steps of the two ensembles, and the models that are called by themselves.
Route == [ensemble  |-> <<"preprocessor", "inferencer", "postprocessor">>,
          detection |-> <<"od_preprocessor", "yolox", "od_postprocessor">>,
          text      |-> <<"text_classifier">>,
          image     |-> <<"resnet50">>,
          bls       |-> <<"bls_model">>]

ASSUME ServiceAssumption ==
    /\ Services \subseteq DOMAIN Route
    /\ MaxBatch \in Nat \ {0} /\ NoAnswer \notin Models \cup Services

----------------------------------------------------------------------------

VARIABLES
    service,   \* the service of each request, once it is there
    queue,     \* the jobs each model has waiting
    batch,     \* the jobs its execute() was given
    responses, \* and the responses execute() has so far
    calling,   \* the model that the BLS model waits for in exec()
    reply,     \* what exec() has returned
    answer,    \* what Triton answers to each request
    escaped    \* <<request, model>>: its exception left that execute()

serverVars == <<service, queue, batch, responses, calling, reply, answer, escaped>>
blsVars == <<calling, reply>>

\* A request at a model, and the request that its tensors were computed from.
Job(r, of) == [for |-> r, of |-> of]

\* An output and the request it was computed from, an error and the request it
\* is the error of, or an output that lacks a tensor.
Response(kind, of) == [kind |-> kind, of |-> of]

ServerInit ==
    /\ service = [r \in Requests |-> NoAnswer] /\ answer = [r \in Requests |-> NoAnswer]
    /\ queue = [m \in Models |-> <<>>] /\ batch = [m \in Models |-> <<>>]
    /\ responses = [m \in Models |-> <<>>]
    /\ calling = NoAnswer /\ reply = NoAnswer /\ escaped = {}

Submit(r, s) ==
    /\ service' = [service EXCEPT ![r] = s]
    /\ queue' = [queue EXCEPT ![Head(Route[s])] = Append(@, Job(r, r))]
    /\ UNCHANGED <<batch, responses, blsVars, answer, escaped>>

Running(m) == Len(responses[m]) < Len(batch[m])
Current(m) == batch[m][Len(responses[m]) + 1]

\* The batcher: whatever waits, up to the limit, in the order of arrival.
FormBatch(m) ==
    /\ batch[m] = <<>>
    /\ \E n \in 1..MaxBatch :
          /\ n <= Len(queue[m])
          /\ batch' = [batch EXCEPT ![m] = SubSeq(queue[m], 1, n)]
          /\ queue' = [queue EXCEPT ![m] = SubSeq(@, n + 1, Len(@))]
    /\ UNCHANGED <<service, responses, blsVars, answer, escaped>>

\* responses.append(...)
Answer(m, response) ==
    /\ responses' = [responses EXCEPT ![m] = Append(@, response)]
    /\ UNCHANGED escaped

\* An exception in the loop body of execute().
Raise(m, exception) ==
    LET r == Current(m).for IN
    IF exception \in Python[m].answers THEN Answer(m, Response("error", r))
    ELSE /\ responses' = [responses EXCEPT ![m] = [i \in DOMAIN batch[m] |-> Response("error", r)]]
         /\ escaped' = escaped \cup {<<r, m>>}

\* Fault: after an error response the loop body goes on to the output.
Execute_GoesOn(m) ==
    /\ m \in DOMAIN Python \ {"bls_model"} /\ Running(m)
    /\ \/ Answer(m, Response("output", Current(m).of))
       \/ \E e \in Python[m].raises \cap Python[m].answers :
             /\ responses' = [responses EXCEPT ![m] =
                    @ \o <<Response("error", Current(m).for), Response("output", Current(m).of)>>]
             /\ UNCHANGED escaped
    /\ UNCHANGED <<service, queue, batch, blsVars, answer>>

\* The loop of execute() in a model that calls no other.
Execute(m) ==
    /\ m \in DOMAIN Python \ {"bls_model"} /\ Running(m)
    /\ \/ Answer(m, Response("output", Current(m).of))
       \/ \E e \in Python[m].raises : Raise(m, e)
    /\ UNCHANGED <<service, queue, batch, blsVars, answer>>

ExecuteExternal(m) ==
    /\ m \in External /\ Running(m)
    /\ \E kind \in {"output", "error", "lacks"} :
          responses' = [responses EXCEPT ![m] =
              [i \in DOMAIN batch[m] |->
                  Response(kind, IF kind = "output" THEN batch[m][i].of ELSE batch[m][i].for)]]
    /\ UNCHANGED <<service, queue, batch, blsVars, answer, escaped>>

----------------------------------------------------------------------------
(* The BLS model: exec() puts a request of its own into the queue of         *)
(* another model and blocks, without a timeout, until it is answered.        *)

Exec(m, job) ==
    /\ calling' = m /\ queue' = [queue EXCEPT ![m] = Append(@, job)]

\* Fault: exec() is given the name of the BLS model itself.
BlsBegin_CallsItself ==
    /\ Running("bls_model") /\ calling = NoAnswer
    /\ \/ Exec("bls_model", Current("bls_model")) /\ UNCHANGED <<responses, escaped>>
       \/ /\ \/ Answer("bls_model", Response("error", Current("bls_model").for))
             \/ \E e \in Python["bls_model"].raises : Raise("bls_model", e)
          /\ UNCHANGED <<calling, queue>>
    /\ UNCHANGED <<service, batch, reply, answer>>

\* _execute_request up to the first exec(); a missing INPUT is answered too.
BlsBegin ==
    /\ Running("bls_model") /\ calling = NoAnswer
    /\ \/ Exec("preprocessor", Current("bls_model")) /\ UNCHANGED <<responses, escaped>>
       \/ /\ \/ Answer("bls_model", Response("error", Current("bls_model").for))
             \/ \E e \in Python["bls_model"].raises : Raise("bls_model", e)
          /\ UNCHANGED <<calling, queue>>
    /\ UNCHANGED <<service, batch, reply, answer>>

\* After an exec(): has_error(), a tensor that is missing, the next exec(), the
\* output, or an exception.
BlsContinue ==
    /\ reply # NoAnswer /\ reply' = NoAnswer
    /\ \/ /\ reply.kind = "output" /\ calling = "preprocessor"
          /\ Exec("inferencer", Job(Current("bls_model").for, reply.of))
          /\ UNCHANGED <<responses, escaped>>
       \/ /\ calling' = NoAnswer /\ UNCHANGED queue
          /\ \/ reply.kind = "output" /\ calling = "inferencer" /\ Answer("bls_model", reply)
             \/ reply.kind # "output" /\ Answer("bls_model", Response("error", reply.of))
             \/ \E e \in Python["bls_model"].raises : Raise("bls_model", e)
    /\ UNCHANGED <<service, batch, answer>>

----------------------------------------------------------------------------
(* Triton takes what execute() returned.                                    *)

IsNested(m, r) == service[r] = "bls" /\ m # "bls_model"

\* The next model of an ensemble, or m itself when there is none.
Onward(m, r) ==
    LET route == Route[service[r]]
        i == CHOOSE j \in DOMAIN route : route[j] = m
    IN  IF i < Len(route) THEN route[i + 1] ELSE m

\* The ensemble scheduler goes on with an output and stops at anything else.
Advances(m, r, response) ==
    ~IsNested(m, r) /\ response.kind = "output" /\ Onward(m, r) # m

Return(m) ==
    /\ batch[m] # <<>> /\ ~Running(m)
    /\ LET For(i) == batch[m][i].for
           nested == {i \in DOMAIN batch[m] : IsNested(m, For(i))}
           ahead == {i \in DOMAIN batch[m] : Advances(m, For(i), responses[m][i])}
           over == DOMAIN batch[m] \ (nested \cup ahead)
       IN  /\ answer' = [r \in Requests |->
                 IF \E i \in over : For(i) = r
                 THEN responses[m][CHOOSE i \in over : For(i) = r] ELSE answer[r]]
           /\ queue' = [n \in Models |->
                 LET to == {i \in ahead : Onward(m, For(i)) = n}
                 IN  queue[n] \o [k \in 1..Cardinality(to) |->
                         LET i == CHOOSE j \in to : Cardinality({l \in to : l <= j}) = k
                         IN  Job(For(i), responses[m][i].of)]]
           /\ reply' = IF nested = {} THEN reply ELSE responses[m][CHOOSE i \in nested : TRUE]
    /\ batch' = [batch EXCEPT ![m] = <<>>] /\ responses' = [responses EXCEPT ![m] = <<>>]
    /\ UNCHANGED <<service, calling, escaped>>

ServerStep(m) ==
    \/ FormBatch(m) \/ Execute(m) \/ ExecuteExternal(m) \/ Return(m)
    \/ m = "bls_model" /\ (BlsBegin \/ BlsContinue)

----------------------------------------------------------------------------

\* An error reaches the request that caused it and no other one of its batch,
\* unless it is an exception that an except clause of a model other than the
\* BLS template lets through (models/_templates/bls_model/1/model.py:25-33).
FailuresStayAlone ==
    \A r \in Requests : answer[r] # NoAnswer /\ answer[r].kind # "output" =>
        \/ answer[r].of = r
        \/ \E m \in Models \ {"bls_model"} : <<answer[r].of, m>> \in escaped

============================================================================
