# TLA+ models of the Triton inference server handbook

The repository is a handbook with working parts: Python clients for Triton, a
decoupled streaming model, scripts that fetch model artifacts and build a model
repository, and release workflows. These modules model the parts that keep
state and can go wrong in an order nobody tested. `PROJECT.json` maps every
definition to the source lines it stands for. All paths below are relative to
the repository.

## 1. Inventory

| Component | State it keeps | Operations | How it interacts |
|---|---|---|---|
| Streaming client, `client/streaming_client.py` | `_stream_lock`, `_async_state_lock`, the set of cancel events, `_closed`; per request a queue, an idle deadline and a Future | `stream_infer`, `stream_generate_vllm`, `stream_infer_async`, `Future.cancel`, `close` | worker threads, a gRPC callback thread that feeds the queue, user callbacks, the decoupled model on the server |
| Decoupled model, `models/_templates/decoupled_streaming/1/model.py` | per request the token generator and its lookahead token | `execute` | `response_sender.send` and `is_cancelled`, both of which change under it |
| Shared-memory client, `client/shared_memory_client.py` | `_registered_regions`, `_region_handles`, `_closed`, `_client` | `infer_with_shm`, `cleanup`, `close` | the shared memory of the host, the registrations at the server |
| Artifact fetcher, `scripts/fetch_artifacts.py` | staging directory, backup directory, output directory, receipt | one run: download, verify, publish | artifact hosts; other runs through the output path; `build.sh` reads the output |
| Repository build, `scripts/build.sh` | staging directory inside `model_repository`, the models in it | one run: stage, verify, clean, publish | reads the fetcher's output, writes what Triton serves |
| Model control, `scripts/model_control/*.sh` | where a script is in its request and its polls | `load`, `unload`, `reload` | the server's repository API, other operators, the files that converters and builds publish |
| Release workflows, `.github/workflows/cd-*.yml` | `steps.deploy.outputs.applied`, the deployment's revisions | preflight, deploy, verify, smoke test, rollback | Kubernetes, the registry, the performance evidence |
| Performance gate, `tests/perf/*.py`, `perf-benchmark.yml` | result and evidence files | compare, record, verify | the release preflight |
| Converters, `scripts/convert/*` | a temporary output file beside the destination | check the input, convert, check the output, publish | other converters through the destination; whoever replaces the input; `load.sh` loads the output |
| Unary clients, `client/base.py`, `http_client.py`, `grpc_client.py`, `async_client.py` | one library client; `_closed` of the asynchronous one | `infer_numpy`, `close` | threads or tasks that share a client; the server's models |
| Statistics client, `client/stats_client.py` | none | two HTTP requests | Triton |
| BLS, ensemble and classifier models, `models/**/model.py` | none between batches | `execute`, nested `exec` | Triton's batcher and ensemble scheduler, each other |
| Object detection models, `models/serving/vision/object_detection` | none | `execute`: letterbox, suppression, scale recovery | the metadata tensor goes from one to the other past the model between them |
| Health checks, `scripts/health_check.sh`, `scripts/validate.sh`, the health action | none | bounded polling | Triton |
| `deploy/`, `monitoring/`, `configs/`, `extensions/`, `docs/` | declarative | none | third-party programs |

What makes each of them correct, and what is hard about it:

* **Streaming client.** One stream at a time, each request gets exactly its own
  tokens in order, a Future that reports success has delivered everything, and
  everything ends. Hard: three kinds of threads meet at two locks; cancellation
  changes the Future first and sets the event later; `close()` acts on a stream
  it does not hold the lock of; a generator may be left at any `yield`.
* **Decoupled model.** Every request gets a well-formed stream with one FINAL
  response at its end. Hard: any `send` may fail, also that of the error
  response, and the client may cancel between any two steps.
* **Shared-memory client.** No region and no registration outlives its call.
  Hard: every step may fail before or after it took effect, and other threads
  may clean up the same regions.
* **Fetcher and build.** What is published is complete and verified, and what
  was published is not lost. Hard: publication takes several renames between
  which a process may fail or be killed, or another may act.
* **Model control.** OK means that the server has the file that was there or a
  later one, and a model that is gone is gone because somebody was told so. Hard:
  the server takes requests after their curl has given up, answers an unload
  before it has effect, and serves several operators.
* **Converters.** Nothing partial or unchecked is published. Hard: processes die
  at any step, race for one destination, and read their input twice.
* **Unary clients and models.** An answer is whole and one's own, a failure stays
  with its request, every request is answered, and a client can always be closed.
  Hard: requests of different clients, ensembles and nested calls share batches;
  an exception may leave `execute`; a `close` may fail or meet another one.
* **Detection.** No duplicates, nothing missed, boxes in the right place. Hard:
  ties, truncation, integer rounding in one model and none in the other.
* **Release.** A failed step leaves a system that is served, and that is known to
  have been verified. Hard: the cluster changes on its own; jobs are cancelled
  between two commands.

`PROJECT.json` lists the hazards one by one, at their lines, with the properties
that would catch them and the ones nothing covers yet.

## 2. Modules

| Module | Models | Notes |
|---|---|---|
| `StreamingClient` | the streaming client | one action per critical section or library call |
| `SerialStreams` | what the client promises: a queue of streams with one server | abstract; refined by `StreamingClient` |
| `StreamingClientProofs` | theorems about `StreamingClient` | checked by TLAPS |
| `DecoupledModel` | `execute()` | |
| `DecoupledModelProofs` | theorems about `DecoupledModel` | checked by TLAPS |
| `ResponseStreams` | the contract between a decoupled model and a streaming client | abstract; refined by `DecoupledModel` |
| `SharedMemoryClient` | the shared-memory client | |
| `SharedMemoryClientProofs` | theorems about `SharedMemoryClient` | checked by TLAPS |
| `FetchArtifacts` | the fetcher | |
| `BuildRepository` | the build | `cache` is a variable here |
| `ArtifactPipeline` | both on one host | `cache` is what `FetchArtifacts` has at the output path |
| `ArtifactPipelineProofs` | theorems about `FetchArtifacts` and `ArtifactPipeline` | checked by TLAPS |
| `ImageRegistry` | image tags, evidence artifacts, the GPU release and the benchmark workflow | |
| `StagingDeploy` | the staging job | `release`, `staged` are variables here |
| `ProductionDeploy` | the production job and the Deployment's revisions | `release`, `artifacts` are variables here |
| `ReleasePipeline` | the three together | they share the registry's variables |
| `ReleasePipelineProofs` | theorems about `ReleasePipeline` | checked by TLAPS |
| `ModelConverter` | the converters of one destination | |
| `ModelControl` | the operators' scripts and the server's repository API | `artifact` is a variable here |
| `Delivery` | both | `artifact` is what `ModelConverter` has published |
| `DeliveryProofs` | theorems about `Delivery` | checked by TLAPS |
| `BatchedModels` | the models' `execute()`, the batcher, the ensemble scheduler, `exec()` | |
| `UnaryClient` | what the unary clients share | extends `BatchedModels` |
| `AsyncClient`, `SyncClient` | the asyncio client; the gRPC and HTTP clients | both extend `UnaryClient` |
| `InferenceSystem` | both clients and the models | their requests meet in the batches |
| `RequestReply` | what the unary clients and the server promise to a call | abstract; refined by `InferenceSystem` |
| `InferenceSystemProofs` | theorems about `InferenceSystem` | checked by TLAPS |
| `ObjectDetection` | letterbox, suppression, truncation, recovery | pure operators, and the loops as actions |
| `ObjectDetectionProofs` | theorems about `ObjectDetection` | checked by TLAPS |
| `MC*` | instances for TLC | |

Operators whose name has an underscore, such as `Get_Peeks`, are faulty variants
of the definition before the underscore: plausible bugs, each said in a comment.
Nothing uses them except the `mutants` of `PROJECT.json`, which put one in the
place of the definition to see that a property notices.

### StreamingClient

`pc[r]` is where the thread of request `r` is. The generator `_stream_request`
is shared by iterators (`Sync`) and workers (`Async`): `begin` reads `_closed`;
`wait` and `poll` are the loop around `acquire(timeout=0.1)`; from `locked` to
`release` the request holds `_stream_lock`; `infer` to `stop` is the inner `try`,
in which the library stream is open. `exit[r]` is why the generator ended. A
worker goes on through `consumed`, `final`, `set_result`, `handler`, `report`,
`set_exception` and `cleanup`, which are the lines of `consume()` between which
the user's `cancel()` can come. `CancelFuture` and `ObserveCompletion` are two
actions because `Future.cancel()` changes the state first and runs the done
callback afterwards. `Submit` and `Register` are the two ends of the critical
section in `stream_infer_async`, so that `close()` can meet it in between.

The gRPC library is external. Its client object has at most one open stream,
`stream`, and hands what arrives to the callback of the request that opened it;
`ServerStep` is that callback together with the server: a token, a token with
the final flag, an empty final response, an error, or a token that cannot be
decoded. Tokens are numbered, so that "in order, none lost" can be said. Time is
one bit: `DeadlinePasses` says that the lock holder's idle deadline has passed,
and whether its queue was empty then. `close()` may end early: what `stop_stream`
raises besides TypeError and RuntimeError, or `_client.close()`, leaves it with
`_closed` set and the events swept.

### DecoupledModel

`cur` is the request being executed, `pc` where in `_execute_request`, `made` how
many tokens the generator has produced; the token at hand has number `made`, or
`made - 1` after the lookahead. `Send` either delivers or raises into the except
clause of `execute`. `broken` has the requests that no code could complete: no
sender, or a failing error response.

### SharedMemoryClient

`todo[t]` is `request_regions` while a call is set up and the list
`_cleanup_regions` has left to do afterwards, which it goes through from the last
region to the first (`Current`, `Rest`); `tracked` is `_registered_regions`, in the
order of registration. `local` and `known` are the regions
that exist in the host and at the server. Calls that leave the process may raise
with or without effect; `undestroyed` and `unforgotten` record the failures that
the code swallows, for the properties to exclude just those. `MaxInside`
bounds how many threads are inside the client at a time.

### FetchArtifacts, BuildRepository, ArtifactPipeline

A revision of the manifest pins the contents of every file, so a file's contents
are a revision or `Corrupt`. A tree is its files and its receipt. `Look` is the
sequence of `exists` tests in `_publish_directory`, each rename is an action, and
`Kill` stops a process anywhere. A builder copies the models in any order (the
manifest's is one), removes the old model of a target and renames the staged one
in two actions; `rmtree` may stop half-way. `old[b]` is history: the repository
when `b` began to publish, which no guard reads, so that `OneModelAtRisk` can say
what a build that fails in the middle has cost.

Assumed: a rename back to the output path fails only because something is there
(`Restore`); builds run one after another (`Prepare`), as the documentation and
the workflows run them, though one that was killed may have left its staging
directory.

### ImageRegistry, StagingDeploy, ProductionDeploy, ReleasePipeline

Each of the four workflows has a concurrency group, so each is one job: the
records `gpu`, `perf`, `stagingJob` and `prod`, whose `pc` names the step group it
is in and whose other fields are the job's outputs and environment (`digest` is
`IMAGE_DIGEST`, `previous` is `PREVIOUS_IMAGE`). Steps that read nothing shared
are joined with their neighbour; a step that reads a tag, an artifact or the
cluster is an action of its own, because other workflows move tags and evidence
expires in between. `staged` is the one pending staging run that GitHub keeps in
a concurrency group; a newer one replaces it. A step may fail with or without
effect; a cancelled job, or one past `timeout-minutes`, skips the steps that ask
for `failure()` (`StagingCancel`, `ProdCancel`). The capture of the previous
staging image takes any failure of its first `kubectl get` for the absence of a
Deployment (`cd-staging.yml:90`), so `CapturePrevious` may miss an image that is
there; `reported` is the outcome of a job that had, as far as it knew, nothing to
restore, `unrestored` that of one whose recovery step failed. A release run that
failed or was cancelled also triggers a staging run, which is skipped, but may take
the place of the pending one (`Promote`, `FailRelease`).

An image stands for its pod template. `VCS_REF` makes images of different
commits differ, and a commit fixes its manifests. `revision[d]` is the revision
number of the ReplicaSet of image `d`: Kubernetes makes none for an unchanged
template and renumbers the ReplicaSet of a former one, which is what decides
where `kubectl rollout undo` leads. An artifact is `ok` when the run that
uploaded it has succeeded, which the production preflight asks for.

`tested` and `benchmarked`, and `before`, `missed` and `partial` of the jobs, are history:
no guard reads them, the properties do. The registry, GitHub's scheduler and
`kubectl` are external. Assumed: nobody uses `kubectl` by hand on these clusters
(`docs/runbook.md:139` describes it for emergencies), and dispatched commits are
on `main`, since jobs for others end in their first step. That the benchmark
compares correctly and that the evidence file says what it should is
`tests/perf`, which is not modelled: `Benchmark` is a benchmark that passed.

### ModelConverter, ModelControl, Delivery

A file is a record: the revision of the input it was made from, whether it is
empty, partial or whole, who made it, and the number of its publication
(`serial`, history that tells files apart). `ValidatedInput` reads the digest,
`LoadInput` reads the path again, and `ReplaceInput` may come in between; it then
notes the converter in `changed`, so that `OnlyVettedModels` can except just that
window. `Written` leaves a broken file only for converters that read it back
(`Rechecked`: `to_onnx`, `to_torchscript`); that `save_model` or `trtexec` does not
report success over a broken non-empty file is assumed. `ConverterEnds` is an
exception or a kill: the temporary file is unlinked, or stays under a name that
`mkstemp` does not use again.

A script posts its request (`Post`), gets an answer or gives up (`PostReturns`),
and polls (`PollReady`, `PollIndex`); the deadline is looked at after each poll.
`reload` runs the script of `unload` and then that of `load`, so `stage[o]` is the
script that runs and `script[o]` where it is. The request itself is `request[o]`,
at the server, where it stays when curl gives up. The server is external: it takes
one load or unload of the model at a time (`Busy`), keeps what it serves when a
load fails, and answers an unload before the model is gone, as
`unload.sh`'s polling supposes.

### BatchedModels, UnaryClient, AsyncClient, SyncClient, InferenceSystem

A request is its identity. What a model computes carries the request it was
computed from (`of`), so mixing up positions shows. `Python` has, for each Python
model, the exceptions its code may raise and those its `except` clause answers;
any other leaves `execute` (`escaped`), and Triton fails the whole batch. Triton is
external: `FormBatch` takes what waits in the order of arrival, `Return` hands out
the responses by position, sends an ensemble's request on, or answers a nested
call. The BLS model has one instance, which waits in `exec` (`calling`) while the
other models go on with other requests. Each model has one instance, which is one less
than `od_preprocessor/config.pbtxt:34` gives to a model that keeps no state: two
instances execute two batches at a time, each as `Execute` does. The routes are the
`ensemble_scheduling` of the template and of the detection pipeline. An exception inside
of an except clause (a second allocation that fails, say) is left out.

The clients' calls are two steps, the request and its answer, between which
timeouts, cancellation and `close` come. `held` is whether `_client` is not None;
`close` of the synchronous clients tests it, closes the channel and drops it in
three steps, and may be tried again when it has raised. `EndsCalls` says whether the
library ends the calls in flight when its client is closed, as the channel of gRPC
does, or lets them finish, as that of HTTP may. The asynchronous one sets
`_closed` before it awaits; `ChannelsNotLost` says what remains true of a channel
that such a close leaves open.

### ObjectDetection

One image. Scores and coordinates are integers, ratios are fractions, so the
arithmetic is exact: rounding to 32 bits is left out, and so is the `isfinite` test of
`Valid`, since an integer is finite. `argsort` is not stable, so
among equal scores any row may come first. Rows are a set: identical duplicates
are one row. `_nms`'s loop is `NextClass` and `Suppress`, one kept box at a time, and
`Truncate` takes the best of what is kept (`output`, in the coordinates of the
letterbox). `RecoverBoxes` then puts their boxes back into the image and clips them:
`boxes` is what `BBOXES` returns, in parts of `scale[1]` of a pixel, which keeps them
integers. The ValueError for metadata with a scale or a side that is not positive
cannot come from the metadata of the preprocessor. `Letterbox` is the metadata that goes
from the preprocessor to the postprocessor; `Sampled` says where a pixel of the
image lies after `_bilinear_resize`, whose ends meet the ends of the image.

## 3. Runs

| Run | Bounds | Question |
|---|---|---|
| `client_safety` | 1 iterator, 1 worker, 1 closer, 2 tokens | do streams take turns, are answers whole, can a worker escape `close()` or report an end and an error? |
| `client_liveness` | 1 iterator, 1 worker, 1 closer, 1 token | does everything end under fair threads? |
| `client_close_future` | 1 worker, 1 closer, 1 token | violated: a Future that `close()` leaves pending |
| `decoupled` | batch of 2, 3 tokens | is every stream well formed and completed? |
| `shm` | 2 callers with 1 input and 1 output each, 1 closer, 2 of them inside | does anything leak when calls fail or another thread cleans up? |
| `artifacts` | 2 processes, 2 revisions, 3 runs, 2 files | is the output verified and never lost? |
| `build` | 1 fetcher with 2 runs, 2 builders, 2 models, 2 revisions | does only verified work enter the repository, and what does a build that fails cost? |
| `build_atomic` | 1 fetcher, 1 builder, 2 models, 2 revisions | violated: publication is not atomic |
| `release` | 1 commit built twice (symmetric), 2 GPU releases, 2 benchmarks, 3 production runs | is every image tested before it is served, and does a failure put back what was there? |
| `delivery` | 2 converters, one pinned and rechecked, 2 inputs, a `reload` and a `load`, 1 poll | is only vetted work served, and does OK or failure say the truth? |
| `inference` | 1 task, 1 thread, 3 services, batches of 2, 1 asynchronous and 2 synchronous closers | are answers whole, own and always given, channels closed, and is the whole a service that answers each request once (`RequestReply`)? |
| `detection` | 3 rows out of 13 (3 boxes, 2 classes, 2 scores and a weak one), 2 detections, threshold 1/3, 36 image sizes into 4 by 6 | are the right boxes kept, and put back in the right place? |

Why the bounds are enough: the client's hazards are between two holders of the
lock, or between a worker, its user and a closer; a second token makes "before
the last" differ from "the last", and a request can still be waiting while the
first ends. The decoupled model keeps nothing from one request to the next, and
three tokens pass its loop through first, middle and last. Cleaning up needs a
second region to be left behind. Three fetcher runs on two pids let a pid come
back to a backup of its own while another process is publishing; two models and
two revisions are what a mixture takes. Two builds of one commit make its tags move
and evidence belong to the wrong image, and one commit is enough because nothing
is shared between commits but the jobs; of three production runs the third can
bring back an image that the second replaced, or redo what the second undid.
Delivery needs a second converter to overwrite and a second operator to interfere;
a reload contains an unload and a load. Two requests already share a batch and
differ in their order, and the BLS model waits for a model that an ensemble uses;
the second synchronous closer is the one that meets the first. Three overlapping
boxes in a row are what tells greedy suppression from its variants, and the image
sizes have sides of one pixel, ties of rounding and extreme ratios, with and without
padding on either axis. With three
threads inside the shared-memory client regions do leak (section 5), which is why
`MaxInside` is two. `inference` runs with `EndsCalls` TRUE; the theorems about it hold
for both.

The constants `MaxTokens`, `Calls`, `MaxInside`, `MaxPolls`, `MaxRows`, `MaxRuns`, `MaxJobs` (GPU releases, and
benchmarks) and `MaxDeploys` (production runs) bound counters; each is the guard
of the actions that start or repeat something. `MaxBatch` and `MaxDetections` are
parameters of the models. `artifacts`, `build`, `build_atomic`, `release`,
`delivery`, `inference` and `detection` do not check for deadlock, because runs are finite and the system
stops when they are used up; the other runs do, with a `Finished` or `Returned` step for the regular end.

Fairness. In `StreamingClient` each thread's steps are weakly fair: threads are
scheduled, user callbacks return (they are called without a timeout), the clock
advances, and a caller of an iterator advances or drops it, since a caller that
does neither holds the lock for ever by design of the code. The server is not
fair: it may never answer. Nor is the user: nobody must submit, cancel or close.
Weak fairness is enough for the lock because each of the finitely many requests
holds it at most once. In `DecoupledModel` `Step` is weakly fair: `execute` runs,
and the engine answers or raises. In `SharedMemoryClient` a thread inside a call
is weakly fair: every call out of the process has a timeout. In `Delivery` each
script is weakly fair: curl has `--max-time` and the loops sleep for a second;
neither the server, nor a converter, nor an operator has to do anything. In
`InferenceSystem` the models are weakly fair: a backend runs and answers. The
clients are not: they may give up, or never start, and every request that has
reached the server is answered all the same. The other
specifications state no fairness: their processes can be killed or cancelled, and
only safety is claimed of them.

## 4. Proofs

`StreamingClientProofs` proves for all sets of iterators, workers and closers,
and for every `MaxTokens`, from `ClientAssumption` alone:

* `TypeCorrect`: `Spec => []TypeOK`. `TypeOK` is inductive; one lemma for the
  generator, the worker, `close()` and the server each.
* `StreamsSerialized`: `Spec => []StreamOfLockHolder`. The property itself is not
  inductive: that the stream's owner has the lock says nothing about a request
  about to open a stream. `LockInv` adds that a request is between `locked` and
  `release` exactly when it holds the lock. `close()` only ever removes the
  stream, which is why it may act without the lock.
* `TokensOrdered`: `Spec => []TokensInOrder`, and `FinalComesLast`:
  `Spec => []FinalIsLast`. `ReadInv` relates, for the lock holder, three things:
  what it has yielded, what is in its queue and what the server has sent. The
  queue continues the numbering of what was yielded (`QueueOK`) up to an event
  that ends the stream, and a final event stands at its end only when the server
  is over. It needs `LockInv`, because a response must go to the queue of a
  request that is still reading, and because a queue must be empty when its
  request opens the stream.
* `CloseIsThorough`: `Spec => []CloseReachesAllWorkers`. `CloseInv` says why nothing
  can be registered after a sweep: the client is marked as closed before it, and a
  caller that saw it open holds `_async_state_lock` until its event is in.
* `SuccessMeansComplete` and `FinalOrError`: `OutcomeInv` says, step by step of
  `consume()`, how many tokens `token_callback` has had (all that were yielded, but the
  one in its hand), why the generator ended, and what of that the final call, the error
  callback and the Future know. The `handler` of an exception is where both could meet:
  it is reached after the final call only when `cancel()` has settled the Future.
* `ClientImplementsSerialStreams`: `Spec => ImplementsSerialStreams`. One lemma for each
  group of actions maps its steps to a step of `SerialStreams` or a stutter, under the
  invariants above: that whoever opens a stream finds it free is `LockInv`, that a
  result follows a whole stream is `OutcomeInv`.
* `CancelledWorkersLeave`: a worker whose cancel event is set never goes round the wait
  for the lock or the read loop again. `StepsToGo` bounds the steps it has left, by
  phase, and each step of its own lowers that; nobody else moves it, and no step
  clears an event. So the two ways out of the loops, `Poll` and `LoopTest`, and the test
  of `consume()` are enough together.

`ReleasePipelineProofs` proves for all sets of commits and images, every
`SourceOf` and both bounds, from `RegistryAssumption` and `DeployAssumption`
alone, every property of the run `release`:

* `ReleasesTested`, `StagingTested`, `ProductionIsGated`: no unverified image gets
  past its gate. The properties are not inductive, since they say nothing of the
  image a job has in its hands. `GpuInv`, `PerfInv`, `ArtifactInv`, `StagingInv` and
  `ProdInv` say what each job has established about it, step by step. That this
  outlasts every change of tags and every expiry is one lemma for each job
  (`RegistryUnderJobs`, `StagingUnderOthers`, `ProdUnderOthers`): `tested` and
  `benchmarked` only grow.
* `StagingRestores`: `RestoreInv` follows the captured image through the job. A job
  whose recovery step was due and succeeded, or that did not get to the apply, leaves
  the image it found; one that reports that there is nothing to restore found none, or
  its capture missed it, which the documentation does not foresee (section 5).
* `ProductionRestores`: `rollout undo` names no image, so its effect follows from
  the numbering. `RevisionInv` says revisions are distinct and one is the newest;
  `Restorable` says that after an apply the image deployed is the newest and the
  image found before is the next. `SetImageEffect` and `UndoRestores` are the two
  facts about the operators that make the argument.
* `PipelineTypeCorrect`, from the two invariants.

`DecoupledModelProofs` proves for every `Batch` and `MaxTokens`:

* Each stream carries its tokens from the first on (`StreamsNumbered`), a cancelled
  request is sent at most one more token (`CancelStops`), and each request is
  completed unless its sender or its error response failed (`RequestsCompleted`).
  The invariant says of the request at hand how far its stream is at each step of
  `_execute_request`, and of the requests before and after it that they are done, or
  untouched. `Cancel` may come anywhere; `after` counts what is sent from then on, and
  is 0 between the test of `is_cancelled` and the send that follows it.
* `ModelImplementsResponseStreams`: what each client is sent is what `StreamingClient`
  assumes of its server. The mapping takes the positions of a stream's tokens and of its
  final responses as sets; `OpenInv` says that the request at hand and those after
  it have no final response yet, and that the positions stay within `1..MaxTokens` is
  because they are the tokens' numbers.
* `ExecuteRunsOut`: `execute` takes at most `3 * MaxTokens + 5` steps for each request.

`SharedMemoryClientProofs` proves for any callers, closers, calls and numbers of
regions:

* `RegionsCleanedUp`: when at most two threads are inside the client, no region outlives
  the call that made it, whatever fails. The difficulty is that two threads may have the
  same regions on their lists, when `cleanup` copies those of a running call, and that
  the loser of the race for a region leaves its loop with a `KeyError`. `Covered`:
  each region that is left is on the list, or in the hands, of somebody inside. `Shared`: when two lists
  meet in a region, what the one has to do after it is on the other as well; this
  needs the order of the lists. `Relieved`: when a thread is about to raise, each region
  it would drop is on the list of another one, who is not about to raise. `TwoInside` is
  what makes that last step work, and the hypothesis `MaxInside <= 2` cannot be
  left out: with three threads regions do leak (section 5).
* `CallsCleanUp`: as long as nobody calls `cleanup` or `close`, any number of concurrent
  calls leaves nothing behind. No bound is needed, since calls have no regions in
  common: names carry the call (`OwnRegions`), a new one is in nobody's hands (`Fresh`)
  and is tracked once (`Distinct`).
* `NoStaleRegistrations`: `StaleInv` follows the unregister call through the loop.
* `CallsRunOut`: a call takes at most eight steps for each of its regions and three more,
  and `cleanup` and `close` five for each region they find and four more, for any
  number of threads at the same regions. `Work` counts what is left of a list and how far
  its thread is with the region at hand.

`ArtifactPipelineProofs` first proves of the fetchers alone, for any number of
processes, files, revisions and runs, that the output is absent or verified
(`OnlyVerifiedOutput`), that a published tree survives (`PublishedTreeSurvives`), and
that without kills it is back at the output when nobody runs (`ErrorsLeaveOutput`). It
follows who has the tree: each process has the whole tree in its staging directory from
`look` on and in its backup from `move_in` on. A backup that is being dropped must not
count, since the tree its owner has published may by then be in another one's backup.
`TreeAssumption` says that no tree is the value that stands for none.
`CacheSafeInPipeline` carries the three over to `ArtifactPipeline`: a builder leaves the
fetchers' state alone, so every step of the pipeline is one of theirs or a stutter
(`PipelineFetches`).

It then proves, for a finite set of models, any parts and any number of
fetchers and builds, of which one runs at a time:

* `ModelsAtHand`: from the first removal to the last rename every model of a build's
  manifest is in the repository or staged whole. It does not outlast the build: the
  `finally` clause deletes what is staged, a failed rename or not.
* `FailureCostsOneModel`: a build that fails or is killed while it publishes has cost
  one model at most, the one it was replacing: of any two models one at least is as it
  was, or as the manifest has it; and success means all of them. `RiskInv` adds that
  the models still to be published, but the first, are as they were (`AtRisk`). With `--clean` the repository was emptied
  before, so that what is kept of the old one is nothing.
* `OnlyVerifiedAdded`: a build adds only whole models of its own manifest, whatever
  fetchers do to the cache meanwhile.

`BuildInv` says that what is staged is what the manifest pins (`Pinned`), and that the
models still to be published are the staged ones, each once (`Published`). The set of
models is finite (`PipelineAssumption`), or the loop over them would not be a sequence.

`InferenceSystemProofs` proves for any callers, closers and services and every
`MaxBatch`:

* `FailuresAlone` and `OwnAnswers`. `ServerInv` follows a request through the server:
  a job carries its own request's tensors (`JobInv`), the responses of a batch answer its
  jobs by position (`ResponseInv`), and there is at most one nested job at a time, at
  the model that `exec()` waits for, for the request the BLS model is working on
  (`NestInv`). Without the last part the reply of an `exec()` could be the answer to
  another request. When a batch is handed on, that no position is lost is `EveryRank`.
* `SystemImplementsRequestReply`: `Submit` is asking, the `Return` that gives a request
  its answer is serving, and the client's return of an output is returning; every other
  step is invisible. That a request is served once is because it is in one place at a
  time, at one position of one queue or batch (`OnePlace`, over `Slots`, which are both in
  a row), and because whoever waits somewhere is at a model of its service's route and
  has no answer yet (`WaitInv`). A nested call is not a place of its request.
  That an answer is the caller's own (`AnswersAreOwn`) is part of the refinement, so no
  run checks it a second time.
* `ChannelsKept`: `ChannelInv` adds that a synchronous `close()` about to drop its client
  has closed the channel, or that the client has been dropped before.

`DeliveryProofs` proves for any converters, operators and scripts:

* `ModelsVetted`: what a converter holds at each step was made from what it was
  told to convert, unless it is in `changed`.
* `OkIsCurrent`: the server never has an older file for a script than the one that
  was there when it started (`Fresh`). That needs to know whose request or load is
  still at the server, since a late load belongs to a script that has failed
  (`RequestInv`), and that an answer of 200 in the second half of `reload` is not the
  one its unload got.
* `NoOutageUnreported`: `OutageInv`, whoever has not loaded yet will, or fails.
* `ScriptsRunOut`: a script takes at most `MaxPolls + 3` steps, that of `reload` twice as
  many. The server, the converters and other operators only ever leave a script's own
  variables alone.

`ObjectDetectionProofs` proves for all rows, scores, ties and limits that no two
selected boxes of a class overlap too much (`DetectionsApart`), since what is left of
the order never overlaps what has been kept. Nor do they as they are returned, if both
lie in the image: the recovery then moves and stretches both alike (`UncutRecovered`),
and the ratio of areas is the same at every scale (`RatioScaled`). Boxes that are
clipped are another matter (section 5). It also proves that whatever is left out is
covered or beaten (`DetectionsComplete`). `LetterboxInverted` is arithmetic over all sizes of
images and boxes: the postprocessor undoes the letterbox to within a pixel and the
rounding. It is not linear, so the bounds of the roundings are lemmas over numbers, each
applied once.

Most of the inductive invariants were checked with TLC on the instances of the runs
before they were proved.

Only model-checked: liveness (`WorkersFinish`, `FutureSettlesUnlessClosed`,
`CancelStopsStream`, `ExecuteReturns`, `CallsReturn`, `ScriptsEnd`,
`EveryRequestAnswered`), which TLAPS does not do. Of four of them it proves the half that is
safety: `CancelledWorkersLeave`, `ExecuteRunsOut`, `CallsRunOut` and `ScriptsRunOut` bound the
steps that are left and say that each step lowers the bound. What stays with TLC is that
such a step can be taken as long as there is one left, and that fairness takes it.

## 5. What the runs found

* A worker that `close()` cancels never settles its Future, while
  `client/README.md:56-57` promises a result or an exception
  (`client_close_future`). As long as nobody closes the client, Futures do settle
  (`FutureSettlesUnlessClosed`).
* Not stated by a run, since no document is contradicted: the idle timeout also
  measures the receiver of the tokens (`client/streaming_client.py:105-114`), and an
  asynchronous `close()` that raises or is cancelled cannot be tried again
  (`client/async_client.py:82-85`), which `ChannelsNotLost` has to except.
* The staging job takes a failed `kubectl get` for the absence of a Deployment
  (`cd-staging.yml:90,99-100`). If it fails later it reports that there is nothing to
  restore and leaves the new image, although `docs/production-adoption.md:110-113` has
  the recorded image set again in all cases but that of no Deployment.
  `StagingFailureRestores` states the case as its exception (`missed`): without it TLC
  finds the failed second deployment that leaves its own image.
* Boxes are clipped to the image after the suppression
  (`object_detection/postprocessor/1/model.py:70-73`), so two results of one class may
  coincide: `[-100,0,50,50]` and `[-10,0,50,50]` have a ratio of 0.4 and both become
  `[0,0,50,50]`. No document promises otherwise, so no run states it, and
  `NoDuplicates` excepts the returned boxes that reach out of the image.
* Not covered by a property, for the code has no answer to them: an input that is
  replaced between the digest check and the conversion (`OnlyVettedModels` excepts
  `changed`), and an asynchronous `close()` that fails (`ChannelsNotLost` excepts
  `failed`).
* `docs/architecture.md:128-131` says that the BLS template isolates the requests of a
  batch, unexpected exceptions included, and so it does. The other models name a few types, so
  that a `MemoryError` of one request fails its whole batch; `FailuresStayAlone`
  excepts them.
* `build.sh` does not publish the repository atomically, as
  `docs/model-artifacts.md:63` says (`build_atomic`): the run shows a repository
  with one of its models missing. What does hold is that every model is at hand, old or
  staged, until the last rename (`EveryModelAtHand`), and that a failure while
  publishing costs one model at most (`OneModelAtRisk`).
* Outside of what the documentation promises: with two calls and a closer inside one
  shared-memory client at a time, the `KeyError` of `_region_handles.pop` makes a call give
  up its other regions, and a region can be registered between a closer's
  unregister and destroy. The client does not claim to be thread-safe, so no run
  states it.
* The production job has cases in which a failure does not lead back to the image
  it found. No document promises otherwise, so they are in the model and outside
  of `FailureRestoresLive`: an apply that changes the Deployment and then fails on
  another object leaves `applied` unset; deploying the live image again makes no
  revision, so undoing it leads to an older image; a requested rollback after an
  automatic one deploys the failed image again; a cancelled job undoes nothing.
  `ProductionGated` holds in all of them. That staging succeeded is not a
  condition of a production run.

## 6. Not modelled

URLs, TLS, headers, tensors, pixel values, tokenization and text are data the
properties do not tell apart. The validation of arguments succeeds or fails
before any state changes. `thread.start()` is taken to succeed: if it does not, the
cancel event it leaves registered stays until the client goes
(`client/streaming_client.py:245`).

* `client/stats_client.py` reads two documents and prints them, in one process
  that keeps nothing: its limits and formatting are for unit tests.
* `scripts/health_check.sh`, `scripts/validate.sh` and the health action only read.
* `tests/perf`: the rules of the performance gate. The release pipeline takes its
  verdict as passed or failed.
* The selection of artifacts in `fetch_artifacts.py:96-225` chooses a revision
  (`Start`). A run that selects less than the last one replaces the whole cache with
  less, and a build of what is missing then fails.
* `deploy/`, `monitoring/`, `configs/`, `extensions/`: configuration of other programs.

## 7. Plan

What is left, most important first:

1. Concurrent builds in `BuildRepository`, whose `--clean` removes the staging
   directory of another build.
2. `StreamingSystem`: `StreamingClient` against `ResponseStreams` with two clients on
   one server.
3. `PerfGate`: `compare_baseline`, evidence binding and the manifest selection of
   `fetch_artifacts` as operators checked against a reference definition; `Benchmark`
   and `HasEvidence` then take their verdicts.
4. Proofs: a bound on the steps between two responses of a stream, the safety half of
   `WorkersFinish` for workers that nobody cancels; how often a request of
   `EveryRequestAnswered` can be handed on.
