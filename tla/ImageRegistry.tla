--------------------------- MODULE ImageRegistry ---------------------------
(***************************************************************************)
(* The image tags and the performance artifacts of the repository, and the *)
(* workflows that write them: ci-build-test.yml pushes candidate images,   *)
(* ci-gpu-release.yml tests one and promotes it to the release tag of its  *)
(* commit, perf-benchmark.yml benchmarks a release and uploads evidence.   *)
(* Tags move: a build can be repeated and yield another digest.            *)
(***************************************************************************)
EXTENDS Naturals

CONSTANTS Shas,      \* commits of main; a job for any other one fails at once
          Digests,   \* images that builds may produce
          SourceOf,  \* the commit an image was built from
          None,      \* no image, no commit
          MaxJobs    \* bound: runs of each manual workflow

ASSUME RegistryAssumption ==
    /\ SourceOf \in [Digests -> Shas]
    /\ None \notin Digests \cup Shas
    /\ MaxJobs \in Nat

VARIABLES
    candidate,    \* candidate-<sha> tags
    release,      \* <sha> tags
    gpu,          \* the GPU release job (one concurrency group)
    perf,         \* the benchmark job (one concurrency group)
    artifacts,    \* unexpired perf-gate-<sha>-<digest> artifacts; ok: their run succeeded
    staged,       \* the commit whose staging deployment is pending, or None
    tested,       \* history: the images that passed the release contract tests
    benchmarked   \* history: the images that passed a benchmark of all models

registryVars ==
    <<candidate, release, gpu, perf, artifacts, staged, tested, benchmarked>>

Image == Digests \cup {None}
Artifact == [sha : Shas, digest : Digests, ok : BOOLEAN]

RegistryTypeOK ==
    /\ candidate \in [Shas -> Image] /\ release \in [Shas -> Image]
    /\ gpu \in [pc : {"idle", "resolve", "test", "promote"},
                sha : Shas \cup {None}, digest : Image, runs : 0..MaxJobs]
    /\ perf \in [pc : {"idle", "resolve", "bench", "upload", "finish"},
                 sha : Shas \cup {None}, digest : Image, runs : 0..MaxJobs, full : BOOLEAN]
    /\ artifacts \subseteq Artifact
    /\ staged \in Shas \cup {None}
    /\ tested \subseteq Digests /\ benchmarked \subseteq Digests

RegistryInit ==
    /\ candidate = [s \in Shas |-> None] /\ release = [s \in Shas |-> None]
    /\ gpu = [pc |-> "idle", sha |-> None, digest |-> None, runs |-> 0]
    /\ perf = [pc |-> "idle", sha |-> None, digest |-> None, runs |-> 0, full |-> FALSE]
    /\ artifacts = {} /\ staged = None /\ tested = {} /\ benchmarked = {}

----------------------------------------------------------------------------
(* CI - Build Candidate.  A run that is cancelled by a newer push before  *)
(* it has pushed its image changes nothing.                                *)

PushCandidate(d) ==
    /\ candidate' = [candidate EXCEPT ![SourceOf[d]] = d]
    /\ UNCHANGED <<release, gpu, perf, artifacts, staged, tested, benchmarked>>

----------------------------------------------------------------------------
(* CI - GPU Release.  Every step can fail, and the run can be cancelled.   *)

GpuEnd == gpu' = [gpu EXCEPT !.pc = "idle", !.sha = None, !.digest = None]

DispatchRelease(s) ==
    /\ gpu.pc = "idle" /\ gpu.runs < MaxJobs
    /\ gpu' = [pc |-> "resolve", sha |-> s, digest |-> None, runs |-> gpu.runs + 1]
    /\ UNCHANGED <<candidate, release, perf, artifacts, staged, tested, benchmarked>>

ResolveCandidate ==
    /\ gpu.pc = "resolve" /\ candidate[gpu.sha] # None
    /\ gpu' = [gpu EXCEPT !.pc = "test", !.digest = candidate[gpu.sha]]
    /\ UNCHANGED <<candidate, release, perf, artifacts, staged, tested, benchmarked>>

\* Fault: the result of the tests is ignored.
TestCandidate_Ignored ==
    /\ gpu.pc = "test"
    /\ gpu' = [gpu EXCEPT !.pc = "promote"]
    /\ tested' \in {tested, tested \cup {gpu.digest}}
    /\ UNCHANGED <<candidate, release, perf, artifacts, staged, benchmarked>>

\* The container runs the resolved digest, whatever the tag says by now.
TestCandidate ==
    /\ gpu.pc = "test"
    /\ gpu' = [gpu EXCEPT !.pc = "promote"]
    /\ tested' = tested \cup {gpu.digest}
    /\ UNCHANGED <<candidate, release, perf, artifacts, staged, benchmarked>>

\* Fault: the candidate tag is promoted instead of the tested digest.
Promote_ByTag ==
    /\ gpu.pc = "promote"
    /\ release' = [release EXCEPT ![gpu.sha] = candidate[gpu.sha]]
    /\ staged' = gpu.sha
    /\ GpuEnd
    /\ UNCHANGED <<candidate, perf, artifacts, tested, benchmarked>>

\* The tag is set and read back.  Success starts a staging deployment, which
\* replaces a pending one; the run may also fail after the tag is set, and
\* then replaces it by a deployment that is skipped, as FailRelease does.
Promote ==
    /\ gpu.pc = "promote"
    /\ release' = [release EXCEPT ![gpu.sha] = gpu.digest]
    /\ staged' \in {gpu.sha, staged, None}
    /\ GpuEnd
    /\ UNCHANGED <<candidate, perf, artifacts, tested, benchmarked>>

\* The end of a failed run triggers the staging workflow too.  Its job is
\* skipped, but the run takes the place of one that waits for its turn.
FailRelease ==
    /\ gpu.pc # "idle" /\ GpuEnd
    /\ staged' \in {staged, None}
    /\ UNCHANGED <<candidate, release, perf, artifacts, tested, benchmarked>>

----------------------------------------------------------------------------
(* Performance Benchmark.                                                  *)

PerfEnd == perf' = [perf EXCEPT !.pc = "idle", !.sha = None, !.digest = None, !.full = FALSE]

DispatchBenchmark(s, full) ==
    /\ perf.pc = "idle" /\ perf.runs < MaxJobs
    /\ perf' = [pc |-> "resolve", sha |-> s, digest |-> None,
                runs |-> perf.runs + 1, full |-> full]
    /\ UNCHANGED <<candidate, release, gpu, artifacts, staged, tested, benchmarked>>

ResolveBenchmarked ==
    /\ perf.pc = "resolve" /\ release[perf.sha] # None
    /\ perf' = [perf EXCEPT !.pc = "bench", !.digest = release[perf.sha]]
    /\ UNCHANGED <<candidate, release, gpu, artifacts, staged, tested, benchmarked>>

\* The models meet the baseline.  A run for one model leaves no evidence.
Benchmark ==
    /\ perf.pc = "bench"
    /\ IF perf.full
         THEN /\ perf' = [perf EXCEPT !.pc = "upload"]
              /\ benchmarked' = benchmarked \cup {perf.digest}
         ELSE PerfEnd /\ UNCHANGED benchmarked
    /\ UNCHANGED <<candidate, release, gpu, artifacts, staged, tested>>

\* The evidence is created and uploaded under the name of commit and digest.
\* An artifact of the same name from a run that failed is not told apart.
UploadEvidence ==
    /\ perf.pc = "upload"
    /\ artifacts' = artifacts \cup {[sha |-> perf.sha, digest |-> perf.digest, ok |-> FALSE]}
    /\ perf' = [perf EXCEPT !.pc = "finish"]
    /\ UNCHANGED <<candidate, release, gpu, staged, tested, benchmarked>>

\* Only now is the conclusion of the run success.
FinishBenchmark ==
    LET mine(ok) == [sha |-> perf.sha, digest |-> perf.digest, ok |-> ok] IN
    /\ perf.pc = "finish"
    /\ artifacts' = IF mine(FALSE) \in artifacts
                      THEN (artifacts \ {mine(FALSE)}) \cup {mine(TRUE)} ELSE artifacts
    /\ PerfEnd
    /\ UNCHANGED <<candidate, release, gpu, staged, tested, benchmarked>>

FailBenchmark ==
    /\ perf.pc # "idle" /\ PerfEnd
    /\ UNCHANGED <<candidate, release, gpu, artifacts, staged, tested, benchmarked>>

\* Artifacts are kept for 90 days.
Expire(a) ==
    /\ artifacts' = artifacts \ {a}
    /\ UNCHANGED <<candidate, release, gpu, perf, staged, tested, benchmarked>>

RegistryNext ==
    \/ \E d \in Digests : PushCandidate(d)
    \/ \E s \in Shas : DispatchRelease(s) \/ \E full \in BOOLEAN : DispatchBenchmark(s, full)
    \/ ResolveCandidate \/ TestCandidate \/ Promote \/ FailRelease
    \/ ResolveBenchmarked \/ Benchmark \/ UploadEvidence \/ FinishBenchmark \/ FailBenchmark
    \/ \E a \in artifacts : Expire(a)

----------------------------------------------------------------------------

\* A release tag only ever names an image of its own commit that passed the
\* contract tests on a GPU, although candidate tags move during the tests
\* and a run may fail after it has set the tag (ci-gpu-release.yml).
ReleasedIsTested ==
    \A s \in Shas : release[s] # None =>
        release[s] \in tested /\ SourceOf[release[s]] = s

============================================================================
