----------------------- MODULE ReleasePipelineProofs -----------------------
(***************************************************************************)
(* Theorems about ReleasePipeline, for all commits, images and bounds.     *)
(***************************************************************************)
EXTENDS ReleasePipeline, TLAPS

(***************************************************************************)
(* What the jobs carry from one step to the next.  Images are looked up    *)
(* once; from then on the tag may move, but what was established about     *)
(* the image stays true, because tested and benchmarked only grow.         *)
(***************************************************************************)
GpuInv ==
    /\ gpu.pc # "idle" => gpu.sha \in Shas
    /\ gpu.pc \in {"test", "promote"} =>
         gpu.digest \in Digests /\ SourceOf[gpu.digest] = gpu.sha
    /\ gpu.pc = "promote" => gpu.digest \in tested

CandidateInv == \A s \in Shas : candidate[s] # None => SourceOf[candidate[s]] = s

PerfInv ==
    /\ perf.pc # "idle" => perf.sha \in Shas
    /\ perf.pc \in {"bench", "upload", "finish"} => perf.digest \in tested
    /\ perf.pc \in {"upload", "finish"} => perf.digest \in benchmarked

ArtifactInv == \A a \in artifacts : a.digest \in tested \cap benchmarked

RegistryInv ==
    /\ RegistryTypeOK /\ ReleasedIsTested /\ CandidateInv
    /\ GpuInv /\ PerfInv /\ ArtifactInv

StagingInv ==
    /\ StagingTypeOK
    /\ stagingJob.pc # "idle" => stagingJob.sha \in Shas
    /\ stagingJob.pc \in {"capture", "deploy", "verify", "recover"} =>
         stagingJob.digest \in tested
    /\ stagingJob.previous # None => stagingJob.previous \in tested
    /\ StagingIsTested

ProdInv ==
    /\ ProductionTypeOK
    /\ prod.pc \in {"resolve", "evidence"} => prod.sha \in Shas /\ ~prod.rollback
    /\ prod.pc = "evidence" => prod.digest \in Digests
    /\ prod.pc \in {"approval", "deploy"} /\ ~prod.rollback =>
         prod.digest \in tested \cap benchmarked
    /\ prod.pc = "deploy" => ~prod.rollback
    /\ prod.pc = "undo" => prod.rollback
    /\ ProductionGated

(***************************************************************************)
(* The revisions of the Deployment.                                        *)
(***************************************************************************)

\* Revisions are not shared, and one is the newest, if there is any.
RevisionInv ==
    /\ \A d, e \in Digests : revision[d] = revision[e] /\ revision[d] > 0 => d = e
    /\ (\E d \in Digests : Newest(d, Digests)) \/ (\A d \in Digests : revision[d] = 0)

\* A deployment that was applied is live, and what it found is next in line.
Restorable ==
    /\ Newest(prod.digest, Digests)
    /\ prod.digest # prod.before =>
         IF prod.before = None
           THEN \A e \in Digests \ {prod.digest} : revision[e] = 0
           ELSE Newest(prod.before, Digests \ {prod.digest})

RecoveryInv ==
    /\ RevisionInv
    /\ prod.pc \in {"resolve", "evidence", "approval", "deploy"} =>
         Live = prod.before /\ ~prod.applied /\ ~prod.partial
    /\ prod.pc \in {"rollout", "verify", "smoke"} /\ ~prod.rollback => prod.applied
    /\ prod.pc = "recover" /\ ~prod.rollback /\ ~prod.applied /\ ~prod.partial =>
         Live = prod.before
    /\ prod.pc # "idle" /\ prod.applied => ~prod.rollback /\ Restorable
    /\ FailureRestoresLive

\* A staging job knows the image that is there when it begins to deploy, or
\* has missed it and knows none.
RestoreInv ==
    /\ stagingJob.pc \in {"resolve", "capture", "deploy"} =>
         stagingImage = stagingJob.before
    /\ stagingJob.pc \in {"deploy", "verify", "recover"} =>
         \/ stagingJob.previous = stagingJob.before
         \/ stagingJob.previous = None /\ stagingJob.missed
    /\ stagingJob.pc \in {"verify", "recover"} => stagingJob.applied
    /\ StagingFailureRestores

(***************************************************************************)
(* The registry                                                            *)
(***************************************************************************)

\* The step of the registry's workflows, action by action.
LEMMA RegistryStep ==
    ASSUME RegistryInv, RegistryNext
    PROVE  RegistryInv'
<1> USE RegistryAssumption DEF RegistryInv, RegistryTypeOK, Image, Artifact,
        ReleasedIsTested, CandidateInv, GpuInv, PerfInv, ArtifactInv
<1>1. ASSUME NEW d \in Digests, PushCandidate(d) PROVE RegistryInv'
  BY <1>1 DEF PushCandidate
<1>2. ASSUME NEW s \in Shas, DispatchRelease(s) PROVE RegistryInv'
  BY <1>2 DEF DispatchRelease
<1>3. ASSUME NEW s \in Shas, NEW full \in BOOLEAN, DispatchBenchmark(s, full)
      PROVE RegistryInv'
  BY <1>3 DEF DispatchBenchmark
<1>4. CASE ResolveCandidate
  BY <1>4 DEF ResolveCandidate
<1>5. CASE TestCandidate
  BY <1>5 DEF TestCandidate
<1>6. CASE Promote
  BY <1>6 DEF Promote, GpuEnd
<1>7. CASE FailRelease
  BY <1>7 DEF FailRelease, GpuEnd
<1>8. CASE ResolveBenchmarked
  BY <1>8 DEF ResolveBenchmarked
<1>9. CASE Benchmark
  <2>1. CASE perf.full
    BY <1>9, <2>1 DEF Benchmark
  <2>2. CASE ~perf.full
    <3>1. /\ PerfEnd
          /\ UNCHANGED <<candidate, release, gpu, artifacts, staged, tested, benchmarked>>
      BY <1>9, <2>2 DEF Benchmark
    <3> QED
      BY <3>1 DEF PerfEnd
  <2> QED
    BY <2>1, <2>2
<1>10. CASE UploadEvidence
  <2> DEFINE mine == [sha |-> perf.sha, digest |-> perf.digest, ok |-> FALSE]
  <2>1. /\ perf.sha \in Shas /\ perf.digest \in Digests
        /\ perf.digest \in tested \cap benchmarked
    BY <1>10 DEF UploadEvidence
  <2>2. artifacts' = artifacts \cup {mine}
    BY <1>10 DEF UploadEvidence
  <2>3. artifacts' \subseteq Artifact /\ ArtifactInv'
    <3>1. mine \in Artifact /\ mine.digest = perf.digest
      BY <2>1
    <3> HIDE DEF mine
    <3> QED
      BY <1>10, <2>1, <2>2, <3>1 DEF UploadEvidence
  <2>4. /\ perf' \in [pc : {"idle", "resolve", "bench", "upload", "finish"},
                      sha : Shas \cup {None}, digest : Digests \cup {None},
                      runs : 0..MaxJobs, full : BOOLEAN]
        /\ PerfInv'
    BY <1>10, <2>1 DEF UploadEvidence
  <2> HIDE DEF mine
  <2> QED
    BY <1>10, <2>3, <2>4 DEF UploadEvidence
<1>11. CASE FinishBenchmark
  <2> DEFINE mine(ok) == [sha |-> perf.sha, digest |-> perf.digest, ok |-> ok]
  <2>1. /\ perf.sha \in Shas /\ perf.digest \in Digests
        /\ perf.digest \in tested \cap benchmarked
    BY <1>11 DEF FinishBenchmark
  <2>2. artifacts' \subseteq artifacts \cup {mine(TRUE)}
    BY <1>11 DEF FinishBenchmark
  <2>3. artifacts' \subseteq Artifact /\ ArtifactInv'
    <3>1. mine(TRUE) \in Artifact /\ mine(TRUE).digest = perf.digest
      BY <2>1
    <3> HIDE DEF mine
    <3> QED
      BY <1>11, <2>1, <2>2, <3>1 DEF FinishBenchmark
  <2>4. /\ perf' \in [pc : {"idle", "resolve", "bench", "upload", "finish"},
                      sha : Shas \cup {None}, digest : Digests \cup {None},
                      runs : 0..MaxJobs, full : BOOLEAN]
        /\ PerfInv'
    BY <1>11, <2>1 DEF FinishBenchmark, PerfEnd
  <2> HIDE DEF mine
  <2> QED
    BY <1>11, <2>3, <2>4 DEF FinishBenchmark
<1>12. CASE FailBenchmark
  BY <1>12 DEF FailBenchmark, PerfEnd
<1>13. ASSUME NEW a \in artifacts, Expire(a) PROVE RegistryInv'
  BY <1>13 DEF Expire
<1> QED
  BY <1>1, <1>2, <1>3, <1>4, <1>5, <1>6, <1>7, <1>8, <1>9, <1>10, <1>11, <1>12, <1>13
     DEF RegistryNext

\* What was established about an image is not taken back.
LEMMA HistoryGrows ==
    ASSUME RegistryNext
    PROVE  tested \subseteq tested' /\ benchmarked \subseteq benchmarked'
BY DEF RegistryNext, PushCandidate, DispatchRelease, DispatchBenchmark, ResolveCandidate,
       TestCandidate, Promote, FailRelease, ResolveBenchmarked, Benchmark, UploadEvidence,
       FinishBenchmark, FailBenchmark, Expire

\* Staging only takes the pending commit away, and production only reads.
LEMMA RegistryUnderJobs ==
    ASSUME RegistryInv,
           UNCHANGED <<candidate, release, gpu, perf, artifacts, tested, benchmarked>>,
           staged' \in {staged, None}
    PROVE  RegistryInv'
BY DEF RegistryInv, RegistryTypeOK, Image, Artifact, ReleasedIsTested, CandidateInv,
       GpuInv, PerfInv, ArtifactInv

\* A staging step writes nothing of the registry but the pending commit.
LEMMA StagingWrites ==
    ASSUME StagingNext
    PROVE  staged' \in {staged, None}
BY DEF StagingNext, StagingStart, StagingResolve, CapturePrevious, StagingDeployImage,
       StagingVerify, StagingFailEarly, StagingRecover, StagingCancel

\* Release tags always name tested images of their commit (ci-gpu-release.yml).
THEOREM ReleasesTested == Spec => []ReleasedIsTested
<1>1. Init => RegistryInv
  BY RegistryAssumption
     DEF Init, RegistryInit, RegistryInv, RegistryTypeOK, Image, Artifact, ReleasedIsTested,
         CandidateInv, GpuInv, PerfInv, ArtifactInv
<1>2. RegistryInv /\ [Next]_vars => RegistryInv'
  BY RegistryStep, RegistryUnderJobs, StagingWrites DEF Next, vars, registryVars
<1>3. RegistryInv => ReleasedIsTested
  BY DEF RegistryInv
<1> QED
  BY <1>1, <1>2, <1>3, PTL DEF Spec

(***************************************************************************)
(* Staging                                                                 *)
(***************************************************************************)

\* The steps of the staging job keep both of its invariants.
LEMMA StagingStep ==
    ASSUME RegistryInv, StagingInv, RestoreInv, StagingNext,
           UNCHANGED <<release, tested>>
    PROVE  StagingInv' /\ RestoreInv'
<1> USE RegistryAssumption DEF StagingInv, RestoreInv, StagingTypeOK, StagingIsTested,
        StagingFailureRestores, StagingOutcomes
<1>0. /\ staged \in Shas \cup {None}
      /\ tested \subseteq Digests /\ None \notin Digests
      /\ \A s \in Shas : release[s] # None => release[s] \in tested
  BY DEF RegistryInv, RegistryTypeOK, ReleasedIsTested
<1>1. CASE StagingStart
  BY <1>0, <1>1 DEF StagingStart
<1>2. CASE StagingResolve
  BY <1>0, <1>2 DEF StagingResolve
<1>3. CASE CapturePrevious
  <2>1. PICK found \in {stagingImage, None} :
          stagingJob' = [stagingJob EXCEPT !.pc = "deploy", !.previous = found,
                                           !.missed = found # stagingImage]
    BY <1>3 DEF CapturePrevious
  <2>2. stagingJob.pc = "capture" /\ UNCHANGED <<staged, stagingImage>>
    BY <1>3 DEF CapturePrevious
  <2>3. CASE found = stagingImage
    BY <1>0, <2>1, <2>2, <2>3
  <2>4. CASE found = None /\ found # stagingImage
    BY <1>0, <2>1, <2>2, <2>4
  <2> QED
    BY <2>1, <2>3, <2>4
<1>4. CASE StagingDeployImage
  <2>1. CASE /\ stagingImage' = stagingJob.digest
             /\ \E phase \in {"verify", "recover"} :
                  stagingJob' = [stagingJob EXCEPT !.pc = phase, !.applied = TRUE]
    BY <1>0, <1>4, <2>1 DEF StagingDeployImage
  <2>2. CASE /\ stagingJob' = [stagingJob EXCEPT !.pc = "recover", !.applied = TRUE]
             /\ UNCHANGED stagingImage
    BY <1>0, <1>4, <2>2 DEF StagingDeployImage
  <2> QED
    BY <1>4, <2>1, <2>2 DEF StagingDeployImage
<1>5. CASE StagingVerify
  <2>1. CASE StagingEnd("success")
    BY <1>0, <1>5, <2>1 DEF StagingVerify, StagingEnd
  <2>2. CASE StagingGoto("recover")
    BY <1>0, <1>5, <2>2 DEF StagingVerify, StagingGoto
  <2> QED
    BY <1>5, <2>1, <2>2 DEF StagingVerify
<1>6. CASE StagingFailEarly
  BY <1>0, <1>6 DEF StagingFailEarly, StagingEnd
<1>7. CASE StagingRecover
  <2>1. /\ stagingJob.pc = "recover" /\ stagingJob.applied
        /\ \/ stagingJob.previous = stagingJob.before
           \/ stagingJob.previous = None /\ stagingJob.missed
    BY <1>7 DEF StagingRecover
  <2>2. CASE stagingJob.previous # None /\ StagingEnd("restored")
                /\ stagingImage' = stagingJob.previous
    BY <1>0, <2>1, <2>2 DEF StagingEnd
  <2>3. CASE StagingEnd("unrestored") /\ stagingImage' \in {stagingImage, stagingJob.previous}
    BY <1>0, <2>1, <2>3 DEF StagingEnd
  <2>4. CASE stagingJob.previous = None /\ StagingEnd("reported") /\ UNCHANGED stagingImage
    BY <1>0, <2>1, <2>4 DEF StagingEnd
  <2> QED
    BY <1>7, <2>1, <2>2, <2>3, <2>4 DEF StagingRecover
<1>8. CASE StagingCancel
  BY <1>0, <1>8 DEF StagingCancel, StagingEnd
<1> QED
  BY <1>1, <1>2, <1>3, <1>4, <1>5, <1>6, <1>7, <1>8 DEF StagingNext

\* The other workflows leave the staging job alone, and the images it knows
\* stay tested.
LEMMA StagingUnderOthers ==
    ASSUME StagingInv, RestoreInv, UNCHANGED <<stagingJob, stagingImage>>,
           tested \subseteq tested'
    PROVE  StagingInv' /\ RestoreInv'
BY DEF StagingInv, RestoreInv, StagingTypeOK, StagingIsTested, StagingFailureRestores

\* The invariants behind the theorems about staging, for every step.
LEMMA StagingInvariant == Spec => [](RegistryInv /\ StagingInv /\ RestoreInv)
<1>1. Init => RegistryInv /\ StagingInv /\ RestoreInv
  BY RegistryAssumption
     DEF Init, RegistryInit, RegistryInv, RegistryTypeOK, Image, Artifact, ReleasedIsTested,
         CandidateInv, GpuInv, PerfInv, ArtifactInv, StagingInit, StagingInv, RestoreInv,
         StagingTypeOK, StagingIsTested, StagingFailureRestores, StagingOutcomes
<1>2. RegistryInv /\ StagingInv /\ RestoreInv /\ [Next]_vars
        => (RegistryInv /\ StagingInv /\ RestoreInv)'
  <2> SUFFICES ASSUME RegistryInv, StagingInv, RestoreInv, [Next]_vars
               PROVE  (RegistryInv /\ StagingInv /\ RestoreInv)'
    OBVIOUS
  <2>1. CASE RegistryNext /\ UNCHANGED <<stagingJob, stagingImage, prod, revision>>
    BY <2>1, RegistryStep, HistoryGrows, StagingUnderOthers
  <2>2. CASE /\ StagingNext
             /\ UNCHANGED <<candidate, release, gpu, perf, artifacts, tested, benchmarked>>
             /\ UNCHANGED <<prod, revision>>
    BY <2>2, RegistryUnderJobs, StagingWrites, StagingStep
  <2>3. CASE UNCHANGED <<registryVars, stagingJob, stagingImage>>
    BY <2>3, RegistryUnderJobs, StagingUnderOthers DEF registryVars
  <2> QED
    BY <2>1, <2>2, <2>3 DEF Next, vars
<1> QED
  BY <1>1, <1>2, PTL DEF Spec

\* Staging only runs tested images, restored ones included (cd-staging.yml).
THEOREM StagingTested == Spec => []StagingIsTested
<1>1. StagingInv => StagingIsTested
  BY DEF StagingInv
<1> QED
  BY <1>1, StagingInvariant, PTL

\* A staging job that failed leaves what was there, if its capture saw it and
\* its recovery worked; and it reports nothing to restore only if there was
\* nothing, or if the capture missed it (cd-staging.yml:90-150).
THEOREM StagingRestores == Spec => []StagingFailureRestores
<1>1. RestoreInv => StagingFailureRestores
  BY DEF RestoreInv
<1> QED
  BY <1>1, StagingInvariant, PTL

(***************************************************************************)
(* Production: the revisions of the Deployment                             *)
(***************************************************************************)

\* An image is live exactly if its ReplicaSet is the newest.
LEMMA LiveIsNewest ==
    ASSUME ProductionTypeOK, RevisionInv, NEW d \in Digests
    PROVE  Newest(d, Digests) <=> Live = d
<1> USE RegistryAssumption DEF ProductionTypeOK, RevisionInv
<1>1. ASSUME NEW e \in Digests, NEW f \in Digests, Newest(e, Digests), Newest(f, Digests)
      PROVE  e = f
  BY <1>1 DEF Newest
<1>2. (\E e \in Digests : Newest(e, Digests)) =>
        Live \in Digests /\ Newest(Live, Digests)
  BY DEF Live
<1>3. ~(\E e \in Digests : Newest(e, Digests)) => Live = None
  BY DEF Live
<1> QED
  BY <1>1, <1>2, <1>3

\* No image is live exactly if there is no ReplicaSet.
LEMMA NothingLive ==
    ASSUME ProductionTypeOK, RevisionInv
    PROVE  /\ Live \in Digests \/ (Live = None /\ \A d \in Digests : revision[d] = 0)
           /\ Live = None => \A d \in Digests : revision[d] = 0
<1>1. (\E e \in Digests : Newest(e, Digests)) => Live \in Digests
  BY DEF Live
<1>2. ~(\E e \in Digests : Newest(e, Digests)) => Live = None
  BY DEF Live
<1> QED
  BY <1>1, <1>2, RegistryAssumption DEF RevisionInv

\* Setting an image makes it the live one and leaves the others' revisions.
LEMMA SetImageEffect ==
    ASSUME ProductionTypeOK, RevisionInv, NEW d \in Digests, SetImage(d)
    PROVE  /\ revision' \in [Digests -> Nat] /\ RevisionInv'
           /\ Newest(d, Digests)' /\ Live' = d
           /\ \A e \in Digests \ {d} : revision'[e] = revision[e]
<1> USE DEF ProductionTypeOK
<1>1. CASE d = Live
  <2>1. Newest(d, Digests) /\ revision' = revision
    BY <1>1, LiveIsNewest DEF SetImage
  <2> QED
    BY <1>1, <2>1 DEF RevisionInv, Newest, Live
<1>2. CASE d # Live
  <2>1. NextRevision \in Nat \ {0} /\ \A e \in Digests : revision[e] < NextRevision
    <3>1. CASE Live = None
      BY <3>1, NothingLive DEF NextRevision
    <3>2. CASE Live # None
      <4>1. Live \in Digests
        BY <3>2, NothingLive
      <4>2. Newest(Live, Digests)
        BY <4>1, LiveIsNewest
      <4> QED
        BY <3>2, <4>1, <4>2 DEF NextRevision, Newest
    <3> QED
      BY <3>1, <3>2
  <2>2. revision' = [revision EXCEPT ![d] = NextRevision]
    BY <1>2 DEF SetImage
  <2> HIDE DEF NextRevision
  <2>3. revision' \in [Digests -> Nat] /\ RevisionInv'
    BY <2>1, <2>2 DEF RevisionInv, Newest
  <2>4. Newest(d, Digests)' /\ \A e \in Digests : Newest(e, Digests)' => e = d
    BY <2>1, <2>2 DEF Newest
  <2>5. Live' = d
    BY <2>4 DEF Live
  <2> QED
    BY <2>1, <2>2, <2>3, <2>4, <2>5
<1> QED
  BY <1>1, <1>2

\* A step that leaves the Deployment leaves what is live.
LEMMA LiveUnchanged ==
    ASSUME UNCHANGED revision
    PROVE  /\ Live' = Live
           /\ \A d, ds : Newest(d, ds)' <=> Newest(d, ds)
BY DEF Live, Newest

(***************************************************************************)
(* Production: every revision is gated                                     *)
(***************************************************************************)

\* The steps of the production job keep ProdInv: an image gets a revision
\* through its preflight, or has one already.
LEMMA ProdStep ==
    ASSUME RegistryInv, ProdInv, RevisionInv, DeployAssumption, ProductionNext,
           UNCHANGED <<tested, benchmarked>>
    PROVE  ProdInv'
<1> USE RegistryAssumption
    DEF ProdInv, ProductionTypeOK, ProdOutcomes, ProductionGated, DeployAssumption
<1>0. /\ tested \subseteq Digests /\ None \notin Digests
      /\ \A s \in Shas : release[s] # None => release[s] \in Digests /\ release[s] \in tested
      /\ \A a \in artifacts : a.digest \in tested \cap benchmarked
  BY DEF RegistryInv, RegistryTypeOK, Image, ReleasedIsTested, ArtifactInv
<1>a. Live \in Digests \cup {None}
  BY NothingLive
<1>1. ASSUME NEW s \in Shas, DispatchDeploy(s) PROVE ProdInv'
  BY <1>1, <1>a DEF DispatchDeploy, Dispatched
<1>2. CASE DispatchRollback
  BY <1>2, <1>a DEF DispatchRollback, Dispatched
<1>3. CASE ResolveRelease
  BY <1>0, <1>3 DEF ResolveRelease
<1>4. CASE VerifyEvidence
  <2>1. prod.digest \in tested \cap benchmarked
    BY <1>0, <1>4 DEF VerifyEvidence, HasEvidence
  <2> QED
    BY <1>4, <2>1 DEF VerifyEvidence, ProdGoto
<1>5. CASE Approve
  BY <1>5 DEF Approve, ProdGoto
<1>6. CASE DeployImage
  <2>1. prod.digest \in Digests /\ prod.digest \in tested \cap benchmarked
    BY <1>0, <1>6 DEF DeployImage
  <2>2. CASE SetImage(prod.digest)
    <3>1. /\ revision' \in [Digests -> Nat]
          /\ \A e \in Digests \ {prod.digest} : revision'[e] = revision[e]
      BY <2>1, <2>2, SetImageEffect
    <3>2. ProductionTypeOK' /\ prod'.pc \in {"rollout", "recover"}
      <4>1. CASE prod' = [prod EXCEPT !.pc = "rollout", !.applied = TRUE]
        BY <3>1, <4>1
      <4>2. CASE prod' = [prod EXCEPT !.pc = "recover", !.partial = TRUE]
        BY <3>1, <4>2
      <4>3. CASE ProdGoto("recover")
        BY <3>1, <4>3 DEF ProdGoto
      <4> QED
        BY <1>6, <4>1, <4>2, <4>3 DEF DeployImage
    <3> QED
      BY <2>1, <3>1, <3>2
  <2>3. CASE ProdGoto("recover") /\ UNCHANGED revision
    BY <1>6, <2>3 DEF DeployImage, ProdGoto
  <2> QED
    BY <1>6, <2>2, <2>3 DEF DeployImage
<1>7. ASSUME RolloutUndo
      PROVE  /\ revision' \in [Digests -> Nat]
             /\ \A d \in Digests : revision'[d] > 0 => d \in tested /\ d \in benchmarked
  <2>1. PICK d \in Digests : Newest(d, Digests \ {Live}) /\ SetImage(d)
    BY <1>7 DEF RolloutUndo
  <2>2. d \in tested /\ d \in benchmarked
    BY <2>1 DEF Newest
  <2> QED
    BY <2>1, <2>2, SetImageEffect
<1>8. CASE UndoOnRequest
  BY <1>7, <1>8 DEF UndoOnRequest, ProdGoto
<1>9. CASE AwaitRollout
  BY <1>9 DEF AwaitRollout, ProdGoto
<1>10. CASE VerifyDigest
  BY <1>10 DEF VerifyDigest, ProdGoto
<1>11. CASE SmokeTest
  <2>1. CASE ProdEnd("success")
    BY <1>11, <2>1 DEF SmokeTest, ProdEnd
  <2>2. CASE ProdGoto("recover")
    BY <1>11, <2>2 DEF SmokeTest, ProdGoto
  <2> QED
    BY <1>11, <2>1, <2>2 DEF SmokeTest
<1>12. CASE AutoRollback
  <2>1. PICK how \in ProdOutcomes : ProdEnd(how)
    BY <1>12 DEF AutoRollback
  <2>2. RolloutUndo \/ UNCHANGED revision
    BY <1>12 DEF AutoRollback
  <2>3. /\ revision' \in [Digests -> Nat]
        /\ \A d \in Digests : revision'[d] > 0 => d \in tested /\ d \in benchmarked
    BY <1>7, <2>2
  <2>4. ProductionTypeOK' /\ prod'.pc = "idle"
    BY <2>1, <2>3 DEF ProdEnd
  <2> QED
    BY <2>3, <2>4
<1>13. CASE RejectDeploy
  BY <1>13 DEF RejectDeploy, ProdEnd
<1>14. CASE ProdCancel
  BY <1>14 DEF ProdCancel, ProdEnd
<1> QED
  BY <1>1, <1>2, <1>3, <1>4, <1>5, <1>6, <1>8, <1>9, <1>10, <1>11, <1>12, <1>13, <1>14
     DEF ProductionNext

\* The other workflows neither touch the Deployment nor the job, and the
\* images stay tested and benchmarked.
LEMMA ProdUnderOthers ==
    ASSUME ProdInv, UNCHANGED <<prod, revision>>,
           tested \subseteq tested', benchmarked \subseteq benchmarked'
    PROVE  ProdInv'
BY DEF ProdInv, ProductionTypeOK, ProductionGated

(***************************************************************************)
(* Production: what a failure leaves                                       *)
(***************************************************************************)

\* The other workflows neither touch the Deployment nor the job.
LEMMA RecoveryUnderOthers ==
    ASSUME RecoveryInv, UNCHANGED <<prod, revision>>
    PROVE  RecoveryInv'
BY LiveUnchanged DEF RecoveryInv, RevisionInv, Restorable, FailureRestoresLive

\* Undoing an applied deployment makes the image live that it had found.
LEMMA UndoRestores ==
    ASSUME ProductionTypeOK, RevisionInv, Restorable, RolloutUndo,
           prod.digest # prod.before
    PROVE  Live' = prod.before
<1> USE DEF ProductionTypeOK
<1>1. prod.digest \in Digests /\ Live = prod.digest
  BY LiveIsNewest DEF Restorable, Newest
<1>2. PICK d \in Digests : Newest(d, Digests \ {prod.digest}) /\ SetImage(d)
  BY <1>1 DEF RolloutUndo
<1>3. prod.before # None
  BY <1>2 DEF Restorable, Newest
<1>4. Newest(prod.before, Digests \ {prod.digest})
  BY <1>3 DEF Restorable
<1>5. d = prod.before
  BY <1>2, <1>4 DEF Newest, RevisionInv
<1> QED
  BY <1>2, <1>5, SetImageEffect

\* Deploying an image makes the one that was live the next in line.
LEMMA DeployIsRestorable ==
    ASSUME ProductionTypeOK, RevisionInv, prod.digest \in Digests, SetImage(prod.digest),
           Live = prod.before, prod'.digest = prod.digest, prod'.before = prod.before
    PROVE  Restorable'
<1>1. /\ Newest(prod.digest, Digests)'
      /\ \A e \in Digests \ {prod.digest} : revision'[e] = revision[e]
  BY SetImageEffect
<1>2. CASE prod.before = None
  BY <1>1, <1>2, NothingLive DEF Restorable, Newest
<1>3. CASE prod.before # None
  <2>1. prod.before \in Digests
    BY <1>3, NothingLive
  <2>2. Newest(prod.before, Digests)
    BY <2>1, LiveIsNewest
  <2>3. prod.digest # prod.before => Newest(prod.before, Digests \ {prod.digest})'
    BY <1>1, <2>2 DEF Newest
  <2> QED
    BY <1>1, <1>3, <2>3 DEF Restorable, Newest
<1> QED
  BY <1>2, <1>3

\* The steps of the production job keep RecoveryInv.
LEMMA RecoveryStep ==
    ASSUME RegistryInv, ProdInv, RecoveryInv, DeployAssumption, ProductionNext
    PROVE  RecoveryInv'
<1>0. ProductionTypeOK /\ RevisionInv
  BY DEF ProdInv, RecoveryInv
<1>a. UNCHANGED revision => Live' = Live /\ RevisionInv'
  BY <1>0, LiveUnchanged DEF RevisionInv
<1>b. ASSUME UNCHANGED revision, prod'.digest = prod.digest, prod'.before = prod.before
      PROVE  Restorable' <=> Restorable
  BY <1>b, LiveUnchanged DEF Restorable
<1> USE DEF RecoveryInv, FailureRestoresLive, ProductionTypeOK
<1>1. ASSUME NEW s \in Shas, DispatchDeploy(s) PROVE RecoveryInv'
  BY <1>0, <1>1, <1>a DEF DispatchDeploy, Dispatched
<1>2. CASE DispatchRollback
  BY <1>0, <1>2, <1>a DEF DispatchRollback, Dispatched
<1>3. CASE ResolveRelease
  BY <1>0, <1>3, <1>a DEF ResolveRelease
<1>4. CASE VerifyEvidence
  BY <1>0, <1>4, <1>a DEF VerifyEvidence, ProdGoto
<1>5. CASE Approve
  BY <1>0, <1>5, <1>a DEF Approve, ProdGoto
<1>6. CASE DeployImage
  <2>1. /\ prod.digest \in Digests /\ Live = prod.before /\ ~prod.rollback
        /\ ~prod.applied /\ ~prod.partial
    BY <1>6 DEF DeployImage, ProdInv, RegistryInv, RegistryTypeOK
  <2>2. CASE SetImage(prod.digest) /\ prod' = [prod EXCEPT !.pc = "rollout", !.applied = TRUE]
    <3>1. Restorable' /\ RevisionInv'
      BY <1>0, <2>1, <2>2, DeployIsRestorable, SetImageEffect
    <3> QED
      BY <1>0, <2>1, <2>2, <3>1
  <2>3. CASE SetImage(prod.digest) /\ prod' = [prod EXCEPT !.pc = "recover", !.partial = TRUE]
    BY <1>0, <2>1, <2>3, SetImageEffect
  <2>4. CASE ProdGoto("recover") /\ UNCHANGED revision
    BY <1>0, <1>a, <2>1, <2>4 DEF ProdGoto
  <2> QED
    BY <1>6, <2>2, <2>3, <2>4 DEF DeployImage
<1>7. RolloutUndo => RevisionInv'
  BY <1>0, SetImageEffect DEF RolloutUndo
<1>8. CASE UndoOnRequest
  <2>1. prod.rollback
    BY <1>8 DEF UndoOnRequest, ProdInv
  <2> QED
    BY <1>0, <1>7, <1>8, <1>a, <2>1 DEF UndoOnRequest, ProdGoto
<1>9. CASE AwaitRollout
  BY <1>0, <1>9, <1>a, <1>b DEF AwaitRollout, ProdGoto
<1>10. CASE VerifyDigest
  BY <1>0, <1>10, <1>a, <1>b DEF VerifyDigest, ProdGoto
<1>11. CASE SmokeTest
  <2>1. CASE ProdEnd("success")
    BY <1>0, <1>11, <1>a, <2>1 DEF SmokeTest, ProdEnd
  <2>2. CASE ProdGoto("recover")
    BY <1>0, <1>11, <1>a, <1>b, <2>2 DEF SmokeTest, ProdGoto
  <2> QED
    BY <1>11, <2>1, <2>2 DEF SmokeTest
<1>12. CASE AutoRollback
  <2>1. CASE prod.applied /\ RolloutUndo /\ ProdEnd("rolledBack")
    <3>1. prod.digest # prod.before => Live' = prod.before
      BY <1>0, <1>12, <2>1, UndoRestores DEF AutoRollback
    <3> QED
      BY <1>0, <1>7, <2>1, <3>1 DEF ProdEnd
  <2>2. CASE ProdEnd("unrestored") /\ (RolloutUndo \/ UNCHANGED revision)
    BY <1>0, <1>7, <1>a, <2>2 DEF ProdEnd
  <2>3. CASE ~prod.applied /\ ProdEnd("failed") /\ UNCHANGED revision
    BY <1>0, <1>12, <1>a, <2>3 DEF ProdEnd, AutoRollback
  <2> QED
    BY <1>12, <2>1, <2>2, <2>3 DEF AutoRollback
<1>13. CASE RejectDeploy
  BY <1>0, <1>13, <1>a DEF RejectDeploy, ProdEnd
<1>14. CASE ProdCancel
  BY <1>0, <1>14, <1>a DEF ProdCancel, ProdEnd
<1> QED
  BY <1>1, <1>2, <1>3, <1>4, <1>5, <1>6, <1>8, <1>9, <1>10, <1>11, <1>12, <1>13, <1>14
     DEF ProductionNext

\* The invariants behind the theorems about production, for every step.
LEMMA ProductionInvariant == Spec => [](RegistryInv /\ ProdInv /\ RecoveryInv)
<1>1. Init => RegistryInv /\ ProdInv /\ RecoveryInv
  <2> SUFFICES ASSUME Init PROVE RegistryInv /\ ProdInv /\ RecoveryInv
    OBVIOUS
  <2>1. RegistryInv
    BY RegistryAssumption
       DEF Init, RegistryInit, RegistryInv, RegistryTypeOK, Image, Artifact,
           ReleasedIsTested, CandidateInv, GpuInv, PerfInv, ArtifactInv
  <2>2. ProdInv
    BY DeployAssumption
       DEF Init, ProductionInit, ProdInv, ProductionTypeOK, ProdOutcomes, ProductionGated
  <2>3. RecoveryInv
    BY DEF Init, ProductionInit, RecoveryInv, RevisionInv, FailureRestoresLive
  <2> QED
    BY <2>1, <2>2, <2>3
<1>2. RegistryInv /\ ProdInv /\ RecoveryInv /\ [Next]_vars
        => (RegistryInv /\ ProdInv /\ RecoveryInv)'
  <2> SUFFICES ASSUME RegistryInv, ProdInv, RecoveryInv, [Next]_vars
               PROVE  (RegistryInv /\ ProdInv /\ RecoveryInv)'
    OBVIOUS
  <2>1. CASE RegistryNext /\ UNCHANGED <<stagingJob, stagingImage, prod, revision>>
    BY <2>1, RegistryStep, HistoryGrows, ProdUnderOthers, RecoveryUnderOthers
  <2>2. CASE /\ StagingNext
             /\ UNCHANGED <<candidate, release, gpu, perf, artifacts, tested, benchmarked>>
             /\ UNCHANGED <<prod, revision>>
    BY <2>2, RegistryUnderJobs, StagingWrites, ProdUnderOthers, RecoveryUnderOthers
  <2>3. CASE ProductionNext /\ UNCHANGED <<registryVars, stagingJob, stagingImage>>
    <3>1. RevisionInv
      BY DEF RecoveryInv
    <3> QED
      BY <2>3, <3>1, DeployAssumption, RegistryUnderJobs, ProdStep, RecoveryStep
         DEF registryVars
  <2>4. CASE UNCHANGED vars
    BY <2>4, RegistryUnderJobs, ProdUnderOthers, RecoveryUnderOthers DEF vars, registryVars
  <2> QED
    BY <2>1, <2>2, <2>3, <2>4 DEF Next
<1> QED
  BY <1>1, <1>2, PTL DEF Spec

\* Whatever production runs or can be rolled back to was tested and
\* benchmarked (cd-production.yml).
THEOREM ProductionIsGated == Spec => []ProductionGated
<1>1. ProdInv => ProductionGated
  BY DEF ProdInv
<1> QED
  BY <1>1, ProductionInvariant, PTL

\* A failed deployment leaves the image it found, if its rollback worked and
\* outside of the two exceptions.
THEOREM ProductionRestores == Spec => []FailureRestoresLive
<1>1. RecoveryInv => FailureRestoresLive
  BY DEF RecoveryInv
<1> QED
  BY <1>1, ProductionInvariant, PTL

\* The variables keep their types.
THEOREM PipelineTypeCorrect == Spec => []PipelineTypeOK
<1>1. RegistryInv /\ StagingInv /\ ProdInv => PipelineTypeOK
  BY DEF RegistryInv, StagingInv, ProdInv, PipelineTypeOK
<1> QED
  BY <1>1, StagingInvariant, ProductionInvariant, PTL

============================================================================
