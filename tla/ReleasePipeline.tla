-------------------------- MODULE ReleasePipeline --------------------------
(***************************************************************************)
(* From a pushed commit to production: the registry's workflows, the       *)
(* staging job that a GPU release starts, and the production job, which    *)
(* reads the tags and the evidence that the others write meanwhile.        *)
(***************************************************************************)
EXTENDS ImageRegistry

CONSTANT MaxDeploys

ASSUME DeployAssumption == MaxDeploys \in Nat

VARIABLES stagingJob, stagingImage, prod, revision

INSTANCE StagingDeploy
INSTANCE ProductionDeploy

vars == <<registryVars, stagingJob, stagingImage, prod, revision>>

PipelineTypeOK == RegistryTypeOK /\ StagingTypeOK /\ ProductionTypeOK

Init == RegistryInit /\ StagingInit /\ ProductionInit

Next ==
    \/ RegistryNext /\ UNCHANGED <<stagingJob, stagingImage, prod, revision>>
    \/ /\ StagingNext
       /\ UNCHANGED <<candidate, release, gpu, perf, artifacts, tested, benchmarked>>
       /\ UNCHANGED <<prod, revision>>
    \/ ProductionNext /\ UNCHANGED <<registryVars, stagingJob, stagingImage>>

Spec == Init /\ [][Next]_vars

----------------------------------------------------------------------------

\* Every image that production runs or can be rolled back to passed the
\* contract tests on a GPU and a benchmark of all models, although tags move
\* and evidence expires while a job waits for its approval, and although a
\* rollback verifies nothing (cd-production.yml:88-196, 262-282).
ProductionGated ==
    \A d \in Digests : revision[d] > 0 => d \in tested /\ d \in benchmarked

\* Staging runs images that passed the contract tests, and a job that puts an
\* earlier image back puts back such an image (cd-staging.yml:59-150).
StagingIsTested ==
    stagingImage # None => stagingImage \in tested

============================================================================
