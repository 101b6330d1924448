---------------------------- MODULE StagingDeploy ----------------------------
(***************************************************************************)
(* cd-staging.yml: one job at a time deploys the release image of a commit *)
(* to the staging cluster, tests it there, and puts the image back that it *)
(* found if anything fails after it has begun to deploy.                   *)
(***************************************************************************)

CONSTANTS Shas, Digests, None

VARIABLES
    release,    \* the registry's release tags
    staged,     \* the commit whose deployment is pending, or None
    stagingJob, \* the job, what was there (before) and how the last one ended
    stagingImage \* the image of the staging Deployment, or None

StagingOutcomes ==
    {"none", "success", "failed", "restored", "unrestored", "reported", "cancelled"}

StagingTypeOK ==
    /\ stagingJob \in
         [pc : {"idle", "resolve", "capture", "deploy", "verify", "recover"},
          sha : Shas \cup {None}, digest : Digests \cup {None},
          previous : Digests \cup {None}, before : Digests \cup {None},
          missed : BOOLEAN, applied : BOOLEAN, outcome : StagingOutcomes]
    /\ stagingImage \in Digests \cup {None}

StagingInit ==
    /\ stagingJob = [pc |-> "idle", sha |-> None, digest |-> None,
                     previous |-> None, before |-> None, missed |-> FALSE,
                     applied |-> FALSE, outcome |-> "none"]
    /\ stagingImage = None

StagingGoto(phase) == stagingJob' = [stagingJob EXCEPT !.pc = phase]

\* Only the outcome outlives the job, and, for the properties, what was there
\* when it started and whether it missed that.
StagingEnd(how) ==
    stagingJob' = [stagingJob EXCEPT !.pc = "idle", !.sha = None, !.digest = None,
                       !.previous = None, !.applied = FALSE, !.outcome = how]

----------------------------------------------------------------------------

\* The pending deployment of a successful GPU release starts.
StagingStart ==
    /\ stagingJob.pc = "idle" /\ staged # None
    /\ stagingJob' = [pc |-> "resolve", sha |-> staged, digest |-> None,
                      previous |-> None, before |-> stagingImage, missed |-> FALSE,
                      applied |-> FALSE, outcome |-> "none"]
    /\ staged' = None /\ UNCHANGED stagingImage

StagingResolve ==
    /\ stagingJob.pc = "resolve" /\ release[stagingJob.sha] # None
    /\ stagingJob' = [stagingJob EXCEPT !.pc = "capture", !.digest = release[stagingJob.sha]]
    /\ UNCHANGED <<staged, stagingImage>>

\* Any failure of the first kubectl, not only "not found", is taken for the
\* absence of a deployment; missed is history.  A failure of the second one,
\* which reads the image, ends the job (StagingFailEarly).
CapturePrevious ==
    /\ stagingJob.pc = "capture"
    /\ \E found \in {stagingImage, None} :
         stagingJob' = [stagingJob EXCEPT !.pc = "deploy", !.previous = found,
                                          !.missed = found # stagingImage]
    /\ UNCHANGED <<staged, stagingImage>>

\* Fault: "applied" is set when the apply has succeeded.
StagingDeployImage_AppliedLast ==
    /\ stagingJob.pc = "deploy"
    /\ \/ /\ stagingImage' = stagingJob.digest
          /\ \E ok \in BOOLEAN :
               stagingJob' = [stagingJob EXCEPT !.pc = IF ok THEN "verify" ELSE "recover",
                                                !.applied = ok]
       \/ StagingGoto("recover") /\ UNCHANGED stagingImage
    /\ UNCHANGED staged

\* "applied" is set first.  The apply may fail with or without effect.
StagingDeployImage ==
    /\ stagingJob.pc = "deploy"
    /\ \/ /\ stagingImage' = stagingJob.digest
          /\ \E phase \in {"verify", "recover"} :
               stagingJob' = [stagingJob EXCEPT !.pc = phase, !.applied = TRUE]
       \/ /\ stagingJob' = [stagingJob EXCEPT !.pc = "recover", !.applied = TRUE]
          /\ UNCHANGED stagingImage
    /\ UNCHANGED staged

\* Rollout, readiness and the integration tests.
StagingVerify ==
    /\ stagingJob.pc = "verify"
    /\ StagingEnd("success") \/ StagingGoto("recover")
    /\ UNCHANGED <<staged, stagingImage>>

\* A step before the deployment fails: nothing is to be restored.
StagingFailEarly ==
    /\ stagingJob.pc \in {"resolve", "capture"}
    /\ StagingEnd("failed")
    /\ UNCHANGED <<staged, stagingImage>>

\* The steps with failure() in their condition: one restores, the other one
\* reports that there is nothing to restore.
StagingRecover ==
    /\ stagingJob.pc = "recover"
    /\ IF stagingJob.applied /\ stagingJob.previous # None
         THEN \/ StagingEnd("restored") /\ stagingImage' = stagingJob.previous
              \/ StagingEnd("unrestored") /\ stagingImage' \in {stagingImage, stagingJob.previous}
         ELSE /\ StagingEnd(IF stagingJob.applied THEN "reported" ELSE "failed")
              /\ UNCHANGED stagingImage
    /\ UNCHANGED staged

\* A cancelled job, or one past its 30 minutes, restores nothing.
StagingCancel ==
    /\ stagingJob.pc # "idle" /\ StagingEnd("cancelled")
    /\ UNCHANGED <<staged, stagingImage>>

StagingNext ==
    \/ StagingStart \/ StagingResolve \/ CapturePrevious \/ StagingDeployImage
    \/ StagingVerify \/ StagingFailEarly \/ StagingRecover \/ StagingCancel

----------------------------------------------------------------------------

\* A staging job that failed, and whose recovery step (if one was due) did not
\* fail, leaves the image that was there when it started, wherever it failed, in
\* the middle of an apply too (cd-staging.yml:108-157).  It reports that nothing
\* can be restored after a first deployment or, which
\* docs/production-adoption.md:110-113 does not foresee, when its capture had
\* missed the one that was there (lines 90, 100): the new image then stays.
StagingFailureRestores ==
    stagingJob.pc = "idle" =>
        /\ stagingJob.outcome \in {"failed", "restored"} => stagingImage = stagingJob.before
        /\ stagingJob.outcome = "reported" => stagingJob.before = None \/ stagingJob.missed

============================================================================
