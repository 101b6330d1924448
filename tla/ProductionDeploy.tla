-------------------------- MODULE ProductionDeploy --------------------------
(***************************************************************************)
(* cd-production.yml: one job at a time, dispatched by hand, either deploys *)
(* the release image of a commit, once its evidence is verified and the    *)
(* environment's reviewers approve, or goes back one revision on request.  *)
(* A deployment that fails after it was applied is rolled back.            *)
(***************************************************************************)
EXTENDS Naturals

CONSTANTS Shas, Digests, None,
          MaxDeploys   \* bound: runs of the workflow

VARIABLES
    release,    \* the registry's release tags
    artifacts,  \* unexpired performance artifacts
    prod,       \* the job and how the last one ended
    revision    \* the revision of each image's ReplicaSet, 0 if it has none

ProdOutcomes ==
    {"none", "success", "failed", "rolledBack", "unrestored", "cancelled"}

ProductionTypeOK ==
    /\ prod \in
         [pc : {"idle", "resolve", "evidence", "approval", "deploy", "undo",
                "rollout", "verify", "smoke", "recover"},
          sha : Shas \cup {None}, digest : Digests \cup {None}, rollback : BOOLEAN,
          applied : BOOLEAN, before : Digests \cup {None}, partial : BOOLEAN,
          outcome : ProdOutcomes, runs : 0..MaxDeploys]
    /\ revision \in [Digests -> Nat]

ProductionInit ==
    /\ prod = [pc |-> "idle", sha |-> None, digest |-> None, rollback |-> FALSE,
               applied |-> FALSE, before |-> None, partial |-> FALSE,
               outcome |-> "none", runs |-> 0]
    /\ revision = [d \in Digests |-> 0]

----------------------------------------------------------------------------
(* The Deployment.  Images of different commits differ, and a commit fixes *)
(* its manifests, so an image stands for its pod template.                 *)

\* Of the images ds, d has the newest ReplicaSet.
Newest(d, ds) ==
    d \in ds /\ revision[d] > 0 /\ \A e \in ds : revision[e] <= revision[d]

Live == IF \E d \in Digests : Newest(d, Digests)
          THEN CHOOSE d \in Digests : Newest(d, Digests) ELSE None
NextRevision == IF Live = None THEN 1 ELSE revision[Live] + 1

\* kubectl apply makes no revision of an unchanged template, and brings the
\* ReplicaSet of a former one to the front.
SetImage(d) ==
    revision' = IF d = Live THEN revision ELSE [revision EXCEPT ![d] = NextRevision]

\* kubectl rollout undo is not possible without a revision to go back to.
RolloutUndo == \E d \in Digests : Newest(d, Digests \ {Live}) /\ SetImage(d)

----------------------------------------------------------------------------

ProdGoto(phase) == prod' = [prod EXCEPT !.pc = phase]

\* Only the outcome outlives the job, and, for the properties, what it did.
ProdEnd(how) ==
    prod' = [prod EXCEPT !.pc = "idle", !.sha = None, !.applied = FALSE, !.outcome = how]

Dispatched(phase, s, back) ==
    /\ prod.pc = "idle" /\ prod.runs < MaxDeploys
    /\ prod' = [pc |-> phase, sha |-> s, digest |-> None, rollback |-> back,
                applied |-> FALSE, before |-> Live, partial |-> FALSE,
                outcome |-> "none", runs |-> prod.runs + 1]
    /\ UNCHANGED revision

DispatchDeploy(s) == Dispatched("resolve", s, FALSE)

\* A rollback skips the preflight but not the approval.
DispatchRollback == Dispatched("approval", None, TRUE)

ResolveRelease ==
    /\ prod.pc = "resolve" /\ release[prod.sha] # None
    /\ prod' = [prod EXCEPT !.pc = "evidence", !.digest = release[prod.sha]]
    /\ UNCHANGED revision

HasEvidence(s, d) == [sha |-> s, digest |-> d, ok |-> TRUE] \in artifacts

\* Fault: evidence for any image of the commit will do.
VerifyEvidence_OfCommit ==
    /\ prod.pc = "evidence" /\ \E d \in Digests : HasEvidence(prod.sha, d)
    /\ ProdGoto("approval")
    /\ UNCHANGED revision

\* The evidence of a successful run is found, downloaded and verified.
VerifyEvidence ==
    /\ prod.pc = "evidence" /\ HasEvidence(prod.sha, prod.digest)
    /\ ProdGoto("approval")
    /\ UNCHANGED revision

\* The reviewers may take their time: tags move and evidence expires.
Approve ==
    /\ prod.pc = "approval"
    /\ ProdGoto(IF prod.rollback THEN "undo" ELSE "deploy")
    /\ UNCHANGED revision

\* Fault: "applied" is set before the apply, as in cd-staging.yml.
DeployImage_AppliedFirst ==
    /\ prod.pc = "deploy"
    /\ \/ SetImage(prod.digest) /\ prod' = [prod EXCEPT !.pc = "rollout", !.applied = TRUE]
       \/ SetImage(prod.digest) /\ prod' = [prod EXCEPT !.pc = "recover", !.applied = TRUE]
       \/ UNCHANGED revision /\ prod' = [prod EXCEPT !.pc = "recover", !.applied = TRUE]

\* "applied" is set after the apply.  The apply may fail with or without
\* effect on the Deployment; partial records the first for the properties.
DeployImage ==
    /\ prod.pc = "deploy"
    /\ \/ SetImage(prod.digest) /\ prod' = [prod EXCEPT !.pc = "rollout", !.applied = TRUE]
       \/ SetImage(prod.digest) /\ prod' = [prod EXCEPT !.pc = "recover", !.partial = TRUE]
       \/ ProdGoto("recover") /\ UNCHANGED revision

\* The requested rollback: "applied" stays unset.
UndoOnRequest ==
    /\ prod.pc = "undo"
    /\ \/ RolloutUndo /\ ProdGoto("rollout")
       \/ ProdGoto("recover") /\ UNCHANGED revision

\* rollout status; only a deployment compares the digests of its pods.
AwaitRollout ==
    /\ prod.pc = "rollout"
    /\ ProdGoto(IF prod.rollback THEN "smoke" ELSE "verify") \/ ProdGoto("recover")
    /\ UNCHANGED revision

VerifyDigest ==
    /\ prod.pc = "verify"
    /\ (Live = prod.digest /\ ProdGoto("smoke")) \/ ProdGoto("recover")
    /\ UNCHANGED revision

SmokeTest ==
    /\ prod.pc = "smoke"
    /\ ProdEnd("success") \/ ProdGoto("recover")
    /\ UNCHANGED revision

\* Auto-rollback if failure() and applied; undo and its rollout may fail.
AutoRollback ==
    /\ prod.pc = "recover"
    /\ IF prod.applied
         THEN \/ RolloutUndo /\ \E how \in {"rolledBack", "unrestored"} : ProdEnd(how)
              \/ ProdEnd("unrestored") /\ UNCHANGED revision
         ELSE ProdEnd("failed") /\ UNCHANGED revision

\* The preflight fails, or the reviewers refuse.
RejectDeploy ==
    /\ prod.pc \in {"resolve", "evidence", "approval"} /\ ProdEnd("failed")
    /\ UNCHANGED revision

\* A cancelled job, or one past its 30 minutes, is not rolled back.
ProdCancel ==
    /\ prod.pc # "idle" /\ ProdEnd("cancelled") /\ UNCHANGED revision

ProductionNext ==
    \/ \E s \in Shas : DispatchDeploy(s)
    \/ DispatchRollback \/ ResolveRelease \/ VerifyEvidence \/ Approve \/ DeployImage
    \/ UndoOnRequest \/ AwaitRollout \/ VerifyDigest \/ SmokeTest \/ AutoRollback
    \/ RejectDeploy \/ ProdCancel

----------------------------------------------------------------------------

\* A deployment that failed, and whose rollback (if one was due) did not fail,
\* leaves the image it found, wherever it failed (cd-production.yml:271-340).
\* Two holes are excepted: an apply that changed the Deployment and then failed
\* is not rolled back; and to undo the deployment of the image that was live
\* already, which made no revision, goes back to an older one.
FailureRestoresLive ==
    /\ prod.pc = "idle" /\ ~prod.rollback /\ prod.outcome \in {"failed", "rolledBack"}
    /\ ~prod.partial /\ prod.digest # prod.before
    => Live = prod.before

============================================================================
