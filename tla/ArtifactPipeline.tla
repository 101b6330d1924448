-------------------------- MODULE ArtifactPipeline --------------------------
(***************************************************************************)
(* fetch_artifacts.py and build.sh on one host: the builders read the      *)
(* cache while fetchers may be replacing it.                               *)
(***************************************************************************)
EXTENDS FetchArtifacts, FiniteSets

CONSTANTS Builders, Models, Parts

VARIABLES bpc, mrev, staged, left, repo, old

\* The fetched files are the artifacts of the manifest's models.
ASSUME PipelineAssumption == Files = Models \X Parts /\ IsFiniteSet(Models)

\* build.sh looks the files up under the output path, one at a time.
cache == IF output = Absent THEN Absent ELSE output.files

INSTANCE BuildRepository WITH Revs <- Revisions, None <- Absent

Init == FetchInit /\ BuildInit

Next ==
    \/ FetchNext /\ UNCHANGED <<bpc, mrev, staged, left, repo, old>>
    \/ BuildNext /\ UNCHANGED fetchVars

Spec == Init /\ [][Next]_<<fetchVars, bpc, mrev, staged, left, repo, old>>

============================================================================
