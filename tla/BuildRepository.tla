--------------------------- MODULE BuildRepository ---------------------------
(***************************************************************************)
(* scripts/build.sh: builders that stage every selected model, with its    *)
(* artifacts copied from the cache and verified again, and then replace    *)
(* the models of model_repository one by one, after emptying it if asked   *)
(* to (--clean).  The staging directories are inside model_repository.     *)
(***************************************************************************)
EXTENDS Naturals, Sequences, SequencesExt

CONSTANTS Builders, Models,
          Parts,      \* the artifacts of a model
          Revs,       \* manifest revisions: each pins the contents of Parts
          None        \* no file, no directory

VARIABLES
    cache,    \* the artifact cache: contents by model and part, or None
    bpc,      \* where each builder is
    mrev,     \* its manifest revision
    staged,   \* the models in its staging directory
    left,     \* the models it has yet to publish, in the manifest's order
    repo,     \* the models in the repository
    old       \* history: the repository when it began to publish, or None

Built(v) == [f \in Parts |-> v]
Nothing == [m \in Models |-> None]

BuildInit ==
    /\ bpc = [b \in Builders |-> "none"] /\ mrev \in [Builders -> Revs]
    /\ staged = [b \in Builders |-> Nothing] /\ left = [b \in Builders |-> <<>>]
    /\ repo \in {Nothing} \cup {[m \in Models |-> Built(v)] : v \in Revs}
    /\ old = [b \in Builders |-> None]

BGoto(b, phase) == bpc' = [bpc EXCEPT ![b] = phase]

----------------------------------------------------------------------------

Idle(b) == bpc[b] \in {"none", "built", "failed", "killed"}

\* The manifest's models pass the checks; the staging directory is made.
\* Assumed: builds run one after the other.
Prepare(b) ==
    /\ bpc[b] = "none" /\ \A other \in Builders : Idle(other)
    /\ BGoto(b, "stage")
    /\ old' = [other \in Builders |-> None]
    /\ UNCHANGED <<mrev, staged, left, repo>>

WholeIn(b, m) == staged[b][m] # None /\ \A f \in Parts : staged[b][m][f] # None

\* copytree of a model's own files, once the models before it are whole.
CopySource(b, m) ==
    /\ bpc[b] = "stage" /\ staged[b][m] = None
    /\ \A n \in Models : staged[b][n] = None \/ WholeIn(b, n)
    /\ \/ staged' = [staged EXCEPT ![b][m] = [f \in Parts |-> None]] /\ UNCHANGED bpc
       \/ BGoto(b, "abort") /\ UNCHANGED staged
    /\ UNCHANGED <<mrev, left, repo, old>>

\* Fault: the cache's digests are trusted.
CopyArtifact_Trusting(b, m, f) ==
    /\ bpc[b] = "stage" /\ staged[b][m] # None /\ staged[b][m][f] = None
    /\ \/ /\ cache # None
          /\ staged' = [staged EXCEPT ![b][m][f] = cache[<<m, f>>]] /\ UNCHANGED bpc
       \/ BGoto(b, "abort") /\ UNCHANGED staged
    /\ UNCHANGED <<mrev, left, repo, old>>

\* copy_verified_artifact reads the cache's file as it is now and keeps it if
\* size and digest are the manifest's; otherwise the build ends.
CopyArtifact(b, m, f) ==
    /\ bpc[b] = "stage" /\ staged[b][m] # None /\ staged[b][m][f] = None
    /\ \/ /\ cache # None /\ cache[<<m, f>>] = mrev[b]
          /\ staged' = [staged EXCEPT ![b][m][f] = cache[<<m, f>>]] /\ UNCHANGED bpc
       \/ BGoto(b, "abort") /\ UNCHANGED staged
    /\ UNCHANGED <<mrev, left, repo, old>>

BeginPublishing(b) == BGoto(b, "publish") /\ old' = [old EXCEPT ![b] = repo]

\* Fault: a model is published as soon as it is staged itself.
Staged_First(b, clean) ==
    /\ bpc[b] = "stage"
    /\ \E m \in Models : WholeIn(b, m)
    /\ left' = [left EXCEPT ![b] = SetToSeq(Models)]
    /\ IF clean THEN BGoto(b, "clean") /\ UNCHANGED old ELSE BeginPublishing(b)
    /\ UNCHANGED <<mrev, staged, repo>>

\* Every required file of every model is there: --clean or not, go on.
Staged(b, clean) ==
    /\ bpc[b] = "stage" /\ \A m \in Models : WholeIn(b, m)
    /\ left' = [left EXCEPT ![b] = SetToSeq(Models)]
    /\ IF clean THEN BGoto(b, "clean") /\ UNCHANGED old ELSE BeginPublishing(b)
    /\ UNCHANGED <<mrev, staged, repo>>

\* rmtree of a model's directory: gone, or part of it left when it raises.
RemoveModel(b, m) ==
    /\ repo[m] # None
    /\ \/ repo' = [repo EXCEPT ![m] = None] /\ UNCHANGED bpc
       \/ /\ \E removed \in SUBSET Parts :
                repo' = [repo EXCEPT ![m] =
                            [f \in Parts |-> IF f \in removed THEN None ELSE repo[m][f]]]
          /\ BGoto(b, "abort")
    /\ UNCHANGED <<mrev, staged, left, old>>

\* --clean: every child but the builder's own staging directory is removed,
\* the staging directories of killed builds among them.
CleanModel(b, m) == bpc[b] = "clean" /\ RemoveModel(b, m)

CleanStaging(b, other) ==
    /\ bpc[b] = "clean" /\ other # b /\ staged[other] # Nothing
    /\ \/ staged' = [staged EXCEPT ![other] = Nothing] /\ UNCHANGED bpc
       \/ BGoto(b, "abort") /\ UNCHANGED staged
    /\ UNCHANGED <<mrev, left, repo, old>>

Cleaned(b) ==
    /\ bpc[b] = "clean" /\ repo = Nothing
    /\ \A other \in Builders \ {b} : staged[other] = Nothing
    /\ BeginPublishing(b)
    /\ UNCHANGED <<mrev, staged, left, repo>>

Replaced(b) == Head(left[b])

\* Fault: all the old models are removed first.
RemoveOld_All(b) ==
    /\ bpc[b] = "publish" /\ \E m \in Range(left[b]) : RemoveModel(b, m)

\* The old model at the target is removed first ...
RemoveOld(b) ==
    /\ bpc[b] = "publish" /\ left[b] # <<>> /\ RemoveModel(b, Replaced(b))

\* Fault: a rename that fails is skipped.
Put_Skips(b) ==
    /\ bpc[b] = "publish" /\ left[b] # <<>>
    /\ LET m == Replaced(b) IN
       /\ repo[m] = None
       /\ \/ /\ staged[b][m] # None
             /\ repo' = [repo EXCEPT ![m] = staged[b][m]]
             /\ staged' = [staged EXCEPT ![b][m] = None]
          \/ UNCHANGED <<staged, repo>>
       /\ left' = [left EXCEPT ![b] = Tail(@)]
    /\ UNCHANGED <<bpc, mrev, old>>

\* ... then the staged one is renamed to it.
Put(b) ==
    /\ bpc[b] = "publish" /\ left[b] # <<>>
    /\ LET m == Replaced(b) IN
       /\ repo[m] = None
       /\ \/ /\ staged[b][m] # None
             /\ repo' = [repo EXCEPT ![m] = staged[b][m]]
             /\ staged' = [staged EXCEPT ![b][m] = None]
             /\ left' = [left EXCEPT ![b] = Tail(@)] /\ UNCHANGED bpc
          \/ BGoto(b, "abort") /\ UNCHANGED <<staged, left, repo>>
    /\ UNCHANGED <<mrev, old>>

\* finally: the staging directory goes, and the exit status is set.
End(b) ==
    /\ \/ bpc[b] = "abort" /\ BGoto(b, "failed")
       \/ bpc[b] = "publish" /\ left[b] = <<>> /\ BGoto(b, "built")
    /\ staged' = [staged EXCEPT ![b] = Nothing] /\ left' = [left EXCEPT ![b] = <<>>]
    /\ UNCHANGED <<mrev, repo, old>>

KillBuild(b) ==
    /\ ~Idle(b)
    /\ BGoto(b, "killed")
    /\ UNCHANGED <<mrev, staged, left, repo, old>>

BuildNext ==
    \E b \in Builders :
        \/ Prepare(b) \/ Cleaned(b) \/ RemoveOld(b) \/ Put(b) \/ End(b) \/ KillBuild(b)
        \/ \E m \in Models : CopySource(b, m) \/ CleanModel(b, m)
        \/ \E m \in Models, f \in Parts : CopyArtifact(b, m, f)
        \/ \E clean \in BOOLEAN : Staged(b, clean)
        \/ \E other \in Builders : CleanStaging(b, other)

----------------------------------------------------------------------------

\* What comes into the repository is a whole model with the contents that the
\* builder's manifest pins, even if the cache was replaced during the build.
OnlyVerifiedModelsAdded ==
    [][\A m \in Models :
          (repo'[m] # None /\ \E f \in Parts : repo'[m][f] # None
                               /\ (repo[m] = None \/ repo[m][f] # repo'[m][f]))
              => \E b \in Builders : repo'[m] = Built(mrev[b])]_repo

\* From the first removal to the last rename, a builder has every model of its
\* manifest, verified, in the repository or still in its staging directory,
\* which only its end takes away (build.sh:299-316).
EveryModelAtHand ==
    \A b \in Builders : bpc[b] \in {"clean", "publish"} =>
        \A m \in Models : Built(mrev[b]) \in {repo[m], staged[b][m]}

\* A build that fails or is killed while it publishes has cost at most the one
\* model that it was replacing: of any two models one at least is what it was,
\* or the manifest's (build.sh:307-321).  If it reports success, all are the
\* manifest's.  With --clean it begins to publish when the repository is empty,
\* and nothing is said of a build that fails while it empties it.
OneModelAtRisk ==
    \A b \in Builders : old[b] # None =>
        /\ \A m, n \in Models : m # n =>
              \E k \in {m, n} : repo[k] \in {old[b][k], Built(mrev[b])}
        /\ bpc[b] = "built" => \A m \in Models : repo[m] = Built(mrev[b])

\* docs/model-artifacts.md:63: the temporary repository is published
\* atomically, so only whole repositories are ever seen.
RepositoryIsAtomic ==
    repo = Nothing \/ \E v \in Revs : repo = [m \in Models |-> Built(v)]

============================================================================
