----------------------- MODULE ArtifactPipelineProofs -----------------------
(***************************************************************************)
(* Theorems about the artifact fetcher, for every number of processes,     *)
(* runs, files and manifest revisions, and about the model repository      *)
(* build, for all sets of builders, models and artifacts, whatever the     *)
(* fetchers do to the cache meanwhile.                                     *)
(***************************************************************************)
EXTENDS ArtifactPipeline, FiniteSetTheorems, TLAPS

(***************************************************************************)
(* FetchArtifacts                                                          *)
(***************************************************************************)

\* What a process has in its staging directory, and in its backup while it is
\* publishing.
ProcessInv(p) ==
    /\ fpc[p] = "fetch" =>
           staging[p] \in [files : [Files -> {rev[p], Absent}], receipt : {Absent}]
    /\ fpc[p] \in {"look", "place", "move_out", "move_in"} => staging[p] = Complete(rev[p])
    /\ fpc[p] \in {"move_in", "restore", "drop"} => IsComplete(backup[p])

TreeInv == FetchTypeOK /\ OutputIsVerified /\ \A p \in Pids : ProcessInv(p)

\* A backup that is being dropped does not count: its owner has published, and
\* what it published may be in another process's backup by now.
CacheInv ==
    published => output # Absent \/ \E p \in Pids : fpc[p] # "drop" /\ IsComplete(backup[p])

\* Without a kill, whoever has the only tree in its backup will put it back.
OutageInv ==
    published /\ ~killed =>
        output # Absent \/ \E p \in Pids : fpc[p] \in {"move_in", "restore"}

----------------------------------------------------------------------------

LEMMA CompleteTyped ==
  ASSUME NEW v \in Revisions
  PROVE  /\ Complete(v) \in TreeType
         /\ Complete(v) \in [files : [Files -> Revisions], receipt : Revisions]
         /\ IsComplete(Complete(v))
  BY DEF Complete, Tree, TreeType, IsComplete

LEMMA CompleteIsATree ==
  ASSUME NEW tree, IsComplete(tree)
  PROVE  /\ tree \in TreeType /\ tree # Absent
         /\ tree \in [files : [Files -> Revisions], receipt : Revisions]
  BY CompleteTyped, TreeAssumption DEF IsComplete

LEMMA FetchInitTree == FetchInit => TreeInv /\ CacheInv /\ OutageInv
<1> SUFFICES ASSUME FetchInit PROVE TreeInv /\ CacheInv /\ OutageInv
    OBVIOUS
<1>1. FetchTypeOK
    <2>1. runs \in 0..MaxRuns
        BY FetchAssumption DEF FetchInit
    <2> QED BY <2>1 DEF FetchInit, FetchTypeOK
<1>2. ASSUME NEW p \in Pids PROVE ProcessInv(p)
    <2>1. fpc[p] = "none"
        BY DEF FetchInit
    <2> QED BY <2>1 DEF ProcessInv
<1> QED BY <1>1, <1>2 DEF FetchInit, TreeInv, OutputIsVerified, CacheInv, OutageInv

\* A step of one process leaves the others' part of the invariant alone.
LEMMA OthersKeep ==
  ASSUME NEW p \in Pids, NEW q \in Pids \ {p}, ProcessInv(q),
         fpc'[q] = fpc[q], rev'[q] = rev[q], staging'[q] = staging[q], backup'[q] = backup[q]
  PROVE  ProcessInv(q)'
  BY DEF ProcessInv

----------------------------------------------------------------------------
(* Up to the receipt nothing is published.                                  *)

LEMMA StartKeepsTree ==
  ASSUME TreeInv, NEW p \in Pids, Start(p)
  PROVE  TreeInv'
<1>1. PICK v \in Revisions : rev' = [rev EXCEPT ![p] = v]
    BY DEF Start
<1>2. /\ fpc' = [fpc EXCEPT ![p] = "fetch"] /\ staging' = [staging EXCEPT ![p] = Empty]
      /\ runs < MaxRuns /\ runs' = runs + 1 /\ UNCHANGED <<backup, output, published, killed>>
    BY DEF Start, Goto
<1>3. /\ Empty \in TreeType
      /\ Empty \in [files : [Files -> {v, Absent}], receipt : {Absent}]
    BY DEF Empty, Tree, TreeType
<1>4. FetchTypeOK'
    BY <1>1, <1>2, <1>3, FetchAssumption DEF TreeInv, FetchTypeOK
<1>5. ProcessInv(p)'
    BY <1>1, <1>2, <1>3 DEF TreeInv, FetchTypeOK, ProcessInv
<1>6. ASSUME NEW q \in Pids \ {p} PROVE ProcessInv(q)'
    BY <1>1, <1>2, OthersKeep DEF TreeInv, FetchTypeOK
<1> QED BY <1>2, <1>4, <1>5, <1>6 DEF TreeInv, OutputIsVerified

LEMMA FetchKeepsTree ==
  ASSUME TreeInv, NEW p \in Pids, NEW f \in Files, NEW content, Fetch(p, f, content)
  PROVE  TreeInv'
<1>1. fpc[p] = "fetch" /\ UNCHANGED <<rev, backup, output, runs, published, killed>>
    BY DEF Fetch
<1>2. CASE fpc' = [fpc EXCEPT ![p] = "clean"] /\ UNCHANGED staging
    <2>1. FetchTypeOK'
        BY <1>1, <1>2 DEF TreeInv, FetchTypeOK
    <2>2. ProcessInv(p)'
        BY <1>1, <1>2 DEF TreeInv, FetchTypeOK, ProcessInv
    <2>3. ASSUME NEW q \in Pids \ {p} PROVE ProcessInv(q)'
        BY <1>1, <1>2, OthersKeep DEF TreeInv, FetchTypeOK
    <2> QED BY <1>1, <2>1, <2>2, <2>3 DEF TreeInv, OutputIsVerified
<1>3. CASE /\ content = rev[p] /\ UNCHANGED fpc
           /\ staging' = [staging EXCEPT ![p].files[f] = content]
    <2>1. staging[p] \in [files : [Files -> {rev[p], Absent}], receipt : {Absent}]
        BY <1>1 DEF TreeInv, ProcessInv
    <2>2. /\ staging'[p] \in [files : [Files -> {rev[p], Absent}], receipt : {Absent}]
          /\ \A q \in Pids \ {p} : staging'[q] = staging[q]
        BY <1>3, <2>1 DEF TreeInv, FetchTypeOK
    <2>3. staging'[p] \in TreeType /\ rev[p] \in Revisions
        BY <2>2 DEF TreeInv, FetchTypeOK, TreeType
    <2>4. staging' \in [Pids -> TreeType \cup {Absent}]
        BY <1>3, <2>2, <2>3 DEF TreeInv, FetchTypeOK
    <2>5. FetchTypeOK'
        BY <1>1, <1>3, <2>4 DEF TreeInv, FetchTypeOK
    <2>6. ProcessInv(p)'
        BY <1>1, <1>3, <2>2 DEF TreeInv, ProcessInv
    <2>7. ASSUME NEW q \in Pids \ {p} PROVE ProcessInv(q)'
        BY <1>1, <1>3, <2>2, OthersKeep DEF TreeInv
    <2> QED BY <1>1, <2>5, <2>6, <2>7 DEF TreeInv, OutputIsVerified
<1> QED BY <1>2, <1>3 DEF Fetch, Goto

LEMMA WriteReceiptKeepsTree ==
  ASSUME TreeInv, NEW p \in Pids, WriteReceipt(p)
  PROVE  TreeInv'
<1>1. /\ fpc[p] = "fetch" /\ fpc' = [fpc EXCEPT ![p] = "look"]
      /\ staging' = [staging EXCEPT ![p].receipt = rev[p]]
      /\ UNCHANGED <<rev, backup, output, runs, published, killed>>
    BY DEF WriteReceipt, Goto
<1>2. /\ staging[p] \in [files : [Files -> {rev[p], Absent}], receipt : {Absent}]
      /\ \A f \in Files : staging[p].files[f] = rev[p]
    BY <1>1 DEF TreeInv, ProcessInv, WriteReceipt
<1>3. staging[p].files = [f \in Files |-> rev[p]]
    BY <1>2
<1>4. /\ staging'[p] = Complete(rev[p]) /\ rev[p] \in Revisions
      /\ \A q \in Pids \ {p} : staging'[q] = staging[q]
    BY <1>1, <1>2, <1>3 DEF Complete, Tree, TreeInv, FetchTypeOK
<1>5. staging' \in [Pids -> TreeType \cup {Absent}]
    BY <1>1, <1>4, CompleteTyped DEF TreeInv, FetchTypeOK
<1>6. FetchTypeOK'
    BY <1>1, <1>5 DEF TreeInv, FetchTypeOK
<1>7. ProcessInv(p)'
    BY <1>1, <1>4 DEF TreeInv, FetchTypeOK, ProcessInv
<1>8. ASSUME NEW q \in Pids \ {p} PROVE ProcessInv(q)'
    BY <1>1, <1>4, OthersKeep DEF TreeInv, FetchTypeOK
<1> QED BY <1>1, <1>6, <1>7, <1>8 DEF TreeInv, OutputIsVerified

----------------------------------------------------------------------------
(* Publication.                                                             *)

\* A step that only decides where p goes on, and where p needs no tree.
LEMMA GoKeepsTree ==
  ASSUME TreeInv, NEW p \in Pids, NEW phase, Goto(p, phase),
         phase \in {"clean", "place", "move_out", "restore", "ok", "failed", "killed"},
         phase \in {"place", "move_out"} => fpc[p] = "look",
         phase = "restore" => fpc[p] = "move_in",
         UNCHANGED <<rev, staging, backup, output, runs>>,
         published' \in BOOLEAN, killed' \in BOOLEAN
  PROVE  TreeInv'
<1>1. FetchTypeOK'
    BY DEF TreeInv, FetchTypeOK, Goto
<1>2. ProcessInv(p)'
    BY DEF TreeInv, FetchTypeOK, ProcessInv, Goto
<1>3. ASSUME NEW q \in Pids \ {p} PROVE ProcessInv(q)'
    BY OthersKeep DEF TreeInv, FetchTypeOK, Goto
<1> QED BY <1>1, <1>2, <1>3 DEF TreeInv, OutputIsVerified

\* A step changes no backup but p's.
OwnBackup(p) ==
    /\ backup' \in [Pids -> TreeType \cup {Absent}]
    /\ \A q \in Pids \ {p} : backup'[q] = backup[q]

\* A step that also changes p's directories or the output, to nothing or to
\* complete trees.
LEMMA MoveKeepsTree ==
  ASSUME TreeInv, NEW p \in Pids, NEW phase, Goto(p, phase),
         phase \in {"move_in", "clean", "done", "drop", "ok", "failed"},
         staging' \in {staging, [staging EXCEPT ![p] = Absent]},
         phase = "move_in" => staging' = staging,
         OwnBackup(p),
         phase \in {"move_in", "drop"} => IsComplete(backup'[p]),
         phase = "move_in" => fpc[p] = "move_out",
         output' = Absent \/ IsComplete(output'),
         UNCHANGED <<rev, runs, killed>>, published' \in BOOLEAN
  PROVE  TreeInv'
<1>1. /\ staging' \in [Pids -> TreeType \cup {Absent}] /\ backup' \in [Pids -> TreeType \cup {Absent}]
      /\ \A q \in Pids \ {p} : staging'[q] = staging[q] /\ backup'[q] = backup[q]
      /\ phase = "move_in" => staging'[p] = staging[p]
    BY DEF TreeInv, FetchTypeOK, OwnBackup
<1>2. output' \in [files : [Files -> Revisions], receipt : Revisions] \cup {Absent}
    BY CompleteIsATree
<1>3. FetchTypeOK'
    BY <1>1, <1>2 DEF TreeInv, FetchTypeOK, Goto
<1>4. ProcessInv(p)'
    BY <1>1 DEF TreeInv, FetchTypeOK, ProcessInv, Goto
<1>5. ASSUME NEW q \in Pids \ {p} PROVE ProcessInv(q)'
    BY <1>1, OthersKeep DEF TreeInv, FetchTypeOK, Goto
<1> QED BY <1>3, <1>4, <1>5 DEF TreeInv, OutputIsVerified

LEMMA PublicationKeepsTree ==
  ASSUME TreeInv, NEW p \in Pids,
         \/ Look(p) \/ Place(p) \/ MoveOut(p) \/ MoveIn(p) \/ Restore(p)
         \/ DropBackup(p) \/ Clean(p) \/ Kill(p)
  PROVE  TreeInv'
<1>0. output = Absent \/ IsComplete(output)
    BY DEF TreeInv, OutputIsVerified
<1>1. CASE Look(p)
    <2>1. PICK phase \in {"place", "clean", "move_out"} : Goto(p, phase)
        BY <1>1 DEF Look
    <2> QED BY <1>1, <2>1, GoKeepsTree DEF Look, TreeInv, FetchTypeOK
<1>2. CASE Place(p)
    <2>1. CASE Move(p) /\ Goto(p, "done")
        <3>1. IsComplete(staging[p])
            BY <1>2, CompleteTyped DEF Place, TreeInv, FetchTypeOK, ProcessInv
        <3> QED BY <1>2, <2>1, <3>1, MoveKeepsTree DEF Place, Move, OwnBackup, TreeInv, FetchTypeOK
    <2>2. CASE Goto(p, "clean") /\ UNCHANGED <<staging, output, published>>
        BY <1>2, <2>2, GoKeepsTree DEF Place, TreeInv, FetchTypeOK
    <2> QED BY <1>2, <2>1, <2>2 DEF Place
<1>3. CASE MoveOut(p)
    <2>1. CASE /\ output # Absent /\ backup' = [backup EXCEPT ![p] = output] /\ output' = Absent
               /\ Goto(p, "move_in")
        <3>1. backup'[p] = output /\ output \in TreeType
            BY <1>0, <2>1, CompleteIsATree DEF TreeInv, FetchTypeOK
        <3>2. OwnBackup(p)
            BY <2>1, <3>1 DEF TreeInv, FetchTypeOK, OwnBackup
        <3>3. /\ fpc[p] = "move_out" /\ IsComplete(backup'[p]) /\ published' \in BOOLEAN
              /\ UNCHANGED <<rev, staging, runs, killed>>
            BY <1>0, <1>3, <2>1, <3>1 DEF MoveOut, TreeInv, FetchTypeOK
        <3> QED BY <2>1, <3>2, <3>3, MoveKeepsTree
    <2>2. CASE Goto(p, "clean") /\ UNCHANGED <<backup, output>>
        BY <1>3, <2>2, GoKeepsTree DEF MoveOut, TreeInv, FetchTypeOK
    <2> QED BY <1>3, <2>1, <2>2 DEF MoveOut
<1>4. CASE MoveIn(p)
    <2>1. CASE Move(p) /\ Goto(p, "drop")
        <3>1. IsComplete(staging[p])
            BY <1>4, CompleteTyped DEF MoveIn, TreeInv, FetchTypeOK, ProcessInv
        <3>2. IsComplete(backup[p])
            BY <1>4 DEF MoveIn, TreeInv, ProcessInv
        <3> QED BY <1>4, <2>1, <3>1, <3>2, MoveKeepsTree DEF MoveIn, Move, OwnBackup, TreeInv, FetchTypeOK
    <2>2. CASE Goto(p, "restore") /\ UNCHANGED <<staging, output, published>>
        BY <1>4, <2>2, GoKeepsTree DEF MoveIn, TreeInv, FetchTypeOK
    <2> QED BY <1>4, <2>1, <2>2 DEF MoveIn
<1>5. CASE Restore(p)
    <2>1. IsComplete(backup[p]) /\ Goto(p, "clean")
        BY <1>5 DEF Restore, TreeInv, ProcessInv
    <2>2. OwnBackup(p)
        BY <1>5 DEF Restore, TreeInv, FetchTypeOK, OwnBackup
    <2>3. output' = Absent \/ IsComplete(output')
        BY <1>0, <1>5, <2>1 DEF Restore
    <2>4. published' \in BOOLEAN /\ UNCHANGED <<rev, staging, runs, killed>>
        BY <1>5 DEF Restore, TreeInv, FetchTypeOK
    <2> QED BY <2>1, <2>2, <2>3, <2>4, MoveKeepsTree
<1>6. CASE DropBackup(p)
    <2>1. PICK phase \in {"done", "clean"} : Goto(p, phase)
        BY <1>6 DEF DropBackup
    <2>2. OwnBackup(p)
        <3>1. backup \in [Pids -> TreeType \cup {Absent}]
            BY DEF TreeInv, FetchTypeOK
        <3>2. IsComplete(backup[p])
            BY <1>6 DEF DropBackup, TreeInv, ProcessInv
        <3>3. backup[p] \in TreeType /\ [backup[p] EXCEPT !.receipt = Absent] \in TreeType
            BY <3>2, CompleteIsATree DEF TreeType
        <3> QED BY <1>6, <3>1, <3>3 DEF DropBackup, OwnBackup
    <2>3. published' \in BOOLEAN /\ UNCHANGED <<rev, staging, output, runs, killed>>
        BY <1>6 DEF DropBackup, TreeInv, FetchTypeOK
    <2> QED BY <1>0, <2>1, <2>2, <2>3, MoveKeepsTree
<1>7. CASE Clean(p)
    <2>1. PICK phase \in {"ok", "failed"} : Goto(p, phase)
        BY <1>7 DEF Clean
    <2> QED BY <1>0, <1>7, <2>1, MoveKeepsTree DEF Clean, OwnBackup, TreeInv, FetchTypeOK
<1>8. CASE Kill(p)
    BY <1>8, GoKeepsTree DEF Kill, TreeInv, FetchTypeOK
<1> QED BY <1>1, <1>2, <1>3, <1>4, <1>5, <1>6, <1>7, <1>8

LEMMA StepKeepsTree ==
  ASSUME TreeInv, NEW p \in Pids, Start(p) \/ FetchStep(p) \/ Kill(p)
  PROVE  TreeInv'
  BY StartKeepsTree, FetchKeepsTree, WriteReceiptKeepsTree, PublicationKeepsTree DEF FetchStep

----------------------------------------------------------------------------
(* Where the published tree is.                                             *)

\* A step that moves no tree, and not away from a backup to be restored.
LEMMA QuietKeepsCache ==
  ASSUME TreeInv, CacheInv, OutageInv, NEW p \in Pids, NEW phase, Goto(p, phase),
         phase # "drop", fpc[p] \in {"move_in", "restore"} => phase = "restore" \/ killed',
         ~killed' => ~killed, UNCHANGED <<backup, output, published>>
  PROVE  CacheInv' /\ OutageInv'
<1>1. /\ fpc'[p] = phase /\ \A q \in Pids \ {p} : fpc'[q] = fpc[q]
    BY DEF Goto, TreeInv, FetchTypeOK
<1>2. CacheInv'
    BY <1>1 DEF CacheInv
<1>3. OutageInv'
    BY <1>1 DEF OutageInv
<1> QED BY <1>2, <1>3

\* A step that puts a tree at the output path.
LEMMA MoveKeepsCache ==
  ASSUME NEW tree, IsComplete(tree), output' = tree
  PROVE  CacheInv' /\ OutageInv'
  BY CompleteIsATree DEF CacheInv, OutageInv

LEMMA BeforePublicationKeepsCache ==
  ASSUME TreeInv, CacheInv, OutageInv, NEW p \in Pids,
         \/ Start(p) \/ (\E f \in Files, content \in Revisions \cup {Corrupt} : Fetch(p, f, content))
         \/ WriteReceipt(p) \/ Look(p) \/ Clean(p) \/ Kill(p)
  PROVE  CacheInv' /\ OutageInv'
<1>1. CASE Start(p) \/ WriteReceipt(p) \/ Look(p) \/ Clean(p)
    <2>1. PICK phase \in {"fetch", "look", "place", "clean", "move_out", "ok", "failed"} : Goto(p, phase)
        BY <1>1 DEF Start, WriteReceipt, Look, Clean
    <2>2. fpc[p] \notin {"move_in", "restore"} /\ UNCHANGED <<backup, output, published, killed>>
        BY <1>1 DEF Start, WriteReceipt, Look, Clean
    <2> QED BY <2>1, <2>2, QuietKeepsCache
<1>2. ASSUME NEW f \in Files, NEW content \in Revisions \cup {Corrupt}, Fetch(p, f, content)
      PROVE  CacheInv' /\ OutageInv'
    <2>1. fpc[p] = "fetch" /\ UNCHANGED <<backup, output, published, killed>>
        BY <1>2 DEF Fetch
    <2>2. fpc' = fpc \/ Goto(p, "clean")
        BY <1>2 DEF Fetch
    <2>3. CASE fpc' = fpc
        BY <2>1, <2>3 DEF CacheInv, OutageInv
    <2>4. CASE Goto(p, "clean")
        BY <2>1, <2>4, QuietKeepsCache
    <2> QED BY <2>2, <2>3, <2>4
<1>3. CASE Kill(p)
    BY <1>3, QuietKeepsCache DEF Kill
<1> QED BY <1>1, <1>2, <1>3

LEMMA PublicationKeepsCache ==
  ASSUME TreeInv, CacheInv, OutageInv, NEW p \in Pids,
         Place(p) \/ MoveOut(p) \/ MoveIn(p) \/ Restore(p) \/ DropBackup(p)
  PROVE  CacheInv' /\ OutageInv'
<1>1. fpc[p] \in {"place", "move_in"} => IsComplete(staging[p])
    BY CompleteTyped DEF TreeInv, FetchTypeOK, ProcessInv
<1>2. CASE Place(p)
    <2>1. CASE Move(p)
        BY <1>1, <1>2, <2>1, MoveKeepsCache DEF Move, Place
    <2>2. CASE Goto(p, "clean") /\ UNCHANGED <<staging, output, published>>
        BY <1>2, <2>2, QuietKeepsCache DEF Place
    <2> QED BY <1>2, <2>1, <2>2 DEF Place
<1>3. CASE MoveOut(p)
    <2>1. CASE output # Absent /\ backup' = [backup EXCEPT ![p] = output] /\ Goto(p, "move_in")
        <3>1. fpc'[p] = "move_in" /\ backup'[p] = output /\ IsComplete(output)
            BY <2>1 DEF Goto, TreeInv, FetchTypeOK, OutputIsVerified
        <3> QED BY <3>1 DEF CacheInv, OutageInv
    <2>2. CASE Goto(p, "clean") /\ UNCHANGED <<backup, output>>
        BY <1>3, <2>2, QuietKeepsCache DEF MoveOut
    <2> QED BY <1>3, <2>1, <2>2 DEF MoveOut
<1>4. CASE MoveIn(p)
    <2>1. CASE Move(p)
        BY <1>1, <1>4, <2>1, MoveKeepsCache DEF Move, MoveIn
    <2>2. CASE Goto(p, "restore") /\ UNCHANGED <<staging, output, published>>
        BY <1>4, <2>2, QuietKeepsCache DEF MoveIn
    <2> QED BY <1>4, <2>1, <2>2 DEF MoveIn
<1>5. CASE Restore(p)
    <2>1. CASE output = Absent
        <3>1. output' = backup[p] /\ IsComplete(backup[p])
            BY <1>5, <2>1 DEF Restore, TreeInv, ProcessInv
        <3> QED BY <3>1, MoveKeepsCache
    <2>2. CASE output # Absent
        BY <1>5, <2>2 DEF Restore, CacheInv, OutageInv
    <2> QED BY <2>1, <2>2
<1>6. CASE DropBackup(p)
    <2>1. /\ fpc[p] = "drop" /\ UNCHANGED <<output, published, killed>>
          /\ \A q \in Pids \ {p} : fpc'[q] = fpc[q] /\ backup'[q] = backup[q]
        BY <1>6 DEF DropBackup, Goto, TreeInv, FetchTypeOK
    <2> QED BY <2>1 DEF CacheInv, OutageInv
<1> QED BY <1>2, <1>3, <1>4, <1>5, <1>6

\* The invariant is inductive.
THEOREM FetchInvariant == FetchSpec => [](TreeInv /\ CacheInv /\ OutageInv)
<1>1. ASSUME TreeInv, CacheInv, OutageInv, [FetchNext]_fetchVars
      PROVE  (TreeInv /\ CacheInv /\ OutageInv)'
    <2>1. CASE UNCHANGED fetchVars
        BY <1>1, <2>1 DEF fetchVars, TreeInv, CacheInv, OutageInv, FetchTypeOK, OutputIsVerified,
                          ProcessInv
    <2>2. ASSUME NEW p \in Pids, Start(p) \/ FetchStep(p) \/ Kill(p)
          PROVE  (TreeInv /\ CacheInv /\ OutageInv)'
        BY <1>1, <2>2, StepKeepsTree, BeforePublicationKeepsCache, PublicationKeepsCache DEF FetchStep
    <2> QED BY <1>1, <2>1, <2>2 DEF FetchNext
<1> QED BY <1>1, FetchInitTree, PTL DEF FetchSpec

----------------------------------------------------------------------------

\* Only complete, verified trees of one revision are ever at the output path,
\* whichever processes race, fail or are killed (fetch_artifacts.py:370-449).
THEOREM OnlyVerifiedOutput == FetchSpec => []OutputIsVerified
<1>1. TreeInv => OutputIsVerified
    BY DEF TreeInv
<1> QED BY <1>1, FetchInvariant, PTL

\* A published tree is never lost: it is replaced, or it is in a backup
\* (fetch_artifacts.py:378-389).
THEOREM PublishedTreeSurvives == FetchSpec => []CacheSurvives
<1>1. TreeInv /\ CacheInv => CacheSurvives
    BY CompleteIsATree DEF TreeInv, CacheInv, CacheSurvives
<1> QED BY <1>1, FetchInvariant, PTL

\* Failures alone, in any number and order, leave a tree at the output path
\* (fetch_artifacts.py:382-389, 442-449).
THEOREM ErrorsLeaveOutput == FetchSpec => []NoOutageAfterErrors
<1>1. OutageInv => NoOutageAfterErrors
    BY DEF OutageInv, NoOutageAfterErrors
<1> QED BY <1>1, FetchInvariant, PTL

(***************************************************************************)
(* The pipeline: builders only read what the fetchers publish.             *)
(***************************************************************************)

\* Every step of the pipeline is one of the fetchers, or leaves their state
\* alone: build.sh opens the cache for reading only (build.sh:140-175).
THEOREM PipelineFetches == Spec => FetchSpec
<1>1. [Next]_<<fetchVars, bpc, mrev, staged, left, repo, old>> => [FetchNext]_fetchVars
    BY DEF Next
<1> QED BY <1>1, PTL DEF Spec, Init, FetchSpec

\* So what holds of the fetchers alone holds with any number of builds at work.
THEOREM CacheSafeInPipeline ==
    Spec => [](OutputIsVerified /\ CacheSurvives /\ NoOutageAfterErrors)
BY PipelineFetches, OnlyVerifiedOutput, PublishedTreeSurvives, ErrorsLeaveOutput, PTL

(***************************************************************************)
(* BuildRepository                                                         *)
(***************************************************************************)

buildVars == <<bpc, mrev, staged, left, repo, old>>
vars == <<fetchVars, bpc, mrev, staged, left, repo, old>>

\* A model directory: contents by part, some of them missing.
Directory == [Parts -> Revisions \cup {Absent}]

BuildTypes ==
    /\ bpc \in [Builders -> {"none", "stage", "clean", "publish", "abort", "built", "failed",
                             "killed"}]
    /\ mrev \in [Builders -> Revisions]
    /\ staged \in [Builders -> [Models -> Directory \cup {Absent}]]
    /\ left \in [Builders -> Seq(Models)]
    /\ repo \in [Models -> Directory \cup {Absent}]

\* No two builds at a time.
OneBuild == \A b, c \in Builders : b = c \/ Idle(b) \/ Idle(c)

\* What is staged is what the manifest pins, or missing.
Pinned(b) ==
    \A m \in Models : staged[b][m] # Absent =>
        \A f \in Parts : staged[b][m][f] \in {mrev[b], Absent}

Pending(b) == {left[b][i] : i \in 1..Len(left[b])}

\* From the first removal on, the models to come are staged, each once, and the
\* others are published.
Published(b) ==
    bpc[b] \in {"clean", "publish"} =>
        /\ \A i, j \in 1..Len(left[b]) : left[b][i] = left[b][j] => i = j
        /\ bpc[b] = "clean" => Pending(b) = Models
        /\ \A m \in Models :
              IF m \in Pending(b) THEN staged[b][m] = Built(mrev[b])
                                  ELSE repo[m] = Built(mrev[b])

BuildInv ==
    BuildTypes /\ OneBuild /\ \A b \in Builders : Pinned(b) /\ Published(b)

----------------------------------------------------------------------------

\* A whole model is a directory.
LEMMA BuiltTyped == ASSUME NEW v \in Revisions PROVE Built(v) \in Directory
BY DEF Built, Directory

\* So is an empty repository, or an empty staging directory, of directories.
LEMMA NothingTyped == Nothing \in [Models -> Directory \cup {Absent}]
BY DEF Nothing

\* The initial repository is empty or has the models of one revision.
LEMMA InitBuildInv == BuildInit => BuildInv
<1> SUFFICES ASSUME BuildInit PROVE BuildInv
  OBVIOUS
<1>1. repo \in [Models -> Directory \cup {Absent}]
  BY BuiltTyped DEF BuildInit, Nothing
<1>2. BuildTypes
  BY <1>1 DEF BuildInit, BuildTypes, Nothing
<1> QED
  BY <1>2 DEF BuildInit, BuildInv, OneBuild, Idle, Pinned, Published, Nothing

\* The order of publication names every model once.
LEMMA EachModelOnce ==
    /\ SetToSeq(Models) \in Seq(Models)
    /\ \A m \in Models : \E i \in 1..Len(SetToSeq(Models)) : SetToSeq(Models)[i] = m
    /\ \A i, j \in 1..Len(SetToSeq(Models)) :
          SetToSeq(Models)[i] = SetToSeq(Models)[j] => i = j
<1> DEFINE n == Cardinality(Models)
           order == SetToSeq(Models)
<1>1. n \in Nat /\ ExistsBijection(1..n, Models)
  BY PipelineAssumption, FS_CardinalityType
<1>2. \E g \in [1..n -> Models] : IsInjective(g)
  BY <1>1 DEF ExistsBijection, Bijection, Injection
<1>3. order \in [1..n -> Models] /\ IsInjective(order)
  BY <1>2 DEF SetToSeq
<1>4. Cardinality(1..n) = n
  BY <1>1, FS_Interval
<1>5. order \in Surjection(1..n, Models)
  <2>1. order \in Injection(1..n, Models)
    BY <1>3 DEF Injection
  <2> HIDE DEF n, order
  <2> QED
    BY <1>4, <2>1, PipelineAssumption, FS_Injection DEF n
<1>6. order \in Seq(Models) /\ Len(order) = n
  BY <1>1, <1>3
<1> QED
  BY <1>3, <1>5, <1>6 DEF IsInjective, Surjection

\* A step of builder b that leaves the repository alone, and the staging
\* directories of the builders at work.
LEMMA OthersKept ==
    ASSUME BuildInv, NEW b \in Builders, ~Idle(b) \/ \A c \in Builders : Idle(c),
           BuildTypes', Pinned(b)', Published(b)', mrev' = mrev,
           \A c \in Builders : c # b => bpc'[c] = bpc[c]
                                        /\ staged'[c] \in {staged[c], Nothing}
    PROVE  BuildInv'
<1>1. ASSUME NEW c \in Builders, c # b PROVE Idle(c) /\ Idle(c)' /\ Pinned(c)' /\ Published(c)'
  <2>1. Idle(c) /\ bpc'[c] = bpc[c]
    BY <1>1 DEF BuildInv, OneBuild
  <2>2. Pinned(c)'
    BY <1>1 DEF BuildInv, Pinned, Nothing
  <2>3. Idle(c)' /\ Published(c)'
    BY <2>1 DEF Idle, Published
  <2> QED
    BY <2>1, <2>2, <2>3
<1>2. OneBuild'
  BY <1>1 DEF OneBuild
<1> QED
  BY <1>1, <1>2 DEF BuildInv

\* Staging: nothing is published yet.
LEMMA StagingKeepsInv ==
    ASSUME BuildInv, NEW b \in Builders,
           \/ Prepare(b)
           \/ \E m \in Models : CopySource(b, m)
           \/ \E m \in Models, f \in Parts : CopyArtifact(b, m, f)
    PROVE  BuildInv'
<1>0. BuildTypes /\ Pinned(b) /\ UNCHANGED <<mrev, left, repo>>
  BY DEF BuildInv, Prepare, CopySource, CopyArtifact
<1>1. /\ ~Idle(b) \/ \A c \in Builders : Idle(c)
      /\ bpc'[b] \in {"stage", "abort"} /\ bpc' = [bpc EXCEPT ![b] = bpc'[b]]
      /\ \A c \in Builders : c # b => bpc'[c] = bpc[c] /\ staged'[c] = staged[c]
  BY <1>0 DEF BuildTypes, Prepare, CopySource, CopyArtifact, BGoto, Idle
<1>2. BuildTypes' /\ Pinned(b)'
  <2>1. CASE Prepare(b) \/ UNCHANGED staged
    BY <1>0, <1>1, <2>1 DEF BuildTypes, Pinned, Prepare
  <2>2. ASSUME NEW m \in Models,
               staged' = [staged EXCEPT ![b][m] = [f \in Parts |-> Absent]]
        PROVE  BuildTypes' /\ Pinned(b)'
    <3>1. staged' \in [Builders -> [Models -> Directory \cup {Absent}]]
      BY <1>0, <2>2 DEF BuildTypes, Directory
    <3> QED
      BY <1>0, <1>1, <2>2, <3>1 DEF BuildTypes, Pinned
  <2>3. ASSUME NEW m \in Models, NEW f \in Parts, staged[b][m] # Absent,
               staged' = [staged EXCEPT ![b][m][f] = mrev[b]]
        PROVE  BuildTypes' /\ Pinned(b)'
    <3>1. staged[b][m] \in Directory /\ mrev[b] \in Revisions
      BY <1>0, <2>3 DEF BuildTypes
    <3>2. [staged[b][m] EXCEPT ![f] = mrev[b]] \in Directory
      BY <3>1 DEF Directory
    <3>3. staged' \in [Builders -> [Models -> Directory \cup {Absent}]]
      BY <1>0, <2>3, <3>2 DEF BuildTypes
    <3> QED
      BY <1>0, <1>1, <2>3, <3>1, <3>3 DEF BuildTypes, Pinned, Directory
  <2> QED
    BY <2>1, <2>2, <2>3 DEF CopySource, CopyArtifact
<1>3. Published(b)'
  BY <1>1 DEF Published
<1> QED
  BY <1>0, <1>1, <1>2, <1>3, OthersKept

\* The end of staging: every model is whole, so it is what the manifest pins.
LEMMA StagedKeepsInv ==
    ASSUME BuildInv, NEW b \in Builders, NEW clean \in BOOLEAN, Staged(b, clean)
    PROVE  BuildInv'
<1>0. /\ BuildTypes /\ Pinned(b) /\ UNCHANGED <<mrev, staged, repo>>
      /\ bpc[b] = "stage" /\ bpc'[b] \in {"clean", "publish"} /\ ~Idle(b)
      /\ left'[b] = SetToSeq(Models) /\ BuildTypes'
      /\ \A c \in Builders : c # b => bpc'[c] = bpc[c]
  BY EachModelOnce DEF BuildInv, BuildTypes, Staged, BeginPublishing, BGoto, Idle
<1>1. \A m \in Models : staged[b][m] = Built(mrev[b])
  <2> SUFFICES ASSUME NEW m \in Models PROVE staged[b][m] = Built(mrev[b])
    OBVIOUS
  <2>1. staged[b][m] \in Directory /\ \A f \in Parts : staged[b][m][f] = mrev[b]
    BY <1>0 DEF BuildTypes, Pinned, Staged, WholeIn
  <2> QED
    BY <2>1 DEF Directory, Built
<1>2. Pending(b)' = Models
  BY <1>0, EachModelOnce DEF Pending
<1>3. Pinned(b)' /\ Published(b)'
  BY <1>0, <1>1, <1>2, EachModelOnce DEF Pinned, Published
<1> QED
  BY <1>0, <1>3, OthersKept

\* A model that is removed, whole or in part, is one that is still staged, or
\* the build ends.
LEMMA RemovalKeepsInv ==
    ASSUME BuildInv, NEW b \in Builders,
           RemoveOld(b) \/ \E m \in Models : CleanModel(b, m)
    PROVE  BuildInv'
<1>0. BuildTypes /\ Pinned(b) /\ Published(b) /\ UNCHANGED <<mrev, staged, left>>
  BY DEF BuildInv, RemoveOld, CleanModel, RemoveModel
<1>1. PICK m \in Pending(b) : RemoveModel(b, m) /\ bpc[b] \in {"clean", "publish"}
  <2>1. CASE RemoveOld(b)
    <3>1. left[b] \in Seq(Models) /\ left[b] # <<>>
      BY <1>0, <2>1 DEF BuildTypes, RemoveOld
    <3>2. Head(left[b]) \in Pending(b)
      BY <3>1 DEF Pending
    <3> QED
      BY <2>1, <3>2 DEF RemoveOld, Replaced
  <2>2. CASE \E n \in Models : CleanModel(b, n)
    BY <1>0, <2>2 DEF CleanModel, Published
  <2> QED
    BY <2>1, <2>2
<1>2. m \in Models /\ repo[m] \in Directory
  BY <1>0, <1>1 DEF BuildTypes, Pending, RemoveModel
<1>3. BuildTypes'
  <2>1. CASE repo' = [repo EXCEPT ![m] = Absent] /\ UNCHANGED bpc
    BY <1>0, <1>2, <2>1 DEF BuildTypes
  <2>2. ASSUME NEW removed \in SUBSET Parts,
               repo' = [repo EXCEPT ![m] =
                           [f \in Parts |-> IF f \in removed THEN Absent ELSE repo[m][f]]],
               BGoto(b, "abort")
        PROVE  BuildTypes'
    <3>1. [f \in Parts |-> IF f \in removed THEN Absent ELSE repo[m][f]] \in Directory
      BY <1>2 DEF Directory
    <3>2. repo' \in [Models -> Directory \cup {Absent}]
      BY <1>0, <1>2, <2>2, <3>1 DEF BuildTypes
    <3> QED
      BY <1>0, <2>2, <3>2 DEF BuildTypes, BGoto
  <2> QED
    BY <1>1, <2>1, <2>2 DEF RemoveModel
<1>4. /\ ~Idle(b) /\ bpc'[b] \in {bpc[b], "abort"}
      /\ \A c \in Builders : c # b => bpc'[c] = bpc[c]
      /\ \A n \in Models : n # m => repo'[n] = repo[n]
  BY <1>0, <1>1, <1>2 DEF BuildTypes, RemoveModel, BGoto, Idle
<1>5. Pinned(b)' /\ Published(b)'
  BY <1>0, <1>1, <1>4 DEF Pinned, Published, Pending
<1> QED
  BY <1>0, <1>3, <1>4, <1>5, OthersKept

\* --clean removes the staging directories of builders that are gone.
LEMMA CleaningKeepsInv ==
    ASSUME BuildInv, NEW b \in Builders,
           Cleaned(b) \/ \E other \in Builders : CleanStaging(b, other)
    PROVE  BuildInv'
<1>0. /\ BuildTypes /\ Pinned(b) /\ Published(b) /\ UNCHANGED <<mrev, left, repo>>
      /\ bpc[b] = "clean" /\ bpc'[b] \in {"clean", "publish", "abort"} /\ ~Idle(b)
      /\ \A c \in Builders : c # b => bpc'[c] = bpc[c]
  BY DEF BuildInv, BuildTypes, Cleaned, CleanStaging, BeginPublishing, BGoto, Idle
<1>1. staged'[b] = staged[b] /\ \A c \in Builders : c # b => staged'[c] \in {staged[c], Nothing}
  BY <1>0 DEF BuildTypes, Cleaned, CleanStaging
<1>2. BuildTypes'
  <2>1. CASE Cleaned(b)
    BY <1>0, <2>1 DEF BuildTypes, Cleaned, BeginPublishing, BGoto
  <2>2. ASSUME NEW other \in Builders, CleanStaging(b, other) PROVE BuildTypes'
    BY <1>0, <2>2, NothingTyped DEF BuildTypes, CleanStaging, BGoto
  <2> QED
    BY <2>1, <2>2
<1>3. Pinned(b)' /\ Published(b)'
  BY <1>0, <1>1 DEF Pinned, Published, Pending
<1> QED
  BY <1>0, <1>1, <1>2, <1>3, OthersKept

\* A rename publishes the next model as it was staged, or the build ends.
LEMMA PutKeepsInv ==
    ASSUME BuildInv, NEW b \in Builders, Put(b)
    PROVE  BuildInv'
<1> DEFINE m == Head(left[b])
<1>0. /\ BuildTypes /\ Pinned(b) /\ Published(b) /\ UNCHANGED mrev
      /\ bpc[b] = "publish" /\ ~Idle(b)
      /\ left[b] \in Seq(Models) /\ left[b] # <<>>
  BY DEF BuildInv, BuildTypes, Put, Idle
<1>1. /\ m \in Pending(b) /\ m \in Models /\ staged[b][m] = Built(mrev[b])
      /\ m = left[b][1] /\ Len(left[b]) > 0
  BY <1>0 DEF Pending, Published
<1>2. CASE UNCHANGED <<staged, left, repo>> /\ BGoto(b, "abort")
  <2>1. BuildTypes' /\ bpc'[b] = "abort" /\ \A c \in Builders : c # b => bpc'[c] = bpc[c]
    BY <1>0, <1>2 DEF BuildTypes, BGoto
  <2>2. Pinned(b)' /\ Published(b)'
    BY <1>0, <1>2, <2>1 DEF Pinned, Published
  <2> QED
    BY <1>0, <1>2, <2>1, <2>2, OthersKept
<1>3. CASE /\ repo' = [repo EXCEPT ![m] = staged[b][m]]
           /\ staged' = [staged EXCEPT ![b][m] = Absent]
           /\ left' = [left EXCEPT ![b] = Tail(@)] /\ UNCHANGED bpc
  <2>1. BuildTypes'
    BY <1>0, <1>1, <1>3 DEF BuildTypes
  <2>2. /\ Len(left'[b]) = Len(left[b]) - 1
        /\ \A i \in 1..Len(left'[b]) : i + 1 \in 1..Len(left[b]) /\ left'[b][i] = left[b][i + 1]
    BY <1>0, <1>1, <1>3 DEF BuildTypes
  <2>3. \A i, j \in 1..Len(left'[b]) : left'[b][i] = left'[b][j] => i = j
    <3> SUFFICES ASSUME NEW i \in 1..Len(left'[b]), NEW j \in 1..Len(left'[b]),
                        left'[b][i] = left'[b][j]
                 PROVE  i = j
      OBVIOUS
    <3>1. i + 1 = j + 1
      BY <1>0, <2>2 DEF Published
    <3> QED
      BY <3>1
  <2>4. \A n \in Models : n \in Pending(b)' <=> n \in Pending(b) /\ n # m
    <3> SUFFICES ASSUME NEW n \in Models PROVE n \in Pending(b)' <=> n \in Pending(b) /\ n # m
      OBVIOUS
    <3>1. ASSUME n \in Pending(b)' PROVE n \in Pending(b) /\ n # m
      <4>1. PICK i \in 1..Len(left'[b]) : n = left'[b][i]
        BY <3>1 DEF Pending
      <4>2. i + 1 \in 1..Len(left[b]) /\ n = left[b][i + 1] /\ i + 1 # 1 /\ 1 \in 1..Len(left[b])
        BY <1>0, <1>1, <2>2, <4>1
      <4> QED
        BY <1>0, <1>1, <4>2 DEF Pending, Published
    <3>2. ASSUME n \in Pending(b), n # m PROVE n \in Pending(b)'
      <4>1. PICK i \in 1..Len(left[b]) : n = left[b][i]
        BY <3>2 DEF Pending
      <4>2. i - 1 \in 1..Len(left'[b]) /\ (i - 1) + 1 = i
        BY <1>0, <1>1, <2>2, <3>2, <4>1
      <4>3. left'[b][i - 1] = n
        BY <2>2, <4>1, <4>2
      <4> QED
        BY <4>2, <4>3 DEF Pending
    <3> QED
      BY <3>1, <3>2
  <2>5. /\ \A n \in Models : n # m => repo'[n] = repo[n] /\ staged'[b][n] = staged[b][n]
        /\ repo'[m] = Built(mrev[b]) /\ staged'[b][m] = Absent
    BY <1>0, <1>1, <1>3 DEF BuildTypes
  <2>6. Pinned(b)' /\ Published(b)'
    BY <1>0, <1>3, <2>3, <2>4, <2>5 DEF Pinned, Published
  <2>7. \A c \in Builders : c # b => bpc'[c] = bpc[c] /\ staged'[c] = staged[c]
    BY <1>0, <1>3 DEF BuildTypes
  <2> QED
    BY <1>0, <2>1, <2>6, <2>7, OthersKept
<1> QED
  BY <1>2, <1>3 DEF Put, Replaced

\* A builder that ends, or is killed, publishes nothing more.
LEMMA EndKeepsInv ==
    ASSUME BuildInv, NEW b \in Builders, End(b) \/ KillBuild(b)
    PROVE  BuildInv'
<1>1. /\ BuildTypes' /\ bpc'[b] \in {"failed", "built", "killed"} /\ ~Idle(b)
      /\ \A c \in Builders : c # b => bpc'[c] = bpc[c] /\ staged'[c] = staged[c]
      /\ staged'[b] \in {staged[b], Nothing} /\ mrev' = mrev
  <2>1. CASE End(b)
    <3>1. /\ \E to \in {"failed", "built"} : bpc' = [bpc EXCEPT ![b] = to]
          /\ staged' = [staged EXCEPT ![b] = Nothing] /\ left' = [left EXCEPT ![b] = <<>>]
          /\ UNCHANGED <<mrev, repo>> /\ ~Idle(b)
      BY <2>1 DEF End, BGoto, Idle
    <3>2. BuildTypes'
      BY <3>1, NothingTyped DEF BuildInv, BuildTypes
    <3> QED
      BY <3>1, <3>2 DEF BuildInv, BuildTypes
  <2>2. CASE KillBuild(b)
    BY <2>2 DEF BuildInv, BuildTypes, KillBuild, BGoto, Idle
  <2> QED
    BY <2>1, <2>2
<1>2. Pinned(b)' /\ Published(b)'
  BY <1>1 DEF BuildInv, Pinned, Published, Nothing
<1> QED
  BY <1>1, <1>2, OthersKept

\* The invariant is inductive, whatever the fetchers do.
LEMMA NextBuildInv == BuildInv /\ [Next]_vars => BuildInv'
<1> SUFFICES ASSUME BuildInv, [Next]_vars
             PROVE  BuildInv'
  OBVIOUS
<1>1. CASE UNCHANGED buildVars
  BY <1>1 DEF buildVars, BuildInv, BuildTypes, OneBuild, Idle, Pinned, Published, Pending
<1>2. CASE BuildNext
  BY <1>2, StagingKeepsInv, StagedKeepsInv, RemovalKeepsInv, CleaningKeepsInv, PutKeepsInv,
     EndKeepsInv DEF BuildNext
<1> QED
  BY <1>1, <1>2 DEF Next, vars, buildVars

LEMMA BuildInvariant == Spec => []BuildInv
BY InitBuildInv, NextBuildInv, PTL DEF Spec, Init, vars

----------------------------------------------------------------------------

\* While a builder takes the old repository apart, every model of its manifest
\* is in the repository or still staged, verified (build.sh:299-316).
THEOREM ModelsAtHand == Spec => []EveryModelAtHand
<1>1. BuildInv => EveryModelAtHand
  BY DEF BuildInv, Published, EveryModelAtHand
<1> QED
  BY <1>1, BuildInvariant, PTL

(***************************************************************************)
(* What a build that ends early has cost.                                  *)
(***************************************************************************)

\* The models after the next one are still what they were.
AtRisk(b) ==
    /\ bpc[b] \in {"publish", "abort", "built", "failed", "killed"}
    /\ \A c \in Builders : c # b => Idle(c)
    /\ \A m, n \in Models : m # n =>
          \E k \in {m, n} : repo[k] \in {old[b][k], Built(mrev[b])}
    /\ bpc[b] = "built" => \A m \in Models : repo[m] = Built(mrev[b])
    /\ bpc[b] = "publish" =>
          \A i \in 2..Len(left[b]) : repo[left[b][i]] = old[b][left[b][i]]

\* Only the build that began to publish last is spoken of.
RiskInv ==
    /\ old \in [Builders -> [Models -> Directory \cup {Absent}] \cup {Absent}]
    /\ \A b \in Builders : old[b] # Absent => AtRisk(b)

\* While a builder stages or cleans, no build is spoken of.
LEMMA NoneBefore ==
    ASSUME RiskInv, NEW b \in Builders, bpc[b] \in {"stage", "clean"}
    PROVE  \A c \in Builders : old[c] = Absent
BY DEF RiskInv, AtRisk, Idle

\* A builder that stages, cleans or begins to publish.
LEMMA BeforeKeepsRisk ==
    ASSUME BuildInv, RiskInv, NEW b \in Builders, bpc[b] \in {"stage", "clean"},
           UNCHANGED old \/ (BeginPublishing(b) /\ UNCHANGED <<mrev, repo>>)
    PROVE  RiskInv'
<1>1. \A c \in Builders : old[c] = Absent
  BY NoneBefore
<1>2. CASE UNCHANGED old
  BY <1>1, <1>2 DEF RiskInv
<1>3. CASE BeginPublishing(b) /\ UNCHANGED <<mrev, repo>>
  <2>1. /\ repo \in [Models -> Directory \cup {Absent}] /\ left \in [Builders -> Seq(Models)]
        /\ \A c \in Builders : c # b => Idle(c)
        /\ bpc \in [Builders -> {"none", "stage", "clean", "publish", "abort", "built",
                                 "failed", "killed"}]
    BY DEF BuildInv, BuildTypes, OneBuild, Idle
  <2>2. /\ old' = [old EXCEPT ![b] = repo] /\ bpc' = [bpc EXCEPT ![b] = "publish"]
        /\ UNCHANGED <<mrev, repo>>
    BY <1>3 DEF BeginPublishing, BGoto
  <2>3. old' \in [Builders -> [Models -> Directory \cup {Absent}] \cup {Absent}]
    BY <2>1, <2>2 DEF RiskInv
  <2>4. \A c \in Builders : c # b => old'[c] = Absent
    BY <1>1, <2>2 DEF RiskInv
  <2>5. old'[b] = repo /\ bpc'[b] = "publish" /\ \A c \in Builders : c # b => Idle(c)'
    BY <2>1, <2>2 DEF RiskInv, Idle
  <2>6. AtRisk(b)'
    BY <2>2, <2>5 DEF AtRisk
  <2> QED
    BY <2>3, <2>4, <2>6 DEF RiskInv
<1> QED
  BY <1>2, <1>3

\* A builder that publishes, fails or is killed risks the next model only.
LEMMA PublishingKeepsRisk ==
    ASSUME BuildInv, RiskInv, NEW b \in Builders,
           RemoveOld(b) \/ Put(b) \/ End(b) \/ KillBuild(b)
    PROVE  RiskInv'
<1>0. /\ BuildTypes /\ Published(b) /\ UNCHANGED <<mrev, old>> /\ ~Idle(b)
      /\ \A c \in Builders : c # b => bpc'[c] = bpc[c] /\ old[c] = Absent
  <2>1. BuildTypes /\ Published(b) /\ UNCHANGED <<mrev, old>> /\ ~Idle(b)
    BY DEF BuildInv, RemoveOld, RemoveModel, Put, End, KillBuild, Idle
  <2>2. \A c \in Builders : c # b => bpc'[c] = bpc[c]
    BY <2>1 DEF BuildTypes, RemoveOld, RemoveModel, Put, End, KillBuild, BGoto
  <2>3. \A c \in Builders : c # b => old[c] = Absent
    BY <2>1 DEF RiskInv, AtRisk
  <2> QED
    BY <2>1, <2>2, <2>3
<1> SUFFICES ASSUME old[b] # Absent PROVE AtRisk(b)'
  BY <1>0 DEF RiskInv
<1>1. AtRisk(b) /\ \A c \in Builders : c # b => Idle(c)'
  BY <1>0 DEF RiskInv, AtRisk, Idle
<1> DEFINE next == Head(left[b])
<1>2. ASSUME bpc[b] = "publish", left[b] # <<>>
      PROVE  /\ next \in Models /\ Len(left[b]) > 0 /\ next = left[b][1]
             /\ \A k \in Models : k # next => repo[k] \in {old[b][k], Built(mrev[b])}
             /\ \A i \in 2..Len(left[b]) :
                   left[b][i] # next /\ repo[left[b][i]] = old[b][left[b][i]]
  <2>1. /\ left[b] \in Seq(Models) /\ next \in Models
        /\ Len(left[b]) > 0 /\ next = left[b][1] /\ Len(left[b]) \in Nat
    BY <1>0, <1>2 DEF BuildTypes
  <2>2. \A i \in 2..Len(left[b]) :
           left[b][i] # next /\ repo[left[b][i]] = old[b][left[b][i]]
    BY <1>0, <1>1, <1>2, <2>1 DEF Published, AtRisk
  <2>3. ASSUME NEW k \in Models, k # next PROVE repo[k] \in {old[b][k], Built(mrev[b])}
    <3>1. CASE k \in Pending(b)
      <4>1. PICK i \in 1..Len(left[b]) : k = left[b][i]
        BY <3>1 DEF Pending
      <4>2. i \in 2..Len(left[b])
        BY <2>1, <2>3, <4>1
      <4> QED
        BY <2>2, <4>1, <4>2
    <3>2. CASE k \notin Pending(b)
      BY <1>0, <1>2, <3>2 DEF Published
    <3> QED
      BY <3>1, <3>2
  <2> QED
    BY <2>1, <2>2, <2>3
<1>3. CASE RemoveOld(b)
  <2>1. /\ bpc[b] = "publish" /\ left[b] # <<>> /\ UNCHANGED left
        /\ bpc'[b] \in {"publish", "abort"}
    BY <1>0, <1>3 DEF BuildTypes, RemoveOld, RemoveModel, BGoto
  <2>2. \A k \in Models : k # next => repo'[k] = repo[k]
    BY <1>0, <1>3 DEF BuildTypes, RemoveOld, RemoveModel, Replaced
  <2>3. \A k \in Models : k # next => repo'[k] \in {old[b][k], Built(mrev[b])}
    BY <1>2, <2>1, <2>2
  <2>4. \A i \in 2..Len(left[b]) : left[b][i] \in Models
    BY <1>0 DEF BuildTypes
  <2>5. \A i \in 2..Len(left[b]) : repo'[left[b][i]] = old[b][left[b][i]]
    BY <1>2, <2>1, <2>2, <2>4
  <2> HIDE DEF next
  <2> QED
    BY <1>0, <1>1, <2>1, <2>3, <2>5 DEF AtRisk
<1>4. CASE Put(b)
  <2>1. bpc[b] = "publish" /\ left[b] # <<>>
    BY <1>4 DEF Put
  <2>2. CASE UNCHANGED <<left, repo>> /\ BGoto(b, "abort")
    BY <1>0, <1>1, <2>2 DEF AtRisk, BuildTypes, BGoto
  <2>3. CASE /\ repo' = [repo EXCEPT ![next] = staged[b][next]]
             /\ left' = [left EXCEPT ![b] = Tail(@)] /\ UNCHANGED bpc
    <3>1. next \in Pending(b) /\ staged[b][next] = Built(mrev[b])
      <4>1. 1 \in 1..Len(left[b]) /\ next = left[b][1] /\ next \in Models
        BY <1>2, <1>0, <2>1 DEF BuildTypes
      <4> QED
        BY <1>0, <2>1, <4>1 DEF Pending, Published
    <3>2. /\ repo'[next] = Built(mrev[b])
          /\ \A k \in Models : k # next => repo'[k] = repo[k]
      BY <1>0, <1>2, <2>1, <2>3, <3>1 DEF BuildTypes
    <3>3. /\ Len(left'[b]) = Len(left[b]) - 1
          /\ \A i \in 1..Len(left'[b]) : i + 1 \in 1..Len(left[b]) /\ left'[b][i] = left[b][i + 1]
      BY <1>0, <2>1, <2>3 DEF BuildTypes
    <3>4. ASSUME NEW i \in 2..Len(left'[b])
          PROVE  repo'[left'[b][i]] = old[b][left'[b][i]]
      <4>1. i + 1 \in 2..Len(left[b]) /\ left'[b][i] = left[b][i + 1] /\ left[b][i + 1] \in Models
        BY <1>0, <3>3 DEF BuildTypes
      <4> QED
        BY <1>2, <2>1, <3>2, <4>1
    <3>5. \A k \in Models : repo'[k] \in {old[b][k], Built(mrev[b])}
      BY <1>2, <2>1, <3>2
    <3> HIDE DEF next
    <3> QED
      BY <1>0, <1>1, <2>1, <2>3, <3>4, <3>5 DEF AtRisk
  <2> QED
    BY <1>4, <2>2, <2>3 DEF Put, Replaced
<1>5. CASE End(b) \/ KillBuild(b)
  <2>1. /\ bpc'[b] \in {"failed", "built", "killed"} /\ UNCHANGED repo
        /\ bpc'[b] = "built" => bpc[b] = "publish" /\ left[b] = <<>>
    BY <1>0, <1>5 DEF BuildTypes, End, KillBuild, BGoto
  <2>2. bpc'[b] = "built" => \A m \in Models : repo[m] = Built(mrev[b])
    BY <1>0, <2>1 DEF Published, Pending
  <2> QED
    BY <1>0, <1>1, <2>1, <2>2 DEF AtRisk
<1> QED
  BY <1>3, <1>4, <1>5

\* Every step keeps it; a build that starts is not yet spoken of.
LEMMA NextRiskInv == BuildInv /\ RiskInv /\ [Next]_vars => RiskInv'
<1> SUFFICES ASSUME BuildInv, RiskInv, [Next]_vars
             PROVE  RiskInv'
  OBVIOUS
<1>1. CASE UNCHANGED buildVars
  BY <1>1 DEF buildVars, RiskInv, AtRisk, Idle
<1>2. CASE BuildNext
  <2>1. PICK b \in Builders :
          \/ Prepare(b) \/ Cleaned(b) \/ RemoveOld(b) \/ Put(b) \/ End(b) \/ KillBuild(b)
          \/ \E m \in Models : CopySource(b, m) \/ CleanModel(b, m)
          \/ \E m \in Models, f \in Parts : CopyArtifact(b, m, f)
          \/ \E clean \in BOOLEAN : Staged(b, clean)
          \/ \E other \in Builders : CleanStaging(b, other)
    BY <1>2 DEF BuildNext
  <2>2. CASE Prepare(b)
    BY <2>2 DEF RiskInv, Prepare
  <2>3. CASE RemoveOld(b) \/ Put(b) \/ End(b) \/ KillBuild(b)
    BY <2>3, PublishingKeepsRisk
  <2>4. CASE \/ Cleaned(b)
             \/ \E m \in Models : CopySource(b, m) \/ CleanModel(b, m)
             \/ \E m \in Models, f \in Parts : CopyArtifact(b, m, f)
             \/ \E clean \in BOOLEAN : Staged(b, clean)
             \/ \E other \in Builders : CleanStaging(b, other)
    <3>1. /\ bpc[b] \in {"stage", "clean"}
          /\ UNCHANGED old \/ (BeginPublishing(b) /\ UNCHANGED <<mrev, repo>>)
      BY <2>4 DEF Cleaned, CopySource, CleanModel, RemoveModel, CopyArtifact, Staged,
                  CleanStaging
    <3> QED
      BY <3>1, BeforeKeepsRisk
  <2> QED
    BY <2>1, <2>2, <2>3, <2>4
<1> QED
  BY <1>1, <1>2 DEF Next, vars, buildVars

\* A build that fails or is killed costs at most the model it was replacing,
\* and success means the whole repository (build.sh:307-321).
THEOREM FailureCostsOneModel == Spec => []OneModelAtRisk
<1>1. BuildInit => RiskInv
  BY DEF BuildInit, RiskInv
<1>2. RiskInv => OneModelAtRisk
  BY DEF RiskInv, AtRisk, OneModelAtRisk
<1> QED
  BY <1>1, <1>2, NextRiskInv, BuildInvariant, PTL DEF Spec, Init, vars

\* Only whole models with the contents of the builder's manifest are added,
\* although the cache may change under it (build.sh:140-175).
THEOREM OnlyVerifiedAdded == Spec => OnlyVerifiedModelsAdded
<1>1. ASSUME BuildInv, [Next]_vars, repo' # repo,
             NEW m \in Models, repo'[m] # Absent, NEW f \in Parts, repo'[m][f] # Absent,
             repo[m] = Absent \/ repo[m][f] # repo'[m][f]
      PROVE  \E b \in Builders : repo'[m] = Built(mrev[b])
  <2>0. repo \in [Models -> Directory \cup {Absent}]
    BY <1>1 DEF BuildInv, BuildTypes
  <2>1. PICK b \in Builders : Put(b) \/ RemoveOld(b) \/ \E n \in Models : CleanModel(b, n)
    BY <1>1
    DEF Next, vars, BuildNext, Prepare, CopySource, CopyArtifact, Staged, Cleaned, CleanStaging, End,
        KillBuild
  <2>2. ASSUME NEW n, RemoveModel(b, n) PROVE FALSE
    BY <1>1, <2>0, <2>2 DEF RemoveModel
  <2>3. Put(b)
    BY <2>1, <2>2 DEF RemoveOld, CleanModel
  <2>4. left[b] \in Seq(Models) /\ left[b] # <<>> /\ Published(b) /\ bpc[b] = "publish"
    BY <2>3 , <1>1 DEF BuildInv, BuildTypes, Put
  <2>5. Head(left[b]) \in Pending(b) /\ Head(left[b]) \in Models
    BY <2>4 DEF Pending
  <2>6. repo' = [repo EXCEPT ![Head(left[b])] = Built(mrev[b])]
    BY <1>1, <2>3, <2>4, <2>5 DEF Put, Replaced, Published
  <2> QED
    BY <1>1, <2>0, <2>5, <2>6
<1>2. BuildInv /\ [Next]_vars
        => [\A m \in Models :
               (repo'[m] # Absent /\ \E f \in Parts : repo'[m][f] # Absent
                               /\ (repo[m] = Absent \/ repo[m][f] # repo'[m][f]))
              => \E b \in Builders : repo'[m] = Built(mrev[b])]_repo
  BY <1>1
<1> QED
  BY <1>2, BuildInvariant, PTL DEF Spec, vars, OnlyVerifiedModelsAdded

=============================================================================
