--------------------------- MODULE FetchArtifacts ---------------------------
(***************************************************************************)
(* scripts/fetch_artifacts.py: processes (Pids) that download the files of *)
(* a manifest revision, verify each, and put the whole tree at one output  *)
(* path.  Several may run at once; each step may fail, or the process may  *)
(* be killed, and a later run may get a dead one's pid.                    *)
(***************************************************************************)
EXTENDS Naturals

CONSTANTS Pids,
          Files,      \* the files of a revision
          Revisions,  \* manifest revisions: each pins the contents of Files
          Corrupt,    \* contents no revision pins
          Absent,     \* no file, no directory, no receipt
          MaxRuns     \* bound: runs over all pids

ASSUME FetchAssumption ==
    /\ Corrupt \notin Revisions /\ Absent \notin Revisions \cup {Corrupt}
    /\ MaxRuns \in Nat

VARIABLES
    fpc,      \* where each process is
    rev,      \* the revision its manifest has
    staging,  \* its staging directory
    backup,   \* the directory at .<output>.backup-<pid>
    output,   \* the directory at the output path
    runs,     \* runs started so far
    published,\* a tree has been published
    killed    \* a run has been killed

fetchVars == <<fpc, rev, staging, backup, output, runs, published, killed>>

Tree(files, receipt) == [files |-> files, receipt |-> receipt]
Empty == Tree([f \in Files |-> Absent], Absent)

\* All files of revision v, with its receipt.
Complete(v) == Tree([f \in Files |-> v], v)
IsComplete(tree) == \E v \in Revisions : tree = Complete(v)

ASSUME TreeAssumption == \A v \in Revisions : Complete(v) # Absent

FetchInit ==
    /\ fpc = [p \in Pids |-> "none"] /\ rev \in [Pids -> Revisions]
    /\ staging = [p \in Pids |-> Absent] /\ backup = [p \in Pids |-> Absent]
    /\ output = Absent /\ runs = 0 /\ published = FALSE /\ killed = FALSE

Goto(p, phase) == fpc' = [fpc EXCEPT ![p] = phase]

----------------------------------------------------------------------------

\* Arguments and manifest are valid (else the run ends here); mkdtemp.
Start(p) ==
    /\ fpc[p] \in {"none", "ok", "failed", "killed"} /\ runs < MaxRuns
    /\ \E v \in Revisions : rev' = [rev EXCEPT ![p] = v]
    /\ runs' = runs + 1
    /\ staging' = [staging EXCEPT ![p] = Empty] /\ Goto(p, "fetch")
    /\ UNCHANGED <<backup, output, published, killed>>

\* Fault: the digest is not compared.
Fetch_Unverified(p, f, content) ==
    /\ fpc[p] = "fetch" /\ staging[p].files[f] = Absent
    /\ \/ staging' = [staging EXCEPT ![p].files[f] = content] /\ UNCHANGED fpc
       \/ Goto(p, "clean") /\ UNCHANGED staging
    /\ UNCHANGED <<rev, backup, output, runs, published, killed>>

\* _open_artifact and _write_verified: what the host sends is kept if its size
\* and digest are those of the manifest; else, or if anything raises, the run
\* ends.
Fetch(p, f, content) ==
    /\ fpc[p] = "fetch" /\ staging[p].files[f] = Absent
    /\ \/ content = rev[p] /\ staging' = [staging EXCEPT ![p].files[f] = content] /\ UNCHANGED fpc
       \/ Goto(p, "clean") /\ UNCHANGED staging
    /\ UNCHANGED <<rev, backup, output, runs, published, killed>>

WriteReceipt(p) ==
    /\ fpc[p] = "fetch" /\ \A f \in Files : staging[p].files[f] # Absent
    /\ staging' = [staging EXCEPT ![p].receipt = rev[p]] /\ Goto(p, "look")
    /\ UNCHANGED <<rev, backup, output, runs, published, killed>>

\* _publish_directory: is there a tree to replace, and is the backup path free?
Look(p) ==
    /\ fpc[p] = "look"
    /\ Goto(p, IF output = Absent THEN "place"
               ELSE IF backup[p] # Absent THEN "clean" ELSE "move_out")
    /\ UNCHANGED <<rev, staging, backup, output, runs, published, killed>>

\* os.replace(staging, output) succeeds unless a tree is there.
Move(p) ==
    /\ output = Absent
    /\ output' = staging[p] /\ staging' = [staging EXCEPT ![p] = Absent]
    /\ published' = TRUE

Place(p) ==
    /\ fpc[p] = "place"
    /\ \/ Move(p) /\ Goto(p, "done")
       \/ Goto(p, "clean") /\ UNCHANGED <<staging, output, published>>
    /\ UNCHANGED <<rev, backup, runs, killed>>

\* Fault: the old tree is removed before the new one is in place.
MoveOut_Deletes(p) ==
    /\ fpc[p] = "move_out"
    /\ output' = Absent /\ Goto(p, "move_in")
    /\ UNCHANGED <<rev, staging, backup, runs, published, killed>>

\* Another process may have moved the output away since Look.
MoveOut(p) ==
    /\ fpc[p] = "move_out"
    /\ \/ /\ output # Absent
          /\ backup' = [backup EXCEPT ![p] = output] /\ output' = Absent
          /\ Goto(p, "move_in")
       \/ Goto(p, "clean") /\ UNCHANGED <<backup, output>>
    /\ UNCHANGED <<rev, staging, runs, published, killed>>

\* Fault: no restore when the second rename fails.
MoveIn_NoRestore(p) ==
    /\ fpc[p] = "move_in"
    /\ \/ Move(p) /\ Goto(p, "drop")
       \/ Goto(p, "clean") /\ UNCHANGED <<staging, output, published>>
    /\ UNCHANGED <<rev, backup, runs, killed>>

MoveIn(p) ==
    /\ fpc[p] = "move_in"
    /\ \/ Move(p) /\ Goto(p, "drop")
       \/ Goto(p, "restore") /\ UNCHANGED <<staging, output, published>>
    /\ UNCHANGED <<rev, backup, runs, killed>>

\* os.replace(backup, output); if another process has published meanwhile it
\* raises and the backup stays.
Restore(p) ==
    /\ fpc[p] = "restore"
    /\ IF output = Absent
       THEN output' = backup[p] /\ backup' = [backup EXCEPT ![p] = Absent]
       ELSE UNCHANGED <<output, backup>>
    /\ Goto(p, "clean")
    /\ UNCHANGED <<rev, staging, runs, published, killed>>

\* rmtree(backup), which may stop half-way and fail the run.
DropBackup(p) ==
    /\ fpc[p] = "drop"
    /\ \/ backup' = [backup EXCEPT ![p] = Absent] /\ Goto(p, "done")
       \/ backup' \in {backup, [backup EXCEPT ![p].receipt = Absent]} /\ Goto(p, "clean")
    /\ UNCHANGED <<rev, staging, output, runs, published, killed>>

\* finally: rmtree(staging, ignore_errors=True), and the exit status.
Clean(p) ==
    /\ fpc[p] \in {"clean", "done"}
    /\ staging' = [staging EXCEPT ![p] = Absent]
    /\ Goto(p, IF fpc[p] = "done" THEN "ok" ELSE "failed")
    /\ UNCHANGED <<rev, backup, output, runs, published, killed>>

\* SIGKILL or a power failure: everything stays where it is.
Kill(p) ==
    /\ fpc[p] \notin {"none", "ok", "failed", "killed"}
    /\ Goto(p, "killed") /\ killed' = TRUE
    /\ UNCHANGED <<rev, staging, backup, output, runs, published>>

FetchStep(p) ==
    \/ \E f \in Files, content \in Revisions \cup {Corrupt} : Fetch(p, f, content)
    \/ WriteReceipt(p) \/ Look(p) \/ Place(p) \/ MoveOut(p) \/ MoveIn(p) \/ Restore(p)
    \/ DropBackup(p) \/ Clean(p)

FetchNext == \E p \in Pids : Start(p) \/ FetchStep(p) \/ Kill(p)

FetchSpec == FetchInit /\ [][FetchNext]_fetchVars

----------------------------------------------------------------------------

TreeType ==
    [files : [Files -> Revisions \cup {Corrupt, Absent}], receipt : Revisions \cup {Absent}]

FetchTypeOK ==
    /\ fpc \in [Pids -> {"none", "fetch", "look", "place", "move_out", "move_in", "restore",
                         "drop", "clean", "done", "ok", "failed", "killed"}]
    /\ rev \in [Pids -> Revisions] /\ runs \in 0..MaxRuns /\ published \in BOOLEAN /\ killed \in BOOLEAN
    /\ staging \in [Pids -> TreeType \cup {Absent}]
    /\ backup \in [Pids -> TreeType \cup {Absent}]
    /\ output \in [files : [Files -> Revisions], receipt : Revisions] \cup {Absent}

\* Whatever is at the output path is the complete, verified tree of one
\* revision, with that revision's receipt: never a part or a mixture.
OutputIsVerified == output # Absent => IsComplete(output)

\* Once something has been published a complete tree exists at the output path
\* or in a backup beside it, wherever processes fail or are killed.
CacheSurvives ==
    published => \/ output # Absent
                 \/ \E p \in Pids : backup[p] # Absent /\ IsComplete(backup[p])

\* Without a kill the tree is back at the output path when all runs have
\* ended, however they ended and interleaved.
NoOutageAfterErrors ==
    published /\ ~killed /\ (\A p \in Pids : fpc[p] \in {"none", "ok", "failed"}) =>
        output # Absent

============================================================================
