------------------------------- MODULE Delivery -------------------------------
(* A converter publishes the file that the operators' scripts then load.     *)
EXTENDS ModelConverter

CONSTANTS Operators, Script, MaxPolls

ASSUME ControlAssumption ==
    /\ Operators # {} /\ "nobody" \notin Operators
    /\ Script \in [Operators -> {"load", "unload", "reload"}]
    /\ MaxPolls \in Nat \ {0}

VARIABLES script, stage, polls, since, request, reply, serving, loading

INSTANCE ModelControl

vars == <<converterVars, script, stage, polls, since, request, reply, serving, loading>>

Init == ConverterInit /\ ControlInit

Next ==
    \/ /\ ConverterNext
       /\ UNCHANGED <<script, stage, polls, since, request, reply, serving, loading>>
    \/ ControlNext /\ UNCHANGED converterVars

\* curl has --max-time and the scripts sleep for a second between two polls.
Spec ==
    /\ Init /\ [][Next]_vars
    /\ \A o \in Operators : WF_vars(RunScript(o) /\ UNCHANGED converterVars)

----------------------------------------------------------------------------

DeliveryTypeOK ==
    /\ input \in Inputs /\ changed \in SUBSET Converters
    /\ converter \in [Converters -> {"new", "validated", "writing", "written", "checked", "done",
                                     "failed"}]
    /\ temporary \in [Converters -> FileType \cup {NoFile}]
    /\ artifact \in FileType \cup {NoFile} /\ serving \in FileType \cup {NoFile}
    /\ script \in [Operators -> {"new", "posted", "polling", "next", "ok", "failed"}]
    /\ stage \in [Operators -> {"load", "unload"}]
    /\ polls \in [Operators -> 0..MaxPolls] /\ since \in [Operators -> Nat]
    /\ request \in [Operators -> {"none", "load", "unload", "unloading"}]
    /\ reply \in [Operators -> {0, 200, 400}]
    /\ loading \in [file : FileType \cup {NoFile}, for : Operators \cup {"nobody"}]

\* Whatever converters race, fail or are killed, what stands at the destination
\* and what the server has loaded from there is a complete model that passed
\* its check (scripts/README.md:21-23, convert/common.py:56-72).  It was made
\* from the revision whose digest its converter was given, unless someone
\* replaced the input between the check and the conversion, which reads the
\* path again (convert/common.py:23-31, 75-78).
OnlyVettedModels ==
    \A file \in {artifact, serving} \ {NoFile} :
        /\ file.state = "whole"
        /\ Pinned[file.by] \in {file.of, Unpinned} \/ file.by \in changed

\* load.sh and reload.sh report OK only when the server serves the file that was
\* there when they started, or a later one, whatever else is loaded, unloaded or
\* published meanwhile (model_control/load.sh:30-42, reload.sh:15-18).
OkMeansCurrent ==
    [][\A o \in Operators : script[o] # "ok" /\ script'[o] = "ok" /\ stage[o] = "load" =>
           serving # NoFile /\ serving.serial >= since[o]]_vars

\* When all scripts have ended and the server has nothing left to do, the model
\* is absent only if a script has reported failure or was told to unload it
\* (model_control/unload.sh:33-75, reload.sh:15).
NoSilentOutage ==
    (\A o \in Operators : Ended(o) /\ request[o] = "none") /\ loading.for = "nobody" =>
        \/ serving # NoFile
        \/ \E o \in Operators : script[o] = "failed" \/ Script[o] = "unload"

\* Every script that has started ends, whatever the server does
\* (model_control/load.sh:33-40, unload.sh:67-72).
ScriptsEnd == \A o \in Operators : script[o] = "posted" ~> Ended(o)

=============================================================================
