----------------------------- MODULE ModelControl -----------------------------
(***************************************************************************)
(* scripts/model_control: operators who load, unload or reload one model   *)
(* of a Triton server in EXPLICIT mode.  The server is external: it takes  *)
(* the requests one at a time, loads a file whole, keeps the model that it *)
(* serves when a load fails, and answers an unload before it has effect.   *)
(* A request may be taken after its curl has given up.                     *)
(***************************************************************************)
EXTENDS Naturals

CONSTANTS Operators,
          Script,    \* the script that each of them runs: load, unload or reload
          MaxPolls,  \* bound: polls before the deadline
          NoFile

VARIABLES
    artifact, \* the file in the model repository
    script,   \* where each operator's script is
    stage,    \* the script that runs: its own, or the two of reload in turn
    polls,    \* polls since the request was answered
    since,    \* the serial number of the file that was there when it started
    request,  \* the request of each script at the server
    reply,    \* the HTTP status it got
    serving,  \* the file that is loaded
    loading   \* the file that is being loaded, and for whom

scriptVars == <<script, stage, polls, since>>
tritonVars == <<request, reply, serving, loading>>

Ended(o) == script[o] \in {"ok", "failed"}

ControlInit ==
    /\ script = [o \in Operators |-> "new"] /\ polls = [o \in Operators |-> 0]
    /\ stage = [o \in Operators |-> IF Script[o] = "load" THEN "load" ELSE "unload"]
    /\ since = [o \in Operators |-> 0]
    /\ request = [o \in Operators |-> "none"] /\ reply = [o \in Operators |-> 0]
    /\ serving = NoFile /\ loading = [file |-> NoFile, for |-> "nobody"]

\* Fault: reload.sh without set -e says OK whatever load.sh said.
Fail_NoErrexit(o) ==
    script' = [script EXCEPT ![o] =
        IF Script[o] = "reload" /\ stage[o] = "load" THEN "ok" ELSE "failed"]

\* exit 1, which ends reload.sh as well.
Fail(o) == script' = [script EXCEPT ![o] = "failed"]

----------------------------------------------------------------------------
(* The server.                                                              *)

Busy == loading.for # "nobody" \/ \E o \in Operators : request[o] = "unloading"

TakeLoad(o) ==
    /\ request[o] = "load" /\ ~Busy
    /\ IF artifact = NoFile
       THEN reply' = [reply EXCEPT ![o] = 400] /\ UNCHANGED loading
       ELSE loading' = [file |-> artifact, for |-> o] /\ UNCHANGED reply
    /\ request' = [request EXCEPT ![o] = "none"]
    /\ UNCHANGED <<scriptVars, serving>>

Loaded ==
    /\ loading.for # "nobody"
    /\ \/ serving' = loading.file /\ reply' = [reply EXCEPT ![loading.for] = 200]
       \/ UNCHANGED serving /\ reply' = [reply EXCEPT ![loading.for] = 400]
    /\ loading' = [file |-> NoFile, for |-> "nobody"]
    /\ UNCHANGED <<scriptVars, request>>

TakeUnload(o) ==
    /\ request[o] = "unload" /\ ~Busy
    /\ request' = [request EXCEPT ![o] = "unloading"] /\ reply' = [reply EXCEPT ![o] = 200]
    /\ UNCHANGED <<scriptVars, serving, loading>>

Unloaded(o) ==
    /\ request[o] = "unloading"
    /\ request' = [request EXCEPT ![o] = "none"] /\ serving' = NoFile
    /\ UNCHANGED <<scriptVars, reply, loading>>

----------------------------------------------------------------------------
(* The scripts.                                                             *)

\* curl -X POST; curl may fail to connect.
Post(o) ==
    /\ script[o] \in {"new", "next"}
    /\ since' = IF script[o] = "new" /\ artifact # NoFile
                THEN [since EXCEPT ![o] = artifact.serial] ELSE since
    /\ \/ /\ script' = [script EXCEPT ![o] = "posted"]
          /\ request' = [request EXCEPT ![o] = stage[o]] /\ reply' = [reply EXCEPT ![o] = 0]
       \/ Fail(o) /\ UNCHANGED <<request, reply>>
    /\ UNCHANGED <<stage, polls, serving, loading>>

\* Fault: the HTTP status is not looked at.
Status_Ignored(code) == TRUE

\* [[ "${http_code}" != "200" ]]
Status(code) == code = 200

\* The answer of the POST, or --max-time.
PostReturns(o) ==
    /\ script[o] = "posted"
    /\ \/ /\ reply[o] # 0
          /\ script' = [script EXCEPT ![o] = IF Status(reply[o]) THEN "polling" ELSE "failed"]
       \/ Fail(o)
    /\ polls' = [polls EXCEPT ![o] = 0]
    /\ UNCHANGED <<stage, since, tritonVars>>

\* Fault: there is no deadline.
PollAgain_NoDeadline(o) ==
    /\ polls' = [polls EXCEPT ![o] = IF @ < MaxPolls THEN @ + 1 ELSE @]
    /\ UNCHANGED script

\* (( SECONDS >= deadline )) is tested after a poll; sleep 1.
PollAgain(o) ==
    \/ polls[o] < MaxPolls /\ polls' = [polls EXCEPT ![o] = @ + 1] /\ UNCHANGED script
    \/ Fail(o) /\ UNCHANGED polls

\* until curl .../ready: any failed poll is taken for "not ready yet".
PollReady(o) ==
    /\ script[o] = "polling" /\ stage[o] = "load"
    /\ \/ serving # NoFile /\ script' = [script EXCEPT ![o] = "ok"] /\ UNCHANGED polls
       \/ PollAgain(o)
    /\ UNCHANGED <<stage, since, tritonVars>>

\* The Repository Index: if it fails, so does the script; reload.sh goes on to
\* load.sh only if unload.sh has succeeded.
PollIndex(o) ==
    /\ script[o] = "polling" /\ stage[o] = "unload"
    /\ \/ Fail(o) /\ UNCHANGED <<polls, stage>>
       \/ serving # NoFile /\ PollAgain(o) /\ UNCHANGED stage
       \/ /\ serving = NoFile
          /\ script' = [script EXCEPT ![o] = IF Script[o] = "reload" THEN "next" ELSE "ok"]
          /\ stage' = [stage EXCEPT ![o] = IF Script[o] = "reload" THEN "load" ELSE @]
          /\ UNCHANGED polls
    /\ UNCHANGED <<since, tritonVars>>

\* The operator interrupts the script.
Interrupt(o) ==
    /\ ~Ended(o) /\ script' = [script EXCEPT ![o] = "failed"]
    /\ UNCHANGED <<stage, polls, since, tritonVars>>

RunScript(o) == Post(o) \/ PostReturns(o) \/ PollReady(o) \/ PollIndex(o)

Triton == Loaded \/ \E o \in Operators : TakeLoad(o) \/ TakeUnload(o) \/ Unloaded(o)

ControlNext == Triton \/ \E o \in Operators : RunScript(o) \/ Interrupt(o)

=============================================================================
