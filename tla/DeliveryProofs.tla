---------------------------- MODULE DeliveryProofs ----------------------------
(***************************************************************************)
(* Theorems about Delivery, for all sets of converters and operators and   *)
(* every choice of their inputs and scripts.                               *)
(***************************************************************************)
EXTENDS Delivery, TLAPS

controlVars == <<script, stage, polls, since, request, reply, serving, loading>>

----------------------------------------------------------------------------
(* The converters.                                                          *)

FromPin(c, revision) == Pinned[c] \in {revision, Unpinned} \/ c \in changed

Vetted(file) == file = NoFile \/ (file.state = "whole" /\ FromPin(file.by, file.of))

\* What a converter holds was made from what it was told to convert.
ConverterInv(c) ==
    /\ converter[c] = "validated" => FromPin(c, input)
    /\ converter[c] \in {"writing", "written", "checked"} =>
           temporary[c] \in FileType /\ temporary[c].by = c /\ FromPin(c, temporary[c].of)
    /\ converter[c] = "checked" => temporary[c].state = "whole"

VettedInv ==
    /\ \A c \in Converters : ConverterInv(c)
    /\ Vetted(artifact) /\ Vetted(serving) /\ Vetted(loading.file)

----------------------------------------------------------------------------
(* The scripts and the server.                                              *)

\* The server does not have an older file for a script than the one that was
\* there when the script started.
Fresh(file, o) == file = NoFile \/ file.serial >= since[o]

\* A script's request is answered once, and its load is answered, or may be
\* stale, only when it comes to its second script.
RequestInv(o) ==
    /\ since[o] <= Serial
    /\ script[o] = "new" => request[o] = "none" /\ reply[o] = 0
    /\ request[o] \in {"load", "unload"} =>
           reply[o] = 0 /\ stage[o] = request[o] /\ script[o] \in {"posted", "failed"}
    /\ request[o] # "none" => loading.for # o /\ script[o] # "new"
    /\ loading.for = o =>
           /\ stage[o] = "load" /\ reply[o] = 0 /\ script[o] \in {"posted", "failed"}
           /\ loading.file # NoFile /\ Fresh(loading.file, o)
    /\ script[o] \in {"polling", "next"} => reply[o] = 200
    /\ script[o] = "next" => stage[o] = "load" /\ Script[o] = "reload"
    /\ request[o] = "unloading" => stage[o] = "unload" \/ script[o] \in {"next", "failed"}
    /\ stage[o] = "unload" => Script[o] # "load"
    /\ script[o] = "ok" /\ Script[o] # "unload" => stage[o] = "load" /\ reply[o] = 200

HasLoaded(o) ==
    reply[o] = 200 /\ stage[o] = "load" /\ script[o] \in {"posted", "polling", "ok"}

FreshInv ==
    \A o \in Operators : RequestInv(o) /\ (HasLoaded(o) => Fresh(serving, o) /\ Fresh(loading.file, o))

\* Whoever has not loaded yet will, or fails, or was told to unload.
OutageInv ==
    serving # NoFile \/ \E o \in Operators :
        script[o] = "failed" \/ Script[o] = "unload" \/ ~HasLoaded(o)

----------------------------------------------------------------------------
(* Types.                                                                   *)

LEMMA InitTyped == Init => DeliveryTypeOK
  BY ConverterAssumption, ControlAssumption
  DEF Init, ConverterInit, ControlInit, DeliveryTypeOK

LEMMA ConverterKeepsTypes ==
  ASSUME DeliveryTypeOK, VettedInv, ConverterNext, UNCHANGED controlVars
  PROVE  DeliveryTypeOK'
<1> USE DEF DeliveryTypeOK, controlVars, At
<1>1. CASE ReplaceInput
    BY <1>1 DEF ReplaceInput
<1>2. ASSUME NEW c \in Converters, ValidatedInput(c) \/ Recheck(c) \/ ConverterEnds(c)
      PROVE  DeliveryTypeOK'
    BY <1>2 DEF ValidatedInput, Recheck, ConverterEnds
<1>3. ASSUME NEW c \in Converters, LoadInput(c)
      PROVE  DeliveryTypeOK'
    <2>1. File(input, "empty", c, 0) \in FileType
        BY DEF File, FileType
    <2> QED BY <1>3, <2>1 DEF LoadInput
<1>4. ASSUME NEW c \in Converters, NEW s \in {"empty", "partial", "whole"},
             temporary[c] \in FileType, temporary' = [temporary EXCEPT ![c].state = s],
             UNCHANGED <<input, changed, artifact>>,
             converter' \in [Converters -> {"new", "validated", "writing", "written", "checked",
                                            "done", "failed"}]
      PROVE  DeliveryTypeOK'
    <2>1. [temporary[c] EXCEPT !.state = s] \in FileType
        BY <1>4 DEF FileType
    <2> QED BY <1>4, <2>1
<1>5. ASSUME NEW c \in Converters, Write(c) \/ Written(c)
      PROVE  DeliveryTypeOK'
    <2>1. temporary[c] \in FileType
        BY <1>5 DEF VettedInv, ConverterInv, Write, Written
    <2> QED BY <1>4, <1>5, <2>1 DEF Write, Written
<1>6. ASSUME NEW c \in Converters, Publish(c)
      PROVE  DeliveryTypeOK'
    <2>1. temporary[c] \in FileType /\ Serial \in Nat
        BY <1>6 DEF VettedInv, ConverterInv, Publish, Serial, FileType
    <2>2. [temporary[c] EXCEPT !.serial = Serial + 1] \in FileType
        BY <2>1 DEF FileType
    <2> QED BY <1>6, <2>2 DEF Publish
<1> QED BY <1>1, <1>2, <1>3, <1>5, <1>6 DEF ConverterNext, Convert

LEMMA ScriptsKeepTypes ==
  ASSUME DeliveryTypeOK, NEW o \in Operators, RunScript(o) \/ Interrupt(o), UNCHANGED converterVars
  PROVE  DeliveryTypeOK'
<1> USE ControlAssumption DEF DeliveryTypeOK, converterVars, tritonVars, Fail
<1>1. CASE Post(o)
    <2>1. since' \in [Operators -> Nat]
        BY <1>1 DEF Post, FileType
    <2> QED BY <1>1, <2>1 DEF Post
<1>2. CASE PostReturns(o)
    BY <1>2 DEF PostReturns, Status
<1>3. CASE PollReady(o)
    BY <1>3 DEF PollReady, PollAgain
<1>4. CASE PollIndex(o)
    <2>1. script' \in [Operators -> {"new", "posted", "polling", "next", "ok", "failed"}]
        BY <1>4 DEF PollIndex, PollAgain
    <2>2. stage' \in [Operators -> {"load", "unload"}]
        BY <1>4 DEF PollIndex
    <2>3. polls' \in [Operators -> 0..MaxPolls]
        BY <1>4 DEF PollIndex, PollAgain
    <2> QED BY <1>4, <2>1, <2>2, <2>3 DEF PollIndex
<1>5. CASE Interrupt(o)
    BY <1>5 DEF Interrupt
<1> QED BY <1>1, <1>2, <1>3, <1>4, <1>5 DEF RunScript

LEMMA TritonKeepsTypes ==
  ASSUME DeliveryTypeOK, Triton, UNCHANGED converterVars
  PROVE  DeliveryTypeOK'
<1> USE DEF DeliveryTypeOK, converterVars, scriptVars
<1>1. ASSUME NEW o \in Operators, TakeLoad(o) PROVE DeliveryTypeOK'
    BY <1>1 DEF TakeLoad
<1>2. CASE Loaded
    BY <1>2 DEF Loaded
<1>3. ASSUME NEW o \in Operators, TakeUnload(o) \/ Unloaded(o) PROVE DeliveryTypeOK'
    BY <1>3 DEF TakeUnload, Unloaded
<1> QED BY <1>1, <1>2, <1>3 DEF Triton

----------------------------------------------------------------------------
(* The converters publish only what they have checked.                      *)

LEMMA InitVetted == Init => VettedInv
  BY DEF Init, ConverterInit, ControlInit, VettedInv, ConverterInv, Vetted

LEMMA OthersKeepConverting ==
  ASSUME DeliveryTypeOK, NEW c \in Converters, ConverterInv(c), UNCHANGED <<input, changed>>,
         converter'[c] = converter[c], temporary'[c] = temporary[c]
  PROVE  ConverterInv(c)'
  BY DEF ConverterInv, FromPin

LEMMA ReplaceInputKeepsVetted ==
  ASSUME DeliveryTypeOK, VettedInv, ReplaceInput, UNCHANGED controlVars
  PROVE  VettedInv'
<1>1. changed \subseteq changed' /\ UNCHANGED <<converter, temporary, artifact, serving, loading>>
    BY DEF ReplaceInput, controlVars
<1>2. ASSUME NEW c \in Converters PROVE ConverterInv(c)'
    <2>1. ConverterInv(c)
        BY DEF VettedInv
    <2>2. converter[c] = "validated" => c \in changed'
        BY DEF ReplaceInput
    <2> QED BY <1>1, <2>1, <2>2 DEF ConverterInv, FromPin
<1>3. Vetted(artifact)' /\ Vetted(serving)' /\ Vetted(loading.file)'
    BY <1>1 DEF VettedInv, Vetted, FromPin
<1> QED BY <1>2, <1>3 DEF VettedInv

LEMMA ConvertKeepsVetted ==
  ASSUME DeliveryTypeOK, VettedInv, NEW c \in Converters, Convert(c), UNCHANGED controlVars
  PROVE  VettedInv'
<1>1. UNCHANGED <<input, changed, serving, loading>>
    BY DEF Convert, ValidatedInput, LoadInput, Write, Written, Recheck, Publish, ConverterEnds,
           controlVars
<1>2. /\ \A d \in Converters \ {c} : converter'[d] = converter[d] /\ temporary'[d] = temporary[d]
      /\ converter' \in [Converters -> {"new", "validated", "writing", "written", "checked",
                                         "done", "failed"}]
    BY DEF Convert, ValidatedInput, LoadInput, Write, Written, Recheck, Publish, ConverterEnds,
           DeliveryTypeOK, At
<1>3. ASSUME NEW d \in Converters \ {c} PROVE ConverterInv(d)'
    BY <1>1, <1>2, OthersKeepConverting DEF VettedInv
<1>4. ConverterInv(c)
    BY DEF VettedInv
<1>5. ConverterInv(c)'
    <2>1. CASE ValidatedInput(c)
        BY <1>1, <2>1 DEF ValidatedInput, At, ConverterInv, FromPin, DeliveryTypeOK
    <2>2. CASE LoadInput(c)
        <3>1. File(input, "empty", c, 0) \in FileType
            BY DEF File, FileType, DeliveryTypeOK
        <3> QED BY <1>1, <1>4, <2>2, <3>1 DEF LoadInput, At, ConverterInv, FromPin, File, DeliveryTypeOK
    <2>3. ASSUME NEW s \in {"empty", "partial", "whole"}, temporary' = [temporary EXCEPT ![c].state = s],
                 converter[c] = "writing", converter'[c] \in {"writing", "written"}
          PROVE  ConverterInv(c)'
        <3>1. temporary'[c] = [temporary[c] EXCEPT !.state = s]
            BY <2>3 DEF DeliveryTypeOK
        <3>2. temporary[c] \in FileType /\ temporary[c].by = c /\ FromPin(c, temporary[c].of)
            BY <1>4, <2>3 DEF ConverterInv
        <3> QED BY <1>1, <2>3, <3>1, <3>2 DEF ConverterInv, FromPin, FileType
    <2>4. CASE Write(c) \/ Written(c)
        BY <2>3, <2>4 DEF Write, Written, At, DeliveryTypeOK
    <2>5. CASE Recheck(c)
        BY <1>1, <1>4, <2>5 DEF Recheck, At, ConverterInv, FromPin, DeliveryTypeOK
    <2>6. CASE Publish(c) \/ ConverterEnds(c)
        BY <2>6 DEF Publish, ConverterEnds, At, ConverterInv, DeliveryTypeOK
    <2> QED BY <2>1, <2>2, <2>4, <2>5, <2>6 DEF Convert
<1>6. Vetted(artifact)'
    <2>1. CASE Publish(c)
        <3>1. /\ temporary[c] \in FileType /\ temporary[c].by = c /\ temporary[c].state = "whole"
              /\ FromPin(c, temporary[c].of)
            BY <1>4, <2>1 DEF Publish, At, ConverterInv
        <3>2. artifact'.by = c /\ artifact'.state = "whole" /\ artifact'.of = temporary[c].of
            BY <2>1, <3>1 DEF Publish, FileType
        <3> QED BY <1>1, <3>1, <3>2 DEF Vetted, FromPin
    <2>2. CASE UNCHANGED artifact
        BY <1>1, <2>2 DEF VettedInv, Vetted, FromPin
    <2> QED BY <2>1, <2>2 DEF Convert, ValidatedInput, LoadInput, Write, Written, Recheck, ConverterEnds
<1>7. Vetted(serving)' /\ Vetted(loading.file)'
    BY <1>1 DEF VettedInv, Vetted, FromPin
<1> QED BY <1>3, <1>5, <1>6, <1>7 DEF VettedInv

LEMMA ControlKeepsVetted ==
  ASSUME DeliveryTypeOK, VettedInv, ControlNext, UNCHANGED converterVars
  PROVE  VettedInv'
<1>1. UNCHANGED <<input, changed, converter, temporary, artifact>>
    BY DEF converterVars
<1>2. ASSUME NEW c \in Converters PROVE ConverterInv(c)'
    BY <1>1, OthersKeepConverting DEF VettedInv
<1>3. serving' \in {serving, loading.file, NoFile} /\ loading'.file \in {loading.file, artifact, NoFile}
    <2>1. ASSUME NEW o \in Operators, RunScript(o) \/ Interrupt(o) \/ TakeUnload(o)
          PROVE  UNCHANGED <<serving, loading>>
        BY <2>1 DEF RunScript, Post, PostReturns, PollReady, PollIndex, Interrupt, TakeUnload, tritonVars
    <2>2. ASSUME NEW o \in Operators, TakeLoad(o) \/ Unloaded(o)
          PROVE  /\ serving' \in {serving, NoFile}
                 /\ loading'.file \in {loading.file, artifact}
        BY <2>2 DEF TakeLoad, Unloaded
    <2>3. CASE Loaded
        BY <2>3 DEF Loaded
    <2> QED BY <2>1, <2>2, <2>3 DEF ControlNext, Triton
<1>4. Vetted(artifact)' /\ Vetted(serving)' /\ Vetted(loading.file)'
    BY <1>1, <1>3 DEF VettedInv, Vetted, FromPin
<1> QED BY <1>2, <1>4 DEF VettedInv

----------------------------------------------------------------------------
(* What the scripts know of the server.                                     *)

LEMMA InitFresh == Init => FreshInv /\ OutageInv
  BY ControlAssumption
  DEF Init, ConverterInit, ControlInit, FreshInv, RequestInv, HasLoaded, OutageInv, Serial

LEMMA SerialGrows ==
  ASSUME DeliveryTypeOK, VettedInv, ConverterNext
  PROVE  Serial \in Nat /\ Serial' \in Nat /\ Serial <= Serial'
<1>1. Serial \in Nat
    BY DEF Serial, DeliveryTypeOK, FileType
<1>2. CASE UNCHANGED artifact
    BY <1>1, <1>2 DEF Serial
<1>3. ASSUME NEW c \in Converters, Publish(c)
      PROVE  Serial' = Serial + 1
    <2>1. temporary[c] \in FileType /\ artifact' = [temporary[c] EXCEPT !.serial = Serial + 1]
        BY <1>3 DEF Publish, At, VettedInv, ConverterInv
    <2>2. artifact' \in FileType /\ artifact'.serial = Serial + 1
        BY <1>1, <2>1 DEF FileType
    <2> QED BY <2>2, FileAssumption DEF Serial
<1> QED BY <1>1, <1>2, <1>3 DEF ConverterNext, Convert, ReplaceInput, ValidatedInput, LoadInput, Write,
                             Written, Recheck, ConverterEnds

LEMMA ConverterKeepsFresh ==
  ASSUME DeliveryTypeOK, VettedInv, FreshInv, OutageInv, ConverterNext, UNCHANGED controlVars
  PROVE  FreshInv' /\ OutageInv'
<1>1. ASSUME NEW o \in Operators PROVE RequestInv(o)' /\ (HasLoaded(o)' => Fresh(serving, o)' /\ Fresh(loading.file, o)')
    <2>1. RequestInv(o) /\ since[o] \in Nat
        BY DEF FreshInv, DeliveryTypeOK
    <2>2. (since[o] <= Serial)'
        BY <2>1, SerialGrows DEF RequestInv, controlVars
    <2>3. RequestInv(o)'
        BY <2>1, <2>2 DEF RequestInv, Fresh, controlVars
    <2> QED BY <2>3 DEF FreshInv, HasLoaded, Fresh, controlVars
<1>2. OutageInv'
    BY DEF OutageInv, HasLoaded, controlVars
<1> QED BY <1>1, <1>2 DEF FreshInv

\* A step of one script leaves what the others know alone.
LEMMA OthersStayFresh ==
  ASSUME FreshInv, NEW o \in Operators, UNCHANGED <<artifact, serving, loading>>,
         since'[o] = since[o], script'[o] = script[o], request'[o] = request[o],
         reply'[o] = reply[o], stage'[o] = stage[o]
  PROVE  RequestInv(o)' /\ (HasLoaded(o)' => Fresh(serving, o)' /\ Fresh(loading.file, o)')
<1>1. Serial' = Serial
    BY DEF Serial
<1>2. RequestInv(o)'
    BY <1>1 DEF FreshInv, RequestInv, Fresh
<1> QED BY <1>2 DEF FreshInv, HasLoaded, Fresh

LEMMA ScriptKeepsFresh ==
  ASSUME DeliveryTypeOK, DeliveryTypeOK', FreshInv, NEW o \in Operators,
         RunScript(o) \/ Interrupt(o), UNCHANGED converterVars
  PROVE  FreshInv'
<1> DEFINE Knows(q) ==
        RequestInv(q) /\ (HasLoaded(q) => Fresh(serving, q) /\ Fresh(loading.file, q))
<1>1. UNCHANGED <<artifact, serving, loading>> /\ Serial' = Serial /\ Serial \in Nat
    BY DEF RunScript, Post, PostReturns, PollReady, PollIndex, Interrupt, tritonVars, converterVars,
           Serial, DeliveryTypeOK, FileType
<1>2. ASSUME NEW q \in Operators \ {o} PROVE Knows(q)'
    <2>1. /\ since'[q] = since[q] /\ script'[q] = script[q] /\ request'[q] = request[q]
          /\ reply'[q] = reply[q] /\ stage'[q] = stage[q]
        BY DEF RunScript, Post, PostReturns, PollReady, PollIndex, PollAgain, Interrupt, Fail, tritonVars,
               DeliveryTypeOK
    <2> QED BY <1>1, <2>1, OthersStayFresh
<1>3. RequestInv(o) /\ Knows(o)
    BY DEF FreshInv
<1>4. Knows(o)'
    <2>1. CASE Post(o)
        <3>1. script[o] \in {"new", "next"} /\ script'[o] \in {"posted", "failed"}
            BY <2>1 DEF Post, Fail, DeliveryTypeOK
        <3>2. since'[o] <= Serial
            BY <1>1, <1>3, <2>1 DEF Post, Serial, RequestInv, DeliveryTypeOK, FileType
        <3>3. loading.for # o
            BY <1>3, <3>1 DEF RequestInv
        <3>4. /\ stage' = stage
              /\ \/ script'[o] = "posted" /\ request'[o] = stage[o] /\ reply'[o] = 0
                 \/ script'[o] = "failed" /\ request'[o] = request[o] /\ reply'[o] = reply[o]
            BY <2>1 DEF Post, Fail, DeliveryTypeOK
        <3>5. stage[o] \in {"load", "unload"}
            BY DEF DeliveryTypeOK
        <3>6. RequestInv(o)'
            BY <1>1, <1>3, <3>1, <3>2, <3>3, <3>4, <3>5 DEF RequestInv
        <3> QED BY <3>4, <3>6 DEF HasLoaded
    <2>2. CASE PostReturns(o)
        <3>1. /\ script[o] = "posted" /\ UNCHANGED <<stage, since, request, reply>>
              /\ script'[o] = "failed" \/ (script'[o] = "polling" /\ reply[o] = 200)
            BY <2>2 DEF PostReturns, Fail, Status, tritonVars, DeliveryTypeOK
        <3>2. RequestInv(o)'
            BY <1>1, <1>3, <3>1 DEF RequestInv, Fresh
        <3> QED BY <1>1, <1>3, <3>1, <3>2 DEF HasLoaded, Fresh
    <2>3. CASE PollReady(o) \/ Interrupt(o)
        <3>1. /\ UNCHANGED <<stage, since, request, reply>>
              /\ \/ script'[o] = "failed" \/ script[o] = script'[o]
                 \/ script[o] = "polling" /\ script'[o] = "ok" /\ stage[o] = "load"
            BY <2>3 DEF PollReady, PollAgain, Interrupt, Fail, tritonVars, DeliveryTypeOK
        <3>2. RequestInv(o)'
            BY <1>1, <1>3, <3>1 DEF RequestInv, Fresh
        <3> QED BY <1>1, <1>3, <3>1, <3>2 DEF HasLoaded, Fresh
    <2>4. CASE PollIndex(o)
        <3>1. /\ UNCHANGED <<since, request, reply>> /\ script[o] = "polling" /\ stage[o] = "unload"
              /\ \/ stage'[o] = "unload" /\ script'[o] \in {"failed", "polling", "ok"}
                 \/ stage'[o] = "load" /\ script'[o] = "next" /\ Script[o] = "reload"
              /\ script'[o] = "ok" => Script[o] # "reload"
            BY <2>4 DEF PollIndex, PollAgain, Fail, tritonVars, DeliveryTypeOK
        <3>2. Script[o] \in {"load", "unload", "reload"}
            BY ControlAssumption
        <3>3. RequestInv(o)'
            BY <1>1, <1>3, <3>1, <3>2 DEF RequestInv, Fresh
        <3> QED BY <3>1, <3>3 DEF HasLoaded
    <2> QED BY <2>1, <2>2, <2>3, <2>4 DEF RunScript
<1> QED BY <1>2, <1>4 DEF FreshInv

\* Another script's request, taken or answered, changes only what is loaded.
LEMMA ServerStepFresh ==
  ASSUME DeliveryTypeOK, FreshInv, NEW o \in Operators, UNCHANGED scriptVars, UNCHANGED artifact,
         request'[o] = request[o], reply'[o] = reply[o],
         serving' \in {serving, NoFile, loading.file}, loading'.for = o => loading' = loading,
         loading'.file \in {loading.file, artifact, NoFile}
  PROVE  RequestInv(o)' /\ (HasLoaded(o)' => Fresh(serving, o)' /\ Fresh(loading.file, o)')
<1>1. RequestInv(o) /\ (HasLoaded(o) => Fresh(serving, o) /\ Fresh(loading.file, o))
    BY DEF FreshInv
<1>2. Serial' = Serial /\ UNCHANGED <<script, stage, polls, since>>
    BY DEF Serial, scriptVars
<1>3. RequestInv(o)'
    BY <1>1, <1>2 DEF RequestInv, Fresh
<1>4. Fresh(artifact, o)
    BY <1>1 DEF RequestInv, Fresh, Serial, DeliveryTypeOK, FileType
<1>5. HasLoaded(o)' => Fresh(serving, o)' /\ Fresh(loading.file, o)'
    BY <1>1, <1>2, <1>4 DEF HasLoaded, Fresh
<1> QED BY <1>3, <1>5

LEMMA TritonKeepsFresh ==
  ASSUME DeliveryTypeOK, FreshInv, Triton, UNCHANGED converterVars
  PROVE  FreshInv'
<1> DEFINE Knows(q) ==
        RequestInv(q) /\ (HasLoaded(q) => Fresh(serving, q) /\ Fresh(loading.file, q))
<1>1. UNCHANGED <<artifact, script, stage, polls, since>> /\ Serial' = Serial /\ UNCHANGED scriptVars
    BY DEF Triton, Loaded, TakeLoad, TakeUnload, Unloaded, converterVars, scriptVars, Serial
<1>2. ASSUME NEW o \in Operators, TakeLoad(o) PROVE FreshInv'
    <2>1. loading.for = "nobody" /\ request[o] = "load" /\ UNCHANGED serving
        BY <1>2 DEF TakeLoad, Busy
    <2>2. /\ request' = [request EXCEPT ![o] = "none"]
          /\ \/ reply' = [reply EXCEPT ![o] = 400] /\ UNCHANGED loading
             \/ artifact # NoFile /\ loading' = [file |-> artifact, for |-> o] /\ UNCHANGED reply
        BY <1>2 DEF TakeLoad
    <2>3. ASSUME NEW q \in Operators \ {o} PROVE Knows(q)'
        <3>1. request'[q] = request[q] /\ reply'[q] = reply[q]
            BY <2>2 DEF DeliveryTypeOK
        <3>2. loading'.for # q \/ loading' = loading
            BY <2>2
        <3>3. loading'.file \in {loading.file, artifact, NoFile}
            BY <2>2
        <3> QED BY <1>1, <2>1, <3>1, <3>2, <3>3, ServerStepFresh
    <2>4. Knows(o)'
        <3>1. RequestInv(o) /\ reply[o] = 0 /\ stage[o] = "load" /\ script[o] # "new"
            BY <2>1 DEF FreshInv, RequestInv
        <3>2. Fresh(artifact, o) /\ o # "nobody"
            BY <3>1, ControlAssumption DEF RequestInv, Fresh, Serial, DeliveryTypeOK, FileType
        <3>3. request'[o] = "none" /\ reply'[o] \in {0, 400}
            BY <2>2, <3>1 DEF DeliveryTypeOK
        <3>4. script[o] \in {"posted", "failed"}
            BY <2>1, <3>1 DEF FreshInv, RequestInv
        <3>5. RequestInv(o)'
            BY <1>1, <2>1, <2>2, <3>1, <3>2, <3>3, <3>4 DEF RequestInv, Fresh
        <3> QED BY <3>3, <3>5 DEF HasLoaded
    <2> QED BY <2>3, <2>4 DEF FreshInv
<1>3. CASE Loaded
    <2>1. PICK o \in Operators : loading.for = o
        BY <1>3 DEF Loaded, DeliveryTypeOK
    <2>2. /\ loading' = [file |-> NoFile, for |-> "nobody"] /\ UNCHANGED request
          /\ \/ serving' = loading.file /\ reply' = [reply EXCEPT ![o] = 200]
             \/ UNCHANGED serving /\ reply' = [reply EXCEPT ![o] = 400]
        BY <1>3, <2>1 DEF Loaded
    <2>3. loading'.for = "nobody" /\ loading'.file = NoFile
        BY <2>2
    <2>4. ASSUME NEW q \in Operators \ {o} PROVE Knows(q)'
        <3>1. request'[q] = request[q] /\ reply'[q] = reply[q]
            BY <2>2 DEF DeliveryTypeOK
        <3>2. loading'.for # q
            BY <2>3, ControlAssumption
        <3> QED BY <1>1, <2>2, <2>3, <3>1, <3>2, ServerStepFresh
    <2>5. Knows(o)'
        <3>1. RequestInv(o) /\ loading'.for # o
            BY <2>3, ControlAssumption DEF FreshInv
        <3>2. reply'[o] = 400 \/ (reply'[o] = 200 /\ serving' = loading.file)
            BY <2>2 DEF DeliveryTypeOK
        <3>3. RequestInv(o)'
            BY <1>1, <2>1, <2>2, <3>1, <3>2 DEF RequestInv
        <3>4. HasLoaded(o)' => Fresh(serving, o)' /\ Fresh(loading.file, o)'
            BY <1>1, <2>1, <2>3, <3>1, <3>2 DEF HasLoaded, Fresh, RequestInv
        <3> QED BY <3>3, <3>4
    <2> QED BY <2>4, <2>5 DEF FreshInv
<1>4. ASSUME NEW o \in Operators, TakeUnload(o) \/ Unloaded(o) PROVE FreshInv'
    <2>1. /\ UNCHANGED loading /\ serving' \in {serving, NoFile}
          /\ request[o] # "none" /\ request'[o] \in {"none", "unloading"}
          /\ \A q \in Operators \ {o} : request'[q] = request[q] /\ reply'[q] = reply[q]
        BY <1>4 DEF TakeUnload, Unloaded, DeliveryTypeOK
    <2>2. ASSUME NEW q \in Operators \ {o} PROVE Knows(q)'
        BY <1>1, <2>1, <2>2, ServerStepFresh
    <2>3. Knows(o)'
        <3>1. RequestInv(o) /\ loading.for # o /\ script[o] # "new"
            BY <2>1 DEF FreshInv, RequestInv
        <3>2. \/ stage[o] = "unload" /\ reply'[o] = 200
              \/ request'[o] = "none" /\ reply' = reply
            BY <1>4, <3>1 DEF TakeUnload, Unloaded, RequestInv, DeliveryTypeOK
        <3>3. RequestInv(o)'
            BY <1>1, <2>1, <3>1, <3>2 DEF RequestInv
        <3>4. HasLoaded(o)' => Fresh(serving, o)' /\ Fresh(loading.file, o)'
            BY <1>1, <2>1, <3>2 DEF HasLoaded, Fresh, FreshInv
        <3> QED BY <3>3, <3>4
    <2> QED BY <2>2, <2>3 DEF FreshInv
<1> QED BY <1>2, <1>3, <1>4 DEF Triton

LEMMA ScriptKeepsOutage ==
  ASSUME DeliveryTypeOK, FreshInv, OutageInv, NEW o \in Operators, RunScript(o) \/ Interrupt(o)
  PROVE  OutageInv'
<1>1. UNCHANGED serving /\ \A q \in Operators \ {o} :
          script'[q] = script[q] /\ reply'[q] = reply[q] /\ stage'[q] = stage[q]
    BY DEF RunScript, Post, PostReturns, PollReady, PollIndex, PollAgain, Interrupt, Fail, tritonVars,
           DeliveryTypeOK
<1>2. script[o] # "failed"
    BY DEF RunScript, Post, PostReturns, PollReady, PollIndex, Interrupt, Ended
<1>3. script'[o] = "failed" \/ (HasLoaded(o)' => HasLoaded(o))
    <2>1. CASE Post(o)
        BY <2>1 DEF Post, Fail, HasLoaded, DeliveryTypeOK
    <2>2. CASE PostReturns(o)
        BY <2>2 DEF PostReturns, Fail, HasLoaded, tritonVars, DeliveryTypeOK
    <2>3. CASE PollReady(o)
        BY <2>3 DEF PollReady, PollAgain, Fail, HasLoaded, tritonVars, DeliveryTypeOK
    <2>4. CASE PollIndex(o)
        <3>1. \/ script'[o] = "failed"
              \/ stage'[o] = "unload"
              \/ script'[o] = "next"
            BY <2>4 DEF PollIndex, PollAgain, Fail, DeliveryTypeOK
        <3> QED BY <3>1 DEF HasLoaded
    <2>5. CASE Interrupt(o)
        BY <2>5 DEF Interrupt, DeliveryTypeOK
    <2> QED BY <2>1, <2>2, <2>3, <2>4, <2>5 DEF RunScript
<1> QED BY <1>1, <1>2, <1>3 DEF OutageInv, HasLoaded

LEMMA TritonKeepsOutage ==
  ASSUME DeliveryTypeOK, FreshInv, OutageInv, Triton
  PROVE  OutageInv'
<1>1. UNCHANGED <<script, stage>>
    BY DEF Triton, Loaded, TakeLoad, TakeUnload, Unloaded, scriptVars
<1>2. ASSUME NEW o \in Operators, TakeLoad(o) PROVE OutageInv'
    <2>1. UNCHANGED serving /\ \A q \in Operators : reply'[q] = 200 => reply[q] = 200
        BY <1>2 DEF TakeLoad, DeliveryTypeOK
    <2> QED BY <1>1, <2>1 DEF OutageInv, HasLoaded
<1>3. CASE Loaded
    <2>1. PICK o \in Operators : loading.for = o
        BY <1>3 DEF Loaded, DeliveryTypeOK
    <2>2. CASE serving' = loading.file
        BY <2>1, <2>2 DEF FreshInv, RequestInv, OutageInv
    <2>3. CASE UNCHANGED serving /\ reply' = [reply EXCEPT ![o] = 400]
        BY <1>1, <2>3 DEF OutageInv, HasLoaded, DeliveryTypeOK
    <2> QED BY <1>3, <2>1, <2>2, <2>3 DEF Loaded
<1>4. ASSUME NEW o \in Operators, TakeUnload(o) PROVE OutageInv'
    <2>1. /\ UNCHANGED serving /\ stage[o] = "unload"
          /\ \A q \in Operators \ {o} : reply'[q] = reply[q]
        BY <1>4 DEF TakeUnload, FreshInv, RequestInv, DeliveryTypeOK
    <2> QED BY <1>1, <2>1 DEF OutageInv, HasLoaded
<1>5. ASSUME NEW o \in Operators, Unloaded(o) PROVE OutageInv'
    <2>1. stage[o] = "unload" \/ script[o] \in {"next", "failed"}
        BY <1>5 DEF Unloaded, FreshInv, RequestInv
    <2> QED BY <1>1, <2>1 DEF OutageInv, HasLoaded
<1> QED BY <1>2, <1>3, <1>4, <1>5 DEF Triton

----------------------------------------------------------------------------

Inv == DeliveryTypeOK /\ VettedInv /\ FreshInv /\ OutageInv

LEMMA NextKeepsInv == Inv /\ [Next]_vars => Inv'
<1> SUFFICES ASSUME Inv, [Next]_vars PROVE Inv'
    OBVIOUS
<1> USE DEF Inv
<1>1. CASE ConverterNext /\ UNCHANGED controlVars
    <2>1. DeliveryTypeOK' /\ FreshInv' /\ OutageInv'
        BY <1>1, ConverterKeepsTypes, ConverterKeepsFresh
    <2>2. VettedInv'
        BY <1>1, ReplaceInputKeepsVetted, ConvertKeepsVetted DEF ConverterNext
    <2> QED BY <2>1, <2>2
<1>2. CASE ControlNext /\ UNCHANGED converterVars
    <2>1. DeliveryTypeOK' /\ VettedInv'
        BY <1>2, ScriptsKeepTypes, TritonKeepsTypes, ControlKeepsVetted DEF ControlNext
    <2>2. FreshInv' /\ OutageInv'
        BY <1>2, <2>1, ScriptKeepsFresh, TritonKeepsFresh, ScriptKeepsOutage, TritonKeepsOutage
        DEF ControlNext
    <2> QED BY <2>1, <2>2
<1>3. CASE UNCHANGED vars
    <2>1. UNCHANGED converterVars /\ UNCHANGED controlVars
        BY <1>3 DEF vars, converterVars, controlVars
    <2>2. UNCHANGED <<input, changed, converter, temporary, artifact>> /\ Serial' = Serial
        BY <2>1 DEF converterVars, Serial
    <2>3. DeliveryTypeOK' /\ VettedInv'
        BY <2>1, <2>2 DEF DeliveryTypeOK, VettedInv, ConverterInv, Vetted, FromPin, controlVars
    <2>4. FreshInv' /\ OutageInv'
        BY <2>1, <2>2 DEF FreshInv, RequestInv, HasLoaded, Fresh, OutageInv, controlVars
    <2> QED BY <2>3, <2>4
<1> QED BY <1>1, <1>2, <1>3 DEF Next, controlVars

\* The invariant is inductive.
THEOREM DeliveryInvariant == Spec => []Inv
<1>1. Init => Inv
    BY InitTyped, InitVetted, InitFresh DEF Inv
<1> QED BY <1>1, NextKeepsInv, PTL DEF Spec

\* Whatever converters race, fail or are killed, only whole models of vetted
\* inputs are published and served (convert/common.py:18-72).
THEOREM ModelsVetted == Spec => []OnlyVettedModels
<1>1. Inv => OnlyVettedModels
    BY DEF Inv, VettedInv, Vetted, FromPin, OnlyVettedModels
<1> QED BY <1>1, DeliveryInvariant, PTL

\* An OK of load.sh or reload.sh is about the file that was there when the
\* script started, or a later one (model_control/load.sh:14-42).
THEOREM OkIsCurrent == Spec => OkMeansCurrent
<1> DEFINE Current ==
        \A o \in Operators : script[o] # "ok" /\ script'[o] = "ok" /\ stage[o] = "load" =>
            serving # NoFile /\ serving.serial >= since[o]
<1>1. Inv /\ [Next]_vars => [Current]_vars
    <2> SUFFICES ASSUME Inv, Next, NEW o \in Operators,
                        script[o] # "ok", script'[o] = "ok", stage[o] = "load"
                 PROVE  serving # NoFile /\ serving.serial >= since[o]
        OBVIOUS
    <2>1. PollReady(o)
        <3>1. ~ConverterNext \/ ~UNCHANGED script
            BY DEF Inv
        <3>2. ~Triton
            BY DEF Triton, Loaded, TakeLoad, TakeUnload, Unloaded, scriptVars
        <3>3. PICK q \in Operators : RunScript(q) \/ Interrupt(q)
            BY <3>1, <3>2 DEF Next, ControlNext
        <3>4. q = o
            BY <3>3 DEF RunScript, Post, PostReturns, PollReady, PollIndex, PollAgain, Interrupt, Fail,
                        Inv, DeliveryTypeOK
        <3>5. ~Post(o) /\ ~PostReturns(o) /\ ~Interrupt(o)
            BY DEF Post, PostReturns, Interrupt, Fail, Inv, DeliveryTypeOK
        <3>6. ~PollIndex(o)
            BY DEF PollIndex, PollAgain, Fail, Inv, DeliveryTypeOK
        <3> QED BY <3>3, <3>4, <3>5, <3>6 DEF RunScript
    <2>2. serving # NoFile /\ script[o] = "polling"
        BY <2>1 DEF PollReady, PollAgain, Fail, Inv, DeliveryTypeOK
    <2>3. HasLoaded(o)
        BY <2>2 DEF Inv, FreshInv, RequestInv, HasLoaded
    <2> QED BY <2>2, <2>3 DEF Inv, FreshInv, Fresh
<1> QED BY <1>1, DeliveryInvariant, PTL DEF Spec, OkMeansCurrent

\* When everything has come to rest the model is served, unless a script said
\* that it failed or was told to unload it (model_control/unload.sh:33-75).
THEOREM NoOutageUnreported == Spec => []NoSilentOutage
<1>1. Inv => NoSilentOutage
    <2> SUFFICES ASSUME Inv, \A o \in Operators : Ended(o), serving = NoFile,
                        NEW o \in Operators, script[o] = "ok", Script[o] # "unload", ~HasLoaded(o)
                 PROVE  FALSE
        BY DEF Inv, OutageInv, NoSilentOutage, Ended
    <2> QED BY DEF Inv, FreshInv, RequestInv, HasLoaded
<1> QED BY <1>1, DeliveryInvariant, PTL

----------------------------------------------------------------------------
(* How long a script can go on.                                             *)

\* A script's steps at most: its POST, the answer, one poll more than MaxPolls,
\* and all of that again if it is in the first half of reload.
ScriptSteps == MaxPolls + 3

Left(phase, again, polled) ==
    (CASE phase \in {"new", "next"} -> ScriptSteps
       [] phase = "posted"          -> ScriptSteps - 1
       [] phase = "polling"         -> ScriptSteps - 2 - polled
       [] OTHER                     -> 0)
    + (IF again /\ phase \notin {"ok", "failed"} THEN ScriptSteps ELSE 0)

Again(o) == stage[o] = "unload" /\ Script[o] = "reload"
StepsLeft(o) == Left(script[o], Again(o), polls[o])

\* The steps of a script, with its phase and polls before and after.
Goes(from, again, p, to, more, q) ==
    \/ from \notin {"ok", "failed"} /\ to \in {"ok", "failed"}
    \/ from \in {"new", "next"} /\ to = "posted" /\ again = more
    \/ from = "posted" /\ to = "polling" /\ again = more /\ q = 0
    \/ from = "polling" /\ to = "polling" /\ again = more /\ q = p + 1
    \/ from = "polling" /\ to = "next" /\ again /\ ~more

LEMMA LeftFalls ==
  ASSUME NEW from \in {"new", "posted", "polling", "next", "ok", "failed"}, NEW to,
         NEW again \in BOOLEAN, NEW more \in BOOLEAN, NEW p \in 0..MaxPolls, NEW q \in 0..MaxPolls,
         Goes(from, again, p, to, more, q)
  PROVE  Left(to, more, q) < Left(from, again, p)
<1>1. MaxPolls \in Nat
    BY ControlAssumption
<1> QED BY <1>1, SMTT(60) DEF Left, Goes, ScriptSteps

LEMMA LeftBounded ==
  ASSUME NEW phase \in {"new", "posted", "polling", "next", "ok", "failed"},
         NEW again \in BOOLEAN, NEW p \in 0..MaxPolls
  PROVE  /\ Left(phase, again, p) \in 0..(2 * (MaxPolls + 3))
         /\ Left(phase, again, p) = 0 <=> phase \in {"ok", "failed"}
<1>1. MaxPolls \in Nat
    BY ControlAssumption
<1> QED BY <1>1, SMTT(60) DEF Left, ScriptSteps

LEMMA ScriptGoes ==
  ASSUME DeliveryTypeOK, NEW o \in Operators, RunScript(o) \/ Interrupt(o)
  PROVE  /\ Goes(script[o], Again(o), polls[o], script'[o], Again(o)', polls'[o])
         /\ \A r \in Operators \ {o} :
                script'[r] = script[r] /\ polls'[r] = polls[r] /\ stage'[r] = stage[r]
<1>1. CASE Post(o)
    BY <1>1 DEF Post, Fail, Goes, Again, DeliveryTypeOK
<1>2. CASE PostReturns(o)
    BY <1>2 DEF PostReturns, Fail, Goes, Again, DeliveryTypeOK
<1>3. CASE PollReady(o)
    BY <1>3 DEF PollReady, PollAgain, Fail, Goes, Again, DeliveryTypeOK
<1>4. CASE PollIndex(o)
    BY <1>4 DEF PollIndex, PollAgain, Fail, Goes, Again, DeliveryTypeOK
<1>5. CASE Interrupt(o)
    BY <1>5 DEF Interrupt, Ended, Goes, DeliveryTypeOK
<1> QED BY <1>1, <1>2, <1>3, <1>4, <1>5 DEF RunScript

\* A script takes at most MaxPolls + 3 steps, and that of reload twice as many:
\* its curl, the answer, and the polls before its deadline.  Nothing the server,
\* the converters or other operators do gives it more
\* (model_control/load.sh:14-42, unload.sh:14-75, reload.sh:15-18).
THEOREM ScriptsRunOut ==
  Spec => /\ []\A o \in Operators :
                 /\ StepsLeft(o) \in 0..(2 * (MaxPolls + 3))
                 /\ StepsLeft(o) = 0 <=> Ended(o)
          /\ [][\A o \in Operators :
                   /\ StepsLeft(o)' <= StepsLeft(o)
                   /\ RunScript(o) => StepsLeft(o)' < StepsLeft(o)]_vars
<1> DEFINE Bounded(o) == StepsLeft(o) \in 0..(2 * (MaxPolls + 3)) /\ (StepsLeft(o) = 0 <=> Ended(o))
<1>1. ASSUME DeliveryTypeOK, NEW o \in Operators PROVE Bounded(o)
    <2>1. /\ script[o] \in {"new", "posted", "polling", "next", "ok", "failed"}
          /\ Again(o) \in BOOLEAN /\ polls[o] \in 0..MaxPolls
        BY <1>1 DEF DeliveryTypeOK, Again
    <2> QED BY <2>1, LeftBounded DEF StepsLeft, Ended
<1>2. ASSUME DeliveryTypeOK, DeliveryTypeOK', NEW o \in Operators, RunScript(o) \/ Interrupt(o)
      PROVE  StepsLeft(o)' < StepsLeft(o)
    <2>1. /\ script[o] \in {"new", "posted", "polling", "next", "ok", "failed"}
          /\ polls[o] \in 0..MaxPolls /\ polls'[o] \in 0..MaxPolls
          /\ Again(o) \in BOOLEAN /\ Again(o)' \in BOOLEAN
        BY <1>2 DEF DeliveryTypeOK, Again
    <2>2. Goes(script[o], Again(o), polls[o], script'[o], Again(o)', polls'[o])
        BY <1>2, ScriptGoes
    <2> QED BY <2>1, <2>2, LeftFalls DEF StepsLeft
<1>3. ASSUME DeliveryTypeOK, DeliveryTypeOK', Next, NEW o \in Operators
      PROVE  /\ StepsLeft(o)' <= StepsLeft(o)
             /\ RunScript(o) => StepsLeft(o)' < StepsLeft(o)
    <2>1. StepsLeft(o) \in Nat
        BY <1>1, <1>3, ControlAssumption
    <2>2. CASE RunScript(o) \/ Interrupt(o)
        <3>1. StepsLeft(o)' \in Nat
            <4>1. /\ script'[o] \in {"new", "posted", "polling", "next", "ok", "failed"}
                  /\ Again(o)' \in BOOLEAN /\ polls'[o] \in 0..MaxPolls
                BY <1>3 DEF DeliveryTypeOK, Again
            <4> QED BY <4>1, LeftBounded, ControlAssumption DEF StepsLeft
        <3> QED BY <1>2, <1>3, <2>1, <2>2, <3>1
    <2>3. CASE ~RunScript(o) /\ ~Interrupt(o)
        <3>1. script'[o] = script[o] /\ polls'[o] = polls[o] /\ stage'[o] = stage[o]
            <4>1. CASE ConverterNext /\ UNCHANGED controlVars
                BY <4>1 DEF controlVars
            <4>2. CASE Triton
                BY <4>2 DEF Triton, Loaded, TakeLoad, TakeUnload, Unloaded, scriptVars
            <4>3. ASSUME NEW q \in Operators \ {o}, RunScript(q) \/ Interrupt(q)
                  PROVE  script'[o] = script[o] /\ polls'[o] = polls[o] /\ stage'[o] = stage[o]
                BY <1>3, <4>3, ScriptGoes
            <4> QED BY <1>3, <2>3, <4>1, <4>2, <4>3 DEF Next, ControlNext, controlVars
        <3>2. StepsLeft(o)' = StepsLeft(o)
            BY <3>1 DEF StepsLeft, Again
        <3> QED BY <2>1, <2>3, <3>2
    <2> QED BY <2>2, <2>3
<1>4. Inv => \A o \in Operators :
                /\ StepsLeft(o) \in 0..(2 * (MaxPolls + 3))
                /\ StepsLeft(o) = 0 <=> Ended(o)
    BY <1>1 DEF Inv
<1>5. Inv /\ Inv' /\ [Next]_vars
      => [\A o \in Operators :
            /\ StepsLeft(o)' <= StepsLeft(o)
            /\ RunScript(o) => StepsLeft(o)' < StepsLeft(o)]_vars
    BY <1>3 DEF Inv
<1> QED BY <1>4, <1>5, DeliveryInvariant, PTL DEF Spec

============================================================================
