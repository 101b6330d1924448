---------------------------- MODULE ModelConverter ----------------------------
(***************************************************************************)
(* scripts/convert: converters (processes) that publish to one destination.*)
(* Each checks the digest of its input, reads the input again, writes a    *)
(* temporary file beside the destination, checks it and renames it.  The   *)
(* input may be replaced at any time, and a process may be killed.         *)
(***************************************************************************)
EXTENDS Naturals

CONSTANTS Converters,
          Rechecked,   \* to_onnx and to_torchscript read their output back
          Inputs,      \* revisions of the input
          Pinned,      \* the --expected-sha256 of each converter, or Unpinned
          Unpinned,
          NoFile

ASSUME ConverterAssumption ==
    /\ Rechecked \subseteq Converters
    /\ Pinned \in [Converters -> Inputs \cup {Unpinned}]
    /\ Unpinned \notin Inputs

VARIABLES
    input,     \* the revision that the input file holds
    changed,   \* converters whose input was replaced after its digest was read
    converter, \* where each converter is
    temporary, \* its temporary file
    artifact   \* the destination

converterVars == <<input, changed, converter, temporary, artifact>>

\* by and serial tell publications apart, whatever was published.
File(of, state, by, serial) == [of |-> of, state |-> state, by |-> by, serial |-> serial]

FileType == [of : Inputs, state : {"empty", "partial", "whole"}, by : Converters, serial : Nat]

ASSUME FileAssumption == NoFile \notin FileType

Serial == IF artifact = NoFile THEN 0 ELSE artifact.serial

ConverterInit ==
    /\ input \in Inputs /\ changed = {}
    /\ converter = [c \in Converters |-> "new"]
    /\ temporary = [c \in Converters |-> NoFile] /\ artifact = NoFile

At(c, phase, next) == converter[c] = phase /\ converter' = [converter EXCEPT ![c] = next]

\* Someone fetches another revision of the input, as long as it is still read.
ReplaceInput ==
    /\ \E c \in Converters : converter[c] \in {"new", "validated"}
    /\ input' \in Inputs \ {input}
    /\ changed' = changed \cup {c \in Converters : converter[c] = "validated"}
    /\ UNCHANGED <<converter, temporary, artifact>>

\* Fault: the digest is computed but not compared.
ValidatedInput_Uncompared(c) ==
    /\ At(c, "new", "validated")
    /\ UNCHANGED <<input, changed, temporary, artifact>>

\* validated_input, validated_output and parse_shape or the profiles.
ValidatedInput(c) ==
    /\ At(c, "new", "validated") /\ Pinned[c] \in {input, Unpinned}
    /\ UNCHANGED <<input, changed, temporary, artifact>>

\* mkstemp or mktemp; and load_pytorch_module, load_model or trtexec opens the
\* path of the input again.
LoadInput(c) ==
    /\ At(c, "validated", "writing")
    /\ temporary' = [temporary EXCEPT ![c] = File(input, "empty", c, 0)]
    /\ UNCHANGED <<input, changed, artifact>>

\* Fault: the converter writes to the destination.
Write_InPlace(c) ==
    /\ converter[c] = "writing"
    /\ artifact' = File(temporary[c].of, "partial", c, Serial + 1)
    /\ UNCHANGED <<input, changed, converter, temporary>>

Write(c) ==
    /\ converter[c] = "writing" /\ temporary[c].state = "empty"
    /\ temporary' = [temporary EXCEPT ![c].state = "partial"]
    /\ UNCHANGED <<input, changed, converter, artifact>>

\* The converter returns.  It may have written nothing; a file that is not a
\* model is expected, and looked for, where the output is read back.
Written(c) ==
    /\ At(c, "writing", "written")
    /\ \E state \in {"whole", "empty"} \cup (IF c \in Rechecked THEN {"partial"} ELSE {}) :
          temporary' = [temporary EXCEPT ![c].state = state]
    /\ UNCHANGED <<input, changed, artifact>>

\* onnx.checker, torch.jit.load, and the test for an empty file.
Recheck(c) ==
    /\ At(c, "written", "checked") /\ temporary[c].state = "whole"
    /\ UNCHANGED <<input, changed, temporary, artifact>>

\* os.replace, mv -f
Publish(c) ==
    /\ At(c, "checked", "done")
    /\ artifact' = [temporary[c] EXCEPT !.serial = Serial + 1]
    /\ temporary' = [temporary EXCEPT ![c] = NoFile]
    /\ UNCHANGED <<input, changed>>

\* An exception: the temporary file is unlinked.  Or the process is killed: the
\* file stays, and since mkstemp never uses its name again it is forgotten here.
ConverterEnds(c) ==
    /\ converter[c] \in {"new", "validated", "writing", "written", "checked"}
    /\ converter' = [converter EXCEPT ![c] = "failed"]
    /\ temporary' = [temporary EXCEPT ![c] = NoFile]
    /\ UNCHANGED <<input, changed, artifact>>

Convert(c) ==
    \/ ValidatedInput(c) \/ LoadInput(c) \/ Write(c) \/ Written(c)
    \/ Recheck(c) \/ Publish(c) \/ ConverterEnds(c)

ConverterNext == ReplaceInput \/ \E c \in Converters : Convert(c)

=============================================================================
