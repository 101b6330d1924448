------------------------- MODULE MCReleasePipeline -------------------------
(* Instances of ReleasePipeline for TLC. *)
EXTENDS ReleasePipeline, TLC

CONSTANTS s1, d1, d2

\* One commit that is built twice, with different results.
OneSha == {s1}
TwoBuilds == {d1, d2}
SameSource == [d \in TwoBuilds |-> s1]
BuildSymmetry == Permutations(TwoBuilds)

============================================================================
