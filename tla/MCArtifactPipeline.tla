------------------------- MODULE MCArtifactPipeline -------------------------
(* Instances of ArtifactPipeline for TLC. *)
EXTENDS ArtifactPipeline

CONSTANTS p1, p2, b1, b2, m1, m2, f1, v1, v2

OnePid == {p1}
TwoPids == {p1, p2}
OneBuilder == {b1}
TwoBuilders == {b1, b2}
NoBuilder == {}
TwoModels == {m1, m2}
OnePart == {f1}
TwoRevisions == {v1, v2}
ModelFiles == Models \X Parts

============================================================================
