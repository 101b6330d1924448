-------------------------- MODULE MCInferenceSystem --------------------------
EXTENDS InferenceSystem

CONSTANTS t1, h1, k1, j1, j2

Callers == {t1, h1}
OneTask == {t1}
OneThread == {h1}
SomeServices == {"ensemble", "text", "bls"}

=============================================================================
