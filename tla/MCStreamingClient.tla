------------------------- MODULE MCStreamingClient -------------------------
\* Instances of StreamingClient for TLC.
EXTENDS StreamingClient

CONSTANTS a1, s1, c1

OneAsync == {a1}
OneSync == {s1}
OneCloser == {c1}
Nobody == {}

=============================================================================
