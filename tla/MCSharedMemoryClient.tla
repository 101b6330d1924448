------------------------ MODULE MCSharedMemoryClient ------------------------
(* Instances of SharedMemoryClient for TLC. *)
EXTENDS SharedMemoryClient

CONSTANTS a, b, c

TwoCallers == {a, b}
OneCloser == {c}

============================================================================
