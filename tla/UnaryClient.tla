----------------------------- MODULE UnaryClient -----------------------------
(* client/base.py: what the unary clients share.                             *)
EXTENDS BatchedModels

VARIABLE got \* what each call of infer_numpy() has returned

\* Fault: a response that lacks an output is returned without it.
Collected_Partial(response) == response.kind # "error"

\* collect_numpy_outputs: every requested output, or an exception.
Collected(response) == response.kind = "output"

=============================================================================
