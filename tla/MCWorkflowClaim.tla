--------------------------- MODULE MCWorkflowClaim ---------------------------
(* Small instances of WorkflowClaim for TLC. *)
EXTENDS WorkflowClaim

CONSTANTS w1, w2

MCIntakes == {<<"ready", FALSE>>, <<"needs_approval", TRUE>>}
=============================================================================
