--------------------------- MODULE MCTaskOperation ---------------------------
(* Small instances of TaskOperation for TLC.                               *)
EXTENDS TaskOperation, TLC

CONSTANTS w1, w2, k1

\* The owner decides on the request whose outcome is unknown, and again when
\* the outcome of the run he approved is unknown.
MCDecided == {<<"operation", k1>>, <<"operation", 1>>}
=============================================================================
