---------------------------- MODULE MCDurableJob ----------------------------
(* Small instances of DurableJob for TLC.                                  *)
EXTENDS DurableJob, TLC

CONSTANTS r1, r2, scan, sync

MCKinds == {scan, sync}
\* r2 is an older build, without a handler for sync.
MCRegistered == (r1 :> {scan, sync}) @@ (r2 :> {scan})
MCRegisteredAll == [w \in Runners |-> Kinds]
MCMaxAttempts == (scan :> 2) @@ (sync :> 2)
MCDelay == <<1, 2>>
=============================================================================
