---------------------------- MODULE MCOpsControl ----------------------------
(* Small instances of OpsControl for TLC.                                  *)
EXTENDS OpsControl, TLC

CONSTANTS r1, r2, s1, s2, v1, v2

MCModes == {"paused", "approval_required", "autonomous_safe"}
Symmetry == Permutations(Resumers) \cup Permutations(Verifiers)
              \cup Permutations(Setters)
=============================================================================
