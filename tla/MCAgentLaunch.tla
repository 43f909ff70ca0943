--------------------------- MODULE MCAgentLaunch ---------------------------
(* Small instances of AgentLaunch for TLC.                                 *)
EXTENDS AgentLaunch, TLC

CONSTANTS p1, hermes, odysseus, agent, other, script

MCTypeOf == (agent :> hermes) @@ (other :> odysseus) @@ (script :> "script")
MCProcessOf == [l \in Launches |-> p1]
=============================================================================
