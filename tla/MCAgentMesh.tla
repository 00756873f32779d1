---------------------------- MODULE MCAgentMesh ----------------------------
(* Two agents and one window whose handle is passed on; the peer's other   *)
(* candidates appear as responses on the shared listener.                  *)
EXTENDS AgentMesh

CONSTANTS a1, a2, h1
MCAgents == {a1, a2}
MCWindows == {h1}
MCRecovering == {a1}
=============================================================================
