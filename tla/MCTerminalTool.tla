--------------------------- MODULE MCTerminalTool ---------------------------
(***************************************************************************)
(* One call, or a call and its retry; the agent and the host that cancel.  *)
(***************************************************************************)
EXTENDS TerminalTool, TLC

CONSTANTS r1, r2, agent, host
=============================================================================
