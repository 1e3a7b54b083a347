------------------------- MODULE MCComputerUseTool -------------------------
(***************************************************************************)
(* A call that is given up, and its retry or the next action.              *)
(***************************************************************************)
EXTENDS ComputerUseTool, TLC

CONSTANTS c1, c2
=============================================================================
