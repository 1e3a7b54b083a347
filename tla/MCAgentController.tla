------------------------- MODULE MCAgentController -------------------------
(***************************************************************************)
(* Small instances of AgentController.                                     *)
(***************************************************************************)
EXTENDS AgentProperties, TLC

CONSTANTS t1, t2, a, b, toolA, toolB

Call1 == [id |-> a, tool |-> toolA]
Call2 == [id |-> b, tool |-> toolB]

\* One call, and two calls of different tools.
DistinctPlans == {<<Call1>>, <<Call1, Call2>>}
\* One plan of one call.
OnePlan == {<<Call1>>}

TaskSymmetry == Permutations(Tasks)
=============================================================================
