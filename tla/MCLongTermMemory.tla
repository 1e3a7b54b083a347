-------------------------- MODULE MCLongTermMemory --------------------------
(***************************************************************************)
(* Three candidates: one that needs approval, an explicit one and one with *)
(* a sensitive text.                                                       *)
(***************************************************************************)
EXTENDS LongTermMemory, TLC

CONSTANTS useful, wish, secret, agent, host

SmallContent == useful :> "fact" @@ wish :> "fact" @@ secret :> "password"
CallerSymmetry == Permutations(Callers)
=============================================================================
