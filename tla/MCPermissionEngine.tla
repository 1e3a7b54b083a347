------------------------ MODULE MCPermissionEngine ------------------------
(***************************************************************************)
(* Two threads that decide, a safe requirement, one that needs approval    *)
(* and one the policy does not know.                                       *)
(***************************************************************************)
EXTENDS PermissionEngine, TLC

CONSTANTS c1, c2, i1, i2

SmallPolicy == "calculator" :> "safe" @@ "terminal" :> "approval_required"
CallerAndIdSymmetry == Permutations({c1, c2}) \cup Permutations({i1, i2})
=============================================================================
