-------------------------- MODULE MCApprovedCalls --------------------------
(***************************************************************************)
(* Two calls of the model and three tries, so that one call is retried.    *)
(* Sums and closes need approval.                                          *)
(***************************************************************************)
EXTENDS ApprovedCalls, TLC

CONSTANTS agent, r1, r2, r3, k1, k2, m0, m1, notepad, p1, p2

CloseNeedsApproval ==
    "calculator" :> "approval_required" @@ "application.safe" :> "safe"
        @@ "application.close" :> "approval_required"

On(action) == [action |-> action, application |-> notepad]
Answer(i1, o1, i2, o2) ==
    k1 :> [id |-> i1, operation |-> o1] @@ k2 :> [id |-> i2, operation |-> o2]

\* The calls of one answer, or the same first number in two answers.
MixedAnswers ==
    {Answer(m0, None, m0, None), Answer(m0, None, m1, None),
     Answer(m0, None, m1, On("focus")),
     Answer(m0, None, m0, On("close")), Answer(m0, On("launch"), m1, On("close")),
     Answer(m0, On("status"), m0, On("focus"))}

CloseAgain == {Answer(m0, On("close"), m0, On("close"))}

CallsSymmetry == Permutations(Runs) \cup Permutations(ProcessIds)
=============================================================================
