------------------------------ MODULE StopGate ------------------------------
(***************************************************************************)
(* What the agent promises its host about the emergency stop, and nothing  *)
(* else of the agent.  Before every operation with an effect outside the   *)
(* process (a model request, a tool call) the agent looks at the latch and *)
(* obtains a permit to begin one operation.  Between the look and the      *)
(* operation the host may latch the stop: an operation that begins after   *)
(* that is late.  Hermes cannot promise that none is late, because the     *)
(* look and the beginning are two steps of one thread; it promises that    *)
(* there is no second one.                                                 *)
(*                                                                         *)
(* AgentController implements this specification.                          *)
(***************************************************************************)
EXTENDS Naturals

VARIABLES
    stopped,    \* EmergencyStop is triggered
    permit,     \* the agent has seen the latch open and may begin one operation
    busy,       \* a model request or a tool call is in progress
    late        \* how many operations began with the stop latched

vars == <<stopped, permit, busy, late>>

TypeOK ==
    /\ stopped \in BOOLEAN
    /\ permit \in BOOLEAN
    /\ busy \in BOOLEAN
    /\ late \in Nat

Init ==
    /\ stopped = FALSE
    /\ permit = FALSE
    /\ busy = FALSE
    /\ late = 0

\* The host latches the stop.  Nothing ever opens the latch again.
Stop ==
    /\ stopped' = TRUE
    /\ UNCHANGED <<permit, busy, late>>

\* The agent looks at the latch between two operations and finds it open.
TakePermit ==
    /\ ~stopped
    /\ ~permit
    /\ ~busy
    /\ permit' = TRUE
    /\ UNCHANGED <<stopped, busy, late>>

\* A permit is given back when the call is rejected or the task is cancelled.
ReturnPermit ==
    /\ permit
    /\ permit' = FALSE
    /\ UNCHANGED <<stopped, busy, late>>

\* The permit is used: it covers one operation.
Begin ==
    /\ permit
    /\ permit' = FALSE
    /\ busy' = TRUE
    /\ late' = IF stopped THEN late + 1 ELSE late
    /\ UNCHANGED stopped

End ==
    /\ busy
    /\ busy' = FALSE
    /\ UNCHANGED <<stopped, permit, late>>

Next == Stop \/ TakePermit \/ ReturnPermit \/ Begin \/ End

Spec == Init /\ [][Next]_vars

\* The promise: at most one operation begins with the stop latched.
AtMostOneLate == late <= 1

\* Why it holds: a late operation has used the only permit there was, and with
\* the latch closed no other one is taken.
LateSpentThePermit == late = 1 => stopped /\ ~permit

Inv == TypeOK /\ AtMostOneLate /\ LateSpentThePermit
=============================================================================
