------------------------ MODULE TerminalToolProofs ------------------------
(***************************************************************************)
(* Theorems about TerminalTool, for any number of calls and cancellers.    *)
(***************************************************************************)
EXTENDS TerminalTool, TLAPS

USE DEF toolVars, runVars, cancelVars, historyVars

\* Boolean variables are kept apart from the rest of the type.
LEMMA FlagType == TypeOK /\ [Next]_vars => cancelRequested' \in BOOLEAN
<1> SUFFICES ASSUME cancelRequested \in BOOLEAN, [Next]_vars
             PROVE  cancelRequested' \in BOOLEAN
    BY DEF TypeOK
<1>1. \/ UNCHANGED cancelRequested
      \/ cancelRequested' = FALSE
      \/ cancelRequested' = TRUE
    BY DEF Next, vars, RunStep, CancelStep, Refuse, Accept, Clear, Spawn, SpawnFails, Publish,
        Poll, SeeCancel, SeeDeadline, Sleep, Terminate, Join, Cleanup, ChildEnds,
        RequestCancel, ReadProcess, KillProcess
<1> QED BY <1>1, Zenon

LEMMA RunType ==
    ASSUME TypeOK, NEW r \in Runs, RunStep(r) \/ ChildEnds(r)
    PROVE  /\ process' \in Runs \cup {None}
           /\ pc' \in [Runs -> Labels]
           /\ child' \in [Runs -> {"none", "running", "succeeded", "failed", "killed"}]
           /\ outcome' \in [Runs -> Outcomes]
           /\ overlapped' \subseteq Runs
           /\ UNCHANGED <<cancelPc, target, caught>>
<1> USE DEF TypeOK, Labels, LiveLabels, Outcomes, Goto, SetChild, SetOutcome
<1>1. CASE Refuse(r) \/ Accept(r) \/ Clear(r) \/ Spawn(r) \/ SpawnFails(r) \/ Publish(r)
    BY <1>1 DEF Refuse, Accept, Working, Clear, Spawn, SpawnFails, Publish
<1>2. CASE Poll(r) \/ SeeCancel(r) \/ SeeDeadline(r) \/ Sleep(r)
    BY <1>2 DEF Poll, SeeCancel, SeeDeadline, Sleep
<1>3. CASE Terminate(r) \/ Cleanup(r) \/ ChildEnds(r)
    BY <1>3 DEF Terminate, Killed, Cleanup, ChildEnds
<1>4. CASE Join(r)
    BY <1>4 DEF Join, ByReturnCode
<1> QED BY <1>1, <1>2, <1>3, <1>4 DEF RunStep

LEMMA CancelType ==
    ASSUME TypeOK, NEW k \in Cancellers, CancelStep(k)
    PROVE  /\ cancelPc' \in [Cancellers -> {"idle", "read", "kill"}]
           /\ target' \in [Cancellers -> Runs \cup {None}]
           /\ child' \in [Runs -> {"none", "running", "succeeded", "failed", "killed"}]
           /\ caught' \subseteq Runs
           /\ UNCHANGED <<process, pc, outcome, overlapped>>
<1> USE DEF TypeOK, GotoCancel
<1>1. CASE RequestCancel(k)
    BY <1>1 DEF RequestCancel
<1>2. CASE ReadProcess(k)
    BY <1>2 DEF ReadProcess
<1>3. CASE KillProcess(k)
    BY <1>3 DEF KillProcess, SetChild, Killed
<1> QED BY <1>1, <1>2, <1>3 DEF CancelStep

LEMMA StepType == TypeOK /\ [Next]_vars => TypeOK'
<1> SUFFICES ASSUME TypeOK, [Next]_vars
             PROVE  TypeOK'
    OBVIOUS
<1>0. cancelRequested' \in BOOLEAN
    BY FlagType
<1>1. CASE UNCHANGED vars
    BY <1>0, <1>1 DEF TypeOK, vars
<1>2. CASE \E r \in Runs : RunStep(r) \/ ChildEnds(r)
    BY <1>0, <1>2, RunType DEF TypeOK
<1>3. CASE \E k \in Cancellers : CancelStep(k)
    BY <1>0, <1>3, CancelType DEF TypeOK
<1> QED BY <1>1, <1>2, <1>3 DEF Next

LEMMA InitInv == Init => Inv
<1> SUFFICES ASSUME Init
             PROVE  Inv
    OBVIOUS
<1>1. cancelRequested \in BOOLEAN
    BY Zenon DEF Init
<1>2. TypeOK
    BY <1>1 DEF Init, TypeOK, Labels, LiveLabels, Outcomes
<1>3. NoCommandOutlivesItsCall
    BY DEF Init, NoCommandOutlivesItsCall
<1> QED BY <1>2, <1>3 DEF Inv

LEMMA StepInv == Inv /\ [Next]_vars => Inv'
<1> SUFFICES ASSUME Inv, [Next]_vars
             PROVE  Inv'
    OBVIOUS
<1> USE DEF NoCommandOutlivesItsCall
<1>0. TypeOK /\ NoCommandOutlivesItsCall /\ TypeOK'
    BY StepType DEF Inv
<1>1. CASE UNCHANGED vars
    BY <1>0, <1>1 DEF Inv, vars
<1>2. ASSUME NEW r \in Runs, RunStep(r) \/ ChildEnds(r)
      PROVE  NoCommandOutlivesItsCall'
    <2> USE DEF TypeOK, LiveLabels, Goto, SetChild
    <2>1. CASE \/ Refuse(r) \/ Accept(r) \/ Clear(r) \/ Spawn(r) \/ SpawnFails(r)
               \/ Publish(r) \/ SeeCancel(r) \/ SeeDeadline(r) \/ Sleep(r)
        BY <1>0, <2>1 DEF Refuse, Accept, Clear, Spawn, SpawnFails, Publish, SeeCancel,
            SeeDeadline, Sleep
    <2>2. CASE Poll(r) \/ Join(r) \/ Cleanup(r)
        BY <1>0, <2>2 DEF Poll, Join, Cleanup
    <2>3. CASE Terminate(r) \/ ChildEnds(r)
        BY <1>0, <2>3 DEF Terminate, Killed, ChildEnds
    <2> QED BY <1>2, <2>1, <2>2, <2>3 DEF RunStep
<1>3. ASSUME NEW k \in Cancellers, CancelStep(k)
      PROVE  NoCommandOutlivesItsCall'
    BY <1>0, <1>3 DEF CancelStep, RequestCancel, ReadProcess, KillProcess, SetChild, Killed,
        TypeOK
<1> QED BY <1>0, <1>1, <1>2, <1>3 DEF Next, Inv

\* The tool's fields, and the locals of its threads, keep their types.
THEOREM TypeCorrect == Spec => []TypeOK
<1>1. Inv => TypeOK BY DEF Inv
<1> QED BY <1>1, InitInv, StepInv, PTL DEF Spec

\* However calls overlap and whoever cancels, no call returns while its process
\* runs on.
THEOREM NoCommandIsLeftRunning == Spec => []NoCommandOutlivesItsCall
<1>1. Inv => NoCommandOutlivesItsCall BY DEF Inv
<1> QED BY <1>1, InitInv, StepInv, PTL DEF Spec

-----------------------------------------------------------------------------
(* A call that is alone *)

AloneInv == Inv /\ LoneIsAlone /\ CaughtIsRemembered /\ CaughtCommandDoesNotSucceed

\* A call that begins takes every call in progress into overlapped with it; no
\* other step makes two calls be in progress.
LEMMA LoneStep ==
    ASSUME AloneInv, [Next]_vars
    PROVE  LoneIsAlone'
<1> USE DEF AloneInv, Inv, TypeOK, LoneIsAlone, Working
<1>1. CASE UNCHANGED vars
    BY <1>1 DEF vars
<1>2. ASSUME NEW k \in Cancellers, CancelStep(k)
      PROVE  LoneIsAlone'
    BY <1>2, CancelType
<1>3. ASSUME NEW r \in Runs, RunStep(r) \/ ChildEnds(r)
      PROVE  LoneIsAlone'
    <2>1. CASE Accept(r)
        <3>1. CASE Working = {}
            BY <2>1, <3>1 DEF Accept, Goto
        <3>2. CASE Working # {}
            BY <2>1, <3>2 DEF Accept, Goto
        <3> QED BY <3>1, <3>2
    <2>2. CASE ~Accept(r)
        <3>1. UNCHANGED overlapped /\ Working' \subseteq Working
            BY <1>3, <2>2 DEF RunStep, Refuse, Clear, Spawn, SpawnFails, Publish, Poll, SeeCancel,
                SeeDeadline, Sleep, Terminate, Join, Cleanup, ChildEnds, Goto
        <3> QED BY <3>1
    <2> QED BY <2>1, <2>2
<1> QED BY <1>1, <1>2, <1>3 DEF Next

LEMMA AloneRunStep ==
    ASSUME AloneInv, NEW r \in Runs, RunStep(r) \/ ChildEnds(r)
    PROVE  CaughtIsRemembered' /\ CaughtCommandDoesNotSucceed'
<1>1. caught' = caught /\ caught \subseteq Runs /\ overlapped \subseteq overlapped'
    <2>1. overlapped \subseteq overlapped'
        BY DEF RunStep, Refuse, Accept, Clear, Spawn, SpawnFails, Publish, Poll, SeeCancel,
            SeeDeadline, Sleep, Terminate, Join, Cleanup, ChildEnds
    <2> QED BY <2>1, RunType DEF AloneInv, Inv, TypeOK
<1> USE <1>1 DEF AloneInv, Inv, TypeOK, CaughtIsRemembered,
        CaughtCommandDoesNotSucceed, Goto, SetChild, SetOutcome
<1>2. CASE Refuse(r) \/ Accept(r) \/ Spawn(r) \/ SpawnFails(r) \/ Publish(r)
    BY <1>2 DEF Refuse, Accept, Spawn, SpawnFails, Publish
<1>3. CASE Clear(r)
    <2>1. \A s \in caught \ overlapped :
            pc[s] \notin {"publish", "poll", "check", "terminate", "join"}
        BY <1>3 DEF Clear, LoneIsAlone, Working
    <2> QED BY <1>3, <2>1 DEF Clear
<1>4. CASE Poll(r) \/ SeeCancel(r) \/ SeeDeadline(r) \/ Sleep(r)
    BY <1>4 DEF Poll, SeeCancel, SeeDeadline, Sleep
<1>5. CASE Terminate(r) \/ Cleanup(r)
    BY <1>5 DEF Terminate, Cleanup
<1>6. CASE ChildEnds(r)
    <2>1. UNCHANGED <<cancelRequested, pc, outcome, caught, overlapped>>
        BY <1>6 DEF ChildEnds
    <2> QED BY <2>1, SMT
<1>7. CASE Join(r)
    BY <1>7 DEF Join, ByReturnCode
<1> QED BY <1>2, <1>3, <1>4, <1>5, <1>6, <1>7 DEF RunStep

LEMMA AloneCancelStep ==
    ASSUME AloneInv, NEW k \in Cancellers, CancelStep(k)
    PROVE  CaughtIsRemembered' /\ CaughtCommandDoesNotSucceed'
<1>1. UNCHANGED <<pc, outcome, overlapped>>
    BY CancelType DEF AloneInv, Inv
<1>2. CASE RequestCancel(k)
    <2>1. cancelRequested' /\ caught' = caught \cup {r \in Runs : child[r] = "running"}
        BY <1>2 DEF RequestCancel
    <2>2. \A r \in Runs : child[r] = "running" =>
            pc[r] \in {"publish", "poll", "check", "terminate"}
        BY DEF AloneInv, Inv, NoCommandOutlivesItsCall, LiveLabels
    <2> QED BY <1>1, <2>1, <2>2 DEF AloneInv, CaughtIsRemembered, CaughtCommandDoesNotSucceed
<1>3. CASE ReadProcess(k) \/ KillProcess(k)
    <2>1. UNCHANGED <<cancelRequested, caught>>
        BY <1>3 DEF ReadProcess, KillProcess
    <2> QED BY <1>1, <2>1 DEF AloneInv, CaughtIsRemembered, CaughtCommandDoesNotSucceed
<1> QED BY <1>2, <1>3 DEF CancelStep

\* A command that was running when it was cancelled is not reported as a success,
\* for any number of calls and cancellers, unless its call overlapped another one.
THEOREM CaughtNeverSucceeds == Spec => []CaughtCommandDoesNotSucceed
<1>1. Init => AloneInv
    BY InitInv DEF Init, AloneInv, LoneIsAlone, Working, CaughtIsRemembered,
        CaughtCommandDoesNotSucceed
<1>2. AloneInv /\ [Next]_vars => AloneInv'
    <2> SUFFICES ASSUME AloneInv, [Next]_vars
                 PROVE  AloneInv'
        OBVIOUS
    <2>0. Inv' /\ LoneIsAlone'
        BY StepInv, LoneStep DEF AloneInv
    <2>1. CASE UNCHANGED vars
        BY <2>0, <2>1 DEF vars, AloneInv, CaughtIsRemembered, CaughtCommandDoesNotSucceed
    <2>2. CASE \E r \in Runs : RunStep(r) \/ ChildEnds(r)
        BY <2>0, <2>2, AloneRunStep DEF AloneInv
    <2>3. CASE \E k \in Cancellers : CancelStep(k)
        BY <2>0, <2>3, AloneCancelStep DEF AloneInv
    <2> QED BY <2>1, <2>2, <2>3 DEF Next
<1>3. AloneInv => CaughtCommandDoesNotSucceed
    BY DEF AloneInv
<1> QED BY <1>1, <1>2, <1>3, PTL DEF Spec
=============================================================================
