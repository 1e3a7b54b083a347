----------------------- MODULE AgentControllerProofs -----------------------
(***************************************************************************)
(* What holds of the agent's task loop for every number of tasks, every    *)
(* set of plans and every limit.  The frame lemmas say which actions touch *)
(* a group of variables; an invariant is then proved for these actions.    *)
(***************************************************************************)
EXTENDS AgentProperties, TLAPS

\* Groups of variables that are always looked at together.
USE DEF runVars, sideVars, historyVars

-----------------------------------------------------------------------------
(* Frames *)

\* Only entering a run, suspending it and counting an exchange change the task.
LEMMA TaskFrame ==
    Next => \/ UNCHANGED taskVars
            \/ RunTask \/ ResumeMemoryTask \/ ProposeMemory \/ Observed
    BY DEF Next, AgentStep, WorkerStep, HostStep, LoopTop, IterationLimit, CancelCheck,
           RequestModel, ModelAnswers, ModelFails, Answered, FinalResponse, AdoptPlan,
           Attempt, BeginAttempt, NextAttempt, Call, RefuseCall, AuthorizeRaises, PermitCall, StartCall,
           PollStopped, PollOpen, WaitReturns, WaitAgain, WaitExpires, FinishCall, Observe,
           PlanDone, WorkerStarts, WorkerEnds, TriggerStop, MarkCancelled,
           ReadActiveTool, HookTool, Cancel, agentVars, RaiseStopped, PassCheck, CheckPasses

\* Only adopting a plan, beginning an attempt and observing it change a plan.
LEMMA PlanFrame ==
    Next => UNCHANGED planVars \/ AdoptPlan \/ Attempt \/ Observe
    BY DEF Next, AgentStep, WorkerStep, HostStep, RunTask, ResumeMemoryTask, EnterRun,
           LoopTop, IterationLimit, CancelCheck, RequestModel, ModelAnswers, ModelFails,
           ProposeMemory, Answered, FinalResponse, Call, RefuseCall, AuthorizeRaises,
           PermitCall, StartCall, PollStopped, PollOpen, WaitReturns, WaitAgain,
           WaitExpires, FinishCall, PlanDone, Observed, WorkerStarts, WorkerEnds,
           TriggerStop, MarkCancelled, ReadActiveTool, HookTool, Cancel,
           agentVars, RaiseStopped, PassCheck, CheckPasses

\* Only these actions change the call in progress.
LEMMA CallFrame ==
    Next => \/ UNCHANGED callVars
            \/ StartCall \/ PollStopped \/ WaitReturns \/ WaitExpires \/ FinishCall
            \/ WorkerStarts \/ WorkerEnds
    BY DEF Next, AgentStep, WorkerStep, HostStep, RunTask, ResumeMemoryTask, EnterRun,
           LoopTop, IterationLimit, CancelCheck, RequestModel, ModelAnswers, ModelFails,
           ProposeMemory, Answered, FinalResponse, AdoptPlan, Attempt, BeginAttempt, NextAttempt, Call,
           RefuseCall, AuthorizeRaises, PermitCall, PollOpen, WaitAgain, Observe, PlanDone,
           Observed, TriggerStop, MarkCancelled, ReadActiveTool, HookTool, Cancel, agentVars,
           callVars, RaiseStopped, PassCheck, CheckPasses

\* The workers and the stopping host do not touch what the agent owns.
LEMMA AgentFrame ==
    Next => UNCHANGED agentVars \/ AgentStep \/ RunTask \/ ResumeMemoryTask
    BY DEF Next, WorkerStep, HostStep, WorkerStarts, WorkerEnds, TriggerStop,
           MarkCancelled, ReadActiveTool, HookTool, Cancel, agentVars

-----------------------------------------------------------------------------
(* The helpers on plans return plans *)

\* A function on 1..n is a sequence of length n.
LEMMA FunctionIsSequence ==
    ASSUME NEW S, NEW n \in Nat, NEW f \in [1..n -> S]
    PROVE  f \in Seq(S) /\ Len(f) = n
    OBVIOUS

\* A list of calls becomes a list of pending steps.
LEMMA PendingStepsType ==
    ASSUME NEW calls \in Seq(Calls)
    PROVE  /\ PendingSteps(calls) \in Seq(Steps)
           /\ Len(PendingSteps(calls)) = Len(calls)
<1>1. \A c \in Calls : PendingStep(c) \in Steps
    BY DEF PendingStep, Calls, Steps, Statuses, Outcomes
<1>2. PendingSteps(calls) \in [1..Len(calls) -> Steps] /\ Len(calls) \in Nat
    BY <1>1 DEF PendingSteps
<1> QED
    BY <1>2, FunctionIsSequence, Zenon

\* Marking a step as executing keeps the list a list of steps.
LEMMA MarkExecutingType ==
    ASSUME NEW steps \in Seq(Steps), NEW n \in Nat
    PROVE  /\ MarkExecuting(steps, n) \in Seq(Steps)
           /\ Len(MarkExecuting(steps, n)) = Len(steps)
<1>1. \A s \in Steps : Executing(s, n) \in Steps
    BY DEF Executing, Steps, Statuses
<1>2. MarkExecuting(steps, n) \in [1..Len(steps) -> Steps] /\ Len(steps) \in Nat
    BY <1>1 DEF MarkExecuting
<1> QED
    BY <1>2, FunctionIsSequence, Zenon

\* So does recording an outcome.
LEMMA MarkObservedType ==
    ASSUME NEW steps \in Seq(Steps), PlanTypeOK, step \in 1..Len(planned)
    PROVE  /\ MarkObserved(steps) \in Seq(Steps)
           /\ Len(MarkObserved(steps)) = Len(steps)
<1>1. planned[step] \in Steps
    BY DEF PlanTypeOK
<1>2. Outcome \in Steps
    BY <1>1 DEF Outcome, PlanTypeOK, Steps, Statuses
<1>3. MarkObserved(steps) \in [1..Len(steps) -> Steps] /\ Len(steps) \in Nat
    BY <1>2 DEF MarkObserved
<1> QED
    BY <1>3, FunctionIsSequence, Zenon

-----------------------------------------------------------------------------
(* Each group of variables keeps its type *)

LEMMA TaskTypeStep == TypeOK /\ Next => TaskTypeOK'
<1> SUFFICES ASSUME TypeOK, Next PROVE TaskTypeOK'
    OBVIOUS
<1> USE LimitsAssumption DEF TypeOK, TaskTypeOK
<1>1. CASE RunTask
    BY <1>1 DEF RunTask, EnterRun
<1>2. CASE ResumeMemoryTask
  <2>1. CASE stopped
      BY <1>2, <2>1 DEF ResumeMemoryTask, RaiseStopped, taskVars
  <2>2. CASE ~stopped
    <3>1. suspended \in Tasks /\ checkpoints[suspended] \in Checkpoints
        BY <1>2 DEF ResumeMemoryTask
    <3>2. /\ EnterRun(suspended, checkpoints[suspended].conversation,
                      checkpoints[suspended].iteration)
          /\ checkpoints' = [checkpoints EXCEPT ![suspended] = NoCheckpoint]
          /\ suspended' = None /\ fresh' = fresh
        BY <1>2, <2>2, Zenon DEF ResumeMemoryTask, RaiseStopped
    <3> QED
        BY <3>1, <3>2 DEF EnterRun, Checkpoints, NoCheckpoint
  <2> QED
      BY <2>1, <2>2
<1>3. CASE ProposeMemory
    BY <1>3 DEF ProposeMemory, SaveCheckpoint, Checkpoint, Checkpoints
<1>4. CASE Observed
    BY <1>4 DEF Observed, AppendResults, Leave, MayReplan
<1>5. CASE UNCHANGED taskVars
    BY <1>5 DEF taskVars
<1> QED
    BY <1>1, <1>2, <1>3, <1>4, <1>5, TaskFrame

LEMMA PlanVarsTypeStep ==
    TypeOK /\ StepInPlan /\ AnswerPresent /\ Next => planned' \in Seq(Steps) /\ current' \in Seq(Steps)
<1> SUFFICES ASSUME TypeOK, StepInPlan, AnswerPresent, Next
             PROVE  planned' \in Seq(Steps) /\ current' \in Seq(Steps)
    OBVIOUS
<1> USE DEF TypeOK, PlanTypeOK
<1>1. CASE AdoptPlan
  <2>1. response \in Plans
      BY <1>1 DEF AdoptPlan, AnswerPresent
  <2>2. response \in Seq(Calls)
      BY <1>1, <2>1, PlansAssumption
  <2> QED
      BY <1>1, <2>2, PendingStepsType DEF AdoptPlan
<1>2. CASE Attempt
  <2>1. CASE stopped
      BY <1>2, <2>1, Zenon
      DEF Attempt, RaiseStopped, BeginAttempt, CheckPasses, planVars
  <2>2. CASE ~stopped
    <3>1. current' = MarkExecuting(current, attempts + 1) /\ planned' = planned
        BY <1>2, <2>2, Zenon DEF Attempt, RaiseStopped, BeginAttempt, NextAttempt
    <3> QED
        BY <3>1, MarkExecutingType
  <2> QED
      BY <2>1, <2>2
<1>3. CASE Observe
    BY <1>3, MarkObservedType DEF Observe, StepInPlan, PlanLabels
<1>4. CASE UNCHANGED planVars
    BY <1>4 DEF planVars
<1> QED
    BY <1>1, <1>2, <1>3, <1>4, PlanFrame

\* The agent's local variables, the control variables and the flags: every
\* action assigns them constants, their own value or a value just typed.
LEMMA LocalTypeStep ==
    TypeOK /\ Next =>
        /\ response' \in Plans \cup {None, Final}
        /\ step' \in Nat /\ attempts' \in Nat /\ result' \in Outcomes
    BY DEF TypeOK, PlanTypeOK, CallTypeOK, Outcomes, Errors, Returned, Next, AgentStep,
           WorkerStep, HostStep, RunTask, ResumeMemoryTask, EnterRun, LoopTop,
           IterationLimit, CancelCheck, RequestModel, ModelAnswers, ModelFails,
           ProposeMemory, Answered, FinalResponse, AdoptPlan, Attempt, BeginAttempt, NextAttempt, Call,
           RefuseCall, AuthorizeRaises, PermitCall, StartCall, PollStopped, PollOpen,
           WaitReturns, WaitAgain, EndWait, WaitExpires, FinishCall, Observe, PlanDone,
           Observed, WorkerStarts, WorkerEnds, TriggerStop, MarkCancelled,
           ReadActiveTool, HookTool, Cancel, agentVars, localVars, RaiseStopped,
           PassCheck, CheckPasses, Leave

LEMMA ControlTypeStep == TypeOK /\ Next => ControlTypeOK'
    BY DEF TypeOK, ControlTypeOK, CallTypeOK, States, Labels, Next, AgentStep, WorkerStep,
           HostStep, RunTask, ResumeMemoryTask, EnterRun, LoopTop, IterationLimit,
           CancelCheck, RequestModel, ModelAnswers, ModelFails, ProposeMemory, Answered,
           FinalResponse, AdoptPlan, Attempt, BeginAttempt, NextAttempt, Call, RefuseCall,
           AuthorizeRaises, PermitCall, StartCall, PollStopped, PollOpen, WaitReturns,
           WaitAgain, EndWait, WaitExpires, FinishCall, Observe, PlanDone, Observed,
           WorkerStarts, WorkerEnds, TriggerStop, MarkCancelled,
           ReadActiveTool, HookTool, Cancel, agentVars, hostVars, RaiseStopped, PassCheck, CheckPasses,
           Leave, Goto, CountLate

LEMMA FlagTypeStep == TypeOK /\ Next => FlagTypeOK'
    BY Zenon
       DEF TypeOK, FlagTypeOK, Next, AgentStep, WorkerStep, HostStep, RunTask,
           ResumeMemoryTask, EnterRun, LoopTop, IterationLimit, CancelCheck, RequestModel,
           ModelAnswers, ModelFails, ProposeMemory, Answered, FinalResponse, AdoptPlan,
           Attempt, BeginAttempt, NextAttempt, Call, RefuseCall, AuthorizeRaises, PermitCall, StartCall,
           PollStopped, PollOpen, WaitReturns, WaitAgain, EndWait, WaitExpires, FinishCall,
           Observe, PlanDone, Observed, WorkerStarts, WorkerEnds, TriggerStop,
           MarkCancelled, ReadActiveTool, HookTool, Cancel, agentVars, callVars, hostVars,
           RaiseStopped, PassCheck, CheckPasses, Leave

\* The call in progress belongs to a registered tool.
LEMMA CallTypeStep == TypeOK /\ StepInPlan /\ Next => CallTypeOK'
<1> SUFFICES ASSUME TypeOK, StepInPlan, Next PROVE CallTypeOK'
    OBVIOUS
<1> USE DEF TypeOK, CallTypeOK
<1>1. CASE StartCall
  <2>1. planned[step] \in Steps
      BY <1>1 DEF StartCall, StepInPlan, PlanLabels, PlanTypeOK
  <2>2. planned[step].tool \in Tools
      BY <2>1 DEF Steps, Statuses
  <2> QED
      BY <1>1, <2>2, Zenon DEF StartCall
<1>2. CASE PollStopped \/ WaitReturns \/ WaitExpires \/ FinishCall
    BY <1>2, Zenon DEF PollStopped, WaitReturns, WaitExpires, EndWait, FinishCall
<1>3. CASE WorkerStarts \/ WorkerEnds
    BY <1>3, Zenon DEF WorkerStarts, WorkerEnds
<1>4. CASE UNCHANGED callVars
    BY <1>4, Zenon DEF callVars
<1> QED
    BY <1>1, <1>2, <1>3, <1>4, CallFrame, Zenon

LEMMA TypeStep ==
    TypeOK /\ StepInPlan /\ AnswerPresent /\ Next => TypeOK'
    BY TaskTypeStep, PlanVarsTypeStep, LocalTypeStep, ControlTypeStep, FlagTypeStep,
       CallTypeStep, Zenon
       DEF TypeOK, PlanTypeOK

-----------------------------------------------------------------------------
(* Where the loop is: steps, attempts and iterations *)

\* How the position of the agent may change, except for the actions named last.
LEMMA PositionFrame ==
    Next =>
        \/ UNCHANGED <<pc, planned, step, attempts, iteration, response>>
        \/ /\ pc \in PlanLabels
           /\ pc' \in PlanLabels \ {"attempt"}
           /\ UNCHANGED <<planned, step, attempts, iteration>>
        \/ pc' = "idle" /\ step' = 0 /\ attempts' = 0
        \/ /\ pc \in {"cancelCheck", "request", "answered"}
           /\ pc' \in {"request", "generating", "respond"}
           /\ pc' = "respond" => pc = "answered"
           /\ UNCHANGED <<step, attempts, iteration, response>>
        \/ RunTask \/ ResumeMemoryTask \/ LoopTop \/ ModelAnswers \/ AdoptPlan
        \/ Attempt \/ Observe \/ Observed
    BY DEF Next, AgentStep, WorkerStep, HostStep, IterationLimit, CancelCheck,
           RequestModel, ModelFails, ProposeMemory, Answered, FinalResponse, Call,
           RefuseCall, AuthorizeRaises, PermitCall, StartCall, PollStopped, PollOpen,
           WaitReturns, WaitAgain, EndWait, WaitExpires, FinishCall, PlanDone, WorkerStarts,
           WorkerEnds, TriggerStop, MarkCancelled, ReadActiveTool, HookTool,
           Cancel, agentVars, localVars, planVars, taskVars, RaiseStopped, PassCheck, CheckPasses,
           Leave, Goto, PlanLabels

LEMMA PositionStep ==
    Inv /\ Next =>
        (StepInPlan /\ CountersReset /\ AttemptLeft /\ LimitsRespected /\ AnswerPresent)'
<1> SUFFICES ASSUME Inv, Next
             PROVE  (StepInPlan /\ CountersReset /\ AttemptLeft /\ LimitsRespected
                        /\ AnswerPresent)'
    OBVIOUS
<1>0. replans' <= MaxReplans
    BY TaskTypeStep, LimitsAssumption DEF Inv, TaskTypeOK
<1> USE <1>0, LimitsAssumption
    DEF Inv, TypeOK, PlanTypeOK, TaskTypeOK, StepInPlan, CountersReset, AttemptLeft,
        LimitsRespected, AnswerPresent, PlanLabels, Goto, Leave
<1>1. CASE UNCHANGED <<pc, planned, step, attempts, iteration, response>>
    BY <1>1
<1>2. CASE /\ pc \in PlanLabels
           /\ pc' \in PlanLabels \ {"attempt"}
           /\ UNCHANGED <<planned, step, attempts, iteration>>
    BY <1>2
<1>3. CASE pc' = "idle" /\ step' = 0 /\ attempts' = 0
    BY <1>3
<1>4. CASE /\ pc \in {"cancelCheck", "request", "answered"}
           /\ pc' \in {"request", "generating", "respond"}
           /\ pc' = "respond" => pc = "answered"
           /\ UNCHANGED <<step, attempts, iteration, response>>
    BY <1>4
<1>5. CASE RunTask
    BY <1>5 DEF RunTask, EnterRun, localVars
<1>6. CASE ResumeMemoryTask
    BY <1>6 DEF ResumeMemoryTask, RaiseStopped, EnterRun, localVars
<1>7. CASE LoopTop
    BY <1>7 DEF LoopTop, RaiseStopped, PassCheck, CheckPasses, localVars, taskVars
<1>8. CASE ModelAnswers
    BY <1>8 DEF ModelAnswers, taskVars
<1>9. CASE AdoptPlan
  <2>1. response \in Seq(Calls) /\ Len(response) > 0
      BY <1>9, PlansAssumption DEF AdoptPlan, Final
  <2>2. planned' = PendingSteps(response) /\ step' = 1 /\ attempts' = 0 /\ pc' = "attempt"
      BY <1>9 DEF AdoptPlan
  <2> QED
      BY <2>1, <2>2, PendingStepsType
<1>10. CASE Attempt
    BY <1>10 DEF Attempt, RaiseStopped, BeginAttempt, NextAttempt, taskVars
<1>11. CASE Observe
    BY <1>11 DEF Observe, MayRetry, taskVars
<1>12. CASE Observed
    BY <1>12 DEF Observed, AppendResults, planVars
<1> QED
    BY <1>1, <1>2, <1>3, <1>4, <1>5, <1>6, <1>7, <1>8, <1>9, <1>10, <1>11, <1>12,
       PositionFrame, Zenon

-----------------------------------------------------------------------------
(* The call in progress *)

\* The active tool and its labels change together.
LEMMA ActiveToolStep == Inv /\ Next => ActiveToolMatchesCall'
<1> SUFFICES ASSUME Inv, Next PROVE ActiveToolMatchesCall'
    OBVIOUS
<1> USE DEF Inv, ActiveToolMatchesCall
<1>1. CASE StartCall
  <2>1. planned[step] \in Steps
      BY <1>1 DEF StartCall, StepInPlan, PlanLabels, TypeOK, PlanTypeOK
  <2>2. activeTool' # None /\ pc' = "polling"
      BY <1>1, <2>1, NoneAssumption DEF StartCall, Steps, Statuses, Goto
  <2> QED
      BY <2>2
<1>2. CASE PollStopped \/ PollOpen \/ WaitReturns \/ WaitAgain \/ WaitExpires \/ FinishCall
    BY <1>2 DEF PollStopped, PollOpen, WaitReturns, WaitAgain, WaitExpires, FinishCall,
                EndWait, PassCheck, CheckPasses, callVars, Goto
<1>3. CASE UNCHANGED <<activeTool, pc>>
    BY <1>3
<1>4. CASE /\ UNCHANGED activeTool
           /\ pc \notin {"polling", "waiting", "finish"}
           /\ pc' \notin {"polling", "waiting", "finish"}
    BY <1>4
<1>5. \/ StartCall
      \/ PollStopped \/ PollOpen \/ WaitReturns \/ WaitAgain \/ WaitExpires \/ FinishCall
      \/ UNCHANGED <<activeTool, pc>>
      \/ /\ UNCHANGED activeTool
         /\ pc \notin {"polling", "waiting", "finish"}
         /\ pc' \notin {"polling", "waiting", "finish"}
    BY DEF Next, AgentStep, WorkerStep, HostStep, RunTask, ResumeMemoryTask, EnterRun,
           LoopTop, IterationLimit, CancelCheck, RequestModel, ModelAnswers, ModelFails,
           ProposeMemory, Answered, FinalResponse, AdoptPlan, Attempt, BeginAttempt, NextAttempt, Call,
           RefuseCall, AuthorizeRaises, PermitCall, Observe, PlanDone, Observed,
           WorkerStarts, WorkerEnds, TriggerStop, MarkCancelled,
           ReadActiveTool, HookTool, Cancel, agentVars, callVars, RaiseStopped, PassCheck, CheckPasses,
           Leave, Goto
<1> QED
    BY <1>1, <1>2, <1>3, <1>4, <1>5

-----------------------------------------------------------------------------
(* Tasks and their checkpoints *)

\* A step that does not touch the task starts no run.
LEMMA RunFrame ==
    Next => \/ UNCHANGED taskVars /\ (pc = "idle" => pc' = "idle")
            \/ RunTask \/ ResumeMemoryTask \/ ProposeMemory \/ Observed
    BY DEF Next, AgentStep, WorkerStep, HostStep, LoopTop, IterationLimit, CancelCheck,
           RequestModel, ModelAnswers, ModelFails, Answered, FinalResponse, AdoptPlan,
           Attempt, BeginAttempt, NextAttempt, Call, RefuseCall, AuthorizeRaises, PermitCall, StartCall,
           PollStopped, PollOpen, WaitReturns, WaitAgain, WaitExpires, FinishCall, Observe,
           PlanDone, WorkerStarts, WorkerEnds, TriggerStop, MarkCancelled,
           ReadActiveTool, HookTool, Cancel, agentVars, RaiseStopped, PassCheck, CheckPasses, Goto

LEMMA CheckpointStep ==
    Inv /\ Next =>
        (RunHasTask /\ ConversationMatchesIteration /\ FreshHasNoCheckpoint
            /\ PendingHasCheckpoint)'
<1> SUFFICES ASSUME Inv, Next
             PROVE  (RunHasTask /\ ConversationMatchesIteration /\ FreshHasNoCheckpoint
                        /\ PendingHasCheckpoint)'
    OBVIOUS
<1> USE NoneAssumption
    DEF Inv, TypeOK, TaskTypeOK, RunHasTask, ConversationMatchesIteration,
        FreshHasNoCheckpoint, PendingHasCheckpoint
<1>1. CASE UNCHANGED taskVars /\ (pc = "idle" => pc' = "idle")
    BY <1>1 DEF taskVars
<1>2. CASE RunTask
    BY <1>2 DEF RunTask, EnterRun
<1>3. CASE ResumeMemoryTask
  <2>1. CASE stopped
      BY <1>3, <2>1 DEF ResumeMemoryTask, RaiseStopped, taskVars, Leave, Goto
  <2>2. CASE ~stopped
    <3>1. /\ suspended # None
          /\ checkpoints[suspended] # NoCheckpoint
          /\ EnterRun(suspended, checkpoints[suspended].conversation,
                      checkpoints[suspended].iteration)
          /\ checkpoints' = [checkpoints EXCEPT ![suspended] = NoCheckpoint]
          /\ suspended' = None /\ fresh' = fresh
        BY <1>3, <2>2, Zenon DEF ResumeMemoryTask, RaiseStopped
    <3> QED
        BY <3>1 DEF EnterRun
  <2> QED
      BY <2>1, <2>2
<1>4. CASE ProposeMemory
  <2>1. pc = "generating" /\ task \in Tasks /\ iteration \in 1..MaxIterations
      BY <1>4, LimitsAssumption DEF ProposeMemory, LimitsRespected
  <2>2. Checkpoint # NoCheckpoint
      BY <2>1 DEF Checkpoint, NoCheckpoint
  <2>3. /\ checkpoints' = [checkpoints EXCEPT ![task] = Checkpoint]
        /\ suspended' = task /\ pc' = "idle" /\ fresh' = fresh
      BY <1>4 DEF ProposeMemory, SaveCheckpoint, Leave, Goto
  <2> QED
      BY <2>1, <2>2, <2>3 DEF Checkpoint
<1>5. CASE Observed
    BY <1>5 DEF Observed, AppendResults, Leave, Goto
<1> QED
    BY <1>1, <1>2, <1>3, <1>4, <1>5, RunFrame

-----------------------------------------------------------------------------
(* The invariant *)

LEMMA InitInv == Init => Inv
<1> SUFFICES ASSUME Init PROVE Inv
    OBVIOUS
<1> USE LimitsAssumption DEF Init
<1>1. TaskTypeOK /\ CallTypeOK /\ ControlTypeOK
    BY DEF TaskTypeOK, CallTypeOK, ControlTypeOK, Checkpoints, NoCheckpoint, States, Labels
<1>2. PlanTypeOK
    BY DEF PlanTypeOK, Outcomes
<1>3. FlagTypeOK
    BY Zenon DEF FlagTypeOK
<1>4. /\ StepInPlan /\ CountersReset /\ AttemptLeft /\ LimitsRespected /\ AnswerPresent
      /\ ActiveToolMatchesCall
    BY DEF StepInPlan, CountersReset, AttemptLeft, LimitsRespected, AnswerPresent,
           ActiveToolMatchesCall, PlanLabels
<1>5. /\ RunHasTask /\ ConversationMatchesIteration /\ FreshHasNoCheckpoint
      /\ PendingHasCheckpoint
    BY DEF RunHasTask, ConversationMatchesIteration, FreshHasNoCheckpoint,
           PendingHasCheckpoint
<1> QED
    BY <1>1, <1>2, <1>3, <1>4, <1>5, Zenon DEF Inv, TypeOK

LEMMA StutterInv == Inv /\ UNCHANGED vars => Inv'
<1> SUFFICES ASSUME Inv, UNCHANGED vars PROVE Inv'
    OBVIOUS
<1> USE DEF Inv, vars, taskVars, planVars, localVars, callVars, hostVars
<1>1. TypeOK'
  <2>1. (TaskTypeOK /\ PlanTypeOK /\ CallTypeOK /\ ControlTypeOK)'
      BY DEF TypeOK, TaskTypeOK, PlanTypeOK, CallTypeOK, ControlTypeOK
  <2>2. FlagTypeOK'
      BY Zenon DEF TypeOK, FlagTypeOK
  <2> QED
      BY <2>1, <2>2, Zenon DEF TypeOK
<1>2. (/\ StepInPlan /\ CountersReset /\ AttemptLeft /\ LimitsRespected /\ AnswerPresent
       /\ ActiveToolMatchesCall)'
    BY Zenon DEF StepInPlan, CountersReset, AttemptLeft, LimitsRespected, AnswerPresent,
                 ActiveToolMatchesCall
<1>3. (/\ RunHasTask /\ ConversationMatchesIteration /\ FreshHasNoCheckpoint
       /\ PendingHasCheckpoint)'
    BY Zenon DEF RunHasTask, ConversationMatchesIteration, FreshHasNoCheckpoint,
                 PendingHasCheckpoint
<1> QED
    BY <1>1, <1>2, <1>3, Zenon

LEMMA StepInv == Inv /\ [Next]_vars => Inv'
<1>1. Inv /\ Next => Inv'
    BY TypeStep, PositionStep, ActiveToolStep, CheckpointStep, Zenon DEF Inv
<1> QED
    BY <1>1, StutterInv, Zenon

\* The inductive invariant holds in every reachable state.
THEOREM InvInvariant == Spec => []Inv
    BY InitInv, StepInv, PTL DEF Spec

\* Every variable of the controller, the worker and the host keeps its type.
THEOREM TypeCorrect == Spec => []TypeOK
<1>1. Inv => TypeOK
    BY DEF Inv
<1> QED
    BY InvInvariant, <1>1, PTL

\* No step is attempted more often than max_step_retries + 1 times, and no model
\* request is made past max_iterations, also after any number of resumptions.
THEOREM LimitsAreRespected == Spec => []LimitsRespected
<1>1. Inv => LimitsRespected
    BY DEF Inv
<1> QED
    BY InvInvariant, <1>1, PTL

\* A resumed task neither repeats nor loses an exchange of its conversation.
THEOREM ConversationIsExact == Spec => []ConversationMatchesIteration
<1>1. Inv => ConversationMatchesIteration
    BY DEF Inv
<1> QED
    BY InvInvariant, <1>1, PTL

\* A pending memory decision has a task to continue.
THEOREM PendingIsResumable == Spec => []PendingHasCheckpoint
<1>1. Inv => PendingHasCheckpoint
    BY DEF Inv
<1> QED
    BY InvInvariant, <1>1, PTL

\* The host's stop finds the tool of the call in progress.
THEOREM ActiveToolIsKnown == Spec => []ActiveToolMatchesCall
<1>1. Inv => ActiveToolMatchesCall
    BY DEF Inv
<1> QED
    BY InvInvariant, <1>1, PTL

-----------------------------------------------------------------------------
(* The emergency-stop gate *)

\* Every step of the controller is a step of the gate or does not concern it.
LEMMA GateStep == [Next]_vars => [Gate!Next]_Gate!vars
<1> SUFFICES ASSUME [Next]_vars PROVE [Gate!Next]_Gate!vars
    OBVIOUS
<1> USE DEF PermitLabels, BusyLabels, Gate!vars, Gate!Next, RaiseStopped, PassCheck,
            CheckPasses, Leave, Goto, hostVars, CountLate
<1>1. CASE LoopTop \/ Call
    BY <1>1 DEF LoopTop, Call, Gate!TakePermit
<1>2. CASE CancelCheck \/ RefuseCall \/ AuthorizeRaises \/ PermitCall
    BY <1>2 DEF CancelCheck, RefuseCall, AuthorizeRaises, PermitCall, Gate!ReturnPermit
<1>3. CASE RequestModel \/ StartCall
    BY <1>3 DEF RequestModel, StartCall, Gate!Begin
<1>4. CASE ModelAnswers \/ ModelFails \/ ProposeMemory
    BY <1>4 DEF ModelAnswers, ModelFails, ProposeMemory, Gate!End
<1>5. CASE PollStopped \/ PollOpen \/ WaitReturns \/ WaitAgain \/ WaitExpires
    BY <1>5 DEF PollStopped, PollOpen, WaitReturns, WaitAgain, WaitExpires, EndWait, Gate!End
<1>6. CASE \/ RunTask \/ ResumeMemoryTask \/ IterationLimit \/ Answered \/ FinalResponse
           \/ AdoptPlan \/ Attempt \/ FinishCall \/ Observe \/ PlanDone \/ Observed
    BY <1>6 DEF RunTask, ResumeMemoryTask, EnterRun, IterationLimit, Answered, FinalResponse,
                AdoptPlan, Attempt, BeginAttempt, FinishCall, Observe, PlanDone, Observed
<1>7. CASE TriggerStop
    BY <1>7 DEF TriggerStop, agentVars, Gate!Stop
<1>8. CASE WorkerStep \/ MarkCancelled \/ ReadActiveTool \/ HookTool \/ Cancel
    BY <1>8 DEF WorkerStep, WorkerStarts, WorkerEnds, MarkCancelled,
                ReadActiveTool, HookTool, Cancel, agentVars
<1>9. CASE UNCHANGED vars
    BY <1>9 DEF vars
<1> QED
    BY <1>1, <1>2, <1>3, <1>4, <1>5, <1>6, <1>7, <1>8, <1>9
    DEF Next, AgentStep, HostStep

\* The controller implements the gate.
THEOREM ImplementsGate == Spec => GateSpec
<1>1. Init => Gate!Init
    BY DEF Init, Gate!Init, PermitLabels, BusyLabels
<1> QED
    BY <1>1, GateStep, PTL DEF Spec, GateSpec, Gate!Spec

-----------------------------------------------------------------------------
(* The stop's hook *)

\* Only trigger_emergency_stop moves the host, and the latch.
LEMMA HostFrame ==
    Next => \/ UNCHANGED <<stopped, hostPc>>
            \/ TriggerStop \/ MarkCancelled \/ ReadActiveTool \/ HookTool
    BY DEF Next, AgentStep, WorkerStep, HostStep, RunTask, ResumeMemoryTask, EnterRun,
           LoopTop, IterationLimit, CancelCheck, RequestModel, ModelAnswers, ModelFails,
           ProposeMemory, Answered, FinalResponse, AdoptPlan, Attempt, BeginAttempt, Call,
           RefuseCall, AuthorizeRaises, PermitCall, StartCall, PollStopped, PollOpen,
           WaitReturns, WaitAgain, WaitExpires, FinishCall, Observe, PlanDone, Observed,
           WorkerStarts, WorkerEnds, Cancel, hostVars, RaiseStopped, PassCheck

\* The latch is closed before the tool is read, and when there was one to read the agent
\* was in a call: it has no permit to begin another.
HookOK ==
    /\ hostPc # "idle" => stopped
    /\ hostPc = "hook" => pc \notin PermitLabels

\* A permit is taken with the latch open.
LEMMA PermitNeedsOpenLatch ==
    [Next]_vars => ((pc \in PermitLabels)' => pc \in PermitLabels \/ ~stopped)
BY GateStep DEF Gate!vars, Gate!Next, Gate!Stop, Gate!TakePermit, Gate!ReturnPermit, Gate!Begin, Gate!End

LEMMA HookStep == Inv /\ HookOK /\ [Next]_vars => HookOK'
<1> SUFFICES ASSUME Inv, HookOK, [Next]_vars PROVE HookOK'
    OBVIOUS
<1>1. hostPc # "idle" /\ (pc \in PermitLabels)' => pc \in PermitLabels
    BY PermitNeedsOpenLatch, Zenon DEF HookOK
<1>2. CASE UNCHANGED <<stopped, hostPc>> \/ UNCHANGED vars
    BY <1>1, <1>2, Zenon DEF HookOK, vars, hostVars
<1>3. CASE TriggerStop \/ MarkCancelled
    BY <1>3, Zenon DEF TriggerStop, MarkCancelled, HookOK
<1>4. CASE ReadActiveTool
  <2>1. hostPc' = "hook" => pc \in {"polling", "waiting", "finish"}
      BY <1>4 DEF ReadActiveTool, Inv, ActiveToolMatchesCall
  <2>2. UNCHANGED <<pc, stopped>> /\ stopped
      BY <1>4, Zenon DEF ReadActiveTool, agentVars, HookOK
  <2>3. hostPc' = "hook" => pc' \notin PermitLabels
      BY <2>1, <2>2 DEF PermitLabels
  <2> QED
      BY <2>2, <2>3, Zenon DEF HookOK
<1>5. CASE HookTool
    BY <1>5, Zenon DEF HookTool, HookOK
<1> QED
    BY <1>2, <1>3, <1>4, <1>5, HostFrame, Zenon

\* From the moment the stop has read the tool until it has called its cancel(), whatever
\* the agent does with results, retries, new plans and resumed tasks, no call begins.
THEOREM HookMeetsNoOther == Spec => HookMeetsNoOtherCall
<1>1. Init => HookOK
    BY DEF Init, HookOK
<1>2. HookOK /\ [Next]_vars => [hostPc = "hook" => activeTool' \in {activeTool, None}]_vars
  <2> SUFFICES ASSUME HookOK, Next, hostPc = "hook"
               PROVE  activeTool' \in {activeTool, None}
      OBVIOUS
  <2>1. ~StartCall
      BY DEF StartCall, HookOK, PermitLabels
  <2>2. CASE PollStopped \/ WaitReturns \/ WaitExpires \/ WorkerStarts \/ WorkerEnds
      BY <2>2 DEF PollStopped, WaitReturns, WaitExpires, WorkerStarts, WorkerEnds
  <2>3. CASE FinishCall
      BY <2>3 DEF FinishCall
  <2>4. CASE UNCHANGED callVars
      BY <2>4 DEF callVars
  <2> QED
      BY <2>1, <2>2, <2>3, <2>4, CallFrame
<1> QED
    BY <1>1, <1>2, HookStep, InvInvariant, PTL DEF Spec, HookMeetsNoOtherCall

-----------------------------------------------------------------------------
(* At most one operation is late *)

\* Nothing is late at the start.
LEMMA GateInit == Gate!Init => Gate!Inv
<1> SUFFICES ASSUME Gate!Init PROVE Gate!Inv
    OBVIOUS
<1>1. late \in Nat /\ late <= 1 /\ late # 1
    BY DEF Gate!Init
<1>2. stopped \in BOOLEAN /\ (pc \in PermitLabels) \in BOOLEAN /\ (pc \in BusyLabels) \in BOOLEAN
    BY Zenon DEF Gate!Init
<1> QED
    BY <1>1, <1>2, Zenon DEF Gate!Inv, Gate!TypeOK, Gate!AtMostOneLate, Gate!LateSpentThePermit

\* Only Begin raises the count; when the latch is closed it leaves no permit,
\* and TakePermit needs the latch open.
LEMMA GateStepInv == Gate!Inv /\ [Gate!Next]_Gate!vars => Gate!Inv'
<1> SUFFICES ASSUME Gate!Inv, [Gate!Next]_Gate!vars PROVE Gate!Inv'
    OBVIOUS
<1> USE DEF Gate!Inv, Gate!TypeOK, Gate!AtMostOneLate, Gate!LateSpentThePermit
<1>1. CASE Gate!Stop
    BY <1>1, Zenon DEF Gate!Stop
<1>2. CASE Gate!TakePermit
    BY <1>2, Zenon DEF Gate!TakePermit
<1>3. CASE Gate!ReturnPermit
    BY <1>3, Zenon DEF Gate!ReturnPermit
<1>4. CASE Gate!Begin
  <2>1. stopped' \in BOOLEAN /\ ~(pc \in PermitLabels)' /\ (pc \in BusyLabels)' \in BOOLEAN
      BY <1>4, Zenon DEF Gate!Begin
  <2>2. CASE stopped
    <3>1. late # 1 /\ late' = late + 1 /\ stopped'
        BY <1>4, <2>2, Zenon DEF Gate!Begin
    <3>2. late' \in Nat /\ late' <= 1
        BY <3>1, SMT
    <3>3. Gate!TypeOK' /\ Gate!AtMostOneLate' /\ Gate!LateSpentThePermit'
        BY <2>1, <3>1, <3>2
    <3> QED
        BY <3>3
  <2>3. CASE ~stopped
      BY <1>4, <2>1, <2>3, Zenon DEF Gate!Begin
  <2> QED
      BY <2>2, <2>3
<1>5. CASE Gate!End
    BY <1>5, Zenon DEF Gate!End
<1>6. CASE UNCHANGED Gate!vars
    BY <1>6, Zenon DEF Gate!vars
<1> QED
    BY <1>1, <1>2, <1>3, <1>4, <1>5, <1>6, Zenon DEF Gate!Next

\* The gate, whatever implements it, lets at most one operation begin late.
THEOREM GateIsSafe == Gate!Spec => []Gate!AtMostOneLate
<1>1. Gate!Inv => Gate!AtMostOneLate
    BY DEF Gate!Inv
<1> QED
    BY GateInit, GateStepInv, <1>1, PTL DEF Gate!Spec

\* Therefore at most one operation begins after the emergency stop was latched.
THEOREM AtMostOneLateStartInvariant == Spec => []AtMostOneLateStart
<1>1. Gate!AtMostOneLate => AtMostOneLateStart
    BY DEF Gate!AtMostOneLate, AtMostOneLateStart
<1> QED
    BY <1>1, ImplementsGate, GateIsSafe, PTL DEF GateSpec

-----------------------------------------------------------------------------
(* The progress of a plan whose calls have different ids *)

\* What the actions do to the position in a plan.
LEMMA ProgressFrame ==
    Next =>
        \/ UNCHANGED planVars /\ step' = 0
        \/ /\ UNCHANGED <<planVars, step, attempts>>
           /\ pc' = "planDone" => pc = "planDone" /\ result' = result
        \/ AdoptPlan \/ Attempt \/ Observe
    BY DEF Next, AgentStep, WorkerStep, HostStep, RunTask, ResumeMemoryTask, EnterRun,
           LoopTop, IterationLimit, CancelCheck, RequestModel, ModelAnswers, ModelFails,
           ProposeMemory, Answered, FinalResponse, Call, RefuseCall, AuthorizeRaises,
           PermitCall, StartCall, PollStopped, PollOpen, WaitReturns, WaitAgain, EndWait,
           WaitExpires, FinishCall, PlanDone, Observed, WorkerStarts, WorkerEnds,
           TriggerStop, MarkCancelled, ReadActiveTool, HookTool, Cancel,
           agentVars, localVars, RaiseStopped, PassCheck, CheckPasses, Leave, Goto

\* Beginning an attempt changes the step in progress and no other.
LEMMA AttemptProgress ==
    PlanInv /\ Attempt => (PlanIsMirrored /\ PlanReflectsProgress)'
<1> SUFFICES ASSUME PlanInv, Attempt PROVE (PlanIsMirrored /\ PlanReflectsProgress)'
    OBVIOUS
<1> USE DEF PlanInv, PlanIsMirrored, PlanReflectsProgress
<1>1. step \in 1..Len(planned) /\ current \in Seq(Steps) /\ planned \in Seq(Steps)
    BY DEF Attempt, Inv, StepInPlan, PlanLabels, TypeOK, PlanTypeOK
<1>2. CASE stopped
  <2>1. UNCHANGED planVars /\ step' = 0
      BY <1>2, Zenon DEF Attempt, RaiseStopped, BeginAttempt, CheckPasses, Leave
  <2> QED
      BY <2>1 DEF planVars, DistinctIds
<1>3. CASE ~stopped
  <2>1. /\ attempts' = attempts + 1 /\ step' = step /\ planned' = planned /\ pc' = "call"
        /\ current' = MarkExecuting(current, attempts + 1)
      BY <1>3, Zenon DEF Attempt, RaiseStopped, BeginAttempt, NextAttempt, Goto
  <2>2. \A i \in 1..Len(planned) :
            current'[i] = IF i = step THEN Executing(current[i], attempts + 1) ELSE current[i]
      BY <1>1, <2>1 DEF MarkExecuting, DistinctIds
  <2>3. DOMAIN current' = DOMAIN planned
      BY <1>1, <2>1 DEF MarkExecuting
  <2>4. current[step] \in Steps
      BY <1>1
  <2>5. /\ Executing(current[step], attempts + 1).id = current[step].id
        /\ Executing(current[step], attempts + 1).attempts = attempts + 1
      BY <2>4 DEF Executing, Steps, Statuses
  <2>6. current'[step].id = current[step].id /\ current'[step].attempts = attempts'
      BY <1>1, <2>1, <2>2, <2>5
  <2>7. \A i \in 1..Len(planned) : i # step => current'[i] = current[i]
      BY <2>2
  <2>8. PlanIsMirrored'
      BY <1>1, <2>1, <2>3, <2>6, <2>7 DEF DistinctIds
  <2> QED
      BY <1>1, <2>1, <2>3, <2>6, <2>7, <2>8
<1> QED
    BY <1>2, <1>3

\* Observing an attempt settles the step in progress and no other.
LEMMA ObserveProgress ==
    PlanInv /\ Observe => (PlanIsMirrored /\ PlanReflectsProgress)'
<1> SUFFICES ASSUME PlanInv, Observe PROVE (PlanIsMirrored /\ PlanReflectsProgress)'
    OBVIOUS
<1> USE DEF PlanInv, PlanIsMirrored, PlanReflectsProgress
<1>1. /\ step \in 1..Len(planned) /\ current \in Seq(Steps) /\ planned \in Seq(Steps)
      /\ result \in Outcomes /\ attempts \in Nat /\ step \in Nat
    BY DEF Observe, Inv, StepInPlan, PlanLabels, TypeOK, PlanTypeOK
<1>2. planned[step] \in Steps
    BY <1>1
<1>3. /\ Outcome.id = planned[step].id
      /\ Outcome.attempts = attempts
      /\ Outcome.result = result
      /\ Outcome.status = IF Succeeded(result) THEN "succeeded" ELSE "failed"
    BY <1>2 DEF Outcome, Steps, Statuses
<1>4. planned' = planned /\ result' = result /\ current' = MarkObserved(current)
    BY DEF Observe
<1>5. \A i \in 1..Len(planned) : current'[i] = IF i = step THEN Outcome ELSE current[i]
    BY <1>1, <1>4 DEF MarkObserved, DistinctIds
<1>6. DOMAIN current' = DOMAIN planned
    BY <1>1, <1>4 DEF MarkObserved
<1>7. PlanIsMirrored'
    BY <1>1, <1>3, <1>4, <1>5, <1>6 DEF DistinctIds
<1>8. CASE Succeeded(result) /\ step < Len(planned) /\ step' = step + 1 /\ attempts' = 0
           /\ pc' = "attempt"
    BY <1>1, <1>3, <1>4, <1>5, <1>6, <1>8
<1>9. CASE step' = step /\ attempts' = attempts
    BY <1>1, <1>3, <1>4, <1>5, <1>6, <1>9
<1> QED
    BY <1>7, <1>8, <1>9 DEF Observe, Goto

LEMMA ProgressStep ==
    ASSUME DistinctPlanIds, PlanInv, Next
    PROVE  (PlanIsMirrored /\ PlanReflectsProgress)'
<1> USE DEF PlanInv, PlanIsMirrored, PlanReflectsProgress
<1>1. CASE UNCHANGED planVars /\ step' = 0
    BY <1>1 DEF planVars, DistinctIds
<1>2. CASE /\ UNCHANGED <<planVars, step, attempts>>
           /\ pc' = "planDone" => pc = "planDone" /\ result' = result
    BY <1>2 DEF planVars, DistinctIds
<1>3. CASE AdoptPlan
  <2>1. response \in Plans /\ response \in Seq(Calls) /\ Len(response) > 0
      BY <1>3, PlansAssumption DEF AdoptPlan, Inv, AnswerPresent, Final
  <2>2. /\ planned' = PendingSteps(response) /\ current' = planned' /\ step' = 1
        /\ attempts' = 0 /\ pc' = "attempt"
      BY <1>3 DEF AdoptPlan, Inv, CountersReset, PlanLabels, Goto
  <2>3. \A i \in 1..Len(response) :
            planned'[i].id = response[i].id /\ planned'[i].attempts = 0
      BY <2>1, <2>2 DEF PendingSteps, PendingStep
  <2>4. DOMAIN planned' = 1..Len(response)
      BY <2>1, <2>2 DEF PendingSteps
  <2>5. DistinctIds(planned')
      BY <2>1, <2>3, <2>4 DEF DistinctIds, DistinctPlanIds
  <2> QED
      BY <2>1, <2>2, <2>3, <2>4, <2>5, PendingStepsType DEF DistinctIds
<1>4. CASE Attempt
    BY <1>4, AttemptProgress
<1>5. CASE Observe
    BY <1>5, ObserveProgress
<1> QED
    BY <1>1, <1>2, <1>3, <1>4, <1>5, ProgressFrame

\* Under the same condition the walked plan stays as it was made.
THEOREM PlanInvInvariant ==
    ASSUME DistinctPlanIds
    PROVE  Spec => []PlanInv
<1>1. Init => PlanInv
    BY InitInv DEF Init, PlanInv, PlanIsMirrored, PlanReflectsProgress, DistinctIds
<1>2. PlanInv /\ [Next]_vars => PlanInv'
  <2>1. PlanInv /\ Next => PlanInv'
      BY ProgressStep, StepInv, Zenon DEF PlanInv
  <2>2. PlanInv /\ UNCHANGED vars => PlanInv'
      BY StutterInv
      DEF PlanInv, PlanIsMirrored, PlanReflectsProgress, DistinctIds, vars, planVars, localVars
  <2> QED
      BY <2>1, <2>2
<1> QED
    BY <1>1, <1>2, PTL DEF Spec

\* When the calls of every answer have different ids, current_plan shows exactly
\* how far the execution of the plan is.
THEOREM PlanProgressIsExact ==
    ASSUME DistinctPlanIds
    PROVE  Spec => []PlanReflectsProgress
<1>1. PlanInv => PlanReflectsProgress
    BY DEF PlanInv
<1> QED
    BY <1>1, PlanInvInvariant, PTL

-----------------------------------------------------------------------------
(* Retries *)

TryLabels == PlanLabels \ {"planDone", "observed"}

\* The step that is tried has not succeeded, and no step is planned as succeeded.
StepIsOpen ==
    /\ \A i \in DOMAIN planned : planned[i].status # "succeeded"
    /\ pc \in TryLabels => current[step].status # "succeeded"

LEMMA RetryFrame ==
    Next =>
        \/ UNCHANGED <<planned, current, step>> /\ (pc' \in TryLabels => pc \in TryLabels)
        \/ UNCHANGED <<planned, current>> /\ pc' \notin TryLabels
        \/ AdoptPlan \/ Attempt \/ Observe
    BY DEF Next, AgentStep, WorkerStep, HostStep, RunTask, ResumeMemoryTask, EnterRun,
           LoopTop, IterationLimit, CancelCheck, RequestModel, ModelAnswers, ModelFails,
           ProposeMemory, Answered, FinalResponse, Call, RefuseCall, AuthorizeRaises,
           PermitCall, StartCall, PollStopped, PollOpen, WaitReturns, WaitAgain, EndWait,
           WaitExpires, FinishCall, PlanDone, Observed, WorkerStarts, WorkerEnds,
           TriggerStop, MarkCancelled, ReadActiveTool, HookTool, Cancel,
           agentVars, localVars, planVars, RaiseStopped, PassCheck, CheckPasses, Leave, Goto,
           TryLabels, PlanLabels

\* An attempt, and its observation, change the step in progress only.
LEMMA TriedStep ==
    ASSUME PlanInv, Attempt \/ Observe, ~UNCHANGED current
    PROVE  /\ step \in DOMAIN current /\ planned' = planned /\ DOMAIN current' = DOMAIN current
           /\ \A i \in DOMAIN current \ {step} : current'[i] = current[i]
           /\ Attempt => current'[step].status = "executing" /\ step' = step
           /\ Observe => current'[step].status = IF Succeeded(result) THEN "succeeded" ELSE "failed"
<1> USE DEF PlanInv, PlanIsMirrored
<1>1. step \in 1..Len(planned) /\ current \in Seq(Steps) /\ planned \in Seq(Steps)
    BY DEF Attempt, Observe, Inv, StepInPlan, PlanLabels, TypeOK, PlanTypeOK
<1>2. planned[step] \in Steps /\ current[step] \in Steps /\ DOMAIN current = 1..Len(planned)
    BY <1>1
<1>3. CASE Attempt
    <2>1. planned' = planned /\ step' = step /\ current' = MarkExecuting(current, attempts + 1)
        BY <1>3, Zenon DEF Attempt, RaiseStopped, BeginAttempt, NextAttempt, planVars
    <2>2. \A i \in 1..Len(planned) :
            current'[i] = IF i = step THEN Executing(current[i], attempts + 1) ELSE current[i]
        BY <1>1, <2>1 DEF MarkExecuting, DistinctIds
    <2>3. Executing(current[step], attempts + 1).status = "executing"
        BY <1>2 DEF Executing, Steps
    <2>4. DOMAIN current' = DOMAIN current
        BY <1>1, <2>1 DEF MarkExecuting
    <2> QED BY <1>1, <1>2, <1>3, <2>1, <2>2, <2>3, <2>4 DEF Attempt, Observe
<1>4. CASE Observe
    <2>1. planned' = planned /\ current' = MarkObserved(current)
        BY <1>4 DEF Observe
    <2>2. \A i \in 1..Len(planned) : current'[i] = IF i = step THEN Outcome ELSE current[i]
        BY <1>1, <2>1 DEF MarkObserved, DistinctIds
    <2>3. Outcome.status = IF Succeeded(result) THEN "succeeded" ELSE "failed"
        BY <1>2 DEF Outcome, Steps
    <2>4. DOMAIN current' = DOMAIN current
        BY <1>1, <2>1 DEF MarkObserved
    <2> QED BY <1>1, <1>2, <1>4, <2>1, <2>2, <2>3, <2>4 DEF Attempt, Observe
<1> QED BY <1>3, <1>4

LEMMA StepIsOpenStep ==
    ASSUME PlanInv, StepIsOpen, [Next]_vars
    PROVE  StepIsOpen'
<1> USE DEF StepIsOpen
<1>1. CASE UNCHANGED vars
    BY <1>1 DEF vars, runVars, planVars, localVars
<1>2. CASE \/ UNCHANGED <<planned, current, step>> /\ (pc' \in TryLabels => pc \in TryLabels)
           \/ UNCHANGED <<planned, current>> /\ pc' \notin TryLabels
    BY <1>2
<1>3. CASE AdoptPlan
  <2>1. response \in Seq(Calls) /\ Len(response) > 0
      BY <1>3, PlansAssumption DEF AdoptPlan, PlanInv, Inv, AnswerPresent, Final
  <2>2. planned' = PendingSteps(response) /\ current' = planned' /\ step' = 1
      BY <1>3 DEF AdoptPlan
  <2> QED
      BY <2>1, <2>2 DEF PendingSteps, PendingStep
<1>4. CASE Attempt /\ ~UNCHANGED current
    BY <1>4, TriedStep
<1>5. CASE Attempt /\ UNCHANGED current
    BY <1>5, Zenon
       DEF Attempt, BeginAttempt, RaiseStopped, Leave, Goto, TryLabels, PlanLabels, planVars
<1>6. CASE Observe
  <2>1. /\ step \in 1..Len(planned) /\ planned' = planned /\ current \in Seq(Steps)
        /\ DOMAIN current = DOMAIN planned /\ planned \in Seq(Steps)
        /\ \A i \in (step + 1)..Len(planned) : current[i] = planned[i]
      BY <1>6 DEF Observe, PlanInv, PlanIsMirrored, PlanReflectsProgress, Inv, StepInPlan, PlanLabels,
          TypeOK, PlanTypeOK
  <2>2. CASE Succeeded(result) /\ step < Len(planned) /\ step' = step + 1
    <3>1. step + 1 \in DOMAIN current \ {step}
        BY <2>1, <2>2
    <3>2. current'[step + 1] = current[step + 1]
        BY <1>6, <3>1, TriedStep
    <3> QED BY <2>1, <2>2, <3>1, <3>2
  <2>3. CASE ~Succeeded(result) /\ step' = step
    <3>1. CASE UNCHANGED current
        BY <1>6, <2>1, <2>3, <3>1 DEF Observe, TryLabels, PlanLabels
    <3>2. CASE ~UNCHANGED current
        BY <1>6, <2>1, <2>3, <3>2, TriedStep
    <3> QED BY <3>1, <3>2
  <2>4. CASE pc' = "planDone"
      BY <2>1, <2>4 DEF TryLabels
  <2> QED BY <1>6, <2>2, <2>3, <2>4 DEF Observe, Goto
<1> QED BY <1>1, <1>2, <1>3, <1>4, <1>5, <1>6, RetryFrame, Zenon

\* However its tries fail, race with the stop or time out, a step that has succeeded
\* is not executed again.
THEOREM SucceededStepsStay ==
    ASSUME DistinctPlanIds
    PROVE  Spec => OnlyFailedStepsRetried
<1> DEFINE Stay == \A i \in DOMAIN current :
                     (pc # "respond" /\ current[i].status = "succeeded") => current'[i] = current[i]
<1>1. Init => StepIsOpen
    BY DEF Init, StepIsOpen, TryLabels, PlanLabels
<1>2. PlanInv /\ StepIsOpen /\ [Next]_vars => StepIsOpen'
    BY StepIsOpenStep
<1>3. PlanInv /\ StepIsOpen /\ [Next]_vars => [Stay]_vars
  <2> SUFFICES ASSUME PlanInv, StepIsOpen, Next PROVE Stay
      OBVIOUS
  <2>1. CASE UNCHANGED current
      BY <2>1
  <2>2. CASE AdoptPlan
      BY <2>2 DEF AdoptPlan
  <2>3. CASE (Attempt \/ Observe) /\ ~UNCHANGED current
    <3>1. current[step].status # "succeeded"
        BY <2>3 DEF Attempt, Observe, StepIsOpen, TryLabels, PlanLabels
    <3> QED BY <2>3, <3>1, TriedStep
  <2> QED BY <2>1, <2>2, <2>3, RetryFrame
<1> QED BY <1>1, <1>2, <1>3, PlanInvInvariant, PTL DEF Spec, OnlyFailedStepsRetried
=============================================================================
