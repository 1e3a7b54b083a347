-------------------------- MODULE AgentController --------------------------
(***************************************************************************)
(* The task loop of app/agent/controller.py: one agent thread that asks    *)
(* the model for a plan, runs the plan's steps with retries, replans, and  *)
(* can be suspended for a memory decision and resumed; the worker thread   *)
(* of the tool call in progress; and the host thread that may latch the    *)
(* emergency stop (app/agent/emergency.py) or request cancellation between *)
(* any two steps of the others.                                            *)
(*                                                                         *)
(* One label of pc stands for the code between two accesses to what the    *)
(* threads share (the latch, state, _active_tool, the future).             *)
(***************************************************************************)
EXTENDS Integers, Sequences

CONSTANTS
    Tasks,          \* task ids, each used by one run_task
    Tools,          \* registered tools
    CallIds,        \* ids a model gives to its tool calls
    Plans,          \* the tool-call lists a model may answer with
    MaxIterations,  \* AgentTask.max_iterations
    MaxRetries,     \* Settings.max_step_retries
    MaxReplans,     \* Settings.max_replans
    HasMemory,      \* a MemoryManager is configured
    None            \* Python's None

Calls == [id : CallIds, tool : Tools]

\* A response without tool calls: its text is the final response.
Final == <<>>

ASSUME LimitsAssumption ==
    /\ MaxIterations \in Nat \ {0}
    /\ MaxRetries \in Nat
    /\ MaxReplans \in Nat
    /\ HasMemory \in BOOLEAN

ASSUME PlansAssumption == \A p \in Plans : p \in Seq(Calls) /\ p # Final

ASSUME NoneAssumption == None \notin Tasks /\ None \notin Tools /\ None \notin Plans

VARIABLES
    state,          \* AgentController.state
    task,           \* _active_task
    fresh,          \* task ids not used yet (uuid4 never repeats one)
    iteration,      \* _active_iteration and the loop variable
    conversation,   \* how many answered plans _active_conversation holds
    replans,        \* _replan_count
    planned,        \* steps of plan_history[-1], the plan the loop walks
    current,        \* steps of current_plan
    activeTool,     \* _active_tool
    checkpoints,    \* MemoryManager._checkpoints
    suspended       \* _suspended_task_id

VARIABLES
    pc,             \* where the agent thread is
    response,       \* the model's answer, until it becomes a plan
    step,           \* index of the plan step in progress, from 1
    attempts,       \* attempts made on it
    result          \* outcome of its last attempt

VARIABLES
    worker,         \* the future of the call in progress
    stopped,        \* EmergencyStop._event
    hostPc,         \* where the host thread is in trigger_emergency_stop
    hostTool        \* its local variable tool

VARIABLES
    late,           \* history: operations begun with the stop latched
    cancelAsked     \* history: cancel() was called while the agent waited

taskVars == <<task, fresh, iteration, conversation, replans, checkpoints, suspended>>
planVars == <<planned, current>>
localVars == <<response, step, attempts, result>>
callVars == <<activeTool, worker>>
hostVars == <<stopped, hostPc, hostTool>>
runVars == <<taskVars, planVars>>
sideVars == <<callVars, hostVars>>
historyVars == <<late, cancelAsked>>
vars == <<state, pc, runVars, localVars, sideVars, historyVars>>

-----------------------------------------------------------------------------
(* Values *)

States == {"idle", "thinking", "waiting_for_approval", "executing", "observing",
           "completed", "failed", "cancelled"}

\* Outcomes of one attempt: "done" and "reported_failure" are values that
\* execute() returned (the second one says success = False in its own data),
\* the others are the error codes of a ToolResult.
Returned == {"done", "reported_failure"}
Errors == {"rejected", "denied", "emergency_stop", "timeout", "raised"}
Outcomes == Returned \cup Errors \cup {"none"}

\* Nothing sets the status SKIPPED.
Statuses == {"pending", "executing", "succeeded", "failed"}
Steps == [id : CallIds, tool : Tools, attempts : Nat, result : Outcomes, status : Statuses]

NoCheckpoint == [iteration |-> 0, conversation |-> 0]
Checkpoints == [iteration : Nat, conversation : Nat]

Labels == {"idle", "loop", "cancelCheck", "request", "generating", "answered", "respond",
           "attempt", "call", "authorize", "start", "polling", "waiting", "finish",
           "observe", "planDone", "observed"}

\* The agent has seen the latch open and has not begun the operation yet.
PermitLabels == {"cancelCheck", "request", "authorize", "start"}
\* A model request or a tool call is in progress.
BusyLabels == {"generating", "polling", "waiting"}

\* _execute_plan, or what follows it, is working on a plan.
PlanLabels == {"attempt", "call", "authorize", "start", "polling", "waiting", "finish",
               "observe", "planDone", "observed"}

\* _verify_step: what counts is that the call returned, not what it returned.
Succeeded(r) == r \in Returned

\* What the poll takes for a call still in progress: since Python 3.11 a TimeoutError that
\* execute() raises is the exception that result(timeout=0.05) raises.
Unanswered == worker \in {"queued", "running", "timed_out"}

PendingStep(c) ==
    [id |-> c.id, tool |-> c.tool, attempts |-> 0, result |-> "none", status |-> "pending"]

PendingSteps(calls) == [i \in 1..Len(calls) |-> PendingStep(calls[i])]

TaskTypeOK ==
    /\ task \in Tasks \cup {None}
    /\ fresh \subseteq Tasks
    /\ iteration \in Nat
    /\ conversation \in Nat
    /\ replans \in 0..MaxReplans
    /\ checkpoints \in [Tasks -> Checkpoints]
    /\ suspended \in Tasks \cup {None}

PlanTypeOK ==
    /\ planned \in Seq(Steps)
    /\ current \in Seq(Steps)
    /\ response \in Plans \cup {None, Final}
    /\ step \in Nat
    /\ attempts \in Nat
    /\ result \in Outcomes

CallTypeOK ==
    /\ activeTool \in Tools \cup {None}
    /\ worker \in {"none", "queued", "running", "done", "reported_failure", "raised", "timed_out"}

ControlTypeOK ==
    /\ state \in States
    /\ pc \in Labels
    /\ hostPc \in {"idle", "latched", "marked", "hook"}
    /\ hostTool \in Tools \cup {None}
    /\ late \in Nat

FlagTypeOK ==
    /\ stopped \in BOOLEAN
    /\ cancelAsked \in BOOLEAN

TypeOK == TaskTypeOK /\ PlanTypeOK /\ CallTypeOK /\ ControlTypeOK /\ FlagTypeOK

Init ==
    /\ state = "idle" /\ pc = "idle"
    /\ task = None /\ fresh = Tasks /\ iteration = 1 /\ conversation = 0 /\ replans = 0
    /\ checkpoints = [t \in Tasks |-> NoCheckpoint] /\ suspended = None
    /\ planned = <<>> /\ current = <<>>
    /\ response = None /\ step = 0 /\ attempts = 0 /\ result = "none"
    /\ activeTool = None /\ worker = "none"
    /\ stopped = FALSE /\ hostPc = "idle" /\ hostTool = None
    /\ late = 0 /\ cancelAsked = FALSE

-----------------------------------------------------------------------------
(* Leaving a run, and the emergency-stop check *)

Goto(label) == pc' = label

\* The run returns or raises with the given state; its local variables are gone.
Leave(final) ==
    /\ Goto("idle")
    /\ state' = final
    /\ response' = None /\ step' = 0 /\ attempts' = 0 /\ result' = "none"
    /\ cancelAsked' = FALSE

\* _raise_if_emergency_stop finds the latch closed.
RaiseStopped ==
    /\ stopped
    /\ Leave("cancelled")
    /\ UNCHANGED <<runVars, sideVars, late>>

\* Mutant: the check forgets the latch.
CheckPassesAlways == TRUE

\* It finds the latch open.
CheckPasses == ~stopped

PassCheck(label) ==
    /\ CheckPasses
    /\ Goto(label)
    /\ UNCHANGED <<state, runVars, localVars, sideVars, historyVars>>

\* An operation begins: it is late if the latch is already closed.
CountLate == late' = IF stopped THEN late + 1 ELSE late

-----------------------------------------------------------------------------
(* run_task and resume_memory_task *)

\* Mutant: a resumed task starts again from its first iteration.
EnterRunRestarting(t, exchanges, start) ==
    /\ task' = t
    /\ conversation' = exchanges
    /\ iteration' = 1
    /\ replans' = 0
    /\ state' = "idle"
    /\ Goto("loop")
    /\ UNCHANGED <<planVars, localVars, sideVars, historyVars>>

\* _run_task_state up to its loop, common to both entries.
EnterRun(t, exchanges, start) ==
    /\ task' = t
    /\ conversation' = exchanges
    /\ iteration' = start
    /\ replans' = 0
    /\ state' = "idle"
    /\ Goto("loop")
    /\ UNCHANGED <<planVars, localVars, sideVars, historyVars>>

RunTask ==
    /\ pc = "idle"
    /\ \E t \in fresh :
        /\ fresh' = fresh \ {t}
        /\ EnterRun(t, 0, 1)
    /\ UNCHANGED <<checkpoints, suspended>>

\* Approving or rejecting the candidate may raise before anything changes
\* here; then the host may try again (a step that changes nothing).
ResumeMemoryTask ==
    /\ pc = "idle"
    /\ suspended # None
    /\ \/ RaiseStopped
       \/ /\ ~stopped
          /\ checkpoints[suspended] # NoCheckpoint
          /\ EnterRun(suspended, checkpoints[suspended].conversation,
                      checkpoints[suspended].iteration)
          /\ checkpoints' = [checkpoints EXCEPT ![suspended] = NoCheckpoint]
          /\ suspended' = None
          /\ UNCHANGED fresh

-----------------------------------------------------------------------------
(* One iteration: ask the model for a plan *)

LoopTop ==
    /\ pc = "loop"
    /\ iteration <= MaxIterations
    /\ RaiseStopped \/ PassCheck("cancelCheck")

IterationLimit ==
    /\ pc = "loop"
    /\ iteration > MaxIterations
    /\ Leave("failed")
    /\ UNCHANGED <<runVars, sideVars, late>>

\* The only place where cancel() is looked at.
CancelCheck ==
    /\ pc = "cancelCheck"
    /\ IF state = "cancelled"
       THEN Leave("cancelled")
       ELSE /\ Goto("request")
            /\ UNCHANGED <<state, localVars, cancelAsked>>
    /\ UNCHANGED <<runVars, sideVars, late>>

RequestModel ==
    /\ pc = "request"
    /\ state' = "thinking"
    /\ Goto("generating")
    /\ CountLate
    /\ UNCHANGED <<runVars, localVars, sideVars, cancelAsked>>

ModelAnswers ==
    /\ pc = "generating"
    /\ response' \in Plans \cup {Final}
    /\ Goto("answered")
    /\ UNCHANGED <<state, runVars, step, attempts, result, sideVars, historyVars>>

\* generate raises ModelError (caught), or another exception (not caught).
ModelFails ==
    /\ pc = "generating"
    /\ Leave("failed") \/ Leave(state)
    /\ UNCHANGED <<runVars, sideVars, late>>

\* suspend_task captures the active iteration and conversation.
Checkpoint == [iteration |-> iteration, conversation |-> conversation]

\* Mutant: the checkpoint is never stored.
SaveCheckpointForgotten == checkpoints' = checkpoints

SaveCheckpoint == checkpoints' = [checkpoints EXCEPT ![task] = Checkpoint]

\* The provider proposes a memory while it generates, and the proposal needs
\* the user: the task is suspended and MemoryApprovalRequired ends the run.
ProposeMemory ==
    /\ pc = "generating"
    /\ HasMemory
    /\ SaveCheckpoint
    /\ suspended' = task
    /\ Leave("waiting_for_approval")
    /\ UNCHANGED <<task, fresh, iteration, conversation, replans, planVars, sideVars, late>>

Answered ==
    /\ pc = "answered"
    /\ RaiseStopped \/ PassCheck("respond")

FinalResponse ==
    /\ pc = "respond"
    /\ response = Final
    /\ Leave("completed")
    /\ UNCHANGED <<runVars, sideVars, late>>

\* The plan becomes current_plan and is appended to plan_history; the same
\* object is walked by _execute_plan.
AdoptPlan ==
    /\ pc = "respond"
    /\ response # Final
    /\ planned' = PendingSteps(response)
    /\ current' = PendingSteps(response)
    /\ state' = "waiting_for_approval"
    /\ response' = None
    /\ step' = 1
    /\ Goto("attempt")
    /\ UNCHANGED <<taskVars, attempts, result, sideVars, historyVars>>

-----------------------------------------------------------------------------
(* _execute_plan and _handle_tool_call: one attempt at one step *)

Executing(s, n) == [s EXCEPT !.status = "executing", !.attempts = n]

\* Mutant: every step is marked, not only the one in progress.
MarkExecutingAll(steps, n) ==
    [i \in DOMAIN steps |-> Executing(steps[i], n)]

\* The steps whose id is the id of the step in progress: the code finds them
\* by id, not by position.
MarkExecuting(steps, n) ==
    [i \in DOMAIN steps |->
        IF steps[i].id = planned[step].id THEN Executing(steps[i], n) ELSE steps[i]]

Outcome ==
    [planned[step] EXCEPT !.result = result, !.attempts = attempts,
        !.status = IF Succeeded(result) THEN "succeeded" ELSE "failed"]

\* Mutant: the outcome is put into the original plan, not the current one.
MarkObservedInPlan(steps) ==
    [i \in DOMAIN planned |-> IF planned[i].id = planned[step].id THEN Outcome ELSE planned[i]]

\* They are all replaced by a copy of the planned step with its outcome.
MarkObserved(steps) ==
    [i \in DOMAIN steps |-> IF steps[i].id = planned[step].id THEN Outcome ELSE steps[i]]

\* Mutant: attempts += 1 is missing.
NextAttemptUncounted == attempts

NextAttempt == attempts + 1

BeginAttempt ==
    /\ CheckPasses
    /\ attempts' = NextAttempt
    /\ result' = "none"
    /\ current' = MarkExecuting(current, NextAttempt)
    /\ Goto("call")
    /\ UNCHANGED <<state, taskVars, response, step, planned, sideVars, historyVars>>

Attempt ==
    /\ pc = "attempt"
    /\ RaiseStopped \/ BeginAttempt

Call ==
    /\ pc = "call"
    /\ RaiseStopped \/ PassCheck("authorize")

\* The registry rejects the call or the permission engine refuses it.
RefuseCall ==
    /\ pc = "authorize"
    /\ result' \in {"rejected", "denied"}
    /\ Goto("observe")
    /\ UNCHANGED <<state, runVars, response, step, attempts, sideVars, historyVars>>

\* validate or decide raises something else than ToolValidationError.
AuthorizeRaises ==
    /\ pc = "authorize"
    /\ Leave(state)
    /\ UNCHANGED <<runVars, sideVars, late>>

PermitCall ==
    /\ pc = "authorize"
    /\ Goto("start")
    /\ UNCHANGED <<state, runVars, localVars, sideVars, historyVars>>

StartCall ==
    /\ pc = "start"
    /\ state' = "executing"
    /\ activeTool' = planned[step].tool
    /\ worker' = "queued"
    /\ CountLate
    /\ Goto("polling")
    /\ UNCHANGED <<runVars, localVars, hostVars, cancelAsked>>

\* The call is done with: a queued one is dropped, and one that still runs goes on in its
\* thread, with a future that nobody looks at.
EndWait(outcome) ==
    /\ result' = outcome /\ worker' = "none"
    /\ Goto("finish")

\* Top of the polling loop; the agent thread calls the tool's cancel() too.
PollStopped ==
    /\ pc = "polling"
    /\ stopped
    /\ EndWait("emergency_stop")
    /\ UNCHANGED <<state, runVars, response, step, attempts, activeTool, hostVars, historyVars>>

\* Mutant: the stop is looked at before the loop only.
PollOpenUnchecked ==
    /\ pc = "polling"
    /\ Goto("waiting")
    /\ UNCHANGED <<state, runVars, localVars, sideVars, historyVars>>

PollOpen ==
    /\ pc = "polling"
    /\ PassCheck("waiting")

\* future.result(timeout=0.05) returns, or raises what execute() raised.
WaitReturns ==
    /\ pc = "waiting"
    /\ worker \in {"done", "reported_failure", "raised"}
    /\ EndWait(worker)
    /\ UNCHANGED <<state, runVars, response, step, attempts, activeTool, hostVars, historyVars>>

\* It times out: before the deadline the loop polls again ...
WaitAgain ==
    /\ pc = "waiting"
    /\ Unanswered
    /\ Goto("polling")
    /\ UNCHANGED <<state, runVars, localVars, sideVars, historyVars>>

\* ... after it the call is given up; its tool is not told.
WaitExpires ==
    /\ pc = "waiting"
    /\ Unanswered
    /\ EndWait("timeout")
    /\ UNCHANGED <<state, runVars, response, step, attempts, activeTool, hostVars, historyVars>>

FinishCall ==
    /\ pc = "finish"
    /\ activeTool' = None
    /\ Goto("observe")
    /\ UNCHANGED <<state, runVars, localVars, worker, hostVars, historyVars>>

\* Mutant: one attempt too many.
MayRetryOnceMore == attempts <= MaxRetries + 1

MayRetry == attempts <= MaxRetries

\* The outcome goes into current_plan; then the next step, a retry, or the end.
Observe ==
    /\ pc = "observe"
    /\ current' = MarkObserved(current)
    /\ \/ /\ Succeeded(result) /\ step < Len(planned)
          /\ step' = step + 1
          /\ attempts' = 0
          /\ Goto("attempt")
       \/ /\ ~Succeeded(result) /\ MayRetry
          /\ Goto("attempt")
          /\ UNCHANGED <<step, attempts>>
       \/ /\ IF Succeeded(result) THEN step = Len(planned) ELSE ~MayRetry
          /\ Goto("planDone")
          /\ UNCHANGED <<step, attempts>>
    /\ UNCHANGED <<state, taskVars, response, result, planned, sideVars, historyVars>>

-----------------------------------------------------------------------------
(* After the plan: observe its results, replan, iterate *)

PlanDone ==
    /\ pc = "planDone"
    /\ RaiseStopped \/ PassCheck("observed")

MayReplan == replans < MaxReplans

\* One exchange (the answer and the results of its plan) joins the conversation.
AppendResults(exchanges) == exchanges + 1

Observed ==
    /\ pc = "observed"
    /\ conversation' = AppendResults(conversation)
    /\ \/ /\ Succeeded(result) \/ MayReplan
          /\ replans' = IF Succeeded(result) THEN replans ELSE replans + 1
          /\ state' = "observing"
          /\ iteration' = iteration + 1
          /\ step' = 0 /\ attempts' = 0 /\ result' = "none"
          /\ Goto("loop")
          /\ UNCHANGED <<response, cancelAsked>>
       \/ /\ ~Succeeded(result) /\ ~MayReplan
          /\ Leave("failed")
          /\ UNCHANGED <<replans, iteration>>
    /\ UNCHANGED <<task, fresh, checkpoints, suspended, planVars, sideVars, late>>

-----------------------------------------------------------------------------
(* The worker thread of the call in progress *)

WorkerStarts ==
    /\ worker = "queued"
    /\ worker' = "running"
    /\ UNCHANGED <<state, pc, runVars, localVars, activeTool, hostVars, historyVars>>

WorkerEnds ==
    /\ worker = "running"
    /\ worker' \in {"done", "reported_failure", "raised", "timed_out"}
    /\ UNCHANGED <<state, pc, runVars, localVars, activeTool, hostVars, historyVars>>

-----------------------------------------------------------------------------
(* The host thread *)

agentVars == <<pc, taskVars, planVars, localVars>>

\* trigger_emergency_stop: the latch first ...
TriggerStop ==
    /\ hostPc = "idle"
    /\ stopped' = TRUE
    /\ hostPc' = "latched"
    /\ UNCHANGED <<state, agentVars, callVars, hostTool, historyVars>>

\* ... then the state ...
MarkCancelled ==
    /\ hostPc = "latched"
    /\ state' = "cancelled"
    /\ hostPc' = "marked"
    /\ UNCHANGED <<agentVars, callVars, stopped, hostTool, historyVars>>

\* ... then it reads the active tool ...
ReadActiveTool ==
    /\ hostPc = "marked"
    /\ hostTool' = activeTool
    /\ hostPc' = IF activeTool = None THEN "idle" ELSE "hook"
    /\ UNCHANGED <<state, agentVars, callVars, stopped, historyVars>>

\* ... and calls its cancel(), when the call that it was read for may be over.
HookTool ==
    /\ hostPc = "hook"
    /\ hostPc' = "idle"
    /\ hostTool' = None
    /\ UNCHANGED <<state, agentVars, callVars, stopped, historyVars>>

Cancel ==
    /\ hostPc = "idle"
    /\ state' = "cancelled"
    /\ cancelAsked' = (cancelAsked \/ pc \in BusyLabels)
    /\ UNCHANGED <<agentVars, sideVars, late>>

-----------------------------------------------------------------------------
AgentStep ==
    \/ LoopTop \/ IterationLimit \/ CancelCheck
    \/ RequestModel \/ ModelAnswers \/ ModelFails \/ ProposeMemory
    \/ Answered \/ FinalResponse \/ AdoptPlan
    \/ Attempt \/ Call \/ RefuseCall \/ AuthorizeRaises \/ PermitCall \/ StartCall
    \/ PollStopped \/ PollOpen \/ WaitReturns \/ WaitAgain \/ WaitExpires
    \/ FinishCall \/ Observe \/ PlanDone \/ Observed

WorkerStep == WorkerStarts \/ WorkerEnds

HostStep ==
    \/ RunTask \/ ResumeMemoryTask
    \/ TriggerStop \/ MarkCancelled \/ ReadActiveTool \/ HookTool \/ Cancel

Next == AgentStep \/ WorkerStep \/ HostStep

\* The agent thread keeps running, and a model request ends (a provider has a
\* timeout).  A tool may run for ever; what bounds the wait for it is the
\* deadline of the polling loop, a clock that advances.
AgentRuns == WF_vars(AgentStep)
DeadlinePasses == SF_vars(WaitExpires)

Spec == Init /\ [][Next]_vars
AgentSpec == Spec /\ AgentRuns
FairSpec == AgentSpec /\ DeadlinePasses
=============================================================================
