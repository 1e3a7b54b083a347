------------------------ MODULE AgentProperties ------------------------
(***************************************************************************)
(* What the task loop of AgentController guarantees, what its documents    *)
(* say that it does not, and the abstract gate that it implements.         *)
(***************************************************************************)
EXTENDS AgentController

-----------------------------------------------------------------------------
(* Safety *)

\* README "Emergency stop": the stop "prevents new model turns, tools, retries,
\* replans, and memory-resume execution".  One operation may slip through
\* between the check and its beginning; there is never a second one, over all
\* the runs, retries and resumed tasks that follow the stop.
AtMostOneLateStart == late <= 1

\* README: "Successful steps remain ...; only failed steps are retried".  While
\* the steps of a plan have different ids, current_plan shows exactly how far
\* _execute_plan is: what comes before the step in progress succeeded and keeps
\* its result, what comes after is as planned, and the step in progress carries
\* the attempt being made.
PlanReflectsProgress ==
    step # 0 =>
        /\ step \in DOMAIN planned
        /\ DOMAIN current = DOMAIN planned
        /\ \A i \in 1..(step - 1) : current[i].status = "succeeded" /\ Succeeded(current[i].result)
        /\ \A i \in (step + 1)..Len(planned) : current[i] = planned[i]
        /\ current[step].attempts = attempts
        /\ (pc = "planDone" => (current[step].status = "succeeded" <=> Succeeded(result)))

\* The retry, replan and iteration limits of Settings hold at every attempt, every
\* new plan and every model request, also for a task resumed from a checkpoint.
LimitsRespected ==
    /\ attempts <= MaxRetries + 1
    /\ replans <= MaxReplans
    /\ (pc \in {"cancelCheck", "request", "generating", "answered", "respond"}
          => iteration <= MaxIterations)

\* memory/README: a checkpoint "preserves the task ID, goal, iteration, conversation, plan,
\* and state so AgentController.resume_memory_task() continues the same task rather than
\* restarting it".  Of these the iteration and the conversation are what a run goes on
\* with (a plan is over when the model is asked, and the state is set to idle): in every
\* run, and in every checkpoint, the conversation holds exactly the exchanges of the
\* iterations before the current one.
ConversationMatchesIteration ==
    /\ pc # "idle" => conversation = iteration - 1
    /\ \A t \in Tasks : checkpoints[t] # NoCheckpoint =>
          checkpoints[t].conversation = checkpoints[t].iteration - 1

\* A pending memory decision always finds the checkpoint it will continue, so
\* that resume_task does not fail after the candidate was persisted; and the
\* task of the running loop has none.
PendingHasCheckpoint ==
    /\ suspended # None => checkpoints[suspended] # NoCheckpoint
    /\ pc # "idle" => checkpoints[task] = NoCheckpoint

\* _active_tool is set exactly while a call is in progress: the host's stop
\* finds the tool to cancel during the whole wait and none outside it.
ActiveToolMatchesCall ==
    (activeTool # None) <=> pc \in {"polling", "waiting", "finish"}

-----------------------------------------------------------------------------
(* The inductive invariant: the properties above that are proved, and what *)
(* they need of the steps, of the tasks and of the counters.               *)

\* The step in progress is a step of the plan.
StepInPlan == pc \in PlanLabels => step \in 1..Len(planned)

\* Outside a plan no step is in progress.
CountersReset == pc \notin PlanLabels => step = 0 /\ attempts = 0

\* The while loop is entered again only with an attempt left.
AttemptLeft == pc = "attempt" => attempts <= MaxRetries

\* An answer is there to be turned into a plan.
AnswerPresent == pc \in {"answered", "respond"} => response \in Plans \cup {Final}

\* A run has a task and counts its iterations from 1, as checkpoints do.
RunHasTask ==
    /\ pc # "idle" => task \in Tasks \ fresh /\ iteration >= 1
    /\ \A t \in Tasks : checkpoints[t] # NoCheckpoint =>
          checkpoints[t].iteration \in 1..MaxIterations

\* Only a task that has run has a checkpoint.
FreshHasNoCheckpoint == \A t \in fresh : checkpoints[t] = NoCheckpoint

Inv ==
    /\ TypeOK
    /\ StepInPlan /\ CountersReset /\ AttemptLeft /\ LimitsRespected /\ AnswerPresent
    /\ ActiveToolMatchesCall
    /\ RunHasTask /\ ConversationMatchesIteration
    /\ FreshHasNoCheckpoint /\ PendingHasCheckpoint

\* Models give different ids to the calls of one answer.  The code does not
\* require it; the progress of a plan is only well defined when they do.
DistinctIds(steps) == \A i, j \in DOMAIN steps : steps[i].id = steps[j].id => i = j

DistinctPlanIds == \A p \in Plans : DistinctIds(p)

\* Needed for PlanReflectsProgress: the walked plan stays as it was made, and
\* current_plan has its steps.
PlanIsMirrored ==
    /\ DistinctIds(planned)
    /\ \A i \in DOMAIN planned : planned[i].attempts = 0
    /\ DOMAIN current = DOMAIN planned
    /\ \A i \in DOMAIN planned : current[i].id = planned[i].id

PlanInv == Inv /\ PlanIsMirrored /\ PlanReflectsProgress

-----------------------------------------------------------------------------
(* Action properties *)

\* A step that succeeded is never executed again while its plan is current.
OnlyFailedStepsRetried ==
    [][\A i \in DOMAIN current :
         (pc # "respond" /\ current[i].status = "succeeded") => current'[i] = current[i]]_vars

\* README: "active tools receive their cancel() hook".  trigger_emergency_stop reads
\* _active_tool and calls its cancel() in two steps.  Meanwhile the call that it read may
\* end, but no other one begins, nor a retry of it on the same tool: the cancel reaches
\* that call or finds the agent between its calls.
HookMeetsNoOtherCall ==
    [][hostPc = "hook" => activeTool' \in {activeTool, None}]_vars

-----------------------------------------------------------------------------
(* Liveness *)

\* After the stop the run in progress ends, whatever the tools do and however far the
\* deadline of the call in progress is: the loop that waits for it looks at the latch.
StopEndsRun == stopped ~> pc = "idle"

\* Where deadlines pass, every run ends: with an answer, with an error, or waiting for the
\* user, though tools never return and a stop may never come.
RunTerminates == DeadlinePasses => ((pc # "idle") ~> (pc = "idle"))

-----------------------------------------------------------------------------
(* What the documents say and the code does not do *)

\* cancel: "Request cancellation before the next model or tool step."  Once
\* cancel() was called while the agent waited for an operation, the same run
\* begins no other operation.
CancelPreventsNextOperation ==
    [][cancelAsked => ~(pc \in {"request", "start"} /\ pc' \in BusyLabels)]_vars

-----------------------------------------------------------------------------
(* The emergency-stop gate that the controller implements *)

Gate == INSTANCE StopGate WITH
            permit <- pc \in PermitLabels,
            busy <- pc \in BusyLabels

GateSpec == Gate!Spec
=============================================================================
