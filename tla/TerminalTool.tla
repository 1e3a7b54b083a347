---------------------------- MODULE TerminalTool ----------------------------
(***************************************************************************)
(* TerminalTool of app/terminal/tool.py: one tool object shared by the     *)
(* worker threads that run execute (a call that the agent gave up on goes  *)
(* on while its retry starts) and by the threads that call cancel (the     *)
(* agent that finds the emergency stop latched, and the host).  _process   *)
(* has a lock, the cancel event is atomic; nothing orders the two.         *)
(***************************************************************************)
EXTENDS Naturals

CONSTANTS
    Runs,           \* calls of execute; each starts at most one OS process
    Cancellers,     \* threads that call cancel
    None            \* Python's None

ASSUME NoneAssumption == None \notin Runs

VARIABLES
    cancelRequested,    \* _cancel_requested
    process,            \* _process, named by the run that started it
    pc,                 \* where each run is in execute
    child,              \* its OS process
    outcome,            \* its TerminalResult
    cancelPc,           \* where each canceller is in cancel
    target              \* its local variable process

VARIABLES
    caught,     \* history: runs whose process was running at a call of cancel
    overlapped  \* history: runs that were in execute together with another one

toolVars == <<cancelRequested, process>>
runVars == <<pc, child, outcome>>
cancelVars == <<cancelPc, target>>
historyVars == <<caught, overlapped>>
vars == <<toolVars, runVars, cancelVars, historyVars>>

\* The process may run in these labels only.
LiveLabels == {"publish", "poll", "check", "terminate"}
Labels == LiveLabels \cup {"new", "clear", "spawn", "join", "cleanup", "returned"}
Outcomes == {"none", "refused", "not_started", "cancelled", "timed_out", "failed", "success"}

TypeOK ==
    /\ cancelRequested \in BOOLEAN
    /\ process \in Runs \cup {None}
    /\ pc \in [Runs -> Labels]
    /\ child \in [Runs -> {"none", "running", "succeeded", "failed", "killed"}]
    /\ outcome \in [Runs -> Outcomes]
    /\ cancelPc \in [Cancellers -> {"idle", "read", "kill"}]
    /\ target \in [Cancellers -> Runs \cup {None}]
    /\ caught \subseteq Runs
    /\ overlapped \subseteq Runs

Init ==
    /\ cancelRequested = FALSE /\ process = None
    /\ pc = [r \in Runs |-> "new"]
    /\ child = [r \in Runs |-> "none"]
    /\ outcome = [r \in Runs |-> "none"]
    /\ cancelPc = [k \in Cancellers |-> "idle"]
    /\ target = [k \in Cancellers |-> None]
    /\ caught = {} /\ overlapped = {}

-----------------------------------------------------------------------------
(* execute *)

Goto(r, label) == pc' = [pc EXCEPT ![r] = label]
SetChild(r, status) == child' = [child EXCEPT ![r] = status]
SetOutcome(r, o) == outcome' = [outcome EXCEPT ![r] = o]

\* Validation, the tool's own permission request and the class of the command.
Refuse(r) ==
    /\ pc[r] = "new"
    /\ SetOutcome(r, "refused")
    /\ Goto(r, "returned")
    /\ UNCHANGED <<toolVars, child, cancelVars, historyVars>>

\* The runs past their checks.
Working == {r \in Runs : pc[r] \notin {"new", "returned"}}

Accept(r) ==
    /\ pc[r] = "new"
    /\ Goto(r, "clear")
    /\ overlapped' = IF Working = {} THEN overlapped ELSE overlapped \cup Working \cup {r}
    /\ UNCHANGED <<toolVars, child, outcome, cancelVars, caught>>

\* It forgets every cancel so far, also one meant for another run.
Clear(r) ==
    /\ pc[r] = "clear"
    /\ cancelRequested' = FALSE
    /\ Goto(r, "spawn")
    /\ UNCHANGED <<process, child, outcome, cancelVars, historyVars>>

Spawn(r) ==
    /\ pc[r] = "spawn"
    /\ SetChild(r, "running")
    /\ Goto(r, "publish")
    /\ UNCHANGED <<toolVars, outcome, cancelVars, historyVars>>

\* Popen raises OSError.
SpawnFails(r) ==
    /\ pc[r] = "spawn"
    /\ SetOutcome(r, "not_started")
    /\ Goto(r, "cleanup")
    /\ UNCHANGED <<toolVars, child, cancelVars, historyVars>>

Publish(r) ==
    /\ pc[r] = "publish"
    /\ process' = r
    /\ Goto(r, "poll")
    /\ UNCHANGED <<cancelRequested, child, outcome, cancelVars, historyVars>>

Poll(r) ==
    /\ pc[r] = "poll"
    /\ Goto(r, IF child[r] = "running" THEN "check" ELSE "join")
    /\ UNCHANGED <<toolVars, child, outcome, cancelVars, historyVars>>

SeeCancel(r) ==
    /\ pc[r] = "check"
    /\ cancelRequested
    /\ SetOutcome(r, "cancelled")
    /\ Goto(r, "terminate")
    /\ UNCHANGED <<toolVars, child, cancelVars, historyVars>>

\* Mutant: the result of a timeout is returned without terminating the process.
SeeDeadlineOnly(r) ==
    /\ pc[r] = "check"
    /\ ~cancelRequested
    /\ SetOutcome(r, "timed_out")
    /\ Goto(r, "cleanup")
    /\ UNCHANGED <<toolVars, child, cancelVars, historyVars>>

\* Mutant: the deadline is seen and the loop goes on.
SeeDeadlineSleeping(r) ==
    /\ pc[r] = "check"
    /\ ~cancelRequested
    /\ Goto(r, "poll")
    /\ UNCHANGED <<toolVars, child, outcome, cancelVars, historyVars>>

SeeDeadline(r) ==
    /\ pc[r] = "check"
    /\ ~cancelRequested
    /\ SetOutcome(r, "timed_out")
    /\ Goto(r, "terminate")
    /\ UNCHANGED <<toolVars, child, cancelVars, historyVars>>

Sleep(r) ==
    /\ pc[r] = "check"
    /\ ~cancelRequested
    /\ Goto(r, "poll")
    /\ UNCHANGED <<toolVars, child, outcome, cancelVars, historyVars>>

\* _terminate: nothing if the process has ended, otherwise it ends here (kill
\* follows when it ignores terminate).
Killed(r) == IF child[r] = "running" THEN "killed" ELSE child[r]

Terminate(r) ==
    /\ pc[r] = "terminate"
    /\ SetChild(r, Killed(r))
    /\ Goto(r, "cleanup")
    /\ UNCHANGED <<toolVars, outcome, cancelVars, historyVars>>

ByReturnCode(r) == IF child[r] = "succeeded" THEN "success" ELSE "failed"

\* Mutant: the event is not looked at again after the process has ended.
JoinByReturnCode(r) ==
    /\ pc[r] = "join"
    /\ SetOutcome(r, ByReturnCode(r))
    /\ Goto(r, "cleanup")
    /\ UNCHANGED <<toolVars, child, cancelVars, historyVars>>

Join(r) ==
    /\ pc[r] = "join"
    /\ SetOutcome(r, IF cancelRequested THEN "cancelled" ELSE ByReturnCode(r))
    /\ Goto(r, "cleanup")
    /\ UNCHANGED <<toolVars, child, cancelVars, historyVars>>

\* finally: whatever process is published by now is forgotten.
Cleanup(r) ==
    /\ pc[r] = "cleanup"
    /\ process' = None
    /\ Goto(r, "returned")
    /\ UNCHANGED <<cancelRequested, child, outcome, cancelVars, historyVars>>

\* The operating system's part.
ChildEnds(r) ==
    /\ child[r] = "running"
    /\ SetChild(r, "succeeded") \/ SetChild(r, "failed")
    /\ UNCHANGED <<toolVars, pc, outcome, cancelVars, historyVars>>

-----------------------------------------------------------------------------
(* cancel *)

GotoCancel(k, label) == cancelPc' = [cancelPc EXCEPT ![k] = label]

RequestCancel(k) ==
    /\ cancelPc[k] = "idle"
    /\ cancelRequested' = TRUE
    /\ caught' = caught \cup {r \in Runs : child[r] = "running"}
    /\ GotoCancel(k, "read")
    /\ UNCHANGED <<process, runVars, target, overlapped>>

ReadProcess(k) ==
    /\ cancelPc[k] = "read"
    /\ target' = [target EXCEPT ![k] = process]
    /\ GotoCancel(k, IF process = None THEN "idle" ELSE "kill")
    /\ UNCHANGED <<toolVars, runVars, historyVars>>

KillProcess(k) ==
    /\ cancelPc[k] = "kill"
    /\ SetChild(target[k], Killed(target[k]))
    /\ target' = [target EXCEPT ![k] = None]
    /\ GotoCancel(k, "idle")
    /\ UNCHANGED <<toolVars, pc, outcome, historyVars>>

-----------------------------------------------------------------------------
RunStep(r) ==
    \/ Refuse(r) \/ Accept(r) \/ Clear(r) \/ Spawn(r) \/ SpawnFails(r) \/ Publish(r)
    \/ Poll(r) \/ SeeCancel(r) \/ SeeDeadline(r) \/ Sleep(r) \/ Terminate(r)
    \/ Join(r) \/ Cleanup(r)

CancelStep(k) == RequestCancel(k) \/ ReadProcess(k) \/ KillProcess(k)

Next ==
    \/ \E r \in Runs : RunStep(r) \/ ChildEnds(r)
    \/ \E k \in Cancellers : CancelStep(k)

\* A worker thread that has started goes on, and a deadline passes in the end.
\* A process may run for ever and no one need call cancel.
Fairness == \A r \in Runs : WF_vars(pc[r] # "new" /\ RunStep(r)) /\ SF_vars(SeeDeadline(r))

Spec == Init /\ [][Next]_vars
FairSpec == Spec /\ Fairness

-----------------------------------------------------------------------------
(* Properties *)

\* terminal/README: commands run with "a timeout ... and host-side cancellation".
\* Whatever ends a call (its process, a cancel, the timeout, or another thread's
\* kill in between), the call does not return and leave its process running.
NoCommandOutlivesItsCall == \A r \in Runs : child[r] = "running" => pc[r] \in LiveLabels

\* cancel: "Cancel the active command from the host".  A command whose process
\* was running when cancel was called is not reported as a success, although it
\* may end by itself before anyone looks at the event: as long as no other call
\* was made while it was in progress.
CaughtCommandDoesNotSucceed == \A r \in caught \ overlapped : outcome[r] # "success"

\* Every call returns, whatever its process does.
CallsReturn == \A r \in Runs : pc[r] = "clear" ~> pc[r] = "returned"

\* A call that has not overlapped another one is the only one in progress.
LoneIsAlone == \A r \in Working \ overlapped : Working = {r}

\* What CaughtCommandDoesNotSucceed needs: no run that has yet to clear the event
\* is caught, a caught one that is alone finds the event set, and a success is the
\* end of a call.
CaughtIsRemembered ==
    /\ \A r \in Runs : pc[r] \in {"new", "clear", "spawn"} => r \notin caught
    /\ \A r \in caught \ overlapped :
          pc[r] \in {"publish", "poll", "check", "terminate", "join"} => cancelRequested
    /\ \A r \in Runs : outcome[r] = "success" => pc[r] \in {"cleanup", "returned"}

\* The inductive invariant.
Inv == TypeOK /\ NoCommandOutlivesItsCall
=============================================================================
