-------------------------- MODULE ComputerUseTool --------------------------
(***************************************************************************)
(* ComputerUseTool of app/computer/tool.py with ControlledTestBackend, the *)
(* backend of app/computer/backend.py.  Each call performs its action in a *)
(* thread of its own executor and waits for it no longer than its timeout; *)
(* the thread goes on after that.  Calls share the tool, and so the flag   *)
(* _cancelled and the screen, without a lock.                              *)
(***************************************************************************)
EXTENDS Naturals

CONSTANT Calls      \* calls of execute with valid arguments

VARIABLES
    cancelled,      \* _cancelled
    version,        \* the screen: _version of the backend, which its digest tells
    pc,             \* where each call is in execute
    before,         \* the version of its first screenshot
    after,          \* the version of its second one
    outcome,        \* its ComputerResult
    item,           \* its work item in its executor
    loaded          \* the operand of "_version += 1" in the executor's thread

VARIABLES
    overlapped,     \* history: calls that met another call or what it had left running
    caught,         \* history: calls that a cancel is for
    owed            \* history: a cancel found no call that it could still stop

callVars == <<pc, before, after, outcome>>
itemVars == <<item, loaded>>
historyVars == <<overlapped, caught, owed>>
vars == <<cancelled, version, callVars, itemVars, historyVars>>

Labels == {"new", "check", "reset", "permit", "submit", "wait", "look", "verify",
           "shutdown", "returned"}
Outcomes == {"none", "cancelled", "denied", "timeout", "verification_failed", "success"}
Unfinished == {"queued", "taken", "loaded"}

TypeOK ==
    /\ cancelled \in BOOLEAN
    /\ version \in Nat
    /\ pc \in [Calls -> Labels]
    /\ before \in [Calls -> Nat] /\ after \in [Calls -> Nat]
    /\ outcome \in [Calls -> Outcomes]
    /\ item \in [Calls -> Unfinished \cup {"none", "dropped", "done"}]
    /\ loaded \in [Calls -> Nat]
    /\ overlapped \subseteq Calls /\ caught \subseteq Calls
    /\ owed \in BOOLEAN

Init ==
    /\ cancelled = FALSE /\ version = 0
    /\ pc = [c \in Calls |-> "new"]
    /\ before = [c \in Calls |-> 0] /\ after = [c \in Calls |-> 0]
    /\ outcome = [c \in Calls |-> "none"]
    /\ item = [c \in Calls |-> "none"] /\ loaded = [c \in Calls |-> 0]
    /\ overlapped = {} /\ caught = {} /\ owed = FALSE

Working == {c \in Calls : pc[c] \notin {"new", "returned"}}
Active == Working \cup {c \in Calls : item[c] \in Unfinished}

Goto(c, label) == pc' = [pc EXCEPT ![c] = label]
End(c, label, how) == Goto(c, label) /\ outcome' = [outcome EXCEPT ![c] = how]
SetItem(c, status) == item' = [item EXCEPT ![c] = status]

-----------------------------------------------------------------------------
(* execute *)

Begin(c) ==
    /\ pc[c] = "new"
    /\ Goto(c, "check")
    /\ overlapped' = IF Active = {} THEN overlapped ELSE overlapped \cup Active \cup {c}
    /\ caught' = IF owed THEN caught \cup {c} ELSE caught
    /\ owed' = FALSE
    /\ UNCHANGED <<cancelled, version, before, after, outcome, itemVars>>

CheckCancelled(c) ==
    /\ pc[c] = "check"
    /\ Goto(c, IF cancelled THEN "reset" ELSE "permit")
    /\ UNCHANGED <<cancelled, version, before, after, outcome, itemVars, historyVars>>

ResetCancelled(c) ==
    /\ pc[c] = "reset"
    /\ cancelled' = FALSE
    /\ End(c, "returned", "cancelled")
    /\ UNCHANGED <<version, before, after, itemVars, historyVars>>

Refuse(c) ==
    /\ pc[c] = "permit"
    /\ End(c, "returned", "denied")
    /\ UNCHANGED <<cancelled, version, before, after, itemVars, historyVars>>

\* Permitted, it takes the first screenshot.
Permit(c) ==
    /\ pc[c] = "permit"
    /\ before' = [before EXCEPT ![c] = version]
    /\ Goto(c, "submit")
    /\ UNCHANGED <<cancelled, version, after, outcome, itemVars, historyVars>>

Submit(c) ==
    /\ pc[c] = "submit"
    /\ SetItem(c, "queued")
    /\ Goto(c, "wait")
    /\ UNCHANGED <<cancelled, version, before, after, outcome, loaded, historyVars>>

\* Mutant: the result of the future is not waited for.
AwaitSubmission(c) ==
    /\ pc[c] = "wait"
    /\ Goto(c, "look")
    /\ UNCHANGED <<cancelled, version, before, after, outcome, itemVars, historyVars>>

AwaitResult(c) ==
    /\ pc[c] = "wait" /\ item[c] = "done"
    /\ Goto(c, "look")
    /\ UNCHANGED <<cancelled, version, before, after, outcome, itemVars, historyVars>>

\* FutureTimeoutError.  The backend's cancel does nothing.
TimeOut(c) ==
    /\ pc[c] = "wait" /\ item[c] # "done"
    /\ End(c, "shutdown", "timeout")
    /\ UNCHANGED <<cancelled, version, before, after, itemVars, historyVars>>

\* Mutant: the flag is looked at before the action only.
LookNoMore(c) ==
    /\ pc[c] = "look"
    /\ Goto(c, "verify")
    /\ UNCHANGED <<cancelled, version, before, after, outcome, itemVars, historyVars>>

\* The second look at the flag leaves it up.
LookCancelled(c) ==
    /\ pc[c] = "look"
    /\ IF cancelled THEN End(c, "shutdown", "cancelled")
                    ELSE Goto(c, "verify") /\ UNCHANGED outcome
    /\ UNCHANGED <<cancelled, version, before, after, itemVars, historyVars>>

Verify(c) ==
    /\ pc[c] = "verify"
    /\ after' = [after EXCEPT ![c] = version]
    /\ End(c, "shutdown", IF version = before[c] THEN "verification_failed" ELSE "success")
    /\ UNCHANGED <<cancelled, version, before, itemVars, historyVars>>

\* Mutant: without cancel_futures.
ShutdownOnly(c) ==
    /\ pc[c] = "shutdown"
    /\ Goto(c, "returned")
    /\ UNCHANGED <<cancelled, version, before, after, outcome, itemVars, historyVars>>

\* Mutant: with wait=True.
ShutdownWaiting(c) ==
    /\ pc[c] = "shutdown" /\ item[c] \notin {"taken", "loaded"}
    /\ Goto(c, "returned")
    /\ IF item[c] = "queued" THEN SetItem(c, "dropped") ELSE UNCHANGED item
    /\ UNCHANGED <<cancelled, version, before, after, outcome, loaded, historyVars>>

\* finally: an item that no thread has taken is dropped.
Shutdown(c) ==
    /\ pc[c] = "shutdown"
    /\ Goto(c, "returned")
    /\ IF item[c] = "queued" THEN SetItem(c, "dropped") ELSE UNCHANGED item
    /\ UNCHANGED <<cancelled, version, before, after, outcome, loaded, historyVars>>

-----------------------------------------------------------------------------
(* The thread of a call's executor, which takes the time it takes *)

Take(c) ==
    /\ item[c] = "queued"
    /\ SetItem(c, "taken")
    /\ UNCHANGED <<cancelled, version, callVars, loaded, historyVars>>

LoadVersion(c) ==
    /\ item[c] = "taken"
    /\ SetItem(c, "loaded")
    /\ loaded' = [loaded EXCEPT ![c] = version]
    /\ UNCHANGED <<cancelled, version, callVars, historyVars>>

StoreVersion(c) ==
    /\ item[c] = "loaded"
    /\ SetItem(c, "done")
    /\ version' = loaded[c] + 1
    /\ loaded' = [loaded EXCEPT ![c] = 0]
    /\ UNCHANGED <<cancelled, callVars, historyVars>>

-----------------------------------------------------------------------------
(* cancel, by the agent or the host *)

\* The calls that look at the flag once more, or have seen it.
Stoppable ==
    {c \in Calls : pc[c] \in {"check", "reset", "permit", "submit", "wait", "look"}}

Cancel ==
    /\ cancelled' = TRUE
    /\ caught' = caught \cup Stoppable
    /\ owed' = (Stoppable = {})
    /\ UNCHANGED <<version, callVars, itemVars, overlapped>>

-----------------------------------------------------------------------------
CallStep(c) ==
    \/ CheckCancelled(c) \/ ResetCancelled(c) \/ Refuse(c) \/ Permit(c) \/ Submit(c)
    \/ AwaitResult(c) \/ TimeOut(c) \/ LookCancelled(c) \/ Verify(c) \/ Shutdown(c)

ItemStep(c) == Take(c) \/ LoadVersion(c) \/ StoreVersion(c)

Next == Cancel \/ \E c \in Calls : Begin(c) \/ CallStep(c) \/ ItemStep(c)

\* A call in progress goes on and its timeout passes; an action may hang for ever.
Fairness == \A c \in Calls : WF_vars(CallStep(c))

Spec == Init /\ [][Next]_vars
FairSpec == Spec /\ Fairness

-----------------------------------------------------------------------------
(* Properties *)

\* A call in progress when cancel is called, or the next one when that one looks at
\* the flag no more, does not succeed, however its timeout and the cancel race.
CaughtActionFails == \A c \in caught \ overlapped : outcome[c] # "success"

\* computer/README: "screenshot -> verification".  A verified result is about the
\* action that the call performed: it had ended when the second screenshot was
\* taken, and that screenshot shows it and nothing else; nor is an action that was
\* performed reported as failed.  Another call's late action breaks either.
VerifiedIsItsOwn ==
    \A c \in Calls \ overlapped :
        /\ outcome[c] = "success" => item[c] = "done" /\ after[c] = before[c] + 1
        /\ outcome[c] # "verification_failed"

\* An action goes on after its call has returned only if the call said "timeout",
\* and then the action had begun before: a result in the caller's hands is followed
\* by no new action.
LeftoverTimedOut ==
    \A c \in Calls :
        item[c] \in Unfinished /\ pc[c] = "returned" =>
            outcome[c] = "timeout" /\ item[c] # "queued"

\* Every call returns, also when its action hangs.
CallsReturn == \A c \in Calls : pc[c] = "check" ~> pc[c] = "returned"

-----------------------------------------------------------------------------
(* What the properties rest on *)

AloneIsActive == \A c \in Active \ overlapped : Active = {c}

OwedIsKept == owed => cancelled /\ Stoppable = {}

\* A caught call that is alone finds the flag up, and a success is past its looks.
CaughtIsSeen ==
    /\ \A c \in caught : pc[c] # "new"
    /\ \A c \in caught \ overlapped :
          /\ pc[c] \in {"check", "permit", "submit", "wait", "look"} => cancelled
          /\ pc[c] # "verify"
    /\ \A c \in Calls : outcome[c] # "none" => pc[c] \in {"shutdown", "returned"}

CancelInv == TypeOK /\ AloneIsActive /\ OwedIsKept /\ CaughtIsSeen /\ CaughtActionFails

\* The item of a call in its course, and what a call alone finds on the screen.
ItemFollowsCall ==
    \A c \in Calls :
        /\ pc[c] \in {"new", "check", "reset", "permit", "submit"} => item[c] = "none"
        /\ pc[c] \in {"look", "verify"} => item[c] = "done"
        /\ item[c] \in Unfinished /\ pc[c] \in {"shutdown", "returned"} =>
              outcome[c] = "timeout"

ScreenWhenAlone ==
    \A c \in Active \ overlapped :
        /\ pc[c] \in {"submit", "wait"} /\ item[c] # "done" => version = before[c]
        /\ item[c] = "loaded" => loaded[c] = version
        /\ pc[c] \in {"wait", "look", "verify"} /\ item[c] = "done" =>
              version = before[c] + 1

ScreenInv ==
    TypeOK /\ AloneIsActive /\ ItemFollowsCall /\ ScreenWhenAlone
           /\ LeftoverTimedOut /\ VerifiedIsItsOwn
=============================================================================
