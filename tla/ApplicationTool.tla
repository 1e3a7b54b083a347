-------------------------- MODULE ApplicationTool --------------------------
(***************************************************************************)
(* ApplicationTool of app/applications/tool.py with                        *)
(* WindowsApplicationBackend.  focus and close act on the first process    *)
(* that a listing showed, while processes end and Windows gives their ids  *)
(* to others.  Whether a run is permitted is left open here; ApprovedCalls *)
(* puts the permission engine in.                                          *)
(***************************************************************************)
EXTENDS Naturals

CONSTANTS
    Runs,           \* calls of execute with valid arguments
    Applications,   \* ApplicationPolicy.applications
    ProcessIds,
    Foreign,        \* the owner of a process of no application of the policy
    None

VARIABLES
    cancelled,      \* _cancelled
    owner,          \* what runs as each process id, or None
    at,             \* where each run is in execute
    operation,      \* its arguments: action and application
    first,          \* process_ids[0]
    result          \* how it ended

VARIABLES
    touched,        \* history: whose window it acted on
    reused,         \* history: runs whose listed process ended before they acted on it
    overlapped,     \* history: runs that were in execute together with another one
    spent           \* history: a run has been cancelled since the last cancel

runVars == <<at, operation, first, result>>
historyVars == <<touched, reused, overlapped, spent>>
vars == <<cancelled, owner, runVars, historyVars>>

Operations == [action : {"launch", "status", "focus", "close"}, application : Applications]
Places == {"new", "check", "reset", "permit", "dispatch", "window", "returned"}
Results == {"none", "cancelled", "denied", "raised", "timeout", "backend_error",
            "operation_failed", "success"}

TypeOK ==
    /\ cancelled \in BOOLEAN /\ spent \in BOOLEAN
    /\ owner \in [ProcessIds -> Applications \cup {Foreign, None}]
    /\ at \in [Runs -> Places]
    /\ operation \in [Runs -> Operations \cup {None}]
    /\ first \in [Runs -> ProcessIds \cup {None}]
    /\ result \in [Runs -> Results]
    /\ touched \in [Runs -> Applications \cup {Foreign, None}]
    /\ reused \subseteq Runs /\ overlapped \subseteq Runs

Init ==
    /\ cancelled = FALSE /\ spent = TRUE
    /\ owner \in [ProcessIds -> {Foreign, None}]
    /\ at = [r \in Runs |-> "new"]
    /\ operation = [r \in Runs |-> None] /\ first = [r \in Runs |-> None]
    /\ result = [r \in Runs |-> "none"] /\ touched = [r \in Runs |-> None]
    /\ reused = {} /\ overlapped = {}

Working == {r \in Runs : at[r] \notin {"new", "returned"}}
Goto(r, place) == at' = [at EXCEPT ![r] = place]

Return(r, how) ==
    /\ Goto(r, "returned")
    /\ result' = [result EXCEPT ![r] = how]
    /\ first' = [first EXCEPT ![r] = None]
    /\ spent' = (spent \/ how = "cancelled")
    /\ UNCHANGED <<operation, reused, overlapped>>

-----------------------------------------------------------------------------
(* execute *)

Begin(r, o) ==
    /\ at[r] = "new"
    /\ Goto(r, "check")
    /\ operation' = [operation EXCEPT ![r] = o]
    /\ overlapped' = IF Working = {} THEN overlapped ELSE overlapped \cup Working \cup {r}
    /\ UNCHANGED <<cancelled, owner, first, result, touched, reused, spent>>

CheckCancelled(r) ==
    /\ at[r] = "check"
    /\ Goto(r, IF cancelled THEN "reset" ELSE "permit")
    /\ UNCHANGED <<cancelled, owner, operation, first, result, historyVars>>

\* Mutant: the flag is left up, as BrowserTool leaves it.
ReturnCancelled(r) ==
    /\ at[r] = "reset"
    /\ Return(r, "cancelled")
    /\ UNCHANGED <<cancelled, owner, touched>>

ResetCancelled(r) ==
    /\ at[r] = "reset"
    /\ cancelled' = FALSE
    /\ Return(r, "cancelled")
    /\ UNCHANGED <<owner, touched>>

\* The permission that an operation asks for.
Requirement(o) == IF o.action = "close" THEN "application.close" ELSE "application.safe"

Permitted(r) ==
    /\ at[r] = "permit"
    /\ Goto(r, "dispatch")
    /\ UNCHANGED <<cancelled, owner, operation, first, result, historyVars>>

\* The decision is no, or raises.
Refused(r, how) ==
    /\ at[r] = "permit"
    /\ how \in {"denied", "raised"}
    /\ Return(r, how)
    /\ UNCHANGED <<cancelled, owner, touched>>

-----------------------------------------------------------------------------
(* The backend *)

Launch(r) ==
    /\ at[r] = "dispatch" /\ operation[r].action = "launch"
    /\ \E p \in ProcessIds :
        /\ owner[p] = None
        /\ owner' = [owner EXCEPT ![p] = operation[r].application]
    /\ Return(r, "success")
    /\ UNCHANGED <<cancelled, touched>>

\* Popen or tasklist cannot start, or tasklist takes too long.
BackendFails(r) ==
    /\ at[r] = "dispatch"
    /\ \/ Return(r, "backend_error")
       \/ operation[r].action # "launch" /\ Return(r, "timeout")
    /\ UNCHANGED <<cancelled, owner, touched>>

\* Mutant: every row of the listing counts.
ListAll(o) == {p \in ProcessIds : owner[p] # None}

\* _process_ids
Listed(o) == {p \in ProcessIds : owner[p] = o.application}

\* Nothing is listed, or there are no windows on this system.
NoProcess(r) ==
    /\ at[r] = "dispatch" /\ operation[r].action # "launch"
    /\ Listed(operation[r]) = {} \/ operation[r].action # "status"
    /\ Return(r, "operation_failed")
    /\ UNCHANGED <<cancelled, owner, touched>>

Status(r) ==
    /\ at[r] = "dispatch" /\ operation[r].action = "status"
    /\ Listed(operation[r]) # {}
    /\ Return(r, "success")
    /\ UNCHANGED <<cancelled, owner, touched>>

ListProcesses(r) ==
    /\ at[r] = "dispatch" /\ operation[r].action \in {"focus", "close"}
    /\ \E p \in Listed(operation[r]) : first' = [first EXCEPT ![r] = p]
    /\ Goto(r, "window")
    /\ UNCHANGED <<cancelled, owner, operation, result, historyVars>>

\* _window_action: whoever owns the process id by now.  Focusing or closing a window
\* can fail; closing asks the application, which may stay.
WindowAction(r) ==
    /\ at[r] = "window"
    /\ \/ Return(r, "operation_failed") /\ UNCHANGED touched
       \/ /\ owner[first[r]] # None
          /\ touched' = [touched EXCEPT ![r] = owner[first[r]]]
          /\ Return(r, "success")
    /\ UNCHANGED <<cancelled, owner>>

-----------------------------------------------------------------------------
(* Outside *)

Cancel ==
    /\ cancelled' = TRUE /\ spent' = FALSE
    /\ UNCHANGED <<owner, runVars, touched, reused, overlapped>>

ProcessEnds(p) ==
    /\ owner[p] # None
    /\ owner' = [owner EXCEPT ![p] = None]
    /\ reused' = reused \cup {r \in Runs : first[r] = p}
    /\ UNCHANGED <<cancelled, runVars, touched, overlapped, spent>>

ForeignStarts(p) ==
    /\ owner[p] = None
    /\ owner' = [owner EXCEPT ![p] = Foreign]
    /\ UNCHANGED <<cancelled, runVars, historyVars>>

-----------------------------------------------------------------------------
BackendStep(r) ==
    \/ Launch(r) \/ BackendFails(r) \/ NoProcess(r) \/ Status(r) \/ ListProcesses(r)
    \/ WindowAction(r)

Outside == Cancel \/ \E p \in ProcessIds : ProcessEnds(p) \/ ForeignStarts(p)

Execute(r) ==
    \/ \E o \in Operations : Begin(r, o)
    \/ CheckCancelled(r) \/ ResetCancelled(r) \/ BackendStep(r)
    \/ Permitted(r) \/ \E how \in {"denied", "raised"} : Refused(r, how)

Next == Outside \/ \E r \in Runs : Execute(r)

\* The tool with any policy, behind any gate.
Spec == Init /\ [][Next]_vars

-----------------------------------------------------------------------------
(* Properties *)

\* applications/README: "does not terminate arbitrary processes".  The window that an
\* operation acts on belongs to its application, as long as the process that was
\* listed has not ended in between and left its id to another one.
OwnWindowOnly ==
    \A r \in Runs \ reused : touched[r] # None => touched[r] = operation[r].application

\* One cancel stops one operation: the one that resets the flag is the only one to
\* see it, unless two look at it together.
OneCancelOneRun ==
    [][\A r \in Runs \ overlapped :
         result[r] # "cancelled" /\ result'[r] = "cancelled" => ~spent]_vars
=============================================================================
