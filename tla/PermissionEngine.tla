-------------------------- MODULE PermissionEngine --------------------------
(***************************************************************************)
(* PermissionEngine of app/security/permissions.py.  The agent thread and  *)
(* the worker threads of tools (each tool asks again for itself) call      *)
(* decide, the host thread calls approve_once and deny, and there is no    *)
(* lock: every access to _approved_once and _denied is a step of its own.  *)
(***************************************************************************)
EXTENDS Naturals, FiniteSets

CONSTANTS
    Callers,        \* threads that call decide
    Ids,            \* request ids; the controller uses the model's call ids
    Requirements,   \* permission requirements of tools
    Policy,         \* PermissionPolicy.levels, on some of the requirements
    MaxApprovals,   \* bound: approve_once calls per id
    NoRequest       \* the request of a thread that is not in a call

Levels == {"safe", "approval_required", "blocked"}

ASSUME CallersAssumption == IsFiniteSet(Callers)

ASSUME MaxApprovalsAssumption == MaxApprovals \in Nat

ASSUME PolicyAssumption ==
    /\ DOMAIN Policy \subseteq Requirements
    /\ \A r \in DOMAIN Policy : Policy[r] \in Levels

Requests == [id : Ids, requirement : Requirements]

ASSUME NoRequestAssumption == NoRequest \notin Requests

\* Unknown requirements fail closed.
LevelFor(r) == IF r \in DOMAIN Policy THEN Policy[r] ELSE "blocked"

\* The requests that a host has a reason to ask its user about.
Asked == {q \in Requests : LevelFor(q.requirement) = "approval_required"}

VARIABLES
    approvedOnce,   \* _approved_once
    denied,         \* _denied
    audit,          \* _audit_events: how many of an id say "approved once"
    pc,             \* where each caller is in decide
    request,        \* its argument
    reason,         \* the reason of its decision
    hostPc,         \* where the host is in approve_once or deny
    hostRequest     \* the request that the user was asked about

VARIABLES
    approvals,      \* history: approvals given for an id
    permits         \* history: permissions granted because of an approval

deciderVars == <<audit, pc, request, reason>>
hostVars == <<hostPc, hostRequest>>
historyVars == <<approvals, permits>>
vars == <<approvedOnce, denied, deciderVars, hostVars, historyVars>>

Permitting == {"safe", "approved"}
Reasons == Permitting \cup {"blocked", "denied", "required"}

TypeOK ==
    /\ approvedOnce \subseteq Ids
    /\ denied \subseteq Ids
    /\ audit \in [Ids -> Nat]
    /\ pc \in [Callers -> {"idle", "checkDenied", "checkApproved", "consume", "record"}]
    /\ request \in [Callers -> Requests \cup {NoRequest}]
    /\ reason \in [Callers -> Reasons]
    /\ hostPc \in {"idle", "approve", "deny"}
    /\ hostRequest \in Requests \cup {NoRequest}
    /\ approvals \in [Ids -> Nat]
    /\ permits \in [Ids -> Nat]

Init ==
    /\ approvedOnce = {} /\ denied = {}
    /\ audit = [i \in Ids |-> 0]
    /\ pc = [c \in Callers |-> "idle"]
    /\ request = [c \in Callers |-> NoRequest]
    /\ reason = [c \in Callers |-> "required"]
    /\ hostPc = "idle" /\ hostRequest = NoRequest
    /\ approvals = [i \in Ids |-> 0] /\ permits = [i \in Ids |-> 0]

-----------------------------------------------------------------------------
(* decide *)

Goto(c, label) == pc' = [pc EXCEPT ![c] = label]

\* The decision is made; what is left is to record it.
Decided(c, why) ==
    /\ Goto(c, "record")
    /\ reason' = [reason EXCEPT ![c] = why]

\* decide returns or raises, and its locals go with it.
Leave(c) ==
    /\ Goto(c, "idle")
    /\ request' = [request EXCEPT ![c] = NoRequest]
    /\ reason' = [reason EXCEPT ![c] = "required"]

Decide(c) ==
    /\ pc[c] = "idle"
    /\ \E q \in Requests :
        /\ request' = [request EXCEPT ![c] = q]
        /\ IF LevelFor(q.requirement) = "blocked"
           THEN Decided(c, "blocked")
           ELSE Goto(c, "checkDenied") /\ UNCHANGED reason
    /\ UNCHANGED <<approvedOnce, denied, audit, hostVars, historyVars>>

CheckDenied(c) ==
    /\ pc[c] = "checkDenied"
    /\ \/ request[c].id \in denied /\ Decided(c, "denied")
       \/ /\ request[c].id \notin denied
          /\ IF LevelFor(request[c].requirement) = "safe"
             THEN Decided(c, "safe")
             ELSE Goto(c, "checkApproved") /\ UNCHANGED reason
    /\ UNCHANGED <<approvedOnce, denied, audit, request, hostVars, historyVars>>

CheckApproved(c) ==
    /\ pc[c] = "checkApproved"
    /\ IF request[c].id \in approvedOnce
       THEN Goto(c, "consume") /\ UNCHANGED reason
       ELSE Decided(c, "required")
    /\ UNCHANGED <<approvedOnce, denied, audit, request, hostVars, historyVars>>

Permit(i) == permits' = [permits EXCEPT ![i] = @ + 1]

\* Mutant: discard instead of remove, which does not notice a lost race.
ConsumeAnyway(c) ==
    /\ pc[c] = "consume"
    /\ approvedOnce' = approvedOnce \ {request[c].id}
    /\ Decided(c, "approved")
    /\ Permit(request[c].id)
    /\ UNCHANGED <<denied, audit, request, hostVars, approvals>>

\* set.remove raises KeyError when the approval is gone, and decide with it.
Consume(c) ==
    /\ pc[c] = "consume"
    /\ \/ /\ request[c].id \in approvedOnce
          /\ approvedOnce' = approvedOnce \ {request[c].id}
          /\ Decided(c, "approved")
          /\ Permit(request[c].id)
          /\ UNCHANGED request
       \/ /\ request[c].id \notin approvedOnce
          /\ Leave(c)
          /\ UNCHANGED <<approvedOnce, permits>>
    /\ UNCHANGED <<denied, audit, hostVars, approvals>>

\* Mutant: a decision about an approval is not appended.
RecordNothing(c) ==
    /\ pc[c] = "record"
    /\ Leave(c)
    /\ UNCHANGED <<approvedOnce, denied, audit, hostVars, historyVars>>

Record(c) ==
    /\ pc[c] = "record"
    /\ audit' = IF reason[c] = "approved"
                THEN [audit EXCEPT ![request[c].id] = @ + 1]
                ELSE audit
    /\ Leave(c)
    /\ UNCHANGED <<approvedOnce, denied, hostVars, historyVars>>

-----------------------------------------------------------------------------
(* approve_once and deny: the user answers about one request *)

ApproveOnce ==
    /\ hostPc = "idle"
    /\ hostPc' = "approve"
    /\ \E q \in Asked :
        /\ approvals[q.id] < MaxApprovals
        /\ hostRequest' = q
        /\ denied' = denied \ {q.id}
    /\ UNCHANGED <<approvedOnce, deciderVars, approvals, permits>>

AddApproval ==
    /\ hostPc = "approve"
    /\ approvedOnce' = approvedOnce \cup {hostRequest.id}
    /\ approvals' = [approvals EXCEPT ![hostRequest.id] = @ + 1]
    /\ hostPc' = "idle" /\ hostRequest' = NoRequest
    /\ UNCHANGED <<denied, deciderVars, permits>>

\* Mutant: an earlier approval survives the denial.
DenyKeepingApproval ==
    /\ hostPc = "idle"
    /\ hostPc' = "deny"
    /\ \E q \in Asked : hostRequest' = q
    /\ UNCHANGED <<approvedOnce, denied, deciderVars, approvals, permits>>

Deny ==
    /\ hostPc = "idle"
    /\ hostPc' = "deny"
    /\ \E q \in Asked :
        /\ hostRequest' = q
        /\ approvedOnce' = approvedOnce \ {q.id}
    /\ UNCHANGED <<denied, deciderVars, approvals, permits>>

AddDenial ==
    /\ hostPc = "deny"
    /\ denied' = denied \cup {hostRequest.id}
    /\ hostPc' = "idle" /\ hostRequest' = NoRequest
    /\ UNCHANGED <<approvedOnce, deciderVars, historyVars>>

-----------------------------------------------------------------------------
DecideStep(c) == Decide(c) \/ CheckDenied(c) \/ CheckApproved(c) \/ Consume(c) \/ Record(c)
HostStep == ApproveOnce \/ AddApproval \/ Deny \/ AddDenial
Next == (\E c \in Callers : DecideStep(c)) \/ HostStep

Spec == Init /\ [][Next]_vars

-----------------------------------------------------------------------------
(* Properties *)

Outstanding(i) == IF i \in approvedOnce THEN 1 ELSE 0

\* security/README: "One-time approvals".  However many threads decide requests
\* with the same id at the same time, no more of them are permitted than the
\* user gave approvals, and an approval still outstanding is not counted yet.
ApprovalsCoverPermits ==
    \A i \in Ids : permits[i] + Outstanding(i) <= approvals[i]

\* A denial wins over the approval that it withdraws, also against a thread that
\* has looked for the denial before it came and is about to use the approval.
DeniedIsNotPermitted ==
    [][\A i \in Ids : permits'[i] > permits[i] => i \notin denied]_vars

\* What the engine's tables say of each other: an id is never approved and denied
\* at once, and the host's second half of a call meets what the first half left.
TablesAgree ==
    /\ approvedOnce \cap denied = {}
    /\ hostPc # "idle" => hostRequest \in Requests
    /\ hostPc = "approve" => hostRequest.id \notin denied
    /\ hostPc = "deny" => hostRequest.id \notin approvedOnce

\* A thread in decide has a request.
CallersHaveRequests == \A c \in Callers : pc[c] # "idle" => request[c] \in Requests

\* The threads that were permitted an id and have yet to record it.
Recording(i) ==
    {c \in Callers : pc[c] = "record" /\ reason[c] = "approved" /\ request[c].id = i}

\* Every use of an approval is in the audit trail once, however the threads
\* interleave, unless its thread is just about to append it.
AuditAccountsForPermits ==
    \A i \in Ids : permits[i] = audit[i] + Cardinality(Recording(i))

\* The inductive invariant.
Inv == TypeOK /\ CallersHaveRequests /\ TablesAgree /\ ApprovalsCoverPermits
=============================================================================
