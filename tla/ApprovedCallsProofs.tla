------------------------ MODULE ApprovedCallsProofs ------------------------
(***************************************************************************)
(* Theorems about PermissionEngine, for any callers, ids and policy, and   *)
(* about ApprovedCalls, for any number of runs, calls, ids and processes.  *)
(* The composition implements both of its components: what is proved of    *)
(* each of them holds of it, and the engine's invariant, which rests on    *)
(* the engine's assumptions alone, is not proved again.                    *)
(***************************************************************************)
EXTENDS ApprovedCalls, FiniteSetTheorems, TLAPS

-----------------------------------------------------------------------------
(* The permission engine itself *)

USE DEF deciderVars, hostVars, historyVars

LEMMA InitInv == Init => Inv
BY NoRequestAssumption DEF Init, Inv, TypeOK, CallersHaveRequests, TablesAgree,
    ApprovalsCoverPermits, Outstanding, Reasons, Permitting

LEMMA DecideInv ==
    ASSUME Inv, NEW c \in Callers, Decide(c)
    PROVE  Inv'
<1> USE DEF Inv
<1>1. TypeOK'
    BY DEF TypeOK, Decide, Decided, Goto, Reasons, Permitting, Requests
<1>2. CallersHaveRequests'
    BY DEF TypeOK, CallersHaveRequests, Decide, Decided, Goto
<1>3. TablesAgree' /\ ApprovalsCoverPermits'
    BY DEF Decide, TablesAgree, ApprovalsCoverPermits, Outstanding
<1> QED BY <1>1, <1>2, <1>3

LEMMA CheckDeniedInv ==
    ASSUME Inv, NEW c \in Callers, CheckDenied(c)
    PROVE  Inv'
<1> USE DEF Inv
<1>1. TypeOK'
    BY DEF TypeOK, CheckDenied, Decided, Goto, Reasons, Permitting
<1>2. CallersHaveRequests'
    BY DEF TypeOK, CallersHaveRequests, CheckDenied, Decided, Goto
<1>3. TablesAgree' /\ ApprovalsCoverPermits'
    BY DEF CheckDenied, TablesAgree, ApprovalsCoverPermits, Outstanding
<1> QED BY <1>1, <1>2, <1>3

LEMMA CheckApprovedInv ==
    ASSUME Inv, NEW c \in Callers, CheckApproved(c)
    PROVE  Inv'
<1> USE DEF Inv
<1>1. TypeOK'
    BY DEF TypeOK, CheckApproved, Decided, Goto, Reasons, Permitting
<1>2. CallersHaveRequests'
    BY DEF TypeOK, CallersHaveRequests, CheckApproved, Decided, Goto
<1>3. TablesAgree' /\ ApprovalsCoverPermits'
    BY DEF CheckApproved, TablesAgree, ApprovalsCoverPermits, Outstanding
<1> QED BY <1>1, <1>2, <1>3

LEMMA ConsumeInv ==
    ASSUME Inv, NEW c \in Callers, Consume(c)
    PROVE  Inv'
<1> USE DEF Inv
<1>1. request[c].id \in Ids
    BY DEF Consume, CallersHaveRequests, Requests
<1>2. TypeOK'
    BY <1>1 DEF TypeOK, Consume, Decided, Leave, Goto, Permit, Reasons, Permitting
<1>3. CallersHaveRequests'
    BY DEF TypeOK, CallersHaveRequests, Consume, Decided, Leave, Goto
<1>4. TablesAgree'
    BY DEF Consume, TablesAgree
<1>5. ApprovalsCoverPermits'
    BY <1>1 DEF Consume, Permit, TypeOK, ApprovalsCoverPermits, Outstanding
<1> QED BY <1>2, <1>3, <1>4, <1>5

LEMMA RecordInv ==
    ASSUME Inv, NEW c \in Callers, Record(c)
    PROVE  Inv'
<1> USE DEF Inv
<1>1. request[c].id \in Ids
    BY DEF Record, CallersHaveRequests, Requests
<1>2. TypeOK'
    BY <1>1 DEF TypeOK, Record, Leave, Goto, Reasons, Permitting
<1>3. CallersHaveRequests'
    BY DEF TypeOK, CallersHaveRequests, Record, Leave, Goto
<1>4. TablesAgree' /\ ApprovalsCoverPermits'
    BY DEF Record, TablesAgree, ApprovalsCoverPermits, Outstanding
<1> QED BY <1>2, <1>3, <1>4

\* Every step of the host keeps the invariant: the order of the two halves of
\* approve_once and of deny is what keeps the tables disjoint.
LEMMA HostInv ==
    ASSUME Inv, HostStep
    PROVE  Inv'
<1> USE DEF Inv
<1>0. \A q \in Asked : q \in Requests /\ q.id \in Ids
    BY DEF Asked, Requests
<1>1. CASE ApproveOnce
    <2>1. TypeOK'
        BY <1>1, <1>0 DEF TypeOK, ApproveOnce
    <2>2. TablesAgree'
        BY <1>1, <1>0 DEF TablesAgree, ApproveOnce
    <2>3. CallersHaveRequests' /\ ApprovalsCoverPermits'
        BY <1>1 DEF CallersHaveRequests, ApprovalsCoverPermits, Outstanding, ApproveOnce
    <2> QED BY <2>1, <2>2, <2>3
<1>2. CASE AddApproval
    <2>0. hostRequest.id \in Ids
        BY <1>2 DEF AddApproval, TablesAgree, Requests
    <2>1. TypeOK'
        BY <1>2, <2>0 DEF TypeOK, AddApproval
    <2>2. TablesAgree'
        BY <1>2 DEF TablesAgree, AddApproval
    <2>3. CallersHaveRequests'
        BY <1>2 DEF CallersHaveRequests, AddApproval
    <2>4. ApprovalsCoverPermits'
        BY <1>2, <2>0 DEF TypeOK, ApprovalsCoverPermits, Outstanding, AddApproval
    <2> QED BY <2>1, <2>2, <2>3, <2>4
<1>3. CASE Deny
    <2>1. TypeOK'
        BY <1>3, <1>0 DEF TypeOK, Deny, Asked
    <2>2. TablesAgree'
        BY <1>3, <1>0 DEF TablesAgree, Deny
    <2>3. CallersHaveRequests'
        BY <1>3 DEF CallersHaveRequests, Deny
    <2>4. ApprovalsCoverPermits'
        BY <1>3 DEF TypeOK, ApprovalsCoverPermits, Outstanding, Deny
    <2> QED BY <2>1, <2>2, <2>3, <2>4
<1>4. CASE AddDenial
    <2>0. hostRequest.id \in Ids
        BY <1>4 DEF AddDenial, TablesAgree, Requests
    <2>1. TypeOK'
        BY <1>4, <2>0 DEF TypeOK, AddDenial
    <2>2. TablesAgree'
        BY <1>4 DEF TablesAgree, AddDenial
    <2>3. CallersHaveRequests' /\ ApprovalsCoverPermits'
        BY <1>4 DEF CallersHaveRequests, ApprovalsCoverPermits, Outstanding, AddDenial
    <2> QED BY <2>1, <2>2, <2>3
<1> QED BY <1>1, <1>2, <1>3, <1>4 DEF HostStep

LEMMA StepInv == Inv /\ [Next]_vars => Inv'
<1> SUFFICES ASSUME Inv, [Next]_vars
             PROVE  Inv'
    OBVIOUS
<1>1. CASE UNCHANGED vars
    BY <1>1 DEF Inv, vars, TypeOK, CallersHaveRequests, TablesAgree,
        ApprovalsCoverPermits, Outstanding
<1>2. CASE HostStep
    BY <1>2, HostInv
<1>3. CASE \E c \in Callers : DecideStep(c)
    BY <1>3, DecideInv, CheckDeniedInv, CheckApprovedInv, ConsumeInv, RecordInv
       DEF DecideStep
<1> QED BY <1>1, <1>2, <1>3 DEF Next

\* The inductive invariant holds of every run, for any number of threads.
THEOREM InvInvariant == Spec => []Inv
BY InitInv, StepInv, PTL DEF Spec

\* The engine's tables, and the locals of the threads in decide, keep their types.
THEOREM TypeCorrect == Spec => []TypeOK
<1>1. Inv => TypeOK BY DEF Inv
<1> QED BY <1>1, InvInvariant, PTL

\* No id is approved and denied at the same time, whoever calls in between.
THEOREM TablesAlwaysAgree == Spec => []TablesAgree
<1>1. Inv => TablesAgree BY DEF Inv
<1> QED BY <1>1, InvInvariant, PTL

\* The one-time approval is one-time: threads racing for the same approval are
\* permitted at most as often as the user approved.
THEOREM ApprovalsCoverPermitsInvariant == Spec => []ApprovalsCoverPermits
<1>1. Inv => ApprovalsCoverPermits BY DEF Inv
<1> QED BY <1>1, InvInvariant, PTL

\* An approval that was withdrawn permits nothing, not even in a thread that had
\* found it before it was withdrawn.
THEOREM DenialWins == Spec => DeniedIsNotPermitted
<1> DEFINE NoDeniedPermit == \A i \in Ids : permits'[i] > permits[i] => i \notin denied
<1>1. Inv /\ [Next]_vars => [NoDeniedPermit]_vars
    <2> SUFFICES ASSUME Inv, Next, NEW i \in Ids, permits'[i] > permits[i]
                 PROVE  i \notin denied
        OBVIOUS
    <2>1. permits[i] \in Nat
        BY DEF Inv, TypeOK
    <2>2. permits' # permits
        BY <2>1
    <2>3. PICK c \in Callers : Consume(c)
        BY <2>2 DEF Next, HostStep, DecideStep, Decide, CheckDenied, CheckApproved,
            Record, ApproveOnce, AddApproval, Deny, AddDenial
    <2>4. i = request[c].id /\ i \in approvedOnce
        BY <2>1, <2>2, <2>3 DEF Consume, Permit, Inv, TypeOK
    <2> QED BY <2>4 DEF Inv, TablesAgree
<1> QED BY <1>1, InvInvariant, PTL DEF Spec, DeniedIsNotPermitted

-----------------------------------------------------------------------------
(* The audit trail *)

LEMMA RecordingIsFinite ==
    ASSUME NEW i \in Ids
    PROVE  IsFiniteSet(Recording(i)) /\ Cardinality(Recording(i)) \in Nat
<1>1. Recording(i) \subseteq Callers
    BY DEF Recording
<1> QED BY <1>1, CallersAssumption, FS_Subset, FS_CardinalityType

\* A step that leaves the permits, the trail and the threads about to append alone.
LEMMA AuditFrame ==
    ASSUME AuditAccountsForPermits, UNCHANGED <<permits, audit>>,
           \A i \in Ids : Recording(i)' = Recording(i)
    PROVE  AuditAccountsForPermits'
BY DEF AuditAccountsForPermits

LEMMA ConsumeAudit ==
    ASSUME Inv, AuditAccountsForPermits, NEW c \in Callers, Consume(c)
    PROVE  AuditAccountsForPermits'
<1>a. PICK i \in Ids : i = request[c].id
    BY DEF Inv, CallersHaveRequests, Requests, Consume
<1>0. c \notin Recording(i)
    BY DEF Consume, Recording
<1>1. CASE i \in approvedOnce
    <2>1. UNCHANGED <<request, audit>> /\ permits' = [permits EXCEPT ![i] = @ + 1]
        BY <1>1, <1>a DEF Consume, Permit
    <2>2. pc' = [pc EXCEPT ![c] = "record"] /\ reason' = [reason EXCEPT ![c] = "approved"]
        BY <1>1, <1>a DEF Consume, Decided, Goto
    <2>3. Recording(i)' = Recording(i) \cup {c}
        BY <1>a, <2>1, <2>2 DEF Recording, Inv, TypeOK
    <2>4. Cardinality(Recording(i)') = Cardinality(Recording(i)) + 1
        BY <1>0, <2>3, RecordingIsFinite, FS_AddElement
    <2>5. \A j \in Ids \ {i} : Recording(j)' = Recording(j)
        BY <1>0, <1>a, <2>1, <2>2 DEF Recording, Inv, TypeOK
    <2>6. permits \in [Ids -> Nat] /\ audit \in [Ids -> Nat]
        BY DEF Inv, TypeOK
    <2>7. permits'[i] = audit'[i] + Cardinality(Recording(i)')
        BY <1>0, <2>1, <2>4, <2>6, RecordingIsFinite DEF AuditAccountsForPermits
    <2>8. \A j \in Ids \ {i} : permits'[j] = audit'[j] + Cardinality(Recording(j)')
        BY <2>1, <2>5, <2>6 DEF AuditAccountsForPermits
    <2> QED BY <2>7, <2>8 DEF AuditAccountsForPermits
<1>2. CASE i \notin approvedOnce
    <2>1. \A j \in Ids : Recording(j)' = Recording(j)
        BY <1>2, <1>a DEF Consume, Leave, Goto, Recording, Inv, TypeOK
    <2> QED BY <1>2, <1>a, <2>1, AuditFrame DEF Consume
<1> QED BY <1>1, <1>2

LEMMA RecordAudit ==
    ASSUME Inv, AuditAccountsForPermits, NEW c \in Callers, Record(c)
    PROVE  AuditAccountsForPermits'
<1>a. PICK i \in Ids : i = request[c].id
    BY DEF Inv, CallersHaveRequests, Requests, Record
<1>1. CASE reason[c] = "approved"
    <2>1. UNCHANGED permits /\ audit' = [audit EXCEPT ![i] = @ + 1]
        BY <1>1, <1>a DEF Record
    <2>2. /\ pc' = [pc EXCEPT ![c] = "idle"]
          /\ reason' = [reason EXCEPT ![c] = "required"]
          /\ request' = [request EXCEPT ![c] = NoRequest]
        BY DEF Record, Leave, Goto
    <2>3. c \in Recording(i) /\ Recording(i)' = Recording(i) \ {c}
        BY <1>1, <1>a, <2>2 DEF Record, Recording, Inv, TypeOK
    <2>4. Cardinality(Recording(i)') = Cardinality(Recording(i)) - 1
        BY <2>3, RecordingIsFinite, FS_RemoveElement
    <2>5. \A j \in Ids \ {i} : Recording(j)' = Recording(j)
        BY <1>a, <2>2 DEF Recording, Inv, TypeOK
    <2>6. permits \in [Ids -> Nat] /\ audit \in [Ids -> Nat]
        BY DEF Inv, TypeOK
    <2>7. permits'[i] = audit'[i] + Cardinality(Recording(i)')
        BY <2>1, <2>4, <2>6, RecordingIsFinite DEF AuditAccountsForPermits
    <2>8. \A j \in Ids \ {i} : permits'[j] = audit'[j] + Cardinality(Recording(j)')
        BY <2>1, <2>5, <2>6 DEF AuditAccountsForPermits
    <2> QED BY <2>7, <2>8 DEF AuditAccountsForPermits
<1>2. CASE reason[c] # "approved"
    <2>1. \A j \in Ids : Recording(j)' = Recording(j)
        BY <1>2 DEF Record, Leave, Goto, Recording, Inv, TypeOK
    <2> QED BY <1>2, <2>1, AuditFrame DEF Record
<1> QED BY <1>1, <1>2

LEMMA OtherStepsAudit ==
    ASSUME Inv, AuditAccountsForPermits, NEW c \in Callers,
           \/ Decide(c) \/ CheckDenied(c) \/ CheckApproved(c)
    PROVE  AuditAccountsForPermits'
<1>1. pc[c] # "record"
    BY DEF Decide, CheckDenied, CheckApproved
<1>2. UNCHANGED <<permits, audit>>
    BY DEF Decide, CheckDenied, CheckApproved
<1>3. \A j \in Ids : c \notin Recording(j)' /\ c \notin Recording(j)
    BY <1>1 DEF Decide, CheckDenied, CheckApproved, Decided, Goto, Recording, Inv, TypeOK
<1>4. \A d \in Callers \ {c} :
        pc'[d] = pc[d] /\ reason'[d] = reason[d] /\ request'[d] = request[d]
    BY DEF Decide, CheckDenied, CheckApproved, Decided, Goto, Inv, TypeOK
<1>5. \A j \in Ids : Recording(j)' = Recording(j)
    BY <1>3, <1>4 DEF Recording
<1> QED BY <1>2, <1>5, AuditFrame

\* Whatever the threads and the host do, each use of an approval is in the audit
\* trail once, or its thread is just about to append it.
THEOREM AuditIsComplete == Spec => []AuditAccountsForPermits
<1>1. Init => AuditAccountsForPermits
    <2> SUFFICES ASSUME Init, NEW i \in Ids
                 PROVE  permits[i] = audit[i] + Cardinality(Recording(i))
        BY DEF AuditAccountsForPermits
    <2>1. Recording(i) = {}
        BY DEF Init, Recording
    <2> QED BY <2>1, FS_EmptySet DEF Init
<1>2. Inv /\ AuditAccountsForPermits /\ [Next]_vars => AuditAccountsForPermits'
    <2> SUFFICES ASSUME Inv, AuditAccountsForPermits, [Next]_vars
                 PROVE  AuditAccountsForPermits'
        OBVIOUS
    <2>1. CASE UNCHANGED <<deciderVars, permits>>
        <3>1. \A i \in Ids : Recording(i)' = Recording(i)
            BY <2>1 DEF Recording
        <3> QED BY <2>1, <3>1, AuditFrame
    <2>2. CASE \E c \in Callers : DecideStep(c)
        BY <2>2, ConsumeAudit, RecordAudit, OtherStepsAudit DEF DecideStep
    <2>3. HostStep => UNCHANGED <<deciderVars, permits>>
        BY DEF HostStep, ApproveOnce, AddApproval, Deny, AddDenial
    <2> QED BY <2>1, <2>2, <2>3 DEF Next, vars
<1> QED BY <1>1, <1>2, InvInvariant, PTL DEF Spec

HIDE DEF deciderVars, hostVars, historyVars


-----------------------------------------------------------------------------
(* The engine is one component *)

LEMMA EngineStep == [CallsNext]_allVars => [Next]_vars
<1> SUFFICES ASSUME [CallsNext]_allVars
             PROVE  [Next]_vars
    OBVIOUS
<1> USE ThreadsAssumption
<1>1. CASE UNCHANGED engineVars
    BY <1>1 DEF engineVars, vars
<1>2. CASE AgentStep
    BY <1>1, <1>2 DEF AgentStep, Try, AgentLooks, AgentConsumes, AgentRefused, StartCalculator,
        StartApplication, GetResult, GiveUp, Next, DecideStep
<1>3. ASSUME NEW r \in Runs, RunStep(r)
      PROVE  [Next]_vars
    BY <1>1, <1>3 DEF RunStep, ToolStep, ToolAsks, ToolLooks, ToolConsumes, ToolDecided, Next, DecideStep
<1>4. CASE UserAnswers \/ AnswerStored
    BY <1>4 DEF UserAnswers, AnswerStored, Next, HostStep
<1> QED BY <1>1, <1>2, <1>3, <1>4 DEF CallsNext, allVars, OutsideStep

\* The composition implements the permission engine: whatever the agent, the tools
\* and the user do, the engine sees threads that call decide and one host.
THEOREM ImplementsEngine == CallsSpec => Spec
<1>1. CallsInit => Init
    BY DEF CallsInit
<1> QED BY <1>1, EngineStep, PTL DEF CallsSpec, Spec

\* So the engine's tables are in order throughout.
THEOREM EngineIsInOrder == CallsSpec => []Inv
BY ImplementsEngine, InvInvariant, PTL

-----------------------------------------------------------------------------
(* The application tool is the other one *)

LEMMA ModelTypes ==
    ASSUME model \in Answers, NEW c \in Calls
    PROVE  CallId(c) \in ModelIds /\ Operation(c) \in App!Operations \cup {None}
BY AnswersAssumption DEF CallId, Operation, ModelCalls

\* Where the agent is tells whether it is in decide, and about which call.
AgentItself ==
    /\ callOf \in [Runs -> Calls \cup {None}]
    /\ agentAt = "decide" => request[Agent] = AgentRequest(callOf[current])
    /\ agentAt # "decide" => pc[Agent] = "idle"
    /\ agentAt = "next" \/ (current \in Runs /\ callOf[current] \in Calls)

RunsHaveCalls ==
    \A r \in Runs : at[r] # "new" => callOf[r] # None /\ operation[r] = Operation(callOf[r])

AgentOK == model \in Answers /\ AgentItself /\ RunsHaveCalls

LEMMA AppStep == AgentOK /\ [CallsNext]_allVars => [App!Next]_appVars
<1> SUFFICES ASSUME AgentOK, [CallsNext]_allVars
             PROVE  [App!Next]_appVars
    OBVIOUS
<1>1. CASE UNCHANGED appVars
    BY <1>1
<1>2. CASE StartApplication
    <2>1. current \in Runs /\ Operation(callOf[current]) \in App!Operations
        BY <1>2, ModelTypes DEF StartApplication, Record, AgentOK, AgentItself
    <2> QED BY <1>2, <2>1 DEF StartApplication, App!Next, App!Execute
<1>3. ASSUME NEW r \in Runs, RunStep(r)
      PROVE  [App!Next]_appVars
    BY <1>1, <1>3 DEF RunStep, ToolStep, ToolAsks, ToolLooks, ToolConsumes, ToolDecided,
        App!Next, App!Execute
<1>4. CASE OutsideStep
    BY <1>4 DEF OutsideStep, App!Next
<1>5. AgentStep => UNCHANGED appVars \/ StartApplication
    BY DEF AgentStep, Try, AgentLooks, AgentConsumes, AgentRefused, StartCalculator,
        GetResult, GiveUp
<1> QED BY <1>1, <1>2, <1>3, <1>4, <1>5
       DEF CallsNext, UserAnswers, AnswerStored, allVars

-----------------------------------------------------------------------------
(* What the steps of the application tool keep *)

AppData ==
    /\ owner \in [ProcessIds -> Applications \cup {Foreign, None}]
    /\ at \in [Runs -> App!Places]
    /\ operation \in [Runs -> App!Operations \cup {None}]
    /\ first \in [Runs -> ProcessIds \cup {None}]
    /\ result \in [Runs -> App!Results]
    /\ touched \in [Runs -> Applications \cup {Foreign, None}]
    /\ reused \subseteq Runs /\ overlapped \subseteq Runs

AppFlags == cancelled \in BOOLEAN /\ spent \in BOOLEAN

LEMMA AppTypeParts == (App!TypeOK <=> AppFlags /\ AppData) /\ (App!TypeOK' <=> AppFlags' /\ AppData')
BY Zenon DEF App!TypeOK, AppFlags, AppData

LEMMA ReturnData ==
    ASSUME AppData, NEW r \in Runs, NEW how \in App!Results, App!Return(r, how)
    PROVE  /\ at' \in [Runs -> App!Places] /\ result' \in [Runs -> App!Results]
           /\ operation' \in [Runs -> App!Operations \cup {None}]
           /\ first' \in [Runs -> ProcessIds \cup {None}]
           /\ reused' \subseteq Runs /\ overlapped' \subseteq Runs
BY DEF AppData, App!Return, App!Goto, App!Places

LEMMA BackendData ==
    ASSUME AppData, NEW r \in Runs, App!BackendStep(r), operation[r] \in App!Operations,
           at[r] = "window" => first[r] \in ProcessIds
    PROVE  AppData'
<1>1. CASE App!Launch(r)
    <2>1. App!Return(r, "success")
        BY <1>1 DEF App!Launch
    <2>2. owner' \in [ProcessIds -> Applications \cup {Foreign, None}] /\ UNCHANGED touched
        BY <1>1 DEF App!Launch, AppData, App!Operations
    <2> QED BY <2>1, <2>2, ReturnData DEF AppData, App!Results
<1>2. CASE App!BackendFails(r) \/ App!NoProcess(r) \/ App!Status(r)
    <2>1. PICK how \in App!Results : App!Return(r, how)
        BY <1>2 DEF App!BackendFails, App!NoProcess, App!Status, App!Results
    <2>2. UNCHANGED <<owner, touched>>
        BY <1>2 DEF App!BackendFails, App!NoProcess, App!Status
    <2> QED BY <2>1, <2>2, ReturnData DEF AppData
<1>3. CASE App!ListProcesses(r)
    <2>1. first' \in [Runs -> ProcessIds \cup {None}]
        BY <1>3 DEF App!ListProcesses, AppData, App!Listed
    <2> QED BY <1>3, <2>1 DEF App!ListProcesses, App!historyVars, AppData, App!Goto, App!Places
<1>4. CASE App!WindowAction(r)
    <2>1. PICK how \in App!Results : App!Return(r, how)
        BY <1>4 DEF App!WindowAction, App!Results
    <2>2. first[r] \in ProcessIds
        BY <1>4 DEF App!WindowAction
    <2>3. UNCHANGED touched \/ touched' = [touched EXCEPT ![r] = owner[first[r]]]
        BY <1>4, <2>2 DEF App!WindowAction
    <2>4. touched' \in [Runs -> Applications \cup {Foreign, None}]
        BY <2>2, <2>3 DEF AppData
    <2>5. UNCHANGED owner
        BY <1>4 DEF App!WindowAction
    <2> QED BY <2>1, <2>4, <2>5, ReturnData DEF AppData
<1> QED BY <1>1, <1>2, <1>3, <1>4 DEF App!BackendStep

\* Where a run is tells what it has in its locals, and whose window it may act on.
AppLocals ==
    \A r \in Runs :
        /\ at[r] # "new" => operation[r] \in App!Operations
        /\ at[r] = "window" =>
             first[r] \in ProcessIds /\ (r \in reused \/ owner[first[r]] = operation[r].application)
        /\ touched[r] # None =>
             at[r] = "returned" /\ (r \in reused \/ touched[r] = operation[r].application)

AppInv == AppData /\ AppLocals

LEMMA ExecuteData ==
    ASSUME AppInv, NEW r \in Runs, App!Execute(r)
    PROVE  AppData'
<1> USE DEF AppInv
<1>1. ASSUME NEW o \in App!Operations, App!Begin(r, o)
      PROVE  AppData'
    BY <1>1 DEF App!Begin, App!Goto, App!Places, App!Working, AppData
<1>2. CASE App!CheckCancelled(r) \/ App!Permitted(r)
    BY <1>2 DEF App!CheckCancelled, App!Permitted, App!Goto, App!Places, App!historyVars, AppData
<1>3. CASE App!ResetCancelled(r)
    BY <1>3, ReturnData DEF App!ResetCancelled, AppData, App!Results
<1>4. ASSUME NEW how \in {"denied", "raised"}, App!Refused(r, how)
      PROVE  AppData'
    BY <1>4, ReturnData DEF App!Refused, AppData, App!Results
<1>5. CASE App!BackendStep(r)
    <2>1. operation[r] \in App!Operations /\ (at[r] = "window" => first[r] \in ProcessIds)
        BY <1>5 DEF AppLocals, App!BackendStep, App!Launch, App!BackendFails, App!NoProcess, App!Status,
            App!ListProcesses, App!WindowAction
    <2> QED BY <1>5, <2>1, BackendData
<1> QED BY <1>1, <1>2, <1>3, <1>4, <1>5 DEF App!Execute

LEMMA OutsideData ==
    ASSUME AppData, App!Outside
    PROVE  AppData'
<1>1. CASE App!Cancel
    BY <1>1 DEF App!Cancel, App!runVars, AppData
<1>2. ASSUME NEW p \in ProcessIds, App!ProcessEnds(p) \/ App!ForeignStarts(p)
      PROVE  AppData'
    BY <1>2 DEF App!ProcessEnds, App!ForeignStarts, App!runVars, App!historyVars, AppData
<1> QED BY <1>1, <1>2 DEF App!Outside

\* A run that takes a step leaves the locals of the other runs alone.
LEMMA OtherRunsStay ==
    ASSUME AppInv, NEW r \in Runs, App!Execute(r), NEW s \in Runs \ {r}
    PROVE  /\ at'[s] = at[s] /\ operation'[s] = operation[s] /\ first'[s] = first[s]
           /\ touched'[s] = touched[s] /\ result'[s] = result[s]
           /\ reused' = reused
BY DEF AppInv, AppData, App!Execute, App!Begin, App!CheckCancelled, App!ResetCancelled, App!Permitted,
    App!Refused, App!BackendStep, App!Launch, App!BackendFails, App!NoProcess, App!Status,
    App!ListProcesses, App!WindowAction, App!Return, App!Goto, App!historyVars

\* No run gives a process that is there to another owner.
LEMMA OwnersStay ==
    ASSUME AppInv, NEW r \in Runs, App!Execute(r), NEW p \in ProcessIds
    PROVE  owner'[p] = owner[p] \/ owner[p] = None
BY DEF AppInv, AppData, App!Execute, App!Begin, App!CheckCancelled, App!ResetCancelled, App!Permitted,
    App!Refused, App!BackendStep, App!Launch, App!BackendFails, App!NoProcess, App!Status,
    App!ListProcesses, App!WindowAction

LocalsOf(r) ==
    /\ at[r] # "new" => operation[r] \in App!Operations
    /\ at[r] = "window" =>
         first[r] \in ProcessIds /\ (r \in reused \/ owner[first[r]] = operation[r].application)
    /\ touched[r] # None =>
         at[r] = "returned" /\ (r \in reused \/ touched[r] = operation[r].application)

LEMMA OwnLocals ==
    ASSUME AppInv, NEW r \in Runs, App!Execute(r)
    PROVE  LocalsOf(r)'
<1> USE DEF AppInv, AppData, LocalsOf, App!Goto
<1>0. LocalsOf(r)
    BY DEF AppLocals
<1>1. ASSUME NEW o \in App!Operations, App!Begin(r, o)
      PROVE  LocalsOf(r)'
    BY <1>0, <1>1 DEF App!Begin
<1>2. CASE App!CheckCancelled(r) \/ App!Permitted(r)
    BY <1>0, <1>2 DEF App!CheckCancelled, App!Permitted, App!historyVars
<1>3. CASE App!ResetCancelled(r) \/ \E how \in {"denied", "raised"} : App!Refused(r, how)
    BY <1>0, <1>3 DEF App!ResetCancelled, App!Refused, App!Return
<1>4. CASE App!Launch(r) \/ App!BackendFails(r) \/ App!NoProcess(r) \/ App!Status(r)
    BY <1>0, <1>4 DEF App!Launch, App!BackendFails, App!NoProcess, App!Status, App!Return
<1>5. CASE App!ListProcesses(r)
    <2>1. PICK p \in ProcessIds : owner[p] = operation[r].application /\ first' = [first EXCEPT ![r] = p]
        BY <1>5 DEF App!ListProcesses, App!Listed
    <2>2. at' = [at EXCEPT ![r] = "window"] /\ at[r] = "dispatch" /\ UNCHANGED <<owner, operation, touched>>
        BY <1>5 DEF App!ListProcesses, App!historyVars
    <2> QED BY <1>0, <2>1, <2>2
<1>6. CASE App!WindowAction(r)
    <2>1. at' = [at EXCEPT ![r] = "returned"] /\ UNCHANGED <<operation, reused>> /\ at[r] = "window"
        BY <1>6 DEF App!WindowAction, App!Return
    <2>2. UNCHANGED touched \/ touched' = [touched EXCEPT ![r] = owner[first[r]]]
        BY <1>6 DEF App!WindowAction
    <2> QED BY <1>0, <2>1, <2>2
<1> QED BY <1>1, <1>2, <1>3, <1>4, <1>5, <1>6 DEF App!Execute, App!BackendStep

LEMMA OthersLocals ==
    ASSUME AppInv, NEW r \in Runs, App!Execute(r), NEW s \in Runs \ {r}
    PROVE  LocalsOf(s)'
<1>0. LocalsOf(s)
    BY DEF AppInv, AppLocals, LocalsOf
<1>1. /\ at'[s] = at[s] /\ operation'[s] = operation[s] /\ first'[s] = first[s]
      /\ touched'[s] = touched[s] /\ reused' = reused
    BY OtherRunsStay
<1>2. operation[s] \in App!Operations => operation[s].application # None
    BY OwnersAssumption DEF App!Operations
<1>3. first[s] \in ProcessIds => owner'[first[s]] = owner[first[s]] \/ owner[first[s]] = None
    BY OwnersStay
<1> QED BY <1>0, <1>1, <1>2, <1>3 DEF LocalsOf

LEMMA OutsideLocals ==
    ASSUME AppInv, App!Outside, NEW s \in Runs
    PROVE  LocalsOf(s)'
<1>0. LocalsOf(s)
    BY DEF AppInv, AppLocals, LocalsOf
<1>1. UNCHANGED <<at, operation, first, result, touched>>
    BY DEF App!Outside, App!Cancel, App!ProcessEnds, App!ForeignStarts, App!runVars, App!historyVars
<1>2. CASE App!Cancel
    BY <1>0, <1>1, <1>2 DEF App!Cancel, LocalsOf
<1>3. ASSUME NEW p \in ProcessIds, App!ProcessEnds(p)
      PROVE  LocalsOf(s)'
    BY <1>0, <1>1, <1>3 DEF App!ProcessEnds, LocalsOf, AppInv, AppData
<1>4. ASSUME NEW p \in ProcessIds, App!ForeignStarts(p)
      PROVE  LocalsOf(s)'
    <2>1. operation[s] \in App!Operations => operation[s].application # None
        BY OwnersAssumption DEF App!Operations
    <2>2. at[s] = "window" => at[s] # "new"
        OBVIOUS
    <2> QED BY <1>0, <1>1, <1>4, <2>1, <2>2
           DEF App!ForeignStarts, App!historyVars, LocalsOf, AppInv, AppData
<1> QED BY <1>2, <1>3, <1>4 DEF App!Outside

LEMMA AppInvStep == AppInv /\ [App!Next]_appVars => AppInv'
<1> SUFFICES ASSUME AppInv, [App!Next]_appVars
             PROVE  AppInv'
    OBVIOUS
<1>1. CASE UNCHANGED appVars
    BY <1>1 DEF appVars, AppInv, AppData, AppLocals
<1>2. ASSUME NEW r \in Runs, App!Execute(r)
      PROVE  AppInv'
    <2>1. \A s \in Runs : LocalsOf(s)'
        BY <1>2, OwnLocals, OthersLocals
    <2> QED BY <1>2, <2>1, ExecuteData DEF AppInv, AppLocals, LocalsOf
<1>3. CASE App!Outside
    <2>1. \A s \in Runs : LocalsOf(s)'
        BY <1>3, OutsideLocals
    <2> QED BY <1>3, <2>1, OutsideData DEF AppInv, AppLocals, LocalsOf
<1> QED BY <1>1, <1>2, <1>3 DEF App!Next

-----------------------------------------------------------------------------
(* The agent and its calls *)

\* All that the steps of the runs and of the user leave to the agent.
LEMMA AgentFrame ==
    ASSUME Inv, (\E r \in Runs : RunStep(r)) \/ UserAnswers \/ AnswerStored \/ OutsideStep
    PROVE  UNCHANGED agentVars /\ pc'[Agent] = pc[Agent] /\ request'[Agent] = request[Agent]
<1>1. CASE UserAnswers \/ AnswerStored \/ OutsideStep
    BY <1>1 DEF UserAnswers, AnswerStored, OutsideStep, ApproveOnce, Deny, AddDenial, AddApproval,
        deciderVars, engineVars
<1>2. Agent \notin Runs /\ Agent \in Callers
    BY ThreadsAssumption
<1>3. ASSUME NEW r \in Runs, RunStep(r)
      PROVE  UNCHANGED agentVars /\ pc'[Agent] = pc[Agent] /\ request'[Agent] = request[Agent]
    <2>1. UNCHANGED agentVars
        BY <1>3 DEF RunStep, ToolStep, ToolAsks, ToolLooks, ToolConsumes, ToolDecided, agentVars
    <2>2. CASE ToolStep(r)
        BY <2>1, <2>2 DEF ToolStep, engineVars, deciderVars
    <2>3. CASE Decide(r) \/ CheckDenied(r) \/ CheckApproved(r) \/ Consume(r) \/ Record(r)
        BY <1>2, <2>1, <2>3 DEF Decide, CheckDenied, CheckApproved, Consume, Record, Leave, Decided,
            Goto, Inv, TypeOK
    <2> QED BY <1>3, <2>2, <2>3 DEF RunStep, ToolAsks, ToolLooks, ToolConsumes, ToolDecided
<1> QED BY <1>1, <1>3

\* A run that has begun keeps its operation.
LEMMA RunsKeepOperation ==
    ASSUME AppInv, ~StartApplication, [CallsNext]_allVars, NEW s \in Runs
    PROVE  operation'[s] = operation[s] /\ (at'[s] # "new" => at[s] # "new")
<1>1. CASE UNCHANGED appVars
    BY <1>1 DEF appVars
<1>2. ASSUME NEW r \in Runs, ToolStep(r)
      PROVE  operation'[s] = operation[s] /\ (at'[s] # "new" => at[s] # "new")
    <2>1. App!Execute(r)
        BY <1>2 DEF ToolStep, App!Execute
    <2>2. CASE s # r
        BY <2>1, <2>2, OtherRunsStay
    <2>3. at[r] # "new" /\ UNCHANGED operation
        BY <1>2 DEF ToolStep, App!CheckCancelled, App!ResetCancelled, App!BackendStep, App!Launch,
            App!BackendFails, App!NoProcess, App!Status, App!ListProcesses, App!WindowAction, App!Return
    <2> QED BY <2>2, <2>3
<1>3. ASSUME NEW r \in Runs, App!Permitted(r) \/ App!Refused(r, "denied") \/ App!Refused(r, "raised")
      PROVE  operation'[s] = operation[s] /\ (at'[s] # "new" => at[s] # "new")
    BY <1>3 DEF App!Permitted, App!Refused, App!Return, App!Goto, AppInv, AppData
<1>4. CASE OutsideStep
    BY <1>4 DEF OutsideStep, App!Outside, App!Cancel, App!ProcessEnds, App!ForeignStarts,
        App!runVars
<1>5. AgentStep => UNCHANGED appVars
    BY DEF AgentStep, Try, AgentLooks, AgentConsumes, AgentRefused, StartCalculator, GetResult, GiveUp
<1>6. ASSUME NEW r \in Runs, RunStep(r)
      PROVE  operation'[s] = operation[s] /\ (at'[s] # "new" => at[s] # "new")
    BY <1>1, <1>2, <1>3, <1>6 DEF RunStep, ToolAsks, ToolLooks, ToolConsumes, ToolDecided
<1> QED BY <1>1, <1>4, <1>5, <1>6 DEF CallsNext, allVars, UserAnswers, AnswerStored

LEMMA AgentItselfStep ==
    ASSUME Inv, AgentItself, [CallsNext]_allVars, UNCHANGED model
    PROVE  AgentItself'
<1> USE DEF AgentItself, AgentRequest, RequestId, CallId, Declared, Operation
<1>0. Agent \in Callers
    BY ThreadsAssumption
<1>1. ASSUME NEW r \in Runs, NEW c \in Calls, Try(r, c)
      PROVE  AgentItself'
    BY <1>1 DEF Try
<1>2. CASE AgentLooks
    <2>1. agentAt = "decide" /\ UNCHANGED <<agentVars, request>>
        BY <1>2 DEF AgentLooks, CheckDenied, CheckApproved
    <2> QED BY <2>1 DEF agentVars
<1>3. CASE AgentConsumes
    <2>1. agentAt = "decide" /\ UNCHANGED <<current, callOf>>
        BY <1>3 DEF AgentConsumes, Consume
    <2>2. CASE pc'[Agent] = "record"
        <3>1. UNCHANGED <<agentAt, request>>
            BY <1>0, <1>3, <2>2 DEF AgentConsumes, Consume, Leave, Goto, Inv, TypeOK
        <3> QED BY <2>1, <3>1
    <2>3. CASE pc'[Agent] # "record"
        <3>1. agentAt' = "next" /\ pc'[Agent] = "idle"
            BY <1>0, <1>3, <2>3 DEF AgentConsumes, Consume, Decided, Leave, Goto, Inv, TypeOK
        <3> QED BY <2>1, <3>1
    <2> QED BY <2>2, <2>3
<1>4. CASE AgentRefused \/ StartCalculator \/ StartApplication
    <2>1. pc'[Agent] = "idle" /\ agentAt = "decide"
        BY <1>0, <1>4 DEF AgentRefused, StartCalculator, StartApplication, Record, Leave, Goto, Inv, TypeOK
    <2>2. UNCHANGED <<current, callOf>> /\ agentAt' \in {"next", "wait"}
        BY <1>4 DEF AgentRefused, StartCalculator, StartApplication
    <2> QED BY <2>1, <2>2
<1>5. CASE GetResult \/ GiveUp
    <2>1. agentAt' = "next" /\ agentAt = "wait" /\ UNCHANGED <<pc, callOf>>
        BY <1>5 DEF GetResult, GiveUp, engineVars, deciderVars
    <2> QED BY <2>1
<1>6. CASE (\E r \in Runs : RunStep(r)) \/ UserAnswers \/ AnswerStored \/ OutsideStep
    BY <1>6, AgentFrame DEF agentVars
<1>7. CASE UNCHANGED allVars
    BY <1>7 DEF allVars, agentVars, engineVars, deciderVars
<1> QED BY <1>1, <1>2, <1>3, <1>4, <1>5, <1>6, <1>7 DEF CallsNext, AgentStep

LEMMA RunsHaveCallsStep ==
    ASSUME Inv, AppInv, AgentItself, RunsHaveCalls, [CallsNext]_allVars, UNCHANGED model
    PROVE  RunsHaveCalls'
<1> USE DEF RunsHaveCalls, Operation
<1>1. CASE StartApplication
    <2>1. /\ current \in Runs /\ callOf[current] # None
          /\ UNCHANGED callOf
          /\ at' = [at EXCEPT ![current] = "check"]
          /\ operation' = [operation EXCEPT ![current] = Operation(callOf[current])]
        BY <1>1, NoneAssumption DEF StartApplication, Record, AgentItself, App!Begin, App!Goto
    <2> QED BY <2>1 DEF AppInv, AppData
<1>2. ASSUME ~StartApplication, NEW s \in Runs, at'[s] # "new"
      PROVE  callOf'[s] # None /\ operation'[s] = Operation(callOf[s])'
    <2>1. at[s] # "new" /\ operation'[s] = operation[s]
        BY <1>2, RunsKeepOperation
    <2>2. UNCHANGED callOf \/ \E r \in Runs, c \in Calls : callOf[r] = None /\ callOf' = [callOf EXCEPT ![r] = c]
        BY DEF CallsNext, allVars, agentVars, AgentStep, Try, AgentLooks, AgentConsumes, AgentRefused,
            StartCalculator, StartApplication, GetResult, GiveUp, RunStep, ToolStep, ToolAsks,
            ToolLooks, ToolConsumes, ToolDecided, UserAnswers, AnswerStored, OutsideStep
    <2>3. callOf'[s] = callOf[s]
        BY <2>1, <2>2 DEF AgentItself
    <2> QED BY <2>1, <2>3
<1> QED BY <1>1, <1>2

CallsInv == AgentOK /\ AppInv

LEMMA CallsInvStep == Inv /\ CallsInv /\ [CallsNext]_allVars => CallsInv'
<1> SUFFICES ASSUME Inv, CallsInv, [CallsNext]_allVars
             PROVE  CallsInv'
    OBVIOUS
<1>1. UNCHANGED model
    BY DEF CallsNext, allVars
<1>2. AppInv'
    BY AppStep, AppInvStep DEF CallsInv
<1> QED BY <1>1, <1>2, AgentItselfStep, RunsHaveCallsStep DEF CallsInv, AgentOK

LEMMA CallsInvInit == CallsInit => CallsInv
<1> SUFFICES ASSUME CallsInit
             PROVE  CallsInv
    OBVIOUS
<1>1. AppInv
    BY DEF CallsInit, App!Init, AppInv, AppData, AppLocals, App!Places, App!Results
<1>2. pc[Agent] = "idle"
    BY ThreadsAssumption DEF CallsInit, Init
<1>3. AgentOK
    BY <1>2 DEF CallsInit, App!Init, AgentOK, AgentItself, RunsHaveCalls
<1> QED BY <1>1, <1>3 DEF CallsInv

\* The agent knows which call it decides about, and a run whose operation it does.
THEOREM CallsAreInOrder == CallsSpec => []CallsInv
BY CallsInvInit, CallsInvStep, EngineIsInOrder, PTL DEF CallsSpec

\* The composition implements the application tool, whose gate is the engine.
THEOREM ImplementsApplicationTool == CallsSpec => App!Spec
<1>1. CallsInit => App!Init
    BY DEF CallsInit
<1>2. CallsInv /\ [CallsNext]_allVars => [App!Next]_(App!vars)
    BY AppStep DEF CallsInv, appVars, App!vars, App!runVars, App!historyVars
<1> QED BY <1>1, <1>2, CallsAreInOrder, PTL DEF CallsSpec, App!Spec

\* A window that was acted on was the application's, or its process had ended since
\* it was listed.
THEOREM OwnWindowInvariant == CallsSpec => []OwnWindowOnly
<1>1. CallsInv => OwnWindowOnly
    BY DEF CallsInv, AppInv, AppLocals, OwnWindowOnly, App!OwnWindowOnly
<1> QED BY <1>1, CallsAreInOrder, PTL

-----------------------------------------------------------------------------
(* What an approval is for *)

\* What the user was shown and approved under an id of the model has that id.
ApprovalInv ==
    /\ shown \in [Ids -> Calls \cup {None}] /\ approvedFor \in [Ids -> Calls \cup {None}]
    /\ grantedBy \in [Runs -> Calls \cup {None}]
    /\ \A i \in ModelIds : shown[i] # None => CallId(shown[i]) = i
    /\ \A i \in ModelIds : approvedFor[i] # None => CallId(approvedFor[i]) = i
    /\ \A r \in Runs : grantedBy[r] # None =>
         callOf[r] # None /\ CallId(grantedBy[r]) = CallId(callOf[r])

LEMMA ApprovalInvStep ==
    ASSUME Inv, CallsInv, ApprovalInv, [CallsNext]_allVars
    PROVE  ApprovalInv'
<1> USE DEF ApprovalInv, CallId
<1>0. UNCHANGED model /\ AgentItself /\ Ids = ModelIds \cup Runs /\ ModelIds \cap Runs = {}
    BY IdsAssumption DEF CallsNext, allVars, CallsInv, AgentOK
<1>1. ASSUME NEW r \in Runs, NEW c \in Calls, Try(r, c)
      PROVE  ApprovalInv'
    BY <1>0, <1>1 DEF Try, userVars, AgentItself
<1>2. CASE AgentConsumes
    <2>1. UNCHANGED <<shown, approvedFor, callOf>>
        BY <1>2 DEF AgentConsumes
    <2>2. UNCHANGED grantedBy \/ grantedBy' = [grantedBy EXCEPT ![current] = approvedFor[request[Agent].id]]
        BY <1>2 DEF AgentConsumes
    <2>3. agentAt = "decide"
        BY <1>0, <1>2 DEF AgentConsumes, Consume, AgentItself
    <2>4. current \in Runs /\ callOf[current] \in Calls /\ request[Agent].id = model[callOf[current]].id
        BY <1>0, <2>3 DEF AgentItself, AgentRequest, RequestId
    <2>5. request[Agent].id \in ModelIds
        BY <2>4, ModelTypes DEF CallsInv, AgentOK
    <2> QED BY <1>0, <2>1, <2>2, <2>4, <2>5, NoneAssumption
<1>3. CASE AgentRefused
    <2>1. UNCHANGED <<approvedFor, grantedBy, callOf>>
        BY <1>3 DEF AgentRefused
    <2>2. UNCHANGED shown \/ shown' = [shown EXCEPT ![request[Agent].id] = callOf[current]]
        BY <1>3 DEF AgentRefused, Show
    <2>3. agentAt = "decide"
        BY <1>0, <1>3 DEF AgentRefused, Record, AgentItself
    <2>4. current \in Runs /\ callOf[current] \in Calls /\ request[Agent].id = model[callOf[current]].id
        BY <1>0, <2>3 DEF AgentItself, AgentRequest, RequestId
    <2> QED BY <1>0, <2>1, <2>2, <2>4
<1>4. ASSUME NEW r \in Runs, ToolDecided(r)
      PROVE  ApprovalInv'
    <2>1. UNCHANGED <<approvedFor, grantedBy, callOf>>
        BY <1>4 DEF ToolDecided, agentVars
    <2>2. UNCHANGED shown \/ shown' = [shown EXCEPT ![r] = callOf[r]]
        BY <1>4 DEF ToolDecided, Show
    <2> QED BY <1>0, <2>1, <2>2 DEF AgentItself
<1>5. CASE AnswerStored
    BY <1>0, <1>5 DEF AnswerStored, agentVars
<1>6. CASE UNCHANGED <<callOf, userVars>>
    BY <1>0, <1>6 DEF userVars
<1>7. ASSUME NEW r \in Runs, RunStep(r)
      PROVE  ToolDecided(r) \/ UNCHANGED <<callOf, userVars>>
    BY <1>7 DEF RunStep, ToolStep, ToolAsks, ToolLooks, ToolConsumes, agentVars
<1>8. \/ AgentLooks \/ StartCalculator \/ StartApplication \/ GetResult \/ GiveUp \/ UserAnswers
      \/ OutsideStep \/ UNCHANGED allVars
      => UNCHANGED <<callOf, userVars>>
    BY DEF AgentLooks, StartCalculator, StartApplication, GetResult, GiveUp, UserAnswers,
        OutsideStep, allVars, agentVars, userVars
<1> QED BY <1>1, <1>2, <1>3, <1>4, <1>5, <1>6, <1>7, <1>8 DEF CallsNext, AgentStep

\* The user is shown, and approves, calls under their own ids only.
THEOREM ApprovalsAreInOrder == CallsSpec => []ApprovalInv
<1>1. CallsInit => ApprovalInv
    BY IdsAssumption DEF CallsInit, ApprovalInv
<1>2. Inv /\ CallsInv /\ ApprovalInv /\ [CallsNext]_allVars => ApprovalInv'
    BY ApprovalInvStep
<1> QED BY <1>1, <1>2, EngineIsInOrder, CallsAreInOrder, PTL DEF CallsSpec

\* Provided that its id is its own, a call that an approval lets run is the call that
\* the user was shown, however the threads and the user's answers interleave.
THEOREM ApprovalIsForItsCallInvariant == CallsSpec => []ApprovalIsForItsCall
<1>1. CallsInv /\ ApprovalInv => ApprovalIsForItsCall
    BY DEF ApprovalInv, ApprovalIsForItsCall
<1> QED BY <1>1, CallsAreInOrder, ApprovalsAreInOrder, PTL

-----------------------------------------------------------------------------
(* A close and its policy *)

\* A run asks for what it does, under an id that the user can only know, and
\* approve, when the run has returned.
CloseOf(r) ==
    /\ pc[r] # "idle" => at[r] = "permit" /\ request[r] = OwnRequest(r) /\ pc[r] # "consume"
    /\ pc[r] = "record" /\ reason[r] \in Permitting => LevelFor(App!Requirement(operation[r])) = "safe"
    /\ shown[r] # None \/ r \in approvedOnce \/ (hostPc = "approve" /\ hostRequest.id = r)
         => at[r] = "returned"
    /\ at[r] \in {"dispatch", "window"} \/ touched[r] # None =>
         operation[r].action # "close" \/ LevelFor("application.close") = "safe"

CloseInv == \A r \in Runs : CloseOf(r)

LEMMA RunsAreCallers == \A r \in Runs : r \in Callers /\ r # Agent /\ r \in Ids /\ r \notin ModelIds
BY ThreadsAssumption, IdsAssumption

\* A step of the agent.
LEMMA CloseAgent ==
    ASSUME Inv, CallsInv, ApprovalInv, AgentStep, NEW r \in Runs, CloseOf(r)
    PROVE  CloseOf(r)'
<1> USE RunsAreCallers DEF OwnRequest
<1>0. AgentItself /\ model \in Answers
    BY DEF CallsInv, AgentOK
<1>1. agentAt = "decide" => request[Agent].id \in ModelIds
    BY <1>0, ModelTypes DEF AgentItself, AgentRequest, RequestId
<1>2. pc'[r] = pc[r] /\ request'[r] = request[r] /\ reason'[r] = reason[r]
    BY DEF AgentStep, Try, AgentLooks, AgentConsumes, AgentRefused, StartCalculator, StartApplication,
        GetResult, GiveUp, Decide, CheckDenied, CheckApproved, Consume, Record, Decided, Leave, Goto,
        Inv, TypeOK, engineVars, deciderVars
<1>3. UNCHANGED <<hostPc, hostRequest>> /\ approvedOnce' \subseteq approvedOnce
    BY DEF AgentStep, Try, AgentLooks, AgentConsumes, AgentRefused, StartCalculator, StartApplication,
        GetResult, GiveUp, Decide, CheckDenied, CheckApproved, Consume, Record, engineVars, hostVars
<1>4. shown'[r] = shown[r]
    <2>1. AgentRefused => agentAt = "decide"
        BY <1>0 DEF AgentItself, AgentRefused, Record
    <2>2. UNCHANGED shown \/ (agentAt = "decide" /\ shown' = [shown EXCEPT ![request[Agent].id] = callOf[current]])
        BY <2>1 DEF AgentStep, Try, AgentLooks, AgentConsumes, AgentRefused, StartCalculator,
            StartApplication, GetResult, GiveUp, userVars, Show
    <2>3. request[Agent].id # r \/ agentAt # "decide"
        BY <1>1
    <2> QED BY <2>2, <2>3 DEF ApprovalInv
<1>5. CASE UNCHANGED <<at, operation, touched>>
    BY <1>2, <1>3, <1>4, <1>5 DEF CloseOf
<1>6. CASE StartApplication
    <2>1. /\ at[current] = "new" /\ UNCHANGED touched
          /\ at' = [at EXCEPT ![current] = "check"]
          /\ operation' = [operation EXCEPT ![current] = Operation(callOf[current])]
        BY <1>6 DEF StartApplication, App!Begin, App!Goto
    <2>2. CASE current # r
        <3>1. at'[r] = at[r] /\ operation'[r] = operation[r]
            BY <2>1, <2>2 DEF CallsInv, AppInv, AppData
        <3> QED BY <1>2, <1>3, <1>4, <2>1, <3>1 DEF CloseOf
    <2>3. CASE current = r
        <3>1. at[r] = "new" /\ at'[r] = "check" /\ touched[r] = None
            BY <2>1, <2>3 DEF CallsInv, AppInv, AppData, AppLocals
        <3> QED BY <1>2, <1>3, <1>4, <2>1, <3>1 DEF CloseOf
    <2> QED BY <2>2, <2>3
<1> QED BY <1>5, <1>6 DEF AgentStep, Try, AgentLooks, AgentConsumes, AgentRefused, StartCalculator,
           GetResult, GiveUp, appVars

\* A step of another run.
LEMMA CloseOthers ==
    ASSUME Inv, CallsInv, ApprovalInv, NEW s \in Runs, RunStep(s), NEW r \in Runs \ {s}, CloseOf(r)
    PROVE  CloseOf(r)'
<1> USE RunsAreCallers DEF OwnRequest
<1>1. pc'[r] = pc[r] /\ request'[r] = request[r] /\ reason'[r] = reason[r]
    BY DEF RunStep, ToolStep, ToolAsks, ToolLooks, ToolConsumes, ToolDecided, Decide, CheckDenied,
        CheckApproved, Consume, Record, Decided, Leave, Goto, Inv, TypeOK, engineVars, deciderVars
<1>2. UNCHANGED <<hostPc, hostRequest>> /\ approvedOnce' \subseteq approvedOnce
    BY DEF RunStep, ToolStep, ToolAsks, ToolLooks, ToolConsumes, ToolDecided, Decide, CheckDenied,
        CheckApproved, Consume, Record, engineVars, hostVars
<1>3. shown'[r] = shown[r]
    BY DEF RunStep, ToolStep, ToolAsks, ToolLooks, ToolConsumes, ToolDecided, Show, userVars, ApprovalInv
<1>4. at'[r] = at[r] /\ operation'[r] = operation[r] /\ touched'[r] = touched[r]
    <2>1. App!Execute(s) \/ UNCHANGED appVars
        BY DEF RunStep, ToolStep, ToolAsks, ToolLooks, ToolConsumes, ToolDecided, App!Execute
    <2> QED BY <2>1, OtherRunsStay DEF CallsInv, appVars
<1> QED BY <1>1, <1>2, <1>3, <1>4 DEF CloseOf

\* A step of the user or of the world outside.
LEMMA CloseUser ==
    ASSUME Inv, CallsInv, UserAnswers \/ AnswerStored \/ OutsideStep, NEW r \in Runs, CloseOf(r)
    PROVE  CloseOf(r)'
<1> USE RunsAreCallers DEF OwnRequest
<1>1. UNCHANGED <<pc, request, reason, shown>>
    BY DEF UserAnswers, AnswerStored, OutsideStep, ApproveOnce, Deny, AddApproval, AddDenial,
        userVars, engineVars, deciderVars
<1>2. UNCHANGED <<at, operation, touched>>
    BY DEF UserAnswers, AnswerStored, OutsideStep, appVars, App!Outside, App!Cancel, App!ProcessEnds,
        App!ForeignStarts, App!runVars, App!historyVars
<1>3. CASE OutsideStep
    BY <1>1, <1>2, <1>3 DEF OutsideStep, engineVars, hostVars, CloseOf
<1>4. CASE UserAnswers
    <2>1. approvedOnce' \subseteq approvedOnce
        BY <1>4 DEF UserAnswers, ApproveOnce, Deny
    <2>2. PICK i \in Ids : shown[i] # None /\ hostRequest'.id = i
        BY <1>4 DEF UserAnswers, ShownRequest
    <2> QED BY <1>1, <1>2, <2>1, <2>2 DEF CloseOf
<1>5. CASE AnswerStored
    <2>1. hostPc' = "idle"
        BY <1>5 DEF AnswerStored, AddApproval, AddDenial
    <2>2. approvedOnce' = approvedOnce \/ (hostPc = "approve" /\ approvedOnce' = approvedOnce \cup {hostRequest.id})
        BY <1>5 DEF AnswerStored, AddApproval, AddDenial
    <2> QED BY <1>1, <1>2, <2>1, <2>2 DEF CloseOf
<1> QED BY <1>3, <1>4, <1>5

\* The tool decides about its own request.
LEMMA CloseDecision ==
    ASSUME Inv, CallsInv, ApprovalInv, NEW r \in Runs, CloseOf(r),
           ToolAsks(r) \/ ToolLooks(r) \/ ToolDecided(r)
    PROVE  CloseOf(r)'
<1> USE RunsAreCallers DEF OwnRequest, Inv, TypeOK, Goto, CloseOf
<1>1. CASE ToolAsks(r)
    <2>1. /\ at[r] = "permit" /\ request'[r] = OwnRequest(r)
          /\ pc'[r] = "checkDenied" \/ (pc'[r] = "record" /\ reason'[r] = "blocked")
        BY <1>1 DEF ToolAsks, Decide, Decided
    <2>2. UNCHANGED <<appVars, shown, approvedOnce, hostPc, hostRequest>>
        BY <1>1 DEF ToolAsks, Decide, userVars, hostVars
    <2> QED BY <2>1, <2>2 DEF appVars, Permitting
<1>2. CASE ToolLooks(r)
    <2>1. /\ at[r] = "permit" /\ request[r] = OwnRequest(r) /\ UNCHANGED request
          /\ r \notin approvedOnce
        BY <1>2 DEF ToolLooks, CheckDenied, CheckApproved
    <2>2. UNCHANGED <<appVars, shown, approvedOnce, hostPc, hostRequest>>
        BY <1>2 DEF ToolLooks, CheckDenied, CheckApproved, userVars, hostVars
    <2>3. \/ pc'[r] = "checkApproved"
          \/ pc'[r] = "record" /\ reason'[r] \in {"denied", "required"}
          \/ pc'[r] = "record" /\ LevelFor(request[r].requirement) = "safe"
        BY <1>2, <2>1 DEF ToolLooks, CheckDenied, CheckApproved, Decided
    <2> QED BY <2>1, <2>2, <2>3 DEF appVars, Permitting
<1>3. CASE ToolDecided(r)
    <2>1. at[r] = "permit" /\ pc[r] = "record" /\ pc'[r] = "idle"
        BY <1>3 DEF ToolDecided, Record, Leave
    <2>2. UNCHANGED <<operation, touched, approvedOnce, hostPc, hostRequest>>
        BY <1>3 DEF ToolDecided, Record, App!Permitted, App!Refused, App!Return, App!historyVars, hostVars
    <2>3. CASE reason[r] \in Permitting
        <3>1. at'[r] = "dispatch" /\ UNCHANGED shown
            BY <1>3, <2>3 DEF ToolDecided, App!Permitted, App!Goto, CallsInv, AppInv, AppData, Show, Permitting
        <3> QED BY <2>1, <2>2, <2>3, <3>1 DEF App!Requirement
    <2>4. CASE reason[r] \notin Permitting
        <3>1. at'[r] = "returned"
            BY <1>3, <2>4 DEF ToolDecided, App!Refused, App!Return, App!Goto, CallsInv, AppInv, AppData
        <3>2. touched[r] = None
            BY <2>1 DEF CallsInv, AppInv, AppLocals
        <3> QED BY <2>1, <2>2, <3>1, <3>2
    <2> QED BY <2>3, <2>4
<1> QED BY <1>1, <1>2, <1>3

\* The tool before and after its decision.
LEMMA CloseTool ==
    ASSUME CallsInv, NEW r \in Runs, CloseOf(r), ToolStep(r)
    PROVE  CloseOf(r)'
<1> DEFINE Fit == operation[r].action # "close" \/ LevelFor("application.close") = "safe"
<1>1. UNCHANGED <<pc, request, reason, shown, approvedOnce, hostPc, hostRequest>>
    BY DEF ToolStep, engineVars, deciderVars, hostVars, userVars
<1>2. at[r] \notin {"new", "permit", "returned"} /\ UNCHANGED operation
    BY DEF ToolStep, App!CheckCancelled, App!ResetCancelled, App!BackendStep, App!Launch, App!BackendFails,
        App!NoProcess, App!Status, App!ListProcesses, App!WindowAction, App!Return
<1>3. /\ at'[r] \in {"dispatch", "window"} => at[r] = "dispatch"
      /\ touched'[r] = touched[r] \/ at[r] = "window"
    BY DEF ToolStep, App!CheckCancelled, App!ResetCancelled, App!BackendStep, App!Launch, App!BackendFails,
        App!NoProcess, App!Status, App!ListProcesses, App!WindowAction, App!Return, App!Goto,
        App!historyVars, CallsInv, AppInv, AppData
<1>4. touched[r] = None
    BY <1>2 DEF CallsInv, AppInv, AppLocals
<1>5. (at'[r] \in {"dispatch", "window"} \/ touched'[r] # None) => Fit
    BY <1>3, <1>4 DEF CloseOf
<1> HIDE DEF Fit
<1>6. pc[r] = "idle" /\ shown[r] = None /\ r \notin approvedOnce /\ ~(hostPc = "approve" /\ hostRequest.id = r)
    BY <1>2 DEF CloseOf
<1> QED BY <1>1, <1>2, <1>5, <1>6 DEF CloseOf, Fit

LEMMA CloseInvStep ==
    ASSUME Inv, CallsInv, ApprovalInv, CloseInv, [CallsNext]_allVars
    PROVE  CloseInv'
<1> SUFFICES ASSUME NEW r \in Runs, CloseOf(r)
             PROVE  CloseOf(r)'
    BY DEF CloseInv
<1>1. CASE RunStep(r)
    <2>1. ~ToolConsumes(r)
        BY DEF ToolConsumes, Consume, CloseOf
    <2> QED BY <1>1, <2>1, CloseDecision, CloseTool DEF RunStep
<1>2. ASSUME NEW s \in Runs \ {r}, RunStep(s)
      PROVE  CloseOf(r)'
    BY <1>2, CloseOthers
<1>3. CASE UNCHANGED allVars
    BY <1>3 DEF allVars, engineVars, deciderVars, hostVars, userVars, appVars, CloseOf, OwnRequest
<1> QED BY <1>1, <1>2, <1>3, CloseAgent, CloseUser DEF CallsNext

\* No approval, however it comes about, lets a close run that the policy does not
\* hold for safe.
THEOREM CloseFollowsPolicyInvariant == CallsSpec => []CloseFollowsPolicy
<1>1. CallsInit => CloseInv
    BY RunsAreCallers DEF CallsInit, Init, App!Init, CloseInv, CloseOf
<1>2. Inv /\ CallsInv /\ ApprovalInv /\ CloseInv /\ [CallsNext]_allVars => CloseInv'
    BY CloseInvStep
<1>3. CloseInv => CloseFollowsPolicy
    BY DEF CloseInv, CloseOf, CloseFollowsPolicy
<1> QED BY <1>1, <1>2, <1>3, EngineIsInOrder, CallsAreInOrder, ApprovalsAreInOrder, PTL DEF CallsSpec

-----------------------------------------------------------------------------
(* One cancel, one run *)

OverlapsAreNoted ==
    \A r \in Runs : \A s \in Runs \ {r} :
        at[r] \notin {"new", "returned"} /\ at[s] \notin {"new", "returned"} => r \in overlapped

\* A cancel that has stopped a run is down, and who still saw it was not alone.
SpentIsDown ==
    spent => ~cancelled /\ \A r \in Runs : at[r] = "reset" => r \in overlapped

CancelInv == OverlapsAreNoted /\ SpentIsDown

LEMMA OverlapsStep ==
    ASSUME AppInv, OverlapsAreNoted, [App!Next]_appVars
    PROVE  OverlapsAreNoted'
<1> SUFFICES ASSUME NEW r \in Runs, NEW s \in Runs \ {r},
                    at'[r] \notin {"new", "returned"}, at'[s] \notin {"new", "returned"}
             PROVE  r \in overlapped'
    BY DEF OverlapsAreNoted
<1>1. CASE UNCHANGED <<at, overlapped>>
    BY <1>1 DEF OverlapsAreNoted
<1>2. ASSUME NEW t \in Runs, NEW o \in App!Operations, App!Begin(t, o)
      PROVE  r \in overlapped'
    BY <1>2 DEF App!Begin, App!Goto, App!Working, OverlapsAreNoted, AppInv, AppData
<1>3. ASSUME NEW t \in Runs, App!Execute(t), ~\E o \in App!Operations : App!Begin(t, o)
      PROVE  r \in overlapped'
    <2>1. UNCHANGED overlapped
        BY <1>3 DEF App!Execute, App!CheckCancelled, App!ResetCancelled, App!Permitted, App!Refused,
            App!BackendStep, App!Launch, App!BackendFails, App!NoProcess, App!Status,
            App!ListProcesses, App!WindowAction, App!Return, App!historyVars
    <2>2. at[t] \notin {"new", "returned"}
        BY <1>3 DEF App!Execute, App!CheckCancelled, App!ResetCancelled, App!Permitted, App!Refused,
            App!BackendStep, App!Launch, App!BackendFails, App!NoProcess, App!Status,
            App!ListProcesses, App!WindowAction
    <2>3. \A x \in Runs \ {t} : at'[x] = at[x]
        BY <1>3, OtherRunsStay
    <2> QED BY <2>1, <2>2, <2>3 DEF OverlapsAreNoted
<1>4. App!Outside \/ UNCHANGED appVars => UNCHANGED <<at, overlapped>>
    BY DEF App!Outside, App!Cancel, App!ProcessEnds, App!ForeignStarts, App!runVars, App!historyVars, appVars
<1> QED BY <1>1, <1>2, <1>3, <1>4 DEF App!Next

\* Only a run in "reset" is cancelled.
LEMMA CancelledInReset ==
    ASSUME AppInv, [App!Next]_appVars, NEW r \in Runs, result[r] # "cancelled", result'[r] = "cancelled"
    PROVE  App!ResetCancelled(r)
<1>1. PICK t \in Runs : App!Execute(t)
    BY DEF App!Next, App!Outside, App!Cancel, App!ProcessEnds, App!ForeignStarts, App!runVars,
        App!historyVars, appVars
<1>2. t = r
    BY <1>1, OtherRunsStay
<1> QED BY <1>1, <1>2 DEF App!Execute, App!Begin, App!CheckCancelled, App!Permitted, App!Refused,
           App!BackendStep, App!Launch, App!BackendFails, App!NoProcess, App!Status, App!ListProcesses,
           App!WindowAction, App!Return, App!historyVars, AppInv, AppData

\* Any other way to return does not spend a cancel.
LEMMA ReturnKeepsSpent ==
    ASSUME NEW r \in Runs, NEW how \in App!Results, how # "cancelled", App!Return(r, how)
    PROVE  spent' => spent
<1>1. spent' = (spent \/ how = "cancelled")
    BY Zenon DEF App!Return
<1> QED BY <1>1, Zenon

\* The other steps, where the flag and the runs at "reset" are concerned.
Harmless ==
    /\ spent' => spent
    /\ UNCHANGED cancelled /\ overlapped \subseteq overlapped'
    /\ \A r \in Runs : at'[r] = "reset" => at[r] = "reset"

LEMMA OtherStepsAreHarmless ==
    ASSUME AppInv, NEW t \in Runs, App!Execute(t), ~App!ResetCancelled(t), ~App!CheckCancelled(t)
    PROVE  Harmless
<1>1. UNCHANGED cancelled /\ overlapped \subseteq overlapped'
    BY DEF App!Execute, App!Begin, App!Permitted, App!Refused, App!BackendStep, App!Launch,
        App!BackendFails, App!NoProcess, App!Status, App!ListProcesses, App!WindowAction, App!Return,
        App!historyVars
<1>2. at'[t] # "reset" /\ \A r \in Runs \ {t} : at'[r] = at[r]
    BY OtherRunsStay DEF App!Execute, App!Begin, App!Permitted, App!Refused, App!BackendStep, App!Launch,
        App!BackendFails, App!NoProcess, App!Status, App!ListProcesses, App!WindowAction, App!Return,
        App!Goto, AppInv, AppData
<1>3. \/ UNCHANGED spent
      \/ \E how \in App!Results : how # "cancelled" /\ App!Return(t, how)
    BY DEF App!Execute, App!Begin, App!Permitted, App!Refused, App!BackendStep, App!Launch,
        App!BackendFails, App!NoProcess, App!Status, App!ListProcesses, App!WindowAction,
        App!historyVars, App!Results
<1>4. spent' => spent
    BY <1>3, ReturnKeepsSpent, Zenon
<1> QED BY <1>1, <1>2, <1>4, Zenon DEF Harmless

LEMMA OutsideIsHarmless ==
    ASSUME App!Outside \/ UNCHANGED appVars
    PROVE  Harmless \/ spent' = FALSE
<1>1. CASE App!Cancel
    BY <1>1, Zenon DEF App!Cancel
<1>2. CASE UNCHANGED <<cancelled, overlapped, spent, at>>
    <2>1. overlapped \subseteq overlapped' /\ \A r \in Runs : at'[r] = at[r]
        BY <1>2
    <2>2. spent' => spent
        BY <1>2, Zenon
    <2> QED BY <1>2, <2>1, <2>2, Zenon DEF Harmless
<1> QED BY <1>1, <1>2 DEF App!Outside, App!ProcessEnds, App!ForeignStarts, App!runVars,
           App!historyVars, appVars

LEMMA SpentStep ==
    ASSUME AppInv, CancelInv, [App!Next]_appVars
    PROVE  SpentIsDown'
<1> USE DEF CancelInv
<1>1. CASE Harmless
    <2>1. SUFFICES ASSUME spent'
                   PROVE  ~cancelled' /\ \A r \in Runs : at'[r] = "reset" => r \in overlapped'
        BY Zenon DEF SpentIsDown
    <2>2. ~cancelled /\ \A r \in Runs : at[r] = "reset" => r \in overlapped
        BY <1>1, <2>1, Zenon DEF Harmless, SpentIsDown
    <2>3. ~cancelled'
        BY <1>1, <2>2, Zenon DEF Harmless
    <2> QED BY <1>1, <2>2, <2>3, Zenon DEF Harmless
<1>2. CASE spent' = FALSE
    BY <1>2, Zenon DEF SpentIsDown
<1>3. ASSUME NEW t \in Runs, App!ResetCancelled(t)
      PROVE  SpentIsDown'
    <2>1. cancelled' = FALSE
        BY <1>3, Zenon DEF App!ResetCancelled
    <2>2. \A r \in Runs : at'[r] = "reset" => r \in overlapped'
        BY <1>3 DEF App!ResetCancelled, App!Return, App!Goto, OverlapsAreNoted, AppInv, AppData
    <2> QED BY <2>1, <2>2, Zenon DEF SpentIsDown
<1>4. ASSUME NEW t \in Runs, App!CheckCancelled(t)
      PROVE  SpentIsDown'
    <2>1. UNCHANGED <<cancelled, spent, overlapped>>
        BY <1>4 DEF App!CheckCancelled, App!historyVars
    <2>2. CASE cancelled
        <3>1. ~spent
            BY <2>2, Zenon DEF SpentIsDown
        <3>2. ~spent'
            BY <2>1, <3>1, Zenon
        <3> QED BY <3>2, Zenon DEF SpentIsDown
    <2>3. CASE ~cancelled
        <3>1. at' = [at EXCEPT ![t] = "permit"]
            BY <1>4, <2>3, Zenon DEF App!CheckCancelled, App!Goto
        <3>2. \A r \in Runs : at'[r] = "reset" => at[r] = "reset"
            BY <3>1 DEF AppInv, AppData
        <3>3. overlapped \subseteq overlapped'
            BY <2>1
        <3>4. (spent' => spent) /\ UNCHANGED cancelled
            BY <2>1, Zenon
        <3>5. Harmless
            BY <3>2, <3>3, <3>4, Zenon DEF Harmless
        <3> QED BY <3>5, <1>1
    <2> QED BY <2>2, <2>3
<1>5. App!Outside \/ UNCHANGED appVars => Harmless \/ spent' = FALSE
    BY OutsideIsHarmless, Zenon
<1>6. ASSUME NEW t \in Runs, App!Execute(t)
      PROVE  SpentIsDown'
    BY <1>1, <1>3, <1>4, <1>6, OtherStepsAreHarmless, Zenon
<1> QED BY <1>1, <1>2, <1>5, <1>6, Zenon DEF App!Next

\* A cancel stops one operation, and no second one, unless two of them look at the
\* flag while both are in execute.
THEOREM OneCancelOneRunHolds == CallsSpec => OneCancelOneRun
<1> DEFINE OneRun == \A r \in Runs \ overlapped : result[r] # "cancelled" /\ result'[r] = "cancelled" => ~spent
<1>1. CallsInit => CancelInv
    <2> SUFFICES ASSUME CallsInit
                 PROVE  CancelInv
        OBVIOUS
    <2>1. OverlapsAreNoted /\ \A r \in Runs : at[r] # "reset"
        BY DEF CallsInit, App!Init, OverlapsAreNoted
    <2>2. cancelled = FALSE
        BY Zenon DEF CallsInit, App!Init
    <2> QED BY <2>1, <2>2, Zenon DEF CancelInv, SpentIsDown
<1>2. CallsInv /\ CancelInv /\ [CallsNext]_allVars => CancelInv'
    BY AppStep, OverlapsStep, SpentStep DEF CallsInv, CancelInv
<1>3. CallsInv /\ CancelInv /\ [CallsNext]_allVars => [OneRun]_(App!vars)
    <2> SUFFICES ASSUME CallsInv, CancelInv, [CallsNext]_allVars,
                        NEW r \in Runs \ overlapped, result[r] # "cancelled", result'[r] = "cancelled"
                 PROVE  ~spent
        OBVIOUS
    <2>1. App!ResetCancelled(r)
        BY AppStep, CancelledInReset DEF CallsInv
    <2>2. r \in Runs /\ at[r] = "reset" /\ r \notin overlapped
        BY <2>1 DEF App!ResetCancelled
    <2> QED BY <2>2, Zenon DEF CancelInv, SpentIsDown
<1> QED BY <1>1, <1>2, <1>3, CallsAreInOrder, PTL
       DEF CallsSpec, OneCancelOneRun, App!OneCancelOneRun

-----------------------------------------------------------------------------
(* Types *)

LEMMA AppFlagsStep == AppFlags /\ [App!Next]_appVars => AppFlags'
<1> SUFFICES ASSUME AppFlags, [App!Next]_appVars
             PROVE  AppFlags'
    OBVIOUS
<1>1. UNCHANGED cancelled \/ cancelled' = TRUE \/ cancelled' = FALSE
    BY Zenon DEF appVars, App!Next, App!Outside, App!Cancel, App!ProcessEnds, App!ForeignStarts, App!Execute,
        App!Begin, App!CheckCancelled, App!ResetCancelled, App!Permitted, App!Refused, App!BackendStep,
        App!Launch, App!BackendFails, App!NoProcess, App!Status, App!ListProcesses, App!WindowAction
<1>2. UNCHANGED spent \/ spent' = FALSE \/ \E how : spent' = (spent \/ how = "cancelled")
    BY Zenon DEF appVars, App!Next, App!Outside, App!Cancel, App!ProcessEnds, App!ForeignStarts, App!Execute,
        App!Begin, App!CheckCancelled, App!ResetCancelled, App!Permitted, App!Refused, App!BackendStep,
        App!Launch, App!BackendFails, App!NoProcess, App!Status, App!ListProcesses, App!WindowAction,
        App!Return, App!historyVars
<1> QED BY <1>1, <1>2, Zenon DEF AppFlags

OwnTypes ==
    /\ agentAt \in {"next", "decide", "wait"}
    /\ current \in Runs \cup {None}
    /\ retry \in 0..MaxStepRetries

LEMMA OwnTypesStep == OwnTypes /\ [CallsNext]_allVars => OwnTypes'
<1> SUFFICES ASSUME OwnTypes, [CallsNext]_allVars
             PROVE  OwnTypes'
    OBVIOUS
<1> USE RetriesAssumption DEF OwnTypes
<1>1. ASSUME NEW r \in Runs, NEW c \in Calls, Try(r, c)
      PROVE  OwnTypes'
    BY <1>1 DEF Try, NextTries
<1>2. CASE AgentLooks \/ AgentRefused \/ StartCalculator \/ StartApplication \/ GetResult \/ GiveUp
    BY <1>2 DEF AgentLooks, AgentRefused, StartCalculator, StartApplication, GetResult, GiveUp, agentVars
<1>3. CASE AgentConsumes
    BY <1>3 DEF AgentConsumes
<1>4. CASE UNCHANGED agentVars
    BY <1>4 DEF agentVars
<1>5. \A r \in Runs : RunStep(r) => UNCHANGED agentVars
    BY DEF RunStep, ToolStep, ToolAsks, ToolLooks, ToolConsumes, ToolDecided
<1>6. UserAnswers \/ AnswerStored \/ OutsideStep \/ UNCHANGED allVars => UNCHANGED agentVars
    BY DEF UserAnswers, AnswerStored, OutsideStep, allVars
<1> QED BY <1>1, <1>2, <1>3, <1>4, <1>5, <1>6 DEF CallsNext, AgentStep

\* The variables of the composition, and with them those of its two components, keep
\* their types.
THEOREM CallsTypeCorrect == CallsSpec => []CallsTypeOK
<1>1. CallsInit => OwnTypes
    BY RetriesAssumption DEF CallsInit, OwnTypes
<1>2. CallsInit => AppFlags
    BY Zenon DEF CallsInit, App!Init, AppFlags
<1>3. CallsInv /\ AppFlags /\ [CallsNext]_allVars => AppFlags'
    BY AppStep, AppFlagsStep, Zenon DEF CallsInv
<1>4. Inv /\ CallsInv /\ AppFlags /\ OwnTypes /\ ApprovalInv => CallsTypeOK
    BY AppTypeParts, Zenon DEF Inv, CallsInv, AgentOK, AgentItself, AppInv, OwnTypes, ApprovalInv, CallsTypeOK
<1> QED BY <1>1, <1>2, <1>3, <1>4, OwnTypesStep, EngineIsInOrder, CallsAreInOrder, ApprovalsAreInOrder, PTL
       DEF CallsSpec

=============================================================================
