--------------------------- MODULE ApprovedCalls ---------------------------
(***************************************************************************)
(* The path of a tool call: AgentController._handle_tool_call asks the     *)
(* PermissionEngine under the id that the model's call has, runs the tool  *)
(* in a worker thread until a deadline, and the ApplicationTool asks again *)
(* under an id of its own.  The host's user is shown the refusals and may  *)
(* approve or deny their ids at any time; tries follow each other at once. *)
(***************************************************************************)
EXTENDS PermissionEngine

CONSTANTS
    Agent,          \* the thread of the agent
    Runs,           \* runs of _handle_tool_call: tries of a call
    Calls,          \* tool calls of the model's answers
    ModelIds,       \* their ids; OllamaProvider numbers each answer's from 0
    Answers,        \* what the model may call: an id and an operation for each call
    MaxStepRetries, \* max_step_retries
    Applications, ProcessIds, Foreign, None

ASSUME ThreadsAssumption == Agent \notin Runs /\ Callers = {Agent} \cup Runs

ASSUME RetriesAssumption == MaxStepRetries \in Nat

ASSUME NoneAssumption == None \notin Calls \cup Runs

\* The id of a tool's own request is fresh: it is named by the run.
ASSUME IdsAssumption == ModelIds \cap Runs = {} /\ Ids = ModelIds \cup Runs

\* Neither Foreign nor None is an application.
ASSUME OwnersAssumption == Foreign \notin Applications /\ None \notin Applications \cup {Foreign}

VARIABLES cancelled, owner, at, operation, first, result, touched, reused, overlapped, spent

App == INSTANCE ApplicationTool

ModelCalls == [id : ModelIds, operation : App!Operations \cup {None}]

ASSUME AnswersAssumption == Answers \subseteq [Calls -> ModelCalls]

VARIABLES
    model,          \* the calls it makes; None is the operation of the calculator
    agentAt,        \* where the agent is: "next", "decide" or "wait"
    current,        \* the run that it is in
    callOf,         \* the call of each run
    retry           \* how often the call of the last run is still to be tried

VARIABLES
    shown,          \* history: the call that the user was told an id is about
    approvedFor,    \* history: that call when the user approved the id
    grantedBy       \* history: the call that was approved for each run's permission

appVars == <<cancelled, owner, at, operation, first, result, touched, reused, overlapped, spent>>
agentVars == <<agentAt, current, callOf, retry>>
userVars == <<shown, approvedFor, grantedBy>>
engineVars == <<approvedOnce, denied, deciderVars, hostVars, historyVars>>
allVars == <<engineVars, appVars, agentVars, userVars, model>>

CallsTypeOK ==
    /\ TypeOK /\ App!TypeOK
    /\ model \in Answers
    /\ agentAt \in {"next", "decide", "wait"}
    /\ current \in Runs \cup {None}
    /\ callOf \in [Runs -> Calls \cup {None}]
    /\ retry \in 0..MaxStepRetries
    /\ shown \in [Ids -> Calls \cup {None}] /\ approvedFor \in [Ids -> Calls \cup {None}]
    /\ grantedBy \in [Runs -> Calls \cup {None}]

CallsInit ==
    /\ Init /\ App!Init
    /\ model \in Answers
    /\ agentAt = "next" /\ current = None /\ retry = 0
    /\ callOf = [r \in Runs |-> None]
    /\ shown = [i \in Ids |-> None] /\ approvedFor = [i \in Ids |-> None]
    /\ grantedBy = [r \in Runs |-> None]

-----------------------------------------------------------------------------
(* The agent *)

CallId(c) == model[c].id
Operation(c) == model[c].operation

\* Mutant: the calls of an answer share an id.
RequestIdOfAnswer(c) == CHOOSE i \in ModelIds : TRUE

RequestId(c) == CallId(c)

\* The permission_requirement that the tool declares for all it does.
Declared(c) == IF Operation(c) = None THEN "calculator" ELSE "application.safe"

\* A call of a new answer, or the last one again.
NextTries(c) ==
    \/ /\ retry = 0 /\ \A r \in Runs : callOf[r] # c
       /\ retry' = MaxStepRetries
    \/ /\ retry > 0 /\ callOf[current] = c
       /\ retry' = retry - 1

\* The request that the agent makes for a call.
AgentRequest(c) == [id |-> RequestId(c), requirement |-> Declared(c)]

Try(r, c) ==
    /\ agentAt = "next" /\ callOf[r] = None
    /\ NextTries(c)
    /\ agentAt' = "decide" /\ current' = r
    /\ callOf' = [callOf EXCEPT ![r] = c]
    /\ Decide(Agent)
    /\ request'[Agent] = AgentRequest(c)
    /\ UNCHANGED <<appVars, userVars>>

AgentLooks ==
    /\ CheckDenied(Agent) \/ CheckApproved(Agent)
    /\ UNCHANGED <<appVars, agentVars, userVars>>

AgentConsumes ==
    /\ Consume(Agent)
    /\ IF pc'[Agent] = "record"
       THEN /\ grantedBy' = [grantedBy EXCEPT ![current] = approvedFor[request[Agent].id]]
            /\ UNCHANGED <<agentAt, retry>>
       ELSE agentAt' = "next" /\ retry' = 0 /\ UNCHANGED grantedBy
    /\ UNCHANGED <<appVars, current, callOf, shown, approvedFor>>

\* The result of a refusal says why, and the audit trail under which id.
Show(c, i, why) ==
    shown' = IF why = "required" THEN [shown EXCEPT ![i] = c] ELSE shown

AgentRefused ==
    /\ Record(Agent) /\ reason[Agent] \notin Permitting
    /\ agentAt' = "next"
    /\ Show(callOf[current], request[Agent].id, reason[Agent])
    /\ UNCHANGED <<appVars, current, callOf, retry, approvedFor, grantedBy>>

\* The worker starts, and computes the calculator's value, or raises, on its own.
StartCalculator ==
    /\ Record(Agent) /\ reason[Agent] \in Permitting
    /\ Operation(callOf[current]) = None
    /\ agentAt' = "next"
    /\ retry' = 0 \/ UNCHANGED retry
    /\ UNCHANGED <<appVars, current, callOf, shown, approvedFor, grantedBy>>

StartApplication ==
    /\ Record(Agent) /\ reason[Agent] \in Permitting
    /\ Operation(callOf[current]) # None
    /\ agentAt' = "wait"
    /\ App!Begin(current, Operation(callOf[current]))
    /\ UNCHANGED <<current, callOf, retry, shown, approvedFor, grantedBy>>

\* Whatever the tool returns is a success; a decide that raised is not.
GetResult ==
    /\ agentAt = "wait" /\ at[current] = "returned"
    /\ agentAt' = "next"
    /\ retry' = IF result[current] = "raised" THEN retry ELSE 0
    /\ UNCHANGED <<engineVars, appVars, current, callOf, userVars>>

GiveUp ==
    /\ agentAt = "wait" /\ at[current] # "returned"
    /\ agentAt' = "next"
    /\ UNCHANGED <<engineVars, appVars, current, callOf, retry, userVars>>

-----------------------------------------------------------------------------
(* The worker of an application call *)

ToolStep(r) ==
    /\ App!CheckCancelled(r) \/ App!ResetCancelled(r) \/ App!BackendStep(r)
    /\ UNCHANGED <<engineVars, agentVars, userVars>>

\* Mutant: whatever it does, the tool asks for what it declares.
OwnRequestDeclared(r) == [id |-> r, requirement |-> Declared(callOf[r])]

OwnRequest(r) == [id |-> r, requirement |-> App!Requirement(operation[r])]

ToolAsks(r) ==
    /\ at[r] = "permit"
    /\ Decide(r) /\ request'[r] = OwnRequest(r)
    /\ UNCHANGED <<appVars, agentVars, userVars>>

ToolLooks(r) ==
    /\ CheckDenied(r) \/ CheckApproved(r)
    /\ UNCHANGED <<appVars, agentVars, userVars>>

ToolConsumes(r) ==
    /\ Consume(r)
    /\ IF pc'[r] = "record" THEN UNCHANGED appVars ELSE App!Refused(r, "raised")
    /\ UNCHANGED <<agentVars, userVars>>

ToolDecided(r) ==
    /\ Record(r)
    /\ IF reason[r] \in Permitting THEN App!Permitted(r) ELSE App!Refused(r, "denied")
    /\ Show(callOf[r], r, reason[r])
    /\ UNCHANGED <<agentVars, approvedFor, grantedBy>>

-----------------------------------------------------------------------------
(* The host: its user answers about what was shown, once *)

ShownRequest(i) ==
    [id |-> i, requirement |-> IF i \in Runs THEN App!Requirement(Operation(shown[i]))
                                             ELSE Declared(shown[i])]

UserAnswers ==
    /\ ApproveOnce \/ Deny
    /\ \E i \in Ids : shown[i] # None /\ hostRequest' = ShownRequest(i)
    /\ UNCHANGED <<appVars, agentVars, userVars>>

AnswerStored ==
    /\ \/ AddDenial /\ UNCHANGED approvedFor
       \/ /\ AddApproval
          /\ approvedFor' = [approvedFor EXCEPT ![hostRequest.id] = shown[hostRequest.id]]
    /\ UNCHANGED <<appVars, agentVars, shown, grantedBy>>

OutsideStep == App!Outside /\ UNCHANGED <<engineVars, agentVars, userVars>>

-----------------------------------------------------------------------------
AgentStep ==
    \/ \E r \in Runs, c \in Calls : Try(r, c)
    \/ AgentLooks \/ AgentConsumes \/ AgentRefused \/ StartCalculator \/ StartApplication
    \/ GetResult \/ GiveUp

RunStep(r) == ToolStep(r) \/ ToolAsks(r) \/ ToolLooks(r) \/ ToolConsumes(r) \/ ToolDecided(r)

CallsNext ==
    /\ AgentStep \/ (\E r \in Runs : RunStep(r)) \/ UserAnswers \/ AnswerStored \/ OutsideStep
    /\ UNCHANGED model

CallsSpec == CallsInit /\ [][CallsNext]_allVars

-----------------------------------------------------------------------------
(* Properties *)

\* approve_once: "Record one host/user approval".  A call that an approval lets run
\* is the call that the user was shown, if no other call has its id.
ApprovalIsForItsCall ==
    \A r \in Runs :
        grantedBy[r] # None /\ (\A c \in Calls \ {callOf[r]} : CallId(c) # CallId(callOf[r]))
            => grantedBy[r] = callOf[r]

\* test_close_can_only_run_when_host_policy_allows_it: no approval, of this call or of
\* another one, lets a close run.
CloseFollowsPolicy ==
    \A r \in Runs :
        at[r] \in {"dispatch", "window"} \/ touched[r] # None =>
            operation[r].action # "close" \/ LevelFor("application.close") = "safe"

\* README: "approval-gated close operations".  A close is not refused because
\* "user approval is required" while the user's approval of that very operation,
\* given after it was refused before, is there unused.
ApprovedCloseIsNotRefused ==
    [][\A r \in Runs :
         result[r] # "denied" /\ result'[r] = "denied" /\ reason[r] = "required" =>
            ~\E i \in approvedOnce : Operation(approvedFor[i]) = operation[r]]_allVars

OwnWindowOnly == App!OwnWindowOnly
OneCancelOneRun == App!OneCancelOneRun
=============================================================================
