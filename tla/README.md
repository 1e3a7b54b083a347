# hermes_agent: a TLA+ verification project

Specifications of the parts of Hermes in which threads, failures and the order
of calls matter, the TLC configurations that check them on small instances, and
theorems about them proved with TLAPS for every value of their constants.

Paths below are relative to the repository (`app/...` is `src/app/...` here).

## 1. The system

Hermes is a local agent. A host (the command line, or a program that embeds it)
gives `AgentController` a task; the controller asks a model provider for a list
of tool calls (a plan), has each call validated and permitted, runs it in a
worker thread, gives the results back to the model, and repeats.

| Component | State | Operations | Hard because |
|---|---|---|---|
| Task loop, `app/agent/controller.py` | `state`, `current_plan`, `plan_history`, `_active_task/_iteration/_conversation`, `_replan_count`, `_active_tool`, `_suspended_task_id` | `run_task`, `resume_memory_task`, `propose_memory_for_current_task`, `cancel`, `trigger_emergency_stop` | `state`, `_active_tool` and the latch are shared with the host thread without a lock; tool calls run in workers that a deadline abandons |
| Emergency stop, `app/agent/emergency.py` | one `threading.Event` | `trigger`, `triggered` | the look at the latch and the operation it guards are two steps |
| Permission engine, `app/security/permissions.py` | `_approved_once`, `_denied`, `_audit_events` | `decide`, `approve_once`, `deny` | the agent's thread, the tools' worker threads and the host share two sets without a lock |
| Terminal tool, `app/terminal/tool.py` | `_cancel_requested`, `_process` | `execute`, `cancel` | a call that timed out overlaps its retry on one object; `cancel` comes from other threads |
| Long-term memory, `app/memory/long_term.py`, `storage.py`, `manager.py` | the tables `memories` and `memory_decisions`, `_pending`, `_checkpoints` | `propose`, `approve`, `reject`, `update`, `delete`, `suspend_task`, `resume_task` | an approval is two transactions; either can fail, and the process can end between them |
| Browser tool, `app/browser/` | the session (url, title, text, links), `_cancelled` | `execute`, `cancel` | overlapping actions write one session field by field; the flag outlives the action it was meant for |
| Application tool, `app/applications/` | `_cancelled`; Windows keeps the processes | `execute` (launch, status, focus, close), `cancel` | it asks the permission engine a second time; a process id of a listing may be another program's by the time its window is looked for |
| Computer-use tool, `app/computer/` | `_cancelled`, the screen of its backend, an executor for each call | `execute`, `cancel` | a second timeout inside the controller's; what timed out goes on beside the next action |
| RAG index, `app/rag/` | the tables of documents and chunks | `index`, `retrieve`, `delete_indexed_data` | a run may stop between any two transactions while files change; chunk boundaries |
| Path security and filesystem tools, `app/filesystem/` | `_roots` | `resolve`; `list_directory`, `search_files`, `read_file` | links lead elsewhere than names say, and every look at the tree is a system call of its own |
| Sandbox, `app/sandbox/` | a directory | `reset`, the tools rooted in it | a reset that stops half way, and commands that go on beside it |
| Settings, providers, calculator, CLI, short-term memory | configuration, or none | | pure functions and I/O |

How they interact:

- the controller *calls* `ModelProvider.generate`, `ToolRegistry.validate`,
  `PermissionEngine.decide` and, in a worker thread, `Tool.execute`;
- tools *call* `PermissionEngine.decide` again for themselves, with request ids of
  their own;
- `Tool.cancel` is a *callback* from the controller (when its polling loop sees the
  latch) and from the host (`trigger_emergency_stop` reads `_active_tool`);
- a memory proposal made while the model answers *raises* `MemoryApprovalRequired`
  through `run_task`; the checkpoint is kept by `MemoryManager` and the user's decision comes
  back through `resume_memory_task`;
- the permission sets, the latch, `state` and the fields of the tools are *shared
  memory*; SQLite is the only state that outlives the process.

What makes each one correct:

- task loop: one operation at most begins after the stop; a successful step is not run
  again; retry, replan and iteration limits hold, also over a suspension; a resumed
  task goes on where it was; every run ends;
- permission engine: an approval permits one call, a denial withdraws it, and what was
  permitted is on the audit trail;
- terminal tool: no process outlives its call, a cancelled command is not a success,
  every call returns;
- memory: nothing is stored without consent or with a sensitive text, no
  candidate disappears, and what was declined is not stored;
- browser, application and computer-use tools: a cancel reaches the call it was meant for; a page read is of
  one page; a verified action is the one that was performed; a window is of the application asked for;
- approvals along the path of a call: an approval serves the call the user saw, and stands for no other request;
- RAG: an indexing run that fails leaves old or new documents, never half of one, and
  the next run that returns makes up for it; no document is removed whose file is there;
  the chunks of a document cover its text;
- paths: nothing is read that is outside the roots or blocked, and nothing else is missing; sandbox: a reset deletes nothing
  outside, and when it returns nothing is left.

`PROJECT.json` lists the components with their status and the hazards with the
lines where they bite.

## 2. The modules

| Module | Models |
|---|---|
| `StopGate` | what the agent promises about the emergency stop, abstractly |
| `AgentController` | the task loop, its worker threads and the host thread |
| `AgentProperties` | its properties, its inductive invariant, its refinement of `StopGate` |
| `PermissionEngine` | `decide` by several threads, `approve_once` and `deny` by the host |
| `TerminalTool` | overlapping `execute` calls, several cancellers, the OS processes |
| `LongTermMemory` | the approval workflow over the two tables, with failures and restarts |
| `RagManager` | an indexing run: walk, chunking, transactions, removal of stale documents; deletions and changing files |
| `BrowserTool` | overlapping actions on one tool and one session, cancels at any time |
| `ComputerUseTool` | actions with their executors and timeouts, what they leave running, cancels |
| `ApplicationTool` | launch, status, focus and close by process ids that are reused, behind any decision |
| `ApprovedCalls` | the controller's calls through `PermissionEngine` to `ApplicationTool`, and the user who approves |
| `PathSecurityLayer` | `resolve` and the policy's roots over a tree with links |
| `FilesystemTools` | one call of a filesystem tool, a system call at a time |
| `SandboxManager` | `reset` beside such a call, failures and changes by others |
| `MC*` | values of the constants for TLC |
| `*Proofs` | theorems |

`AgentController` composes the loop with the emergency stop, the registry and permission
verdicts (a call is refused or permitted), the checkpoints of `MemoryManager`, and
`Future`s; `AgentProperties` instantiates `StopGate` over it. `ApprovedCalls` extends `PermissionEngine` and
instantiates `ApplicationTool`: every step of it is a step of the agent, of a worker, of the user or of Windows,
and each is a step or a stutter of both. `SandboxManager` extends `FilesystemTools`, which extends `PathSecurityLayer`.

### AgentController

One label of `pc` is the code between two accesses to something shared. The order of the
labels is the order of the code:

| Labels | Code |
|---|---|
| `loop`, `cancelCheck`, `request`, `generating`, `answered`, `respond` | one iteration of `_run_task_state`, up to the plan |
| `attempt`, `call`, `authorize`, `start`, `polling`, `waiting`, `finish`, `observe` | `_execute_plan` and `_handle_tool_call`, one attempt at one step |
| `planDone`, `observed` | the rest of the iteration: replan or go on |

`planned` is the plan that the loop walks (and that `plan_history` keeps), `current` the
copy with outcomes in `current_plan`. Steps are found by the id the model
gave them, as in the code. The conversation is the number of answered plans in it:
what the properties say of it is only which exchanges it has. `result` has one value for
each way a call can end: it returned (with or without a failure reported in the
value), it raised, it timed out, it was stopped, it was rejected or denied.

The worker is a future: `queued`, `running`, or ended. One that ended with a `TimeoutError` of the tool's own
(`timed_out`) looks to the polling loop like one still running, since the two exceptions are the same since Python 3.11. A
call given up while it runs goes on in its thread, and nobody looks at its future any more; the modules of the tools say what
comes of it. `trigger_emergency_stop` is four steps of the host, `cancel` is one. `late` and `cancelAsked` are history variables.

### PermissionEngine

`decide` is five steps (`Decide`, `CheckDenied`, `CheckApproved`, `Consume`, `Record`), because
the membership tests, `remove` and the append are separate accesses; `approve_once`
and `deny` are two each. `Consume` raises `KeyError` when the approval has gone. A
policy without an entry for a requirement is `blocked`.

### TerminalTool

Each run goes through validation, `clear`, `Popen`, publication of `_process`, the polling
loop, termination, the result, and the `finally` that sets `_process` to `None` whoever
published it. `cancel` sets the event, reads `_process` and terminates it in three
steps. A process ends by itself at any time, with or without success.

### LongTermMemory

Each transaction is one step, that commits or raises. Between them are the changes of
`_pending`. `via` says who called: the user of the manager, a task that proposes, or
`resume_memory_task`. `Restart` is the end of the process: the tables stay, everything else
is gone. `awaited` is the controller's pending candidate.

### RagManager

One run of `index` at a time, cut at every transaction and at every file: `ListDirectory` and
`SkipDirectory` are steps of `os.walk`, `ReadFile` and `SkipFile` the two ways a file goes,
`Cut` is one iteration of `_chunk`, `Store` is `upsert`'s transaction, `FindStale` and `Remove` are the
end of the run. `Abort` is everything that ends a run before that: a root that is no directory,
a failed transaction, or the end of the process; what is committed stays. A chunk is a pair of
positions, which is what coverage is about; the line-break rule and the overlap are the code's
arithmetic. `DeleteIndexedData` and `ChangeFile` come at any time, from another thread or process.
Two runs of `index` at the same time are not modelled. `touched` is a history variable: a file that
changes, cannot be read or is deleted while the run goes on may be in either state afterwards.

### BrowserTool

Each look at `_cancelled` and each access to a field of the session is a step, because there is
no lock: the labels `check`, `permit`, `recheck`, `fetch`, `write`, `look`, `last` are in the order of `execute`
and `BrowserBackend.open`. `open` writes four fields and then reads two back (`Written`); a read of the page reads
four. The actions are abstracted to three kinds, a page to where its four parts come
from. Once two opens have written together (`torn`), the session holds parts of both until a later open
writes alone: that is what the code does, and the properties are about the other
sessions. `disturbed`, `torn`, `latest`, `owed` and `caught` are history variables: `caught` are the
threads whose action a cancel is for (the one in progress while it still looks at the flag,
otherwise the next).

### ComputerUseTool

A call is at one of the looks at `_cancelled`, the two screenshots, the submission, the wait for the future, or the `finally`.
`item` is its work item: `queued`, taken by the executor's thread (`taken`, `loaded`), `done`, or `dropped` by
`cancel_futures`. The screen is the version counter of the controlled backend, whose `+= 1` is a load and a
store, since two executors may be at it. Both timeouts are the same setting, so a call of the controller is given up
about when the tool gives up itself; what matters is that the action goes on, and that is `item`.
A call is `overlapped` when it met another call or what one had left running.

### ApplicationTool and ApprovedCalls

`ApplicationTool` leaves the decision open (`Permitted`, `Refused`). `owner` says what runs as each process id; `Listed` is a
`tasklist`, `ListProcesses` keeps its first id, `WindowAction` looks for a window of whoever has the id by then.
`ProcessEnds` and `ForeignStarts` are Windows.

In `ApprovedCalls`, `Try` is `_handle_tool_call` with the id that the provider gave the call, `StartApplication` starts the worker,
`GetResult` and `GiveUp` end the wait; a worker that was given up goes on. The tool asks for itself with a fresh id, which
the model names by the run. The calculator, whose own call needs an approval, shows the other way an approval can be
used. The user is shown a refusal (its reason in the result, its id on the audit trail) and may approve or deny that id
once, at any later time. `shown`, `approvedFor` and `grantedBy` are history variables.

### PathSecurityLayer, FilesystemTools and SandboxManager

A path is the sequence of its names; `Real` follows the links on it as `Path.resolve` does, and as the system calls do that
are given the path. A blocked name blocks what is below it, a blocked ending (`*.key`) only the entry itself: that is
what the default patterns and `_is_blocked` come to. `Judge` and `Resolve` are `resolve`. Each system call of a tool on the tree is a
step: `resolve`, `is_file`, `stat`, `read_text`; one for each entry of a listing, and one for each directory of a walk.
`reset` checks and deletes each child in two steps; a deletion may fail with part of a directory gone.
`Change` replaces whatever is at a location by anything that may be there. `disturbed` says that the tree changed since the
call resolved its path, `meddled` and `moved` that others changed it, or moved the sandbox, since the reset began.

## 3. The runs

Runs that pass:

| Run | Question | Bounds |
|---|---|---|
| `agent_safety` | limits, checkpoints, progress of the plan, retries of failed steps only, the exact conversation also after a resumption, one late operation, the stop's `cancel()` meets no other call, implementation of `StopGate` | 2 tasks, plans of one and two calls, 2 iterations, 1 retry, 1 replan |
| `agent_liveness` | the stop ends a run without any deadline; where deadlines pass, every run ends | 1 task, plans of one call |
| `perm_safety` | approvals cover permits, denials win, the audit trail accounts for permits | 2 threads, 2 ids, 3 requirements, 2 approvals of an id |
| `approved_calls` | an approval serves its call; closing follows the policy; windows are the application's own; one cancel stops one operation | 2 calls in 6 answers, 3 tries, 1 retry, 1 answer of the user for an id, 2 process ids |
| `term_overlap` | no process outlives its call; a running command that is cancelled is not a success; calls return | 2 runs, 2 cancellers |
| `mem_safety` | consent, recorded approvals, no lost candidates, nothing stored that was declined | 3 candidates (one of each kind), 2 threads |
| `rag_index` | chunks cover the text, a run that returns leaves the index fresh, documents are kept while their files are there, runs end | 2 directories with a file each, 4 texts, chunks of 4 with an overlap of 3 |
| `browser_actions` | the action a cancel is for does not succeed; results and the session are of one page | 2 threads, 2 pages |
| `computer_actions` | the action a cancel is for does not succeed; a verified action is the call's own; what is left running had timed out; calls return | 2 calls |
| `sandbox_files` | only allowed files are read; reports leave out only what could not be listed; a reset stays inside and leaves nothing | 10 locations in 10 trees, 4 lists of roots, 5 queries, 1 reset, 1 change |

Why the bounds are enough: two tasks are what a suspension needs to be overtaken by another
run; two calls in a plan give a step before and a step after the one in
progress; one retry and one replan reach both sides of each limit, and a second
iteration is the first that has a conversation. Two threads and two ids show a race on
one id and its absence on another; the second approval of an id is the first that can
be confused with the one before. Two runs are a call and its retry, overlapping
or one after the other, which is what the controller produces with
`max_step_retries` at 1, and the two cancellers are the two there are (the polling loop
and the host). The three candidates cover the three outcomes of a proposal. Two directories make the walk keep
`indexed_paths` from one to the next; the four texts are an empty one, a blank one, one whose line
break ends a chunk early and one cut at its size, and an overlap of the size less one is the largest
that `Settings` allows, where `max(start + 1, end - overlap)` matters. Two threads in the browser are an
action and its retry, two pages what they can confuse, and two computer actions likewise. In `approved_calls` the two calls have one id or
two, and need an approval for themselves, for what the tool does with them, or not at all; three tries are one call twice and the
other once. The trees of `sandbox_files` have a file or a link beside a directory with a file in it, a link to the outside or
a special file, a blocked directory, and a directory outside that has entries of the same names; the sandbox itself may
turn into a link. One reset and one change are enough to put a change between any two steps of a call or of the reset; with
two roots a relative path has two candidates, and with a root inside another one the first decides what is shown. Links to links are left
out (`TargetsAssumption`).
The bounds in guards are `MaxApprovals`, `MaxResets` and `MaxChanges`; the other constants are settings of the program.
`agent_safety` uses symmetry of task ids, `perm_safety` of threads and request ids,
`mem_safety` of threads, `browser_actions` of threads and pages, `approved_calls` of tries and process ids: the specifications compare such
values for equality only. The liveness runs use none. Deadlock checking is off in `approved_calls` and `sandbox_files`, where all calls
may have been made and the user, or the bounds, have no step left, and in `approved_close` likewise; elsewhere something can always
happen: the host may latch the stop or ask for a cancellation, a decision may be asked for, an action or an
indexing run begun, and a process may restart.

The type invariants of the modules other than the sandbox's are not run but proved (section 4), which says more.

Runs that find a violation, each of a statement in the repository:

| Run | The statement | What the code does |
|---|---|---|
| `agent_cancel` | `cancel` is "before the next model or tool step" | a cancellation during an operation is overwritten by the next assignment to `state` |
| `approved_close` | "approval-gated close operations" (README, line 18) | the tool asks with a fresh id each time, so an approval of a refused close is never found |

`agent_cancel` uses the specification with fairness, so that its counterexample is not of
a system that only stopped.

The models show further differences, which have no run of their own:

- a call given up at its deadline is left running and gets no `cancel()`, also when the stop comes at that moment
  (`WaitExpires`);
- a search skips a directory that cannot be listed, and what is below it, and still succeeds, since `os.walk` is called without
  `onerror` (`WalkDirectory`, `app/filesystem/tools.py:108`); `ReportIsComplete` says that nothing else is missing;
- while a task waits for a memory decision another task may run and suspend, and takes the first one's place in
  `_suspended_task_id` (`SaveCheckpoint`): the first one's checkpoint stays, and nothing resumes it;
- when the record of an approval fails after the insert (`RecordApproved`), `approve` raises with the memory stored; rejecting the
  candidate then succeeds and the memory stays. `DeclinedIsNotStored` is about processes in which no transaction failed;
- `resume_memory_task` sets the replan count to 0 (`EnterRun`), so the limit counts replans since the
  last resumption (README of the repository, lines 39-40);
- `plan_history` keeps each plan as it was made, all its steps pending (`planned`), and only
  `current_plan` gets the outcomes (lines 37-38);
- a tool that returns a value whose own `success` is false is a success for the loop
  (`Succeeded`, the outcome `reported_failure`);
- with a repeated call id, the outcome of one step replaces the other step (`MarkObserved`);
- `decide` raises `KeyError` when the approval it has seen is gone (`Consume`), without an
  audit event;
- a denial stays with its id (`AddDenial`; only an approval of the id takes it back) and meets later, different
  requests with the id, also ones that are safe by policy; a model may number its calls from 0 in every answer;
- a command that is cancelled while it runs may end with success when a retry's `Clear` erases the
  cancel first; therefore `CaughtCommandDoesNotSucceed` excludes overlapping calls;
- a document whose file cannot be read, or is too large by now, is removed as stale (`SkipFile`, `FindStale`);
- a cancel of the browser that arrives while no action can be stopped any more cancels the next one (`owed`), which
  its docstring names;
- the browser's and the computer's second look at the flag (`RecheckCancelled`, `LookCancelled`) leaves it up, so that one
  cancel stops the action and the next one too; the application tool has one look, which resets it, and there
  `OneCancelOneRun` holds;
- an approval that the controller's request used up says nothing to a tool that asks for itself, so a tool whose own request
  needs approval is refused even after the user approved (`ToolAsks`, the finding above);
- calls of different answers may have the same id, since the Ollama adapter numbers the calls of each answer from 0
  (`CallId`): an approval given for one may let the other run, and `ApprovalIsForItsCall` is about calls whose id is their own;
- focusing and closing use an id of a listing (`ListProcesses`, `WindowAction`): when the process has ended, the window of
  another program that got its id may be asked to close. `OwnWindowOnly` says when it cannot happen;
- two computer actions that overlap share the screen: either may verify the other's effect, or lose its own
  count (`StoreVersion`), and then reports `verification_failed`; `VerifiedIsItsOwn` is about the others;
- a child of the sandbox that is a link to the outside makes every `reset` raise (`CheckChild`), before or after others have
  been deleted; someone has to remove it by hand;
- when the sandbox directory, or a directory above it, is replaced by a link, `reset` acts on what the link leads to, since its
  check is against the resolved root (`Reset`, `moved`); when that is above the sandbox, it makes the directory again that it has
  just deleted (`Route`);
- a special file (a socket, a pipe) is neither a link nor a file nor a directory to `reset`, and stays without a word (`Doomed`);
- the default pattern `**/*.key` and its like block an entry of that name, not what is below a directory of that name,
  which can be read by its path, but is not found by a search from above (`Blocked`, `Prune`);
- a relative path is looked for in the first root that contains it, even if it does not exist there but in the next one (`Resolve`);
- when a root lies in another one that comes first, the outer one judges all absolute paths, so that a listing or a search of the inner
  root leaves out what the rules of the outer one block (`RootOf`, `Shown`);
- one entry that vanishes between `resolve` and `stat` fails the whole listing or search (`StatEntry`);
- a file that links lead to is counted once for each of them in `match_count`, under the same name (`Report`);
- a `TerminalTool.cancel` that comes before `Clear` is lost, and one that reads `_process`
  after a `Clear` and a `Publish` kills a process whose call then reports `command_failed`;
- a rejection that cannot be recorded has already popped its candidate (`Reject`), and the
  suspended task waits for it from then on.

### Fairness

- `AgentController`: weak fairness of the agent thread's steps together (it is a thread, and providers have timeouts, so a
  model request ends). That is all `StopEndsRun` has (`AgentSpec`): the polling loop sees the latch however far the deadline is.
  `RunTerminates` needs deadlines that pass and has that as its hypothesis (`DeadlinePasses`): strong fairness of
  `WaitExpires`, because the wait is left and entered again by the polling loop while a clock runs to its
  deadline. Nothing is assumed of tools, workers or the host.
- `TerminalTool`: weak fairness of a run that has started, strong fairness of
  `SeeDeadline`, for the same reason. Nothing is assumed of processes or of cancellers.
- `ComputerUseTool`: weak fairness of a call that has started, whose timeout passes; nothing is assumed of the thread of its
  executor, that is, of the action.
- `RagManager`: weak fairness of `IndexStep`: a run that has begun goes on. It need not
  succeed: `Abort` may come at any time, and files may change for ever.
- `PermissionEngine`, `ApprovedCalls`, `LongTermMemory`, `BrowserTool` and `SandboxManager` are checked for safety only; they assume none. That a
  browser action ends cannot be assumed: `urlopen`'s timeout is for each operation on the socket, so a server
  that sends slowly can hold `fetch` for long.

## 4. The theorems

All are proved for every value of the constants, under the `ASSUME`s of the modules (limits are
naturals, plans are non-empty sequences of calls, `None` is no other value, the policy maps
requirements to levels, the set of threads is finite, the overlap is smaller than the chunk size, no name in a resolved path is
`..`, and no link is on the way to what a link points to).

- `AgentControllerProofs`: `InvInvariant` proves `Inv`, the conjunction of the type
  invariant, the limits, the conversation, the checkpoints and the active tool, with what makes it
  inductive: the step in progress is in the plan, its counters are zero outside of it, an attempt is
  left where one begins, a run has a task and fresh tasks have no checkpoint. `TypeCorrect`, `LimitsAreRespected`,
  `ConversationIsExact`, `PendingIsResumable` and `ActiveToolIsKnown` follow. `HookMeetsNoOther` follows
  from one more fact, `HookOK`: while the host holds a tool to cancel, the latch is closed and the agent has no permit left to
  begin a call. `GateIsSafe` is about `StopGate` alone, inductive because a late operation has spent
  the only permit; `ImplementsGate` maps every step of the loop to a step of it or a
  stutter, and `AtMostOneLateStartInvariant` is then the theorem of the gate, through the refinement.
  `PlanProgressIsExact` and `SucceededStepsStay` need the additional assumption `DistinctPlanIds` (no answer of the model repeats
  an id): without it two steps share their outcome, and the first is false.
- `ApprovedCallsProofs` begins with the engine alone: `Inv` says the two sets are disjoint and permits plus outstanding
  approvals do not exceed approvals. `DenialWins` is an action property from it;
  `AuditIsComplete` adds that the threads about to record account for the difference, by cardinalities.
  Then `ImplementsEngine` and `ImplementsApplicationTool` show that the composition adds callers and decisions and nothing
  else, so that all theorems about the engine hold of it; the second one needs that a tool which is not asking has no decision open
  (`CallsInv`). `ApprovalIsForItsCallInvariant` follows from: what the user was shown for an id is a call with that id.
  `CloseFollowsPolicyInvariant` from: the id of a tool's own request is approved only after that request was refused,
  and no other request has it. `OwnWindowInvariant` from: the process listed first is the application's until it ends.
  `OneCancelOneRunHolds` from: when a run has been cancelled since the last cancel, no other one that overlaps nothing has
  seen the flag. `CallsTypeCorrect` puts the types together.
- `ComputerUseToolProofs`: `CaughtAlwaysFails` from `CancelInv`, as for the browser; `VerifiedAlwaysOwn` and `LeftoverAlwaysTimedOut` from
  `ScreenInv`: an active call that met no other is the only one, its item follows it, and the screen is what its first screenshot
  showed until its action is done, and one further after that.
- `TerminalToolProofs`: `NoCommandIsLeftRunning` and `CaughtNeverSucceeds`, for any number of
  runs and cancellers. The second one needs `LoneIsAlone` (a call that has overlapped no
  other is the only one in progress) and `CaughtIsRemembered` (after `clear`, such a call that was
  caught finds the event set until it ends).
- `LongTermMemoryProofs`: `StoredOnlyByConsent` and `ApprovalFollowsStorage`,
  from `CallsAreFit`: a thread about to insert has a fit candidate, one about to record has inserted it. `NoCandidateIsEverLost` and
  `DeclinedStaysOut` from `CalmInv`: while no transaction has failed, each candidate is pending, on record or in the hands of the
  thread that decides it.
- `RagManagerProofs`: `DocumentsAreWhole` from `WholeInv`: the chunks cut so far cover the text up to `start`, which
  needs that a chunk reaches past `start` (`EndBounds`) and that the next one begins no later
  than this one ends (`NextStartBounds`). `IndexIsFresh` and `DocumentsAreKept` from `FreshInv`: what is in `indexed_paths` is
  fresh, every other file is still to come, and after the walk only documents without a file are stale.
- `BrowserToolProofs`: `CaughtAlwaysFails` from `CancelInv`: the action a cancel is for finds the flag up as long
  as it looks at it again. `SessionIsOfOnePage` from `SessionInv`: the one open that writes has written
  what it has not left. `ResultsAreOfOnePage` adds `ResultParts`: an action that is alone has seen
  the last page in all fields it has not left to read.

- `SandboxProofs`: what a path leads to is defined by recursion, and the theorems are about paths of any length. The induction they need is
  done by hand (`NatInd`, `PathInd`: a set of naturals, or of paths, that has the first and is closed under the next has all of them), since
  the library's is stated with an operator. From it: following a path ends where no link is on the way, and such a path leads to
  itself (`RealIsClean`, `CleanIsReal`); what is below a directory is in one of its children (`ChildTowards`).
  `SandboxIsInOrder` proves `BaseInv`: the tree keeps its shape and its links their targets, a reset's children are entries of its root, and while
  the sandbox was not moved the root is the sandbox, with no link above. `ResetStaysInsideInvariant` follows, since what is deleted is below the
  child's own location and not where it leads. `ResetLeavesNothingHolds` adds `LeftOK`: while nobody meddles, each child of the root
  is gone, a special file, or still to be checked or deleted.
  `ResolveIsAlwaysExact` says what `resolve` promises, of any path and not only the queries of a run.
  `ToolsAreInOrder` proves `ToolsInv`, and with it `SandboxTypeCorrect`. `ReadIsAllowedInvariant` follows from `ReadOK`: as long as the tree
  has not changed, the path found is allowed and without links, so the file that is opened is the file that was judged.
  `ReportIsCompleteHolds` needs `ReportOK`: a listing has reported, or is about to look at, everything there is to list; in a search every
  directory to walk is open (not a link, not blocked, nor is any above it up to the start) or a link that the walk will skip, and every file
  to find has been reported, is an entry still to look at, or is below a directory still to walk or one that could not be listed (`unlisted`).

What the proofs changed in the models, each a state or a constant that the runs did not have:

- roots inside one another: `ReportIsComplete` said "what some root allows", but the first root that holds an entry judges it
  (`Shown`). `sandbox_files` now has such a list of roots;
- a link above the sandbox moves it as one in its place does (`Change`), and `mkdir(parents=True)` at the end of a reset makes what is missing on
  the way (`EndReset`, `Above`, `Route`);
- a link whose target lies below the link itself leads round in a loop; `TargetsAssumption` excluded only other loops;
- while links are changed by others a search can meet more matches than there are locations, so the bound of `match_count` in the type
  invariant is the limit's.

Only model-checked: the liveness properties (`StopEndsRun`, `RunTerminates`, `CallsReturn` of the terminal and the computer-use tool, and
`IndexReturns`), which the prover does not reach. `ApprovedCloseIsNotRefused` and `CancelPreventsNextOperation` are false.

## 5. Not modelled, and why

- The texts of prompts, plans and memories, redaction, formatting: no property is about them.
- What tools compute; HTTP, HTML, OCR and the desktop: input and output. `app/computer` has no backend but the controlled one. Embeddings, fingerprints and
  scores of the index: `retrieve` only reads, and its answer depends on no order of steps.
- Which strings `LIKE` matches in `delete_under` (`_` and `%` of the path are wildcards): `Deletions`
  leaves the matched set open.
- In modelled parts: the content of audit events other than approvals, the search functions of memory (they change nothing).
- `cancel()` of a tool changes nothing in `AgentController`; it is modelled step by step in the modules of the tools, and so is what a call
  does that a timeout or the stop has left behind.
- `ResumeMemoryTask` is one step: the check of the stop, the decision on the candidate (whose transactions are in
  `LongTermMemory`), `resume_task` and the entry into the run.
- `PermissionPolicy.default_level` may be configured; `LevelFor` has its default, `blocked`.
- `TerminalTool`: an `OSError` of `terminate`, a reader thread that cannot be started, and a process that outlasts `kill` end the call
  with the process running (`app/terminal/tool.py:99-122`, `148-156`). `NoCommandOutlivesItsCall` is about calls without them.
- `BrowserTool`: `http.client.HTTPException` and `InvalidURL` are no `OSError`, so `open` raises them past the last look at the flag
  (`app/browser/backend.py:84-93`) and the call fails in the controller; `ReceiveNothing` always goes through the look.
- `RagManager`: the key of a document is its resolved path, so that a link, or directories within one another, lead two entries of a walk to one
  document; in the model they are two paths.
- `PathSecurityLayer`: `resolve` is one step, although it resolves an absolute path twice and then asks whether it exists: a change between these system
  calls is left out. That the system refuses one of them is `SystemCallFails` for the path asked for and for an `OSError` that
  leaves the tool; an entry whose second resolution alone fails (`resolve_failed`, lines 57-60) is skipped by the code, and that is left out.
- `SandboxManager.DeleteChild` is one step: what kind of child it is, and its deletion. A change comes between the check of a
  child and this step, but not into `rmtree`'s own walk.
- Of `Settings`, all but the roots of `SecurityPolicy`: the range checks are the assumptions on constants. (They let a
  NaN timeout pass, since every comparison with it is false; times are not modelled.)
- The calculator, the providers' parsing, the CLI: sequential code, for unit tests.
- Path strings: null bytes, empty paths and letter case are refused or folded before the tree is looked at. Links to
  links, and what `fnmatch` does with patterns other than `*` and a name.
- The terminal of the sandbox: it is `TerminalTool` in another directory; what its commands do to the tree is `Change`.

## 6. Plan

Done: all modules of section 2, and the theorems of section 4. Left, in order of what it would add:

1. `RagManager` extended by two overlapping runs of `index` and a `retrieve` that reads between their transactions.
2. `BrowserTool` and `ComputerUseTool` behind the permission engine in the way of `ApprovedCalls`.
3. `OllamaProvider._parse_response` and the rest of `Settings` as operators over bounded inputs.
