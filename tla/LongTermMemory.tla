--------------------------- MODULE LongTermMemory ---------------------------
(***************************************************************************)
(* The approval workflow of app/memory: LongTermMemory (long_term.py) over *)
(* MemoryStorage (storage.py), and the decision that AgentController waits *)
(* for.  Every storage operation is one SQLite transaction of its own; the *)
(* code between two of them, or between one of them and the pending table, *)
(* is where an exception, another thread or the end of the process bites.  *)
(***************************************************************************)
EXTENDS Naturals

CONSTANTS
    Candidates,     \* candidate ids, each proposed once (uuid4)
    Contents,       \* texts of memories
    Content,        \* the text of each candidate
    Sensitive,      \* the texts that MemoryPolicy.assess refuses
    Explicit,       \* candidates that can_persist_without_approval
    Callers,        \* the threads that use the memory
    None            \* Python's None

ASSUME CandidatesAssumption ==
    /\ Content \in [Candidates -> Contents]
    /\ Sensitive \subseteq Contents
    /\ Explicit \subseteq Candidates

ASSUME NoneAssumption == None \notin Candidates /\ None \notin Contents

VARIABLES
    memories,       \* the table memories: the text stored for a candidate
    decisions,      \* the table memory_decisions
    pending,        \* LongTermMemory._pending
    awaited,        \* the controller's _pending_memory_candidate
    proposed        \* candidates that exist

VARIABLES
    pc,             \* where each thread is
    subject,        \* the candidate it works on
    via             \* what called: the manager's user, the task, or its resumption

VARIABLES
    consented,      \* history: candidates that a user approved
    declined,       \* history: candidates whose rejection was reported as done
    inserted,       \* history: candidates that were stored
    contested,      \* history: candidates rejected while another thread was at them
    disturbed       \* history: a transaction failed or the process ended

tableVars == <<memories, decisions>>
callVars == <<pc, subject, via>>
historyVars == <<consented, declined, inserted, contested, disturbed>>
vars == <<tableVars, pending, awaited, proposed, callVars, historyVars>>

Labels == {"idle", "insert", "recordApproved", "forget", "recordRejected", "suspend", "resumed"}

TablesTypeOK ==
    /\ memories \in [Candidates -> Contents \cup {None}]
    /\ decisions \subseteq Candidates \X {"approved", "rejected"}
    /\ pending \subseteq Candidates
    /\ awaited \in Candidates \cup {None}
    /\ proposed \subseteq Candidates
    /\ pc \in [Callers -> Labels]
    /\ subject \in [Callers -> Candidates \cup {None}]
    /\ via \in [Callers -> {"manager", "task", "resume"}]
    /\ consented \subseteq Candidates
    /\ declined \subseteq Candidates
    /\ inserted \subseteq Candidates
    /\ contested \subseteq Candidates

TypeOK == TablesTypeOK /\ disturbed \in BOOLEAN

Init ==
    /\ memories = [c \in Candidates |-> None] /\ decisions = {}
    /\ pending = {} /\ awaited = None /\ proposed = {}
    /\ pc = [t \in Callers |-> "idle"]
    /\ subject = [t \in Callers |-> None]
    /\ via = [t \in Callers |-> "manager"]
    /\ consented = {} /\ declined = {} /\ inserted = {} /\ contested = {}
    /\ disturbed = FALSE

-----------------------------------------------------------------------------
(* Calls *)

Goto(t, label) == pc' = [pc EXCEPT ![t] = label]

Enter(t, c, caller, label) ==
    /\ pc[t] = "idle"
    /\ Goto(t, label)
    /\ subject' = [subject EXCEPT ![t] = c]
    /\ via' = [via EXCEPT ![t] = caller]

\* The thread's call returns or raises.
Leave(t) ==
    /\ Goto(t, "idle")
    /\ subject' = [subject EXCEPT ![t] = None]
    /\ via' = [via EXCEPT ![t] = "manager"]

\* A decision was carried out; a resumption goes on with the task.
Decided(t) ==
    IF via[t] = "resume"
    THEN Goto(t, "resumed") /\ UNCHANGED <<subject, via>>
    ELSE Leave(t)

\* A transaction raises (database locked, disk full, a constraint): it is rolled
\* back, and nothing of what the thread did before it.
Raise(t) ==
    /\ Leave(t)
    /\ disturbed' = TRUE
    /\ UNCHANGED <<tableVars, pending, awaited, proposed, consented, declined, inserted,
                   contested>>

-----------------------------------------------------------------------------
(* propose, and the suspension of the task that proposed *)

Sensible(c) == Content[c] \notin Sensitive

Propose(t) ==
    /\ \E c \in Candidates \ proposed, caller \in {"manager", "task"} :
        /\ proposed' = proposed \cup {c}
        /\ \/ ~Sensible(c) /\ Enter(t, c, caller, "recordRejected") /\ UNCHANGED pending
           \/ /\ Sensible(c) /\ c \in Explicit
              /\ Enter(t, c, caller, "insert")
              /\ UNCHANGED pending
           \/ /\ Sensible(c) /\ c \notin Explicit
              /\ pending' = pending \cup {c}
              /\ IF caller = "task"
                 THEN Enter(t, c, caller, "suspend")
                 ELSE pc[t] = "idle" /\ UNCHANGED callVars
    /\ UNCHANGED <<tableVars, awaited, historyVars>>

\* propose_memory_for_current_task
Suspend(t) ==
    /\ pc[t] = "suspend"
    /\ awaited' = subject[t]
    /\ Leave(t)
    /\ UNCHANGED <<tableVars, pending, proposed, historyVars>>

-----------------------------------------------------------------------------
(* approve *)

\* What a user's decision is about: any candidate, or the one the task waits for.
Asked(caller) == IF caller = "resume" THEN {awaited} \ {None} ELSE Candidates

\* Mutant: the decision is recorded first, and the memory never stored.
ApproveUnstored(t) ==
    /\ \E caller \in {"manager", "resume"} : \E c \in Asked(caller) \cap pending :
        /\ Sensible(c)
        /\ Enter(t, c, caller, "recordApproved")
        /\ consented' = consented \cup {c}
    /\ UNCHANGED <<tableVars, pending, awaited, proposed, declined, inserted,
                   contested, disturbed>>

\* An unknown candidate is a KeyError, which changes nothing.
Approve(t) ==
    /\ \E caller \in {"manager", "resume"} : \E c \in Asked(caller) \cap pending :
        /\ Sensible(c)
        /\ Enter(t, c, caller, "insert")
        /\ consented' = consented \cup {c}
    /\ UNCHANGED <<tableVars, pending, awaited, proposed, declined, inserted,
                   contested, disturbed>>

\* memory_id is the primary key: a second row for it is an IntegrityError.
Insert(t) ==
    /\ pc[t] = "insert"
    /\ \/ /\ memories[subject[t]] = None
          /\ memories' = [memories EXCEPT ![subject[t]] = Content[subject[t]]]
          /\ inserted' = inserted \cup {subject[t]}
          /\ Goto(t, "recordApproved")
          /\ UNCHANGED <<decisions, pending, awaited, proposed, subject, via, consented,
                         declined, contested, disturbed>>
       \/ Raise(t)

RecordApproved(t) ==
    /\ pc[t] = "recordApproved"
    /\ \/ /\ decisions' = decisions \cup {<<subject[t], "approved">>}
          /\ Goto(t, "forget")
          /\ UNCHANGED <<memories, pending, awaited, proposed, subject, via, historyVars>>
       \/ Raise(t)

\* Mutant: the candidate stays pending.
ForgetNothing(t) ==
    /\ pc[t] = "forget"
    /\ Decided(t)
    /\ UNCHANGED <<tableVars, pending, awaited, proposed, historyVars>>

Forget(t) ==
    /\ pc[t] = "forget"
    /\ pending' = pending \ {subject[t]}
    /\ Decided(t)
    /\ UNCHANGED <<tableVars, awaited, proposed, historyVars>>

-----------------------------------------------------------------------------
(* reject *)

\* Some thread is at it.
InCall(c) == \E t \in Callers : pc[t] # "idle" /\ subject[t] = c

\* The candidate is popped before its decision is recorded.
Reject(t) ==
    /\ \E caller \in {"manager", "resume"} : \E c \in Asked(caller) \cap pending :
        /\ pending' = pending \ {c}
        /\ Enter(t, c, caller, "recordRejected")
        /\ contested' = IF InCall(c) THEN contested \cup {c} ELSE contested
    /\ UNCHANGED <<tableVars, awaited, proposed, consented, declined, inserted, disturbed>>

\* Mutant: the rejection is returned and not recorded.
RecordNoRejection(t) ==
    /\ pc[t] = "recordRejected"
    /\ declined' = declined \cup {subject[t]}
    /\ Decided(t)
    /\ UNCHANGED <<tableVars, pending, awaited, proposed, consented, inserted, contested,
                   disturbed>>

RecordRejected(t) ==
    /\ pc[t] = "recordRejected"
    /\ \/ /\ decisions' = decisions \cup {<<subject[t], "rejected">>}
          /\ declined' = declined \cup {subject[t]}
          /\ Decided(t)
          /\ UNCHANGED <<memories, pending, awaited, proposed, consented, inserted, contested,
                   disturbed>>
       \/ Raise(t)

\* resume_memory_task continues with the checkpoint: the task waits no longer.
Resumed(t) ==
    /\ pc[t] = "resumed"
    /\ awaited' = None
    /\ Leave(t)
    /\ UNCHANGED <<tableVars, pending, proposed, historyVars>>

-----------------------------------------------------------------------------
(* update and delete; the end of the process *)

\* Mutant: the new text is not assessed.
MayStoreAnything(text) == text \in Contents

MayStore(text) == text \notin Sensitive

\* Only a row that is there is updated.
Update(t) ==
    /\ pc[t] = "idle"
    /\ \E c \in Candidates, text \in Contents :
        /\ MayStore(text)
        /\ memories[c] # None
        /\ memories' = [memories EXCEPT ![c] = text]
    /\ UNCHANGED <<decisions, pending, awaited, proposed, callVars, historyVars>>

Delete(t) ==
    /\ pc[t] = "idle"
    /\ \E c \in Candidates : memories' = [memories EXCEPT ![c] = None]
    /\ UNCHANGED <<decisions, pending, awaited, proposed, callVars, historyVars>>

\* Only the database survives.
Restart ==
    /\ pending' = {} /\ awaited' = None
    /\ pc' = [t \in Callers |-> "idle"]
    /\ subject' = [t \in Callers |-> None]
    /\ via' = [t \in Callers |-> "manager"]
    /\ disturbed' = TRUE
    /\ UNCHANGED <<tableVars, proposed, consented, declined, inserted,
                   contested>>

-----------------------------------------------------------------------------
CallerStep(t) ==
    \/ Propose(t) \/ Suspend(t)
    \/ Approve(t) \/ Insert(t) \/ RecordApproved(t) \/ Forget(t)
    \/ Reject(t) \/ RecordRejected(t) \/ Resumed(t)
    \/ Update(t) \/ Delete(t)

Next == (\E t \in Callers : CallerStep(t)) \/ Restart

Spec == Init /\ [][Next]_vars

-----------------------------------------------------------------------------
(* Properties *)

IsDecided(c) == \E d \in {"approved", "rejected"} : <<c, d>> \in decisions

\* memory/README: "Sensitive candidates are rejected" and other candidates
\* "remain pending until the host obtains user approval", unless they are explicit.
\* Nothing gets into the database in any other way: no crash, race, retry or
\* update of a stored memory puts a sensitive text or an unapproved candidate there.
StoredByConsent ==
    \A c \in Candidates : memories[c] # None =>
        memories[c] \notin Sensitive /\ c \in Explicit \cup consented

\* The decision follows the memory: after a crash at any point the table of
\* decisions names no approved candidate that never was stored.
ApprovedWasStored ==
    \A c \in Candidates : <<c, "approved">> \in decisions => c \in inserted

\* No candidate gets lost while the process runs and the database works: it is
\* pending, some thread is at it, or its decision is on record.
NoCandidateIsLost ==
    ~disturbed => \A c \in proposed : c \in pending \/ InCall(c) \/ IsDecided(c)

\* A candidate whose rejection was reported is not in the database, and does not
\* get there later: as long as no transaction failed, and no other thread was
\* approving it at the same time.
DeclinedIsNotStored == ~disturbed => \A c \in declined \ contested : memories[c] = None

\* Needed for StoredByConsent and ApprovedWasStored: what a thread stores or records as approved is fit
\* to be stored, and it records what it has stored.
CallsAreFit ==
    \A t \in Callers :
        /\ pc[t] # "idle" => subject[t] \in Candidates
        /\ pc[t] = "insert" => Sensible(subject[t]) /\ subject[t] \in Explicit \cup consented
        /\ pc[t] = "recordApproved" => subject[t] \in inserted

\* The inductive invariant.
Inv == TypeOK /\ CallsAreFit /\ StoredByConsent /\ ApprovedWasStored
=============================================================================
