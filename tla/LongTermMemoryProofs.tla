------------------------- MODULE LongTermMemoryProofs -------------------------
(***************************************************************************)
(* Theorems about LongTermMemory, for any candidates, texts and threads.   *)
(***************************************************************************)
EXTENDS LongTermMemory, TLAPS

USE DEF tableVars, callVars, historyVars

\* The invariant without the Boolean variable.
FitInv == TablesTypeOK /\ CallsAreFit /\ StoredByConsent /\ ApprovedWasStored

LEMMA InvIsFit == Inv <=> FitInv /\ disturbed \in BOOLEAN
BY Zenon DEF Inv, TypeOK, FitInv

LEMMA InitInv == Init => Inv
<1> SUFFICES ASSUME Init
             PROVE  Inv
    OBVIOUS
<1>1. disturbed \in BOOLEAN
    BY Zenon DEF Init
<1>2. FitInv
    BY DEF Init, FitInv, TablesTypeOK, Labels, CallsAreFit, StoredByConsent, ApprovedWasStored
<1> QED BY <1>1, <1>2, InvIsFit

LEMMA DisturbedType == Inv /\ [Next]_vars => disturbed' \in BOOLEAN
<1> SUFFICES ASSUME disturbed \in BOOLEAN, [Next]_vars
             PROVE  disturbed' \in BOOLEAN
    BY DEF Inv, TypeOK
<1>1. UNCHANGED disturbed \/ disturbed' = TRUE
    BY DEF Next, vars, CallerStep, Propose, Suspend, Approve, Insert, RecordApproved, Forget,
        Reject, RecordRejected, Resumed, Update, Delete, Restart, Raise
<1> QED BY <1>1, Zenon

\* Leaving a call, by returning or raising, disturbs nothing.
LEMMA RaiseInv ==
    ASSUME FitInv, NEW t \in Callers, Raise(t)
    PROVE  FitInv'
BY DEF FitInv, TablesTypeOK, Labels, CallsAreFit, StoredByConsent, ApprovedWasStored, Raise,
    Leave, Goto

LEMMA ProposeInv ==
    ASSUME FitInv, NEW t \in Callers, Propose(t) \/ Suspend(t)
    PROVE  FitInv'
<1> USE DEF FitInv, TablesTypeOK, Labels, CallsAreFit, StoredByConsent, ApprovedWasStored, Enter,
        Leave, Goto
<1>1. CASE Propose(t)
    <2>1. TablesTypeOK'
        BY <1>1 DEF Propose
    <2>2. CallsAreFit'
        BY <1>1 DEF Propose, Sensible
    <2>3. StoredByConsent' /\ ApprovedWasStored'
        BY <1>1 DEF Propose
    <2> QED BY <2>1, <2>2, <2>3
<1>2. CASE Suspend(t)
    BY <1>2 DEF Suspend
<1> QED BY <1>1, <1>2

LEMMA ApproveInv ==
    ASSUME FitInv, NEW t \in Callers, Approve(t) \/ Reject(t)
    PROVE  FitInv'
<1> USE DEF FitInv, TablesTypeOK, Labels, CallsAreFit, StoredByConsent, ApprovedWasStored, Enter,
        Goto, Asked, Sensible
<1>1. CASE Approve(t)
    BY <1>1 DEF Approve
<1>2. CASE Reject(t)
    BY <1>2 DEF Reject
<1> QED BY <1>1, <1>2

LEMMA InsertInv ==
    ASSUME FitInv, NEW t \in Callers, Insert(t)
    PROVE  FitInv'
<1>1. CASE Raise(t)
    BY <1>1, RaiseInv
<1>2. CASE ~Raise(t)
    <2>0. PICK c \in Candidates : c = subject[t]
        BY DEF FitInv, CallsAreFit, Insert
    <2>1. /\ memories' = [memories EXCEPT ![c] = Content[c]]
          /\ inserted' = inserted \cup {c}
          /\ pc' = [pc EXCEPT ![t] = "recordApproved"]
          /\ UNCHANGED <<decisions, pending, awaited, proposed, subject, via, consented, declined,
                         contested>>
        BY <1>2, <2>0 DEF Insert, Goto
    <2>2. Sensible(c) /\ c \in Explicit \cup consented
        BY <2>0 DEF FitInv, CallsAreFit, Insert
    <2>3. Content[c] \in Contents
        BY CandidatesAssumption
    <2>4. TablesTypeOK'
        BY <2>1, <2>3 DEF FitInv, TablesTypeOK, Labels
    <2>5. CallsAreFit' /\ ApprovedWasStored'
        BY <2>0, <2>1 DEF FitInv, TablesTypeOK, CallsAreFit, ApprovedWasStored, Sensible
    <2>6. StoredByConsent'
        BY <2>1, <2>2 DEF FitInv, TablesTypeOK, StoredByConsent, Sensible
    <2> QED BY <2>4, <2>5, <2>6 DEF FitInv
<1> QED BY <1>1, <1>2

LEMMA RecordInv ==
    ASSUME FitInv, NEW t \in Callers,
           RecordApproved(t) \/ RecordRejected(t) \/ Forget(t) \/ Resumed(t)
    PROVE  FitInv'
<1> USE DEF FitInv, TablesTypeOK, Labels, CallsAreFit, StoredByConsent, ApprovedWasStored, Leave,
        Goto, Decided, Sensible
<1>1. CASE Raise(t)
    BY <1>1, RaiseInv
<1>2. CASE RecordApproved(t) /\ ~Raise(t)
    BY <1>2 DEF RecordApproved
<1>3. CASE RecordRejected(t) /\ ~Raise(t)
    BY <1>3 DEF RecordRejected
<1>4. CASE Forget(t)
    BY <1>4 DEF Forget
<1>5. CASE Resumed(t)
    BY <1>5 DEF Resumed
<1> QED BY <1>1, <1>2, <1>3, <1>4, <1>5

LEMMA UpdateInv ==
    ASSUME FitInv, NEW t \in Callers, Update(t) \/ Delete(t)
    PROVE  FitInv'
<1>1. CallsAreFit' /\ ApprovedWasStored'
    BY DEF Update, Delete, FitInv, CallsAreFit, ApprovedWasStored, Sensible
<1>2. CASE Update(t)
    <2>1. PICK c \in Candidates, text \in Contents :
            /\ text \notin Sensitive
            /\ memories[c] # None
            /\ memories' = [memories EXCEPT ![c] = text]
        BY <1>2 DEF Update, MayStore
    <2>2. UNCHANGED <<decisions, pending, awaited, proposed, pc, subject, via, consented,
                      declined, inserted, contested>>
        BY <1>2 DEF Update
    <2>3. TablesTypeOK'
        BY <2>1, <2>2 DEF FitInv, TablesTypeOK
    <2>4. StoredByConsent'
        BY <2>1, <2>2 DEF FitInv, TablesTypeOK, StoredByConsent
    <2> QED BY <1>1, <2>3, <2>4 DEF FitInv
<1>3. CASE Delete(t)
    <2>1. PICK c \in Candidates : memories' = [memories EXCEPT ![c] = None]
        BY <1>3 DEF Delete
    <2>2. UNCHANGED <<decisions, pending, awaited, proposed, pc, subject, via, consented,
                      declined, inserted, contested>>
        BY <1>3 DEF Delete
    <2>3. TablesTypeOK'
        BY <2>1, <2>2 DEF FitInv, TablesTypeOK
    <2>4. StoredByConsent'
        BY <2>1, <2>2 DEF FitInv, TablesTypeOK, StoredByConsent
    <2> QED BY <1>1, <2>3, <2>4 DEF FitInv
<1> QED BY <1>2, <1>3

LEMMA RestartInv ==
    ASSUME FitInv, Restart
    PROVE  FitInv'
BY DEF FitInv, TablesTypeOK, Labels, CallsAreFit, StoredByConsent, ApprovedWasStored, Restart

LEMMA StepInv == Inv /\ [Next]_vars => Inv'
<1> SUFFICES ASSUME Inv, [Next]_vars
             PROVE  Inv'
    OBVIOUS
<1>1. FitInv /\ disturbed' \in BOOLEAN
    BY DisturbedType, InvIsFit
<1>2. CASE UNCHANGED vars
    <2>1. FitInv'
        BY <1>1, <1>2 DEF vars, FitInv, TablesTypeOK, CallsAreFit, StoredByConsent,
            ApprovedWasStored
    <2> QED BY <1>1, <2>1, Zenon DEF Inv, TypeOK, FitInv
<1>3. CASE Next
    <2>1. FitInv'
        BY <1>1, <1>3, ProposeInv, ApproveInv, InsertInv, RecordInv, UpdateInv, RestartInv
           DEF Next, CallerStep
    <2> QED BY <1>1, <2>1, Zenon DEF Inv, TypeOK, FitInv
<1> QED BY <1>2, <1>3

\* The inductive invariant holds of every run, over any number of restarts.
THEOREM InvInvariant == Spec => []Inv
BY InitInv, StepInv, PTL DEF Spec

\* The tables, the pending candidates and the threads' locals keep their types.
THEOREM TypeCorrect == Spec => []TypeOK
<1>1. Inv => TypeOK BY DEF Inv
<1> QED BY <1>1, InvInvariant, PTL

\* Whatever fails, and whoever races, no sensitive text and no candidate without
\* the user's consent is in the database.
THEOREM StoredOnlyByConsent == Spec => []StoredByConsent
<1>1. Inv => StoredByConsent BY DEF Inv
<1> QED BY <1>1, InvInvariant, PTL

\* No crash leaves a recorded approval of a candidate that was never stored.
THEOREM ApprovalFollowsStorage == Spec => []ApprovedWasStored
<1>1. Inv => ApprovedWasStored BY DEF Inv
<1> QED BY <1>1, InvInvariant, PTL

-----------------------------------------------------------------------------
(* Candidates while nothing is disturbed *)

\* What is known of a candidate was proposed.
KnownIsProposed ==
    /\ pending \subseteq proposed /\ declined \subseteq proposed
    /\ \A t \in Callers : pc[t] # "idle" => subject[t] \in proposed
    /\ \A c \in Candidates : memories[c] # None => c \in proposed

\* A decision is on its way to the table.
AtWork(c) ==
    \E t \in Callers : pc[t] \in {"insert", "recordApproved", "recordRejected"} /\ subject[t] = c

Undecided ==
    /\ \A c \in proposed : c \in pending \/ IsDecided(c) \/ AtWork(c)
    /\ \A t \in Callers : pc[t] = "forget" => IsDecided(subject[t])

\* A pending candidate that is stored already is about to be forgotten.
PendingStored ==
    \A c \in pending : memories[c] # None =>
        \E t \in Callers : pc[t] \in {"recordApproved", "forget"} /\ subject[t] = c

Rejecting(c) == c \in declined \/ \E t \in Callers : pc[t] = "recordRejected" /\ subject[t] = c

RejectedStaysOut ==
    \A c \in Candidates \ contested : Rejecting(c) =>
        /\ c \notin pending /\ memories[c] = None
        /\ \A t \in Callers : pc[t] = "insert" => subject[t] # c

Calm == Undecided /\ PendingStored /\ RejectedStaysOut

\* Steps at which no transaction fails.
QuietStep(t) == CallerStep(t) /\ ~Raise(t)

LEMMA ProposedStep ==
    ASSUME FitInv, KnownIsProposed, NEW t \in Callers, CallerStep(t)
    PROVE  KnownIsProposed'
<1> USE DEF KnownIsProposed, FitInv, TablesTypeOK, CallsAreFit, Enter, Leave, Decided, Goto, Asked
<1>1. CASE Propose(t) \/ Suspend(t) \/ Approve(t) \/ Reject(t)
    BY <1>1 DEF Propose, Suspend, Approve, Reject
<1>2. CASE Raise(t)
    BY <1>2 DEF Raise
<1>3. CASE (Insert(t) \/ RecordApproved(t) \/ RecordRejected(t)) /\ ~Raise(t)
    BY <1>3 DEF Insert, RecordApproved, RecordRejected
<1>4. CASE Forget(t) \/ Resumed(t) \/ Update(t) \/ Delete(t)
    BY <1>4 DEF Forget, Resumed, Update, Delete
<1> QED BY <1>1, <1>2, <1>3, <1>4 DEF CallerStep

LEMMA UndecidedStep ==
    ASSUME FitInv, Undecided, NEW t \in Callers, QuietStep(t)
    PROVE  Undecided'
<1> USE DEF Undecided, IsDecided, AtWork, FitInv, TablesTypeOK, CallsAreFit, Enter, Leave, Decided, Goto
<1>1. CASE Propose(t)
    BY <1>1 DEF Propose
<1>2. CASE Suspend(t) \/ Resumed(t)
    BY <1>2 DEF Suspend, Resumed
<1>3. CASE Approve(t) \/ Reject(t)
    BY <1>3 DEF Approve, Reject
<1>4. CASE Insert(t)
    BY <1>4 DEF Insert, QuietStep
<1>5. CASE RecordApproved(t)
    BY <1>5 DEF RecordApproved, QuietStep
<1>6. CASE RecordRejected(t)
    BY <1>6 DEF RecordRejected, QuietStep
<1>7. CASE Forget(t)
    BY <1>7 DEF Forget
<1>8. CASE Update(t) \/ Delete(t)
    BY <1>8 DEF Update, Delete
<1> QED BY <1>1, <1>2, <1>3, <1>4, <1>5, <1>6, <1>7, <1>8 DEF QuietStep, CallerStep

LEMMA PendingStoredStep ==
    ASSUME FitInv, KnownIsProposed, PendingStored, NEW t \in Callers, QuietStep(t)
    PROVE  PendingStored'
<1> USE DEF PendingStored, KnownIsProposed, FitInv, TablesTypeOK, CallsAreFit, Enter, Leave, Decided, Goto
<1>1. CASE Propose(t) \/ Suspend(t) \/ Resumed(t)
    BY <1>1 DEF Propose, Suspend, Resumed
<1>2. CASE Approve(t) \/ Reject(t)
    BY <1>2 DEF Approve, Reject
<1>3. CASE Insert(t)
    BY <1>3 DEF Insert, QuietStep
<1>4. CASE RecordApproved(t) \/ RecordRejected(t)
    BY <1>4 DEF RecordApproved, RecordRejected, QuietStep
<1>5. CASE Forget(t)
    BY <1>5 DEF Forget
<1>6. CASE Update(t) \/ Delete(t)
    BY <1>6 DEF Update, Delete
<1> QED BY <1>1, <1>2, <1>3, <1>4, <1>5, <1>6 DEF QuietStep, CallerStep

LEMMA RejectedStep ==
    ASSUME FitInv, KnownIsProposed, PendingStored, RejectedStaysOut, NEW t \in Callers, QuietStep(t)
    PROVE  RejectedStaysOut'
<1> USE DEF RejectedStaysOut, Rejecting, KnownIsProposed, FitInv, TablesTypeOK, CallsAreFit, Enter, Leave,
        Decided, Goto
<1>1. CASE Propose(t)
    BY <1>1 DEF Propose
<1>2. CASE Suspend(t) \/ Resumed(t) \/ Forget(t)
    BY <1>2 DEF Suspend, Resumed, Forget
<1>3. CASE Approve(t)
    BY <1>3 DEF Approve
<1>4. CASE Reject(t)
    BY <1>4 DEF Reject, PendingStored, InCall
<1>5. CASE Insert(t)
    BY <1>5 DEF Insert, QuietStep
<1>6. CASE RecordApproved(t) \/ RecordRejected(t)
    BY <1>6 DEF RecordApproved, RecordRejected, QuietStep
<1>7. CASE Update(t) \/ Delete(t)
    BY <1>7 DEF Update, Delete
<1> QED BY <1>1, <1>2, <1>3, <1>4, <1>5, <1>6, <1>7 DEF QuietStep, CallerStep

\* A failed transaction and the end of the process are noted for good.
LEMMA DisturbanceIsNoted ==
    ASSUME [Next]_vars, ~disturbed'
    PROVE  ~disturbed /\ ((\E t \in Callers : QuietStep(t)) \/ UNCHANGED vars)
<1>1. ~Restart /\ \A t \in Callers : ~Raise(t)
    BY Zenon DEF Restart, Raise
<1>2. UNCHANGED vars \/ \E t \in Callers : QuietStep(t)
    BY <1>1, Zenon DEF Next, QuietStep
<1>3. UNCHANGED disturbed
    BY <1>2 DEF vars, QuietStep, CallerStep, Propose, Suspend, Approve, Insert, RecordApproved, Forget,
        Reject, RecordRejected, Resumed, Update, Delete
<1> QED BY <1>2, <1>3, Zenon

CalmInv == KnownIsProposed /\ (~disturbed => Calm)

LEMMA CalmStep ==
    ASSUME Inv, CalmInv, [Next]_vars
    PROVE  CalmInv'
<1>0. FitInv /\ KnownIsProposed
    BY InvIsFit, Zenon DEF CalmInv
<1>1. KnownIsProposed'
    <2>1. CASE Restart
        BY <1>0, <2>1 DEF Restart, KnownIsProposed
    <2>2. CASE UNCHANGED vars
        BY <1>0, <2>2 DEF vars, KnownIsProposed
    <2> QED BY <1>0, <2>1, <2>2, ProposedStep DEF Next
<1>2. ASSUME ~disturbed'
      PROVE  Calm'
    <2>1. ~disturbed /\ ((\E t \in Callers : QuietStep(t)) \/ UNCHANGED vars)
        BY <1>2, DisturbanceIsNoted, Zenon
    <2>2. Calm
        BY <2>1, Zenon DEF CalmInv
    <2>3. CASE UNCHANGED vars
        BY <2>2, <2>3 DEF vars, Calm, Undecided, IsDecided, AtWork, PendingStored, RejectedStaysOut, Rejecting
    <2>4. ASSUME NEW t \in Callers, QuietStep(t)
          PROVE  Calm'
        BY <1>0, <2>2, <2>4, UndecidedStep, PendingStoredStep, RejectedStep DEF Calm
    <2> QED BY <2>1, <2>3, <2>4, Zenon
<1> QED BY <1>1, <1>2, Zenon DEF CalmInv

\* Until something is disturbed, all that the two theorems below rest on holds.
THEOREM CalmInvariant == Spec => []CalmInv
<1>1. Init => CalmInv
    <2>1. Init => KnownIsProposed /\ Calm
        BY DEF Init, KnownIsProposed, Calm, Undecided, PendingStored, RejectedStaysOut, Rejecting
    <2> QED BY <2>1, Zenon DEF CalmInv
<1>2. Inv /\ CalmInv /\ [Next]_vars => CalmInv'
    BY CalmStep
<1> QED BY <1>1, <1>2, InvInvariant, PTL DEF Spec

\* While the process runs and the database works, every proposed candidate is
\* pending, in some thread's hands, or decided on record.
THEOREM NoCandidateIsEverLost == Spec => []NoCandidateIsLost
<1>1. KnownIsProposed /\ Calm => \A c \in proposed : c \in pending \/ InCall(c) \/ IsDecided(c)
    BY DEF Calm, Undecided, AtWork, InCall
<1>2. CalmInv => NoCandidateIsLost
    BY <1>1, Zenon DEF CalmInv, NoCandidateIsLost
<1> QED BY <1>2, CalmInvariant, PTL

\* A rejection that was reported keeps the candidate out of the database for good,
\* unless a transaction fails or another thread was approving it meanwhile.
THEOREM DeclinedStaysOut == Spec => []DeclinedIsNotStored
<1>1. TypeOK /\ Calm => \A c \in declined \ contested : memories[c] = None
    BY DEF TypeOK, TablesTypeOK, Calm, RejectedStaysOut, Rejecting
<1>2. TypeOK /\ CalmInv => DeclinedIsNotStored
    BY <1>1, Zenon DEF CalmInv, DeclinedIsNotStored
<1> QED BY <1>2, TypeCorrect, CalmInvariant, PTL
=============================================================================
