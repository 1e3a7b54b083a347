-------------------------- MODULE BrowserToolProofs --------------------------
(***************************************************************************)
(* Theorems about BrowserTool, for any number of threads and pages.        *)
(***************************************************************************)
EXTENDS BrowserTool, TLAPS

USE DEF runVars, historyVars

-----------------------------------------------------------------------------
(* Types; the Boolean variables apart from the others *)

FlagsOK == cancelled \in BOOLEAN /\ torn \in BOOLEAN /\ owed \in BOOLEAN

DataOK ==
    /\ session \in [Fields -> Pages \cup {None}]
    /\ pc \in [Threads -> Labels]
    /\ action \in [Threads -> Actions]
    /\ page \in [Threads -> Pages \cup {None}]
    /\ left \in [Threads -> Seq(Fields)]
    /\ seen \in [Threads -> [Fields -> Pages \cup {None}]]
    /\ result \in [Threads -> Results]
    /\ disturbed \subseteq Threads /\ caught \subseteq Threads
    /\ latest \in Pages \cup {None}

LEMMA TypeParts == (TypeOK <=> FlagsOK /\ DataOK) /\ (TypeOK' <=> FlagsOK' /\ DataOK')
BY Zenon DEF TypeOK, FlagsOK, DataOK

LEMMA FlagsStep == FlagsOK /\ [Next]_vars => FlagsOK'
<1> SUFFICES ASSUME FlagsOK, [Next]_vars
             PROVE  FlagsOK'
    OBVIOUS
<1>1. UNCHANGED cancelled \/ cancelled' = TRUE \/ cancelled' = FALSE
    BY Zenon DEF Next, vars, ThreadStep, Cancel, Begin, CheckCancelled, ResetCancelled, Permit, Refuse,
        RecheckCancelled, RequestPage, SearchNothing, ReceivePage, ReceiveNothing, WriteField,
        Written, ReadPage, NoPage, ReadField, ReadDone, OpenDone, SeeCancelled, Deliver
<1>2. UNCHANGED torn \/ torn' = (Writing # {})
    BY Zenon DEF Next, vars, ThreadStep, Cancel, Begin, CheckCancelled, ResetCancelled, Permit, Refuse,
        RecheckCancelled, RequestPage, SearchNothing, ReceivePage, ReceiveNothing, WriteField,
        Written, ReadPage, NoPage, ReadField, ReadDone, OpenDone, SeeCancelled, Deliver, Return
<1>3. UNCHANGED owed \/ owed' = FALSE \/ owed' = (Stoppable = {})
    BY Zenon DEF Next, vars, ThreadStep, Cancel, Begin, CheckCancelled, ResetCancelled, Permit, Refuse,
        RecheckCancelled, RequestPage, SearchNothing, ReceivePage, ReceiveNothing, WriteField,
        Written, ReadPage, NoPage, ReadField, ReadDone, OpenDone, SeeCancelled, Deliver, Return
<1> QED BY <1>1, <1>2, <1>3, Zenon DEF FlagsOK

LEMMA ReturnData ==
    ASSUME DataOK, NEW t \in Threads, NEW how \in Results, Return(t, how), UNCHANGED session
    PROVE  DataOK'
<1>1. <<>> \in Seq(Fields)
    OBVIOUS
<1> QED BY <1>1 DEF DataOK, Return, Goto, Labels

LEMMA TailOfFields ==
    ASSUME NEW s \in Seq(Fields), s # <<>>
    PROVE  /\ Head(s) \in Fields /\ Tail(s) \in Seq(Fields)
OBVIOUS

LEMMA StartData ==
    ASSUME DataOK, NEW t \in Threads,
           Begin(t) \/ CheckCancelled(t) \/ Permit(t) \/ RequestPage(t) \/ ReceivePage(t)
             \/ ReceiveNothing(t) \/ SeeCancelled(t) \/ OpenDone(t) \/ ReadPage(t)
    PROVE  DataOK'
<1> USE DEF DataOK, Goto, Labels, Results
<1>0. InOrder \in Seq(Fields)
    BY DEF InOrder, Fields
<1>1. CASE Begin(t)
    <2>1. AllOf(None) \in [Fields -> Pages \cup {None}]
        BY DEF AllOf
    <2>2. pc' \in [Threads -> Labels] /\ action' \in [Threads -> Actions] /\ result' \in [Threads -> Results]
        BY <1>1 DEF Begin
    <2>3. seen' \in [Threads -> [Fields -> Pages \cup {None}]]
        BY <1>1, <2>1 DEF Begin
    <2>4. disturbed' \subseteq Threads /\ caught' \subseteq Threads
        BY <1>1 DEF Begin, Working
    <2> QED BY <1>1, <2>2, <2>3, <2>4 DEF Begin
<1>2. CASE CheckCancelled(t)
    BY <1>2 DEF CheckCancelled
<1>3. CASE Permit(t) \/ RequestPage(t) \/ SeeCancelled(t)
    BY <1>3 DEF Permit, RequestPage, SeeCancelled
<1>4. CASE ReceivePage(t)
    BY <1>0, <1>4 DEF ReceivePage
<1>5. CASE ReceiveNothing(t) \/ OpenDone(t)
    BY <1>5 DEF ReceiveNothing, OpenDone
<1>6. CASE ReadPage(t)
    BY <1>0, <1>6 DEF ReadPage
<1> QED BY <1>1, <1>2, <1>3, <1>4, <1>5, <1>6

LEMMA FieldData ==
    ASSUME DataOK, NEW t \in Threads, WriteField(t) \/ Written(t) \/ ReadField(t)
    PROVE  DataOK'
<1> USE DEF DataOK, Goto, Labels
<1>1. CASE WriteField(t)
    <2>1. Head(left[t]) \in Fields /\ Tail(left[t]) \in Seq(Fields)
        BY <1>1, TailOfFields DEF WriteField
    <2> QED BY <1>1, <2>1 DEF WriteField
<1>2. CASE Written(t)
    <2>1. <<"title", "links">> \in Seq(Fields)
        BY DEF Fields
    <2>2. /\ left' = [left EXCEPT ![t] = <<"title", "links">>]
          /\ seen' = [seen EXCEPT ![t]["current_url"] = page[t], ![t]["visible_text"] = page[t]]
          /\ UNCHANGED <<session, action, page, result, disturbed, caught, latest>>
        BY <1>2 DEF Written
    <2>3. seen' \in [Threads -> [Fields -> Pages \cup {None}]]
        BY <2>2 DEF Fields
    <2>4. pc' \in [Threads -> Labels]
        BY <1>2 DEF Written
    <2> QED BY <2>1, <2>2, <2>3, <2>4
<1>3. CASE ReadField(t)
    <2>1. Head(left[t]) \in Fields /\ Tail(left[t]) \in Seq(Fields)
        BY <1>3, TailOfFields DEF ReadField
    <2> QED BY <1>3, <2>1 DEF ReadField
<1> QED BY <1>1, <1>2, <1>3

LEMMA StepType == TypeOK /\ [Next]_vars => TypeOK'
<1> SUFFICES ASSUME DataOK, [Next]_vars
             PROVE  DataOK'
    BY FlagsStep, TypeParts, Zenon
<1>1. CASE UNCHANGED vars
    BY <1>1 DEF vars, DataOK
<1>2. CASE Cancel
    <2>1. caught' \subseteq Threads
        BY <1>2 DEF Cancel, DataOK, Stoppable, Working
    <2>2. UNCHANGED <<session, runVars, disturbed, latest>>
        BY <1>2, Zenon DEF Cancel
    <2> QED BY <2>1, <2>2 DEF DataOK
<1>3. CASE \E t \in Threads : ThreadStep(t)
    <2>1. PICK t \in Threads : ThreadStep(t)
        BY <1>3
    <2>2. CASE ResetCancelled(t) \/ RecheckCancelled(t)
        BY <2>2, ReturnData DEF ResetCancelled, RecheckCancelled, Results
    <2>3. CASE Refuse(t) \/ SearchNothing(t) \/ NoPage(t)
        BY <2>3, ReturnData DEF Refuse, SearchNothing, NoPage, Results
    <2>4. CASE ReadDone(t)
        BY <2>4, ReturnData DEF ReadDone, Results
    <2>5. CASE Deliver(t)
        <3>1. result[t] \in Results
            BY DEF DataOK
        <3> QED BY <2>5, <3>1, ReturnData DEF Deliver
    <2> QED BY <2>1, <2>2, <2>3, <2>4, <2>5, StartData, FieldData DEF ThreadStep
<1> QED BY <1>1, <1>2, <1>3 DEF Next

LEMMA InitType == Init => TypeOK
<1> SUFFICES ASSUME Init
             PROVE  TypeOK
    OBVIOUS
<1>1. FlagsOK
    BY Zenon DEF Init, FlagsOK
<1>2. DataOK
    BY DEF Init, DataOK, AllOf, Labels, Actions, Results
<1> QED BY <1>1, <1>2, TypeParts

\* The tool's fields and the locals of its threads keep their types.
THEOREM TypeCorrect == Spec => []TypeOK
BY InitType, StepType, PTL DEF Spec

-----------------------------------------------------------------------------
(* Cancels *)

\* A step of a thread leaves the locals of the others alone.
LEMMA OthersStay ==
    ASSUME DataOK, NEW t \in Threads, ThreadStep(t)
    PROVE  \A u \in Threads \ {t} : pc'[u] = pc[u] /\ action'[u] = action[u] /\ result'[u] = result[u]
BY DEF DataOK, ThreadStep, Goto, Return, Begin, CheckCancelled, ResetCancelled, Permit, Refuse,
    RecheckCancelled, RequestPage, SearchNothing, ReceivePage, ReceiveNothing, WriteField, Written,
    ReadPage, NoPage, ReadField, ReadDone, OpenDone, SeeCancelled, Deliver

\* The steps of an action that has begun, but the one that resets the flag.
LEMMA GoesOn ==
    ASSUME DataOK, OnlyOpensFetch, NEW t \in Threads, ThreadStep(t),
           ~Begin(t), ~ResetCancelled(t)
    PROVE  /\ UNCHANGED <<cancelled, owed, caught, disturbed>>
           /\ pc[t] \notin {"out", "reset"} /\ action'[t] = action[t]
           /\ \/ pc'[t] = "reset" /\ pc[t] \in {"check", "last"}
              \/ pc'[t] \in {"permit", "recheck"} /\ pc[t] \in {"check", "permit"}
              \/ pc'[t] \in {"fetch", "write", "look", "last"} /\ action[t] = "open"
              \/ pc'[t] = "look" /\ action[t] = "read" /\ (pc[t] = "look" \/ ~cancelled)
              \/ pc'[t] = "out" /\ result'[t] \in {"cancelled", "failed"}
              \/ pc'[t] = "out" /\ action[t] = "read" /\ pc[t] = "look"
              \/ pc'[t] = "out" /\ ~cancelled
<1>1. UNCHANGED <<cancelled, owed, caught, disturbed>>
    BY Zenon DEF ThreadStep, Return, CheckCancelled, Permit, Refuse, RecheckCancelled, RequestPage,
        SearchNothing, ReceivePage, ReceiveNothing, WriteField, Written, ReadPage, NoPage, ReadField,
        ReadDone, OpenDone, SeeCancelled, Deliver
<1> USE DEF DataOK, Goto, Return, OnlyOpensFetch
<1>2. CASE CheckCancelled(t) \/ Permit(t) \/ SeeCancelled(t)
    BY <1>1, <1>2 DEF CheckCancelled, Permit, SeeCancelled
<1>3. CASE Refuse(t) \/ RecheckCancelled(t) \/ SearchNothing(t) \/ NoPage(t)
    BY <1>1, <1>3 DEF Refuse, RecheckCancelled, SearchNothing, NoPage
<1>4. CASE RequestPage(t) \/ ReceivePage(t) \/ ReceiveNothing(t) \/ WriteField(t) \/ Written(t)
    BY <1>1, <1>4 DEF RequestPage, ReceivePage, ReceiveNothing, WriteField, Written
<1>5. CASE ReadPage(t) \/ ReadField(t) \/ ReadDone(t) \/ OpenDone(t) \/ Deliver(t)
    BY <1>1, <1>5 DEF ReadPage, ReadField, ReadDone, OpenDone, Deliver
<1> QED BY <1>2, <1>3, <1>4, <1>5 DEF ThreadStep

CancelParts == OnlyOpensFetch /\ UndisturbedIsAlone /\ OwedIsKept /\ CaughtIsSeen /\ CaughtActionFails

LEMMA CancelBegin ==
    ASSUME CancelInv, DataOK, NEW t \in Threads, Begin(t)
    PROVE  CancelParts'
<1> USE DEF CancelInv, DataOK, Working
<1>0. \A u \in Threads \ {t} : pc'[u] = pc[u] /\ action'[u] = action[u] /\ result'[u] = result[u]
    BY OthersStay DEF ThreadStep
<1>1. /\ pc[t] = "out" /\ pc'[t] = "check" /\ UNCHANGED cancelled
      /\ caught' = IF owed THEN caught \cup {t} ELSE caught \ {t}
      /\ owed' = FALSE
    BY DEF Begin, Goto
<1>2. \/ Working # {} /\ disturbed' = disturbed \cup Working \cup {t}
      \/ Working = {} /\ (disturbed' = disturbed \cup {t} \/ disturbed' = disturbed \ {t})
    BY DEF Begin
<1>3. OnlyOpensFetch'
    BY <1>0, <1>1 DEF OnlyOpensFetch
<1>4. UndisturbedIsAlone'
    BY <1>0, <1>1, <1>2 DEF UndisturbedIsAlone
<1>5. OwedIsKept'
    BY <1>1, Zenon DEF OwedIsKept
<1>6. owed => cancelled
    BY Zenon DEF OwedIsKept
<1>7. CaughtIsSeen'
    BY <1>0, <1>1, <1>2, <1>6 DEF CaughtIsSeen, Stoppable
<1>8. CaughtActionFails'
    BY <1>0, <1>1, <1>2 DEF CaughtActionFails
<1> QED BY <1>3, <1>4, <1>5, <1>7, <1>8 DEF CancelParts

LEMMA CancelGoesOn ==
    ASSUME CancelInv, DataOK, NEW t \in Threads, ThreadStep(t), ~Begin(t)
    PROVE  CancelParts'
<1> USE DEF CancelInv, Working
<1>0. \A u \in Threads \ {t} : pc'[u] = pc[u] /\ action'[u] = action[u] /\ result'[u] = result[u]
    BY OthersStay
<1>1. CASE ResetCancelled(t)
    <2>1. /\ pc[t] = "reset" /\ pc'[t] = "out" /\ action'[t] = action[t] /\ result'[t] = "cancelled"
          /\ UNCHANGED <<owed, caught, disturbed>>
        BY <1>1 DEF ResetCancelled, Return, Goto, DataOK
    <2>2. ~owed
        BY <2>1 DEF OwedIsKept, Stoppable
    <2>3. OwedIsKept'
        BY <2>1, <2>2 DEF OwedIsKept
    <2>4. OnlyOpensFetch' /\ UndisturbedIsAlone'
        BY <1>0, <2>1 DEF OnlyOpensFetch, UndisturbedIsAlone
    <2>5. CaughtActionFails'
        BY <1>0, <2>1 DEF CaughtActionFails, DataOK
    <2>6. \A u \in Working' : u # t /\ u \in disturbed
        BY <1>0, <2>1 DEF UndisturbedIsAlone
    <2>7. CaughtIsSeen'
        BY <2>1, <2>6 DEF CaughtIsSeen
    <2> QED BY <2>3, <2>4, <2>5, <2>7 DEF CancelParts
<1>2. CASE ~ResetCancelled(t)
    <2>0. /\ UNCHANGED <<cancelled, owed, caught, disturbed>>
          /\ pc[t] \notin {"out", "reset"} /\ action'[t] = action[t]
          /\ \/ pc'[t] = "reset" /\ pc[t] \in {"check", "last"}
             \/ pc'[t] \in {"permit", "recheck"} /\ pc[t] \in {"check", "permit"}
             \/ pc'[t] \in {"fetch", "write", "look", "last"} /\ action[t] = "open"
             \/ pc'[t] = "look" /\ action[t] = "read" /\ (pc[t] = "look" \/ ~cancelled)
             \/ pc'[t] = "out" /\ result'[t] \in {"cancelled", "failed"}
             \/ pc'[t] = "out" /\ action[t] = "read" /\ pc[t] = "look"
             \/ pc'[t] = "out" /\ ~cancelled
        BY <1>2, GoesOn
    <2>1. OnlyOpensFetch'
        BY <1>0, <2>0 DEF OnlyOpensFetch
    <2>2. UndisturbedIsAlone'
        BY <1>0, <2>0 DEF UndisturbedIsAlone
    <2>3. OwedIsKept'
        BY <1>0, <2>0 DEF OwedIsKept, Stoppable, OnlyOpensFetch
    <2>4. CaughtIsSeen'
        <3> SUFFICES ASSUME NEW u \in Working', u \in caught', u \notin disturbed'
                     PROVE  pc'[u] = "reset" \/ (cancelled' /\ u \in Stoppable')
            BY DEF CaughtIsSeen
        <3>1. u \in Working /\ (pc[u] = "reset" \/ (cancelled /\ u \in Stoppable))
            BY <1>0, <2>0 DEF CaughtIsSeen
        <3>2. CASE u = t
            BY <2>0, <3>1, <3>2 DEF Stoppable
        <3>3. CASE u # t
            BY <1>0, <2>0, <3>1, <3>3 DEF Stoppable
        <3> QED BY <3>2, <3>3
    <2>5. CaughtActionFails'
        <3> SUFFICES ASSUME NEW u \in caught' \ disturbed', pc'[u] = "out", u = t
                     PROVE  result'[u] \in {"cancelled", "failed"}
            BY <1>0, <2>0 DEF CaughtActionFails, TypeOK
        <3>1. pc[t] = "reset" \/ (cancelled /\ t \in Stoppable)
            BY <2>0 DEF CaughtIsSeen
        <3> QED BY <2>0, <3>1 DEF Stoppable
    <2> QED BY <2>1, <2>2, <2>3, <2>4, <2>5 DEF CancelParts
<1> QED BY <1>1, <1>2

LEMMA CancelCancel == ASSUME CancelInv, Cancel PROVE CancelParts'
<1>1. /\ cancelled' = TRUE /\ caught' = caught \cup Stoppable /\ owed' = (Stoppable = {})
      /\ UNCHANGED <<runVars, disturbed>>
    BY Zenon DEF Cancel
<1>2. OwedIsKept'
    BY <1>1 DEF OwedIsKept, Stoppable, Working
<1>3. CaughtIsSeen'
    BY <1>1 DEF CancelInv, CaughtIsSeen, Stoppable, Working
<1>4. CaughtActionFails'
    BY <1>1 DEF CancelInv, CaughtActionFails, Stoppable, Working
<1> QED BY <1>1, <1>2, <1>3, <1>4 DEF CancelParts, CancelInv, OnlyOpensFetch, UndisturbedIsAlone, Working

LEMMA CancelInit == Init => CancelInv
<1> SUFFICES ASSUME Init
             PROVE  CancelInv
    OBVIOUS
<1>1. ~owed
    BY Zenon DEF Init
<1>2. (\A t \in Threads : pc[t] = "out") /\ caught = {}
    BY DEF Init
<1> QED BY <1>1, <1>2, InitType DEF CancelInv, OnlyOpensFetch, UndisturbedIsAlone, OwedIsKept,
        CaughtIsSeen, CaughtActionFails, Working

LEMMA CancelStep == CancelInv /\ [Next]_vars => CancelInv'
<1> SUFFICES ASSUME CancelInv, [Next]_vars
             PROVE  CancelInv'
    OBVIOUS
<1>0. TypeOK' /\ DataOK
    BY StepType, TypeParts, Zenon DEF CancelInv
<1>1. CASE UNCHANGED vars
    BY <1>0, <1>1 DEF vars, CancelInv, OnlyOpensFetch, UndisturbedIsAlone, OwedIsKept,
        CaughtIsSeen, CaughtActionFails, Working, Stoppable
<1>2. CASE Cancel
    BY <1>0, <1>2, CancelCancel DEF CancelInv, CancelParts
<1>3. CASE \E t \in Threads : ThreadStep(t)
    BY <1>0, <1>3, CancelBegin, CancelGoesOn DEF CancelInv, CancelParts
<1> QED BY <1>1, <1>2, <1>3 DEF Next

\* A cancel stops the action in progress, or the next one: for any number of threads,
\* an action that does not run together with another one never succeeds after it.
THEOREM CaughtAlwaysFails == Spec => []CaughtActionFails
<1>1. CancelInv => CaughtActionFails
    BY DEF CancelInv
<1> QED BY <1>1, CancelInit, CancelStep, PTL DEF Spec

-----------------------------------------------------------------------------
(* The session *)

LEMMA LeftInOrder == {InOrder[i] : i \in 1..Len(InOrder)} = Fields
<1>1. Len(InOrder) = 4 /\ InOrder[1] = "current_url" /\ InOrder[2] = "title"
        /\ InOrder[3] = "visible_text" /\ InOrder[4] = "links"
    BY DEF InOrder
<1>2. 1..4 = {1, 2, 3, 4}
    OBVIOUS
<1> QED BY <1>1, <1>2 DEF Fields

LEMMA LeftTail ==
    ASSUME NEW s \in Seq(Fields), s # <<>>
    PROVE  {s[i] : i \in 1..Len(s)} \subseteq {Head(s)} \cup {Tail(s)[i] : i \in 1..Len(Tail(s))}
<1> SUFFICES ASSUME NEW i \in 1..Len(s), i # 1
             PROVE  s[i] \in {Tail(s)[j] : j \in 1..Len(Tail(s))}
    OBVIOUS
<1>1. Len(s) \in Nat /\ Len(Tail(s)) = Len(s) - 1 /\ i - 1 \in 1..(Len(s) - 1)
    OBVIOUS
<1>2. s[i] = Tail(s)[i - 1]
    BY <1>1
<1> QED BY <1>1, <1>2

\* The other steps do not touch the session, nor an open that writes it.
LEMMA SessionStays ==
    ASSUME DataOK, [Next]_vars,
           \A t \in Threads : ~ReceivePage(t) /\ ~WriteField(t) /\ ~Written(t)
    PROVE  /\ UNCHANGED <<session, latest, torn>>
           /\ Writing' = Writing
           /\ \A t \in Writing : page'[t] = page[t] /\ left'[t] = left[t]
<1>1. CASE UNCHANGED vars
    BY <1>1 DEF vars, Writing
<1>2. CASE Cancel
    <2>1. UNCHANGED <<session, runVars, latest, torn>>
        BY <1>2, Zenon DEF Cancel
    <2> QED BY <2>1 DEF Writing
<1>3. CASE \E t \in Threads : ThreadStep(t)
    <2>1. PICK t \in Threads : ThreadStep(t)
        BY <1>3
    <2>2. ~ReceivePage(t) /\ ~WriteField(t) /\ ~Written(t)
        OBVIOUS
    <2>3. UNCHANGED <<session, latest, torn>>
        BY <2>1, <2>2, Zenon DEF ThreadStep, Return, Begin, CheckCancelled, ResetCancelled, Permit,
            Refuse, RecheckCancelled, RequestPage, SearchNothing, ReceiveNothing, ReadPage, NoPage,
            ReadField, ReadDone, OpenDone, SeeCancelled, Deliver
    <2>4. /\ pc[t] # "write" /\ pc'[t] # "write"
          /\ \A u \in Threads \ {t} : pc'[u] = pc[u] /\ page'[u] = page[u] /\ left'[u] = left[u]
        BY <2>1, <2>2 DEF DataOK, Goto, ThreadStep, Return, Begin, CheckCancelled, ResetCancelled,
            Permit, Refuse, RecheckCancelled, RequestPage, SearchNothing, ReceiveNothing, ReadPage,
            NoPage, ReadField, ReadDone, OpenDone, SeeCancelled, Deliver
    <2> QED BY <2>3, <2>4 DEF Writing
<1> QED BY <1>1, <1>2, <1>3 DEF Next

LEMMA SessionStep == SessionInv /\ [Next]_vars => (WrittenSoFar /\ SessionIsLatest)'
<1> SUFFICES ASSUME SessionInv, [Next]_vars
             PROVE  (WrittenSoFar /\ SessionIsLatest)'
    OBVIOUS
<1>0. DataOK
    BY TypeParts, Zenon DEF SessionInv
<1> USE DEF WrittenSoFar, SessionIsLatest, SessionInv
<1>1. CASE \A t \in Threads : ~ReceivePage(t) /\ ~WriteField(t) /\ ~Written(t)
    BY <1>0, <1>1, SessionStays DEF Left, AllOf
<1>2. ASSUME NEW t \in Threads, ReceivePage(t)
      PROVE  (WrittenSoFar /\ SessionIsLatest)'
    <2>1. Writing' = Writing \cup {t}
        BY <1>0, <1>2 DEF ReceivePage, Goto, Writing, DataOK
    <2>2. left'[t] = InOrder /\ page'[t] = latest' /\ (torn' <=> Writing # {})
        BY <1>0, <1>2 DEF ReceivePage, DataOK
    <2>3. Left(t)' = Fields
        BY <2>2, LeftInOrder DEF Left
    <2> QED BY <2>1, <2>2, <2>3
<1>3. ASSUME NEW t \in Threads, WriteField(t)
      PROVE  (WrittenSoFar /\ SessionIsLatest)'
    <2>1. /\ pc[t] = "write" /\ UNCHANGED <<pc, page, latest, torn>>
          /\ session' = [session EXCEPT ![Head(left[t])] = page[t]]
          /\ left[t] # <<>> /\ left[t] \in Seq(Fields) /\ left'[t] = Tail(left[t])
        BY <1>0, <1>3 DEF WriteField, DataOK
    <2>2. t \in Writing /\ Writing' = Writing
        BY <2>1 DEF Writing
    <2>3. Left(t) \subseteq {Head(left[t])} \cup Left(t)'
        <3>1. {left[t][i] : i \in 1..Len(left[t])}
                \subseteq {Head(left[t])} \cup {Tail(left[t])[i] : i \in 1..Len(Tail(left[t]))}
            BY <2>1, LeftTail
        <3>2. Left(t)' = {Tail(left[t])[i] : i \in 1..Len(Tail(left[t]))}
            BY <2>1 DEF Left
        <3> QED BY <3>1, <3>2 DEF Left
    <2>4. \A f \in Fields : session'[f] = IF f = Head(left[t]) THEN page[t] ELSE session[f]
        BY <1>0, <2>1 DEF DataOK
    <2>5. ASSUME ~torn'
          PROVE  /\ Writing' = {t} /\ page'[t] = latest'
                 /\ \A f \in Fields \ Left(t)' : session'[f] = latest'
        <3>1. /\ Writing = {t} /\ page[t] = latest
              /\ \A f \in Fields \ Left(t) : session[f] = latest
            BY <2>1, <2>2, <2>5
        <3> QED BY <2>1, <2>2, <2>3, <2>4, <3>1
    <2>6. WrittenSoFar'
        BY <2>5
    <2> QED BY <2>2, <2>6
<1>4. ASSUME NEW t \in Threads, Written(t)
      PROVE  (WrittenSoFar /\ SessionIsLatest)'
    <2>1. pc[t] = "write" /\ left[t] = <<>> /\ UNCHANGED <<session, latest, torn>>
        BY <1>4 DEF Written
    <2>2. t \in Writing /\ Writing' = Writing \ {t}
        BY <1>0, <1>4 DEF Written, Goto, Writing, DataOK
    <2>3. Left(t) = {}
        BY <2>1 DEF Left
    <2>4. ~torn => Writing' = {} /\ \A f \in Fields : session[f] = latest
        BY <2>2, <2>3
    <2>5. session = AllOf(latest) \/ torn
        BY <1>0, <2>4 DEF AllOf, DataOK
    <2> QED BY <2>1, <2>4, <2>5 DEF AllOf
<1> QED BY <1>1, <1>2, <1>3, <1>4

LEMMA SessionInit == Init => SessionInv
BY InitType DEF Init, SessionInv, WrittenSoFar, SessionIsLatest, Writing

LEMMA SessionAlways == Spec => []SessionInv
<1>1. SessionInv /\ [Next]_vars => SessionInv'
    BY StepType, SessionStep DEF SessionInv
<1> QED BY <1>1, SessionInit, PTL DEF Spec

\* What is in the session is what the last open has left there, for any number of
\* threads, also when earlier opens overlapped.
THEOREM SessionIsOfOnePage == Spec => []SessionIsLatest
<1>1. SessionInv => SessionIsLatest
    BY DEF SessionInv
<1> QED BY <1>1, SessionAlways, PTL

-----------------------------------------------------------------------------
(* Results *)

LEMMA CalmStep ==
    ASSUME CancelInv, SessionInv, CalmSession, [Next]_vars
    PROVE  CalmSession'
<1> USE DEF CancelInv, Working
<1>0. DataOK
    BY TypeParts, Zenon
<1>1. CASE UNCHANGED vars
    BY <1>1 DEF vars, CalmSession
<1>2. CASE Cancel
    <2>1. UNCHANGED <<runVars, disturbed, torn>>
        BY <1>2, Zenon DEF Cancel
    <2> QED BY <2>1 DEF CalmSession
<1>3. CASE \E t \in Threads : ThreadStep(t)
    <2>1. PICK t \in Threads : ThreadStep(t)
        BY <1>3
    <2>2. \A u \in Threads \ {t} : pc'[u] = pc[u] /\ action'[u] = action[u]
        BY <1>0, <2>1, OthersStay
    <2>3. CASE Begin(t)
        <3>1. pc[t] = "out" /\ pc'[t] = "check" /\ UNCHANGED torn
            BY <1>0, <2>3 DEF Begin, Goto, DataOK
        <3>2. \/ Working # {} /\ disturbed' = disturbed \cup Working \cup {t}
              \/ Working = {} /\ disturbed' = disturbed \cup {t}
              \/ Working = {} /\ (action'[t] # "read" \/ ~torn) /\ disturbed' = disturbed \ {t}
            BY <1>0, <2>3 DEF Begin, DataOK
        <3>3. Working' = Working \cup {t}
            BY <2>2, <3>1
        <3> QED BY <2>2, <3>1, <3>2, <3>3 DEF CalmSession
    <2>4. CASE ReceivePage(t)
        <3>1. /\ pc[t] = "fetch" /\ pc'[t] = "write" /\ action'[t] = action[t] /\ UNCHANGED disturbed
              /\ torn' <=> Writing # {}
            BY <1>0, <2>4 DEF ReceivePage, Goto, DataOK
        <3>2. \A u \in Working' \ disturbed' : u = t /\ Working = {t}
            BY <2>2, <3>1 DEF UndisturbedIsAlone
        <3>3. Working = {t} => Writing = {}
            BY <3>1 DEF Writing
        <3> QED BY <3>1, <3>2, <3>3 DEF CalmSession
    <2>5. CASE ~Begin(t) /\ ~ReceivePage(t)
        <3>1. UNCHANGED <<torn, disturbed>> /\ pc[t] # "out" /\ action'[t] = action[t]
            BY <1>0, <2>1, <2>5 DEF DataOK, Goto, ThreadStep, Return, CheckCancelled, ResetCancelled,
                Permit, Refuse, RecheckCancelled, RequestPage, SearchNothing, ReceiveNothing,
                WriteField, Written, ReadPage, NoPage, ReadField, ReadDone, OpenDone, SeeCancelled,
                Deliver
        <3>2. pc'[t] \in {"write", "look"} => pc[t] \in {"write", "look"} \/ action[t] = "read"
            BY <1>0, <2>1, <2>5 DEF DataOK, Goto, ThreadStep, Return, CheckCancelled, ResetCancelled,
                Permit, Refuse, RecheckCancelled, RequestPage, SearchNothing, ReceiveNothing,
                WriteField, Written, ReadPage, NoPage, ReadField, ReadDone, OpenDone, SeeCancelled,
                Deliver
        <3> QED BY <2>2, <3>1, <3>2 DEF CalmSession
    <2> QED BY <2>3, <2>4, <2>5
<1> QED BY <1>1, <1>2, <1>3 DEF Next

LEMMA SeenOthers ==
    ASSUME CancelInv, DataOK, SeenSoFar, ResultIsOnePage, NEW t \in Threads, ThreadStep(t),
           \A u \in Threads \ {t} : seen'[u] = seen[u],
           t \notin disturbed' =>
             /\ pc'[t] \in {"write", "look"} => latest' \in Pages
             /\ pc'[t] = "look" => \A f \in Fields \ Left(t)' : seen'[t][f] = latest'
             /\ pc'[t] \in {"last", "out"} /\ result'[t] = "success" =>
                  \E p \in Pages : seen'[t] = AllOf(p)
    PROVE  (SeenSoFar /\ ResultIsOnePage)'
<1>0. \A u \in Threads \ {t} : pc'[u] = pc[u] /\ action'[u] = action[u] /\ result'[u] = result[u]
    BY OthersStay
<1>1. \/ UNCHANGED disturbed /\ pc[t] # "out"
      \/ Working # {} /\ disturbed' = disturbed \cup Working \cup {t}
      \/ Working = {} /\ (disturbed' = disturbed \cup {t} \/ disturbed' = disturbed \ {t})
    <2>1. CASE Begin(t)
        BY <2>1 DEF Begin
    <2>2. CASE ResetCancelled(t)
        BY <2>2 DEF ResetCancelled, Return
    <2>3. CASE ~Begin(t) /\ ~ResetCancelled(t)
        BY <2>3, GoesOn DEF CancelInv
    <2> QED BY <2>1, <2>2, <2>3
<1>2. \A u \in Working' \ disturbed' : u = t
    BY <1>0, <1>1 DEF CancelInv, UndisturbedIsAlone, Working
<1>3. SeenSoFar'
    BY <1>2 DEF SeenSoFar, Working
<1>4. ResultIsOnePage'
    <2> SUFFICES ASSUME NEW u \in Threads, u # t, u \notin disturbed', pc'[u] = "out",
                        result'[u] = "success"
                 PROVE  \E p \in Pages : seen'[u] = AllOf(p)
        BY DEF ResultIsOnePage, AllOf
    <2>1. u \notin disturbed
        BY <1>1
    <2> QED BY <1>0, <2>1 DEF ResultIsOnePage
<1> QED BY <1>3, <1>4

\* The steps that see nothing new.
LEMMA SeenNothing ==
    ASSUME CancelInv, DataOK, SeenSoFar, ResultIsOnePage, NEW t \in Threads, ThreadStep(t),
           ~ReceivePage(t), ~WriteField(t), ~Written(t), ~ReadPage(t), ~ReadField(t),
           ~ReadDone(t), ~OpenDone(t), ~Deliver(t)
    PROVE  (SeenSoFar /\ ResultIsOnePage)'
<1>1. /\ \A u \in Threads \ {t} : seen'[u] = seen[u]
      /\ pc'[t] \notin {"write", "look"}
      /\ pc'[t] \in {"last", "out"} => result'[t] # "success"
    BY DEF DataOK, Goto, ThreadStep, Return, Begin, CheckCancelled, ResetCancelled, Permit, Refuse,
        RecheckCancelled, RequestPage, SearchNothing, ReceiveNothing, NoPage, SeeCancelled
<1> QED BY <1>1, SeenOthers

LEMMA SeenStep ==
    ASSUME CancelInv, SessionInv, CalmSession, CalmSession', SeenSoFar, ResultIsOnePage,
           NEW t \in Threads, ThreadStep(t)
    PROVE  (SeenSoFar /\ ResultIsOnePage)'
<1>0. DataOK
    BY TypeParts, Zenon DEF CancelInv
<1>a. \A p : (\A f \in Fields : seen[t][f] = p) => seen[t] = AllOf(p)
    BY <1>0 DEF DataOK, AllOf
<1>b. ASSUME t \in Working \ disturbed
      PROVE  Writing \subseteq {t}
    BY <1>b DEF CancelInv, UndisturbedIsAlone, Working, Writing
<1>1. CASE ReceivePage(t)
    <2>1. /\ pc'[t] = "write" /\ latest' \in Pages /\ UNCHANGED seen
        BY <1>0, <1>1 DEF ReceivePage, Goto, DataOK
    <2> QED BY <1>0, <2>1, SeenOthers
<1>2. CASE WriteField(t)
    <2>1. /\ pc[t] = "write" /\ pc'[t] = "write" /\ UNCHANGED <<seen, latest, disturbed>>
        BY <1>2 DEF WriteField
    <2>2. t \notin disturbed' => latest' \in Pages
        BY <2>1 DEF SeenSoFar, Working
    <2> QED BY <1>0, <2>1, <2>2, SeenOthers
<1>3. CASE Written(t)
    <2>1. /\ pc[t] = "write" /\ pc'[t] = "look" /\ UNCHANGED <<latest, disturbed, torn>>
          /\ left'[t] = <<"title", "links">>
          /\ seen'[t]["current_url"] = page[t] /\ seen'[t]["visible_text"] = page[t]
          /\ \A u \in Threads \ {t} : seen'[u] = seen[u]
        BY <1>0, <1>3 DEF Written, Goto, DataOK, Fields
    <2>2. \A f \in Fields \ Left(t)' : f \in {"current_url", "visible_text"}
        <3>1. left'[t][1] = "title" /\ left'[t][2] = "links" /\ 1 \in 1..Len(left'[t])
                /\ 2 \in 1..Len(left'[t])
            BY <2>1
        <3>2. {"title", "links"} \subseteq Left(t)'
            BY <3>1 DEF Left
        <3> QED BY <3>2 DEF Fields
    <2>3. t \notin disturbed' => latest' \in Pages /\ page[t] = latest
        BY <2>1 DEF SeenSoFar, Working, CalmSession, SessionInv, WrittenSoFar, Writing
    <2> QED BY <1>0, <2>1, <2>2, <2>3, SeenOthers
<1>4. CASE ReadPage(t)
    <2>1. /\ pc[t] = "recheck" /\ pc'[t] = "look" /\ UNCHANGED <<seen, latest, disturbed>>
          /\ action[t] = "read" /\ session["current_url"] # None /\ left'[t] = InOrder
        BY <1>0, <1>4 DEF ReadPage, Goto, DataOK
    <2>2. Left(t)' = Fields
        BY <2>1, LeftInOrder DEF Left
    <2>3. t \notin disturbed => Writing = {} /\ ~torn
        BY <1>b, <2>1 DEF CalmSession, Working, Writing
    <2>4. t \notin disturbed => latest \in Pages
        BY <1>0, <2>1, <2>3 DEF SessionInv, SessionIsLatest, AllOf, Fields, DataOK
    <2> QED BY <1>0, <2>1, <2>2, <2>4, SeenOthers
<1>5. CASE ReadField(t)
    <2>1. /\ pc[t] = "look" /\ pc'[t] = "look" /\ UNCHANGED <<latest, disturbed, session>>
          /\ left[t] # <<>> /\ left[t] \in Seq(Fields) /\ left'[t] = Tail(left[t])
          /\ seen' = [seen EXCEPT ![t][Head(left[t])] = session[Head(left[t])]]
        BY <1>0, <1>5 DEF ReadField, DataOK
    <2>2. Left(t) \subseteq {Head(left[t])} \cup Left(t)'
        <3>1. {left[t][i] : i \in 1..Len(left[t])}
                \subseteq {Head(left[t])} \cup {Tail(left[t])[i] : i \in 1..Len(Tail(left[t]))}
            BY <2>1, LeftTail
        <3>2. Left(t)' = {Tail(left[t])[i] : i \in 1..Len(Tail(left[t]))}
            BY <2>1 DEF Left
        <3> QED BY <3>1, <3>2 DEF Left
    <2>3. Head(left[t]) \in Fields
        BY <2>1
    <2>4. \A u \in Threads \ {t} : seen'[u] = seen[u]
        BY <1>0, <2>1 DEF DataOK
    <2>5. \A f \in Fields : seen'[t][f] = IF f = Head(left[t]) THEN session[f] ELSE seen[t][f]
        BY <1>0, <2>1, <2>3 DEF DataOK
    <2>6. ASSUME t \notin disturbed
          PROVE  latest \in Pages /\ \A f \in Fields \ Left(t)' : seen'[t][f] = latest
        <3>1. Writing = {} /\ ~torn
            BY <1>b, <2>1, <2>6 DEF CalmSession, Working, Writing
        <3>2. \A f \in Fields : session[f] = latest
            BY <3>1 DEF SessionInv, SessionIsLatest, AllOf
        <3>3. latest \in Pages /\ \A f \in Fields \ Left(t) : seen[t][f] = latest
            BY <2>1, <2>6 DEF SeenSoFar, Working
        <3> QED BY <2>2, <2>5, <3>2, <3>3
    <2> QED BY <1>0, <2>1, <2>4, <2>6, SeenOthers
<1>6. CASE ReadDone(t) \/ OpenDone(t)
    <2>1. /\ pc[t] = "look" /\ pc'[t] \in {"out", "last"} /\ UNCHANGED <<disturbed, seen>>
          /\ left[t] = <<>>
        BY <1>0, <1>6 DEF ReadDone, OpenDone, Return, Goto, DataOK
    <2>2. Left(t) = {}
        BY <2>1 DEF Left
    <2>3. t \notin disturbed => \E p \in Pages : seen[t] = AllOf(p)
        BY <1>a, <2>1, <2>2 DEF SeenSoFar, Working
    <2> QED BY <1>0, <2>1, <2>3, SeenOthers
<1>7. CASE Deliver(t)
    <2>1. /\ pc[t] = "last" /\ pc'[t] = "out" /\ UNCHANGED <<disturbed, seen>>
          /\ result'[t] = result[t]
        BY <1>0, <1>7 DEF Deliver, Return, Goto, DataOK
    <2>2. t \notin disturbed /\ result[t] = "success" => \E p \in Pages : seen[t] = AllOf(p)
        BY <2>1 DEF SeenSoFar, Working
    <2> QED BY <1>0, <2>1, <2>2, SeenOthers
<1> QED BY <1>0, <1>1, <1>2, <1>3, <1>4, <1>5, <1>6, <1>7, SeenNothing

LEMMA AloneStep ==
    CancelInv /\ SessionInv /\ ResultParts /\ [Next]_vars => ResultParts'
<1> SUFFICES ASSUME CancelInv, SessionInv, CalmSession, SeenSoFar, ResultIsOnePage, [Next]_vars
             PROVE  CalmSession' /\ (SeenSoFar /\ ResultIsOnePage)'
    BY DEF ResultParts
<1>1. CalmSession'
    BY CalmStep
<1>2. CASE UNCHANGED vars
    BY <1>1, <1>2 DEF vars, SeenSoFar, ResultIsOnePage, Working, Left
<1>3. CASE Cancel
    <2>1. UNCHANGED <<runVars, disturbed, latest>>
        BY <1>3, Zenon DEF Cancel
    <2> QED BY <1>1, <2>1 DEF SeenSoFar, ResultIsOnePage, Working, Left
<1>4. CASE \E t \in Threads : ThreadStep(t)
    BY <1>1, <1>4, SeenStep
<1> QED BY <1>2, <1>3, <1>4 DEF Next

\* For any number of threads and pages, the result of an action that runs alone, and
\* did not find the session torn, is of one page.
THEOREM ResultsAreOfOnePage == Spec => []ResultIsOnePage
<1>1. Init => ResultParts
    BY DEF Init, ResultParts, CalmSession, SeenSoFar, ResultIsOnePage, Working
<1>2. Spec => []CancelInv
    BY CancelInit, CancelStep, PTL DEF Spec
<1>3. ResultParts => ResultIsOnePage
    BY DEF ResultParts
<1> QED BY <1>1, <1>2, <1>3, SessionAlways, AloneStep, PTL DEF Spec
=============================================================================
