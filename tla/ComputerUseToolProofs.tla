----------------------- MODULE ComputerUseToolProofs -----------------------
(***************************************************************************)
(* Theorems about ComputerUseTool, for any number of calls.                *)
(***************************************************************************)
EXTENDS ComputerUseTool, TLAPS

USE DEF callVars, itemVars, historyVars

-----------------------------------------------------------------------------
(* Types; the Boolean variables apart from the others *)

FlagsOK == cancelled \in BOOLEAN /\ owed \in BOOLEAN

DataOK ==
    /\ version \in Nat
    /\ pc \in [Calls -> Labels]
    /\ before \in [Calls -> Nat] /\ after \in [Calls -> Nat]
    /\ outcome \in [Calls -> Outcomes]
    /\ item \in [Calls -> Unfinished \cup {"none", "dropped", "done"}]
    /\ loaded \in [Calls -> Nat]
    /\ overlapped \subseteq Calls /\ caught \subseteq Calls

LEMMA TypeParts == (TypeOK <=> FlagsOK /\ DataOK) /\ (TypeOK' <=> FlagsOK' /\ DataOK')
BY Zenon DEF TypeOK, FlagsOK, DataOK

LEMMA FlagsStep == FlagsOK /\ [Next]_vars => FlagsOK'
<1> SUFFICES ASSUME FlagsOK, [Next]_vars
             PROVE  FlagsOK'
    OBVIOUS
<1>1. UNCHANGED cancelled \/ cancelled' = TRUE \/ cancelled' = FALSE
    BY Zenon DEF Next, vars, Cancel, Begin, CallStep, ItemStep, CheckCancelled, ResetCancelled,
        Refuse, Permit, Submit, AwaitResult, TimeOut, LookCancelled, Verify, Shutdown,
        Take, LoadVersion, StoreVersion
<1>2. UNCHANGED owed \/ owed' = FALSE \/ owed' = (Stoppable = {})
    BY Zenon DEF Next, vars, Cancel, Begin, CallStep, ItemStep, CheckCancelled, ResetCancelled,
        Refuse, Permit, Submit, AwaitResult, TimeOut, LookCancelled, Verify, Shutdown,
        Take, LoadVersion, StoreVersion
<1> QED BY <1>1, <1>2, Zenon DEF FlagsOK

LEMMA CallData ==
    ASSUME DataOK, NEW c \in Calls, CallStep(c) \/ ItemStep(c) \/ Begin(c)
    PROVE  DataOK'
<1> USE DEF DataOK, Goto, End, SetItem, Labels, Outcomes, Unfinished
<1>1. CASE Begin(c)
    <2>1. overlapped' \subseteq Calls
        BY <1>1 DEF Begin, Active, Working
    <2>2. caught' \subseteq Calls
        BY <1>1, Zenon DEF Begin
    <2> QED BY <1>1, <2>1, <2>2 DEF Begin
<1>2. CASE CheckCancelled(c) \/ ResetCancelled(c) \/ Refuse(c)
    BY <1>2 DEF CheckCancelled, ResetCancelled, Refuse
<1>3. CASE Permit(c) \/ Submit(c) \/ AwaitResult(c) \/ TimeOut(c)
    BY <1>3 DEF Permit, Submit, AwaitResult, TimeOut
<1>4. CASE LookCancelled(c) \/ Verify(c) \/ Shutdown(c)
    BY <1>4 DEF LookCancelled, Verify, Shutdown
<1>5. CASE ItemStep(c)
    BY <1>5 DEF ItemStep, Take, LoadVersion, StoreVersion
<1> QED BY <1>1, <1>2, <1>3, <1>4, <1>5 DEF CallStep

LEMMA StepType == TypeOK /\ [Next]_vars => TypeOK'
<1> SUFFICES ASSUME DataOK, [Next]_vars
             PROVE  DataOK'
    BY FlagsStep, TypeParts, Zenon
<1>1. CASE UNCHANGED vars
    BY <1>1 DEF vars, DataOK
<1>2. CASE Cancel
    <2>1. caught' \subseteq Calls
        BY <1>2 DEF Cancel, DataOK, Stoppable
    <2>2. UNCHANGED <<version, callVars, itemVars, overlapped>>
        BY <1>2, Zenon DEF Cancel
    <2> QED BY <2>1, <2>2 DEF DataOK
<1> QED BY <1>1, <1>2, CallData DEF Next

LEMMA InitType == Init => TypeOK
<1> SUFFICES ASSUME Init
             PROVE  TypeOK
    OBVIOUS
<1>1. FlagsOK
    BY Zenon DEF Init, FlagsOK
<1>2. DataOK
    BY DEF Init, DataOK, Labels, Outcomes, Unfinished
<1> QED BY <1>1, <1>2, TypeParts

\* The tool's flag, the calls and their work items keep their types.
THEOREM TypeCorrect == Spec => []TypeOK
BY InitType, StepType, PTL DEF Spec

-----------------------------------------------------------------------------
(* Which calls are alone *)

\* A step of a call or of its executor leaves the other calls alone.
LEMMA OthersStay ==
    ASSUME DataOK, NEW c \in Calls, CallStep(c) \/ ItemStep(c) \/ Begin(c)
    PROVE  \A d \in Calls \ {c} :
              /\ pc'[d] = pc[d] /\ before'[d] = before[d] /\ after'[d] = after[d]
              /\ outcome'[d] = outcome[d] /\ item'[d] = item[d] /\ loaded'[d] = loaded[d]
BY DEF DataOK, Goto, End, SetItem, CallStep, ItemStep, Begin, CheckCancelled, ResetCancelled,
    Refuse, Permit, Submit, AwaitResult, TimeOut, LookCancelled, Verify, Shutdown,
    Take, LoadVersion, StoreVersion

\* Only one that begins becomes active.
LEMMA ActiveShrinks ==
    ASSUME DataOK, NEW c \in Calls, CallStep(c) \/ ItemStep(c)
    PROVE  c \in Active /\ Active' \subseteq Active /\ UNCHANGED overlapped
<1>1. c \in Active
    BY DEF DataOK, Active, Working, Unfinished, CallStep, ItemStep, CheckCancelled, ResetCancelled,
        Refuse, Permit, Submit, AwaitResult, TimeOut, LookCancelled, Verify, Shutdown,
        Take, LoadVersion, StoreVersion
<1>2. Active' \subseteq Active
    BY <1>1, OthersStay DEF Active, Working
<1>3. UNCHANGED overlapped
    BY DEF CallStep, ItemStep, CheckCancelled, ResetCancelled,
        Refuse, Permit, Submit, AwaitResult, TimeOut, LookCancelled, Verify, Shutdown,
        Take, LoadVersion, StoreVersion
<1> QED BY <1>1, <1>2, <1>3

LEMMA BeginAlone ==
    ASSUME DataOK, NEW c \in Calls, Begin(c)
    PROVE  /\ Active' = Active \cup {c}
           /\ Active # {} => Active' \subseteq overlapped'
           /\ overlapped \subseteq overlapped'
<1>1. pc' = [pc EXCEPT ![c] = "check"] /\ UNCHANGED item
    BY DEF Begin, Goto
<1>2. Active' = Active \cup {c}
    BY <1>1 DEF Active, Working, DataOK
<1> QED BY <1>2 DEF Begin

LEMMA StepAlone == TypeOK /\ AloneIsActive /\ [Next]_vars => AloneIsActive'
<1> SUFFICES ASSUME DataOK, AloneIsActive, [Next]_vars
             PROVE  AloneIsActive'
    BY TypeParts
<1>1. CASE UNCHANGED vars \/ Cancel
    <2>1. UNCHANGED <<pc, item, overlapped>>
        BY <1>1, Zenon DEF vars, Cancel
    <2> QED BY <2>1 DEF AloneIsActive, Active, Working
<1>2. ASSUME NEW c \in Calls, Begin(c)
      PROVE  AloneIsActive'
    <2>1. CASE Active = {}
        BY <1>2, <2>1, BeginAlone DEF AloneIsActive
    <2>2. CASE Active # {}
        BY <1>2, <2>2, BeginAlone DEF AloneIsActive
    <2> QED BY <2>1, <2>2
<1>3. ASSUME NEW c \in Calls, CallStep(c) \/ ItemStep(c)
      PROVE  AloneIsActive'
    BY <1>3, ActiveShrinks DEF AloneIsActive
<1> QED BY <1>1, <1>2, <1>3 DEF Next

LEMMA InitAlone == Init => AloneIsActive
BY DEF Init, AloneIsActive, Active, Working, Unfinished
-----------------------------------------------------------------------------
(* Cancels *)

CancelParts == OwedIsKept /\ CaughtIsSeen /\ CaughtActionFails

\* The steps of a call, but the one that resets the flag.
LEMMA GoesOn ==
    ASSUME DataOK, NEW c \in Calls, CallStep(c) \/ ItemStep(c), ~ResetCancelled(c)
    PROVE  /\ UNCHANGED <<cancelled, owed, caught>>
           /\ \/ pc'[c] = pc[c] /\ outcome'[c] = outcome[c]
              \/ pc[c] = "check" /\ cancelled /\ pc'[c] = "reset" /\ outcome'[c] = outcome[c]
              \/ pc[c] = "check" /\ ~cancelled /\ pc'[c] = "permit" /\ outcome'[c] = outcome[c]
              \/ /\ pc[c] \in {"permit", "submit", "wait"} /\ outcome'[c] = outcome[c]
                 /\ pc'[c] \in {"submit", "wait", "look"}
              \/ pc[c] = "look" /\ ~cancelled /\ pc'[c] = "verify" /\ outcome'[c] = outcome[c]
              \/ pc[c] = "verify" /\ pc'[c] = "shutdown"
              \/ /\ pc[c] \in {"permit", "wait", "look"} /\ outcome'[c] # "success"
                 /\ pc'[c] \in {"shutdown", "returned"}
              \/ pc[c] = "shutdown" /\ pc'[c] = "returned" /\ outcome'[c] = outcome[c]
<1>1. UNCHANGED <<cancelled, owed, caught>>
    BY Zenon DEF CallStep, ItemStep, CheckCancelled, Refuse, Permit, Submit, AwaitResult, TimeOut,
        LookCancelled, Verify, Shutdown, Take, LoadVersion, StoreVersion
<1> USE DEF DataOK, Goto, End
<1>2. CASE CheckCancelled(c) \/ Permit(c) \/ Submit(c) \/ AwaitResult(c)
    BY <1>1, <1>2 DEF CheckCancelled, Permit, Submit, AwaitResult
<1>3. CASE Refuse(c) \/ TimeOut(c) \/ LookCancelled(c) \/ Verify(c) \/ Shutdown(c)
    BY <1>1, <1>3 DEF Refuse, TimeOut, LookCancelled, Verify, Shutdown
<1>4. CASE ItemStep(c)
    BY <1>1, <1>4 DEF ItemStep, Take, LoadVersion, StoreVersion
<1> QED BY <1>2, <1>3, <1>4 DEF CallStep

LEMMA CancelBegin ==
    ASSUME CancelInv, DataOK, NEW c \in Calls, Begin(c)
    PROVE  CancelParts'
<1> USE DEF CancelInv, DataOK
<1>0. \A d \in Calls \ {c} : pc'[d] = pc[d] /\ outcome'[d] = outcome[d]
    BY OthersStay
<1>1. /\ pc[c] = "new" /\ pc'[c] = "check" /\ outcome'[c] = outcome[c]
      /\ UNCHANGED cancelled
      /\ caught' = IF owed THEN caught \cup {c} ELSE caught
      /\ owed' = FALSE
    BY DEF Begin, Goto
<1>2. overlapped \subseteq overlapped'
    BY BeginAlone
<1>3. OwedIsKept'
    BY <1>1, Zenon DEF OwedIsKept
<1>4. owed => cancelled
    BY Zenon DEF OwedIsKept
<1>5. CaughtIsSeen'
    BY <1>0, <1>1, <1>2, <1>4 DEF CaughtIsSeen
<1>6. CaughtActionFails'
    BY <1>0, <1>1, <1>2 DEF CaughtIsSeen, CaughtActionFails
<1> QED BY <1>3, <1>5, <1>6 DEF CancelParts

\* The flag is reset for an overlapped call only, or for the one that is alone.
LEMMA CancelReset ==
    ASSUME CancelInv, DataOK, NEW c \in Calls, ResetCancelled(c)
    PROVE  CancelParts'
<1> USE DEF CancelInv
<1>0. \A d \in Calls \ {c} : pc'[d] = pc[d] /\ outcome'[d] = outcome[d]
    BY OthersStay DEF CallStep
<1>1. /\ pc[c] = "reset" /\ pc'[c] = "returned" /\ outcome'[c] = "cancelled"
      /\ UNCHANGED <<owed, caught, overlapped>>
    BY DEF ResetCancelled, End, Goto, DataOK
<1>2. ~owed
    BY <1>1 DEF OwedIsKept, Stoppable
<1>3. OwedIsKept'
    BY <1>1, <1>2 DEF OwedIsKept
<1>4. \A d \in Calls \ {c} : pc[d] \in {"check", "permit", "submit", "wait", "look"} => d \in overlapped
    BY <1>1 DEF AloneIsActive, Active, Working
<1>5. CaughtIsSeen'
    BY <1>0, <1>1, <1>4 DEF CaughtIsSeen, DataOK
<1>6. CaughtActionFails'
    BY <1>0, <1>1 DEF CaughtActionFails, DataOK
<1> QED BY <1>3, <1>5, <1>6 DEF CancelParts

LEMMA CancelGoesOn ==
    ASSUME CancelInv, DataOK, NEW c \in Calls, CallStep(c) \/ ItemStep(c), ~ResetCancelled(c)
    PROVE  CancelParts'
<1> USE DEF CancelInv
<1>0. \A d \in Calls \ {c} : pc'[d] = pc[d] /\ outcome'[d] = outcome[d]
    BY OthersStay
<1>1. UNCHANGED <<cancelled, owed, caught, overlapped>>
    BY GoesOn, ActiveShrinks
<1>g. \/ pc'[c] = pc[c] /\ outcome'[c] = outcome[c]
      \/ pc[c] = "check" /\ cancelled /\ pc'[c] = "reset" /\ outcome'[c] = outcome[c]
      \/ pc[c] = "check" /\ ~cancelled /\ pc'[c] = "permit" /\ outcome'[c] = outcome[c]
      \/ /\ pc[c] \in {"permit", "submit", "wait"} /\ outcome'[c] = outcome[c]
         /\ pc'[c] \in {"submit", "wait", "look"}
      \/ pc[c] = "look" /\ ~cancelled /\ pc'[c] = "verify" /\ outcome'[c] = outcome[c]
      \/ pc[c] = "verify" /\ pc'[c] = "shutdown"
      \/ /\ pc[c] \in {"permit", "wait", "look"} /\ outcome'[c] # "success"
         /\ pc'[c] \in {"shutdown", "returned"}
      \/ pc[c] = "shutdown" /\ pc'[c] = "returned" /\ outcome'[c] = outcome[c]
    BY GoesOn
<1>2. OwedIsKept'
    BY <1>0, <1>1, <1>g DEF OwedIsKept, Stoppable
<1>3. CaughtIsSeen'
    <2>1. (\A d \in caught : pc[d] # "new") => (\A d \in caught : pc'[d] # "new")
        BY <1>0, <1>g DEF DataOK
    <2>2. \A d \in caught \ overlapped :
            /\ pc'[d] \in {"check", "permit", "submit", "wait", "look"} => cancelled
            /\ pc'[d] # "verify"
        BY <1>0, <1>g DEF CaughtIsSeen, DataOK
    <2>3. \A d \in Calls : outcome'[d] # "none" => pc'[d] \in {"shutdown", "returned"}
        BY <1>0, <1>g DEF CaughtIsSeen
    <2> QED BY <1>1, <2>1, <2>2, <2>3 DEF CaughtIsSeen
<1>4. CaughtActionFails'
    BY <1>0, <1>1, <1>g DEF CaughtIsSeen, CaughtActionFails, DataOK
<1> QED BY <1>2, <1>3, <1>4 DEF CancelParts

LEMMA CancelCancel == ASSUME CancelInv, Cancel PROVE CancelParts'
<1>1. /\ cancelled' = TRUE /\ caught' = caught \cup Stoppable /\ owed' = (Stoppable = {})
      /\ UNCHANGED <<callVars, overlapped>>
    BY Zenon DEF Cancel
<1>2. OwedIsKept'
    BY <1>1 DEF OwedIsKept, Stoppable
<1>3. CaughtIsSeen'
    BY <1>1 DEF CancelInv, CaughtIsSeen, Stoppable
<1>4. CaughtActionFails'
    BY <1>1 DEF CancelInv, CaughtIsSeen, CaughtActionFails, Stoppable
<1> QED BY <1>2, <1>3, <1>4 DEF CancelParts

LEMMA CancelInit == Init => CancelInv
<1> SUFFICES ASSUME Init
             PROVE  CancelInv
    OBVIOUS
<1>1. ~owed
    BY Zenon DEF Init
<1>2. /\ \A c \in Calls : pc[c] = "new" /\ outcome[c] = "none"
      /\ caught = {}
    BY DEF Init
<1> QED BY <1>1, <1>2, InitType, InitAlone DEF CancelInv, OwedIsKept, CaughtIsSeen, CaughtActionFails

LEMMA CancelStep == CancelInv /\ [Next]_vars => CancelInv'
<1> SUFFICES ASSUME CancelInv, [Next]_vars
             PROVE  CancelInv'
    OBVIOUS
<1>0. TypeOK' /\ DataOK /\ AloneIsActive'
    BY StepType, StepAlone, TypeParts, Zenon DEF CancelInv
<1>1. CASE UNCHANGED vars
    BY <1>0, <1>1 DEF vars, CancelInv, OwedIsKept, CaughtIsSeen, CaughtActionFails, Stoppable
<1>2. CASE Cancel
    BY <1>0, <1>2, CancelCancel DEF CancelInv, CancelParts
<1>3. CASE \E c \in Calls : Begin(c) \/ CallStep(c) \/ ItemStep(c)
    BY <1>0, <1>3, CancelBegin, CancelReset, CancelGoesOn DEF CancelInv, CancelParts
<1> QED BY <1>1, <1>2, <1>3 DEF Next

\* A cancel stops the call in progress, or the next one, for any number of calls:
\* the induction needs which calls are alone, and that nothing else takes back the
\* flag of a call that is.
THEOREM CaughtAlwaysFails == Spec => []CaughtActionFails
<1>1. CancelInv => CaughtActionFails
    BY DEF CancelInv
<1> QED BY <1>1, CancelInit, CancelStep, PTL DEF Spec

-----------------------------------------------------------------------------
(* The screen *)

ScreenParts == ItemFollowsCall /\ ScreenWhenAlone /\ LeftoverTimedOut /\ VerifiedIsItsOwn

LEMMA ScreenBegin ==
    ASSUME ScreenInv, DataOK, NEW c \in Calls, Begin(c)
    PROVE  ScreenParts'
<1>0. \A d \in Calls \ {c} : pc'[d] = pc[d]
    BY OthersStay
<1>1. /\ pc[c] = "new" /\ pc'[c] = "check"
      /\ UNCHANGED <<version, before, after, outcome, itemVars>>
    BY DEF Begin, Goto, DataOK
<1>2. /\ overlapped \subseteq overlapped' /\ Active' = Active \cup {c}
      /\ Active # {} => Active' \subseteq overlapped'
    BY BeginAlone
<1>3. ItemFollowsCall' /\ LeftoverTimedOut' /\ VerifiedIsItsOwn'
    BY <1>0, <1>1, <1>2 DEF ScreenInv, ItemFollowsCall, LeftoverTimedOut, VerifiedIsItsOwn
<1>4. item[c] = "none"
    BY <1>1 DEF ScreenInv, ItemFollowsCall
<1>5. ScreenWhenAlone'
    BY <1>1, <1>2, <1>4 DEF ScreenWhenAlone
<1> QED BY <1>3, <1>5 DEF ScreenParts

\* What the step of a call, or of its executor, does to the call itself and to the screen.
LEMMA ScreenGoesOn ==
    ASSUME ScreenInv, DataOK, NEW c \in Calls, CallStep(c) \/ ItemStep(c)
    PROVE  ScreenParts'
<1> USE DEF ScreenInv
<1>0. \A d \in Calls \ {c} :
          /\ pc'[d] = pc[d] /\ before'[d] = before[d] /\ after'[d] = after[d]
          /\ outcome'[d] = outcome[d] /\ item'[d] = item[d] /\ loaded'[d] = loaded[d]
    BY OthersStay
<1>1. c \in Active /\ Active' \subseteq Active /\ UNCHANGED overlapped
    BY ActiveShrinks
<1>2. \A d \in Active \ overlapped : d = c
    BY <1>1 DEF AloneIsActive
<1> USE DEF DataOK, Goto, End, SetItem, Unfinished
<1>3. ItemFollowsCall'
    <2> SUFFICES /\ pc'[c] \in {"new", "check", "reset", "permit", "submit"} => item'[c] = "none"
                 /\ pc'[c] \in {"look", "verify"} => item'[c] = "done"
                 /\ item'[c] \in Unfinished /\ pc'[c] \in {"shutdown", "returned"} =>
                      outcome'[c] = "timeout"
        BY <1>0 DEF ItemFollowsCall
    <2>1. CASE CallStep(c)
        BY <2>1 DEF ItemFollowsCall, CallStep, CheckCancelled, ResetCancelled, Refuse, Permit,
            Submit, AwaitResult, TimeOut, LookCancelled, Verify, Shutdown
    <2>2. CASE ItemStep(c)
        BY <2>2 DEF ItemFollowsCall, ItemStep, Take, LoadVersion, StoreVersion
    <2> QED BY <2>1, <2>2
<1>4. LeftoverTimedOut'
    <2> SUFFICES item'[c] \in Unfinished /\ pc'[c] = "returned" =>
                    outcome'[c] = "timeout" /\ item'[c] # "queued"
        BY <1>0 DEF LeftoverTimedOut
    <2>1. CASE CallStep(c)
        BY <2>1 DEF ItemFollowsCall, LeftoverTimedOut, CallStep, CheckCancelled, ResetCancelled,
            Refuse, Permit, Submit, AwaitResult, TimeOut, LookCancelled, Verify, Shutdown
    <2>2. CASE ItemStep(c)
        BY <2>2 DEF ItemFollowsCall, LeftoverTimedOut, ItemStep, Take, LoadVersion, StoreVersion
    <2> QED BY <2>1, <2>2
<1>5. ScreenWhenAlone'
    <2> SUFFICES ASSUME c \in Active' \ overlapped
                 PROVE  /\ pc'[c] \in {"submit", "wait"} /\ item'[c] # "done" => version' = before'[c]
                        /\ item'[c] = "loaded" => loaded'[c] = version'
                        /\ pc'[c] \in {"wait", "look", "verify"} /\ item'[c] = "done" =>
                              version' = before'[c] + 1
        BY <1>1, <1>2 DEF ScreenWhenAlone
    <2>1. CASE CallStep(c)
        BY <1>1, <2>1 DEF ScreenWhenAlone, ItemFollowsCall, CallStep, CheckCancelled, ResetCancelled,
            Refuse, Permit, Submit, AwaitResult, TimeOut, LookCancelled, Verify, Shutdown
    <2>2. CASE ItemStep(c)
        BY <1>1, <2>2 DEF ScreenWhenAlone, ItemFollowsCall, ItemStep, Take, LoadVersion, StoreVersion
    <2> QED BY <2>1, <2>2
<1>6. VerifiedIsItsOwn'
    <2> SUFFICES ASSUME c \notin overlapped
                 PROVE  /\ outcome'[c] = "success" => item'[c] = "done" /\ after'[c] = before'[c] + 1
                        /\ outcome'[c] # "verification_failed"
        BY <1>0, <1>1 DEF VerifiedIsItsOwn
    <2>1. CASE Verify(c)
        <3>1. pc[c] = "verify" /\ item[c] = "done" /\ version = before[c] + 1
            BY <1>1, <2>1 DEF Verify, ItemFollowsCall, ScreenWhenAlone
        <3> QED BY <2>1, <3>1 DEF Verify
    <2>2. CASE CallStep(c) /\ ~Verify(c)
        BY <2>2 DEF VerifiedIsItsOwn, ItemFollowsCall, CallStep, CheckCancelled, ResetCancelled,
            Refuse, Permit, Submit, AwaitResult, TimeOut, LookCancelled, Shutdown
    <2>3. CASE ItemStep(c)
        BY <2>3 DEF VerifiedIsItsOwn, ItemStep, Take, LoadVersion, StoreVersion
    <2> QED BY <2>1, <2>2, <2>3
<1> QED BY <1>3, <1>4, <1>5, <1>6 DEF ScreenParts

LEMMA ScreenInit == Init => ScreenInv
BY InitType, InitAlone DEF Init, ScreenInv, ItemFollowsCall, ScreenWhenAlone, LeftoverTimedOut,
    VerifiedIsItsOwn, Active, Working, Unfinished

LEMMA ScreenStep == ScreenInv /\ [Next]_vars => ScreenInv'
<1> SUFFICES ASSUME ScreenInv, [Next]_vars
             PROVE  ScreenInv'
    OBVIOUS
<1>0. TypeOK' /\ DataOK /\ AloneIsActive'
    BY StepType, StepAlone, TypeParts, Zenon DEF ScreenInv
<1>1. CASE UNCHANGED vars \/ Cancel
    <2>1. UNCHANGED <<version, callVars, itemVars, overlapped>>
        BY <1>1, Zenon DEF vars, Cancel
    <2> QED BY <1>0, <2>1 DEF ScreenInv, ItemFollowsCall, ScreenWhenAlone, LeftoverTimedOut,
            VerifiedIsItsOwn, Active, Working
<1>2. CASE \E c \in Calls : Begin(c) \/ CallStep(c) \/ ItemStep(c)
    BY <1>0, <1>2, ScreenBegin, ScreenGoesOn DEF ScreenInv, ScreenParts
<1> QED BY <1>1, <1>2 DEF Next

LEMMA ScreenAlways == Spec => []ScreenInv
BY ScreenInit, ScreenStep, PTL DEF Spec

\* A call that was not overlapped reports the change that its own action made.
THEOREM VerifiedAlwaysOwn == Spec => []VerifiedIsItsOwn
<1>1. ScreenInv => VerifiedIsItsOwn
    BY DEF ScreenInv
<1> QED BY <1>1, ScreenAlways, PTL

\* Only a call that timed out leaves an action running, and none that is yet to begin.
THEOREM LeftoverAlwaysTimedOut == Spec => []LeftoverTimedOut
<1>1. ScreenInv => LeftoverTimedOut
    BY DEF ScreenInv
<1> QED BY <1>1, ScreenAlways, PTL
=============================================================================
