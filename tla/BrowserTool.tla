---------------------------- MODULE BrowserTool ----------------------------
(***************************************************************************)
(* BrowserTool of app/browser/tool.py, with the backend and the session    *)
(* that it owns (backend.py, session.py): one tool object shared by worker *)
(* threads that run execute (an action that the agent gave up on goes on   *)
(* while its retry starts) and by the threads that call cancel.  The       *)
(* session and the flag _cancelled have no lock.                           *)
(***************************************************************************)
EXTENDS Naturals, Sequences

CONSTANTS
    Threads,        \* threads that run execute, one action after the other
    Pages,          \* answers of web servers
    None            \* no page

ASSUME PageAssumption == None \notin Pages

\* Of BrowserSession, in the order in which open writes and a read reads them.
Fields == {"current_url", "title", "visible_text", "links"}
InOrder == <<"current_url", "title", "visible_text", "links">>

\* "open" stands for open, navigate and search, "read" for read_page and
\* extract_visible_text, "sensitive" for all others.
Actions == {"open", "read", "sensitive"}

VARIABLES
    cancelled,      \* _cancelled
    session,        \* the page that each field of the session is from
    pc,             \* where each thread is in execute
    action,         \* its local variable action
    page,           \* the answer that it is opening
    left,           \* fields it has yet to write or to read
    seen,           \* the page that each field of its result is from
    result          \* how its action ended

VARIABLES
    disturbed,  \* history: threads whose action ran together with another one, or
                \* began to read a session that two opens had written together
    torn,       \* history: the last two opens wrote the session together
    latest,     \* history: the page whose open began last to write the session
    owed,       \* history: a cancel found no action that it could still stop
    caught      \* history: threads whose action a cancel is for

runVars == <<pc, action, page, left, seen, result>>
historyVars == <<disturbed, torn, latest, owed, caught>>
vars == <<cancelled, session, runVars, historyVars>>

Labels == {"out", "check", "reset", "permit", "recheck", "fetch", "write", "look", "last"}
Results == {"none", "success", "failed", "cancelled"}

TypeOK ==
    /\ cancelled \in BOOLEAN
    /\ session \in [Fields -> Pages \cup {None}]
    /\ pc \in [Threads -> Labels]
    /\ action \in [Threads -> Actions]
    /\ page \in [Threads -> Pages \cup {None}]
    /\ left \in [Threads -> Seq(Fields)]
    /\ seen \in [Threads -> [Fields -> Pages \cup {None}]]
    /\ result \in [Threads -> Results]
    /\ disturbed \subseteq Threads /\ caught \subseteq Threads
    /\ torn \in BOOLEAN /\ owed \in BOOLEAN
    /\ latest \in Pages \cup {None}

\* A page has its own url, title, text and links, as VisiblePageParser finds them;
\* no page is open in an empty session.
AllOf(p) == [f \in Fields |-> p]

Init ==
    /\ cancelled = FALSE
    /\ session = AllOf(None)
    /\ pc = [t \in Threads |-> "out"]
    /\ action = [t \in Threads |-> "read"]
    /\ page = [t \in Threads |-> None]
    /\ left = [t \in Threads |-> <<>>]
    /\ seen = [t \in Threads |-> AllOf(None)]
    /\ result = [t \in Threads |-> "none"]
    /\ disturbed = {} /\ caught = {} /\ latest = None
    /\ torn = FALSE /\ owed = FALSE

Working == {t \in Threads : pc[t] # "out"}
Goto(t, label) == pc' = [pc EXCEPT ![t] = label]

\* What a thread keeps of an action that has returned is its result.
Return(t, how) ==
    /\ Goto(t, "out")
    /\ result' = [result EXCEPT ![t] = how]
    /\ page' = [page EXCEPT ![t] = None]
    /\ left' = [left EXCEPT ![t] = <<>>]
    /\ UNCHANGED <<action, seen, disturbed, torn, latest, owed, caught>>

-----------------------------------------------------------------------------
(* execute, up to the request *)

\* The arguments are valid; otherwise nothing changes.
Begin(t) ==
    /\ pc[t] = "out"
    /\ Goto(t, "check")
    /\ \E a \in Actions :
        /\ action' = [action EXCEPT ![t] = a]
        /\ disturbed' = IF Working # {} THEN disturbed \cup Working \cup {t}
                        ELSE IF a = "read" /\ torn THEN disturbed \cup {t}
                        ELSE disturbed \ {t}
    /\ seen' = [seen EXCEPT ![t] = AllOf(None)]
    /\ result' = [result EXCEPT ![t] = "none"]
    /\ caught' = IF owed THEN caught \cup {t} ELSE caught \ {t}
    /\ owed' = FALSE
    /\ UNCHANGED <<cancelled, session, page, left, torn, latest>>

CheckCancelled(t) ==
    /\ pc[t] = "check"
    /\ Goto(t, IF cancelled THEN "reset" ELSE "permit")
    /\ UNCHANGED <<cancelled, session, action, page, left, seen, result, historyVars>>

ResetCancelled(t) ==
    /\ pc[t] = "reset"
    /\ cancelled' = FALSE
    /\ Return(t, "cancelled")
    /\ UNCHANGED session

Permit(t) ==
    /\ pc[t] = "permit"
    /\ action[t] # "sensitive"
    /\ Goto(t, "recheck")
    /\ UNCHANGED <<cancelled, session, action, page, left, seen, result, historyVars>>

\* Permission is denied, decide raises, or the action is sensitive.
Refuse(t) ==
    /\ pc[t] = "permit"
    /\ Return(t, "failed")
    /\ UNCHANGED <<cancelled, session>>

\* The second look at the flag leaves it up.
RecheckCancelled(t) ==
    /\ pc[t] = "recheck" /\ cancelled
    /\ Return(t, "cancelled")
    /\ UNCHANGED <<cancelled, session>>

-----------------------------------------------------------------------------
(* open and search *)

RequestPage(t) ==
    /\ pc[t] = "recheck" /\ ~cancelled /\ action[t] = "open"
    /\ Goto(t, "fetch")
    /\ UNCHANGED <<cancelled, session, action, page, left, seen, result, historyVars>>

\* The search is not configured.
SearchNothing(t) ==
    /\ pc[t] = "recheck" /\ ~cancelled /\ action[t] = "open"
    /\ Return(t, "failed")
    /\ UNCHANGED <<cancelled, session>>

Writing == {t \in Threads : pc[t] = "write"}

\* The answer is read and parsed.
ReceivePage(t) ==
    /\ pc[t] = "fetch"
    /\ Goto(t, "write")
    /\ left' = [left EXCEPT ![t] = InOrder]
    /\ \E p \in Pages :
        /\ page' = [page EXCEPT ![t] = p]
        /\ latest' = p
    /\ torn' = (Writing # {})
    /\ UNCHANGED <<cancelled, session, action, seen, result, disturbed, owed, caught>>

\* The url is blocked, there is no answer, or it is too large or not readable.
ReceiveNothing(t) ==
    /\ pc[t] = "fetch"
    /\ Goto(t, "last")
    /\ result' = [result EXCEPT ![t] = "failed"]
    /\ UNCHANGED <<cancelled, session, action, page, left, seen, historyVars>>

\* Mutant: links of a page that has none are not written.
WriteFieldButLinks(t) ==
    /\ pc[t] = "write" /\ left[t] # <<>>
    /\ \/ session' = [session EXCEPT ![Head(left[t])] = page[t]]
       \/ Head(left[t]) = "links" /\ UNCHANGED session
    /\ left' = [left EXCEPT ![t] = Tail(@)]
    /\ UNCHANGED <<cancelled, pc, action, page, seen, result, historyVars>>

WriteField(t) ==
    /\ pc[t] = "write" /\ left[t] # <<>>
    /\ session' = [session EXCEPT ![Head(left[t])] = page[t]]
    /\ left' = [left EXCEPT ![t] = Tail(@)]
    /\ UNCHANGED <<cancelled, pc, action, page, seen, result, historyVars>>

\* Mutant: the result is made before the links are written.
WrittenEarly(t) ==
    /\ pc[t] = "write" /\ Len(left[t]) <= 1
    /\ Goto(t, "look")
    /\ left' = [left EXCEPT ![t] = <<"title", "links">>]
    /\ seen' = [seen EXCEPT ![t]["current_url"] = page[t], ![t]["visible_text"] = page[t]]
    /\ UNCHANGED <<cancelled, session, action, page, result, historyVars>>

\* The result takes url and text from the answer, title and links from the session.
Written(t) ==
    /\ pc[t] = "write" /\ left[t] = <<>>
    /\ Goto(t, "look")
    /\ left' = [left EXCEPT ![t] = <<"title", "links">>]
    /\ seen' = [seen EXCEPT ![t]["current_url"] = page[t], ![t]["visible_text"] = page[t]]
    /\ UNCHANGED <<cancelled, session, action, page, result, historyVars>>

-----------------------------------------------------------------------------
(* Reading the session *)

ReadPage(t) ==
    /\ pc[t] = "recheck" /\ ~cancelled /\ action[t] = "read"
    /\ session["current_url"] # None
    /\ Goto(t, "look")
    /\ left' = [left EXCEPT ![t] = InOrder]
    /\ UNCHANGED <<cancelled, session, action, page, seen, result, historyVars>>

NoPage(t) ==
    /\ pc[t] = "recheck" /\ ~cancelled /\ action[t] = "read"
    /\ session["current_url"] = None
    /\ Return(t, "failed")
    /\ UNCHANGED <<cancelled, session>>

ReadField(t) ==
    /\ pc[t] = "look" /\ left[t] # <<>>
    /\ seen' = [seen EXCEPT ![t][Head(left[t])] = session[Head(left[t])]]
    /\ left' = [left EXCEPT ![t] = Tail(@)]
    /\ UNCHANGED <<cancelled, session, pc, action, page, result, historyVars>>

ReadDone(t) ==
    /\ pc[t] = "look" /\ left[t] = <<>> /\ action[t] = "read"
    /\ Return(t, "success")
    /\ UNCHANGED <<cancelled, session>>

OpenDone(t) ==
    /\ pc[t] = "look" /\ left[t] = <<>> /\ action[t] = "open"
    /\ Goto(t, "last")
    /\ result' = [result EXCEPT ![t] = "success"]
    /\ UNCHANGED <<cancelled, session, action, page, left, seen, historyVars>>

-----------------------------------------------------------------------------
(* _cancelled_result *)

SeeCancelled(t) ==
    /\ pc[t] = "last" /\ cancelled
    /\ Goto(t, "reset")
    /\ UNCHANGED <<cancelled, session, action, page, left, seen, result, historyVars>>

\* Mutant: the flag is not looked at again.
DeliverUnchecked(t) ==
    /\ pc[t] = "last"
    /\ Return(t, result[t])
    /\ UNCHANGED <<cancelled, session>>

Deliver(t) ==
    /\ pc[t] = "last" /\ ~cancelled
    /\ Return(t, result[t])
    /\ UNCHANGED <<cancelled, session>>

-----------------------------------------------------------------------------
(* cancel *)

\* The actions that look at the flag once more, or have seen it.
Stoppable ==
    {t \in Working : pc[t] \in {"check", "reset", "permit", "recheck"} \/ action[t] = "open"}

Cancel ==
    /\ cancelled' = TRUE
    /\ caught' = caught \cup Stoppable
    /\ owed' = (Stoppable = {})
    /\ UNCHANGED <<session, runVars, disturbed, torn, latest>>

-----------------------------------------------------------------------------
ThreadStep(t) ==
    \/ Begin(t) \/ CheckCancelled(t) \/ ResetCancelled(t) \/ Permit(t) \/ Refuse(t)
    \/ RecheckCancelled(t) \/ RequestPage(t) \/ SearchNothing(t)
    \/ ReceivePage(t) \/ ReceiveNothing(t) \/ WriteField(t) \/ Written(t)
    \/ ReadPage(t) \/ NoPage(t) \/ ReadField(t) \/ ReadDone(t) \/ OpenDone(t)
    \/ SeeCancelled(t) \/ Deliver(t)

Next == Cancel \/ \E t \in Threads : ThreadStep(t)

Spec == Init /\ [][Next]_vars

-----------------------------------------------------------------------------
(* Properties *)

\* The docstring of cancel: "Cancel the next/current action".  The action in
\* progress, or the next one when that one looks at the flag no more, does not
\* succeed, unless it runs together with another one.
CaughtActionFails ==
    \A t \in caught \ disturbed : pc[t] = "out" => result[t] \in {"cancelled", "failed"}

\* What an action reports as one page is one page, unless two actions ran together:
\* an open takes part of it back from the session, a read all of it.
ResultIsOnePage ==
    \A t \in Threads \ disturbed :
        pc[t] = "out" /\ result[t] = "success" => \E p \in Pages : seen[t] = AllOf(p)

\* The session is what the last open has left there, cancelled or not, also when
\* earlier ones overlapped.
SessionIsLatest == Writing = {} /\ ~torn => session = AllOf(latest)

-----------------------------------------------------------------------------
(* What the properties rest on *)

\* Only an open has a request, and no sensitive action has a result.
OnlyOpensFetch ==
    \A t \in Threads :
        /\ pc[t] \in {"fetch", "write", "last"} => action[t] = "open"
        /\ pc[t] = "look" => action[t] \in {"open", "read"}

UndisturbedIsAlone == \A t \in Working \ disturbed : Working = {t}

\* Nothing takes back a cancel that is for the next action.
OwedIsKept == owed => cancelled /\ Stoppable = {}

CaughtIsSeen ==
    \A t \in Working \cap (caught \ disturbed) :
        pc[t] = "reset" \/ (cancelled /\ t \in Stoppable)

CancelInv ==
    TypeOK /\ OnlyOpensFetch /\ UndisturbedIsAlone /\ OwedIsKept /\ CaughtIsSeen /\ CaughtActionFails

Left(t) == {left[t][i] : i \in 1..Len(left[t])}

\* The one open that writes has written what it has not left.
WrittenSoFar ==
    ~torn => \A t \in Writing :
        /\ Writing = {t}
        /\ page[t] = latest
        /\ \A f \in Fields \ Left(t) : session[f] = latest

SessionInv == TypeOK /\ WrittenSoFar /\ SessionIsLatest

\* An action that runs alone does not find the session torn.
CalmSession ==
    \A t \in Working \ disturbed : action[t] = "read" \/ pc[t] \in {"write", "look"} => ~torn

\* It has seen one page in what it has not left to read.
SeenSoFar ==
    \A t \in Working \ disturbed :
        /\ pc[t] \in {"write", "look"} => latest \in Pages
        /\ pc[t] = "look" => \A f \in Fields \ Left(t) : seen[t][f] = latest
        /\ pc[t] = "last" /\ result[t] = "success" => \E p \in Pages : seen[t] = AllOf(p)

ResultParts == CalmSession /\ SeenSoFar /\ ResultIsOnePage
=============================================================================
