-------------------------- MODULE RagManagerProofs --------------------------
(***************************************************************************)
(* Theorems about RagManager, for any files, directories, texts and chunk  *)
(* sizes.                                                                  *)
(***************************************************************************)
EXTENDS RagManager, TLAPS

USE DEF walkVars, fileVars

-----------------------------------------------------------------------------
(* _chunk *)

\* A chunk is not empty and ends within the text.
LEMMA EndBounds ==
    ASSUME text \in Seq(Chars), start \in Nat, start < Len(text)
    PROVE  End \in Nat /\ start < End /\ End <= Len(text)
<1> USE ChunkAssumption
<1>0. Len(text) \in Nat
    OBVIOUS
<1> DEFINE to == IF start + Size < Len(text) THEN start + Size ELSE Len(text)
<1>1. to \in Nat /\ start < to /\ to <= Len(text)
    BY <1>0
<1>2. \A b \in start..to : IsBoundary(b, to) => start < b
    <2> SUFFICES ASSUME NEW b \in start..to, IsBoundary(b, to)
                 PROVE  start < b
        OBVIOUS
    <2>1. b \in (start + Size \div 2 + 1)..(to - 1)
        BY DEF IsBoundary
    <2>2. Size \div 2 \in Nat
        OBVIOUS
    <2> QED BY <1>1, <2>1, <2>2
<1>3. CASE to < Len(text) /\ \E b \in start..to : IsBoundary(b, to)
    <2>1. End = CHOOSE b \in start..to : IsBoundary(b, to)
        BY <1>3 DEF End
    <2>2. End \in start..to /\ IsBoundary(End, to)
        BY <1>3, <2>1
    <2> QED BY <1>1, <1>2, <2>2
<1>4. CASE ~(to < Len(text) /\ \E b \in start..to : IsBoundary(b, to))
    BY <1>1, <1>4 DEF End
<1> QED BY <1>3, <1>4

\* The next chunk begins later, and leaves no gap.
LEMMA NextStartBounds ==
    ASSUME start \in Nat, NEW end \in Nat, start < end
    PROVE  NextStart(end) \in Nat /\ start < NextStart(end) /\ NextStart(end) <= end
BY ChunkAssumption DEF NextStart

-----------------------------------------------------------------------------
(* Types *)

LEMMA CutType == ASSUME TypeOK, InHand, Cut PROVE TypeOK'
<1>1. text \in Seq(Chars) /\ start \in Nat /\ start < Len(text)
    BY TextAssumption DEF TypeOK, InHand, Cut
<1>2. End \in Nat /\ start < End
    BY <1>1, EndBounds
<1>3. chunks' \subseteq Chunks
    BY <1>1, <1>2 DEF Cut, TypeOK, Chunks
<1>4. start' \in Nat
    BY <1>1, <1>2, NextStartBounds DEF Cut
<1>5. pc' \in Labels
    BY DEF Cut, Goto, TypeOK, Labels
<1> QED BY <1>3, <1>4, <1>5 DEF Cut, TypeOK

LEMMA WalkType ==
    ASSUME TypeOK, InHand, Index \/ ListDirectory \/ SkipDirectory \/ ReadFile \/ SkipFile
    PROVE  TypeOK'
<1> USE DEF TypeOK, Goto, Labels
<1>1. CASE Index
    BY <1>1 DEF Index
<1>2. CASE ListDirectory
    BY <1>2 DEF ListDirectory, In
<1>3. CASE SkipDirectory
    BY <1>3 DEF SkipDirectory, In
<1>4. CASE ReadFile
    <2>1. PICK p \in queue : files[p] # None /\ queue' = queue \ {p} /\ path' = p /\ text' = files[p]
        BY <1>4 DEF ReadFile
    <2>2. text' \in Texts
        BY <2>1
    <2> QED BY <1>4, <2>1, <2>2 DEF ReadFile
<1>5. CASE SkipFile
    BY <1>5 DEF SkipFile
<1> QED BY <1>1, <1>2, <1>3, <1>4, <1>5

LEMMA StoreType ==
    ASSUME TypeOK, InHand, CutNothing \/ Store \/ FindStale \/ Remove \/ Report \/ Abort
    PROVE  TypeOK'
<1> USE DEF TypeOK, Goto, Labels, FileDone
<1>1. CASE CutNothing
    BY <1>1 DEF CutNothing
<1>2. CASE Store
    <2>1. [text |-> text, chunks |-> chunks] \in Documents
        BY <1>2 DEF Store, InHand, Documents
    <2>2. db' \in [Paths -> Documents \cup {None}]
        BY <1>2, <2>1 DEF Store
    <2> QED BY <1>2, <2>2 DEF Store, InHand
<1>3. CASE FindStale
    BY <1>3 DEF FindStale, Stale
<1>4. CASE Remove
    BY <1>4 DEF Remove
<1>5. CASE Report
    BY <1>5 DEF Report
<1>6. CASE Abort
    BY <1>6 DEF Abort
<1> QED BY <1>1, <1>2, <1>3, <1>4, <1>5, <1>6

LEMMA WorldType == ASSUME TypeOK, DeleteIndexedData \/ ChangeFile PROVE TypeOK'
<1> USE DEF TypeOK
<1>1. CASE DeleteIndexedData
    <2>1. PICK matched \in Deletions :
            /\ db' = [p \in Paths |-> IF p \in matched THEN None ELSE db[p]]
            /\ touched' = touched \cup matched
        BY <1>1 DEF DeleteIndexedData
    <2>2. touched' \subseteq Paths
        BY <2>1, PathAssumption
    <2>3. db' \in [Paths -> Documents \cup {None}]
        BY <2>1
    <2> QED BY <1>1, <2>2, <2>3 DEF DeleteIndexedData
<1>2. CASE ChangeFile
    BY <1>2 DEF ChangeFile
<1> QED BY <1>1, <1>2

LEMMA StepType == TypeOK /\ InHand /\ [Next]_vars => TypeOK' /\ InHand'
<1> SUFFICES ASSUME TypeOK, InHand, [Next]_vars
             PROVE  TypeOK' /\ InHand'
    OBVIOUS
<1>1. TypeOK'
    <2>1. CASE UNCHANGED vars
        BY <2>1 DEF TypeOK, vars
    <2> QED BY <2>1, CutType, WalkType, StoreType, WorldType DEF Next, IndexStep
<1>2. InHand'
    <2>1. CASE UNCHANGED <<pc, path, text>>
        BY <2>1 DEF InHand
    <2>2. CASE ReadFile
        BY <2>2 DEF ReadFile, TypeOK, InHand
    <2>3. CASE pc' \notin {"chunk", "store"}
        BY <2>3 DEF InHand
    <2>4. CASE Cut \/ CutNothing
        BY <2>4 DEF Cut, CutNothing, InHand
    <2> QED BY <2>1, <2>2, <2>3, <2>4 DEF Next, IndexStep, Index, ListDirectory, SkipDirectory,
            SkipFile, Store, FindStale, Remove, Report, Abort, DeleteIndexedData, ChangeFile,
            Goto, vars
<1> QED BY <1>1, <1>2

LEMMA InitType == Init => TypeOK /\ InHand
BY DEF Init, TypeOK, InHand, Labels

\* Every document that is stored is one whole content with its own chunks, and a
\* run that holds a file holds a content of it: for any files and chunk sizes.
THEOREM TypeCorrect == Spec => []TypeOK
<1>1. TypeOK /\ InHand /\ [Next]_vars => (TypeOK /\ InHand)'
    BY StepType
<1> QED BY <1>1, InitType, PTL DEF Spec

-----------------------------------------------------------------------------
(* Stored documents are whole *)

\* One iteration covers what it passes.
LEMMA CutCovers == ASSUME TypeOK, InHand, CutSoFar, Cut PROVE CutSoFar'
<1>1. text \in Seq(Chars) /\ start \in Nat /\ start < Len(text) /\ pc = "chunk" /\ text' = text
    BY TextAssumption DEF TypeOK, InHand, Cut
<1>2. PICK end \in Nat : end = End
    BY <1>1, EndBounds
<1>3. start < end /\ end <= Len(text) /\ Len(text) \in Nat
    BY <1>1, <1>2, EndBounds
<1>4. \A i \in 1..Len(text) : i <= end =>
        text[i] \in Blank \/ \E c \in chunks' : c.from < i /\ i <= c.to
    <2> SUFFICES ASSUME NEW i \in 1..Len(text), i <= end, text[i] \notin Blank
                 PROVE  \E c \in chunks' : c.from < i /\ i <= c.to
        OBVIOUS
    <2>1. chunks \subseteq chunks'
        BY DEF Cut
    <2>2. CASE i <= start
        BY <1>1, <2>1, <2>2 DEF CutSoFar
    <2>3. CASE start < i
        <3>1. ~BlankBetween(start, end)
            BY <1>1, <1>3, <2>3 DEF BlankBetween
        <3>2. [from |-> start, to |-> end] \in chunks'
            BY <1>2, <3>1 DEF Cut
        <3> QED BY <2>3, <3>2
    <2> QED BY <1>1, <2>2, <2>3
<1>5. CASE end >= Len(text)
    <2>1. pc' = "store"
        BY <1>2, <1>5 DEF Cut, Goto
    <2> QED BY <1>1, <1>3, <1>4, <1>5, <2>1 DEF CutSoFar, Covers
<1>6. CASE ~(end >= Len(text))
    <2>1. pc' = "chunk" /\ start' = NextStart(end)
        BY <1>1, <1>2, <1>6 DEF Cut
    <2>2. start' \in Nat /\ start' <= end
        BY <1>1, <1>3, <2>1, NextStartBounds
    <2> QED BY <1>1, <1>3, <1>4, <2>1, <2>2 DEF CutSoFar
<1> QED BY <1>5, <1>6

LEMMA StepCut == TypeOK /\ InHand /\ CutSoFar /\ [Next]_vars => CutSoFar'
<1> SUFFICES ASSUME TypeOK, InHand, CutSoFar, [Next]_vars
             PROVE  CutSoFar'
    OBVIOUS
<1>1. CASE UNCHANGED <<pc, text, start, chunks>>
    BY <1>1 DEF CutSoFar, Covers
<1>2. CASE pc' \notin {"chunk", "store"}
    BY <1>2 DEF CutSoFar
<1>3. CASE ReadFile
    <2>1. pc' = "chunk" /\ start' = 0
        BY <1>3 DEF ReadFile, Goto
    <2>2. \A i \in 1..Len(text') : ~(i <= 0)
        OBVIOUS
    <2> QED BY <2>1, <2>2 DEF CutSoFar
<1>4. CASE Cut
    BY <1>4, CutCovers
<1>5. CASE CutNothing
    <2>1. pc = "chunk" /\ pc' = "store" /\ start >= Len(text) /\ UNCHANGED <<text, chunks>>
        BY <1>5 DEF CutNothing, Goto
    <2>2. Len(text) \in Nat /\ start \in Nat
        BY <2>1, TextAssumption DEF TypeOK, InHand
    <2> QED BY <2>1, <2>2 DEF CutSoFar, Covers
<1> QED BY <1>1, <1>2, <1>3, <1>4, <1>5 DEF Next, IndexStep, Index, ListDirectory, SkipDirectory,
        SkipFile, Store, FindStale, Remove, Report, Abort, DeleteIndexedData, ChangeFile, Goto, vars

\* What a step does to the tables.
LEMMA StepDb ==
    ASSUME TypeOK, InHand, [Next]_vars
    PROVE  \/ UNCHANGED db
           \/ /\ Store
              /\ path \in Paths
              /\ db' = [db EXCEPT ![path] = [text |-> text, chunks |-> chunks]]
           \/ /\ Remove \/ DeleteIndexedData
              /\ \A p \in Paths : db'[p] \in {db[p], None}
<1>1. CASE Store
    BY <1>1 DEF Store, InHand
<1>2. CASE Remove
    BY <1>2 DEF Remove, TypeOK
<1>3. CASE DeleteIndexedData
    BY <1>3 DEF DeleteIndexedData, TypeOK
<1>4. CASE ~(Store \/ Remove \/ DeleteIndexedData)
    BY <1>4 DEF Next, IndexStep, Index, ListDirectory, SkipDirectory, ReadFile, SkipFile, Cut,
        CutNothing, FindStale, Report, Abort, ChangeFile, vars
<1> QED BY <1>1, <1>2, <1>3, <1>4

\* Whatever the size, the overlap and the line breaks, the chunks of every stored
\* document leave nothing of its text out.
THEOREM DocumentsAreWhole == Spec => []StoredDocumentsAreWhole
<1>1. Init => WholeInv
    <2>1. Init => CutSoFar /\ StoredDocumentsAreWhole
        BY DEF Init, CutSoFar, StoredDocumentsAreWhole
    <2> QED BY <2>1, InitType DEF WholeInv
<1>2. WholeInv /\ [Next]_vars => WholeInv'
    <2> SUFFICES ASSUME WholeInv, [Next]_vars
                 PROVE  WholeInv'
        OBVIOUS
    <2>1. TypeOK' /\ InHand' /\ CutSoFar'
        BY StepType, StepCut DEF WholeInv
    <2>2. StoredDocumentsAreWhole'
        <3>1. CASE UNCHANGED db
            BY <3>1 DEF WholeInv, StoredDocumentsAreWhole, Covers
        <3>2. CASE \A p \in Paths : db'[p] \in {db[p], None}
            BY <3>2 DEF WholeInv, StoredDocumentsAreWhole, Covers
        <3>3. CASE /\ Store
                   /\ path \in Paths
                   /\ db' = [db EXCEPT ![path] = [text |-> text, chunks |-> chunks]]
            <4>1. Covers(text, chunks)
                BY <3>3 DEF WholeInv, CutSoFar, Store
            <4> SUFFICES ASSUME NEW p \in Paths, db'[p] # None
                         PROVE  Covers(db'[p].text, db'[p].chunks)
                BY DEF StoredDocumentsAreWhole, Covers
            <4>2. CASE p = path
                BY <3>3, <4>1, <4>2 DEF WholeInv, TypeOK
            <4>3. CASE p # path
                BY <3>3, <4>3 DEF WholeInv, TypeOK, StoredDocumentsAreWhole
            <4> QED BY <4>2, <4>3
        <3> QED BY <3>1, <3>2, <3>3, StepDb DEF WholeInv
    <2> QED BY <2>1, <2>2 DEF WholeInv
<1>3. WholeInv => StoredDocumentsAreWhole
    BY DEF WholeInv
<1> QED BY <1>1, <1>2, <1>3, PTL DEF Spec

-----------------------------------------------------------------------------
(* A finished index is fresh *)

FreshParts == IndexedIsFresh /\ WalkComes /\ StaleIsGone /\ FinishedIndexIsFresh

LEMMA InitFresh == Init => FreshInv
<1> SUFFICES ASSUME Init
             PROVE  FreshInv
    OBVIOUS
<1>1. TypeOK /\ InHand
    BY InitType
<1>2. pc = "idle"
    BY DEF Init
<1> QED BY <1>1, <1>2 DEF FreshInv, IndexedIsFresh, WalkComes, StaleIsGone, FinishedIndexIsFresh,
        Reading

\* Where the run is and what it has done, for the file system and the tables of
\* an untouched path.
LEMMA WalkFresh ==
    ASSUME FreshInv, Index \/ ListDirectory \/ SkipDirectory \/ ReadFile \/ SkipFile
    PROVE  FreshParts'
<1> USE DEF FreshParts, IndexedIsFresh, WalkComes, StaleIsGone, FinishedIndexIsFresh, Reading,
        StoredText, Goto, FreshInv, TypeOK
<1>1. CASE Index
    <2>1. \A p \in Paths : DirOf[p] \in Dirs
        BY PathAssumption
    <2> QED BY <1>1, <2>1 DEF Index
<1>2. CASE ListDirectory
    <2>1. PICK d \in dirs : dirs' = dirs \ {d} /\ queue' = {p \in In(d) : files[p] # None}
        BY <1>2 DEF ListDirectory
    <2>2. \A p \in Paths : DirOf[p] = d /\ files[p] # None => p \in queue'
        BY <2>1 DEF In
    <2> QED BY <1>2, <2>1, <2>2 DEF ListDirectory
<1>3. CASE SkipDirectory
    <2>1. PICK d \in dirs : dirs' = dirs \ {d} /\ touched' = touched \cup In(d)
        BY <1>3 DEF SkipDirectory
    <2>2. \A p \in Paths \ touched' : DirOf[p] # d
        BY <2>1 DEF In
    <2> QED BY <1>3, <2>1, <2>2 DEF SkipDirectory
<1>4. CASE ReadFile
    BY <1>4 DEF ReadFile
<1>5. CASE SkipFile
    BY <1>5 DEF SkipFile
<1> QED BY <1>1, <1>2, <1>3, <1>4, <1>5

LEMMA StoreFresh ==
    ASSUME FreshInv, Cut \/ CutNothing \/ Store
    PROVE  FreshParts'
<1> USE DEF FreshParts, IndexedIsFresh, WalkComes, StaleIsGone, FinishedIndexIsFresh, Reading,
        StoredText, Goto, FreshInv
<1>1. CASE Cut \/ CutNothing
    <2>1. /\ pc \in {"chunk", "store"} /\ pc' \in {"chunk", "store"}
          /\ UNCHANGED <<files, db, dirs, queue, indexed, path, text, touched>>
        BY <1>1 DEF Cut, CutNothing
    <2> QED BY <2>1
<1>2. CASE Store
    <2>1. [text |-> text, chunks |-> chunks] # None
        BY <1>2, NoneAssumption DEF Store, TypeOK, InHand, Documents
    <2>2. path \in Paths /\ db' = [db EXCEPT ![path] = [text |-> text, chunks |-> chunks]]
        BY <1>2 DEF Store, InHand
    <2>3. db'[path] = [text |-> text, chunks |-> chunks] /\ \A p \in Paths \ {path} : db'[p] = db[p]
        BY <2>2 DEF TypeOK
    <2>4. \A p \in Paths : StoredText(p)' = IF p = path THEN text ELSE StoredText(p)
        BY <2>1, <2>3
    <2>5. /\ pc = "store" /\ pc' = "walk" /\ path \in Paths
          /\ indexed' = indexed \cup {path}
          /\ UNCHANGED <<files, dirs, queue, touched>>
        BY <1>2, <2>2 DEF Store
    <2> HIDE DEF StoredText
    <2>6. IndexedIsFresh'
        BY <2>4, <2>5
    <2> QED BY <2>5, <2>6
<1> QED BY <1>1, <1>2

LEMMA RemoveFresh ==
    ASSUME FreshInv, FindStale \/ Remove \/ Report \/ Abort
    PROVE  FreshParts'
<1> USE DEF FreshParts, IndexedIsFresh, WalkComes, StaleIsGone, FinishedIndexIsFresh, Reading,
        StoredText, Goto, FreshInv, TypeOK
<1>1. CASE FindStale
    BY <1>1 DEF FindStale, Stale
<1>2. CASE Remove
    BY <1>2 DEF Remove
<1>3. CASE Report
    BY <1>3 DEF Report
<1>4. CASE Abort
    BY <1>4 DEF Abort, FileDone
<1> QED BY <1>1, <1>2, <1>3, <1>4

LEMMA WorldFresh ==
    ASSUME FreshInv, DeleteIndexedData \/ ChangeFile
    PROVE  FreshParts'
<1>1. /\ UNCHANGED <<pc, dirs, queue, indexed, path, text, stale>>
      /\ touched \subseteq touched'
      /\ \A p \in Paths \ touched' : files'[p] = files[p] /\ db'[p] = db[p]
    <2>1. CASE DeleteIndexedData
        BY <2>1 DEF DeleteIndexedData
    <2>2. CASE ChangeFile
        BY <2>2 DEF ChangeFile, FreshInv, TypeOK
    <2> QED BY <2>1, <2>2
<1> QED BY <1>1 DEF FreshParts, IndexedIsFresh, WalkComes, StaleIsGone, FinishedIndexIsFresh,
        Reading, StoredText, FreshInv

LEMMA StepFresh == FreshInv /\ [Next]_vars => FreshInv'
<1> SUFFICES ASSUME FreshInv, [Next]_vars
             PROVE  FreshInv'
    OBVIOUS
<1>1. TypeOK' /\ InHand'
    BY StepType DEF FreshInv
<1>2. FreshParts'
    <2>1. CASE UNCHANGED vars
        BY <2>1 DEF vars, FreshInv, FreshParts, IndexedIsFresh, WalkComes, StaleIsGone,
            FinishedIndexIsFresh, Reading, StoredText
    <2> QED BY <2>1, WalkFresh, StoreFresh, RemoveFresh, WorldFresh DEF Next, IndexStep
<1> QED BY <1>1, <1>2 DEF FreshInv, FreshParts

LEMMA FreshAlways == Spec => []FreshInv
BY InitFresh, StepFresh, PTL DEF Spec

\* When a run returns, the documents are the files, but for those that changed,
\* could not be read or were deleted meanwhile: for any files and directories, and
\* after any earlier runs that stopped half way.
THEOREM IndexIsFresh == Spec => []FinishedIndexIsFresh
BY FreshAlways, PTL DEF FreshInv

\* A run takes a document away only when its file is gone.
THEOREM DocumentsAreKept == Spec => IndexKeepsDocuments
<1> DEFINE Kept ==
        \A p \in Paths :
            (pc \notin {"idle", "done"} /\ p \notin touched' /\ db[p] # None /\ db'[p] = None)
                => files[p] = None
<1>1. FreshInv /\ [Next]_vars => [Kept]_vars
    <2> SUFFICES ASSUME FreshInv, [Next]_vars
                 PROVE  Kept
        OBVIOUS
    <2> SUFFICES ASSUME NEW p \in Paths, p \notin touched', db[p] # None, db'[p] = None
                 PROVE  files[p] = None
        OBVIOUS
    <2>1. CASE Store /\ db' = [db EXCEPT ![path] = [text |-> text, chunks |-> chunks]]
        <3>1. [text |-> text, chunks |-> chunks] # None
            BY <2>1, NoneAssumption DEF Store, FreshInv, TypeOK, InHand, Documents
        <3> QED BY <2>1, <3>1 DEF FreshInv, TypeOK
    <2>2. CASE Remove
        BY <2>2 DEF Remove, FreshInv, StaleIsGone, TypeOK
    <2>3. CASE DeleteIndexedData
        BY <2>3 DEF DeleteIndexedData
    <2> QED BY <2>1, <2>2, <2>3, StepDb DEF FreshInv
<1> QED BY <1>1, FreshAlways, PTL DEF Spec, IndexKeepsDocuments
=============================================================================
