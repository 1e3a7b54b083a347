----------------------------- MODULE RagManager -----------------------------
(***************************************************************************)
(* RagManager of app/rag/manager.py over RagStorage (storage.py): one      *)
(* indexing run that walks the configured directories, cuts every file     *)
(* into chunks and stores them, then removes the documents it has not met. *)
(* Files change while it walks, documents are deleted on request, and the  *)
(* run may raise, or its process end, between any two transactions.        *)
(***************************************************************************)
EXTENDS Integers, Sequences

CONSTANTS
    Paths,          \* files whose extension is indexed
    Dirs,           \* directories under rag_index_roots
    DirOf,          \* the directory of each file
    Chars, Blank,   \* characters, and those that strip removes
    Newline,
    Texts,          \* contents of files
    Size,           \* rag_chunk_size_chars
    Overlap,        \* rag_chunk_overlap_chars
    Deletions,      \* the sets of documents that one deletion matches
    None            \* no file, or no document

ASSUME ChunkAssumption == Size \in Nat \ {0} /\ Overlap \in 0..(Size - 1)

ASSUME TextAssumption ==
    /\ Newline \in Blank /\ Blank \subseteq Chars
    /\ Texts \subseteq Seq(Chars)
    /\ None \notin Texts

ASSUME PathAssumption ==
    /\ DirOf \in [Paths -> Dirs]
    /\ Deletions \subseteq SUBSET Paths
    /\ None \notin Paths

\* A chunk is the part of the text after position from, up to position to (the
\* code's slice [from:to]); stripping it takes only blanks from its ends.
Chunks == [from : Nat, to : Nat]
Documents == [text : Texts, chunks : SUBSET Chunks]

ASSUME NoneAssumption == None \notin Documents

VARIABLES
    files,          \* the file system
    db,             \* the tables documents and chunks
    pc,             \* where index is
    dirs,           \* directories the walk has yet to visit
    queue,          \* files of the current one that it has yet to read
    indexed,        \* indexed_paths
    path, text,     \* the file in hand and its content
    start, chunks,  \* locals of _chunk
    stale           \* documents that are to be removed

VARIABLE touched    \* history: paths that changed, were unreadable or were deleted
                    \* since the run began

walkVars == <<dirs, queue, indexed>>
fileVars == <<path, text, start, chunks>>
vars == <<files, db, pc, walkVars, fileVars, stale, touched>>

Labels == {"idle", "walk", "chunk", "store", "remove", "done"}

TypeOK ==
    /\ files \in [Paths -> Texts \cup {None}]
    /\ db \in [Paths -> Documents \cup {None}]
    /\ pc \in Labels
    /\ dirs \subseteq Dirs
    /\ queue \subseteq Paths
    /\ indexed \subseteq Paths
    /\ path \in Paths \cup {None}
    /\ text \in Texts \cup {None}
    /\ start \in Nat
    /\ chunks \subseteq Chunks
    /\ stale \subseteq Paths
    /\ touched \subseteq Paths

Init ==
    /\ files \in [Paths -> Texts \cup {None}]
    /\ db = [p \in Paths |-> None]
    /\ pc = "idle"
    /\ dirs = {} /\ queue = {} /\ indexed = {}
    /\ path = None /\ text = None /\ start = 0 /\ chunks = {}
    /\ stale = {} /\ touched = {}

Goto(label) == pc' = label

-----------------------------------------------------------------------------
(* index: the walk *)

\* After authorization.  Documents left by an earlier run stay until the end.
Index ==
    /\ pc \in {"idle", "done"}
    /\ Goto("walk")
    /\ dirs' = Dirs /\ queue' = {} /\ indexed' = {}
    /\ touched' = {}
    /\ UNCHANGED <<files, db, fileVars, stale>>

In(d) == {p \in Paths : DirOf[p] = d}

\* Mutant: every directory begins its own indexed_paths.
ListDirectoryForgetting ==
    /\ pc = "walk" /\ queue = {}
    /\ \E d \in dirs :
        /\ dirs' = dirs \ {d}
        /\ queue' = {p \in In(d) : files[p] # None}
    /\ indexed' = {}
    /\ UNCHANGED <<files, db, pc, fileVars, stale, touched>>

\* os.walk lists a directory when it gets there.
ListDirectory ==
    /\ pc = "walk" /\ queue = {}
    /\ \E d \in dirs :
        /\ dirs' = dirs \ {d}
        /\ queue' = {p \in In(d) : files[p] # None}
    /\ UNCHANGED <<files, db, pc, indexed, fileVars, stale, touched>>

\* It cannot be listed, or _safe_directory refuses it.
SkipDirectory ==
    /\ pc = "walk" /\ queue = {}
    /\ \E d \in dirs :
        /\ dirs' = dirs \ {d}
        /\ touched' = touched \cup In(d)
    /\ UNCHANGED <<files, db, pc, queue, indexed, fileVars, stale>>

ReadFile ==
    /\ pc = "walk"
    /\ \E p \in queue :
        /\ files[p] # None
        /\ queue' = queue \ {p}
        /\ path' = p /\ text' = files[p]
    /\ start' = 0 /\ chunks' = {}
    /\ Goto("chunk")
    /\ UNCHANGED <<files, db, dirs, indexed, stale, touched>>

\* It is blocked, too large, not text, unreadable, or gone by now.
SkipFile ==
    /\ pc = "walk"
    /\ \E p \in queue :
        /\ queue' = queue \ {p}
        /\ touched' = touched \cup {p}
    /\ UNCHANGED <<files, db, pc, dirs, indexed, fileVars, stale>>

-----------------------------------------------------------------------------
(* _chunk: one iteration of its loop *)

\* The last newline of the slice, when it is past the middle.
IsBoundary(b, to) ==
    LET late(i) == i \in (start + Size \div 2 + 1)..(to - 1) /\ text[i + 1] = Newline
    IN  late(b) /\ \A i \in b..(to - 1) : late(i) => i = b

\* Where the chunk that begins at start ends.
End ==
    LET to == IF start + Size < Len(text) THEN start + Size ELSE Len(text)
    IN  IF to < Len(text) /\ \E b \in start..to : IsBoundary(b, to)
        THEN CHOOSE b \in start..to : IsBoundary(b, to)
        ELSE to

BlankBetween(from, to) == \A i \in (from + 1)..to : text[i] \in Blank

\* Mutant: the overlap may take it back to where it was.
NextStartUnbounded(end) == end - Overlap

\* Mutant: the character at the end is skipped.
NextStartPastEnd(end) == end + 1

\* max(start + 1, end - overlap)
NextStart(end) == IF end - Overlap > start + 1 THEN end - Overlap ELSE start + 1

Cut ==
    /\ pc = "chunk"
    /\ start < Len(text)
    /\ chunks' = IF BlankBetween(start, End) THEN chunks
                 ELSE chunks \cup {[from |-> start, to |-> End]}
    /\ IF End >= Len(text)
       THEN Goto("store") /\ UNCHANGED start
       ELSE start' = NextStart(End) /\ UNCHANGED pc
    /\ UNCHANGED <<files, db, walkVars, path, text, stale, touched>>

CutNothing ==
    /\ pc = "chunk"
    /\ start >= Len(text)
    /\ Goto("store")
    /\ UNCHANGED <<files, db, walkVars, fileVars, stale, touched>>

-----------------------------------------------------------------------------
(* index: storing and removing *)

FileDone == path' = None /\ text' = None /\ start' = 0 /\ chunks' = {}

\* upsert replaces the document and all its chunks in one transaction.
Store ==
    /\ pc = "store"
    /\ db' = [db EXCEPT ![path] = [text |-> text, chunks |-> chunks]]
    /\ indexed' = indexed \cup {path}
    /\ FileDone
    /\ Goto("walk")
    /\ UNCHANGED <<files, dirs, queue, stale, touched>>

\* Mutant: the operands of the difference are swapped.
StaleSwapped == indexed \ {p \in Paths : db[p] # None}

Stale == {p \in Paths : db[p] # None} \ indexed

FindStale ==
    /\ pc = "walk" /\ queue = {} /\ dirs = {}
    /\ stale' = Stale
    /\ Goto("remove")
    /\ UNCHANGED <<files, db, walkVars, fileVars, touched>>

Remove ==
    /\ pc = "remove"
    /\ \E p \in stale :
        /\ db' = [db EXCEPT ![p] = None]
        /\ stale' = stale \ {p}
    /\ UNCHANGED <<files, pc, walkVars, fileVars, touched>>

Report ==
    /\ pc = "remove" /\ stale = {}
    /\ Goto("done")
    /\ UNCHANGED <<files, db, walkVars, fileVars, stale, touched>>

\* A root is not a directory, a transaction fails, or the process ends.
Abort ==
    /\ pc \notin {"idle", "done"}
    /\ Goto("idle")
    /\ FileDone
    /\ dirs' = {} /\ queue' = {} /\ indexed' = {} /\ stale' = {}
    /\ UNCHANGED <<files, db, touched>>

-----------------------------------------------------------------------------
(* Deletions, and the file system *)

\* delete_under matches with LIKE, delete_all everything.
DeleteIndexedData ==
    /\ \E matched \in Deletions :
        /\ db' = [p \in Paths |-> IF p \in matched THEN None ELSE db[p]]
        /\ touched' = touched \cup matched
    /\ UNCHANGED <<files, pc, walkVars, fileVars, stale>>

ChangeFile ==
    /\ \E p \in Paths, t \in Texts \cup {None} :
        /\ files[p] # t
        /\ files' = [files EXCEPT ![p] = t]
        /\ touched' = touched \cup {p}
    /\ UNCHANGED <<db, pc, walkVars, fileVars, stale>>

-----------------------------------------------------------------------------
IndexStep ==
    \/ ListDirectory \/ SkipDirectory \/ ReadFile \/ SkipFile
    \/ Cut \/ CutNothing \/ Store
    \/ FindStale \/ Remove \/ Report

Next == Index \/ IndexStep \/ Abort \/ DeleteIndexedData \/ ChangeFile

Spec == Init /\ [][Next]_vars

\* A run that has begun goes on.
FairSpec == Spec /\ WF_vars(IndexStep)

-----------------------------------------------------------------------------
(* Properties *)

\* Every character of the text that is no blank is in one of the chunks.
Covers(t, cs) == \A i \in 1..Len(t) : t[i] \in Blank \/ \E c \in cs : c.from < i /\ i <= c.to

\* rag/README: RagManager "chunks documents".  Whatever the line breaks, the size
\* and the overlap, the chunks of a stored document leave nothing of its text out,
\* so that every word of it can be retrieved; and they are of one content.
StoredDocumentsAreWhole == \A p \in Paths : db[p] # None => Covers(db[p].text, db[p].chunks)

StoredText(p) == IF db[p] = None THEN None ELSE db[p].text

\* rag/README: "Re-indexing upserts changed documents and removes stale chunks".
\* After a run that returns, the documents are the files, but for those that
\* changed, could not be read or were deleted since it began: also after earlier
\* runs that stopped half way.
FinishedIndexIsFresh == pc = "done" => \A p \in Paths \ touched : StoredText(p) = files[p]

\* A run takes a document away only when its file is gone.  One that stops half
\* way leaves the documents it has not come to.
IndexKeepsDocuments ==
    [][\A p \in Paths :
         (pc \notin {"idle", "done"} /\ p \notin touched' /\ db[p] # None /\ db'[p] = None)
            => files[p] = None]_vars

\* Every run returns or raises, however the files change under it.
IndexReturns == pc = "walk" ~> pc \in {"idle", "done"}

-----------------------------------------------------------------------------
(* What the properties rest on *)

InHand == pc \in {"chunk", "store"} => path \in Paths /\ text \in Texts

\* _chunk has covered the text up to start; when it is done, all of it.
CutSoFar ==
    /\ pc = "chunk" =>
        \A i \in 1..Len(text) :
            i <= start => text[i] \in Blank \/ \E c \in chunks : c.from < i /\ i <= c.to
    /\ pc = "store" => Covers(text, chunks)

WholeInv == TypeOK /\ InHand /\ CutSoFar /\ StoredDocumentsAreWhole

Reading(p) == pc \in {"chunk", "store"} /\ path = p

\* What is in indexed_paths is fresh, and so is the text in hand.
IndexedIsFresh ==
    \A p \in Paths \ touched :
        /\ pc # "idle" /\ p \in indexed => StoredText(p) = files[p]
        /\ Reading(p) => text = files[p]

\* A file that is not in indexed_paths is still to come.
WalkComes ==
    pc \in {"walk", "chunk", "store"} =>
        \A p \in Paths \ touched :
            p \in indexed \/ files[p] = None \/ DirOf[p] \in dirs \/ p \in queue \/ Reading(p)

\* Once the walk is over, only documents without a file are to be removed.
StaleIsGone ==
    pc = "remove" =>
        /\ stale \cap indexed = {}
        /\ \A p \in Paths \ touched :
            p \notin indexed => files[p] = None /\ (db[p] = None \/ p \in stale)

FreshInv ==
    TypeOK /\ InHand /\ IndexedIsFresh /\ WalkComes /\ StaleIsGone /\ FinishedIndexIsFresh
=============================================================================
