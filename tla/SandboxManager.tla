--------------------------- MODULE SandboxManager ---------------------------
(***************************************************************************)
(* SandboxManager of app/sandbox/manager.py: reset, run by the host, beside *)
(* a call of the filesystem tools and whatever else changes the tree: the  *)
(* sandbox's own terminal commands, which outlive their time limit, and    *)
(* the user.                                                               *)
(***************************************************************************)
EXTENDS FilesystemTools

CONSTANTS
    Box,            \* root, as resolved when the manager was made
    MaxResets,      \* bound: calls of reset
    MaxChanges      \* bound: changes from outside

ASSUME BoxAssumption == Box \in Locations /\ {MaxResets, MaxChanges} \subseteq Nat

VARIABLES
    resetAt,        \* where reset is
    resetRoot,      \* resolved_root
    children,       \* of the snapshot, still to delete
    child,          \* the child whose containment has been checked
    resetOutcome,   \* "ok", an exception, or "none"
    resets, changes \* how many there have been

VARIABLES
    removed,        \* history: what this reset has deleted
    moved,          \* history: the sandbox has been elsewhere since it began
    meddled         \* history: the tree was changed by others since it began

resetVars == <<resetAt, resetRoot, children, child, resetOutcome, removed, moved>>
allVars == <<tree, roots, callVars, disturbed, resetVars, meddled, resets, changes>>

SandboxTypeOK ==
    /\ tree \in [Locations -> Kinds] /\ WellFormed(tree)
    /\ ToolsTypeOK
    /\ resetAt \in {"idle", "list", "check", "delete"}
    /\ resetRoot \in Seq(STRING) /\ children \subseteq Seq(STRING)
    /\ resetOutcome \in {"none", "ok", "escapes", "os_error"}
    /\ removed \subseteq Locations
    /\ moved \in BOOLEAN /\ meddled \in BOOLEAN
    /\ resets \in 0..MaxResets /\ changes \in 0..MaxChanges

SandboxInit ==
    /\ tree \in Trees /\ tree[Box] = "dir"
    /\ Start /\ ToolsInit
    /\ resetAt = "idle" /\ resetRoot = Box /\ children = {} /\ child = <<>>
    /\ resetOutcome = "none" /\ resets = 0 /\ changes = 0
    /\ removed = {} /\ moved = FALSE /\ meddled = FALSE

\* Taking locations away ends a call's view of the tree as any change does.
TakeAway(gone) ==
    /\ tree' = [l \in Locations |-> IF l \in gone THEN "absent" ELSE tree[l]]
    /\ removed' = removed \cup gone
    /\ disturbed' = (disturbed \/ gone # {})

ResetEnds(why) == resetAt' = "idle" /\ resetOutcome' = why

Reset ==
    /\ resetAt = "idle"
    /\ resets < MaxResets /\ resets' = resets + 1
    /\ resetAt' = "list" /\ resetRoot' = Real(Box)
    /\ children' = {} /\ resetOutcome' = "none" /\ removed' = {}
    /\ moved' = (Real(Box) # Box) /\ meddled' = FALSE
    /\ UNCHANGED <<tree, roots, child, callVars, disturbed, changes>>

ListChildren ==
    /\ resetAt = "list"
    /\ IF KindAt(resetRoot) = "dir"
       THEN resetAt' = "check" /\ children' = Entries(resetRoot) /\ UNCHANGED resetOutcome
       ELSE ResetEnds("os_error") /\ UNCHANGED children
    /\ UNCHANGED <<tree, roots, resetRoot, child, removed, moved, meddled, callVars, disturbed, resets, changes>>

Escapes(c) == ~Within(Real(c), resetRoot)

CheckChild ==
    /\ resetAt = "check"
    /\ \E c \in children :
         IF Escapes(c) THEN ResetEnds("escapes") /\ UNCHANGED <<children, child>>
         ELSE resetAt' = "delete" /\ child' = c /\ children' = children \ {c} /\ UNCHANGED resetOutcome
    /\ UNCHANGED <<tree, roots, resetRoot, removed, moved, meddled, callVars, disturbed, resets, changes>>

Contents(dir) == {l \in Below(dir) : tree[l] # "absent"}

\* Mutant: the child is deleted where its path leads.
DoomedFollowed(c) ==
    IF IsFile(c) THEN {Real(c)} ELSE IF KindAt(c) = "dir" THEN {Real(c)} \cup Contents(Real(c)) ELSE {}

\* Mutant: is_symlink is not asked, and a link to nothing is neither file nor directory.
DoomedFound(c) ==
    LET l == Itself(c)
    IN  IF l \notin Locations THEN {}
        ELSE IF IsFile(c) THEN {l} ELSE IF tree[l] = "dir" THEN {l} \cup Contents(l) ELSE {}

\* Links and files, and directories with what is in them; nothing else.
Doomed(c) ==
    LET l == Itself(c)
    IN  IF l \notin Locations THEN {}
        ELSE CASE tree[l] \in {"link", "file", "large"} -> {l}
               [] tree[l] = "dir" -> {l} \cup Contents(l)
               [] OTHER -> {}

\* A file may be in use: then unlink fails, or rmtree after some of its work.
DeleteChild ==
    /\ resetAt = "delete"
    /\ \/ TakeAway(Doomed(child)) /\ resetAt' = "check" /\ UNCHANGED resetOutcome
       \/ \E gone \in SUBSET (Doomed(child) \ {Itself(child)}) :
            /\ \A l \in gone : Contents(l) \subseteq gone
            /\ Doomed(child) # {}
            /\ TakeAway(gone) /\ ResetEnds("os_error")
    /\ UNCHANGED <<roots, resetRoot, children, child, moved, meddled, callVars, resets, changes>>

Above == {l \in Locations : Within(Box, l)}
Route == {Real(path) : path \in Above}

\* mkdir finds the root there, or makes it and what is above it again if others took it
\* away; a file or a link to nothing is in its way.
EndReset ==
    /\ resetAt = "check" /\ children = {}
    /\ IF \A path \in Above : KindAt(path) = "dir" \/ ~(Exists(path) \/ IsLink(path))
       THEN /\ ResetEnds("ok")
            /\ tree' = [l \in Locations |-> IF l \in Route THEN "dir" ELSE tree[l]]
       ELSE ResetEnds("os_error") /\ UNCHANGED tree
    /\ disturbed' = (disturbed \/ tree' # tree)
    /\ UNCHANGED <<roots, resetRoot, children, child, removed, moved, meddled, callVars, resets, changes>>

\* One location is replaced; what was below a directory goes with it.
Change(l, kind) ==
    /\ changes < MaxChanges /\ changes' = changes + 1
    /\ kind # tree[l]
    /\ tree' = [k \in Locations |-> IF k = l THEN kind ELSE IF k \in Below(l) THEN "absent" ELSE tree[k]]
    /\ WellFormed(tree')
    /\ disturbed' = TRUE /\ meddled' = TRUE
    /\ moved' = (moved \/ Real(Box)' # Box)
    /\ UNCHANGED <<roots, callVars, resets, resetAt, resetRoot, children, child, resetOutcome, removed>>

ResetStep == Reset \/ ListChildren \/ CheckChild \/ DeleteChild \/ EndReset

SandboxNext ==
    \/ ToolStep /\ UNCHANGED <<resetVars, meddled, resets, changes>>
    \/ ResetStep
    \/ \E l \in Locations : \E kind \in MayBe(l) : Change(l, kind)

SandboxSpec == SandboxInit /\ [][SandboxNext]_allVars

-----------------------------------------------------------------------------
(* Properties *)

\* sandbox/README: "reset() removes only children contained by the sandbox root".
\* Whatever others put into the sandbox between its checks and its deletions, links
\* included, unless they put the sandbox itself elsewhere.
ResetStaysInside ==
    ~moved => \A l \in removed : Within(l, Box) /\ l # Box

\* A reset that returns leaves only special files behind, and the sandbox itself where a
\* link had put it into a directory above; one that finds an escape leaves the link that
\* escapes, however much of the rest it has deleted.
ResetLeavesNothing ==
    [][ resetAt # "idle" /\ resetAt' = "idle" /\ ~meddled =>
          /\ resetOutcome' = "ok" =>
                \A l \in Children(resetRoot) \ Route : tree'[l] \in {"absent", "special"}
          /\ resetOutcome' = "escapes" =>
                \E l \in Children(resetRoot) : tree'[l] = "link" /\ Escapes(l) ]_allVars
=============================================================================
