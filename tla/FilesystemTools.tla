-------------------------- MODULE FilesystemTools --------------------------
(***************************************************************************)
(* ListDirectoryTool, SearchFilesTool and ReadFileTool of                  *)
(* app/filesystem/tools.py.  Each resolves a path and then works with the  *)
(* path that it got, in system calls of their own, while the tree may      *)
(* change.  The tools keep no state, so one call after the other is enough.*)
(***************************************************************************)
EXTENDS PathSecurityLayer

CONSTANTS
    Queries,        \* paths that the model asks for: relative or absolute
    Patterns,       \* what a search is for: "*" or a name
    Limits,         \* max_results
    None

ASSUME LimitsAssumption == Limits \subseteq 1..1000

ASSUME QueriesAssumption == Queries \subseteq [absolute : BOOLEAN, path : Seq(STRING)]

VARIABLES
    at,             \* where the call is
    asked,          \* its tool and arguments
    found,          \* the path that resolve returned for it
    pending,        \* search: directories still to walk
    todo,           \* entries still to look at, under the directory's path
    entry,          \* the entry that has been resolved last
    reported,       \* relative_path of the entries so far, as locations
    matched,        \* len(matches)
    outcome,        \* "ok", an error code, or "none"
    content         \* what was read: its location and kind, or None

VARIABLES
    unlisted,       \* history: directories that a search could not list
    disturbed       \* history: the tree changed since the call resolved its path

callVars == <<at, asked, found, pending, todo, entry, reported, matched, outcome, content, unlisted>>

Calls ==
    [tool : {"list", "read"}, query : Queries]
        \cup [tool : {"search"}, query : Queries, pattern : Patterns, limit : Limits]

ToolsTypeOK ==
    /\ at \in {"idle", "permit", "resolve", "kind", "walk", "entries", "describe", "stat",
               "size", "read", "returned"}
    /\ asked \in Calls \cup {None}
    /\ \A path \in pending \cup todo \cup unlisted : path \in Seq(STRING) /\ Within(path, found)
    /\ reported \subseteq Locations
    /\ matched \in 0..1000
    /\ content \in [at : Locations, kind : Kinds] \cup {None}
    /\ disturbed \in BOOLEAN

ToolsInit ==
    /\ at = "idle" /\ asked = None /\ found = <<>>
    /\ pending = {} /\ todo = {} /\ entry = <<>>
    /\ reported = {} /\ matched = 0
    /\ outcome = "none" /\ content = None
    /\ unlisted = {} /\ disturbed = FALSE

Execute(call) ==
    /\ at = "idle"
    /\ at' = "permit" /\ asked' = call
    /\ UNCHANGED <<found, pending, todo, entry, reported, matched, outcome, content, unlisted, disturbed>>

Return(code) == at' = "returned" /\ outcome' = code

\* The engine's decision is any; PermissionEngine says which.
Authorize ==
    /\ at = "permit"
    /\ (at' = "resolve" /\ UNCHANGED outcome) \/ Return("permission_denied")
    /\ UNCHANGED <<asked, found, pending, todo, entry, reported, matched, content, unlisted, disturbed>>

ResolvePath ==
    /\ at = "resolve"
    /\ LET r == Resolve(asked.query)
       IN  IF r.code = "ok" THEN at' = "kind" /\ found' = r.path /\ UNCHANGED outcome
                            ELSE Return(r.code) /\ UNCHANGED found
    /\ disturbed' = FALSE
    /\ UNCHANGED <<asked, pending, todo, entry, reported, matched, content, unlisted>>

\* The system refuses to say what is there.  resolve and check_file_size have an error of
\* their own for it where they catch it; what they do not catch is the tool's.
SystemCallFails ==
    /\ \/ at = "resolve" /\ Return("resolve_failed")
       \/ at = "size" /\ Return("stat_failed")
       \/ /\ at \in {"resolve", "kind", "walk", "entries", "describe", "stat"}
          /\ Return(IF asked.tool = "read" THEN "read_failed" ELSE "io_error")
    /\ UNCHANGED <<asked, found, pending, todo, entry, reported, matched, content, unlisted, disturbed>>

CheckKind ==
    /\ at = "kind"
    /\ IF asked.tool = "read"
       THEN /\ IF IsFile(found) THEN at' = "size" /\ UNCHANGED outcome ELSE Return("not_file")
            /\ UNCHANGED <<pending, todo>>
       ELSE IF KindAt(found) # "dir"
       THEN Return("not_directory") /\ UNCHANGED <<pending, todo>>
       ELSE IF asked.tool = "search"
       THEN at' = "walk" /\ pending' = {found} /\ UNCHANGED <<todo, outcome>>
       ELSE at' = "walk" /\ UNCHANGED <<pending, todo, outcome>>
    /\ UNCHANGED <<asked, found, entry, reported, matched, content, unlisted, disturbed>>

-----------------------------------------------------------------------------
(* read_file *)

CheckSize ==
    /\ at = "size"
    /\ CASE KindAt(found) = "absent" -> Return("stat_failed")
         [] KindAt(found) = "large" -> Return("file_too_large")
         [] OTHER -> at' = "read" /\ UNCHANGED outcome
    /\ UNCHANGED <<asked, found, pending, todo, entry, reported, matched, content, unlisted, disturbed>>

\* The file may also be locked, or not be UTF-8.
ReadText ==
    /\ at = "read"
    /\ \/ /\ IsFile(found)
          /\ content' = [at |-> Real(found), kind |-> KindAt(found)]
          /\ Return("ok")
       \/ Return("read_failed") /\ UNCHANGED content
    /\ UNCHANGED <<asked, found, pending, todo, entry, reported, matched, unlisted, disturbed>>

-----------------------------------------------------------------------------
(* list_directory *)

ListEntries ==
    /\ at = "walk" /\ asked.tool = "list"
    /\ IF KindAt(found) = "dir" THEN at' = "entries" /\ todo' = Entries(found) /\ UNCHANGED outcome
                                ELSE Return("io_error") /\ UNCHANGED todo
    /\ UNCHANGED <<asked, found, pending, entry, reported, matched, content, unlisted, disturbed>>

\* Mutant: the comprehension lacks its not, and keeps the blocked ones.
PruneInverted(directories) == {d \in directories : Resolve(Absolute(d)).code # "ok"}

\* os.walk: a directory that is a link, or gone, is left out without a word, and so is one
\* that cannot be listed.  Those below it that do not resolve are pruned, everything else
\* is a file name.
Prune(directories) == {d \in directories : Resolve(Absolute(d)).code = "ok"}

WalkDirectory ==
    /\ at = "walk" /\ asked.tool = "search"
    /\ \E dir \in pending :
         IF KindAt(dir) # "dir" \/ (dir # found /\ IsLink(dir))
         THEN pending' = pending \ {dir} /\ UNCHANGED <<at, todo, unlisted>>
         ELSE LET directories == {e \in Entries(dir) : KindAt(e) = "dir"}
              IN  \/ /\ pending' = (pending \ {dir}) \cup Prune(directories)
                     /\ todo' = Entries(dir) \ directories
                     /\ at' = "entries"
                     /\ UNCHANGED unlisted
                  \/ /\ pending' = pending \ {dir}
                     /\ unlisted' = unlisted \cup {dir}
                     /\ UNCHANGED <<at, todo>>
    /\ UNCHANGED <<asked, found, entry, reported, matched, outcome, content, disturbed>>

\* fnmatch, on the name of the entry and on the path that it led to.
Matches(path, location) ==
    \/ asked.pattern = "*" \/ Last(path) = asked.pattern
    \/ \E root \in ToSet(roots) : location = Append(root, asked.pattern)

\* An entry that does not resolve, or does not match, is left out.
TakeEntry ==
    /\ at = "entries"
    /\ \E e \in todo :
         LET r == Resolve(Absolute(e))
         IN  /\ todo' = todo \ {e}
             /\ IF r.code = "ok" /\ (asked.tool = "list" \/ Matches(e, r.path))
                THEN at' = "describe" /\ entry' = r.path
                ELSE UNCHANGED <<at, entry>>
    /\ UNCHANGED <<asked, found, pending, reported, matched, outcome, content, unlisted, disturbed>>

Report ==
    /\ reported' = reported \cup {entry}
    /\ matched' = IF asked.tool = "search" THEN matched + 1 ELSE matched

\* A listing looks at the size of files only; a search at that of every match.
Describe ==
    /\ at = "describe"
    /\ IF asked.tool = "search" \/ IsFile(entry)
       THEN at' = "stat" /\ UNCHANGED <<reported, matched>>
       ELSE at' = "entries" /\ Report
    /\ UNCHANGED <<asked, found, pending, todo, entry, outcome, content, unlisted, disturbed>>

\* One entry that is gone meanwhile fails the whole call.
StatEntry ==
    /\ at = "stat"
    /\ IF KindAt(entry) = "absent"
       THEN Return("io_error") /\ UNCHANGED <<reported, matched>>
       ELSE /\ Report
            /\ IF asked.tool = "search" /\ matched' >= asked.limit
               THEN Return("ok") ELSE at' = "entries" /\ UNCHANGED outcome
    /\ UNCHANGED <<asked, found, pending, todo, entry, content, unlisted, disturbed>>

EndOfEntries ==
    /\ at = "entries" /\ todo = {}
    /\ IF pending = {} THEN Return("ok") ELSE at' = "walk" /\ UNCHANGED outcome
    /\ UNCHANGED <<asked, found, pending, todo, entry, reported, matched, content, unlisted, disturbed>>

\* All that was left to walk turned out to be links, or gone.
EndOfWalk ==
    /\ at = "walk" /\ asked.tool = "search" /\ pending = {}
    /\ Return("ok")
    /\ UNCHANGED <<asked, found, pending, todo, entry, reported, matched, content, unlisted, disturbed>>

ToolStep ==
    /\ \/ \E call \in Calls : Execute(call)
       \/ Authorize \/ ResolvePath \/ SystemCallFails \/ CheckKind
       \/ CheckSize \/ ReadText
       \/ ListEntries \/ WalkDirectory \/ TakeEntry \/ Describe \/ StatEntry
       \/ EndOfEntries \/ EndOfWalk
    /\ UNCHANGED <<tree, roots>>

-----------------------------------------------------------------------------
(* Properties *)

\* filesystem/README: "enforce configured roots, reject traversal and symlink/junction
\* escapes, block sensitive names ... enforce the configured file-size limit".  A text
\* that is returned is of a file that the policy allows, wherever links led, unless the
\* tree changed between the look at the path and its use.
ReadIsAllowed ==
    asked # None /\ asked.tool = "read" /\ outcome = "ok" /\ ~disturbed =>
        Allowed(content.at) /\ content.kind = "file"

\* What there is to list: every entry that leads to something allowed.
Listable(dir) == {Real(e) : e \in {f \in Entries(dir) : Exists(f) /\ Shown(Real(f))}}

\* What there is to find: all files below, behind no link and no blocked directory.
OpenDirs(dir) ==
    {d \in Below(dir) \cup {dir} : \A l \in Below(dir) : Within(d, l) => tree[l] = "dir" /\ Shown(l)}

FilesOf(dir) ==
    {l \in Below(dir) : /\ Parent(l) \in OpenDirs(dir)
                        /\ KindAt(l) \notin {"absent", "dir"}
                        /\ Shown(Real(l)) /\ Matches(l, Real(l))}

\* Where it leads, and of the files outside some directories only.
Searchable(dir) == {Real(l) : l \in FilesOf(dir)}

SearchableOutside(dir, closed) ==
    {Real(l) : l \in {k \in FilesOf(dir) : \A d \in closed : ~Within(k, d)}}

\* A listing during which the tree did not change reports exactly what there is, a link
\* under what it leads to.  A search that is not cut off by max_results reports nothing
\* else either, and leaves out only what lies below a directory that could not be listed,
\* of which it says nothing.
ReportIsComplete ==
    [][ at # "returned" /\ at' = "returned" /\ outcome' = "ok" /\ ~disturbed =>
          /\ asked.tool = "list" => reported' = Listable(found)
          /\ asked.tool = "search" =>
                /\ reported' \subseteq Searchable(found) /\ matched' <= asked.limit
                /\ matched' < asked.limit => SearchableOutside(found, unlisted) \subseteq reported' ]_callVars
=============================================================================
