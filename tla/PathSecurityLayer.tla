------------------------- MODULE PathSecurityLayer -------------------------
(***************************************************************************)
(* PathSecurityLayer of app/filesystem/security.py over a small tree of    *)
(* files, and the roots that SecurityPolicy of app/config/settings.py lets *)
(* it have.  A path is the sequence of its names from the top.  Any        *)
(* location may hold a link, and the tree changes between two looks at it. *)
(***************************************************************************)
EXTENDS Naturals, SequencesExt

CONSTANTS
    Locations,      \* the paths at which there may be something, links followed
    Trees,          \* what there may be at each
    Target,         \* what the link at a location points to
    Cwd,            \* the application's directory
    Environments,   \* HERMES_ALLOWED_FILESYSTEM_ROOTS: the paths it lists, or Unset
    Unset,
    BlockedNames,   \* names that block what is below them as well: .ssh, secrets
    BlockedEndings  \* names that "*.key" and its like match: they block only themselves

\* What a path is made of once it is resolved; a request may have ".." in it.
Names == STRING \ {".."}

Kinds == {"absent", "file", "large", "special", "dir", "link"}
Parent(l) == Front(l)
Within(l, root) == IsPrefix(root, l)

Below(dir) == {l \in Locations : Within(l, dir) /\ l # dir}
Children(dir) == {l \in Below(dir) : Parent(l) = dir}

WellFormed(t) ==
    \A l \in Locations : t[l] # "absent" /\ Parent(l) # <<>> => t[Parent(l)] = "dir"

MayBe(l) == {t[l] : t \in Trees}

ASSUME LocationsAssumption ==
    /\ Locations \subseteq Seq(Names) \ {<<>>}
    /\ \A l \in Locations : Parent(l) \in Locations \cup {<<>>}

ASSUME TreesAssumption == \A t \in Trees : t \in [Locations -> Kinds] /\ WellFormed(t)

\* Links to links, and loops of them, are left out: what is on the way to a target is no
\* link, but for what is above the link itself, which is a directory while the link is there.
ASSUME TargetsAssumption ==
    /\ Target \in [Locations -> Locations]
    /\ \A l, k \in Locations :
         "link" \in MayBe(l) /\ Within(Target[l], k) /\ (k = l \/ ~Within(l, k))
             => "link" \notin MayBe(k)

ASSUME EnvironmentsAssumption == Environments \ {Unset} \subseteq Seq(Seq(Names))

VARIABLES
    tree,           \* what is at each location now
    roots           \* _roots; empty when the configuration was refused

-----------------------------------------------------------------------------
(* Path.resolve, and what the system calls that follow links find *)

Step(at, name) ==
    LET next == Append(at, name)
    IN  IF next \in Locations /\ tree[next] = "link" THEN Target[next] ELSE next

Real(path) ==
    LET to[i \in 0..Len(path)] == IF i = 0 THEN <<>> ELSE Step(to[i - 1], path[i])
    IN  to[Len(path)]

KindAt(path) ==
    IF Real(path) = <<>> THEN "dir"
    ELSE IF Real(path) \in Locations THEN tree[Real(path)] ELSE "absent"

IsFile(path) == KindAt(path) \in {"file", "large"}
Exists(path) == KindAt(path) # "absent"

\* What a path itself names, its last link not followed.
Itself(path) == Append(Real(Parent(path)), Last(path))
IsLink(path) == Itself(path) \in Locations /\ tree[Itself(path)] = "link"

\* Mutant: the entries are under the directory that the path leads to.
EntriesFollowed(dir) == {l \in Children(Real(dir)) : tree[l] # "absent"}

\* The names in a directory, under the path that it was opened by.
Entries(dir) == {Append(dir, Last(l)) : l \in {k \in Children(Real(dir)) : tree[k] # "absent"}}

-----------------------------------------------------------------------------
(* SecurityPolicy: no roots at all rather than unsafe ones *)

IsUnsafeRoot(root) == root = <<>> \/ Within(Cwd, root)

LoadRoots(listed) ==
    LET paths == [i \in DOMAIN listed |-> Real(listed[i])]
    IN  IF \E i \in DOMAIN paths : IsUnsafeRoot(paths[i]) THEN <<>> ELSE paths

FromEnvironment(env) == IF env = Unset THEN <<>> ELSE LoadRoots(env)

Start == roots \in {FromEnvironment(env) : env \in Environments} \ {<<>>}

-----------------------------------------------------------------------------
(* resolve *)

Relative(path, root) == SubSeq(path, Len(root) + 1, Len(path))

Blocked(relative) ==
    \/ \E i \in DOMAIN relative : relative[i] \in BlockedNames
    \/ relative # <<>> /\ Last(relative) \in BlockedEndings

\* The first root that an absolute path is in.
RootOf(path) ==
    LET first == SelectInSeq(roots, LAMBDA root : Within(Real(path), root))
    IN  roots[IF first = 0 THEN 1 ELSE first]

Candidates(query) ==
    IF query.absolute THEN <<[path |-> query.path, root |-> RootOf(query.path)]>>
    ELSE [i \in DOMAIN roots |-> [path |-> roots[i] \o query.path, root |-> roots[i]]]

Refusal(code) == [code |-> code, path |-> <<>>, root |-> <<>>]

\* Mutant: the names of the requested path are looked at, not those that it leads to.
JudgeRequested(requested, root) ==
    LET path == Real(requested)
    IN  IF ~Exists(path) THEN Refusal("not_found")
        ELSE IF Blocked(Relative(requested, root)) THEN Refusal("blocked_path")
        ELSE [code |-> "ok", path |-> path, root |-> root]

Judge(requested, root) ==
    LET path == Real(requested)
    IN  IF ~Exists(path) THEN Refusal("not_found")
        ELSE IF Blocked(Relative(path, root)) THEN Refusal("blocked_path")
        ELSE [code |-> "ok", path |-> path, root |-> root]

\* The first candidate that is in its root decides, whether it exists or not.
Resolve(query) ==
    LET first == SelectInSeq(Candidates(query), LAMBDA c : Within(Real(c.path), c.root))
        candidate == Candidates(query)[first]
    IN  IF ".." \in ToSet(query.path) THEN Refusal("path_traversal")
        ELSE IF first = 0 THEN Refusal("outside_allowed_root")
        ELSE Judge(candidate.path, candidate.root)

Absolute(path) == [absolute |-> TRUE, path |-> path]

\* What the policy lets a tool show, by its own location alone, and what it shows of a
\* directory: one root may lie in another, and the first one decides.
Allowed(location) ==
    \E i \in DOMAIN roots :
        Within(location, roots[i]) /\ ~Blocked(Relative(location, roots[i]))

Shown(location) ==
    LET root == RootOf(location)
    IN  Within(location, root) /\ ~Blocked(Relative(location, root))
=============================================================================
