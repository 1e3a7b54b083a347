----------------------------- MODULE MCSandbox -----------------------------
(***************************************************************************)
(* A sandbox with a file or link, a directory or link with a file in it,   *)
(* and a blocked directory; a directory outside with a file of that name.  *)
(***************************************************************************)
EXTENDS SandboxManager, TLC

BoxAt == <<"box">>
OutAt == <<"out">>
BoxA == <<"box", "a">>
BoxD == <<"box", "d">>
BoxDA == <<"box", "d", "a">>
BoxS == <<"box", "secrets">>
BoxSA == <<"box", "secrets", "a">>
OutA == <<"out", "a">>
OutK == <<"out", "x.key">>
OutKA == <<"out", "x.key", "a">>

MCLocations == {BoxAt, OutAt, OutA, BoxA, BoxD, BoxDA, BoxS, BoxSA, OutK, OutKA}

Tree(box, a, d, da, s, sa) ==
    BoxAt :> box @@ OutAt :> "dir" @@ OutA :> "file" @@ OutK :> "dir" @@ OutKA :> "file"
        @@ BoxA :> a @@ BoxD :> d @@ BoxDA :> da @@ BoxS :> s @@ BoxSA :> sa

MCTrees ==
    {Tree("dir", a, d, IF d = "dir" THEN "file" ELSE "absent", "dir", "file") :
        a \in {"file", "large", "link"}, d \in {"dir", "link", "special"}}
    \cup {Tree("link", "absent", "absent", "absent", "absent", "absent")}

TargetHere == [l \in MCLocations |-> IF l = BoxA THEN BoxSA ELSE OutAt]
TheApplication == <<"app">>
Roots == {Unset, <<<<"app">>>>, <<BoxAt>>, <<OutAt, BoxAt>>, <<BoxAt, BoxS>>}

Ask(path) == [absolute |-> FALSE, path |-> path]
TheQueries == {Ask(<<>>), Ask(<<"a">>), Absolute(BoxDA), Ask(<<"x.key", "a">>),
               Ask(<<"..", "out", "a">>)}
=============================================================================
