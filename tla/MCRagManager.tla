---------------------------- MODULE MCRagManager ----------------------------
(***************************************************************************)
(* Two directories with a file each; an empty text, a blank one, one with  *)
(* a line break that ends a chunk early, and one that is cut at its size.  *)
(***************************************************************************)
EXTENDS RagManager, TLC

CONSTANTS p1, p2, d1, d2

TwoDirs == p1 :> d1 @@ p2 :> d2
SmallTexts == {<<>>, <<"nl", "nl">>, <<"x", "x", "x", "nl", "x", "x">>,
               <<"x", "x", "x", "x", "x">>}
OneOrAll == {{p1}, {p1, p2}}
=============================================================================
