--------------------------- MODULE MCBrowserTool ---------------------------
(***************************************************************************)
(* Two threads, so that an action can overlap one that was given up, and   *)
(* two pages that can be mixed.                                            *)
(***************************************************************************)
EXTENDS BrowserTool, TLC

CONSTANTS t1, t2, p1, p2

BrowserSymmetry == Permutations(Threads) \cup Permutations(Pages)
=============================================================================
