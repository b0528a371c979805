--------------------------- MODULE MCBrowserSession ---------------------------
(***************************************************************************)
(* A small instance of BrowserSession.  Which tab is which makes no         *)
(* difference, so that runs of safety properties may take them as one.      *)
(***************************************************************************)
EXTENDS BrowserSession, TLC

TabSymmetry == Permutations(Tabs)
===============================================================================
