--------------------------- MODULE MCBrowserStudio ---------------------------
(* Small instances of BrowserStudio for TLC. *)
EXTENDS BrowserStudio, TLC

Symmetry == Permutations(Request)
=============================================================================
