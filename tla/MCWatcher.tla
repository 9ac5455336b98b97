---------------------------- MODULE MCWatcher ----------------------------
(* A small instance of Watcher: a source file two filters match, one that *)
(* one filter matches, and a file no filter matches.                      *)
EXTENDS Watcher

CONSTANTS main, util, notes

MatchesDef == [f \in File |-> CASE f = main -> 2 [] f = util -> 1 [] OTHER -> 0]
=============================================================================
