---------------------------- MODULE MCRenzoku ----------------------------
(* A small instance of Renzoku: one file that two filters match, one that  *)
(* a filter matches.                                                      *)
EXTENDS Renzoku, TLC

PidSymmetry == Permutations(Pid)

CONSTANTS b, t, g, main, util

OneTest    == <<t>>
MatchesDef == [f \in File |-> IF f = main THEN 2 ELSE 1]
=============================================================================
