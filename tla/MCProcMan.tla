---------------------------- MODULE MCProcMan ----------------------------
(* Small instances of ProcMan.                                            *)
EXTENDS ProcMan, TLC

PidSymmetry == Permutations(Pid)

CONSTANTS b, t, u, g

OneTest  == <<t>>
TwoTests == <<t, u>>
=============================================================================
