---------------------------- MODULE MCProcess ----------------------------
(* Small instances of Process: the pids are interchangeable.              *)
EXTENDS Process, TLC

PidSymmetry == Permutations(Pid)
=============================================================================
