----------------------------- MODULE MCPidTable -----------------------------
(***************************************************************************)
(* PidTable for TLC: the processes of two jobs and an orphan, on two pids, *)
(* so that a pid may be given again.                                       *)
(***************************************************************************)
EXTENDS PidTable

CONSTANTS p1, p2, o1, n1, n2
=============================================================================
