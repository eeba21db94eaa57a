----------------------------- MODULE MCProcInfo -----------------------------
(* Model-checking instance of ProcInfo: one CPU, which is enough for the  *)
(* locked lookup of getprocinfo, and three slots.                         *)
EXTENDS ProcInfo, TLC

CONSTANTS c1

MCCPU1 == {c1}

\* compute_weight leaves either the right weight of nice 0 or a zero.
MCIndeterminate == {0, 1024}
=============================================================================
