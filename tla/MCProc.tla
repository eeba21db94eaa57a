------------------------------- MODULE MCProc -------------------------------
(* Model-checking instance of Proc: a small process table and two CPUs.   *)
EXTENDS Proc, TLC

CONSTANTS c1, c2

MCCPU == {c1, c2}

\* The CPUs are interchangeable: scheduler() runs the same loop on each.
CpuSymmetry == Permutations(MCCPU)
=============================================================================
