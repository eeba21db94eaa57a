---------------------------- MODULE ProcLifecycle ----------------------------
(***************************************************************************)
(* What the process table of src/proc.c promises, without the lock, the   *)
(* scheduler loop or the pids: the life of a slot (the procstate of       *)
(* proc.h) and which process each CPU runs.                               *)
(*                                                                         *)
(*   UNUSED -> EMBRYO -> RUNNABLE <-> RUNNING -> ZOMBIE -> UNUSED          *)
(*             EMBRYO -> UNUSED          RUNNING -> SLEEPING -> RUNNABLE    *)
(*                                                                         *)
(* A slot becomes RUNNING only by being given to a CPU that runs nothing,  *)
(* and stops being RUNNING only when that CPU gives it up. Proc implements *)
(* this specification under the mapping Run (see Proc.tla).               *)
(***************************************************************************)
EXTENDS Naturals

CONSTANTS NPROC, CPU

Slot == 1..NPROC

VARIABLES
    state,      \* the procstate of each slot
    run         \* the slot CPU c runs, 0 for none

vars == <<state, run>>

Init ==
    /\ state = [s \in Slot |-> IF s = 1 THEN "RUNNABLE" ELSE "UNUSED"]
    /\ run = [c \in CPU |-> 0]

(* The slots of W, all SLEEPING, become RUNNABLE.                         *)
Woken(W) == [s \in Slot |-> IF s \in W THEN "RUNNABLE" ELSE state[s]]
Sleeping == {s \in Slot : state[s] = "SLEEPING"}

Alloc(s) ==
    /\ state[s] = "UNUSED"
    /\ state' = [state EXCEPT ![s] = "EMBRYO"]
    /\ UNCHANGED run

Abandon(s) ==
    /\ state[s] = "EMBRYO"
    /\ state' = [state EXCEPT ![s] = "UNUSED"]
    /\ UNCHANGED run

Admit(s) ==
    /\ state[s] = "EMBRYO"
    /\ state' = [state EXCEPT ![s] = "RUNNABLE"]
    /\ UNCHANGED run

Dispatch(c, s) ==
    /\ run[c] = 0
    /\ state[s] = "RUNNABLE"
    /\ state' = [state EXCEPT ![s] = "RUNNING"]
    /\ run' = [run EXCEPT ![c] = s]

(* The process on c stops running: it becomes ns, and the sleepers W are   *)
(* woken in the same step.                                                 *)
Stop(c, ns, W) ==
    /\ run[c] # 0
    /\ W \subseteq Sleeping
    /\ state' = [Woken(W) EXCEPT ![run[c]] = ns]
    /\ run' = [run EXCEPT ![c] = 0]

Wake(W) ==
    /\ W \subseteq Sleeping
    /\ state' = Woken(W)
    /\ UNCHANGED run

Reap(s) ==
    /\ state[s] = "ZOMBIE"
    /\ state' = [state EXCEPT ![s] = "UNUSED"]
    /\ UNCHANGED run

Next ==
    \/ \E s \in Slot : Alloc(s) \/ Abandon(s) \/ Admit(s) \/ Reap(s)
    \/ \E c \in CPU, s \in Slot : Dispatch(c, s)
    \/ \E c \in CPU, ns \in {"RUNNABLE", "SLEEPING", "ZOMBIE"}, W \in SUBSET Slot :
          Stop(c, ns, W)
    \/ \E W \in SUBSET Slot : Wake(W)

Spec == Init /\ [][Next]_vars

-----------------------------------------------------------------------------
TypeOK ==
    /\ state \in [Slot -> {"UNUSED", "EMBRYO", "SLEEPING", "RUNNABLE",
                           "RUNNING", "ZOMBIE"}]
    /\ run \in [CPU -> 0..NPROC]

(* A process runs on at most one CPU, and a slot is RUNNING exactly when  *)
(* some CPU runs it: what every scheduler over this table must keep.      *)
Exclusive ==
    /\ \A c1, c2 \in CPU : c1 # c2 /\ run[c1] # 0 => run[c1] # run[c2]
    /\ \A s \in Slot : state[s] = "RUNNING" <=> \E c \in CPU : run[c] = s

=============================================================================
