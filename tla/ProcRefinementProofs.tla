------------------------- MODULE ProcRefinementProofs -------------------------
(***************************************************************************)
(* Proc implements the process life cycle of ProcLifecycle under the      *)
(* mapping Run, for every size of the table and every set of CPUs. The    *)
(* proof rests on the inductive invariant IInv of ProcProofs: it is what  *)
(* tells that a CPU in sched() runs nothing and that the slot a scheduler *)
(* dispatches is nobody's c->proc.                                        *)
(***************************************************************************)
EXTENDS ProcProofs

USE NPROCAssumption, CPUAssumption, MaxPidAssumption

(* A step that moves no process on or off a CPU maps Run to itself.       *)
LEMMA RunSame ==
    ASSUME cproc \in [CPU -> SlotOrNull], UNCHANGED cproc,
           \A t \in Slot : state'[t] = "RUNNING" <=> state[t] = "RUNNING"
    PROVE  Run' = Run
BY DEF Run, SlotOrNull, Slot

(* The process on CPU c stops being RUNNING, the others keep running:     *)
(* Run loses exactly c's entry.                                           *)
LEMMA RunStop ==
    ASSUME IInv, NEW c \in CPU, pc[c] \in {"user", "resume"}, UNCHANGED cproc,
           state'[cproc[c]] # "RUNNING",
           \A t \in Slot \ {cproc[c]} : state'[t] = "RUNNING" <=> state[t] = "RUNNING"
    PROVE  /\ cproc[c] \in Slot /\ Run[c] = cproc[c]
           /\ Run' = [Run EXCEPT ![c] = 0]
<1>1. cproc[c] \in Slot /\ state[cproc[c]] = "RUNNING"
    BY DEF IInv, TypeInv, PosIsCurrent, OnCpu, CurrentRunning
<1>2. Run[c] = cproc[c]
    BY <1>1 DEF Run
<1>3. \A d \in CPU \ {c} : cproc[d] # cproc[c]
    BY <1>1 DEF IInv, RunsOnOneCpu, Slot
<1>4. cproc \in [CPU -> SlotOrNull]
    BY DEF IInv, TypeInv, TypeOK
<1>5. Run'[c] = 0
    BY <1>1 DEF Run
<1>6. \A d \in CPU \ {c} : Run'[d] = Run[d]
    BY <1>3 DEF Run
<1>7. DOMAIN Run' = CPU /\ DOMAIN Run = CPU /\ Run' = [d \in CPU |-> Run'[d]]
    BY DEF Run
<1>9. Run' = [Run EXCEPT ![c] = 0]
    BY <1>5, <1>6, <1>7
<1>8. QED
    BY <1>1, <1>2, <1>9

(* One pass of wait()'s loop reaps one ZOMBIE, returns, or puts p to      *)
(* sleep.                                                                  *)
LEMMA WaitScanLife ==
    ASSUME TypeOK, NEW c \in CPU, NEW p \in Slot, NEW ch, WaitScan(c, p, ch)
    PROVE  \/ \E q \in Slot : state[q] = "ZOMBIE" /\ state' = [state EXCEPT ![q] = "UNUSED"]
           \/ state' = state
           \/ state' = [state EXCEPT ![p] = "SLEEPING"]
BY DEF WaitScan, TypeOK, Slot

(* The life-cycle step of a pass of wait() by the process on CPU c.       *)
LEMMA WaitLife ==
    ASSUME IInv, TypeInv', NEW c \in CPU, pc[c] \in {"user", "resume"},
           NEW ch, WaitScan(c, cproc[c], ch), UNCHANGED cproc
    PROVE  [Life!Next]_Life!vars
<1>1. cproc[c] \in Slot /\ state[cproc[c]] = "RUNNING"
    BY DEF IInv, TypeInv, PosIsCurrent, OnCpu, CurrentRunning
<1>2. cproc \in [CPU -> SlotOrNull] /\ state \in [Slot -> States]
    BY DEF IInv, TypeInv, TypeOK
<1>3. \/ \E q \in Slot : state[q] = "ZOMBIE" /\ state' = [state EXCEPT ![q] = "UNUSED"]
      \/ state' = state
      \/ state' = [state EXCEPT ![cproc[c]] = "SLEEPING"]
    BY <1>1, WaitScanLife DEF IInv, TypeInv
<1>4. CASE \E q \in Slot : state[q] = "ZOMBIE" /\ state' = [state EXCEPT ![q] = "UNUSED"]
    <2>1. PICK q \in Slot : state[q] = "ZOMBIE" /\ state' = [state EXCEPT ![q] = "UNUSED"]
        BY <1>4
    <2>2. Run' = Run
        BY <1>2, <2>1, RunSame
    <2>3. Life!Reap(q)
        BY <2>1, <2>2 DEF Life!Reap
    <2>4. QED
        BY <2>1, <2>3 DEF Life!Next, Life!Slot, Slot
<1>5. CASE state' = state
    <2>1. Run' = Run
        BY <1>5 DEF Run
    <2>2. QED
        BY <1>5, <2>1 DEF Life!vars
<1>6. CASE state' = [state EXCEPT ![cproc[c]] = "SLEEPING"]
    <2>1. /\ state'[cproc[c]] # "RUNNING"
          /\ \A t \in Slot \ {cproc[c]} : state'[t] = "RUNNING" <=> state[t] = "RUNNING"
        BY <1>1, <1>2, <1>6
    <2>2. Run[c] = cproc[c] /\ Run' = [Run EXCEPT ![c] = 0]
        BY <2>1, RunStop
    <2>6. Life!Woken({}) = state
        BY <1>2 DEF Life!Woken, Life!Slot, Slot
    <2>3. state' = [Life!Woken({}) EXCEPT ![Run[c]] = "SLEEPING"]
        BY <1>6, <2>2, <2>6
    <2>4. Life!Stop(c, "SLEEPING", {})
        BY <1>1, <2>2, <2>3 DEF Life!Stop, Life!Sleeping, Slot
    <2>5. QED
        BY <2>4 DEF Life!Next
<1>7. QED
    BY <1>3, <1>4, <1>5, <1>6

(* The process on CPU c leaves the CPU as ns, and the other slots that    *)
(* change are sleepers woken in the same critical section: a Stop step.   *)
LEMMA StopLife ==
    ASSUME IInv, NEW c \in CPU, pc[c] \in {"user", "resume"}, UNCHANGED cproc,
           state' \in [Slot -> States],
           NEW ns \in {"RUNNABLE", "SLEEPING", "ZOMBIE"}, state'[cproc[c]] = ns,
           \A t \in Slot \ {cproc[c]} : state'[t] # state[t] =>
               state[t] = "SLEEPING" /\ state'[t] = "RUNNABLE"
    PROVE  Life!Next
<1>1. /\ cproc[c] \in Slot /\ state[cproc[c]] = "RUNNING"
      /\ state \in [Slot -> States]
    BY DEF IInv, TypeInv, TypeOK, PosIsCurrent, OnCpu, CurrentRunning
<1>2. /\ state'[cproc[c]] # "RUNNING"
      /\ \A t \in Slot \ {cproc[c]} : state'[t] = "RUNNING" <=> state[t] = "RUNNING"
    BY <1>1
<1>3. Run[c] = cproc[c] /\ Run' = [Run EXCEPT ![c] = 0]
    BY <1>2, RunStop
<1> DEFINE W == {t \in Slot \ {cproc[c]} : state'[t] # state[t]}
<1>4. W \in SUBSET Life!Slot /\ W \subseteq Life!Sleeping
    BY DEF W, Life!Sleeping, Life!Slot, Slot
<1>5. state' = [Life!Woken(W) EXCEPT ![Run[c]] = ns]
    BY <1>1, <1>3 DEF W, Life!Woken, Life!Slot, Slot
<1>6. Life!Stop(c, ns, W)
    BY <1>1, <1>3, <1>4, <1>5 DEF Life!Stop, Slot
<1>7. QED
    BY <1>4, <1>6 DEF Life!Next

(* Only sleepers change, and only to RUNNABLE: a Wake step.               *)
LEMMA WakeLife ==
    ASSUME cproc \in [CPU -> SlotOrNull], UNCHANGED cproc,
           state \in [Slot -> States], state' \in [Slot -> States],
           \A t \in Slot : state'[t] # state[t] =>
               state[t] = "SLEEPING" /\ state'[t] = "RUNNABLE"
    PROVE  Life!Next
<1>1. Run' = Run
    BY RunSame
<1> DEFINE W == {t \in Slot : state'[t] # state[t]}
<1>2. W \in SUBSET Life!Slot /\ W \subseteq Life!Sleeping
    BY DEF W, Life!Sleeping, Life!Slot, Slot
<1>3. state' = Life!Woken(W)
    BY DEF W, Life!Woken, Life!Slot, Slot
<1>4. Life!Wake(W)
    BY <1>1, <1>2, <1>3 DEF Life!Wake
<1>5. QED
    BY <1>2, <1>4 DEF Life!Next

(* One slot that no CPU runs changes state, to a state other than RUNNING: *)
(* which process each CPU runs is unchanged.                               *)
LEMMA SlotQuiet ==
    ASSUME cproc \in [CPU -> SlotOrNull], UNCHANGED cproc,
           state \in [Slot -> States], NEW s \in Slot, NEW v,
           state[s] # "RUNNING", v # "RUNNING", state' = [state EXCEPT ![s] = v]
    PROVE  Run' = Run
<1>1. \A t \in Slot : state'[t] = "RUNNING" <=> state[t] = "RUNNING"
    OBVIOUS
<1>2. QED
    BY <1>1, RunSame

(* Every step of Proc is a life-cycle step or leaves the life cycle alone. *)
LEMMA RefineNext == IInv /\ [Next]_vars => [Life!Next]_Life!vars
<1> SUFFICES ASSUME IInv, [Next]_vars PROVE [Life!Next]_Life!vars
    OBVIOUS
<1>0. TypeInv'
    BY TypeInvNext DEF IInv
<1>t. /\ state \in [Slot -> States] /\ state' \in [Slot -> States]
      /\ pc \in [CPU -> PCs] /\ cproc \in [CPU -> SlotOrNull]
      /\ child \in [CPU -> SlotOrNull]
    BY <1>0 DEF IInv, TypeInv, TypeOK
<1>s. ASSUME UNCHANGED <<state, cproc>> PROVE UNCHANGED Life!vars
    BY <1>s DEF Life!vars, Run
<1>1. ASSUME NEW c \in CPU, SchedAcquire(c) PROVE [Life!Next]_Life!vars
    BY <1>1, <1>s DEF SchedAcquire, procVars
<1>2. ASSUME NEW c \in CPU, Dispatch(c) PROVE [Life!Next]_Life!vars
    <2>1. PICK s \in pos[c]..NPROC :
              /\ FirstIn(s, pos[c], {t \in Slot : state[t] = "RUNNABLE"})
              /\ cproc' = [cproc EXCEPT ![c] = s]
              /\ state' = [state EXCEPT ![s] = "RUNNING"]
        BY <1>2 DEF Dispatch
    <2>2. /\ pc[c] = "scan" /\ lock = c /\ cproc[c] = 0
          /\ s \in Slot /\ state[s] = "RUNNABLE"
        BY <1>2, <2>1 DEF Dispatch, FirstIn, IInv, LockOwner, HoldsLock, IdleNull
    <2>3. \A d \in CPU \ {c} : cproc[d] # s
        <3> SUFFICES ASSUME NEW d \in CPU \ {c}, cproc[d] = s PROVE FALSE
            OBVIOUS
        <3>1. pc[d] \in {"resume", "user", "fork", "sched"}
            BY <1>t, <2>2 DEF IInv, IdleNull, PCs, Slot
        <3>2. pc[d] # "sched" /\ pc[d] # "resume"
            BY <2>2 DEF IInv, LockOwner, HoldsLock
        <3>3. QED
            BY <2>2, <3>1, <3>2 DEF IInv, CurrentRunning
    <2>4. Run[c] = 0
        BY <2>2 DEF Run, Slot
    <2>5. Run'[c] = s /\ \A d \in CPU \ {c} : Run'[d] = Run[d]
        BY <1>t, <2>1, <2>2, <2>3 DEF Run
    <2>6. DOMAIN Run' = CPU /\ DOMAIN Run = CPU /\ Run' = [d \in CPU |-> Run'[d]]
        BY DEF Run
    <2>7. Run' = [Run EXCEPT ![c] = s]
        BY <2>5, <2>6
    <2>8. Life!Dispatch(c, s)
        BY <2>1, <2>2, <2>4, <2>7 DEF Life!Dispatch
    <2>9. QED
        BY <2>2, <2>8 DEF Life!Next, Life!Slot, Slot
<1>3. ASSUME NEW c \in CPU, SchedRelease(c) PROVE [Life!Next]_Life!vars
    BY <1>3, <1>s DEF SchedRelease, procVars
<1>4. ASSUME NEW c \in CPU, Sched(c) PROVE [Life!Next]_Life!vars
    <2>1. /\ pc[c] = "sched" /\ state[cproc[c]] # "RUNNING"
          /\ cproc' = [cproc EXCEPT ![c] = 0] /\ UNCHANGED state
        BY <1>4 DEF Sched, procVars
    <2>2. Run' = Run
        BY <1>t, <2>1 DEF Run, Slot
    <2>3. QED
        BY <2>1, <2>2 DEF Life!vars
<1>5. ASSUME NEW c \in CPU, ResumeRelease(c) PROVE [Life!Next]_Life!vars
    BY <1>5, <1>s DEF ResumeRelease
<1>6. ASSUME NEW c \in CPU, ResumeWait(c) PROVE [Life!Next]_Life!vars
    BY <1>0, <1>6, WaitLife DEF ResumeWait
<1>7. ASSUME NEW c \in CPU, Wait(c) PROVE [Life!Next]_Life!vars
    BY <1>0, <1>7, WaitLife DEF Wait
<1>8. ASSUME NEW c \in CPU, Yield(c) PROVE [Life!Next]_Life!vars
    <2>1. pc[c] = "user" /\ UNCHANGED cproc
          /\ state' = [state EXCEPT ![cproc[c]] = "RUNNABLE"]
        BY <1>8 DEF Yield
    <2>2. QED
        BY <1>t, <2>1, StopLife
<1>9. ASSUME NEW c \in CPU, SysSleep(c) PROVE [Life!Next]_Life!vars
    <2>1. pc[c] = "user" /\ UNCHANGED cproc
          /\ state' = [state EXCEPT ![cproc[c]] = "SLEEPING"]
        BY <1>9 DEF SysSleep
    <2>2. QED
        BY <1>t, <2>1, StopLife
<1>10. ASSUME NEW c \in CPU, Tick(c) PROVE [Life!Next]_Life!vars
    <2>1. state' = Wakeup1(state, TicksChan) /\ UNCHANGED cproc
        BY <1>10 DEF Tick, cpuVars
    <2>2. \A t \in Slot : state'[t] # state[t] => state[t] = "SLEEPING" /\ state'[t] = "RUNNABLE"
        BY <2>1 DEF Wakeup1
    <2>3. QED
        BY <1>t, <2>1, <2>2, WakeLife
<1>11. ASSUME NEW c \in CPU, NEW k \in 0..MaxPid, Kill(c, k) PROVE [Life!Next]_Life!vars
    <2>1. PICK s \in Slot :
              state' = [state EXCEPT ![s] = IF @ = "SLEEPING" THEN "RUNNABLE" ELSE @]
        BY <1>11 DEF Kill
    <2>2. \A t \in Slot : state'[t] # state[t] => state[t] = "SLEEPING" /\ state'[t] = "RUNNABLE"
        BY <1>t, <2>1
    <2>3. UNCHANGED cproc
        BY <1>11 DEF Kill, cpuVars
    <2>4. QED
        BY <1>t, <2>2, <2>3, WakeLife
<1>12. ASSUME NEW c \in CPU, Exit(c) PROVE [Life!Next]_Life!vars
    <2>1. pc[c] = "user" /\ UNCHANGED cproc
        BY <1>12 DEF Exit
    <2>2. cproc[c] \in Slot
        BY <2>1 DEF IInv, TypeInv, PosIsCurrent, OnCpu
    <2>3. /\ state'[cproc[c]] = "ZOMBIE"
          /\ \A t \in Slot \ {cproc[c]} : state'[t] # state[t] =>
                state[t] = "SLEEPING" /\ state'[t] = "RUNNABLE"
        BY <1>12, <2>2 DEF Exit, Wakeup1
    <2>4. QED
        BY <1>t, <2>1, <2>3, StopLife
<1>13. ASSUME NEW c \in CPU, ForkAlloc(c) PROVE [Life!Next]_Life!vars
    <2>1. PICK s \in Slot :
              /\ FirstIn(s, 1, {t \in Slot : state[t] = "UNUSED"})
              /\ state' = [state EXCEPT ![s] = "EMBRYO"]
        BY <1>13 DEF ForkAlloc
    <2>2. state[s] = "UNUSED" /\ UNCHANGED cproc
        BY <1>13, <2>1 DEF ForkAlloc, FirstIn
    <2>3. Run' = Run
        BY <1>t, <2>1, <2>2, SlotQuiet
    <2>4. Life!Alloc(s)
        BY <2>1, <2>2, <2>3 DEF Life!Alloc
    <2>5. QED
        BY <2>4 DEF Life!Next, Life!Slot, Slot
<1>14. ASSUME NEW c \in CPU, ForkFail(c) PROVE [Life!Next]_Life!vars
    <2>1. /\ child[c] \in Slot /\ state[child[c]] = "EMBRYO"
          /\ state' = [state EXCEPT ![child[c]] = "UNUSED"] /\ UNCHANGED cproc
        BY <1>14 DEF ForkFail, IInv, ChildEmbryo
    <2>2. Run' = Run
        BY <1>t, <2>1, SlotQuiet
    <2>3. Life!Abandon(child[c])
        BY <2>1, <2>2 DEF Life!Abandon
    <2>4. QED
        BY <2>1, <2>3 DEF Life!Next, Life!Slot, Slot
<1>15. ASSUME NEW c \in CPU, ForkDone(c) PROVE [Life!Next]_Life!vars
    <2>1. /\ child[c] \in Slot /\ state[child[c]] = "EMBRYO"
          /\ state' = [state EXCEPT ![child[c]] = "RUNNABLE"] /\ UNCHANGED cproc
        BY <1>15 DEF ForkDone, IInv, ChildEmbryo
    <2>2. Run' = Run
        BY <1>t, <2>1, SlotQuiet
    <2>3. Life!Admit(child[c])
        BY <2>1, <2>2 DEF Life!Admit
    <2>4. QED
        BY <2>1, <2>3 DEF Life!Next, Life!Slot, Slot
<1>16. CASE UNCHANGED vars
    BY <1>16, <1>s DEF vars
<1>17. QED
    BY <1>1, <1>2, <1>3, <1>4, <1>5, <1>6, <1>7, <1>8, <1>9, <1>10, <1>11,
       <1>12, <1>13, <1>14, <1>15, <1>16 DEF Next

(* Proc implements ProcLifecycle: the kernel's process table, with its    *)
(* lock, scheduler loops, fork, exit, wait, sleep and kill, only ever      *)
(* moves slots along the life cycle of proc.h, switches a CPU only to a    *)
(* RUNNABLE process when it runs nothing, and takes a process off a CPU    *)
(* only through that CPU, for every NPROC and set of CPUs.                 *)
THEOREM Refinement == Spec => Refines
<1>1. Init => Life!Init
    BY DEF Init, Life!Init, Run, InitSlot, Life!Slot, Slot
<1>2. Spec => []IInv
    BY IInvInit, IInvNext, PTL DEF Spec
<1>3. QED
    BY <1>1, <1>2, RefineNext, PTL DEF Spec, Refines, Life!Spec

-----------------------------------------------------------------------------
(* The abstract life cycle keeps Exclusive by itself: Dispatch gives a     *)
(* CPU that runs nothing a RUNNABLE slot, which no CPU runs, and Stop      *)
(* takes the process off the CPU that runs it.                             *)
LifeInv == Life!TypeOK /\ Life!Exclusive

LEMMA LifeInvInit == Life!Init => LifeInv
BY DEF Life!Init, LifeInv, Life!TypeOK, Life!Exclusive, Life!Slot

LEMMA LifeInvNext == LifeInv /\ [Life!Next]_Life!vars => LifeInv'
<1> SUFFICES ASSUME LifeInv, [Life!Next]_Life!vars PROVE LifeInv'
    OBVIOUS
<1>t. /\ state \in [Life!Slot -> States] /\ Run \in [CPU -> 0..NPROC]
      /\ Life!Exclusive
    BY DEF LifeInv, Life!TypeOK, States
<1> USE <1>t
<1>1. ASSUME NEW s \in Life!Slot,
             Life!Alloc(s) \/ Life!Abandon(s) \/ Life!Admit(s) \/ Life!Reap(s)
      PROVE  LifeInv'
    BY <1>1 DEF Life!Alloc, Life!Abandon, Life!Admit, Life!Reap, LifeInv,
             Life!TypeOK, Life!Exclusive, States
<1>2. ASSUME NEW c \in CPU, NEW s \in Life!Slot, Life!Dispatch(c, s)
      PROVE  LifeInv'
    <2>1. \A d \in CPU : Run[d] # s
        BY <1>2 DEF Life!Dispatch, Life!Exclusive
    <2>2. Life!TypeOK'
        BY <1>2 DEF Life!Dispatch, Life!TypeOK, Life!Slot, States
    <2>3. Life!Exclusive'
        BY <1>2, <2>1 DEF Life!Dispatch, Life!Exclusive, Life!Slot
    <2>4. QED
        BY <2>2, <2>3 DEF LifeInv
<1>3. ASSUME NEW c \in CPU, NEW ns \in {"RUNNABLE", "SLEEPING", "ZOMBIE"},
             NEW W \in SUBSET Life!Slot, Life!Stop(c, ns, W)
      PROVE  LifeInv'
    <2>1. Run[c] \in Life!Slot /\ state[Run[c]] = "RUNNING"
        BY <1>3 DEF Life!Stop, Life!Exclusive, Life!Slot
    <2>2. \A t \in Life!Slot :
              /\ state'[t] = "RUNNING" <=> t # Run[c] /\ state[t] = "RUNNING"
              /\ state'[t] \in States
        BY <1>3, <2>1 DEF Life!Stop, Life!Woken, Life!Sleeping, States
    <2>6. DOMAIN state' = Life!Slot
        BY <1>3 DEF Life!Stop, Life!Woken
    <2>7. state' = [t \in Life!Slot |-> state'[t]]
        BY <1>3 DEF Life!Stop, Life!Woken
    <2>8. Run' \in [CPU -> 0..NPROC]
        BY <1>3 DEF Life!Stop
    <2>3. Life!TypeOK'
        BY <2>2, <2>6, <2>7, <2>8 DEF Life!TypeOK, States
    <2>4. Life!Exclusive'
        BY <1>3, <2>1, <2>2 DEF Life!Stop, Life!Exclusive, Life!Slot
    <2>5. QED
        BY <2>3, <2>4 DEF LifeInv
<1>4. ASSUME NEW W \in SUBSET Life!Slot, Life!Wake(W) PROVE LifeInv'
    BY <1>4 DEF Life!Wake, Life!Woken, Life!Sleeping, LifeInv, Life!TypeOK,
             Life!Exclusive, States
<1>5. CASE UNCHANGED Life!vars
    BY <1>5 DEF Life!vars, LifeInv, Life!TypeOK, Life!Exclusive
<1>6. QED
    BY <1>1, <1>2, <1>3, <1>4, <1>5 DEF Life!Next

(* Any implementation of the life cycle runs a process on at most one CPU *)
(* and runs exactly the RUNNING processes; Proc does, through Refinement: *)
(* the RUNNING processes are exactly those some CPU's c->proc names.       *)
THEOREM LifeExclusive == Spec => []Life!Exclusive
<1>1. Life!Spec => []LifeInv
    BY LifeInvInit, LifeInvNext, PTL DEF Life!Spec
<1>2. QED
    BY <1>1, Refinement, PTL DEF Refines, LifeInv

=============================================================================
