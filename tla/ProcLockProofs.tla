---------------------------- MODULE ProcLockProofs ----------------------------
(***************************************************************************)
(* Proofs that ptable.lock is never leaked and that every switch lands on *)
(* a saved context, for every size of the table and every set of CPUs.    *)
(***************************************************************************)
EXTENDS ProcProofs

USE NPROCAssumption, CPUAssumption, MaxPidAssumption

(* The inductive invariant: IInv with the two invariants proved here.     *)
LInv == IInv /\ LockNotLeaked /\ ContextSaved

-----------------------------------------------------------------------------
(* A step of CPU c keeps the lock with a holder inside a critical section *)
(* when it releases the lock, takes it entering one, or leaves the lock   *)
(* alone and does not make a holding CPU leave its critical section.      *)
LEMMA LockStep ==
    ASSUME LockNotLeaked, lock \in CPU \cup {NoCpu},
           pc \in [CPU -> PCs], pc' \in [CPU -> PCs], NEW c \in CPU,
           \A d \in CPU \ {c} : pc'[d] = pc[d],
           \/ lock' = NoCpu
           \/ lock' = c /\ pc'[c] \in HoldsLock
           \/ lock' = lock /\ (pc[c] \in HoldsLock => pc'[c] \in HoldsLock)
    PROVE  LockNotLeaked'
BY DEF LockNotLeaked

(* A step that holds ptable.lock throughout, or never holds it.           *)
LEMMA LockFree ==
    ASSUME LockNotLeaked, lock \in CPU \cup {NoCpu},
           pc \in [CPU -> PCs], pc' \in [CPU -> PCs], NEW c \in CPU,
           \A d \in CPU \ {c} : pc'[d] = pc[d],
           lock = NoCpu, lock' = NoCpu
    PROVE  LockNotLeaked'
BY LockStep

LEMMA LockNext == IInv /\ LockNotLeaked /\ [Next]_vars => LockNotLeaked'
<1> SUFFICES ASSUME IInv, LockNotLeaked, [Next]_vars PROVE LockNotLeaked'
    OBVIOUS
<1>0. TypeInv'
    BY TypeInvNext DEF IInv
<1>t. /\ pc \in [CPU -> PCs] /\ pc' \in [CPU -> PCs]
      /\ lock \in CPU \cup {NoCpu} /\ TypeOK /\ PosIsCurrent
    BY <1>0 DEF IInv, TypeInv, TypeOK
<1> USE <1>t
<1>1. ASSUME NEW c \in CPU, SchedAcquire(c) PROVE LockNotLeaked'
    BY <1>1, LockStep DEF SchedAcquire, HoldsLock
<1>2. ASSUME NEW c \in CPU, Dispatch(c) PROVE LockNotLeaked'
    BY <1>2, LockStep DEF Dispatch, HoldsLock
<1>3. ASSUME NEW c \in CPU, SchedRelease(c) PROVE LockNotLeaked'
    BY <1>3, LockStep DEF SchedRelease
<1>4. ASSUME NEW c \in CPU, Sched(c) PROVE LockNotLeaked'
    BY <1>4, LockStep DEF Sched, HoldsLock
<1>5. ASSUME NEW c \in CPU, ResumeRelease(c) PROVE LockNotLeaked'
    BY <1>5, LockStep DEF ResumeRelease
<1>6. ASSUME NEW c \in CPU, NEW p \in Slot, NEW ch, WaitScan(c, p, ch)
      PROVE  LockNotLeaked'
    <2>1. \/ pc' = [pc EXCEPT ![c] = "user"] /\ lock' = NoCpu
          \/ pc' = [pc EXCEPT ![c] = "sched"] /\ lock' = c
        BY <1>6, WaitScanStep
    <2>2. QED
        BY <2>1, LockStep DEF HoldsLock
<1>7. ASSUME NEW c \in CPU, Wait(c) PROVE LockNotLeaked'
    <2>1. cproc[c] \in Slot
        BY <1>7 DEF Wait, PosIsCurrent, OnCpu
    <2>2. QED
        BY <1>7, <1>6, <2>1 DEF Wait
<1>8. ASSUME NEW c \in CPU, ResumeWait(c) PROVE LockNotLeaked'
    <2>1. cproc[c] \in Slot
        BY <1>8 DEF ResumeWait, PosIsCurrent, OnCpu
    <2>2. QED
        BY <1>8, <1>6, <2>1 DEF ResumeWait
<1>9. ASSUME NEW c \in CPU, Yield(c) PROVE LockNotLeaked'
    BY <1>9, LockStep DEF Yield, HoldsLock
<1>10. ASSUME NEW c \in CPU, SysSleep(c) PROVE LockNotLeaked'
    BY <1>10, LockStep DEF SysSleep, HoldsLock
<1>11. ASSUME NEW c \in CPU, Exit(c) PROVE LockNotLeaked'
    BY <1>11, LockStep DEF Exit, HoldsLock
<1>12. ASSUME NEW c \in CPU, Tick(c) PROVE LockNotLeaked'
    BY <1>12, LockFree DEF Tick, cpuVars
<1>13. ASSUME NEW c \in CPU, NEW k \in 0..MaxPid, Kill(c, k) PROVE LockNotLeaked'
    BY <1>13, LockFree DEF Kill, cpuVars
<1>14. ASSUME NEW c \in CPU, ForkAlloc(c) PROVE LockNotLeaked'
    BY <1>14, LockFree DEF ForkAlloc
<1>15. ASSUME NEW c \in CPU, ForkFail(c) PROVE LockNotLeaked'
    \* fork() runs without the lock, so a held lock is another CPU's.
    BY <1>15, LockStep DEF ForkFail, HoldsLock
<1>16. ASSUME NEW c \in CPU, ForkDone(c) PROVE LockNotLeaked'
    BY <1>16, LockFree DEF ForkDone
<1>17. CASE UNCHANGED vars
    BY <1>17 DEF vars, LockNotLeaked
<1>18. QED
    BY <1>1, <1>2, <1>3, <1>4, <1>5, <1>7, <1>8, <1>9, <1>10, <1>11,
       <1>12, <1>13, <1>14, <1>15, <1>16, <1>17 DEF Next

-----------------------------------------------------------------------------
(* Slots that may be switched to: RUNNABLE, or SLEEPING until woken.      *)
Parked == {"RUNNABLE", "SLEEPING"}

(* Hypotheses shared by the context lemmas: a step that parks no slot     *)
(* that was not parked (outside p) and moves no CPU into "resume".       *)
CtxStep(p) ==
    /\ \A s \in Slot \ {p} : state'[s] \in Parked => state[s] \in Parked
    /\ \A d \in CPU : pc'[d] = "resume" =>
          pc[d] = "resume" /\ cproc'[d] = cproc[d]

(* A step that leaves every saved context alone.                          *)
LEMMA CtxKeep ==
    ASSUME ContextSaved, NEW p, UNCHANGED ctx, CtxStep(p),
           p \in Slot => (state'[p] \in Parked => state[p] \in Parked)
    PROVE  ContextSaved'
BY DEF ContextSaved, CtxStep, Parked

(* A step that saves a context for slot p (yield, sleep, wait's sleep,   *)
(* fork's child).                                                         *)
LEMMA CtxSet ==
    ASSUME ContextSaved, ctx \in [Slot -> Resumes], NEW p \in Slot,
           NEW v \in Resumes \ {"none"}, ctx' = [ctx EXCEPT ![p] = v],
           CtxStep(p),
           \A d \in CPU : pc[d] = "resume" => cproc[d] \in Slot
    PROVE  ContextSaved'
BY DEF ContextSaved, CtxStep, Parked

(* A step that discards slot p's saved context, p being RUNNING on CPU c  *)
(* and no other CPU resuming it (forkret or the return from sched()).     *)
LEMMA CtxClear ==
    ASSUME ContextSaved, ctx \in [Slot -> Resumes], NEW p \in Slot,
           ctx' = [ctx EXCEPT ![p] = "none"], state'[p] \notin Parked,
           CtxStep(p),
           \A d \in CPU : pc[d] = "resume" => cproc[d] \in Slot,
           \A d \in CPU : pc'[d] = "resume" => cproc[d] # p
    PROVE  ContextSaved'
BY DEF ContextSaved, CtxStep, Parked

(* wait()'s pass by the RUNNING process p either returns, discarding p's  *)
(* context and at most freeing a ZOMBIE, or saves p's context and sleeps. *)
LEMMA WaitScanCtx ==
    ASSUME TypeOK, NEW c \in CPU, NEW p \in Slot, NEW ch, WaitScan(c, p, ch),
           state[p] = "RUNNING"
    PROVE  \/ /\ ctx' = [ctx EXCEPT ![p] = "none"]
              /\ pc' = [pc EXCEPT ![c] = "user"]
              /\ state'[p] = "RUNNING"
              /\ \A t \in Slot : state'[t] # state[t] => state'[t] = "UNUSED"
           \/ /\ ctx' = [ctx EXCEPT ![p] = "wait"]
              /\ pc' = [pc EXCEPT ![c] = "sched"]
              /\ state' = [state EXCEPT ![p] = "SLEEPING"]
BY DEF WaitScan, TypeOK, Slot

(* No CPU other than c is resuming c's process.                           *)
LEMMA OthersResumeOthers ==
    ASSUME IInv, NEW c \in CPU, pc[c] \in OnCpu,
           NEW d \in CPU \ {c}, pc[d] = "resume"
    PROVE  cproc[d] # cproc[c]
BY DEF IInv, TypeInv, PosIsCurrent, OnCpu, RunsOnOneCpu, Slot

LEMMA CtxNext == IInv /\ ContextSaved /\ [Next]_vars => ContextSaved'
<1> SUFFICES ASSUME IInv, ContextSaved, [Next]_vars PROVE ContextSaved'
    OBVIOUS
<1>t. /\ TypeOK /\ PosIsCurrent /\ CurrentRunning
      /\ state \in [Slot -> States] /\ ctx \in [Slot -> Resumes]
      /\ pc \in [CPU -> PCs] /\ cproc \in [CPU -> SlotOrNull]
      /\ \A d \in CPU : pc[d] = "resume" => cproc[d] \in Slot
    BY DEF IInv, TypeInv, TypeOK, PosIsCurrent, OnCpu
<1> USE <1>t
<1>1. ASSUME NEW c \in CPU, SchedAcquire(c) PROVE ContextSaved'
    BY <1>1, CtxKeep DEF SchedAcquire, CtxStep, procVars
<1>2. ASSUME NEW c \in CPU, Dispatch(c) PROVE ContextSaved'
    <2>1. PICK s \in pos[c]..NPROC :
              /\ FirstIn(s, pos[c], {t \in Slot : state[t] = "RUNNABLE"})
              /\ cproc' = [cproc EXCEPT ![c] = s]
              /\ state' = [state EXCEPT ![s] = "RUNNING"]
              /\ pc' = [pc EXCEPT ![c] = "resume"]
        BY <1>2 DEF Dispatch
    <2>2. s \in Slot /\ state[s] = "RUNNABLE" /\ UNCHANGED ctx
        BY <1>2, <2>1 DEF Dispatch, FirstIn
    <2>3. QED
        BY <2>1, <2>2 DEF ContextSaved
<1>3. ASSUME NEW c \in CPU, SchedRelease(c) PROVE ContextSaved'
    BY <1>3, CtxKeep DEF SchedRelease, CtxStep, procVars
<1>4. ASSUME NEW c \in CPU, Sched(c) PROVE ContextSaved'
    BY <1>4, CtxKeep DEF Sched, CtxStep, procVars
<1>5. ASSUME NEW c \in CPU, ResumeRelease(c) PROVE ContextSaved'
    <2> DEFINE p == cproc[c]
    <2>1. p \in Slot /\ state[p] = "RUNNING" /\ pc[c] = "resume"
        BY <1>5 DEF ResumeRelease, CurrentRunning
    <2>2. \A d \in CPU : pc'[d] = "resume" => cproc[d] # p
        BY <1>5, <2>1, OthersResumeOthers DEF ResumeRelease, OnCpu
    <2>3. QED
        BY <1>5, <2>1, <2>2, CtxClear DEF ResumeRelease, CtxStep, Parked
<1>6. ASSUME NEW c \in CPU, pc[c] \in {"user", "resume"},
             WaitScan(c, cproc[c], chan) \/ WaitScan(c, cproc[c], [chan EXCEPT ![cproc[c]] = 0]),
             UNCHANGED cproc
      PROVE  ContextSaved'
    <2> DEFINE p == cproc[c]
    <2>1. p \in Slot /\ state[p] = "RUNNING"
        BY <1>6 DEF PosIsCurrent, OnCpu, CurrentRunning
    <2>2. \/ /\ ctx' = [ctx EXCEPT ![p] = "none"]
             /\ pc' = [pc EXCEPT ![c] = "user"]
             /\ state'[p] = "RUNNING"
             /\ \A t \in Slot : state'[t] # state[t] => state'[t] = "UNUSED"
          \/ /\ ctx' = [ctx EXCEPT ![p] = "wait"]
             /\ pc' = [pc EXCEPT ![c] = "sched"]
             /\ state' = [state EXCEPT ![p] = "SLEEPING"]
        BY <1>6, <2>1, WaitScanCtx
    <2>3. CASE /\ ctx' = [ctx EXCEPT ![p] = "none"]
               /\ pc' = [pc EXCEPT ![c] = "user"]
               /\ state'[p] = "RUNNING"
               /\ \A t \in Slot : state'[t] # state[t] => state'[t] = "UNUSED"
        <3>1. \A d \in CPU : pc'[d] = "resume" => cproc[d] # p
            BY <1>6, <2>3, OthersResumeOthers DEF OnCpu
        <3>2. QED
            BY <1>6, <2>1, <2>3, <3>1, CtxClear DEF CtxStep, Parked
    <2>4. CASE /\ ctx' = [ctx EXCEPT ![p] = "wait"]
               /\ pc' = [pc EXCEPT ![c] = "sched"]
               /\ state' = [state EXCEPT ![p] = "SLEEPING"]
        <3>1. "wait" \in Resumes \ {"none"}
            BY DEF Resumes
        <3>2. QED
            BY <1>6, <2>1, <2>4, <3>1, CtxSet DEF CtxStep
    <2>5. QED
        BY <2>2, <2>3, <2>4
<1>7. ASSUME NEW c \in CPU, Wait(c) PROVE ContextSaved'
    BY <1>7, <1>6 DEF Wait
<1>8. ASSUME NEW c \in CPU, ResumeWait(c) PROVE ContextSaved'
    BY <1>8, <1>6 DEF ResumeWait
<1>9. ASSUME NEW c \in CPU, Yield(c) PROVE ContextSaved'
    <2>1. cproc[c] \in Slot /\ "yield" \in Resumes \ {"none"}
        BY <1>9 DEF Yield, PosIsCurrent, OnCpu, Resumes
    <2>2. QED
        BY <1>9, <2>1, CtxSet DEF Yield, CtxStep
<1>10. ASSUME NEW c \in CPU, SysSleep(c) PROVE ContextSaved'
    <2>1. cproc[c] \in Slot /\ "sleep" \in Resumes \ {"none"}
        BY <1>10 DEF SysSleep, PosIsCurrent, OnCpu, Resumes
    <2>2. QED
        BY <1>10, <2>1, CtxSet DEF SysSleep, CtxStep
<1>11. ASSUME NEW c \in CPU, Exit(c) PROVE ContextSaved'
    <2> DEFINE p == cproc[c]
               kids == {q \in Slot : parent[q] = p}
               st1 == Wakeup1(state, parent[p])
               st2 == IF \E q \in kids : state[q] = "ZOMBIE"
                         THEN Wakeup1(st1, InitSlot) ELSE st1
    <2>1. p \in Slot /\ state' = [st2 EXCEPT ![p] = "ZOMBIE"]
        BY <1>11 DEF Exit, PosIsCurrent, OnCpu
    <2>2. st1 \in [Slot -> States]
          /\ \A s \in Slot : st1[s] \in Parked => state[s] \in Parked
        BY Wakeup1Type DEF Parked
    <2>3. \A s \in Slot : st2[s] \in Parked => state[s] \in Parked
        BY <2>2, Wakeup1Type DEF Parked
    <2>4. QED
        BY <1>11, <2>1, <2>3, CtxKeep DEF Exit, CtxStep, Parked
<1>12. ASSUME NEW c \in CPU, Tick(c) PROVE ContextSaved'
    <2>1. \A s \in Slot : state'[s] \in Parked => state[s] \in Parked
        BY <1>12, Wakeup1Type DEF Tick, Parked
    <2>2. QED
        BY <1>12, <2>1, CtxKeep DEF Tick, CtxStep, cpuVars
<1>13. ASSUME NEW c \in CPU, NEW k \in 0..MaxPid, Kill(c, k) PROVE ContextSaved'
    <2>1. \A s \in Slot : state'[s] \in Parked => state[s] \in Parked
        BY <1>13 DEF Kill, Parked
    <2>2. QED
        BY <1>13, <2>1, CtxKeep DEF Kill, CtxStep, cpuVars
<1>14. ASSUME NEW c \in CPU, ForkAlloc(c) PROVE ContextSaved'
    <2>1. \A s \in Slot : state'[s] \in Parked => state[s] \in Parked
        BY <1>14 DEF ForkAlloc, Parked
    <2>2. QED
        BY <1>14, <2>1, CtxKeep DEF ForkAlloc, CtxStep
<1>15. ASSUME NEW c \in CPU, ForkFail(c) PROVE ContextSaved'
    <2>1. \A s \in Slot : state'[s] \in Parked => state[s] \in Parked
        BY <1>15 DEF ForkFail, Parked
    <2>2. QED
        BY <1>15, <2>1, CtxKeep DEF ForkFail, CtxStep
<1>16. ASSUME NEW c \in CPU, ForkDone(c) PROVE ContextSaved'
    <2>1. child[c] \in Slot /\ "forkret" \in Resumes \ {"none"}
        BY <1>16 DEF ForkDone, IInv, ChildEmbryo, Resumes
    <2>2. QED
        BY <1>16, <2>1, CtxSet DEF ForkDone, CtxStep
<1>17. CASE UNCHANGED vars
    BY <1>17 DEF vars, ContextSaved
<1>18. QED
    BY <1>1, <1>2, <1>3, <1>4, <1>5, <1>7, <1>8, <1>9, <1>10, <1>11,
       <1>12, <1>13, <1>14, <1>15, <1>16, <1>17 DEF Next

-----------------------------------------------------------------------------
LEMMA LInvInit == Init => LInv
<1> SUFFICES ASSUME Init PROVE LInv
    OBVIOUS
<1>1. IInv
    BY IInvInit
<1>2. LockNotLeaked
    BY DEF Init, LockNotLeaked
<1>3. ContextSaved
    BY DEF Init, ContextSaved, Slot, InitSlot
<1>4. QED
    BY <1>1, <1>2, <1>3 DEF LInv

LEMMA LInvNext == LInv /\ [Next]_vars => LInv'
BY IInvNext, LockNext, CtxNext DEF LInv

(* ptable.lock is never leaked: in every reachable state a held lock is   *)
(* held by a CPU inside scheduler()'s critical section or a process       *)
(* between its swtch and its release (forkret, yield, sleep, wait), for   *)
(* every release path of wait(), sleep() and scheduler() in proc.c.       *)
THEOREM LockNeverLeaked == Spec => []LockNotLeaked
<1>1. Spec => []LInv
    BY LInvInit, LInvNext, PTL DEF Spec
<1>2. QED
    BY <1>1, PTL DEF LInv

(* Every RUNNABLE or SLEEPING process, and every process a CPU has just   *)
(* switched to, has a saved context: allocproc/fork point a new child at  *)
(* forkret, and yield, sleep and wait save theirs in sched(); only the    *)
(* running process itself discards it.                                    *)
THEOREM ContextsSaved == Spec => []ContextSaved
<1>1. Spec => []LInv
    BY LInvInit, LInvNext, PTL DEF Spec
<1>2. QED
    BY <1>1, PTL DEF LInv

-----------------------------------------------------------------------------
(* The kernel never deadlocks: in every reachable state some CPU can take *)
(* a step. With ptable.lock free every CPU is idle, in user code or in    *)
(* fork(), all of which can move; with it held, its holder is inside a    *)
(* critical section (LockNotLeaked), where a scan always moves, a resumed *)
(* process has a saved context to return to (ContextSaved), and a process *)
(* in sched() is no longer RUNNING (CurrentYielded). That these guards    *)
(* enable Next is ENABLED reasoning and is left to TLC's deadlock check.  *)
THEOREM NeverStuck == Spec => []SomeCpuCanStep
<1>1. LInv => SomeCpuCanStep
    <2> SUFFICES ASSUME LInv PROVE SomeCpuCanStep
        OBVIOUS
    <2>t. /\ pc \in [CPU -> PCs] /\ lock \in CPU \cup {NoCpu}
          /\ LockOwner /\ LockNotLeaked /\ ContextSaved /\ CurrentYielded
        BY DEF LInv, IInv, TypeInv, TypeOK
    <2>1. CASE lock = NoCpu
        <3>1. PICK c \in CPU : TRUE
            BY CPUNonEmpty
        <3>2. pc[c] \notin HoldsLock
            BY <2>1, <2>t, CPUAssumption DEF LockOwner
        <3>3. QED
            BY <2>1, <2>t, <3>2 DEF SomeCpuCanStep, PCs, HoldsLock
    <2>2. CASE lock # NoCpu
        <3>1. lock \in CPU /\ pc[lock] \in HoldsLock
            BY <2>2, <2>t DEF LockNotLeaked
        <3>2. pc[lock] = "resume" => ctx[cproc[lock]] # "none"
            BY <2>t, <3>1 DEF ContextSaved
        <3>3. pc[lock] = "sched" => state[cproc[lock]] # "RUNNING"
            BY <2>t, <3>1 DEF CurrentYielded
        <3>4. QED
            BY <3>1, <3>2, <3>3 DEF SomeCpuCanStep, HoldsLock
    <2>3. QED
        BY <2>1, <2>2
<1>2. Spec => []LInv
    BY LInvInit, LInvNext, PTL DEF Spec
<1>3. QED
    BY <1>1, <1>2, PTL

=============================================================================
