----------------------------- MODULE ProcProofs -----------------------------
(***************************************************************************)
(* Proofs about the process table and scheduler of Proc, for every size   *)
(* of the table, every set of CPUs and every pid bound.                    *)
(***************************************************************************)
EXTENDS Proc, TLAPS

USE NPROCAssumption, CPUAssumption, MaxPidAssumption

-----------------------------------------------------------------------------
(* Wakeup1 only turns SLEEPING slots into RUNNABLE ones.                  *)
LEMMA Wakeup1Type ==
    ASSUME NEW st \in [Slot -> States], NEW ch
    PROVE  /\ Wakeup1(st, ch) \in [Slot -> States]
           /\ \A s \in Slot : Wakeup1(st, ch)[s] # st[s] =>
                 st[s] = "SLEEPING" /\ Wakeup1(st, ch)[s] = "RUNNABLE"
BY DEF Wakeup1, States

-----------------------------------------------------------------------------
(* One pass of wait()'s loop keeps the table well typed and leaves the    *)
(* CPU in user code or in sched().                                        *)
LEMMA WaitScanType ==
    ASSUME TypeOK, NEW c \in CPU, NEW p \in Slot, NEW ch \in [Slot -> Chan],
           WaitScan(c, p, ch)
    PROVE  /\ state' \in [Slot -> States]
           /\ pid' \in [Slot -> 0..MaxPid]
           /\ parent' \in [Slot -> SlotOrNull]
           /\ killed' \in [Slot -> BOOLEAN]
           /\ chan' \in [Slot -> Chan]
           /\ ctx' \in [Slot -> Resumes]
           /\ lock' \in CPU \cup {NoCpu}
           /\ pc' \in [CPU -> PCs]
           /\ pc'[c] \in {"user", "sched"}
           /\ \A d \in CPU \ {c} : pc'[d] = pc[d]
<1> USE DEF TypeOK, States, Resumes, PCs, Slot, SlotOrNull, Chan
<1> DEFINE kids == {q \in Slot : parent[q] = p}
           zombies == {q \in kids : state[q] = "ZOMBIE"}
<1>1. CASE \E q \in zombies :
              /\ FirstIn(q, 1, zombies)
              /\ state' = [state EXCEPT ![q] = "UNUSED"]
              /\ pid' = [pid EXCEPT ![q] = 0]
              /\ parent' = [parent EXCEPT ![q] = 0]
              /\ killed' = [killed EXCEPT ![q] = FALSE]
              /\ chan' = ch
              /\ ctx' = [ctx EXCEPT ![p] = "none"]
              /\ lock' = NoCpu
              /\ pc' = [pc EXCEPT ![c] = "user"]
    <2>1. PICK q \in zombies :
              /\ state' = [state EXCEPT ![q] = "UNUSED"]
              /\ pid' = [pid EXCEPT ![q] = 0]
              /\ parent' = [parent EXCEPT ![q] = 0]
              /\ killed' = [killed EXCEPT ![q] = FALSE]
              /\ chan' = ch
              /\ ctx' = [ctx EXCEPT ![p] = "none"]
              /\ lock' = NoCpu
              /\ pc' = [pc EXCEPT ![c] = "user"]
        BY <1>1
    <2>2. q \in Slot
        OBVIOUS
    <2>3. state' \in [Slot -> States]
        BY <2>1, <2>2
    <2>7. pid' \in [Slot -> 0..MaxPid]
        <3>1. 0 \in 0..MaxPid
            BY MaxPidAssumption
        <3>2. QED
            BY <2>1, <2>2, <3>1
    <2>8. parent' \in [Slot -> SlotOrNull]
        <3>1. 0 \in SlotOrNull
            OBVIOUS
        <3>2. QED
            BY <2>1, <2>2, <3>1
    <2>9. killed' \in [Slot -> BOOLEAN]
        BY <2>1, <2>2
    <2>4. chan' \in [Slot -> Chan] /\ ctx' \in [Slot -> Resumes] /\ lock' \in CPU \cup {NoCpu}
        BY <2>1
    <2>5. pc' \in [CPU -> PCs] /\ pc'[c] = "user" /\ \A d \in CPU \ {c} : pc'[d] = pc[d]
        BY <2>1
    <2>6. QED
        BY <2>3, <2>4, <2>5, <2>7, <2>8, <2>9
<1>2. CASE /\ zombies = {}
           /\ kids = {} \/ killed[p]
           /\ UNCHANGED <<state, pid, parent, killed>>
           /\ chan' = ch
           /\ ctx' = [ctx EXCEPT ![p] = "none"]
           /\ lock' = NoCpu
           /\ pc' = [pc EXCEPT ![c] = "user"]
    BY <1>2
<1>3. CASE /\ zombies = {}
           /\ kids # {}
           /\ ~killed[p]
           /\ UNCHANGED <<pid, parent, killed>>
           /\ chan' = [ch EXCEPT ![p] = p]
           /\ state' = [state EXCEPT ![p] = "SLEEPING"]
           /\ ctx' = [ctx EXCEPT ![p] = "wait"]
           /\ lock' = c
           /\ pc' = [pc EXCEPT ![c] = "sched"]
    <2>1. /\ state' \in [Slot -> States]
          /\ pid' \in [Slot -> 0..MaxPid]
          /\ parent' \in [Slot -> SlotOrNull]
          /\ killed' \in [Slot -> BOOLEAN]
        BY <1>3
    <2>2. chan' \in [Slot -> Chan]
        <3>1. p \in 0..NPROC+1
            OBVIOUS
        <3>2. QED
            BY <1>3, <3>1
    <2>3. ctx' \in [Slot -> Resumes] /\ lock' \in CPU \cup {NoCpu}
        BY <1>3
    <2>4. pc' \in [CPU -> PCs] /\ pc'[c] = "sched" /\ \A d \in CPU \ {c} : pc'[d] = pc[d]
        BY <1>3
    <2>5. QED
        BY <2>1, <2>2, <2>3, <2>4
<1>4. QED
    BY <1>1, <1>2, <1>3 DEF WaitScan

-----------------------------------------------------------------------------
(* TypeOK, with the fact that a running process's slot is scheduler()'s   *)
(* loop variable, is inductive.                                           *)
LEMMA TypeInvInit == Init => TypeInv
BY DEF Init, TypeInv, TypeOK, PosIsCurrent, TreeRec, States, Resumes, PCs,
       Slot, SlotOrNull, Chan, InitSlot, OnCpu

LEMMA TypeInvNext == TypeInv /\ [Next]_vars => TypeInv'
<1> SUFFICES ASSUME TypeInv, [Next]_vars PROVE TypeInv'
    OBVIOUS
<1> USE DEF TypeInv, TypeOK, PosIsCurrent, States, Resumes, PCs, Slot,
            SlotOrNull, Chan, OnCpu, procVars, cpuVars
<1>1. ASSUME NEW c \in CPU, SchedAcquire(c) PROVE TypeInv'
    BY <1>1 DEF SchedAcquire
<1>2. ASSUME NEW c \in CPU, Dispatch(c) PROVE TypeInv'
    <2>1. PICK s \in pos[c]..NPROC :
                 /\ cproc' = [cproc EXCEPT ![c] = s]
                 /\ state' = [state EXCEPT ![s] = "RUNNING"]
                 /\ pos' = [pos EXCEPT ![c] = s]
                 /\ pc' = [pc EXCEPT ![c] = "resume"]
        BY <1>2 DEF Dispatch
    <2>2. s \in Slot
        OBVIOUS
    <2>3. state' \in [Slot -> States]
        BY <2>1, <2>2
    <2>4. cproc' \in [CPU -> SlotOrNull]
        BY <2>1, <2>2
    <2>8. pos' \in [CPU -> 1..NPROC + 1]
        BY <2>1, <2>2
    <2>5. pc' \in [CPU -> PCs]
        BY <2>1
    <2>6. PosIsCurrent'
        BY <2>1, <2>2
    <2>7. QED
        BY <1>2, <2>3, <2>4, <2>5, <2>6, <2>8 DEF Dispatch
<1>3. ASSUME NEW c \in CPU, SchedRelease(c) PROVE TypeInv'
    BY <1>3 DEF SchedRelease
<1>4. ASSUME NEW c \in CPU, Sched(c) PROVE TypeInv'
    <2>1. cproc[c] \in Slot /\ pos[c] = cproc[c]
        BY <1>4 DEF Sched
    <2>2. pos' \in [CPU -> 1..NPROC + 1]
        BY <1>4, <2>1 DEF Sched
    <2>3. cproc' \in [CPU -> SlotOrNull] /\ pc' \in [CPU -> PCs]
        BY <1>4 DEF Sched
    <2>4. PosIsCurrent'
        BY <1>4 DEF Sched
    <2>5. QED
        BY <1>4, <2>2, <2>3, <2>4 DEF Sched
<1>5. ASSUME NEW c \in CPU, ResumeRelease(c) PROVE TypeInv'
    <2> DEFINE p == cproc[c]
    <2>1. p \in Slot
        BY <1>5 DEF ResumeRelease
    <2>2. chan' \in [Slot -> Chan]
        BY <1>5, <2>1 DEF ResumeRelease
    <2>3. ctx' \in [Slot -> Resumes]
        BY <1>5, <2>1 DEF ResumeRelease
    <2>4. pc' \in [CPU -> PCs] /\ lock' \in CPU \cup {NoCpu}
        BY <1>5 DEF ResumeRelease
    <2>5. PosIsCurrent'
        BY <1>5 DEF ResumeRelease
    <2>6. QED
        BY <1>5, <2>2, <2>3, <2>4, <2>5 DEF ResumeRelease
<1>6. ASSUME NEW c \in CPU, ResumeWait(c) PROVE TypeInv'
    <2>1. cproc[c] \in Slot /\ [chan EXCEPT ![cproc[c]] = 0] \in [Slot -> Chan]
        BY <1>6 DEF ResumeWait
    <2>2. WaitScan(c, cproc[c], [chan EXCEPT ![cproc[c]] = 0])
        BY <1>6 DEF ResumeWait
    <2>3. /\ pc' \in [CPU -> PCs]
          /\ pc'[c] \in {"user", "sched"}
          /\ \A d \in CPU \ {c} : pc'[d] = pc[d]
        BY <2>1, <2>2, WaitScanType
    <2>4. PosIsCurrent'
        BY <1>6, <2>1, <2>3 DEF ResumeWait
    <2>5. QED
        BY <1>6, <2>1, <2>2, <2>4, WaitScanType DEF ResumeWait
<1>7. ASSUME NEW c \in CPU, Wait(c) PROVE TypeInv'
    <2>1. cproc[c] \in Slot
        BY <1>7 DEF Wait
    <2>2. /\ pc' \in [CPU -> PCs]
          /\ pc'[c] \in {"user", "sched"}
          /\ \A d \in CPU \ {c} : pc'[d] = pc[d]
        BY <1>7, <2>1, WaitScanType DEF Wait
    <2>3. PosIsCurrent'
        BY <1>7, <2>1, <2>2 DEF Wait
    <2>4. QED
        BY <1>7, <2>1, <2>3, WaitScanType DEF Wait
<1>8. ASSUME NEW c \in CPU, Yield(c) PROVE TypeInv'
    BY <1>8 DEF Yield
<1>9. ASSUME NEW c \in CPU, SysSleep(c) PROVE TypeInv'
    <2>1. cproc[c] \in Slot
        BY <1>9 DEF SysSleep
    <2>2. chan' \in [Slot -> Chan]
        BY <1>9, <2>1 DEF SysSleep, TicksChan
    <2>3. state' \in [Slot -> States] /\ ctx' \in [Slot -> Resumes]
        BY <1>9, <2>1 DEF SysSleep
    <2>4. lock' \in CPU \cup {NoCpu} /\ pc' \in [CPU -> PCs]
        BY <1>9 DEF SysSleep
    <2>5. PosIsCurrent'
        BY <1>9 DEF SysSleep
    <2>6. QED
        BY <1>9, <2>2, <2>3, <2>4, <2>5 DEF SysSleep
<1>10. ASSUME NEW c \in CPU, Tick(c) PROVE TypeInv'
    BY <1>10, Wakeup1Type DEF Tick
<1>11. ASSUME NEW c \in CPU, NEW k \in 0..MaxPid, Kill(c, k) PROVE TypeInv'
    <2>1. PICK s \in Slot :
              /\ killed' = [killed EXCEPT ![s] = TRUE]
              /\ state' = [state EXCEPT ![s] = IF @ = "SLEEPING" THEN "RUNNABLE" ELSE @]
        BY <1>11 DEF Kill
    <2>2. state' \in [Slot -> States] /\ killed' \in [Slot -> BOOLEAN]
        BY <2>1
    <2>3. QED
        BY <1>11, <2>2 DEF Kill
<1>12. ASSUME NEW c \in CPU, Exit(c) PROVE TypeInv'
    <2> DEFINE p == cproc[c]
               kids == {q \in Slot : parent[q] = p}
               st1 == Wakeup1(state, parent[p])
               st2 == IF \E q \in kids : state[q] = "ZOMBIE"
                         THEN Wakeup1(st1, InitSlot) ELSE st1
    <2>0. st1 \in [Slot -> States]
        BY Wakeup1Type
    <2>1. st2 \in [Slot -> States]
        BY <2>0 DEF Wakeup1
    <2>2. state' = [st2 EXCEPT ![p] = "ZOMBIE"]
        BY <1>12 DEF Exit
    <2>3. parent' \in [Slot -> SlotOrNull]
        BY <1>12 DEF Exit, InitSlot
    <2>4. state' \in [Slot -> States]
        BY <2>1, <2>2
    <2>5. pc' \in [CPU -> PCs] /\ PosIsCurrent'
        BY <1>12 DEF Exit
    <2>6. QED
        BY <1>12, <2>3, <2>4, <2>5 DEF Exit
<1>13. ASSUME NEW c \in CPU, ForkAlloc(c) PROVE TypeInv'
    <2>1. PICK s \in Slot :
              /\ state' = [state EXCEPT ![s] = "EMBRYO"]
              /\ pid' = [pid EXCEPT ![s] = nextpid]
              /\ child' = [child EXCEPT ![c] = s]
        BY <1>13 DEF ForkAlloc
    <2>2. state' \in [Slot -> States]
        BY <2>1
    <2>6. child' \in [CPU -> SlotOrNull]
        BY <2>1
    <2>7. nextpid \in 0..MaxPid /\ nextpid' = nextpid + 1
        BY <1>13 DEF ForkAlloc
    <2>3. pid' \in [Slot -> 0..MaxPid]
        BY <2>1, <2>7
    <2>8. nextpid' \in 2..MaxPid + 1
        BY <2>7
    <2>9. pc[c] = "user" /\ pc' = [pc EXCEPT ![c] = "fork"] /\ UNCHANGED <<cproc, pos>>
        BY <1>13 DEF ForkAlloc
    <2>4. pc' \in [CPU -> PCs]
        BY <2>9
    <2>10. PosIsCurrent'
        BY <2>9
    <2>5. QED
        BY <1>13, <2>2, <2>3, <2>4, <2>6, <2>8, <2>10 DEF ForkAlloc
<1>14. ASSUME NEW c \in CPU, ForkFail(c) PROVE TypeInv'
    <2>1. state' \in [Slot -> States]
        BY <1>14 DEF ForkFail
    <2>2. child' \in [CPU -> SlotOrNull] /\ pc' \in [CPU -> PCs]
        BY <1>14 DEF ForkFail
    <2>3. PosIsCurrent'
        BY <1>14 DEF ForkFail
    <2>4. QED
        BY <1>14, <2>1, <2>2, <2>3 DEF ForkFail
<1>15. ASSUME NEW c \in CPU, ForkDone(c) PROVE TypeInv'
    <2>1. state' \in [Slot -> States] /\ ctx' \in [Slot -> Resumes]
        BY <1>15 DEF ForkDone
    <2>2. parent' \in [Slot -> SlotOrNull]
        BY <1>15 DEF ForkDone
    <2>3. child' \in [CPU -> SlotOrNull] /\ pc' \in [CPU -> PCs]
        BY <1>15 DEF ForkDone
    <2>4. PosIsCurrent'
        BY <1>15 DEF ForkDone
    <2>5. QED
        BY <1>15, <2>1, <2>2, <2>3, <2>4 DEF ForkDone
<1>16. CASE UNCHANGED vars
    BY <1>16 DEF vars, IInv, LockOwner, IdleNull, CurrentRunning, CurrentYielded, ChildEmbryo, RunsOnOneCpu
<1>17. QED
    BY <1>1, <1>2, <1>3, <1>4, <1>5, <1>6, <1>7, <1>8, <1>9, <1>10, <1>11,
       <1>12, <1>13, <1>14, <1>15, <1>16 DEF Next

(* Every reachable state is well typed.                                   *)
THEOREM TypeCorrect == Spec => []TypeOK
<1>1. Spec => []TypeInv
    BY TypeInvInit, TypeInvNext, PTL DEF Spec
<1>2. QED
    BY <1>1, PTL DEF TypeInv

-----------------------------------------------------------------------------
(* The inductive invariant IInv: the lock discipline of ptable.lock, what *)
(* c->proc is in each place of a CPU, and fork()'s EMBRYO children.       *)
LEMMA IInvInit == Init => IInv
BY TypeInvInit DEF Init, IInv, LockOwner, IdleNull, CurrentRunning,
   CurrentYielded, ChildEmbryo, RunsOnOneCpu, HoldsLock, Slot, InitSlot

(* A step that moves no CPU and changes the state of a slot only between *)
(* states other than RUNNING and EMBRYO keeps IInv: wakeup1() and kill(). *)
LEMMA StateFrame ==
    ASSUME IInv, TypeInv',
           UNCHANGED cpuVars,
           \A s \in Slot : state'[s] # state[s] =>
               /\ state[s] \notin {"RUNNING", "EMBRYO"}
               /\ state'[s] \notin {"RUNNING", "EMBRYO"}
    PROVE  IInv'
<1> USE DEF IInv, TypeInv, TypeOK, PosIsCurrent, cpuVars, OnCpu, HoldsLock, PCs,
          Slot, SlotOrNull
<1>1. LockOwner' /\ IdleNull'
    BY DEF LockOwner, IdleNull
<1>2. CurrentRunning'
    BY DEF CurrentRunning
<1>6. CurrentYielded'
    BY DEF CurrentYielded
<1>3. ChildEmbryo'
    BY DEF ChildEmbryo
<1>4. RunsOnOneCpu'
    BY DEF RunsOnOneCpu
<1>5. QED
    BY <1>1, <1>2, <1>3, <1>4, <1>6

(* fork()'s children stay EMBRYOs owned by distinct CPUs across a step   *)
(* that starts no fork and leaves every forking CPU's child alone.        *)
LEMMA ChildEmbryoKeep ==
    ASSUME ChildEmbryo, pc \in [CPU -> PCs], pc' \in [CPU -> PCs],
           \A d \in CPU : pc'[d] = "fork" =>
               /\ pc[d] = "fork"
               /\ child'[d] = child[d]
               /\ state'[child[d]] = state[child[d]]
    PROVE  ChildEmbryo'
BY DEF ChildEmbryo

(* A step by CPU c's process that only wakes, reaps or frees slots that   *)
(* are neither RUNNING nor EMBRYO.                                        *)
Quiet(c) ==
    \A t \in Slot : state'[t] # state[t] =>
        /\ state[t] \notin {"RUNNING", "EMBRYO"}
        /\ state'[t] \notin {"RUNNING", "EMBRYO"}

(* The process on CPU c gives it up: it holds ptable.lock, is no longer   *)
(* RUNNING and goes to sched() (yield, sleep, exit, wait's sleep).        *)
LEMMA EnterSched ==
    ASSUME IInv, TypeInv', NEW c \in CPU,
           pc[c] \in {"user", "resume"}, lock \in {NoCpu, c},
           pc' = [pc EXCEPT ![c] = "sched"], lock' = c,
           UNCHANGED <<cproc, child>>,
           state'[cproc[c]] \notin {"RUNNING", "EMBRYO"},
           \A t \in Slot \ {cproc[c]} : state'[t] # state[t] =>
               /\ state[t] \notin {"RUNNING", "EMBRYO"}
               /\ state'[t] \notin {"RUNNING", "EMBRYO"}
    PROVE  IInv'
<1> USE DEF IInv, TypeInv, TypeOK, PosIsCurrent, OnCpu, HoldsLock, PCs, Slot,
          SlotOrNull
<1>1. \A d \in CPU \ {c} : pc[d] \notin HoldsLock
    <2>1. SUFFICES ASSUME NEW d \in CPU \ {c}, pc[d] \in HoldsLock PROVE FALSE
        OBVIOUS
    <2>2. lock = d
        BY <2>1 DEF LockOwner
    <2>3. QED
        BY <2>1, <2>2, CPUAssumption
<1>2. LockOwner' /\ IdleNull'
    BY <1>1 DEF LockOwner, IdleNull
<1>0. cproc[c] \in Slot /\ state[cproc[c]] = "RUNNING"
    BY DEF CurrentRunning
<1>3. CurrentRunning'
    <2>1. SUFFICES ASSUME NEW d \in CPU, pc'[d] \in {"resume", "user", "fork"}
                   PROVE  state'[cproc'[d]] = "RUNNING"
        BY DEF CurrentRunning
    <2>2. d # c /\ pc[d] = pc'[d]
        BY <2>1
    <2>3. cproc[d] \in Slot /\ state[cproc[d]] = "RUNNING"
        BY <2>1, <2>2 DEF CurrentRunning
    <2>4. cproc[d] # cproc[c]
        BY <2>2, <2>3 DEF RunsOnOneCpu
    <2>5. QED
        BY <2>3, <2>4
<1>4. CurrentYielded'
    BY <1>1 DEF CurrentYielded
<1>5. ChildEmbryo'
    <2>1. \A d \in CPU : pc'[d] = "fork" =>
             /\ pc[d] = "fork"
             /\ child'[d] = child[d]
             /\ state'[child[d]] = state[child[d]]
        BY <1>0 DEF ChildEmbryo
    <2>2. QED
        BY <2>1, ChildEmbryoKeep
<1>6. RunsOnOneCpu'
    BY DEF RunsOnOneCpu
<1>7. QED
    BY <1>2, <1>3, <1>4, <1>5, <1>6

(* The process on CPU c returns to user code releasing ptable.lock, its   *)
(* step having touched no RUNNING or EMBRYO slot (wait() returning).      *)
LEMMA ReturnUser ==
    ASSUME IInv, TypeInv', NEW c \in CPU,
           pc[c] \in {"user", "resume"}, lock \in {NoCpu, c},
           pc' = [pc EXCEPT ![c] = "user"], lock' = NoCpu,
           UNCHANGED <<cproc, child>>,
           Quiet(c)
    PROVE  IInv'
<1> USE DEF IInv, TypeInv, TypeOK, PosIsCurrent, OnCpu, HoldsLock, PCs, Slot,
          SlotOrNull, Quiet
<1>1. \A d \in CPU \ {c} : pc[d] \notin HoldsLock
    <2>1. SUFFICES ASSUME NEW d \in CPU \ {c}, pc[d] \in HoldsLock PROVE FALSE
        OBVIOUS
    <2>2. lock = d
        BY <2>1 DEF LockOwner
    <2>3. QED
        BY <2>1, <2>2, CPUAssumption
<1>2. LockOwner' /\ IdleNull'
    BY <1>1 DEF LockOwner, IdleNull
<1>3. CurrentRunning'
    <2>1. SUFFICES ASSUME NEW d \in CPU, pc'[d] \in {"resume", "user", "fork"}
                   PROVE  state'[cproc'[d]] = "RUNNING"
        BY DEF CurrentRunning
    <2>2. pc[d] \in {"resume", "user", "fork"}
        BY <2>1
    <2>3. cproc[d] \in Slot /\ state[cproc[d]] = "RUNNING"
        BY <2>2 DEF CurrentRunning
    <2>4. QED
        BY <2>3
<1>7. CurrentYielded'
    BY <1>1 DEF CurrentYielded
<1>4. ChildEmbryo'
    <2>1. \A d \in CPU : pc'[d] = "fork" =>
             /\ pc[d] = "fork"
             /\ child'[d] = child[d]
             /\ state'[child[d]] = state[child[d]]
        <3>1. SUFFICES ASSUME NEW d \in CPU, pc'[d] = "fork"
                       PROVE  /\ pc[d] = "fork"
                              /\ child'[d] = child[d]
                              /\ state'[child[d]] = state[child[d]]
            OBVIOUS
        <3>2. pc[d] = "fork" /\ child[d] \in Slot /\ state[child[d]] = "EMBRYO"
            BY <3>1 DEF ChildEmbryo
        <3>3. QED
            BY <3>2
    <2>2. QED
        BY <2>1, ChildEmbryoKeep
<1>5. RunsOnOneCpu'
    <2>1. \A t \in Slot : state'[t] = "RUNNING" => state[t] = "RUNNING"
        OBVIOUS
    <2>2. QED
        BY <2>1 DEF RunsOnOneCpu
<1>6. QED
    BY <1>2, <1>3, <1>4, <1>5, <1>7

(* wait()'s pass either returns to user code having at most freed a      *)
(* ZOMBIE, or sleeps on its own proc and goes to sched().                 *)
LEMMA WaitScanStep ==
    ASSUME TypeOK, NEW c \in CPU, NEW p \in Slot, NEW ch, WaitScan(c, p, ch)
    PROVE  \/ /\ pc' = [pc EXCEPT ![c] = "user"]
              /\ lock' = NoCpu
              /\ \A t \in Slot : state'[t] # state[t] =>
                    state[t] = "ZOMBIE" /\ state'[t] = "UNUSED"
           \/ /\ pc' = [pc EXCEPT ![c] = "sched"]
              /\ lock' = c
              /\ state' = [state EXCEPT ![p] = "SLEEPING"]
BY DEF WaitScan, TypeOK, Slot

(* fork() finishes on CPU c: its EMBRYO child becomes RUNNABLE (under the *)
(* lock) or UNUSED (on failure) and the CPU goes back to the parent's code. *)
LEMMA ForkEnd ==
    ASSUME IInv, TypeInv', NEW c \in CPU, NEW v \in {"UNUSED", "RUNNABLE"},
           pc[c] = "fork",
           pc' = [pc EXCEPT ![c] = "user"],
           child' = [child EXCEPT ![c] = 0],
           state' = [state EXCEPT ![child[c]] = v],
           UNCHANGED <<lock, cproc>>
    PROVE  IInv'
<1> USE DEF IInv, TypeInv, TypeOK, PosIsCurrent, OnCpu, HoldsLock, PCs, Slot,
          SlotOrNull
<1>0. child[c] \in Slot /\ state[child[c]] = "EMBRYO"
    BY DEF ChildEmbryo
<1>1. LockOwner' /\ IdleNull'
    BY DEF LockOwner, IdleNull
<1>2. CurrentRunning'
    <2>1. SUFFICES ASSUME NEW d \in CPU, pc'[d] \in {"resume", "user", "fork"}
                   PROVE  state'[cproc'[d]] = "RUNNING"
        BY DEF CurrentRunning
    <2>2. pc[d] \in {"resume", "user", "fork"}
        BY <2>1
    <2>3. cproc[d] \in Slot /\ state[cproc[d]] = "RUNNING"
        BY <2>2 DEF CurrentRunning
    <2>4. cproc[d] # child[c]
        BY <1>0, <2>3
    <2>5. QED
        BY <2>3, <2>4
<1>3. CurrentYielded'
    <2>1. SUFFICES ASSUME NEW d \in CPU, pc'[d] = "sched"
                   PROVE  state'[cproc'[d]] # "RUNNING"
        BY DEF CurrentYielded
    <2>2. pc[d] = "sched" /\ cproc[d] \in Slot /\ state[cproc[d]] # "RUNNING"
        BY <2>1 DEF CurrentYielded
    <2>3. QED
        BY <2>2
<1>4. ChildEmbryo'
    <2>1. \A d \in CPU : pc'[d] = "fork" =>
             /\ pc[d] = "fork"
             /\ child'[d] = child[d]
             /\ state'[child[d]] = state[child[d]]
        <3>1. SUFFICES ASSUME NEW d \in CPU, pc'[d] = "fork"
                       PROVE  /\ pc[d] = "fork"
                              /\ child'[d] = child[d]
                              /\ state'[child[d]] = state[child[d]]
            OBVIOUS
        <3>2. d # c /\ pc[d] = "fork"
            BY <3>1
        <3>3. child[d] \in Slot /\ child[d] # child[c]
            BY <3>2 DEF ChildEmbryo
        <3>4. QED
            BY <3>2, <3>3
    <2>2. QED
        BY <2>1, ChildEmbryoKeep
<1>5. RunsOnOneCpu'
    <2>1. \A t \in Slot : state'[t] = "RUNNING" => state[t] = "RUNNING"
        BY <1>0
    <2>2. \A t \in Slot : state'[t] = "RUNNING" => \E d \in CPU : cproc'[d] = t
        BY <2>1 DEF RunsOnOneCpu
    <2>3. \A c1, c2 \in CPU : c1 # c2 /\ cproc'[c1] # 0 => cproc'[c1] # cproc'[c2]
        BY DEF RunsOnOneCpu
    <2>4. QED
        BY <2>2, <2>3 DEF RunsOnOneCpu
<1>6. QED
    BY <1>1, <1>2, <1>3, <1>4, <1>5

LEMMA IInvNext == IInv /\ [Next]_vars => IInv'
<1> SUFFICES ASSUME IInv, [Next]_vars PROVE IInv'
    OBVIOUS
<1>0. TypeInv'
    BY TypeInvNext DEF IInv
<1>b. /\ TypeOK /\ PosIsCurrent
      /\ LockOwner /\ IdleNull /\ CurrentRunning /\ CurrentYielded
      /\ ChildEmbryo /\ RunsOnOneCpu
    BY DEF IInv, TypeInv
<1>t. /\ state \in [Slot -> States] /\ state' \in [Slot -> States]
      /\ pc \in [CPU -> PCs] /\ pc' \in [CPU -> PCs]
      /\ cproc \in [CPU -> SlotOrNull] /\ cproc' \in [CPU -> SlotOrNull]
      /\ child \in [CPU -> SlotOrNull] /\ child' \in [CPU -> SlotOrNull]
      /\ lock \in CPU \cup {NoCpu}
    BY <1>0, <1>b DEF TypeInv, TypeOK
<1> USE <1>0, <1>b, <1>t
<1>1. ASSUME NEW c \in CPU, SchedAcquire(c) PROVE IInv'
    <2>1. /\ pc[c] = "idle" /\ lock = NoCpu /\ lock' = c
          /\ pc' = [pc EXCEPT ![c] = "scan"]
          /\ UNCHANGED <<state, cproc, child>>
        BY <1>1 DEF SchedAcquire, procVars
    <2>2. \A d \in CPU \ {c} : pc'[d] = pc[d] /\ pc[d] \notin HoldsLock
        BY <2>1, <1>b, <1>t, CPUAssumption DEF LockOwner
    <2>3. LockOwner'
        BY <2>1, <2>2 DEF LockOwner
    <2>4. IdleNull'
        BY <2>1, <2>2, <1>b DEF IdleNull
    <2>5. CurrentRunning'
        BY <2>1, <2>2, <1>b, <1>t DEF CurrentRunning
    <2>6. CurrentYielded'
        BY <2>1, <2>2, <1>b, <1>t DEF CurrentYielded
    <2>7. ChildEmbryo'
        BY <2>1, <2>2, <1>b, <1>t, ChildEmbryoKeep
    <2>8. RunsOnOneCpu'
        BY <2>1, <1>b DEF RunsOnOneCpu
    <2>9. QED
        BY <1>0, <2>3, <2>4, <2>5, <2>6, <2>7, <2>8 DEF IInv
<1>2. ASSUME NEW c \in CPU, Dispatch(c) PROVE IInv'
    <2>0. PICK s \in pos[c]..NPROC :
              /\ FirstIn(s, pos[c], {t \in Slot : state[t] = "RUNNABLE"})
              /\ cproc' = [cproc EXCEPT ![c] = s]
              /\ state' = [state EXCEPT ![s] = "RUNNING"]
              /\ pos' = [pos EXCEPT ![c] = s]
              /\ pc' = [pc EXCEPT ![c] = "resume"]
        BY <1>2 DEF Dispatch
    <2>1. /\ pc[c] = "scan" /\ UNCHANGED <<lock, child>>
          /\ s \in Slot /\ state[s] = "RUNNABLE"
        BY <1>2, <2>0 DEF Dispatch, FirstIn
    <2>2. lock = c /\ cproc[c] = 0
        BY <2>1 DEF LockOwner, IdleNull, HoldsLock
    <2>3. \A d \in CPU \ {c} : pc'[d] = pc[d] /\ cproc'[d] = cproc[d] /\ pc[d] \notin HoldsLock
        BY <2>0, <2>2, CPUAssumption DEF LockOwner
    <2>4. LockOwner'
        BY <2>0, <2>1, <2>3 DEF LockOwner, HoldsLock
    <2>5. IdleNull'
        BY <2>0, <2>3 DEF IdleNull
    <2>6. CurrentRunning'
        BY <2>0, <2>3 DEF CurrentRunning
    <2>7. CurrentYielded'
        BY <2>0, <2>3 DEF CurrentYielded, HoldsLock
    <2>8. ChildEmbryo'
        <3>1. \A d \in CPU : pc'[d] = "fork" =>
                 /\ pc[d] = "fork"
                 /\ child'[d] = child[d]
                 /\ state'[child[d]] = state[child[d]]
            BY <2>0, <2>1 DEF ChildEmbryo
        <3>2. QED
            BY <3>1, ChildEmbryoKeep
    <2>9. RunsOnOneCpu'
        <3>3. \A d \in CPU \ {c} : cproc[d] # s
            <4>1. SUFFICES ASSUME NEW d \in CPU \ {c}, cproc[d] = s PROVE FALSE
                OBVIOUS
            <4>2. pc[d] \in {"resume", "user", "fork"}
                BY <2>1, <2>3, <4>1 DEF IdleNull, HoldsLock, PCs, Slot
            <4>3. QED
                BY <2>1, <4>1, <4>2 DEF CurrentRunning
        <3>4. \A c1, c2 \in CPU : c1 # c2 /\ cproc'[c1] # 0 => cproc'[c1] # cproc'[c2]
            <4>1. TAKE c1, c2 \in CPU
            <4>2. CASE c1 = c
                BY <2>0, <3>3, <4>2
            <4>3. CASE c2 = c
                BY <2>0, <3>3, <4>3
            <4>4. CASE c1 # c /\ c2 # c
                BY <2>3, <4>4 DEF RunsOnOneCpu
            <4>5. QED
                BY <4>2, <4>3, <4>4
        <3>5. \A t \in Slot : state'[t] = "RUNNING" => \E d \in CPU : cproc'[d] = t
            <4>1. SUFFICES ASSUME NEW t \in Slot, state'[t] = "RUNNING"
                           PROVE \E d \in CPU : cproc'[d] = t
                OBVIOUS
            <4>2. CASE t = s
                BY <2>0, <4>2
            <4>3. CASE t # s
                <5>1. state[t] = "RUNNING"
                    BY <2>0, <4>1, <4>3
                <5>2. PICK d \in CPU : cproc[d] = t
                    BY <5>1 DEF RunsOnOneCpu
                <5>3. d # c
                    BY <2>2, <5>2 DEF Slot
                <5>4. QED
                    BY <2>3, <5>2, <5>3
            <4>4. QED
                BY <4>2, <4>3
        <3>6. QED
            BY <3>4, <3>5 DEF RunsOnOneCpu
    <2>10. QED
        BY <1>0, <2>4, <2>5, <2>6, <2>7, <2>8, <2>9 DEF IInv
<1>3. ASSUME NEW c \in CPU, SchedRelease(c) PROVE IInv'
    <2>1. /\ pc[c] = "scan" /\ lock' = NoCpu
          /\ pc' = [pc EXCEPT ![c] = "idle"]
          /\ UNCHANGED <<state, cproc, child>>
        BY <1>3 DEF SchedRelease, procVars
    <2>2. \A d \in CPU \ {c} : pc'[d] = pc[d] /\ pc[d] \notin HoldsLock
        <3>1. lock = c
            BY <2>1 DEF LockOwner, HoldsLock
        <3>2. QED
            BY <2>1, <3>1 DEF LockOwner
    <2>3. LockOwner'
        BY <2>1, <2>2 DEF LockOwner, HoldsLock
    <2>4. IdleNull'
        BY <2>1, <2>2 DEF IdleNull
    <2>5. CurrentRunning'
        BY <2>1, <2>2 DEF CurrentRunning
    <2>6. CurrentYielded'
        BY <2>1, <2>2 DEF CurrentYielded
    <2>7. ChildEmbryo'
        BY <2>1, <2>2, ChildEmbryoKeep
    <2>8. RunsOnOneCpu'
        BY <2>1 DEF RunsOnOneCpu
    <2>9. QED
        BY <1>0, <2>3, <2>4, <2>5, <2>6, <2>7, <2>8 DEF IInv
<1>4. ASSUME NEW c \in CPU, Sched(c) PROVE IInv'
    <2>1. /\ pc[c] = "sched" /\ state[cproc[c]] # "RUNNING"
          /\ cproc' = [cproc EXCEPT ![c] = 0]
          /\ pc' = [pc EXCEPT ![c] = "scan"]
          /\ UNCHANGED <<state, lock, child>>
        BY <1>4 DEF Sched, procVars
    <2>2. \A d \in CPU \ {c} : pc'[d] = pc[d] /\ cproc'[d] = cproc[d]
        BY <2>1
    <2>3. LockOwner'
        BY <2>1, <2>2 DEF LockOwner, HoldsLock
    <2>4. IdleNull'
        BY <2>1, <2>2 DEF IdleNull
    <2>5. CurrentRunning'
        BY <2>1, <2>2 DEF CurrentRunning
    <2>6. CurrentYielded'
        BY <2>1, <2>2 DEF CurrentYielded
    <2>7. ChildEmbryo'
        BY <2>1, <2>2, ChildEmbryoKeep
    <2>8. RunsOnOneCpu'
        <3>1. \A c1, c2 \in CPU : c1 # c2 /\ cproc'[c1] # 0 => cproc'[c1] # cproc'[c2]
            <4>1. TAKE c1, c2 \in CPU
            <4>2. CASE c1 = c \/ c2 = c
                BY <2>1, <4>2
            <4>3. CASE c1 # c /\ c2 # c
                BY <2>2, <4>3 DEF RunsOnOneCpu
            <4>4. QED
                BY <4>2, <4>3
        <3>2. \A t \in Slot : state'[t] = "RUNNING" => \E d \in CPU : cproc'[d] = t
            <4>1. SUFFICES ASSUME NEW t \in Slot, state'[t] = "RUNNING"
                           PROVE \E d \in CPU : cproc'[d] = t
                OBVIOUS
            <4>2. PICK d \in CPU : cproc[d] = t
                BY <2>1, <4>1 DEF RunsOnOneCpu
            <4>3. d # c
                BY <2>1, <4>1, <4>2
            <4>4. QED
                BY <2>2, <4>2, <4>3
        <3>3. QED
            BY <3>1, <3>2 DEF RunsOnOneCpu
    <2>9. QED
        BY <1>0, <2>3, <2>4, <2>5, <2>6, <2>7, <2>8 DEF IInv
<1>5. ASSUME NEW c \in CPU, ResumeRelease(c) PROVE IInv'
    <2>1. /\ pc[c] = "resume" /\ lock' = NoCpu
          /\ pc' = [pc EXCEPT ![c] = "user"]
          /\ UNCHANGED <<state, cproc, child>>
        BY <1>5 DEF ResumeRelease
    <2>2. lock = c
        BY <2>1 DEF LockOwner, HoldsLock
    <2>3. Quiet(c)
        BY <2>1 DEF Quiet
    <2>4. QED
        BY <2>1, <2>2, <2>3, ReturnUser
<1>6. ASSUME NEW c \in CPU, ResumeWait(c) PROVE IInv'
    <2>1. /\ pc[c] = "resume" /\ lock = c
          /\ WaitScan(c, cproc[c], [chan EXCEPT ![cproc[c]] = 0])
          /\ UNCHANGED <<cproc, child>>
        BY <1>6 DEF ResumeWait, LockOwner, HoldsLock
    <2>2. cproc[c] \in Slot /\ state[cproc[c]] = "RUNNING"
        BY <2>1 DEF CurrentRunning, PosIsCurrent, OnCpu
    <2>3. \/ /\ pc' = [pc EXCEPT ![c] = "user"]
             /\ lock' = NoCpu
             /\ \A t \in Slot : state'[t] # state[t] =>
                   state[t] = "ZOMBIE" /\ state'[t] = "UNUSED"
          \/ /\ pc' = [pc EXCEPT ![c] = "sched"]
             /\ lock' = c
             /\ state' = [state EXCEPT ![cproc[c]] = "SLEEPING"]
        BY <2>1, <2>2, WaitScanStep
    <2>0. pc[c] \in {"user", "resume"} /\ lock \in {NoCpu, c}
        BY <2>1
    <2>4. CASE pc' = [pc EXCEPT ![c] = "user"]
        <3>0. pc'[c] = "user"
            BY <2>4
        <3>a. /\ lock' = NoCpu
              /\ \A t \in Slot : state'[t] # state[t] =>
                    state[t] = "ZOMBIE" /\ state'[t] = "UNUSED"
            BY <2>3, <3>0
        <3>1. lock' = NoCpu /\ Quiet(c)
            BY <3>a DEF Quiet
        <3>2. QED
            BY <2>0, <2>1, <2>4, <3>1, ReturnUser
    <2>5. CASE pc' = [pc EXCEPT ![c] = "sched"]
        <3>1. /\ lock' = c
              /\ state'[cproc[c]] \notin {"RUNNING", "EMBRYO"}
              /\ \A t \in Slot \ {cproc[c]} : state'[t] # state[t] =>
                    /\ state[t] \notin {"RUNNING", "EMBRYO"}
                    /\ state'[t] \notin {"RUNNING", "EMBRYO"}
            <4>0. pc'[c] = "sched"
                BY <2>5
            <4>1. QED
                BY <2>2, <2>3, <4>0
        <3>2. QED
            BY <2>0, <2>1, <2>5, <3>1, EnterSched
    <2>6. QED
        BY <2>3, <2>4, <2>5
<1>7. ASSUME NEW c \in CPU, Wait(c) PROVE IInv'
    <2>1. /\ pc[c] = "user" /\ lock = NoCpu
          /\ WaitScan(c, cproc[c], chan)
          /\ UNCHANGED <<cproc, child>>
        BY <1>7 DEF Wait
    <2>2. cproc[c] \in Slot /\ state[cproc[c]] = "RUNNING"
        BY <2>1 DEF CurrentRunning, PosIsCurrent, OnCpu
    <2>3. \/ /\ pc' = [pc EXCEPT ![c] = "user"]
             /\ lock' = NoCpu
             /\ \A t \in Slot : state'[t] # state[t] =>
                   state[t] = "ZOMBIE" /\ state'[t] = "UNUSED"
          \/ /\ pc' = [pc EXCEPT ![c] = "sched"]
             /\ lock' = c
             /\ state' = [state EXCEPT ![cproc[c]] = "SLEEPING"]
        BY <2>1, <2>2, WaitScanStep
    <2>0. pc[c] \in {"user", "resume"} /\ lock \in {NoCpu, c}
        BY <2>1
    <2>4. CASE pc' = [pc EXCEPT ![c] = "user"]
        <3>0. pc'[c] = "user"
            BY <2>4
        <3>a. /\ lock' = NoCpu
              /\ \A t \in Slot : state'[t] # state[t] =>
                    state[t] = "ZOMBIE" /\ state'[t] = "UNUSED"
            BY <2>3, <3>0
        <3>1. lock' = NoCpu /\ Quiet(c)
            BY <3>a DEF Quiet
        <3>2. QED
            BY <2>0, <2>1, <2>4, <3>1, ReturnUser
    <2>5. CASE pc' = [pc EXCEPT ![c] = "sched"]
        <3>1. /\ lock' = c
              /\ state'[cproc[c]] \notin {"RUNNING", "EMBRYO"}
              /\ \A t \in Slot \ {cproc[c]} : state'[t] # state[t] =>
                    /\ state[t] \notin {"RUNNING", "EMBRYO"}
                    /\ state'[t] \notin {"RUNNING", "EMBRYO"}
            <4>0. pc'[c] = "sched"
                BY <2>5
            <4>1. QED
                BY <2>2, <2>3, <4>0
        <3>2. QED
            BY <2>0, <2>1, <2>5, <3>1, EnterSched
    <2>6. QED
        BY <2>3, <2>4, <2>5
<1>8. ASSUME NEW c \in CPU, Yield(c) PROVE IInv'
    <2>1. /\ pc[c] = "user" /\ lock = NoCpu /\ lock' = c
          /\ pc' = [pc EXCEPT ![c] = "sched"]
          /\ state' = [state EXCEPT ![cproc[c]] = "RUNNABLE"]
          /\ UNCHANGED <<cproc, child>>
        BY <1>8 DEF Yield
    <2>2. cproc[c] \in Slot
        BY <2>1 DEF PosIsCurrent, OnCpu
    <2>3. /\ state'[cproc[c]] \notin {"RUNNING", "EMBRYO"}
          /\ \A t \in Slot \ {cproc[c]} : state'[t] = state[t]
        BY <2>1, <2>2
    <2>4. QED
        BY <2>1, <2>3, EnterSched
<1>9. ASSUME NEW c \in CPU, SysSleep(c) PROVE IInv'
    <2>1. /\ pc[c] = "user" /\ lock = NoCpu /\ lock' = c
          /\ pc' = [pc EXCEPT ![c] = "sched"]
          /\ state' = [state EXCEPT ![cproc[c]] = "SLEEPING"]
          /\ UNCHANGED <<cproc, child>>
        BY <1>9 DEF SysSleep
    <2>2. cproc[c] \in Slot
        BY <2>1 DEF PosIsCurrent, OnCpu
    <2>3. /\ state'[cproc[c]] \notin {"RUNNING", "EMBRYO"}
          /\ \A t \in Slot \ {cproc[c]} : state'[t] = state[t]
        BY <2>1, <2>2
    <2>4. QED
        BY <2>1, <2>3, EnterSched
<1>10. ASSUME NEW c \in CPU, Tick(c) PROVE IInv'
    <2>0. state' = Wakeup1(state, TicksChan) /\ UNCHANGED cpuVars
        BY <1>10 DEF Tick
    <2>1. \A s \in Slot : state'[s] # state[s] => state[s] = "SLEEPING" /\ state'[s] = "RUNNABLE"
        BY <2>0 DEF Wakeup1
    <2>2. QED
        BY <2>0, <2>1, StateFrame
<1>11. ASSUME NEW c \in CPU, NEW k \in 0..MaxPid, Kill(c, k) PROVE IInv'
    <2>1. PICK s \in Slot :
              /\ killed' = [killed EXCEPT ![s] = TRUE]
              /\ state' = [state EXCEPT ![s] = IF @ = "SLEEPING" THEN "RUNNABLE" ELSE @]
        BY <1>11 DEF Kill
    <2>2. \A t \in Slot : state'[t] # state[t] => state[t] = "SLEEPING" /\ state'[t] = "RUNNABLE"
        BY <2>1
    <2>3. UNCHANGED cpuVars
        BY <1>11 DEF Kill
    <2>4. QED
        BY <2>2, <2>3, StateFrame
<1>12. ASSUME NEW c \in CPU, Exit(c) PROVE IInv'
    <2>0. /\ pc[c] = "user" /\ lock = NoCpu /\ lock' = c
          /\ pc' = [pc EXCEPT ![c] = "sched"]
          /\ UNCHANGED <<cproc, child>>
        BY <1>12 DEF Exit
    <2>1. cproc[c] \in Slot
        BY <2>0 DEF PosIsCurrent, OnCpu
    <2>2. /\ state'[cproc[c]] = "ZOMBIE"
          /\ \A t \in Slot \ {cproc[c]} : state'[t] # state[t] =>
                state[t] = "SLEEPING" /\ state'[t] = "RUNNABLE"
        BY <1>12, <2>1 DEF Exit, Wakeup1
    <2>3. QED
        BY <2>0, <2>1, <2>2, EnterSched
<1>13. ASSUME NEW c \in CPU, ForkAlloc(c) PROVE IInv'
    <2>0. PICK s \in Slot :
              /\ FirstIn(s, 1, {t \in Slot : state[t] = "UNUSED"})
              /\ state' = [state EXCEPT ![s] = "EMBRYO"]
              /\ pid' = [pid EXCEPT ![s] = nextpid]
              /\ child' = [child EXCEPT ![c] = s]
        BY <1>13 DEF ForkAlloc
    <2>1. /\ pc[c] = "user" /\ state[s] = "UNUSED"
          /\ pc' = [pc EXCEPT ![c] = "fork"]
          /\ UNCHANGED <<lock, cproc>>
        BY <1>13, <2>0 DEF ForkAlloc, FirstIn
    <2>2. \A d \in CPU \ {c} : pc'[d] = pc[d] /\ child'[d] = child[d]
        BY <2>0, <2>1
    <2>3. LockOwner'
        BY <2>1, <2>2 DEF LockOwner, HoldsLock
    <2>4. IdleNull'
        BY <2>1, <2>2 DEF IdleNull
    <2>5. CurrentRunning'
        <3>2. SUFFICES ASSUME NEW d \in CPU, pc'[d] \in {"resume", "user", "fork"}
                       PROVE  state'[cproc'[d]] = "RUNNING"
            BY DEF CurrentRunning
        <3>3. pc[d] \in {"resume", "user", "fork"}
            BY <2>1, <2>2, <3>2
        <3>4. cproc[d] \in Slot /\ state[cproc[d]] = "RUNNING"
            BY <3>3 DEF CurrentRunning, PosIsCurrent, OnCpu
        <3>5. QED
            BY <2>0, <2>1, <3>4
    <2>6. CurrentYielded'
        BY <2>0, <2>1, <2>2 DEF CurrentYielded
    <2>7. ChildEmbryo'
        <3>2. \A d \in CPU \ {c} : pc'[d] = "fork" =>
                 /\ pc[d] = "fork" /\ child'[d] = child[d]
                 /\ child[d] \in Slot /\ child[d] # s
                 /\ state'[child[d]] = "EMBRYO"
            BY <2>0, <2>1, <2>2 DEF ChildEmbryo
        <3>3. \A d1, d2 \in CPU \ {c} :
                 d1 # d2 /\ pc'[d1] = "fork" /\ pc'[d2] = "fork" => child'[d1] # child'[d2]
            BY <2>2 DEF ChildEmbryo
        <3>4. pc'[c] = "fork" /\ child'[c] = s /\ state'[s] = "EMBRYO"
            BY <2>0, <2>1
        <3>5. \A d \in CPU : pc'[d] = "fork" => child'[d] \in Slot /\ state'[child'[d]] = "EMBRYO"
            BY <3>2, <3>4
        <3>6. \A d1, d2 \in CPU :
                 d1 # d2 /\ pc'[d1] = "fork" /\ pc'[d2] = "fork" => child'[d1] # child'[d2]
            <4>1. TAKE d1, d2 \in CPU
            <4>2. CASE d1 = c
                BY <3>2, <3>4, <4>2
            <4>5. CASE d2 = c
                BY <3>2, <3>4, <4>5
            <4>3. CASE d1 # c /\ d2 # c
                BY <3>3, <4>3
            <4>4. QED
                BY <4>2, <4>3, <4>5
        <3>7. QED
            BY <3>5, <3>6 DEF ChildEmbryo
    <2>8. RunsOnOneCpu'
        BY <2>0, <2>1 DEF RunsOnOneCpu
    <2>9. QED
        BY <1>0, <2>3, <2>4, <2>5, <2>6, <2>7, <2>8 DEF IInv
<1>14. ASSUME NEW c \in CPU, ForkFail(c) PROVE IInv'
    <2>1. /\ pc[c] = "fork"
          /\ pc' = [pc EXCEPT ![c] = "user"]
          /\ child' = [child EXCEPT ![c] = 0]
          /\ state' = [state EXCEPT ![child[c]] = "UNUSED"]
          /\ UNCHANGED <<lock, cproc>>
        BY <1>14 DEF ForkFail
    <2>2. QED
        BY <2>1, ForkEnd
<1>15. ASSUME NEW c \in CPU, ForkDone(c) PROVE IInv'
    <2>1. /\ pc[c] = "fork"
          /\ pc' = [pc EXCEPT ![c] = "user"]
          /\ child' = [child EXCEPT ![c] = 0]
          /\ state' = [state EXCEPT ![child[c]] = "RUNNABLE"]
          /\ UNCHANGED <<lock, cproc>>
        BY <1>15 DEF ForkDone
    <2>2. QED
        BY <2>1, ForkEnd
<1>16. CASE UNCHANGED vars
    <2>1. UNCHANGED <<state, lock, cproc, pc, child>>
        BY <1>16 DEF vars
    <2>2. LockOwner' /\ IdleNull'
        BY <2>1 DEF LockOwner, IdleNull
    <2>3. CurrentRunning' /\ CurrentYielded'
        BY <2>1 DEF CurrentRunning, CurrentYielded
    <2>4. ChildEmbryo' /\ RunsOnOneCpu'
        BY <2>1 DEF ChildEmbryo, RunsOnOneCpu
    <2>5. QED
        BY <1>0, <2>2, <2>3, <2>4 DEF IInv
<1>17. QED
    BY <1>1, <1>2, <1>3, <1>4, <1>5, <1>6, <1>7, <1>8, <1>9, <1>10, <1>11,
       <1>12, <1>13, <1>14, <1>15, <1>16 DEF Next

(* No process runs on two CPUs at once, and every RUNNING process is some *)
(* CPU's c->proc: scheduler() switches only to RUNNABLE slots while it    *)
(* holds ptable.lock, and yield(), sleep(), exit() and wait() hand the    *)
(* lock to the scheduler across swtch(), for every NPROC and set of CPUs. *)
THEOREM OneCpu == Spec => []RunsOnOneCpu
<1>1. Spec => []IInv
    BY IInvInit, IInvNext, PTL DEF Spec
<1>2. QED
    BY <1>1, PTL DEF IInv

=============================================================================
