---------------------------- MODULE ProcPidProofs ----------------------------
(***************************************************************************)
(* Pids are unique among the slots that have one: allocproc takes         *)
(* nextpid++, which is above every pid in the table, and the only other   *)
(* write to p->pid is wait()'s reset to 0. UniquePids alone is not        *)
(* inductive: a step of allocproc keeps it only because nextpid is fresh, *)
(* so the proof carries PidFresh along.                                    *)
(***************************************************************************)
EXTENDS ProcProofs

USE NPROCAssumption, CPUAssumption, MaxPidAssumption

(* nextpid is above every pid in the table.                               *)
PidFresh == \A s \in Slot : pid[s] < nextpid

PidInv == TypeInv /\ PidFresh /\ UniquePids

(* A slot in use has a pid: only wait()'s reap writes pid 0, and it frees *)
(* the slot in the same step.                                              *)
LivePid == \A s \in Slot : state[s] # "UNUSED" => pid[s] # 0

LEMMA PidInvInit == Init => PidInv
<1> SUFFICES ASSUME Init PROVE PidInv
    OBVIOUS
<1>1. TypeInv
    BY TypeInvInit
<1>2. PidFresh /\ UniquePids
    BY DEF Init, PidFresh, UniquePids, InitSlot, Slot
<1>3. QED
    BY <1>1, <1>2 DEF PidInv

(* A pass of wait()'s loop either leaves the pids or zeroes the reaped    *)
(* child's.                                                                *)
LEMMA WaitScanPid ==
    ASSUME NEW c, NEW p, NEW ch, WaitScan(c, p, ch)
    PROVE  \/ pid' = pid
           \/ \E q \in Slot : pid' = [pid EXCEPT ![q] = 0]
BY DEF WaitScan

(* Zeroing a pid keeps both conjuncts.                                    *)
LEMMA ZeroPid ==
    ASSUME pid \in [Slot -> 0..MaxPid], nextpid \in Nat, 0 < nextpid,
           PidFresh, UniquePids, UNCHANGED nextpid,
           NEW q \in Slot, pid' = [pid EXCEPT ![q] = 0]
    PROVE  PidFresh' /\ UniquePids'
BY DEF PidFresh, UniquePids

LEMMA PidInvNext == PidInv /\ [Next]_vars => PidInv'
<1> SUFFICES ASSUME PidInv, [Next]_vars PROVE PidInv'
    OBVIOUS
<1>0. TypeInv'
    BY TypeInvNext DEF PidInv
<1>t. /\ pid \in [Slot -> 0..MaxPid] /\ nextpid \in 2..MaxPid + 1
      /\ PidFresh /\ UniquePids
    BY DEF PidInv, TypeInv, TypeOK
<1>1. CASE UNCHANGED <<pid, nextpid>>
    BY <1>0, <1>1, <1>t DEF PidInv, PidFresh, UniquePids
<1>2. CASE UNCHANGED nextpid /\ \E q \in Slot : pid' = [pid EXCEPT ![q] = 0]
    <2>1. PICK q \in Slot : pid' = [pid EXCEPT ![q] = 0]
        BY <1>2
    <2>2. nextpid \in Nat /\ 0 < nextpid /\ UNCHANGED nextpid
        BY <1>2, <1>t
    <2>4. PidFresh' /\ UniquePids'
        BY <1>t, <2>1, <2>2, ZeroPid
    <2>3. QED
        BY <1>0, <2>4 DEF PidInv
<1>3. ASSUME NEW c \in CPU, ForkAlloc(c) PROVE PidInv'
    <2>1. PICK s \in Slot : pid' = [pid EXCEPT ![s] = nextpid]
        BY <1>3 DEF ForkAlloc
    <2>2. nextpid' = nextpid + 1 /\ nextpid <= MaxPid
        BY <1>3 DEF ForkAlloc
    <2>3. PidFresh'
        BY <1>t, <2>1, <2>2 DEF PidFresh
    <2>4. UniquePids'
        BY <1>t, <2>1, <2>2 DEF PidFresh, UniquePids
    <2>5. QED
        BY <1>0, <2>3, <2>4 DEF PidInv
<1>4. ASSUME NEW c \in CPU, Wait(c) \/ ResumeWait(c) PROVE PidInv'
    <2>1. UNCHANGED nextpid
        BY <1>4 DEF Wait, ResumeWait
    <2>2. \/ pid' = pid
          \/ \E q \in Slot : pid' = [pid EXCEPT ![q] = 0]
        BY <1>4, WaitScanPid DEF Wait, ResumeWait
    <2>3. QED
        BY <1>1, <1>2, <2>1, <2>2
<1>5. ASSUME NEW c \in CPU,
             \/ SchedAcquire(c) \/ SchedRelease(c) \/ Sched(c)
    PROVE  UNCHANGED <<pid, nextpid>>
    BY <1>5 DEF SchedAcquire, SchedRelease, Sched, procVars
<1>6. ASSUME NEW c \in CPU,
             \/ Dispatch(c) \/ ResumeRelease(c) \/ Yield(c) \/ SysSleep(c)
    PROVE  UNCHANGED <<pid, nextpid>>
    BY <1>6 DEF Dispatch, ResumeRelease, Yield, SysSleep
<1>7. ASSUME NEW c \in CPU,
             \/ Tick(c) \/ Exit(c) \/ ForkFail(c) \/ ForkDone(c)
             \/ \E k \in 0..MaxPid : Kill(c, k)
    PROVE  UNCHANGED <<pid, nextpid>>
    BY <1>7 DEF Tick, Exit, ForkFail, ForkDone, Kill
<1>8. CASE UNCHANGED vars
    BY <1>1, <1>8 DEF vars
<1>9. QED
    BY <1>1, <1>3, <1>4, <1>5, <1>6, <1>7, <1>8 DEF Next

-----------------------------------------------------------------------------
(* A step that leaves the pids and brings no UNUSED slot into use keeps   *)
(* LivePid.                                                                *)
LEMMA LiveFrame ==
    ASSUME LivePid, UNCHANGED pid,
           \A s \in Slot : state'[s] # "UNUSED" => state[s] # "UNUSED"
    PROVE  LivePid'
BY DEF LivePid

(* A pass of wait()'s loop by the RUNNING process p keeps LivePid: a reap *)
(* zeroes the pid of the slot it frees, a sleep only changes p.           *)
LEMMA WaitScanLive ==
    ASSUME LivePid, state \in [Slot -> States], NEW c, NEW p \in Slot,
           state[p] = "RUNNING", NEW ch, WaitScan(c, p, ch)
    PROVE  LivePid'
<1>1. CASE \E q \in Slot : state' = [state EXCEPT ![q] = "UNUSED"]
                         /\ pid' = [pid EXCEPT ![q] = 0]
    BY <1>1 DEF LivePid
<1>2. CASE UNCHANGED <<state, pid>>
    BY <1>2 DEF LivePid
<1>3. CASE UNCHANGED pid /\ state' = [state EXCEPT ![p] = "SLEEPING"]
    BY <1>3 DEF LivePid
<1>4. QED
    BY <1>1, <1>2, <1>3 DEF WaitScan

LEMMA LivePidNext == IInv /\ LivePid /\ [Next]_vars => LivePid'
<1> SUFFICES ASSUME IInv, LivePid, [Next]_vars PROVE LivePid'
    OBVIOUS
<1>t. /\ state \in [Slot -> States] /\ nextpid \in 2..MaxPid + 1
      /\ cproc \in [CPU -> SlotOrNull] /\ child \in [CPU -> SlotOrNull]
    BY DEF IInv, TypeInv, TypeOK
(* The process of a CPU in user code or resuming is RUNNING.               *)
<1>r. ASSUME NEW c \in CPU, pc[c] \in {"user", "resume"}
      PROVE  cproc[c] \in Slot /\ state[cproc[c]] = "RUNNING"
    BY <1>r DEF IInv, TypeInv, PosIsCurrent, OnCpu, CurrentRunning
<1>1. ASSUME NEW c \in CPU,
             \/ SchedAcquire(c) \/ SchedRelease(c) \/ Sched(c) \/ ResumeRelease(c)
      PROVE  LivePid'
    BY <1>1, LiveFrame DEF SchedAcquire, SchedRelease, Sched, ResumeRelease, procVars
<1>2. ASSUME NEW c \in CPU, Dispatch(c) PROVE LivePid'
    <2>1. PICK s \in Slot : state[s] = "RUNNABLE" /\ state' = [state EXCEPT ![s] = "RUNNING"]
        BY <1>2 DEF Dispatch, FirstIn
    <2>2. QED
        BY <1>2, <2>1, LiveFrame DEF Dispatch
<1>3. ASSUME NEW c \in CPU, Yield(c) \/ SysSleep(c) PROVE LivePid'
    <2>1. cproc[c] \in Slot /\ state[cproc[c]] = "RUNNING"
        BY <1>3, <1>r DEF Yield, SysSleep
    <2>2. UNCHANGED pid /\ \E ns \in States : state' = [state EXCEPT ![cproc[c]] = ns]
        BY <1>3 DEF Yield, SysSleep, States
    <2>3. QED
        BY <1>t, <2>1, <2>2, LiveFrame
<1>4. ASSUME NEW c \in CPU, Tick(c) \/ \E k \in 0..MaxPid : Kill(c, k)
      PROVE  LivePid'
    <2>1. CASE Tick(c)
        <3>1. UNCHANGED pid /\ state' = Wakeup1(state, TicksChan)
            BY <2>1 DEF Tick
        <3>2. QED
            BY <1>t, <3>1, Wakeup1Type, LiveFrame
    <2>2. CASE \E k \in 0..MaxPid : Kill(c, k)
        <3>1. PICK s \in Slot : /\ UNCHANGED pid
                                /\ state' = [state EXCEPT ![s] = IF @ = "SLEEPING"
                                                               THEN "RUNNABLE" ELSE @]
            BY <2>2 DEF Kill
        <3>2. QED
            BY <1>t, <3>1, LiveFrame
    <2>3. QED
        BY <1>4, <2>1, <2>2
<1>5. ASSUME NEW c \in CPU, Exit(c) PROVE LivePid'
    <2> DEFINE p == cproc[c]
               st1 == Wakeup1(state, parent[p])
               st2 == IF \E q \in {q \in Slot : parent[q] = p} : state[q] = "ZOMBIE"
                         THEN Wakeup1(st1, InitSlot) ELSE st1
    <2>1. p \in Slot /\ state[p] = "RUNNING"
        BY <1>5, <1>r DEF Exit
    <2>2. UNCHANGED pid /\ state' = [st2 EXCEPT ![p] = "ZOMBIE"]
        BY <1>5 DEF Exit
    <2>3. st1 \in [Slot -> States]
          /\ \A s \in Slot : st1[s] # state[s] => state[s] = "SLEEPING"
        BY <1>t, Wakeup1Type
    <2>4. \A s \in Slot : st2[s] # st1[s] => st1[s] = "SLEEPING"
        BY <2>3, Wakeup1Type
    <2>5. \A s \in Slot : state'[s] # "UNUSED" => state[s] # "UNUSED"
        BY <2>1, <2>2, <2>3, <2>4
    <2>6. QED
        BY <2>2, <2>5, LiveFrame
<1>6. ASSUME NEW c \in CPU, ForkFail(c) PROVE LivePid'
    BY <1>6, <1>t, LiveFrame DEF ForkFail
<1>7. ASSUME NEW c \in CPU, ForkDone(c) PROVE LivePid'
    <2>1. child[c] \in Slot /\ state[child[c]] = "EMBRYO"
        BY <1>7 DEF ForkDone, IInv, ChildEmbryo
    <2>2. QED
        BY <1>7, <1>t, <2>1, LiveFrame DEF ForkDone
<1>8. ASSUME NEW c \in CPU, ForkAlloc(c) PROVE LivePid'
    <2>1. PICK s \in Slot : /\ state' = [state EXCEPT ![s] = "EMBRYO"]
                            /\ pid' = [pid EXCEPT ![s] = nextpid]
        BY <1>8 DEF ForkAlloc
    <2>2. QED
        BY <1>t, <2>1 DEF LivePid, IInv, TypeInv, TypeOK
<1>9. ASSUME NEW c \in CPU, Wait(c) \/ ResumeWait(c) PROVE LivePid'
    <2>1. pc[c] \in {"user", "resume"}
        BY <1>9 DEF Wait, ResumeWait
    <2>2. \E ch : WaitScan(c, cproc[c], ch)
        BY <1>9 DEF Wait, ResumeWait
    <2>3. QED
        BY <1>t, <1>r, <2>1, <2>2, WaitScanLive
<1>10. CASE UNCHANGED vars
    BY <1>10, LiveFrame DEF vars
<1>11. QED
    BY <1>1, <1>2, <1>3, <1>4, <1>5, <1>6, <1>7, <1>8, <1>9, <1>10 DEF Next

(* No two slots share a pid other than 0: allocproc hands out nextpid++,  *)
(* never a pid in use, so kill() and getprocinfo(), which act on the first *)
(* slot with the pid, find the only one, for every NPROC and MaxPid.       *)
THEOREM PidsUnique == Spec => []UniquePids
<1>1. Spec => []PidInv
    BY PidInvInit, PidInvNext, PTL DEF Spec
<1>2. QED
    BY <1>1, PTL DEF PidInv

=============================================================================
