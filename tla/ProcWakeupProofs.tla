--------------------------- MODULE ProcWakeupProofs ---------------------------
(***************************************************************************)
(* No lost wakeup between exit() and wait(), for every NPROC and set of   *)
(* CPUs. NoLostWakeup is not inductive by itself. exit() makes p a ZOMBIE  *)
(* and wakes the slots sleeping on parent[p]; that wakes the parent only   *)
(* if the parent is not p itself, and the children passed to initproc     *)
(* must not include initproc. So the invariant WInv adds:                  *)
(*   ParentNotSelf   no slot is its own parent;                            *)
(*   InitParentless  initproc has no parent;                               *)
(*   InitLive        initproc never exits, so it is never a child, a       *)
(*                   ZOMBIE or a free slot;                                *)
(* and IInv of ProcProofs, for the EMBRYO child of fork and the RUNNING    *)
(* process of each CPU.                                                    *)
(***************************************************************************)
EXTENDS ProcProofs

USE NPROCAssumption, CPUAssumption, MaxPidAssumption

LiveStates == {"SLEEPING", "RUNNABLE", "RUNNING"}

ParentNotSelf == \A s \in Slot : parent[s] # s
InitParentless == parent[InitSlot] = 0
InitLive == state[InitSlot] \in LiveStates

WInv == IInv /\ ParentNotSelf /\ InitParentless /\ InitLive /\ NoLostWakeup

LEMMA WInvInit == Init => WInv
<1> SUFFICES ASSUME Init PROVE WInv
    OBVIOUS
<1>1. IInv
    BY IInvInit
<1>2. ParentNotSelf /\ InitParentless /\ InitLive /\ NoLostWakeup
    BY DEF Init, ParentNotSelf, InitParentless, InitLive, LiveStates,
           NoLostWakeup, InitSlot, Slot
<1>3. QED
    BY <1>1, <1>2 DEF WInv

(* A step that changes no parent, makes no new ZOMBIE and no new sleeper   *)
(* on its own slot, and keeps initproc live, keeps the four conjuncts.     *)
LEMMA Calm ==
    ASSUME ParentNotSelf, InitParentless, NoLostWakeup, UNCHANGED parent,
           \A t \in Slot : state'[t] = "SLEEPING" /\ chan'[t] = t =>
               state[t] = "SLEEPING" /\ chan[t] = t,
           \A t \in Slot : state'[t] = "ZOMBIE" => state[t] = "ZOMBIE",
           state'[InitSlot] \in LiveStates
    PROVE  ParentNotSelf' /\ InitParentless' /\ InitLive' /\ NoLostWakeup'
BY DEF ParentNotSelf, InitParentless, InitLive, NoLostWakeup

(* One pass of wait()'s loop by the RUNNING process p: a reap frees a      *)
(* ZOMBIE and clears its parent, a return changes no state, and a sleep   *)
(* on p happens only when p has no ZOMBIE child.                           *)
LEMMA WaitWake ==
    ASSUME ParentNotSelf, InitParentless, InitLive, NoLostWakeup,
           state \in [Slot -> States], parent \in [Slot -> SlotOrNull],
           chan \in [Slot -> Chan], NEW c, NEW p \in Slot, state[p] = "RUNNING",
           NEW ch, ch = chan \/ ch = [chan EXCEPT ![p] = 0],
           WaitScan(c, p, ch)
    PROVE  ParentNotSelf' /\ InitParentless' /\ InitLive' /\ NoLostWakeup'
<1> DEFINE kids == {q \in Slot : parent[q] = p}
           zombies == {q \in kids : state[q] = "ZOMBIE"}
<1>0. \A t \in Slot : chan'[t] = t => chan[t] = t \/ t = p
    <2>1. \A t \in Slot \ {p} : ch[t] = chan[t]
        OBVIOUS
    <2>2. chan' = ch \/ chan' = [ch EXCEPT ![p] = p]
        BY DEF WaitScan
    <2>3. QED
        BY <2>1, <2>2
<1>1. CASE \E q \in zombies :
              /\ state' = [state EXCEPT ![q] = "UNUSED"]
              /\ parent' = [parent EXCEPT ![q] = 0]
    <2>1. PICK q \in zombies : /\ state' = [state EXCEPT ![q] = "UNUSED"]
                               /\ parent' = [parent EXCEPT ![q] = 0]
        BY <1>1
    <2>2. q \in Slot /\ state[q] = "ZOMBIE" /\ q # InitSlot
        BY <2>1 DEF InitLive, LiveStates
    <2>3. ParentNotSelf' /\ InitParentless'
        BY <2>1, <2>2 DEF ParentNotSelf, InitParentless, Slot
    <2>4. InitLive'
        BY <2>1, <2>2 DEF InitLive
    <2>5. NoLostWakeup'
        BY <1>0, <2>1, <2>2 DEF NoLostWakeup
    <2>6. QED
        BY <2>3, <2>4, <2>5
<1>2. CASE UNCHANGED <<state, parent>>
    BY <1>0, <1>2 DEF ParentNotSelf, InitParentless, InitLive, NoLostWakeup
<1>3. CASE /\ zombies = {}
           /\ UNCHANGED parent
           /\ state' = [state EXCEPT ![p] = "SLEEPING"]
    <2>1. ParentNotSelf' /\ InitParentless' /\ InitLive'
        BY <1>3 DEF ParentNotSelf, InitParentless, InitLive, LiveStates
    <2>2. NoLostWakeup'
        BY <1>0, <1>3 DEF NoLostWakeup
    <2>3. QED
        BY <2>1, <2>2
<1>4. QED
    BY <1>1, <1>2, <1>3 DEF WaitScan

(* exit() of the RUNNING process p: its parent is woken, its children go *)
(* to initproc (woken if one of them is a ZOMBIE), and p becomes a ZOMBIE. *)
LEMMA ExitWake ==
    ASSUME ParentNotSelf, InitParentless, InitLive, NoLostWakeup,
           state \in [Slot -> States], parent \in [Slot -> SlotOrNull],
           NEW c \in CPU, cproc[c] \in Slot, Exit(c)
    PROVE  ParentNotSelf' /\ InitParentless' /\ InitLive' /\ NoLostWakeup'
<1> DEFINE p == cproc[c]
           kids == {q \in Slot : parent[q] = p}
           st1 == Wakeup1(state, parent[p])
           st2 == IF \E q \in kids : state[q] = "ZOMBIE"
                     THEN Wakeup1(st1, InitSlot) ELSE st1
<1>1. /\ p # InitSlot
      /\ parent' = [q \in Slot |-> IF q \in kids THEN InitSlot ELSE parent[q]]
      /\ state' = [st2 EXCEPT ![p] = "ZOMBIE"]
      /\ UNCHANGED chan
    BY DEF Exit
<1>2. /\ \A t \in Slot : st1[t] # state[t] =>
            state[t] = "SLEEPING" /\ chan[t] = parent[p] /\ st1[t] = "RUNNABLE"
      /\ \A t \in Slot : st1[t] \in States
    BY DEF Wakeup1, States
<1>3. \A t \in Slot : st2[t] # st1[t] =>
          st1[t] = "SLEEPING" /\ chan[t] = InitSlot /\ st2[t] = "RUNNABLE"
          /\ \E q \in kids : state[q] = "ZOMBIE"
    BY DEF Wakeup1
<1>4. ParentNotSelf' /\ InitParentless'
    BY <1>1 DEF ParentNotSelf, InitParentless, InitSlot, Slot
<1>5. InitLive'
    BY <1>1, <1>2, <1>3 DEF InitLive, LiveStates, InitSlot, Slot
<1>6. NoLostWakeup'
    <2> SUFFICES ASSUME NEW x \in Slot, state'[x] = "SLEEPING", chan'[x] = x,
                        NEW q \in Slot, parent'[q] = x, state'[q] = "ZOMBIE"
                 PROVE  FALSE
        BY DEF NoLostWakeup
    <2>1. x # p /\ st2[x] = "SLEEPING" /\ chan[x] = x
        BY <1>1
    <2>2. st1[x] = "SLEEPING" /\ state[x] = "SLEEPING"
        BY <1>2, <1>3, <2>1
    <2>3. parent[p] # x
        BY <2>1, <2>2 DEF Wakeup1
    <2>4. CASE q = p
        BY <1>1, <2>3, <2>4 DEF ParentNotSelf
    <2>5. CASE q # p
        <3>1. state[q] = "ZOMBIE"
            BY <1>1, <1>2, <1>3, <2>5
        <3>2. CASE parent[q] = p
            <4>1. x = InitSlot
                BY <1>1, <3>2
            <4>2. st2 = Wakeup1(st1, InitSlot)
                BY <3>1, <3>2
            <4>3. QED
                BY <2>1, <2>2, <4>1, <4>2 DEF Wakeup1
        <3>3. CASE parent[q] # p
            BY <1>1, <2>2, <2>1, <3>1, <3>3 DEF NoLostWakeup
        <3>4. QED
            BY <3>2, <3>3
    <2>6. QED
        BY <2>4, <2>5
<1>7. QED
    BY <1>4, <1>5, <1>6

LEMMA WInvNext == WInv /\ [Next]_vars => WInv'
<1> SUFFICES ASSUME WInv, [Next]_vars PROVE WInv'
    OBVIOUS
<1>0. IInv'
    BY IInvNext DEF WInv
<1> SUFFICES ParentNotSelf' /\ InitParentless' /\ InitLive' /\ NoLostWakeup'
    BY <1>0 DEF WInv
<1>b. ParentNotSelf /\ InitParentless /\ InitLive /\ NoLostWakeup
    BY DEF WInv
<1>t. /\ state \in [Slot -> States] /\ parent \in [Slot -> SlotOrNull]
      /\ chan \in [Slot -> Chan] /\ cproc \in [CPU -> SlotOrNull]
      /\ child \in [CPU -> SlotOrNull] /\ InitSlot \in Slot
    BY DEF WInv, IInv, TypeInv, TypeOK, InitSlot, Slot
<1>i. state[InitSlot] \in LiveStates
    BY DEF WInv, InitLive
<1> USE <1>b, <1>t
(* A CPU in user code, in a process or in fork() runs a RUNNING slot.      *)
<1>r. ASSUME NEW c \in CPU, pc[c] \in {"user", "resume", "fork"}
      PROVE  cproc[c] \in Slot /\ state[cproc[c]] = "RUNNING"
    BY <1>r DEF WInv, IInv, TypeInv, PosIsCurrent, OnCpu, CurrentRunning
<1>1. ASSUME NEW c \in CPU, SchedAcquire(c) \/ SchedRelease(c) \/ Sched(c)
      PROVE  ParentNotSelf' /\ InitParentless' /\ InitLive' /\ NoLostWakeup'
    <2>1. UNCHANGED <<state, parent, chan>>
        BY <1>1 DEF SchedAcquire, SchedRelease, Sched, procVars
    <2>2. QED
        BY <1>i, <2>1, Calm
<1>2. ASSUME NEW c \in CPU, Dispatch(c)
      PROVE  ParentNotSelf' /\ InitParentless' /\ InitLive' /\ NoLostWakeup'
    <2>1. PICK s \in Slot : state' = [state EXCEPT ![s] = "RUNNING"]
        BY <1>2 DEF Dispatch, FirstIn
    <2>2. UNCHANGED <<parent, chan>>
        BY <1>2 DEF Dispatch
    <2>3. QED
        BY <1>i, <2>1, <2>2, Calm DEF LiveStates
<1>3. ASSUME NEW c \in CPU, ResumeRelease(c)
      PROVE  ParentNotSelf' /\ InitParentless' /\ InitLive' /\ NoLostWakeup'
    <2>1. UNCHANGED <<state, parent>>
          /\ (chan' = chan \/ chan' = [chan EXCEPT ![cproc[c]] = 0])
        BY <1>3 DEF ResumeRelease
    <2>2. \A t \in Slot : chan'[t] = t => chan[t] = t
        BY <2>1 DEF Slot
    <2>3. QED
        BY <1>i, <2>1, <2>2, Calm
<1>4. ASSUME NEW c \in CPU, Yield(c) \/ SysSleep(c)
      PROVE  ParentNotSelf' /\ InitParentless' /\ InitLive' /\ NoLostWakeup'
    <2>1. cproc[c] \in Slot
        BY <1>4, <1>r DEF Yield, SysSleep
    <2>2. /\ UNCHANGED parent
          /\ \/ state' = [state EXCEPT ![cproc[c]] = "RUNNABLE"] /\ UNCHANGED chan
             \/ /\ state' = [state EXCEPT ![cproc[c]] = "SLEEPING"]
                /\ chan' = [chan EXCEPT ![cproc[c]] = TicksChan]
        BY <1>4 DEF Yield, SysSleep
    <2>3. \A t \in Slot : state'[t] = "SLEEPING" /\ chan'[t] = t =>
              state[t] = "SLEEPING" /\ chan[t] = t
        BY <2>1, <2>2 DEF TicksChan, Slot
    <2>4. \A t \in Slot : state'[t] = "ZOMBIE" => state[t] = "ZOMBIE"
        BY <2>2
    <2>5. state'[InitSlot] \in LiveStates
        BY <1>i, <2>2 DEF LiveStates
    <2>6. QED
        BY <2>2, <2>3, <2>4, <2>5, Calm
<1>5. ASSUME NEW c \in CPU, Tick(c) \/ \E k \in 0..MaxPid : Kill(c, k)
      PROVE  ParentNotSelf' /\ InitParentless' /\ InitLive' /\ NoLostWakeup'
    <2>1. UNCHANGED <<parent, chan>>
        BY <1>5 DEF Tick, Kill
    <2>2. \A t \in Slot : state'[t] # state[t] =>
              state[t] = "SLEEPING" /\ state'[t] = "RUNNABLE"
        <3>1. CASE Tick(c)
            BY <3>1 DEF Tick, Wakeup1
        <3>2. CASE \E k \in 0..MaxPid : Kill(c, k)
            BY <3>2 DEF Kill
        <3>3. QED
            BY <1>5, <3>1, <3>2
    <2>3. \A t \in Slot : state'[t] = "SLEEPING" => state[t] = "SLEEPING"
        BY <2>2
    <2>4. \A t \in Slot : state'[t] = "ZOMBIE" => state[t] = "ZOMBIE"
        BY <2>2
    <2>5. state'[InitSlot] \in LiveStates
        BY <1>i, <2>2 DEF LiveStates
    <2>6. QED
        BY <2>1, <2>3, <2>4, <2>5, Calm
<1>6. ASSUME NEW c \in CPU, ForkAlloc(c) \/ ForkFail(c)
      PROVE  ParentNotSelf' /\ InitParentless' /\ InitLive' /\ NoLostWakeup'
    <2>1. PICK s \in Slot :
              /\ state[s] \in {"UNUSED", "EMBRYO"}
              /\ state' = [state EXCEPT ![s] = IF state[s] = "UNUSED" THEN "EMBRYO" ELSE "UNUSED"]
        <3>1. CASE ForkAlloc(c)
            BY <3>1 DEF ForkAlloc, FirstIn
        <3>2. CASE ForkFail(c)
            BY <3>2 DEF ForkFail, WInv, IInv, ChildEmbryo
        <3>3. QED
            BY <1>6, <3>1, <3>2
    <2>2. UNCHANGED <<parent, chan>>
        BY <1>6 DEF ForkAlloc, ForkFail
    <2>3. s # InitSlot
        BY <1>i, <2>1 DEF LiveStates
    <2>4. QED
        BY <1>i, <2>1, <2>2, <2>3, Calm
<1>7. ASSUME NEW c \in CPU, ForkDone(c)
      PROVE  ParentNotSelf' /\ InitParentless' /\ InitLive' /\ NoLostWakeup'
    <2>1. /\ child[c] \in Slot /\ state[child[c]] = "EMBRYO"
          /\ cproc[c] \in Slot /\ state[cproc[c]] = "RUNNING"
        BY <1>7, <1>r DEF ForkDone, WInv, IInv, ChildEmbryo
    <2>2. /\ parent' = [parent EXCEPT ![child[c]] = cproc[c]]
          /\ state' = [state EXCEPT ![child[c]] = "RUNNABLE"]
          /\ UNCHANGED chan
        BY <1>7 DEF ForkDone
    <2>3. child[c] # InitSlot /\ child[c] # cproc[c]
        BY <1>i, <2>1 DEF LiveStates
    <2>4. ParentNotSelf' /\ InitParentless' /\ InitLive'
        BY <1>i, <2>2, <2>3 DEF ParentNotSelf, InitParentless, InitLive, LiveStates
    <2>5. NoLostWakeup'
        BY <2>1, <2>2 DEF NoLostWakeup
    <2>6. QED
        BY <2>4, <2>5
<1>8. ASSUME NEW c \in CPU, Wait(c) \/ ResumeWait(c)
      PROVE  ParentNotSelf' /\ InitParentless' /\ InitLive' /\ NoLostWakeup'
    <2>1. cproc[c] \in Slot /\ state[cproc[c]] = "RUNNING"
        BY <1>8, <1>r DEF Wait, ResumeWait
    <2>2. \E ch : /\ ch = chan \/ ch = [chan EXCEPT ![cproc[c]] = 0]
                  /\ WaitScan(c, cproc[c], ch)
        BY <1>8 DEF Wait, ResumeWait
    <2>3. QED
        BY <1>i, <2>1, <2>2, WaitWake DEF InitLive
<1>9. ASSUME NEW c \in CPU, Exit(c)
      PROVE  ParentNotSelf' /\ InitParentless' /\ InitLive' /\ NoLostWakeup'
    <2>1. cproc[c] \in Slot
        BY <1>9, <1>r DEF Exit
    <2>2. QED
        BY <1>i, <1>9, <2>1, ExitWake DEF InitLive
<1>10. CASE UNCHANGED vars
    BY <1>i, <1>10, Calm DEF vars
<1>11. QED
    BY <1>1, <1>2, <1>3, <1>4, <1>5, <1>6, <1>7, <1>8, <1>9, <1>10 DEF Next

(* A process asleep in wait() never has a ZOMBIE child, for every NPROC   *)
(* and set of CPUs: exit() wakes the parent, and initproc for a zombie it *)
(* hands over, in the same ptable.lock section in which it becomes a      *)
(* ZOMBIE, and wait() scans and sleeps in one section.                    *)
THEOREM WakeupNotLost == Spec => []NoLostWakeup
<1>1. Spec => []WInv
    BY WInvInit, WInvNext, PTL DEF Spec
<1>2. QED
    BY <1>1, PTL DEF WInv

-----------------------------------------------------------------------------
(* ParentIsLive on top of WInv: a slot stays live or stays unused, and     *)
(* parents change only at fork's end, exit's reparenting and wait's reap. *)
PInv == WInv /\ ParentIsLive

LEMMA PInvInit == Init => PInv
<1> SUFFICES ASSUME Init PROVE PInv
    OBVIOUS
<1>1. ParentIsLive
    BY DEF Init, ParentIsLive, InitSlot, Slot
<1>2. QED
    BY <1>1, WInvInit DEF PInv

(* Steps that change no parent and move slots only within the live states *)
(* or within UNUSED and EMBRYO keep ParentIsLive.                          *)
LEMMA ParentFrame ==
    ASSUME ParentIsLive, UNCHANGED parent,
           \A t \in Slot : state'[t] # state[t] =>
               \/ state[t] \in LiveStates /\ state'[t] \in LiveStates
               \/ state[t] \in {"UNUSED", "EMBRYO"} /\ state'[t] \in {"UNUSED", "EMBRYO"}
    PROVE  ParentIsLive'
BY DEF ParentIsLive, LiveStates

LEMMA PInvNext == PInv /\ [Next]_vars => PInv'
<1> SUFFICES ASSUME PInv, [Next]_vars PROVE PInv'
    OBVIOUS
<1>0. WInv'
    BY WInvNext DEF PInv
<1> SUFFICES ParentIsLive'
    BY <1>0 DEF PInv
<1>b. /\ ParentIsLive /\ ParentNotSelf /\ InitParentless /\ InitLive
      /\ state \in [Slot -> States] /\ parent \in [Slot -> SlotOrNull]
      /\ InitSlot \in Slot
    BY DEF PInv, WInv, IInv, TypeInv, TypeOK, InitSlot, Slot
<1> USE <1>b
<1>r. ASSUME NEW c \in CPU, pc[c] \in {"user", "resume", "fork"}
      PROVE  cproc[c] \in Slot /\ state[cproc[c]] = "RUNNING"
    BY <1>r DEF PInv, WInv, IInv, TypeInv, PosIsCurrent, OnCpu, CurrentRunning
<1>1. ASSUME NEW c \in CPU,
             \/ SchedAcquire(c) \/ SchedRelease(c) \/ Sched(c) \/ ResumeRelease(c)
      PROVE  ParentIsLive'
    <2>1. UNCHANGED <<state, parent>>
        BY <1>1 DEF SchedAcquire, SchedRelease, Sched, ResumeRelease, procVars
    <2>2. QED
        BY <2>1, ParentFrame
<1>2. ASSUME NEW c \in CPU, Dispatch(c) PROVE ParentIsLive'
    <2>1. PICK s \in Slot : state[s] = "RUNNABLE" /\ state' = [state EXCEPT ![s] = "RUNNING"]
        BY <1>2 DEF Dispatch, FirstIn
    <2>2. QED
        BY <1>2, <2>1, ParentFrame DEF Dispatch, LiveStates
<1>3. ASSUME NEW c \in CPU, Yield(c) \/ SysSleep(c) PROVE ParentIsLive'
    <2>1. cproc[c] \in Slot /\ state[cproc[c]] = "RUNNING"
        BY <1>3, <1>r DEF Yield, SysSleep
    <2>2. /\ UNCHANGED parent
          /\ \/ state' = [state EXCEPT ![cproc[c]] = "RUNNABLE"]
             \/ state' = [state EXCEPT ![cproc[c]] = "SLEEPING"]
        BY <1>3 DEF Yield, SysSleep
    <2>3. QED
        BY <2>1, <2>2, ParentFrame DEF LiveStates
<1>4. ASSUME NEW c \in CPU, Tick(c) \/ \E k \in 0..MaxPid : Kill(c, k)
      PROVE  ParentIsLive'
    <2>1. UNCHANGED parent
        BY <1>4 DEF Tick, Kill
    <2>2. \A t \in Slot : state'[t] # state[t] =>
              state[t] = "SLEEPING" /\ state'[t] = "RUNNABLE"
        <3>1. CASE Tick(c)
            BY <3>1 DEF Tick, Wakeup1
        <3>2. CASE \E k \in 0..MaxPid : Kill(c, k)
            BY <3>2 DEF Kill
        <3>3. QED
            BY <1>4, <3>1, <3>2
    <2>3. QED
        BY <2>1, <2>2, ParentFrame DEF LiveStates
<1>5. ASSUME NEW c \in CPU, ForkAlloc(c) \/ ForkFail(c) PROVE ParentIsLive'
    <2>1. PICK s \in Slot :
              /\ state[s] \in {"UNUSED", "EMBRYO"}
              /\ state' = [state EXCEPT ![s] = IF state[s] = "UNUSED" THEN "EMBRYO" ELSE "UNUSED"]
        <3>1. CASE ForkAlloc(c)
            BY <3>1 DEF ForkAlloc, FirstIn
        <3>2. CASE ForkFail(c)
            BY <3>2 DEF ForkFail, PInv, WInv, IInv, ChildEmbryo
        <3>3. QED
            BY <1>5, <3>1, <3>2
    <2>2. UNCHANGED parent
        BY <1>5 DEF ForkAlloc, ForkFail
    <2>3. QED
        BY <2>1, <2>2, ParentFrame
<1>6. ASSUME NEW c \in CPU, ForkDone(c) PROVE ParentIsLive'
    <2>1. /\ child[c] \in Slot /\ state[child[c]] = "EMBRYO"
          /\ cproc[c] \in Slot /\ state[cproc[c]] = "RUNNING"
        BY <1>6, <1>r DEF ForkDone, PInv, WInv, IInv, ChildEmbryo
    <2>2. /\ parent' = [parent EXCEPT ![child[c]] = cproc[c]]
          /\ state' = [state EXCEPT ![child[c]] = "RUNNABLE"]
        BY <1>6 DEF ForkDone
    <2>3. QED
        BY <2>1, <2>2 DEF ParentIsLive
<1>7. ASSUME NEW c \in CPU, Wait(c) \/ ResumeWait(c) PROVE ParentIsLive'
    <2>1. cproc[c] \in Slot /\ state[cproc[c]] = "RUNNING"
        BY <1>7, <1>r DEF Wait, ResumeWait
    <2>2. PICK ch : WaitScan(c, cproc[c], ch)
        BY <1>7 DEF Wait, ResumeWait
    <2>3. CASE \E q \in Slot :
                  /\ state[q] = "ZOMBIE"
                  /\ state' = [state EXCEPT ![q] = "UNUSED"]
                  /\ parent' = [parent EXCEPT ![q] = 0]
        <3>1. PICK q \in Slot : /\ state[q] = "ZOMBIE"
                                /\ state' = [state EXCEPT ![q] = "UNUSED"]
                                /\ parent' = [parent EXCEPT ![q] = 0]
            BY <2>3
        <3>2. QED
            BY <3>1 DEF ParentIsLive
    <2>4. CASE UNCHANGED <<state, parent>>
        BY <2>4, ParentFrame
    <2>5. CASE UNCHANGED parent /\ state' = [state EXCEPT ![cproc[c]] = "SLEEPING"]
        BY <2>1, <2>5, ParentFrame DEF LiveStates
    <2>6. QED
        BY <2>2, <2>3, <2>4, <2>5 DEF WaitScan
<1>8. ASSUME NEW c \in CPU, Exit(c) PROVE ParentIsLive'
    <2> DEFINE p == cproc[c]
               kids == {q \in Slot : parent[q] = p}
               st1 == Wakeup1(state, parent[p])
               st2 == IF \E q \in kids : state[q] = "ZOMBIE"
                         THEN Wakeup1(st1, InitSlot) ELSE st1
    <2>1. p \in Slot /\ state[p] = "RUNNING"
        BY <1>8, <1>r DEF Exit
    <2>2. /\ p # InitSlot
          /\ parent' = [q \in Slot |-> IF q \in kids THEN InitSlot ELSE parent[q]]
          /\ state' = [st2 EXCEPT ![p] = "ZOMBIE"]
        BY <1>8 DEF Exit
    <2>3. \A t \in Slot : st2[t] # state[t] =>
              state[t] = "SLEEPING" /\ st2[t] = "RUNNABLE"
        BY DEF Wakeup1
    <2>12. DOMAIN st2 = Slot
        BY DEF Wakeup1
    <2>13. state'[p] = "ZOMBIE" /\ \A t \in Slot \ {p} : state'[t] = st2[t]
        BY <2>1, <2>2, <2>12
    <2>4. \A t \in Slot : state'[t] \in LiveStates <=> t # p /\ state[t] \in LiveStates
        BY <2>3, <2>13 DEF LiveStates
    <2>5. state[InitSlot] \in LiveStates
        BY DEF InitLive
    <2>6. SUFFICES ASSUME NEW s \in Slot \ {InitSlot},
                          state'[s] \in {"SLEEPING", "RUNNABLE", "RUNNING", "ZOMBIE"}
                   PROVE  parent'[s] \in Slot /\ state'[parent'[s]] \in LiveStates
        BY DEF ParentIsLive, LiveStates
    <2>7. state[s] \in {"SLEEPING", "RUNNABLE", "RUNNING", "ZOMBIE"}
        BY <2>1, <2>2, <2>3, <2>6
    <2>8. parent[s] \in Slot /\ state[parent[s]] \in LiveStates
        BY <2>6, <2>7 DEF ParentIsLive, LiveStates
    <2>9. CASE parent[s] = p
        BY <2>2, <2>4, <2>5, <2>9 DEF Slot, InitSlot
    <2>10. CASE parent[s] # p
        BY <2>2, <2>4, <2>8, <2>10
    <2>11. QED
        BY <2>9, <2>10
<1>9. CASE UNCHANGED vars
    BY <1>9, ParentFrame DEF vars
<1>10. QED
    BY <1>1, <1>2, <1>3, <1>4, <1>5, <1>6, <1>7, <1>8, <1>9 DEF Next

(* Every live process other than initproc has a live, non-zombie parent,  *)
(* for every NPROC and set of CPUs: exit() hands its children to initproc *)
(* before it becomes a ZOMBIE, and wait() frees only a ZOMBIE, which is   *)
(* nobody's parent any more.                                               *)
THEOREM ParentsLive == Spec => []ParentIsLive
<1>1. Spec => []PInv
    BY PInvInit, PInvNext, PTL DEF Spec
<1>2. QED
    BY <1>1, PTL DEF PInv

-----------------------------------------------------------------------------
(* ReapByParent from IInv: the only step that takes a slot out of ZOMBIE  *)
(* is the reap of wait()'s scan, which looks only at p's children.        *)
ReapOK ==
    \A q \in Slot :
        state[q] = "ZOMBIE" /\ state'[q] # "ZOMBIE" =>
            \E c \in CPU : cproc[c] = parent[q] /\ pc[c] \in {"user", "resume"}

(* A step that changes the state of no ZOMBIE keeps ReapOK.               *)
LEMMA ZombieFrame ==
    ASSUME \A t \in Slot : state'[t] # state[t] => state[t] # "ZOMBIE"
    PROVE  ReapOK
BY DEF ReapOK

(* A pass of wait()'s loop by the RUNNING process cproc[c] frees only a   *)
(* ZOMBIE whose parent is cproc[c].                                        *)
LEMMA WaitScanReap ==
    ASSUME NEW c \in CPU, pc[c] \in {"user", "resume"},
           state \in [Slot -> States], cproc[c] \in Slot,
           state[cproc[c]] = "RUNNING", NEW ch, WaitScan(c, cproc[c], ch)
    PROVE  ReapOK
<1> DEFINE p == cproc[c]
           zombies == {q \in {q \in Slot : parent[q] = p} : state[q] = "ZOMBIE"}
<1>1. CASE \E q \in zombies : state' = [state EXCEPT ![q] = "UNUSED"]
    BY <1>1 DEF ReapOK
<1>2. CASE UNCHANGED state
    BY <1>2, ZombieFrame
<1>3. CASE state' = [state EXCEPT ![p] = "SLEEPING"]
    BY <1>3, ZombieFrame
<1>4. QED
    BY <1>1, <1>2, <1>3 DEF WaitScan

LEMMA ReapNext == IInv /\ [Next]_vars => ReapOK
<1> SUFFICES ASSUME IInv, [Next]_vars PROVE ReapOK
    OBVIOUS
<1>t. state \in [Slot -> States] /\ child \in [CPU -> SlotOrNull]
    BY DEF IInv, TypeInv, TypeOK
<1>r. ASSUME NEW c \in CPU, pc[c] \in {"user", "resume"}
      PROVE  cproc[c] \in Slot /\ state[cproc[c]] = "RUNNING"
    BY <1>r DEF IInv, TypeInv, PosIsCurrent, OnCpu, CurrentRunning
<1>1. ASSUME NEW c \in CPU,
             \/ SchedAcquire(c) \/ SchedRelease(c) \/ Sched(c) \/ ResumeRelease(c)
      PROVE  ReapOK
    BY <1>1, ZombieFrame DEF SchedAcquire, SchedRelease, Sched, ResumeRelease, procVars
<1>2. ASSUME NEW c \in CPU, Dispatch(c) PROVE ReapOK
    <2>1. PICK s \in Slot : state[s] = "RUNNABLE" /\ state' = [state EXCEPT ![s] = "RUNNING"]
        BY <1>2 DEF Dispatch, FirstIn
    <2>2. QED
        BY <2>1, ZombieFrame
<1>3. ASSUME NEW c \in CPU, Yield(c) \/ SysSleep(c) PROVE ReapOK
    <2>1. cproc[c] \in Slot /\ state[cproc[c]] = "RUNNING"
        BY <1>3, <1>r DEF Yield, SysSleep
    <2>2. \E ns \in States : state' = [state EXCEPT ![cproc[c]] = ns]
        BY <1>3 DEF Yield, SysSleep, States
    <2>3. QED
        BY <1>t, <2>1, <2>2, ZombieFrame
<1>4. ASSUME NEW c \in CPU, Tick(c) PROVE ReapOK
    <2>1. state' = Wakeup1(state, TicksChan)
        BY <1>4 DEF Tick
    <2>2. QED
        BY <1>t, <2>1, Wakeup1Type, ZombieFrame
<1>5. ASSUME NEW c \in CPU, NEW k \in 0..MaxPid, Kill(c, k) PROVE ReapOK
    <2>1. PICK s \in Slot : state' = [state EXCEPT ![s] = IF @ = "SLEEPING"
                                                      THEN "RUNNABLE" ELSE @]
        BY <1>5 DEF Kill
    <2>2. QED
        BY <1>t, <2>1, ZombieFrame
<1>6. ASSUME NEW c \in CPU, Exit(c) PROVE ReapOK
    <2> DEFINE p == cproc[c]
               st1 == Wakeup1(state, parent[p])
               st2 == IF \E q \in {q \in Slot : parent[q] = p} : state[q] = "ZOMBIE"
                         THEN Wakeup1(st1, InitSlot) ELSE st1
    <2>1. p \in Slot /\ state[p] = "RUNNING"
        BY <1>6, <1>r DEF Exit
    <2>2. state' = [st2 EXCEPT ![p] = "ZOMBIE"]
        BY <1>6 DEF Exit
    <2>3. st1 \in [Slot -> States]
          /\ \A s \in Slot : st1[s] # state[s] => state[s] = "SLEEPING"
        BY <1>t, Wakeup1Type
    <2>4. \A s \in Slot : st2[s] # st1[s] => st1[s] = "SLEEPING"
        BY <2>3, Wakeup1Type
    <2>5. QED
        BY <2>1, <2>2, <2>3, <2>4, ZombieFrame
<1>7. ASSUME NEW c \in CPU, ForkFail(c) \/ ForkDone(c) PROVE ReapOK
    <2>1. child[c] \in Slot /\ state[child[c]] = "EMBRYO"
        BY <1>7 DEF ForkFail, ForkDone, IInv, ChildEmbryo
    <2>2. \E ns \in States : state' = [state EXCEPT ![child[c]] = ns]
        BY <1>7 DEF ForkFail, ForkDone, States
    <2>3. QED
        BY <1>t, <2>1, <2>2, ZombieFrame
<1>8. ASSUME NEW c \in CPU, ForkAlloc(c) PROVE ReapOK
    <2>1. PICK s \in Slot : state[s] = "UNUSED" /\ state' = [state EXCEPT ![s] = "EMBRYO"]
        BY <1>8 DEF ForkAlloc, FirstIn
    <2>2. QED
        BY <2>1, ZombieFrame
<1>9. ASSUME NEW c \in CPU, Wait(c) \/ ResumeWait(c) PROVE ReapOK
    <2>1. pc[c] \in {"user", "resume"}
        BY <1>9 DEF Wait, ResumeWait
    <2>2. \E ch : WaitScan(c, cproc[c], ch)
        BY <1>9 DEF Wait, ResumeWait
    <2>3. QED
        BY <1>t, <1>r, <2>1, <2>2, WaitScanReap
<1>10. CASE UNCHANGED vars
    BY <1>10, ZombieFrame DEF vars
<1>11. QED
    BY <1>1, <1>2, <1>3, <1>4, <1>5, <1>6, <1>7, <1>8, <1>9, <1>10 DEF Next

(* For every NPROC and set of CPUs, a ZOMBIE is freed only in a step taken *)
(* while its parent is some CPU's current process, in user code or        *)
(* returning from sleep: no kill, wakeup, scheduler step or allocproc     *)
(* ever takes a zombie's slot.                                            *)
THEOREM ReapsOwnChild == Spec => ReapByParent
<1>1. Spec => []IInv
    BY IInvInit, IInvNext, PTL DEF Spec
<1>2. IInv /\ [Next]_vars => [ReapOK]_vars
    BY ReapNext
<1>3. QED
    BY <1>1, <1>2, PTL DEF Spec, ReapByParent, ReapOK

-----------------------------------------------------------------------------
(* WaitHasChild on top of PInv. A sleeper's live child could be lost in    *)
(* two ways: it exits, which wakes the sleeper, or it was never a real     *)
(* child, a free or EMBRYO slot whose parent field is stale. The second    *)
(* is ruled out by OrphanFree: only fork's end sets a parent, and wait()'s *)
(* reap clears it as it frees the slot.                                    *)
OrphanFree == \A q \in Slot : state[q] \in {"UNUSED", "EMBRYO"} => parent[q] = 0

KInv == PInv /\ OrphanFree /\ WaitHasChild

LEMMA KInvInit == Init => KInv
<1> SUFFICES ASSUME Init PROVE KInv
    OBVIOUS
<1>1. OrphanFree /\ WaitHasChild
    BY DEF Init, OrphanFree, WaitHasChild, InitSlot
<1>2. QED
    BY <1>1, PInvInit DEF KInv

(* A step that changes no parent, moves slots only within the live states *)
(* or within UNUSED and EMBRYO, and makes no new sleeper on its own slot,  *)
(* keeps both conjuncts.                                                   *)
LEMMA KidFrame ==
    ASSUME OrphanFree, WaitHasChild, UNCHANGED parent,
           \A t \in Slot : state'[t] # state[t] =>
               \/ state[t] \in LiveStates /\ state'[t] \in LiveStates
               \/ state[t] \in {"UNUSED", "EMBRYO"} /\ state'[t] \in {"UNUSED", "EMBRYO"},
           \A t \in Slot : state'[t] = "SLEEPING" /\ chan'[t] = t =>
               state[t] = "SLEEPING" /\ chan[t] = t
    PROVE  OrphanFree' /\ WaitHasChild'
BY DEF OrphanFree, WaitHasChild, LiveStates

(* One pass of wait()'s loop by the RUNNING process p: a reap frees a      *)
(* ZOMBIE, which is no sleeper's live child; a sleep on p happens only     *)
(* when p has a child that is not a ZOMBIE, hence, by OrphanFree, a live   *)
(* one.                                                                    *)
LEMMA WaitKid ==
    ASSUME OrphanFree, WaitHasChild, ParentNotSelf,
           state \in [Slot -> States], parent \in [Slot -> SlotOrNull],
           chan \in [Slot -> Chan], NEW c, NEW p \in Slot, state[p] = "RUNNING",
           NEW ch, ch = chan \/ ch = [chan EXCEPT ![p] = 0],
           WaitScan(c, p, ch)
    PROVE  OrphanFree' /\ WaitHasChild'
<1> DEFINE kids == {q \in Slot : parent[q] = p}
           zombies == {q \in kids : state[q] = "ZOMBIE"}
<1>0. \A t \in Slot : chan'[t] = t => chan[t] = t \/ t = p
    <2>1. \A t \in Slot \ {p} : ch[t] = chan[t]
        OBVIOUS
    <2>2. chan' = ch \/ chan' = [ch EXCEPT ![p] = p]
        BY DEF WaitScan
    <2>3. QED
        BY <2>1, <2>2
<1>1. CASE \E q \in zombies :
              /\ state' = [state EXCEPT ![q] = "UNUSED"]
              /\ parent' = [parent EXCEPT ![q] = 0]
    <2>1. PICK q \in zombies : /\ state' = [state EXCEPT ![q] = "UNUSED"]
                               /\ parent' = [parent EXCEPT ![q] = 0]
        BY <1>1
    <2>2. OrphanFree'
        BY <2>1 DEF OrphanFree
    <2>3. WaitHasChild'
        BY <1>0, <2>1 DEF WaitHasChild
    <2>4. QED
        BY <2>2, <2>3
<1>2. CASE UNCHANGED <<state, parent>>
    BY <1>0, <1>2 DEF OrphanFree, WaitHasChild
<1>3. CASE /\ zombies = {} /\ kids # {}
           /\ UNCHANGED parent
           /\ state' = [state EXCEPT ![p] = "SLEEPING"]
    <2>1. OrphanFree'
        BY <1>3 DEF OrphanFree
    <2>2. PICK q \in kids : TRUE
        BY <1>3
    <2>3. parent[q] = p /\ state[q] # "ZOMBIE" /\ p # 0
        BY <1>3, <2>2 DEF Slot
    <2>6. state[q] \notin {"UNUSED", "EMBRYO"}
        BY <2>3 DEF OrphanFree
    <2>7. q # p /\ state[q] \in {"SLEEPING", "RUNNABLE", "RUNNING"}
        BY <2>3, <2>6 DEF ParentNotSelf, States
    <2>4. WaitHasChild'
        BY <1>0, <1>3, <2>3, <2>7 DEF WaitHasChild
    <2>5. QED
        BY <2>1, <2>4
<1>4. QED
    BY <1>1, <1>2, <1>3 DEF WaitScan

(* exit() of the RUNNING process p: its children get initproc as parent,  *)
(* and p becomes a ZOMBIE. A sleeper in wait() whose live child was p is   *)
(* p's parent, which exit() wakes; any other sleeper keeps its children.   *)
LEMMA ExitKid ==
    ASSUME OrphanFree, WaitHasChild,
           state \in [Slot -> States], parent \in [Slot -> SlotOrNull],
           NEW c \in CPU, cproc[c] \in Slot, state[cproc[c]] = "RUNNING", Exit(c)
    PROVE  OrphanFree' /\ WaitHasChild'
<1> DEFINE p == cproc[c]
           kids == {q \in Slot : parent[q] = p}
           st1 == Wakeup1(state, parent[p])
           st2 == IF \E q \in kids : state[q] = "ZOMBIE"
                     THEN Wakeup1(st1, InitSlot) ELSE st1
<1>1. /\ parent' = [q \in Slot |-> IF q \in kids THEN InitSlot ELSE parent[q]]
      /\ state' = [st2 EXCEPT ![p] = "ZOMBIE"]
      /\ UNCHANGED chan
    BY DEF Exit
<1>2. /\ \A t \in Slot : st1[t] # state[t] =>
            state[t] = "SLEEPING" /\ chan[t] = parent[p] /\ st1[t] = "RUNNABLE"
      /\ \A t \in Slot : st1[t] \in States
    BY DEF Wakeup1, States
<1>3. \A t \in Slot : st2[t] # st1[t] => st1[t] = "SLEEPING" /\ st2[t] = "RUNNABLE"
    BY DEF Wakeup1
<1>4. DOMAIN st2 = Slot
    BY DEF Wakeup1
<1>5. \A t \in Slot \ {p} : state'[t] = st2[t]
    BY <1>1, <1>4
<1>6. OrphanFree'
    <2> SUFFICES ASSUME NEW q \in Slot, state'[q] \in {"UNUSED", "EMBRYO"}
                 PROVE  parent'[q] = 0
        BY DEF OrphanFree
    <2>1. q # p
        BY <1>1, <1>4
    <2>2. state[q] \in {"UNUSED", "EMBRYO"}
        BY <1>2, <1>3, <1>5, <2>1
    <2>3. parent[q] = 0
        BY <2>2 DEF OrphanFree
    <2>4. QED
        BY <1>1, <2>3 DEF Slot
<1>7. WaitHasChild'
    <2> SUFFICES ASSUME NEW x \in Slot, state'[x] = "SLEEPING", chan'[x] = x
                 PROVE  \E q \in Slot : parent'[q] = x /\ state'[q] \in {"SLEEPING", "RUNNABLE", "RUNNING"}
        BY DEF WaitHasChild
    <2>1. x # p /\ st2[x] = "SLEEPING" /\ chan[x] = x
        BY <1>1, <1>4
    <2>2. st1[x] = "SLEEPING" /\ state[x] = "SLEEPING"
        BY <1>2, <1>3, <2>1
    <2>3. parent[p] # x
        BY <2>1, <2>2 DEF Wakeup1
    <2>4. PICK q \in Slot : parent[q] = x /\ state[q] \in {"SLEEPING", "RUNNABLE", "RUNNING"}
        BY <2>1, <2>2 DEF WaitHasChild
    <2>5. q # p /\ parent'[q] = x
        BY <1>1, <2>1, <2>3, <2>4
    <2>6. state'[q] \in {"SLEEPING", "RUNNABLE", "RUNNING"}
        BY <1>2, <1>3, <1>5, <2>4, <2>5
    <2>7. QED
        BY <2>5, <2>6
<1>8. QED
    BY <1>6, <1>7

LEMMA KInvNext == KInv /\ [Next]_vars => KInv'
<1> SUFFICES ASSUME KInv, [Next]_vars PROVE KInv'
    OBVIOUS
<1>0. PInv'
    BY PInvNext DEF KInv
<1> SUFFICES OrphanFree' /\ WaitHasChild'
    BY <1>0 DEF KInv
<1>b. /\ OrphanFree /\ WaitHasChild /\ ParentNotSelf
      /\ state \in [Slot -> States] /\ parent \in [Slot -> SlotOrNull]
      /\ chan \in [Slot -> Chan] /\ child \in [CPU -> SlotOrNull]
    BY DEF KInv, PInv, WInv, IInv, TypeInv, TypeOK
<1> USE <1>b
<1>r. ASSUME NEW c \in CPU, pc[c] \in {"user", "resume", "fork"}
      PROVE  cproc[c] \in Slot /\ state[cproc[c]] = "RUNNING"
    BY <1>r DEF KInv, PInv, WInv, IInv, TypeInv, PosIsCurrent, OnCpu, CurrentRunning
<1>1. ASSUME NEW c \in CPU, SchedAcquire(c) \/ SchedRelease(c) \/ Sched(c)
      PROVE  OrphanFree' /\ WaitHasChild'
    BY <1>1, KidFrame DEF SchedAcquire, SchedRelease, Sched, procVars
<1>2. ASSUME NEW c \in CPU, ResumeRelease(c) PROVE OrphanFree' /\ WaitHasChild'
    <2>1. UNCHANGED <<state, parent>>
          /\ (chan' = chan \/ chan' = [chan EXCEPT ![cproc[c]] = 0])
        BY <1>2 DEF ResumeRelease
    <2>2. \A t \in Slot : chan'[t] = t => chan[t] = t
        BY <2>1 DEF Slot
    <2>3. QED
        BY <2>1, <2>2, KidFrame
<1>3. ASSUME NEW c \in CPU, Dispatch(c) PROVE OrphanFree' /\ WaitHasChild'
    <2>1. PICK s \in Slot : state[s] = "RUNNABLE" /\ state' = [state EXCEPT ![s] = "RUNNING"]
        BY <1>3 DEF Dispatch, FirstIn
    <2>2. UNCHANGED <<parent, chan>>
        BY <1>3 DEF Dispatch
    <2>3. QED
        BY <2>1, <2>2, KidFrame DEF LiveStates
<1>4. ASSUME NEW c \in CPU, Yield(c) \/ SysSleep(c) PROVE OrphanFree' /\ WaitHasChild'
    <2>1. cproc[c] \in Slot /\ state[cproc[c]] = "RUNNING"
        BY <1>4, <1>r DEF Yield, SysSleep
    <2>2. /\ UNCHANGED parent
          /\ \/ state' = [state EXCEPT ![cproc[c]] = "RUNNABLE"] /\ UNCHANGED chan
             \/ /\ state' = [state EXCEPT ![cproc[c]] = "SLEEPING"]
                /\ chan' = [chan EXCEPT ![cproc[c]] = TicksChan]
        BY <1>4 DEF Yield, SysSleep
    <2>3. \A t \in Slot : state'[t] = "SLEEPING" /\ chan'[t] = t =>
              state[t] = "SLEEPING" /\ chan[t] = t
        BY <2>1, <2>2 DEF TicksChan, Slot
    <2>4. QED
        BY <2>1, <2>2, <2>3, KidFrame DEF LiveStates
<1>5. ASSUME NEW c \in CPU, Tick(c) \/ \E k \in 0..MaxPid : Kill(c, k)
      PROVE  OrphanFree' /\ WaitHasChild'
    <2>1. UNCHANGED <<parent, chan>>
        BY <1>5 DEF Tick, Kill
    <2>2. \A t \in Slot : state'[t] # state[t] =>
              state[t] = "SLEEPING" /\ state'[t] = "RUNNABLE"
        <3>1. CASE Tick(c)
            BY <3>1 DEF Tick, Wakeup1
        <3>2. CASE \E k \in 0..MaxPid : Kill(c, k)
            BY <3>2 DEF Kill
        <3>3. QED
            BY <1>5, <3>1, <3>2
    <2>3. QED
        BY <2>1, <2>2, KidFrame DEF LiveStates
<1>6. ASSUME NEW c \in CPU, ForkAlloc(c) \/ ForkFail(c) PROVE OrphanFree' /\ WaitHasChild'
    <2>1. PICK s \in Slot :
              /\ state[s] \in {"UNUSED", "EMBRYO"}
              /\ state' = [state EXCEPT ![s] = IF state[s] = "UNUSED" THEN "EMBRYO" ELSE "UNUSED"]
        <3>1. CASE ForkAlloc(c)
            BY <3>1 DEF ForkAlloc, FirstIn
        <3>2. CASE ForkFail(c)
            BY <3>2 DEF ForkFail, KInv, PInv, WInv, IInv, ChildEmbryo
        <3>3. QED
            BY <1>6, <3>1, <3>2
    <2>2. UNCHANGED <<parent, chan>>
        BY <1>6 DEF ForkAlloc, ForkFail
    <2>3. QED
        BY <2>1, <2>2, KidFrame
<1>7. ASSUME NEW c \in CPU, ForkDone(c) PROVE OrphanFree' /\ WaitHasChild'
    <2>1. child[c] \in Slot /\ state[child[c]] = "EMBRYO"
        BY <1>7 DEF ForkDone, KInv, PInv, WInv, IInv, ChildEmbryo
    <2>2. /\ parent' = [parent EXCEPT ![child[c]] = cproc[c]]
          /\ state' = [state EXCEPT ![child[c]] = "RUNNABLE"]
          /\ UNCHANGED chan
        BY <1>7 DEF ForkDone
    <2>3. OrphanFree'
        BY <2>1, <2>2 DEF OrphanFree
    <2>4. WaitHasChild'
        BY <2>1, <2>2 DEF WaitHasChild
    <2>5. QED
        BY <2>3, <2>4
<1>8. ASSUME NEW c \in CPU, Wait(c) \/ ResumeWait(c) PROVE OrphanFree' /\ WaitHasChild'
    <2>1. cproc[c] \in Slot /\ state[cproc[c]] = "RUNNING"
        BY <1>8, <1>r DEF Wait, ResumeWait
    <2>2. \E ch : /\ ch = chan \/ ch = [chan EXCEPT ![cproc[c]] = 0]
                  /\ WaitScan(c, cproc[c], ch)
        BY <1>8 DEF Wait, ResumeWait
    <2>3. QED
        BY <2>1, <2>2, WaitKid
<1>9. ASSUME NEW c \in CPU, Exit(c) PROVE OrphanFree' /\ WaitHasChild'
    BY <1>9, <1>r, ExitKid DEF Exit
<1>10. CASE UNCHANGED vars
    BY <1>10, KidFrame DEF vars
<1>11. QED
    BY <1>1, <1>2, <1>3, <1>4, <1>5, <1>6, <1>7, <1>8, <1>9, <1>10 DEF Next

(* A process asleep in wait() always has a live child, for every NPROC and *)
(* set of CPUs: wait() sleeps only after its scan found children, none of *)
(* them ZOMBIE, and such a child stops being live only by exit(), which    *)
(* wakes the sleeper. With WakeupNotLost, a sleeper in wait() is neither   *)
(* beside an unreaped zombie nor left with no child to wake it.            *)
THEOREM WaitSleeperHasChild == Spec => []WaitHasChild
<1>1. Spec => []KInv
    BY KInvInit, KInvNext, PTL DEF Spec
<1>2. QED
    BY <1>1, PTL DEF KInv

=============================================================================
