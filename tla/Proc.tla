-------------------------------- MODULE Proc --------------------------------
(***************************************************************************)
(* The process table of src/proc.c and the per-CPU scheduler loop that     *)
(* runs over it, all under the single spinlock ptable.lock.                *)
(*                                                                         *)
(* A slot of ptable.proc is a number in Slot; 0 plays the null pointer.    *)
(* Every CPU runs scheduler(); when it switches to a process the CPU runs  *)
(* that process's kernel thread until the thread calls sched() again.      *)
(* pc[c] says where CPU c is:                                              *)
(*   "idle"   scheduler() between release and acquire of ptable.lock       *)
(*   "scan"   scheduler() holding ptable.lock, scanning from slot pos[c]   *)
(*   "resume" the process cproc[c] has just been switched to and still     *)
(*            holds ptable.lock (it returns from sched() or enters         *)
(*            forkret)                                                     *)
(*   "user"   the process runs without ptable.lock (user code, syscalls)  *)
(*   "fork"   the process is inside fork() between allocproc and making    *)
(*            the child RUNNABLE; child[c] is the EMBRYO slot              *)
(*   "sched"  the process holds ptable.lock and is about to swtch back to *)
(*            the scheduler                                                *)
(* ctx[s] is where the kernel thread of slot s resumes when it is next     *)
(* switched to (the saved p->context).                                     *)
(*                                                                         *)
(* A critical section of ptable.lock that ends in release() is one step;  *)
(* one that ends in sched() leaves the lock held and pc = "sched".        *)
(***************************************************************************)
EXTENDS Naturals, FiniteSets

CONSTANTS
    NPROC,      \* size of ptable.proc
    CPU,        \* the CPUs, each running scheduler()
    NoCpu,      \* ptable.lock is free
    MaxPid      \* bound on nextpid (a model bound; the code's is 2^31)

ASSUME NPROCAssumption == NPROC \in Nat \ {0}
ASSUME CPUAssumption == NoCpu \notin CPU
ASSUME MaxPidAssumption == MaxPid \in Nat \ {0}
\* mycpu() panics unless the running CPU is one of cpus[0..ncpu-1].
ASSUME CPUNonEmpty == CPU # {}

Slot == 1..NPROC
SlotOrNull == 0..NPROC

\* initproc: userinit's allocproc takes the first UNUSED slot.
InitSlot == 1

\* Sleep channels: a slot (wait() sleeps on curproc), &ticks, or none (0).
TicksChan == NPROC + 1
Chan == 0..NPROC + 1

States == {"UNUSED", "EMBRYO", "SLEEPING", "RUNNABLE", "RUNNING", "ZOMBIE"}
Resumes == {"none", "forkret", "yield", "sleep", "wait"}
PCs == {"idle", "scan", "resume", "user", "fork", "sched"}


VARIABLES
    state,      \* p->state
    pid,        \* p->pid
    parent,     \* p->parent (slot or 0)
    killed,     \* p->killed
    chan,       \* p->chan
    ctx,        \* where p's kernel thread resumes
    nextpid,    \* nextpid
    lock,       \* holder of ptable.lock, or NoCpu
    cproc,      \* c->proc (slot or 0)
    pc,         \* where CPU c is (see above)
    pos,        \* scheduler()'s loop variable p on CPU c
    child,      \* fork()'s np on CPU c
    rbTree      \* the global struct rbtree rbTree

procVars == <<state, pid, parent, killed, chan, ctx, nextpid>>
cpuVars == <<lock, cproc, pc, pos, child>>
vars == <<state, pid, parent, killed, chan, ctx, nextpid,
          lock, cproc, pc, pos, child, rbTree>>

TreeRec == [length : Nat, period : Nat, total_weight : Nat,
            root : SlotOrNull, min_vruntime : SlotOrNull]

-----------------------------------------------------------------------------
(* Boot: pinit() (treeinit is an empty stub, so rbTree keeps the zeroes of *)
(* its static storage), userinit() putting initproc in slot 1, then every  *)
(* CPU entering scheduler() with c->proc = 0.                              *)
Init ==
    /\ state = [s \in Slot |-> IF s = InitSlot THEN "RUNNABLE" ELSE "UNUSED"]
    /\ pid = [s \in Slot |-> IF s = InitSlot THEN 1 ELSE 0]
    /\ parent = [s \in Slot |-> 0]
    /\ killed = [s \in Slot |-> FALSE]
    /\ chan = [s \in Slot |-> 0]
    /\ ctx = [s \in Slot |-> IF s = InitSlot THEN "forkret" ELSE "none"]
    /\ nextpid = 2
    /\ lock = NoCpu
    /\ cproc = [c \in CPU |-> 0]
    /\ pc = [c \in CPU |-> "idle"]
    /\ pos = [c \in CPU |-> 1]
    /\ child = [c \in CPU |-> 0]
    /\ rbTree = [length |-> 0, period |-> 0, total_weight |-> 0,
                 root |-> 0, min_vruntime |-> 0]

-----------------------------------------------------------------------------
(* wakeup1(ch): every slot SLEEPING on ch becomes RUNNABLE.               *)
Wakeup1(st, ch) ==
    [s \in Slot |-> IF st[s] = "SLEEPING" /\ chan[s] = ch
                       THEN "RUNNABLE" ELSE st[s]]

(* s is the first slot in lo..NPROC satisfying P: the `for` loops of the   *)
(* code stop at the first match.                                           *)
FirstIn(s, lo, S) == s \in S /\ \A t \in lo..(s - 1) : t \notin S

-----------------------------------------------------------------------------
(* scheduler(): acquire ptable.lock and start scanning at slot 1.         *)
SchedAcquire(c) ==
    /\ pc[c] = "idle"
    /\ lock = NoCpu
    /\ lock' = c
    /\ pc' = [pc EXCEPT ![c] = "scan"]
    /\ pos' = [pos EXCEPT ![c] = 1]
    /\ UNCHANGED <<procVars, cproc, child, rbTree>>

(* scheduler(): the first RUNNABLE slot at or after pos[c] is switched to; *)
(* it becomes RUNNING and its kernel thread resumes holding the lock.      *)
Dispatch(c) ==
    /\ pc[c] = "scan"
    /\ \E s \in pos[c]..NPROC :
          /\ FirstIn(s, pos[c], {t \in Slot : state[t] = "RUNNABLE"})
          /\ cproc' = [cproc EXCEPT ![c] = s]
          /\ state' = [state EXCEPT ![s] = "RUNNING"]
          /\ pos' = [pos EXCEPT ![c] = s]
          /\ pc' = [pc EXCEPT ![c] = "resume"]
    /\ UNCHANGED <<pid, parent, killed, chan, ctx, nextpid, lock, child, rbTree>>

(* scheduler(): no RUNNABLE slot is left after pos[c]; release the lock.   *)
SchedRelease(c) ==
    /\ pc[c] = "scan"
    /\ \A t \in pos[c]..NPROC : state[t] # "RUNNABLE"
    /\ lock' = NoCpu
    /\ pc' = [pc EXCEPT ![c] = "idle"]
    /\ UNCHANGED <<procVars, cproc, pos, child, rbTree>>

(* Mutants of Sched: the scheduler skips the slot after the one that    *)
(* returned, or rescans from the same slot instead of the next one.       *)
SchedSkipTwo(c) ==
    /\ pc[c] = "sched"
    /\ lock = c
    /\ state[cproc[c]] # "RUNNING"
    /\ cproc' = [cproc EXCEPT ![c] = 0]
    /\ pc' = [pc EXCEPT ![c] = "scan"]
    /\ pos' = [pos EXCEPT ![c] = pos[c] + 2]
    /\ UNCHANGED <<procVars, lock, child, rbTree>>

SchedNoAdvance(c) ==
    /\ pc[c] = "sched"
    /\ lock = c
    /\ state[cproc[c]] # "RUNNING"
    /\ cproc' = [cproc EXCEPT ![c] = 0]
    /\ pc' = [pc EXCEPT ![c] = "scan"]
    /\ UNCHANGED <<procVars, lock, pos, child, rbTree>>

(* sched(): the running process, holding only ptable.lock and no longer   *)
(* RUNNING, swtches to the scheduler, which sets c->proc = 0 and goes on  *)
(* scanning after the slot it had switched to.                            *)
Sched(c) ==
    /\ pc[c] = "sched"
    /\ lock = c
    /\ state[cproc[c]] # "RUNNING"
    /\ cproc' = [cproc EXCEPT ![c] = 0]
    /\ pc' = [pc EXCEPT ![c] = "scan"]
    /\ pos' = [pos EXCEPT ![c] = pos[c] + 1]
    /\ UNCHANGED <<procVars, lock, child, rbTree>>

(* forkret, or the return from sched() in yield() or sleep(): release     *)
(* ptable.lock (sleep() also clears p->chan) and go back to user code.    *)
ResumeRelease(c) ==
    LET p == cproc[c] IN
    /\ pc[c] = "resume"
    /\ ctx[p] \in {"forkret", "yield", "sleep"}
    /\ chan' = IF ctx[p] = "sleep" THEN [chan EXCEPT ![p] = 0] ELSE chan
    /\ ctx' = [ctx EXCEPT ![p] = "none"]
    /\ lock' = NoCpu
    /\ pc' = [pc EXCEPT ![c] = "user"]
    /\ UNCHANGED <<state, pid, parent, killed, nextpid, cproc, pos, child, rbTree>>

-----------------------------------------------------------------------------
(* Mutant of WaitScan: the scan reaps any ZOMBIE, not only p's children. *)
WaitScanAnyZombie(c, p, ch) ==
    LET kids == {q \in Slot : parent[q] = p}
        zombies == {q \in Slot : state[q] = "ZOMBIE"}
    IN  \/ \E q \in zombies :
              /\ FirstIn(q, 1, zombies)
              /\ state' = [state EXCEPT ![q] = "UNUSED"]
              /\ pid' = [pid EXCEPT ![q] = 0]
              /\ parent' = [parent EXCEPT ![q] = 0]
              /\ killed' = [killed EXCEPT ![q] = FALSE]
              /\ chan' = ch
              /\ ctx' = [ctx EXCEPT ![p] = "none"]
              /\ lock' = NoCpu
              /\ pc' = [pc EXCEPT ![c] = "user"]
        \/ /\ zombies = {}
           /\ kids = {} \/ killed[p]
           /\ UNCHANGED <<state, pid, parent, killed>>
           /\ chan' = ch
           /\ ctx' = [ctx EXCEPT ![p] = "none"]
           /\ lock' = NoCpu
           /\ pc' = [pc EXCEPT ![c] = "user"]
        \/ /\ zombies = {}
           /\ kids # {}
           /\ ~killed[p]
           /\ UNCHANGED <<pid, parent, killed>>
           /\ chan' = [ch EXCEPT ![p] = p]
           /\ state' = [state EXCEPT ![p] = "SLEEPING"]
           /\ ctx' = [ctx EXCEPT ![p] = "wait"]
           /\ lock' = c
           /\ pc' = [pc EXCEPT ![c] = "sched"]

(* Mutant of WaitScan: the havekids test is dropped, so a process with no *)
(* children sleeps instead of returning -1.                                *)
WaitScanNoHaveKids(c, p, ch) ==
    LET kids == {q \in Slot : parent[q] = p}
        zombies == {q \in kids : state[q] = "ZOMBIE"}
    IN  \/ \E q \in zombies :
              /\ FirstIn(q, 1, zombies)
              /\ state' = [state EXCEPT ![q] = "UNUSED"]
              /\ pid' = [pid EXCEPT ![q] = 0]
              /\ parent' = [parent EXCEPT ![q] = 0]
              /\ killed' = [killed EXCEPT ![q] = FALSE]
              /\ chan' = ch
              /\ ctx' = [ctx EXCEPT ![p] = "none"]
              /\ lock' = NoCpu
              /\ pc' = [pc EXCEPT ![c] = "user"]
        \/ /\ zombies = {}
           /\ killed[p]
           /\ UNCHANGED <<state, pid, parent, killed>>
           /\ chan' = ch
           /\ ctx' = [ctx EXCEPT ![p] = "none"]
           /\ lock' = NoCpu
           /\ pc' = [pc EXCEPT ![c] = "user"]
        \/ /\ zombies = {}
           /\ ~killed[p]
           /\ UNCHANGED <<pid, parent, killed>>
           /\ chan' = [ch EXCEPT ![p] = p]
           /\ state' = [state EXCEPT ![p] = "SLEEPING"]
           /\ ctx' = [ctx EXCEPT ![p] = "wait"]
           /\ lock' = c
           /\ pc' = [pc EXCEPT ![c] = "sched"]

(* Mutant of WaitScan: the return -1 path forgets release(&ptable.lock). *)
WaitScanKeepsLock(c, p, ch) ==
    LET kids == {q \in Slot : parent[q] = p}
        zombies == {q \in kids : state[q] = "ZOMBIE"}
    IN  \/ \E q \in zombies :
              /\ FirstIn(q, 1, zombies)
              /\ state' = [state EXCEPT ![q] = "UNUSED"]
              /\ pid' = [pid EXCEPT ![q] = 0]
              /\ parent' = [parent EXCEPT ![q] = 0]
              /\ killed' = [killed EXCEPT ![q] = FALSE]
              /\ chan' = ch
              /\ ctx' = [ctx EXCEPT ![p] = "none"]
              /\ lock' = NoCpu
              /\ pc' = [pc EXCEPT ![c] = "user"]
        \/ /\ zombies = {}
           /\ kids = {} \/ killed[p]
           /\ UNCHANGED <<state, pid, parent, killed>>
           /\ chan' = ch
           /\ ctx' = [ctx EXCEPT ![p] = "none"]
           /\ lock' = c
           /\ pc' = [pc EXCEPT ![c] = "user"]
        \/ /\ zombies = {}
           /\ kids # {}
           /\ ~killed[p]
           /\ UNCHANGED <<pid, parent, killed>>
           /\ chan' = [ch EXCEPT ![p] = p]
           /\ state' = [state EXCEPT ![p] = "SLEEPING"]
           /\ ctx' = [ctx EXCEPT ![p] = "wait"]
           /\ lock' = c
           /\ pc' = [pc EXCEPT ![c] = "sched"]

(* One pass of wait()'s loop by process p on CPU c, holding ptable.lock:  *)
(* reap the first ZOMBIE child; else return -1 if p has no children or is *)
(* killed; else sleep(curproc, &ptable.lock). ch is p->chan on entry.   *)
WaitScan(c, p, ch) ==
    LET kids == {q \in Slot : parent[q] = p}
        zombies == {q \in kids : state[q] = "ZOMBIE"}
    IN  \/ \E q \in zombies :
              /\ FirstIn(q, 1, zombies)
              /\ state' = [state EXCEPT ![q] = "UNUSED"]
              /\ pid' = [pid EXCEPT ![q] = 0]
              /\ parent' = [parent EXCEPT ![q] = 0]
              /\ killed' = [killed EXCEPT ![q] = FALSE]
              /\ chan' = ch
              /\ ctx' = [ctx EXCEPT ![p] = "none"]
              /\ lock' = NoCpu
              /\ pc' = [pc EXCEPT ![c] = "user"]
        \/ /\ zombies = {}
           /\ kids = {} \/ killed[p]
           /\ UNCHANGED <<state, pid, parent, killed>>
           /\ chan' = ch
           /\ ctx' = [ctx EXCEPT ![p] = "none"]
           /\ lock' = NoCpu
           /\ pc' = [pc EXCEPT ![c] = "user"]
        \/ /\ zombies = {}
           /\ kids # {}
           /\ ~killed[p]
           /\ UNCHANGED <<pid, parent, killed>>
           /\ chan' = [ch EXCEPT ![p] = p]
           /\ state' = [state EXCEPT ![p] = "SLEEPING"]
           /\ ctx' = [ctx EXCEPT ![p] = "wait"]
           /\ lock' = c
           /\ pc' = [pc EXCEPT ![c] = "sched"]

(* wait() called from user code: acquire ptable.lock and scan.            *)
Wait(c) ==
    /\ pc[c] = "user"
    /\ lock = NoCpu
    /\ WaitScan(c, cproc[c], chan)
    /\ UNCHANGED <<nextpid, cproc, pos, child, rbTree>>

(* wait() woken from its sleep: sleep() clears p->chan and returns with   *)
(* ptable.lock still held, and the loop scans again.                      *)
ResumeWait(c) ==
    LET p == cproc[c] IN
    /\ pc[c] = "resume"
    /\ ctx[p] = "wait"
    /\ WaitScan(c, p, [chan EXCEPT ![p] = 0])
    /\ UNCHANGED <<nextpid, cproc, pos, child, rbTree>>

-----------------------------------------------------------------------------
(* Mutant of Yield: ptable.lock released before sched().                 *)
YieldReleasingLock(c) ==
    LET p == cproc[c] IN
    /\ pc[c] = "user"
    /\ lock = NoCpu
    /\ state' = [state EXCEPT ![p] = "RUNNABLE"]
    /\ ctx' = [ctx EXCEPT ![p] = "yield"]
    /\ lock' = NoCpu
    /\ pc' = [pc EXCEPT ![c] = "sched"]
    /\ UNCHANGED <<pid, parent, killed, chan, nextpid, cproc, pos, child, rbTree>>

(* yield(), from the timer trap: RUNNABLE, then sched().                  *)
Yield(c) ==
    LET p == cproc[c] IN
    /\ pc[c] = "user"
    /\ lock = NoCpu
    /\ state' = [state EXCEPT ![p] = "RUNNABLE"]
    /\ ctx' = [ctx EXCEPT ![p] = "yield"]
    /\ lock' = c
    /\ pc' = [pc EXCEPT ![c] = "sched"]
    /\ UNCHANGED <<pid, parent, killed, chan, nextpid, cproc, pos, child, rbTree>>

(* sys_sleep(): not killed, so sleep(&ticks, &tickslock) takes ptable.lock *)
(* and goes to sleep on &ticks.                                            *)
SysSleep(c) ==
    LET p == cproc[c] IN
    /\ pc[c] = "user"
    /\ lock = NoCpu
    /\ ~killed[p]
    /\ chan' = [chan EXCEPT ![p] = TicksChan]
    /\ state' = [state EXCEPT ![p] = "SLEEPING"]
    /\ ctx' = [ctx EXCEPT ![p] = "sleep"]
    /\ lock' = c
    /\ pc' = [pc EXCEPT ![c] = "sched"]
    /\ UNCHANGED <<pid, parent, killed, nextpid, cproc, pos, child, rbTree>>

(* The timer interrupt's wakeup(&ticks), taken by a CPU with interrupts   *)
(* enabled: in user code or in scheduler() after sti().                   *)
Tick(c) ==
    /\ pc[c] \in {"user", "idle"}
    /\ lock = NoCpu
    /\ state' = Wakeup1(state, TicksChan)
    /\ UNCHANGED <<pid, parent, killed, chan, ctx, nextpid, cpuVars, rbTree>>

(* kill(k): the first slot whose pid is k gets killed = 1 and, if it      *)
(* sleeps, becomes RUNNABLE. No such slot: return -1, nothing changes.    *)
Kill(c, k) ==
    /\ pc[c] = "user"
    /\ lock = NoCpu
    /\ \E s \in Slot :
          /\ FirstIn(s, 1, {t \in Slot : pid[t] = k})
          /\ killed' = [killed EXCEPT ![s] = TRUE]
          /\ state' = [state EXCEPT ![s] = IF @ = "SLEEPING" THEN "RUNNABLE" ELSE @]
    /\ UNCHANGED <<pid, parent, chan, ctx, nextpid, cpuVars, rbTree>>

(* Mutants of Exit: the children are not passed to initproc; the parent  *)
(* is not woken.                                                           *)
ExitNoReparent(c) ==
    LET p == cproc[c]
        st1 == Wakeup1(state, parent[p])
    IN
    /\ pc[c] = "user"
    /\ lock = NoCpu
    /\ p # InitSlot
    /\ state' = [st1 EXCEPT ![p] = "ZOMBIE"]
    /\ lock' = c
    /\ pc' = [pc EXCEPT ![c] = "sched"]
    /\ UNCHANGED <<pid, parent, killed, chan, ctx, nextpid, cproc, pos, child, rbTree>>

ExitNoWakeParent(c) ==
    LET p == cproc[c]
        kids == {q \in Slot : parent[q] = p}
        st2 == IF \E q \in kids : state[q] = "ZOMBIE"
                  THEN Wakeup1(state, InitSlot) ELSE state
    IN
    /\ pc[c] = "user"
    /\ lock = NoCpu
    /\ p # InitSlot
    /\ parent' = [q \in Slot |-> IF q \in kids THEN InitSlot ELSE parent[q]]
    /\ state' = [st2 EXCEPT ![p] = "ZOMBIE"]
    /\ lock' = c
    /\ pc' = [pc EXCEPT ![c] = "sched"]
    /\ UNCHANGED <<pid, killed, chan, ctx, nextpid, cproc, pos, child, rbTree>>

(* Mutant of Exit: the slot is freed at once instead of left a ZOMBIE.   *)
ExitFreesSlot(c) ==
    LET p == cproc[c]
        kids == {q \in Slot : parent[q] = p}
        st1 == Wakeup1(state, parent[p])
        st2 == IF \E q \in kids : state[q] = "ZOMBIE"
                  THEN Wakeup1(st1, InitSlot) ELSE st1
    IN
    /\ pc[c] = "user"
    /\ lock = NoCpu
    /\ p # InitSlot
    /\ parent' = [q \in Slot |-> IF q \in kids THEN InitSlot ELSE parent[q]]
    /\ state' = [st2 EXCEPT ![p] = "UNUSED"]
    /\ lock' = c
    /\ pc' = [pc EXCEPT ![c] = "sched"]
    /\ UNCHANGED <<pid, killed, chan, ctx, nextpid, cproc, pos, child, rbTree>>

(* exit() of any process but initproc (which panics): wake the parent,    *)
(* give the children to initproc (waking it if one is a ZOMBIE), become   *)
(* ZOMBIE and sched().                                                     *)
Exit(c) ==
    LET p == cproc[c]
        kids == {q \in Slot : parent[q] = p}
        st1 == Wakeup1(state, parent[p])
        st2 == IF \E q \in kids : state[q] = "ZOMBIE"
                  THEN Wakeup1(st1, InitSlot) ELSE st1
    IN
    /\ pc[c] = "user"
    /\ lock = NoCpu
    /\ p # InitSlot
    /\ parent' = [q \in Slot |-> IF q \in kids THEN InitSlot ELSE parent[q]]
    /\ state' = [st2 EXCEPT ![p] = "ZOMBIE"]
    /\ lock' = c
    /\ pc' = [pc EXCEPT ![c] = "sched"]
    /\ UNCHANGED <<pid, killed, chan, ctx, nextpid, cproc, pos, child, rbTree>>

(* Mutant of ForkAlloc: p->pid = nextpid without the increment.           *)
ForkAllocSamePid(c) ==
    /\ pc[c] = "user"
    /\ lock = NoCpu
    /\ nextpid <= MaxPid
    /\ \E s \in Slot :
          /\ FirstIn(s, 1, {t \in Slot : state[t] = "UNUSED"})
          /\ state' = [state EXCEPT ![s] = "EMBRYO"]
          /\ pid' = [pid EXCEPT ![s] = nextpid]
          /\ child' = [child EXCEPT ![c] = s]
    /\ nextpid' = nextpid
    /\ pc' = [pc EXCEPT ![c] = "fork"]
    /\ UNCHANGED <<parent, killed, chan, ctx, lock, cproc, pos, rbTree>>

(* fork(): allocproc() takes the first UNUSED slot under ptable.lock, makes *)
(* it EMBRYO with pid nextpid++ and releases the lock. A full table       *)
(* returns -1 and changes nothing.                                        *)
ForkAlloc(c) ==
    /\ pc[c] = "user"
    /\ lock = NoCpu
    /\ nextpid <= MaxPid
    /\ \E s \in Slot :
          /\ FirstIn(s, 1, {t \in Slot : state[t] = "UNUSED"})
          /\ state' = [state EXCEPT ![s] = "EMBRYO"]
          /\ pid' = [pid EXCEPT ![s] = nextpid]
          /\ child' = [child EXCEPT ![c] = s]
    /\ nextpid' = nextpid + 1
    /\ pc' = [pc EXCEPT ![c] = "fork"]
    /\ UNCHANGED <<parent, killed, chan, ctx, lock, cproc, pos, rbTree>>

(* fork(): kalloc() in allocproc or copyuvm() fails; the slot is set back *)
(* to UNUSED without the lock, keeping its pid, and fork returns -1.      *)
ForkFail(c) ==
    /\ pc[c] = "fork"
    /\ state' = [state EXCEPT ![child[c]] = "UNUSED"]
    /\ child' = [child EXCEPT ![c] = 0]
    /\ pc' = [pc EXCEPT ![c] = "user"]
    /\ UNCHANGED <<pid, parent, killed, chan, ctx, nextpid, lock, cproc, pos, rbTree>>

(* Mutant of ForkDone: the child's context is not pointed at forkret.    *)
ForkDoneNoForkret(c) ==
    LET s == child[c] IN
    /\ pc[c] = "fork"
    /\ lock = NoCpu
    /\ parent' = [parent EXCEPT ![s] = cproc[c]]
    /\ state' = [state EXCEPT ![s] = "RUNNABLE"]
    /\ child' = [child EXCEPT ![c] = 0]
    /\ pc' = [pc EXCEPT ![c] = "user"]
    /\ UNCHANGED <<pid, killed, chan, ctx, nextpid, lock, cproc, pos, rbTree>>

(* fork(): the child is set up (np->parent = curproc) and made RUNNABLE   *)
(* under ptable.lock; it will start in forkret.                           *)
ForkDone(c) ==
    LET s == child[c] IN
    /\ pc[c] = "fork"
    /\ lock = NoCpu
    /\ parent' = [parent EXCEPT ![s] = cproc[c]]
    /\ state' = [state EXCEPT ![s] = "RUNNABLE"]
    /\ ctx' = [ctx EXCEPT ![s] = "forkret"]
    /\ child' = [child EXCEPT ![c] = 0]
    /\ pc' = [pc EXCEPT ![c] = "user"]
    /\ UNCHANGED <<pid, killed, chan, nextpid, lock, cproc, pos, rbTree>>

-----------------------------------------------------------------------------
Next ==
    \E c \in CPU :
        \/ SchedAcquire(c) \/ Dispatch(c) \/ SchedRelease(c) \/ Sched(c)
        \/ ResumeRelease(c) \/ ResumeWait(c)
        \/ Wait(c) \/ Yield(c) \/ SysSleep(c) \/ Tick(c) \/ Exit(c)
        \/ \E k \in 0..MaxPid : Kill(c, k)
        \/ ForkAlloc(c) \/ ForkFail(c) \/ ForkDone(c)

Spec == Init /\ [][Next]_vars

-----------------------------------------------------------------------------
(* Every step that fairness covers is only weakly fair. Once the scheduler *)
(* holds the lock, or a switched-to thread resumes, nothing can stop it.  *)
(* acquire() spins on xchg, which promises nothing to a CPU that finds the *)
(* lock free only now and then: it wins only if the lock stays free. The   *)
(* timer trap's yield() is taken by a process that stays in user code with *)
(* the lock free.                                                          *)
Fairness ==
    \A c \in CPU :
        /\ WF_vars(SchedAcquire(c))
        /\ WF_vars(Dispatch(c)) /\ WF_vars(SchedRelease(c)) /\ WF_vars(Sched(c))
        /\ WF_vars(ResumeRelease(c)) /\ WF_vars(ResumeWait(c))
        /\ WF_vars(Yield(c))

FairSpec == Spec /\ Fairness

-----------------------------------------------------------------------------
(***************************************************************************)
(* Properties                                                              *)
(***************************************************************************)

TypeOK ==
    /\ state \in [Slot -> States]
    /\ pid \in [Slot -> 0..MaxPid]
    /\ parent \in [Slot -> SlotOrNull]
    /\ killed \in [Slot -> BOOLEAN]
    /\ chan \in [Slot -> Chan]
    /\ ctx \in [Slot -> Resumes]
    /\ nextpid \in 2..MaxPid + 1
    /\ lock \in CPU \cup {NoCpu}
    /\ cproc \in [CPU -> SlotOrNull]
    /\ pc \in [CPU -> PCs]
    /\ pos \in [CPU -> 1..NPROC + 1]
    /\ child \in [CPU -> SlotOrNull]
    /\ rbTree \in TreeRec

(* No process is the current process of two CPUs, and every RUNNING       *)
(* process is some CPU's current process: scheduler() only switches to a  *)
(* RUNNABLE process, and yield/sleep/exit keep ptable.lock from setting    *)
(* p->state until the swtch in sched() has left p's stack.                *)
RunsOnOneCpu ==
    /\ \A c1, c2 \in CPU :
          c1 # c2 /\ cproc[c1] # 0 => cproc[c1] # cproc[c2]
    /\ \A s \in Slot : state[s] = "RUNNING" => \E c \in CPU : cproc[c] = s

(* Every live process other than initproc has a parent that is alive and  *)
(* not a zombie: exit() hands its children to initproc before it becomes  *)
(* a ZOMBIE, and wait() only frees a child after that. Otherwise a zombie  *)
(* could be left with nobody to reap it.                                   *)
ParentIsLive ==
    \A s \in Slot \ {InitSlot} :
        state[s] \in {"SLEEPING", "RUNNABLE", "RUNNING", "ZOMBIE"} =>
            /\ parent[s] \in Slot
            /\ state[parent[s]] \in {"SLEEPING", "RUNNABLE", "RUNNING"}

(* No lost wakeup between exit() and wait(): a process asleep in wait()    *)
(* (sleeping on its own proc) never has a ZOMBIE child, because exit()    *)
(* wakes the parent, and initproc for a reparented zombie, under the same *)
(* ptable.lock that wait() holds from its scan to its sleep.              *)
NoLostWakeup ==
    \A p \in Slot :
        state[p] = "SLEEPING" /\ chan[p] = p =>
            \A q \in Slot : parent[q] = p => state[q] # "ZOMBIE"

(* A process asleep in wait() has a child that is still alive, and whose  *)
(* exit() will wake it: wait() sleeps only after finding children, and a   *)
(* child of a sleeping parent leaves it only by becoming a ZOMBIE, which   *)
(* wakes the parent. Without this a parent could sleep with nobody left to *)
(* wake it.                                                                *)
WaitHasChild ==
    \A p \in Slot :
        state[p] = "SLEEPING" /\ chan[p] = p =>
            \E q \in Slot : parent[q] = p /\ state[q] \in {"SLEEPING", "RUNNABLE", "RUNNING"}

(* A process that scheduler() may switch to, and the process a CPU is     *)
(* switching into, has a saved context to resume at: forkret for a new    *)
(* child, the sched() of yield, sleep or wait for the others. A swtch to a *)
(* slot without one would leave its CPU with nothing to run.               *)
ContextSaved ==
    /\ \A s \in Slot : state[s] \in {"RUNNABLE", "SLEEPING"} => ctx[s] # "none"
    /\ \A c \in CPU : pc[c] = "resume" => ctx[cproc[c]] # "none"

(* The kernel never deadlocks: in every state some CPU can take a step.   *)
(* Each disjunct is the guard of steps of Next: with ptable.lock free an   *)
(* idle scheduler acquires it or the timer ticks; a scanning scheduler     *)
(* dispatches or releases; fork() can always fail; a resumed process with *)
(* a saved context returns from sched() or forkret; and a process in      *)
(* sched() that is no longer RUNNING swtches back to the scheduler. A     *)
(* leaked lock or a swtch to a slot without a context stops every CPU.    *)
SomeCpuCanStep ==
    \E c \in CPU :
        \/ lock = NoCpu /\ pc[c] \in {"idle", "user"}
        \/ pc[c] \in {"scan", "fork"}
        \/ pc[c] = "resume" /\ ctx[cproc[c]] # "none"
        \/ pc[c] = "sched" /\ lock = c /\ state[cproc[c]] # "RUNNING"

(* No two slots carry the same pid (0 is no pid). kill() and getprocinfo() *)
(* act on the first slot whose pid matches, so a pid shared by two slots,  *)
(* e.g. the stale pid a failed fork() leaves on a freed slot, would send   *)
(* them to the wrong process. nextpid only grows, so this needs the pid    *)
(* of every slot, freed ones included, to stay below nextpid.              *)
UniquePids ==
    \A s, t \in Slot : s # t /\ pid[s] = pid[t] => pid[s] = 0

(* A ZOMBIE stops being one only in a step taken while its parent is the  *)
(* current process of some CPU, in user code or returning from sleep: the *)
(* places wait() runs from. No kill, wakeup, scheduler step or allocproc, *)
(* which run whoever the parent is and wherever it is, may take a ZOMBIE's *)
(* slot. The model does not record which CPU takes a step, so this does    *)
(* not say the reaping CPU is the parent's: a reap by another process on   *)
(* a second CPU, while the parent runs in user code, also satisfies it.     *)
ReapByParent ==
    [][\A q \in Slot :
          state[q] = "ZOMBIE" /\ state'[q] # "ZOMBIE" =>
              \E c \in CPU : cproc[c] = parent[q] /\ pc[c] \in {"user", "resume"}]_vars

(* Every RUNNABLE process is eventually switched to: scheduler()'s scan   *)
(* goes round the table, and the timer makes running processes yield.     *)
RunnableRuns ==
    \A s \in Slot : state[s] = "RUNNABLE" ~> state[s] = "RUNNING"

(* kill(pid) kills the process with that pid: a process that fork()       *)
(* allocates is never born already killed.                                *)
NoInheritedKill ==
    [][\A s \in Slot : state[s] = "UNUSED" /\ state'[s] = "EMBRYO" => ~killed'[s]]_vars

-----------------------------------------------------------------------------
(***************************************************************************)
(* Refinement of the process life cycle of ProcLifecycle. CPU c runs       *)
(* c->proc while that process is RUNNING; in sched() and in scheduler()    *)
(* it runs nothing.                                                        *)
(***************************************************************************)
Run == [c \in CPU |-> IF cproc[c] \in Slot /\ state[cproc[c]] = "RUNNING"
                        THEN cproc[c] ELSE 0]

Life == INSTANCE ProcLifecycle WITH run <- Run

(* Every step of the kernel is a step of the life cycle or leaves it       *)
(* alone: a slot changes procstate only along the arrows of proc.h's enum, *)
(* only a free CPU dispatches, and only the CPU that runs a process stops  *)
(* it (yield, sleep, exit, wait), possibly waking sleepers as it does.     *)
Refines == Life!Spec

-----------------------------------------------------------------------------
(***************************************************************************)
(* The inductive invariant behind TypeOK and RunsOnOneCpu (proved in       *)
(* ProcProofs).                                                            *)
(***************************************************************************)
OnCpu == {"resume", "user", "fork", "sched"}
HoldsLock == {"scan", "resume", "sched"}

(* While a CPU runs a process, scheduler()'s loop variable is that slot.  *)
PosIsCurrent ==
    \A c \in CPU : pc[c] \in OnCpu => cproc[c] \in Slot /\ pos[c] = cproc[c]

TypeInv == TypeOK /\ PosIsCurrent

(* A CPU in the scheduler's critical section, or in a process between     *)
(* the swtch and the release, is the holder of ptable.lock.               *)
LockOwner == \A c \in CPU : pc[c] \in HoldsLock => lock = c

(* ptable.lock is never leaked: whenever it is held, its holder is in     *)
(* scheduler()'s scan, in a process between the swtch and the release    *)
(* (forkret, the return from sched, wait's rescan), or in sched(). Every   *)
(* path back to user code (wait()'s three exits, forkret, yield, sleep)    *)
(* releases it; one that did not would leave every CPU spinning in        *)
(* acquire().                                                              *)
LockNotLeaked == lock # NoCpu => pc[lock] \in HoldsLock

(* c->proc is null exactly while the CPU is in scheduler().               *)
IdleNull == \A c \in CPU : pc[c] \in {"idle", "scan"} => cproc[c] = 0

(* A CPU's process is RUNNING until it gives the CPU up in sched().       *)
CurrentRunning ==
    \A c \in CPU : pc[c] \in {"resume", "user", "fork"} => state[cproc[c]] = "RUNNING"
CurrentYielded ==
    \A c \in CPU : pc[c] = "sched" => state[cproc[c]] # "RUNNING"

(* fork()'s child is an EMBRYO owned by one CPU.                          *)
ChildEmbryo ==
    /\ \A c \in CPU : pc[c] = "fork" => child[c] \in Slot /\ state[child[c]] = "EMBRYO"
    /\ \A c1, c2 \in CPU :
          c1 # c2 /\ pc[c1] = "fork" /\ pc[c2] = "fork" => child[c1] # child[c2]

IInv ==
    /\ TypeInv
    /\ LockOwner
    /\ IdleNull
    /\ CurrentRunning
    /\ CurrentYielded
    /\ ChildEmbryo
    /\ RunsOnOneCpu

=============================================================================
