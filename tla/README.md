# TLA+ models of the xv6 CFS scheduler

These modules model the process table, the scheduler and the run-queue
diagnostics of this xv6 tree: `src/proc.c`, `src/xv6-public/sysproc.c` and
`src/xv6-public/proc.h`. TLC checks them on small instances, and TLAPS proves
the safety properties of the process table and of getprocinfo for every
size of the table, every set of CPUs and every pid bound.

## The system and how its parts interact

`spec.md` describes four parts of a CFS-style scheduler:
- a weight model (nice value to weight);
- an augmented red-black run-queue tree keyed by vruntime;
- a policy (period, time slice, preemption);
- lifecycle hooks that put RUNNABLE processes in the tree and take the
  dispatched one out.

In this source, all of the weight, tree and policy functions are empty stubs:
compute_weight, setnice, treeinit, full, the rotations, minproc, insertproc,
deleteproc, fixinsert, add_to_tree, fixdelete, next_process and
should_preempt (`src/proc.c` 162-259). Nothing calls them. What the kernel
actually runs is:

| part | code | what it does |
|---|---|---|
| process lifecycle and scheduler | `proc.c`: allocproc, userinit, fork, exit, wait, scheduler, sched, yield, forkret, sleep, wakeup1, wakeup, kill | the xv6 round-robin scheduler. Each CPU's `scheduler()` scans `ptable` for RUNNABLE slots under `ptable.lock`. A process gives up the CPU through `sched()`, still holding the lock, which the scheduler releases. |
| sleep system call | `sysproc.c`: sys_sleep | sleep on `&ticks`, woken by the timer's `wakeup(&ticks)` |
| tree diagnostics | `proc.c`: treebalanced, check_rb_tree_properties; `sysproc.c`: sys_gettreenodes, collect_rb_tree_nodes, sys_treebalanced | read-only walks of `runnable_tasks` |
| introspection | gettreeinfo, getprocinfo, sys_gettreeinfo, sys_getprocinfo | copy fields out, no state change; getprocinfo scans `ptable` under the lock |

How the parts interact:
- CPUs interact only through `ptable.lock` and the `proc` slots.
- The timer interacts through `wakeup(&ticks)`, and through the `yield()` it
  forces on a RUNNING process.
- The diagnostics read the tree, which nothing writes.

## Modules

| module | models | theorems |
|---|---|---|
| `Proc` | the process table, the CPUs and `ptable.lock` | (ASSUMEs only) |
| `ProcLifecycle` | what the table promises: the life of a slot and the process each CPU runs | |
| `MCProc` | `Proc` with two model-value CPUs and CPU symmetry | |
| `ProcProofs` | proofs about `Proc` | TypeCorrect, OneCpu |
| `ProcRefinementProofs` | Proc implements ProcLifecycle | Refinement |
| `ProcPidProofs` | pids are unique | PidsUnique |
| `ProcWakeupProofs` | exit/wait: no lost wakeup, live parents, reaping by the parent, a child for every waiter | WakeupNotLost, ParentsLive, ReapsOwnChild, WaitSleeperHasChild |
| `ProcLockProofs` | `ptable.lock` is never leaked, contexts are saved, some CPU can always step | LockNeverLeaked, ContextsSaved, NeverStuck |
| `ProcInfo` | `Proc` composed with getprocinfo, gettreeinfo and p->weight | (ASSUME only) |
| `MCProcInfo` | `ProcInfo` with one CPU | |
| `ProcInfoProofs` | proofs about `ProcInfo` | InfoTyped, InfoLookupSound, InfoKeepsProc |
| `TreeDiag` | treebalanced and gettreenodes over all small trees | none (recursive, TLC only) |

### Proc: state

- Per slot (`Slot == 1..NPROC`): `state`, `pid`, `parent`, `killed`, `chan`,
  and `ctx`. `ctx` says where the slot's kernel thread resumes when it is next
  switched to: `forkret`, after `sched()` in `yield`, in `sleep` (from
  sys_sleep), or in `wait`'s loop.
- Global: `nextpid`, `lock` (the holder of `ptable.lock`, or `NoCpu`), and
  `rbTree`.
- Per CPU: `cproc` (`c->proc`), and `pc`, the place of the CPU:

| `pc` | where the CPU is | lock held? |
|---|---|---|
| `idle` | in scheduler() | no |
| `scan` | in scheduler()'s loop | yes |
| `resume` | switched into a process | yes |
| `user` | in the process outside the kernel critical sections | no |
| `fork` | inside fork() between allocproc and the final RUNNABLE | no |
| `sched` | in sched() | yes |

- `pos`: scheduler()'s loop variable.
- `child`: fork's `np`.

Channels are modelled as follows. A process sleeping in wait() sleeps on its
own slot number. `&ticks` is `TicksChan`. Channel 0 means not sleeping.

### Proc: actions

Each action is one critical section of the code. It is atomic because it
runs under `ptable.lock`, and its guard is `lock = NoCpu` when it acquires the
lock:

| action | code |
|---|---|
| SchedAcquire | the top of scheduler()'s loop |
| Dispatch | the scan to the first RUNNABLE slot at or after `pos`, and the switch |
| SchedRelease | the end of the scan |
| Sched | swtch back: `c->proc = 0`, continue after the slot |
| ResumeRelease | forkret, or the release after sched() in yield or sys_sleep's sleep (sleep clears `chan`) |
| Wait / ResumeWait | one pass of wait()'s loop (`WaitScan`): reap the first ZOMBIE child, return -1, or sleep on itself |
| Yield | yield() |
| SysSleep | sys_sleep's sleep(&ticks) when not killed |
| Tick | wakeup(&ticks) |
| Kill | kill(k), k in 0..MaxPid |
| Exit | exit(): wake the parent, reparent to initproc, ZOMBIE, sched() |
| ForkAlloc | allocproc's locked part |
| ForkFail | the *unlocked* `np->state = UNUSED` of a failed kalloc or copyuvm |
| ForkDone | fork's final locked `np->state = RUNNABLE` |

"First match" loops are the guard `FirstIn(s, lo, S)`: s is in S and no
earlier slot is.

What the model leaves out:
- Memory, files, trap frames and names.
- The weight and vruntime fields: nothing computes them.
- sys_sleep's loop over `ticks`. A process that wakes early simply calls
  SysSleep again.

### ProcLifecycle and the refinement

`ProcLifecycle` states what the process table promises without the lock,
the scan positions or the pids. Its variables are `state` and `run`, the slot
each CPU runs (0 for none). Its actions are:
- `Alloc` (UNUSED to EMBRYO), `Abandon` (back to UNUSED) and `Admit` (to
  RUNNABLE): allocproc, fork's failure path, fork's end;
- `Dispatch(c, s)`: a RUNNABLE slot is given to a CPU that runs nothing;
- `Stop(c, ns, W)`: the process on c becomes RUNNABLE, SLEEPING or ZOMBIE, and
  the sleepers W are woken in the same step (exit wakes its parent and
  initproc);
- `Wake(W)`: wakeup and kill;
- `Reap`: wait frees a ZOMBIE.

`Proc` maps to it by `Run`: `Run[c]` is `c->proc` while that process is
RUNNING, else 0. So a CPU in sched() has already stopped running its process
in the abstract view. `Refines == Life!Spec` is checked by TLC as a PROPERTY of
MCProc and proved by TLAPS. The scheduler's own steps (acquire, release, the
return to the loop) and the lock releases are stutters.

### ProcInfo

ProcInfo extends Proc with two variables:
- `weight`, p->weight;
- `info` and `tinfo`, the last replies of sys_getprocinfo and sys_gettreeinfo
  on each CPU.

Its actions:
- `AllocWeight` is ForkAlloc together with allocproc's
  `p->weight = compute_weight(...)`. compute_weight has no return statement,
  so the stored value is a choice from the constant `Indeterminate`. `InitInfo`
  does the same for userinit.
- `SysGetProcInfo(c, k)` is the locked first-match scan of getprocinfo. It
  replies -1 or 0. The reply also records two observer fields: the reported
  slot's state, and the live slots with pid k.
- `SysGetTreeInfo(c)` reads the tree summary without the lock.
- Every other Proc action leaves the new variables unchanged (`ProcStep`).

### TreeDiag

TreeDiag enumerates every binary search tree over keys `1..n` (n ≤ N) with
every colouring. Node numbers are in-order ranks, as a vruntime-ordered tree
has them.

It translates:
- `check_rb_tree_properties` as `CheckRB`, returning the result paired with
  `*path_black_count`;
- `treebalanced`;
- `collect_rb_tree_nodes` as `Collect`, returning the sequence written to
  `nodes[]`.

Both functions are recursive in the code, so TreeDiag uses RECURSIVE
operators, and no theorem is stated in it.

## Runs

| run | cfg | checks | result |
|---|---|---|---|
| MCProc | `MCProc.cfg` | TypeOK, RunsOnOneCpu, ParentIsLive, NoLostWakeup, UniquePids, WaitHasChild, LockNotLeaked, ContextSaved, SomeCpuCanStep, Refines, ReapByParent | pass: about 327k distinct states, every action fires |
| MCProcLive | `MCProcLive.cfg` | RunnableRuns under `FairSpec` | pass |
| MCProc_NoInheritedKill | `MCProc_NoInheritedKill.cfg` | NoInheritedKill | violation (finding) |
| MCProcInfo | `MCProcInfo.cfg` | InfoTypeOK, InfoFindsLive | pass: about 2.4M distinct states |
| MCProcInfo_InfoNamesLive | `MCProcInfo_InfoNamesLive.cfg` | InfoNamesLive | violation (finding) |
| MCProcInfo_WeightPositive | `MCProcInfo_WeightPositive.cfg` | WeightPositive | violation (finding) |
| TreeDiag | `TreeDiag.cfg` | BalancedIsRedBlack, NodesSorted | pass |
| TreeDiag_NodesBounded | `TreeDiag_NodesBounded.cfg` | NodesBounded | violation (finding) |

What the properties say:
- **RunsOnOneCpu**: no slot is `c->proc` of two CPUs, and every RUNNING slot
  is some CPU's `c->proc`. This fails if any of yield, sleep or exit lets go
  of the lock before swtch. The mutant `YieldReleasingLock` does exactly that.
- **ParentIsLive**: every live non-init process has a live, non-zombie
  parent, so exit()'s reparenting is complete.
- **NoLostWakeup**: a process asleep in wait() has no ZOMBIE child. This
  needs exit()'s wakeup1 of the parent and of initproc, and wait()'s scan and
  sleep under one lock hold.
- **WaitHasChild**: a process asleep in wait() has a live child, whose
  exit() will wake it. With NoLostWakeup this says a waiter is neither
  beside an unreaped zombie nor waiting for a child that does not exist.
  The mutant `WaitScanNoHaveKids` drops the `!havekids` return of wait().
- **UniquePids**: no two slots share a pid other than 0. kill() and
  getprocinfo() act on the first slot with a pid, so a duplicate would make
  them hit the wrong process. The mutant `ForkAllocSamePid` drops the
  increment of nextpid.
- **Refines**: every step is a ProcLifecycle step or a stutter. The mutant
  `ExitFreesSlot` makes exit free its slot instead of leaving a ZOMBIE.
- **ReapByParent** (action property): a slot leaves ZOMBIE only in a step
  taken while its parent is the current process of some CPU, in user code
  or returning from sleep. Those are the places wait() runs from. exit() may
  pass a zombie to initproc first, but no kill, wakeup, scheduler step or
  allocproc may take it.
  - The model does not record which CPU takes a step. So the property does
    not say the reaping CPU is the parent's. A second CPU reaping while the
    parent runs in user code also satisfies it.
  - The mutant `WaitScanAnyZombie` drops the `p->parent != curproc` test.
    TLC still catches it, with a reap while the parent is not running.
- **LockNotLeaked**: a held `ptable.lock` is held by a CPU in `scan`,
  `resume` or `sched`. It is the converse of LockOwner. Every exit from a
  critical section must release the lock: wait()'s reap, its return -1,
  forkret, the returns from sched() and scheduler()'s release. The mutant
  `WaitScanKeepsLock` drops the release of wait()'s return -1.
- **ContextSaved**: every RUNNABLE or SLEEPING slot, and the slot a CPU is
  resuming, has a saved context (`ctx # "none"`). allocproc points a child
  at forkret, and yield, sleep and wait save theirs before sched(). The
  mutant `ForkDoneNoForkret` makes a child RUNNABLE without one.
- **SomeCpuCanStep**: some CPU satisfies the guard of one of its steps. The
  guards are these:
  - with the lock free, an idle or user CPU can step;
  - a scanning scheduler or a CPU in fork() can step;
  - a resumed process with a saved context can step;
  - a process in sched() that is no longer RUNNING can step.

  TLC checked that this implies `ENABLED Next` in every reachable state.
  It is the invariant form of deadlock freedom, and the part of it that
  TLAPS can prove. The mutant `WaitScanKeepsLock` also breaks it: the lock
  holder is in user code, and every other CPU waits for the lock.
- **RunnableRuns**: every RUNNABLE slot is eventually RUNNING.
- **InfoFindsLive**: getprocinfo of a live process's pid reports that
  process. It is not confused by a freed slot that keeps a failed fork's pid.
- **InfoNamesLive** and **WeightPositive**: violated; see the findings.

Bounds:
- Three slots are enough for a parent, a child and a grandchild. That covers
  reparenting to initproc, a zombie grandchild, and two CPUs running two
  processes while a third is runnable.
- `MaxPid = 5` leaves room for several fork/exit/reap rounds, so slot reuse
  (and the stale pid of `ForkFail`) happens.
- NPROC = 4 takes several minutes; nothing new appears at that size.
- ProcInfo uses one CPU. getprocinfo is a single locked read, so a second CPU
  adds interleavings of Proc that MCProc already covers. Three slots are needed
  for a live process and a freed slot with a stale pid at once.
- Trees of up to 5 nodes include every red-red and black-height failure at
  depth 2 and 3.

Each property of a passing run has a mutant in `PROJECT.json`: a plausible bug
in the code under which TLC finds the property violated.

### Fairness

`Fairness` in `Proc` is weak fairness on every step it covers:
- Dispatch, SchedRelease, Sched, ResumeRelease and ResumeWait. Once a CPU
  holds the lock in scheduler(), or has been switched into a process,
  nothing else can stop it from taking that step.
- SchedAcquire. acquire() spins on xchg, which gives no fairness between
  contending CPUs. Weak fairness asks only that a CPU whose acquire stays
  enabled, with the lock free, eventually takes it. A CPU that keeps losing
  the lock is allowed.
- Yield. trap.c calls yield() on the timer tick of a RUNNING process. Weak
  fairness asks only that a process that stays in user code, with the lock
  free, is eventually preempted.

RunnableRuns holds even under these weak assumptions. They allow one CPU
to lose the lock for ever, so TLC checks that case instead of assuming it
away: dispatch never depends on which CPU wins the lock.

No fairness is assumed for fork, exit, wait, kill or sleep: these are user
choices. CPU symmetry is used only in the safety run.

## Findings

1. **Inherited kill** (`proc.c:700`, `proc.c:288`).
   - `kill(0)` marks an UNUSED slot killed. So does a kill of the pid that a
     failed fork left on a freed slot.
   - allocproc never clears `killed`, so the next child is born killed.
   - TLC's trace: Kill(0), then ForkAlloc.
2. **gettreenodes overruns max_nodes** (`sysproc.c:182`).
   - The bound is tested only on entry, so a node is written after its full
     left subtree.
   - With `max_nodes = 2`, three records are written to a buffer checked for
     two.

3. **getprocinfo reports dead slots** (`proc.c:89`).
   - getprocinfo matches `p->pid == pid` over every slot, UNUSED ones
     included.
   - getprocinfo(0) succeeds on a free slot, and so does the pid a failed fork
     left behind.
   - The spec says such a pid is NotFound, and test_weights.c trusts a 0
     return.
4. **compute_weight returns nothing** (`proc.c:164`).
   - allocproc stores an indeterminate int as p->weight.
   - With a 0 there, getprocinfo reports weight 0 for initproc. The spec says
     weight is at least 1, and 1024 at nice 0.

## Proofs

All theorems hold for every `NPROC ∈ Nat \ {0}`, `MaxPid ∈ Nat \ {0}` and set
`CPU` not containing `NoCpu`. NeverStuck also uses `CPUNonEmpty`
(`CPU # {}`). These are the ASSUMEs of Proc, which TLC evaluates on every
run.

- **TypeCorrect**: `Spec => []TypeOK`. TypeOK alone is not inductive: Sched
  increments `pos[c]`, which stays in range only because a CPU in a process
  has `pos[c] = cproc[c]`. So the proof goes through
  `TypeInv == TypeOK /\ PosIsCurrent`:
  - `TypeInvInit`;
  - `TypeInvNext`, one step per action, split per changed variable;
  - the lemmas `Wakeup1Type` and `WaitScanType`.
- **OneCpu**: `Spec => []RunsOnOneCpu`, through the inductive invariant
  `IInv`. IInv is TypeInv and RunsOnOneCpu together with:
  - `LockOwner`: a CPU in `scan`, `resume` or `sched` holds the lock;
  - `IdleNull`: `c->proc = 0` in scheduler();
  - `CurrentRunning`: a CPU in a process runs a RUNNING process;
  - `CurrentYielded`: in sched() it is no longer RUNNING;
  - `ChildEmbryo`: fork's children are distinct EMBRYOs.

  These conjuncts are needed because Dispatch makes a RUNNABLE slot RUNNING.
  It is not another CPU's process because:
  - a CPU running a process has it RUNNING, not RUNNABLE;
  - a CPU in sched(), whose process may be RUNNABLE, would hold the lock that
    the dispatching CPU holds.

  The lemmas `EnterSched`, `ReturnUser`, `StateFrame`, `ChildEmbryoKeep` and
  `ForkEnd` factor the common shapes of a step: giving the CPU to sched(),
  returning to user code, waking slots, leaving fork's children alone, and
  ending fork. Each action's case first derives the shape of its step, then
  applies one of these lemmas. TLC checked IInv as an invariant of the MCProc
  instance before it was proved.
- **Refinement** (`ProcRefinementProofs`): `Spec => Refines`.
  - `Init` maps to `Life!Init`.
  - `RefineNext` shows `IInv /\ [Next]_vars => [Life!Next]_Life!vars`, one
    case per action. The scheduler's steps and the lock releases are
    stutters. Dispatch is `Life!Dispatch`. Yield, sleep, exit and wait's
    sleep are `Stop`. Tick and kill are `Wake`. The fork steps are Alloc,
    Abandon and Admit. Wait's reap is `Reap`.
  - IInv is what makes the mapping work. IdleNull and LockOwner give
    `Run[c] = 0` at a dispatch, and that no other CPU has the dispatched slot
    as c->proc. CurrentRunning gives the RUNNING process that `Stop` takes
    off. RunsOnOneCpu says only c's entry of Run changes.
  - The lemmas `RunSame`, `RunStop`, `StopLife`, `WakeLife`, `SlotQuiet` and
    `WaitLife` are those shapes in the abstract view.
- **LifeExclusive**: `Spec => []Life!Exclusive`.
  - ProcLifecycle keeps `Exclusive` on its own. `LifeInv == TypeOK /\
    Exclusive` is inductive for `Life!Next`.
  - The theorem combines that with Refinement, so the promise of the
    abstract spec holds of the kernel model.
- **PidsUnique** (`ProcPidProofs`): `Spec => []UniquePids`. UniquePids is not
  inductive, because allocproc's new pid must differ from all others. The
  proof therefore carries `PidFresh` (every pid is below nextpid). Only
  ForkAlloc and wait's reap write pids.
- **WakeupNotLost** (`ProcWakeupProofs`): `Spec => []NoLostWakeup`.
  - NoLostWakeup is not inductive alone. exit() wakes the slots sleeping on
    `parent[p]`, and that is p's parent only if `parent[p] # p`. Its children
    go to initproc, which must not be one of them.
  - So `WInv` adds `ParentNotSelf`, `InitParentless`, `InitLive` (initproc is
    never a zombie or free) and `IInv`.
  - `Calm` covers every step that makes no new ZOMBIE, no new sleeper on
    its own slot, and changes no parent. `WaitWake` covers the three outcomes
    of a wait() pass. `ExitWake` covers exit. Its argument: a sleeping x with
    a new zombie child q is either p's parent, which exit woke, or initproc
    with a reparented zombie, which exit also woke. Otherwise q was already a
    zombie child of x.
- **ParentsLive**: `Spec => []ParentIsLive`, through `PInv == WInv /\
  ParentIsLive`. `ParentFrame` covers steps that keep slots within the live
  states or within UNUSED/EMBRYO. ForkDone gives the child its RUNNING
  parent. Exit reparents to initproc, which is live by `InitLive`. A reaped
  ZOMBIE is nobody's parent by ParentIsLive itself.

- **ReapsOwnChild** (`ProcWakeupProofs`): `Spec => ReapByParent`, an action
  property. It needs only IInv. `ReapNext` shows
  `IInv /\ [Next]_vars => [ReapOK]_vars`, where ReapOK is the body of the
  property. Each action other than wait() changes only slots that are
  RUNNABLE (Dispatch), RUNNING (yield, sleep, exit, by CurrentRunning),
  SLEEPING (wakeups, kill), EMBRYO (fork's end, by ChildEmbryo) or UNUSED
  (allocproc). `ZombieFrame` turns that into ReapOK. `WaitScanReap` covers
  wait()'s pass: its reap frees a zombie among the children of `cproc[c]`,
  and that CPU is in `user` or `resume`.
- **WaitSleeperHasChild** (`ProcWakeupProofs`): `Spec => []WaitHasChild`,
  through `KInv == PInv /\ OrphanFree /\ WaitHasChild`.
  - `OrphanFree` says a free or EMBRYO slot has parent 0. It is needed
    because wait()'s scan counts any slot whose parent field is p as a
    child. So the child it finds must be live, not a freed slot that kept a
    parent. Only ForkDone sets a parent, on the slot it makes RUNNABLE, and
    wait()'s reap clears it as it frees the slot.
  - `KidFrame` covers the steps that keep slots within the live states or
    within UNUSED/EMBRYO and make no new sleeper in wait().
  - `WaitKid` covers the three outcomes of a wait() pass. A sleep happens
    only with a child that is not a ZOMBIE, hence live by OrphanFree.
  - `ExitKid` covers exit: a sleeper whose live child was the exiting p is
    p's parent, so exit() woke it, and any other sleeper keeps its children.
- **LockNeverLeaked**, **ContextsSaved** and **NeverStuck**
  (`ProcLockProofs`).
  - They prove `Spec => []LockNotLeaked`, `Spec => []ContextSaved` and
    `Spec => []SomeCpuCanStep`, all through
    `LInv == IInv /\ LockNotLeaked /\ ContextSaved`. TLC checked LInv on
    the MCProc instance first.
  - `LockStep` is the lock argument. A step either releases the lock, takes
    it while entering a critical section, or leaves the lock alone without
    moving its holder out of one.
  - fork()'s failure path has no lock guard. It needs LockNotLeaked itself:
    a CPU in `fork` is not in a critical section, so it does not hold the
    lock.
  - `CtxKeep`, `CtxSet` and `CtxClear` are the three ways a step treats
    saved contexts. ResumeRelease and wait()'s returns discard the context
    of the RUNNING process on c. RunsOnOneCpu (`OthersResumeOthers`) shows
    that no other CPU is resuming that process.
  - NeverStuck follows from LInv, `CurrentYielded`, `LockOwner` and the
    assumption `CPUNonEmpty`: mycpu() panics on a machine without a CPU.
    When the lock is free, each CPU is idle, in user code or in fork().
    When it is held, its holder can step.
- **InfoKeepsProc** (`ProcInfoProofs`): `InfoSpec => Spec`. Adding the
  two system calls and p->weight changes no behaviour of the process table,
  so every theorem about Proc's `Spec` holds of the composed spec.
- **InfoTyped** and **InfoLookupSound** (`ProcInfoProofs`):
  `InfoSpec => []InfoTypeOK` and `InfoSpec => []InfoFindsLive`, also for every
  set `Indeterminate` of values compute_weight may leave (nonempty, of
  integers). `InfoStepIsProc` shows that every step of the composed spec is
  a step of Proc or leaves its variables alone. So the Proc lemmas `IInvNext`,
  `PidInvNext` and `LivePidNext` carry over. The inductive invariant is
  `InfoInv == IInv /\ PidFresh /\ UniquePids /\ LivePid /\ ReplyDomains
  /\ InfoTypeOK /\ InfoFindsLive`.
  - `LivePid` (in ProcPidProofs) says a slot in use has a nonzero pid. Only
    wait()'s reap writes pid 0, and it frees the slot in the same step.
    allocproc writes `nextpid >= 2`.
  - `LookupLive` is the heart of the argument. If t is live with pid k,
    then k is not 0, so t is the only slot with pid k, and getprocinfo's
    first match is t.
  - TLC checked InfoInv on the MCProcInfo instance before it was proved.
    The proof needs no assumption on the pids that a failed fork leaves on
    freed slots. UniquePids already covers them, because PidFresh counts
    freed slots too.

Only model-checked:
- The liveness property RunnableRuns. TLAPS cannot reason about fairness or
  ENABLED.
- That SomeCpuCanStep's guards really enable `Next`, i.e. deadlock freedom
  itself. This is an ENABLED fact. TLC checks it: MCProc checks deadlock.
- Everything in TreeDiag. Its RECURSIVE operators keep tlapm's SMT backend
  away, and what a recursive definition computes for all inputs would need
  induction over data, which the installed provers cannot instantiate.

## Not modelled

- setnice and the policy: their functions are empty. compute_weight's
  missing return is modelled in ProcInfo.
- The tree operations: empty; `rbTree` stays the zeroed static struct.
  So the spec's run queue of RUNNABLE processes, with
  `period = max(latency, n * min_granularity)`, never exists. No run checks
  this: a property about a constant would only restate that the functions
  are empty.
- procdump, growproc, mycpu and myproc: read-only or not about scheduling.
- The argint, argptr and copyout failure paths of the system calls: they
  return -1 and change nothing that is modelled.
- The user test programs.
- nextpid overflow: reaching it needs 2^31 forks.

The hazards list in `PROJECT.json` says, for each risk in the code, which
property covers it or why none does.
