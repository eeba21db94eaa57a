\* Safety of the process table: 3 slots, 2 CPUs, pids up to 5.
CONSTANTS
    NPROC = 3
    MaxPid = 5
    c1 = c1
    c2 = c2
    CPU <- MCCPU
    NoCpu = NoCpu
SYMMETRY CpuSymmetry
SPECIFICATION Spec
INVARIANT TypeOK
INVARIANT RunsOnOneCpu
INVARIANT ParentIsLive
INVARIANT NoLostWakeup
INVARIANT UniquePids
INVARIANT WaitHasChild
INVARIANT LockNotLeaked
INVARIANT ContextSaved
INVARIANT SomeCpuCanStep
PROPERTY Refines
PROPERTY ReapByParent
