\* Liveness of the scheduler under the fairness of FairSpec:
\* 3 slots, 2 CPUs, pids up to 3. No symmetry (unsound for liveness).
CONSTANTS
    NPROC = 3
    MaxPid = 3
    c1 = c1
    c2 = c2
    CPU <- MCCPU
    NoCpu = NoCpu
SPECIFICATION FairSpec
PROPERTY RunnableRuns
