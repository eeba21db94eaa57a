\* getprocinfo over the process table: 3 slots, 1 CPU, pids up to 5.
\* Here compute_weight happens to return the right value.
CONSTANTS
    NPROC = 3
    MaxPid = 5
    c1 = c1
    CPU <- MCCPU1
    NoCpu = NoCpu
    Indeterminate = {1024}
SPECIFICATION InfoSpec
INVARIANT InfoTypeOK
INVARIANT InfoFindsLive
