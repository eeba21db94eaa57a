\* getprocinfo of pid 0, or of a failed fork's pid, on a free slot.
CONSTANTS
    NPROC = 3
    MaxPid = 5
    c1 = c1
    CPU <- MCCPU1
    NoCpu = NoCpu
    Indeterminate = {1024}
SPECIFICATION InfoSpec
INVARIANT InfoNamesLive
