\* Expected violation of NoInheritedKill: 3 slots, 2 CPUs, pids up to 5.
CONSTANTS
    NPROC = 3
    MaxPid = 5
    c1 = c1
    c2 = c2
    CPU <- MCCPU
    NoCpu = NoCpu
SPECIFICATION Spec
PROPERTY NoInheritedKill
