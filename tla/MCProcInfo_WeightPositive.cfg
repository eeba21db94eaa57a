\* compute_weight's missing return: any value the build leaves, here 0.
CONSTANTS
    NPROC = 3
    MaxPid = 5
    c1 = c1
    CPU <- MCCPU1
    NoCpu = NoCpu
    Indeterminate <- MCIndeterminate
SPECIFICATION InfoSpec
INVARIANT WeightPositive
