\* Every tree shape and colouring over at most 5 nodes; max_nodes up to 6.
CONSTANTS
    N = 5
    MaxReq = 6
SPECIFICATION Spec
INVARIANT BalancedIsRedBlack
INVARIANT NodesSorted
