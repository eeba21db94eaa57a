\* Expected violation of NodesBounded: trees of at most 3 nodes.
CONSTANTS
    N = 3
    MaxReq = 3
SPECIFICATION Spec
INVARIANT NodesBounded
