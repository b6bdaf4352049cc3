SPECIFICATION Spec
CONSTANTS
    a1 = a1
    a2 = a2
    w0 = w0
    Fds <- MCFds
    Handles <- MCHandles
    Arrays <- MCArrays
    Weights = {w0}
    MaxLost = 1
    Garbage = {0, 4}
SYMMETRY Symmetry
CHECK_DEADLOCK FALSE
INVARIANTS
    TypeOK
    FdsOwned
    HeldBosLive
    NothingElseLeaks
