SPECIFICATION Spec
CONSTANTS
    Ops = {"relu", "tanh", "sub"}
    Inputs <- MCInputs
    MaxCalls = 5
    FailAt = {3}
    LeakFrom = {131072, 16777216}
CHECK_DEADLOCK FALSE
INVARIANTS
    TypeOK
    ResultRight
    WritesOwnBOs
PROPERTIES
    CompileFirstInPlace
