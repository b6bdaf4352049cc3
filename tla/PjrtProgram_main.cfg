\* Functions of up to three operations of every kind.
SPECIFICATION Spec
CONSTANTS
    Chunks <- MCChunks
    DotShape <- MCDotShape
    Templates <- MCTemplates
    ArgLists <- MCArgLists
    TracedOps = {"subtract", "maximum", "tanh", "dot_general", "constant",
                 "broadcast_in_dim", "relu_call", "npu_cached_mm"}
    MaxOps = 3
    BodyCap = 30
    GraphCap = 16
INVARIANTS
    TypeOK
    FusedCorrect
    SingleCorrect
    FusableAccepted
