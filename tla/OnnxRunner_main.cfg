\* Graphs of two nodes, and a program that executes more than once.
SPECIFICATION Spec
CONSTANTS
    Elements <- MCElements
    KElem = 49152
    BroadcastShape <- MCBroadcast
    MatMulShape <- MCMatMul
    ConcatShape <- MCConcat
    TransposeShape <- MCTranspose
    Templates <- MCTemplates
    InputLists <- MCInputLists
    Nodes <- MCNodes
    MaxNodes = 2
    Precisions = {"float16", "int8"}
    Callers = {"runner", "program"}
    ProgramOps = {"Sub"}
    ProgramArgs = {"1x64x768", "64x768", "1x100x768"}
INVARIANTS TypeOK ValuesCorrect OkIsWhole ScratchInStep
