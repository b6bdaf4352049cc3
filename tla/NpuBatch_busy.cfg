\* Two processes: the cores are busy when the second submits.
SPECIFICATION Spec
CONSTANTS
    p1 = p1  p2 = p2
    Procs = {p1, p2}
    NTiles = 1
    Irqs <- MCIrqs
    MayTimeOut = FALSE
    NoJob = NoJob
INVARIANT CoreRunsItsJob
