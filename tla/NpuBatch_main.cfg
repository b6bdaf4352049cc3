\* One process, two tiles, and allocations that fail.
SPECIFICATION Spec
CONSTANTS
    p1 = p1
    Procs = {p1}
    NTiles = 2
    Irqs <- MCIrqs
    MayTimeOut = FALSE
    NoJob = NoJob
INVARIANTS TypeOK CoreRunsItsJob SumsAreWhole DomainHeld
PROPERTY RunEnds
