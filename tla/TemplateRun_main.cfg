SPECIFICATION Spec
CONSTANTS
    NoW = NoW
    Xs = {x1, x2}
    Ws = {w1, w2}
    NSlots = 2
    Templates <- MCTemplates
    Environments <- MCEnvironments
    Fillers = {19}
    Extras = {2}
    LowRoles = {3, 4}
    AbortAfter <- MCAbortAfter
SYMMETRY Permuted
INVARIANTS
    TypeOK
    AccessInsideBO
    ChainFollowsTable
    SlotWordsFound
PROPERTIES
    Implements
