SPECIFICATION Spec
CONSTANTS
    NoW = NoW
    Xs = {x1}
    Ws = {w1}
    NSlots = 1
    Templates <- MCTemplates
    Environments <- MCEnvironments
    Fillers = {19}
    Extras = {2}
    LowRoles = {3, 4}
    AbortAfter <- MCAbortAfter
INVARIANTS
    OnlyAddressesMove
