\* Three weights of one shape for two slots, one of another shape and one of a
\* shape without a captured kernel.
SPECIFICATION Spec
CONSTANTS
    b1 = b1  b2 = b2
    wA = wA  wB = wB  wC = wC  wD = wD  wO = wO
    square = square  wide = wide  odd = odd
    h0 = h0  hA = hA  hB = hB  hC = hC  hD = hD  hJ = hJ
    Buffers = {b1, b2}
    Weights = {wA, wB, wC, wD, wO}
    Junk = Junk
    NoWeight = NoWeight
    Shapes = {square, wide, odd}
    NoShape = NoShape
    Templates = {square, wide}
    Decomposed = square
    ShapeOf <- MCShapeOf
    Heads = {h0, hA, hB, hC, hD, hJ}
    Head <- MCHead
    ZeroHead = h0
    NWPre = 2
    MaxNw = 4
    MaxClients = 1
SYMMETRY BufferSymmetry
INVARIANTS TypeOK CacheCoherent CopiedOnce ResultIsOfW
PROPERTY KeyedSlotsStable
