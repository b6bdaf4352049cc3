\* Two weights of one shape that agree in their first 16 bytes.
SPECIFICATION Spec
CONSTANTS
    b1 = b1  b2 = b2
    wA = wA  wB = wB  wC = wC  wD = wD  wO = wO
    square = square  wide = wide  odd = odd
    h0 = h0  hA = hA  hB = hB  hC = hC  hD = hD  hJ = hJ
    Buffers = {b1, b2}
    Weights = {wA, wB}
    Junk = Junk
    NoWeight = NoWeight
    Shapes = {square, wide}
    NoShape = NoShape
    Templates = {square, wide}
    Decomposed = square
    ShapeOf <- MCShapeSame
    Heads = {h0, hA, hB, hC, hD, hJ}
    Head <- MCHeadSame
    ZeroHead = h0
    NWPre = 2
    MaxNw = 4
    MaxClients = 1
SYMMETRY BufferSymmetry
INVARIANT ResultIsOfW
