SPECIFICATION Spec
CONSTANTS
    w = w  x = x  y = y  z = z
    NULL = NULL
    PAGE_SZ = 80
    MaxPages = 2
    ListMax <- Lengths
    Vars = {x, y, z}
    Requests <- Bytes
SYMMETRY AnyVariable
INVARIANT RegionsDisjoint
