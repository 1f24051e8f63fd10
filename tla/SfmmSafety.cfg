SPECIFICATION Spec
CONSTANTS
    w = w  x = x  y = y  z = z
    NULL = NULL
    PAGE_SZ = 80
    MaxPages = 2
    ListMax <- Lengths
    Vars = {w, x, y, z}
    Requests <- Bytes
SYMMETRY AnyVariable
CONSTRAINT Sound
INVARIANT TypeOK
INVARIANT HeapIsTiled
INVARIANT ListsHoldTheFree
INVARIANT HeldAreAllocated
INVARIANT NullIsJustified
INVARIANT GoodFreeReturns
