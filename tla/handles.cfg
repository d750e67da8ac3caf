SPECIFICATION Spec
CONSTANTS
    t = t
    u = u
    x = x
    y = y
    z = z
    Threads = {t, u}
    Objects = {x, y, z}
SYMMETRY Symmetry
CHECK_DEADLOCK FALSE
INVARIANTS
    HandlesInv
    OneOwner
    NoUseAfterFree
