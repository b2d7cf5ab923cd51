CONSTANTS
    u1 = u1  u2 = u2  u3 = u3
    p1 = p1  p2 = p2
    NIL = NIL
    Uids <- MC_Uids
    Places <- MC_Places
    Capacity = 2
    MaxFound = 2
    Strategies = {TRUE}
SPECIFICATION Spec
INVARIANT IdsAreStored
SYMMETRY Symmetry
