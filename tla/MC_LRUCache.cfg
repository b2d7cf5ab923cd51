CONSTANTS
    k1 = k1  k2 = k2  k3 = k3  k4 = k4
    v1 = v1  v2 = v2
    n1 = n1  n2 = n2  n3 = n3  n4 = n4
    NIL = NIL
    Keys <- MC_Keys
    Values <- MC_Values
    Nodes <- MC_Nodes
    Capacity = 3
SPECIFICATION HSpec
INVARIANTS TypeOK ListInv WithinCapacity ByRecency
PROPERTY ImplementsLRU
SYMMETRY Symmetry
