CONSTANTS
    p1 = p1
    p2 = p2
    a1 = a1
    a2 = a2
    f = f
    none = none
    Programs <- MCPrograms
    Addresses <- MCAddresses
    Prints <- MCPrints
    MaxKeys = 2
    MaxLines = 2
SPECIFICATION Spec
SYMMETRY Symmetry
INVARIANTS
    TypeOK
    AcceptedWasConfirmed
    OnePin
