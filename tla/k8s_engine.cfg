SPECIFICATION Spec
CONSTANTS
    Clients = {u1, u2}
    Secrets = {s1, s2}
    Keys = {k1, k2}
    Whole = Whole
    Contents = {x, y}
    Absent = Absent
    Partial = Partial
    None = None
    Requests <- AllRequests
    MaxCalls = 4
SYMMETRY Symmetry
CHECK_DEADLOCK FALSE
INVARIANTS
    TypeOK
    
PROPERTY
    ImplementsVault
