SPECIFICATION Spec
CONSTANTS
    Users = {u1, u2}
    Notes = {n1, n2}
    Texts = {x, y}
    Absent = Absent
    None = None
    Cut = Cut
    System = System
    Requests <- AllRequests
    MaxCalls = 4
    Existing = {n1}
    Faults = TRUE
SYMMETRY Symmetry
CHECK_DEADLOCK FALSE
INVARIANTS
    TypeOK
    OnlyOwnPaths
    CommittedUnlessPending
    WrongAuthorsWereWaiting
