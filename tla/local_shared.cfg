SPECIFICATION Spec
CONSTANTS
    u1 = u1
    u2 = u2
    n1 = n1
    n2 = n2
    n3 = n3
    n4 = n4
    d1 = d1
    Clients = {u1, u2}
    Notes = {n1, n2}
    Dirs = {d1}
    Root = Root
    Parent <- InNamespace
    Contents <- TwoTexts
    Absent = Absent
    None = None
    Requests <- SharedRequests
    MaxCalls = 4
SYMMETRY Symmetry
CHECK_DEADLOCK FALSE
INVARIANTS
    TypeOK
    OneNamePerFile
    EmptyOnlyDuringSaves
