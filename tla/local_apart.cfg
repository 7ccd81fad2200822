SPECIFICATION Spec
CONSTANTS
    u1 = u1
    u2 = u2
    n1 = n1
    n2 = n2
    n3 = n3
    n4 = n4
    d1 = d1
    Clients = {u1, u2}
    Notes = {n1, n2, n3, n4}
    Dirs = {d1}
    Root = Root
    Parent <- InRootOrNamespace
    Contents <- OneText
    Absent = Absent
    None = None
    Requests <- ApartRequests
    MaxCalls = 4
CHECK_DEADLOCK FALSE
PROPERTY
    ImplementsVault
