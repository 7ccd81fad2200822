SPECIFICATION Spec
CONSTANTS
    Recorders = {p1, p2}
    Channels = {c1}
    Cap = 1
    MaxEntries = 2
    Persistent = TRUE
    WriteFaults = {}
SYMMETRY Symmetry
CHECK_DEADLOCK FALSE
INVARIANT
    RecordNeverFails
