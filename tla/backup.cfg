SPECIFICATION FairSpec
CONSTANTS
    Files = {f1, f2}
    Texts = {x, y}
    Absent = Absent
    LastDay = 1
    MaxEdits = 2
    MaxFaults = 2
    Multipart = {y}
CHECK_DEADLOCK FALSE
INVARIANTS
    TypeOK
    PassMirrors
PROPERTIES
    EventuallyMirrored
