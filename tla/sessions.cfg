SPECIFICATION SSpec
CONSTANTS
    Admins = {s1, s2}
    Maps <- TwoMaps
    NoMap = NoMap
    Absent = Absent
    None = None
    MaxSets = 3
    Browsers = {b1}
    Users = {u1}
    Groups = {"root", "ops"}
    RoleGroups <- Lists
    TeamName <- Naming
    Org <- Orgs
    NoName <- Nobody
    Parts = 2
    TTL = 1
    MaxTime = 2
    MaxKeys = 1
SYMMETRY Requests
CONSTRAINT SetsEarly
CHECK_DEADLOCK FALSE
INVARIANTS
    SessionsTypeOK
    SetsAreDurable
    SessionIsHonoured
    ActsWithinAGrant
