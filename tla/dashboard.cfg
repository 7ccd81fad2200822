SPECIFICATION DSpec
CONSTANTS
    Capability <- Table
    Matched <- Meaning
    Starred <- Prefixes
    RowOf <- Parts
    Covers <- Reach
    Within <- Stands
    Account = "*"
    Key <- Spelling
    Users <- People
    Policies = {"p", "q"}
    Broken = Broken
    None = None
    PolicyDirs <- Dirs
    Declarations <- Sayings
    Attached <- AtBackend
    BucketMap <- TeamBuckets
    Buckets = {"lobby"}
    MaxChanges = 1
    Pages = {p1}
    RoleGroup <- Groups
    OpaDocs <- Served
    Catalogs = {"demo"}
INVARIANTS
    DashboardTypeOK
    NothingLeftQueued
    CardsAgree
    CardIsHonest
    DriftTells
