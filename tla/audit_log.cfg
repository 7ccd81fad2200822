SPECIFICATION FairSpec
CONSTANTS
    Recorders = {p1, p2}
    Channels = {c1}
    Cap = 1
    MaxEntries = 3
    Persistent = TRUE
    WriteFaults = {"missing", "torn", "unterminated"}
CHECK_DEADLOCK FALSE
INVARIANTS
    TypeOK
    FileOrderIsMemoryOrder
    DeliveredOnceAfterSubscribe
    OnlyFullChannelsMiss
    SyncedEntriesSurvive
PROPERTY
    RecordEnds
