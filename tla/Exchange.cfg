SPECIFICATION Spec
CONSTANTS
    W32 = 256
    W64 = 32768
    Requests <- MCRequests
    Extended <- MCExtended
    StorageReplies <- MCStorageReplies
    LinkLists <- MCLinkLists
    Fragments <- MCFragments
    MaxFragments = 3
    Limit = 30
    Ticks = 2
INVARIANTS
    TypeOK
    ServedAsSent
    AckTruthful
    CrashOnlyAfterType
    SizeExact
    DecodedIsStable
CHECK_DEADLOCK FALSE
