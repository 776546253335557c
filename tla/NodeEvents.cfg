SPECIFICATION FairSpec
CONSTANTS
    a1 = a1
    c1 = c1
    c2 = c2
    Retrievals = {t1}
    Seekers = {f1}
    Streams = {u1}
    Readers = {4, 5}
    Pubs = {1, 3}
    Offers = {2}
    Addrs = {a1}
    Cids = {c1, c2}
    Addr <- MCAddr
    Own <- MCOwn
    Wanted <- MCWanted
    Any = Any
    None = None
    Free = Free
    MaxEvents = 3
INVARIANTS
    TypeOK
    SameOrder
    ResultExact
PROPERTIES
    NobodyHeldUp
    DeadlineEndsCall
CHECK_DEADLOCK FALSE
