SPECIFICATION Spec
CONSTANTS
    a1 = a1
    a2 = a2
    a3 = a3
    a4 = a4
    i1 = i1
    i2 = i2
    Slots = {i1, i2}
    Addrs = {a1, a2, a3, a4}
    Lasting = {a1, a2, a3, a4}
    NodeOf <- OwnNode
    None = None
    Noise = Noise
    Free = Free
    ConnectFails = TRUE
    StreamFails = TRUE
    Declines = TRUE
SYMMETRY Symmetry
INVARIANTS
    TypeOK
    EnoughCustodians
    WaitingIsServed
    NoStrayCustodian
PROPERTY KeepsPromise
CHECK_DEADLOCK FALSE
