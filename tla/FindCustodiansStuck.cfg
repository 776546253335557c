SPECIFICATION FairSpec
CONSTANTS
    a1 = a1
    a2 = a2
    a3 = a3
    a4 = a4
    i1 = i1
    i2 = i2
    Slots = {i1, i2}
    Addrs = {a1, a2, a3}
    Lasting = {a1, a2, a3}
    NodeOf <- OwnNode
    None = None
    Noise = Noise
    Free = Free
    ConnectFails = FALSE
    StreamFails = FALSE
    Declines = FALSE
PROPERTY SeekReturns
CHECK_DEADLOCK FALSE
