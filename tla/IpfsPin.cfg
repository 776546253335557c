SPECIFICATION FairSpec
CONSTANTS
    h1 = h1
    h2 = h2
    x = x
    y = y
    p = p
    q = q
    r = r
    Hosts = {h1, h2}
    Cids = {x, y, p, q, r}
    Index <- MCIndex
    Pieces <- MCPieces
    MaxLooks = 2
    MaxDeaths = 1
INVARIANTS
    TypeOK
    MissingExplained
    PinsOwned
PROPERTY HostReturns
CHECK_DEADLOCK FALSE
