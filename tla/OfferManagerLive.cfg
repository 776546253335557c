SPECIFICATION FairSpec
CONSTANTS
    r1 = r1
    r2 = r2
    r3 = r3
    s1 = s1
    s2 = s2
    Requests = {r1, r2}
    Setters = {s1, s2}
    Size <- MCSize
    Cid <- DistinctCid
    Owner <- MCOwner
    Expires <- MCExpires
    OfferCap <- MCOfferCap
    Unmarshalable = {r2}
    Zero = Zero
    Free = Free
    Trimmer = Trimmer
    W = 8
    MaxInFlight = 2
    MaxTime = 1
    MaxCrashes = 0
    DiskFaults = TRUE
    TornReads = TRUE
PROPERTIES
    HostedAnswered
    ExpiredTrimmed
