SPECIFICATION FairSpec
CONSTANTS
    c1 = c1
    c2 = c2
    Callers = {c1, c2}
    Cap <- MCCap
    Contracts = {k1, k2}
    Unmarshalable = {k2}
    Trimmer = Trimmer
    W = 3
    Free = Free
    MaxStarts = 3
INVARIANTS
    TypeOK
    IdentityKept
    KnowsItsContracts
    SecondSetOfferRefused
    SignedUnlessChanged
PROPERTIES
    OfferAdvertised
    ContractsAdvertised
CHECK_DEADLOCK FALSE
