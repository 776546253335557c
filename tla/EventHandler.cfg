SPECIFICATION FairSpec
CONSTANT Publishes = {p1, p2, p3, p4}
INVARIANTS
    OkMeansDelivered
    NoneBlockedAfterClose
PROPERTIES
    CloseReturns
    QuietCloseIsSafe
CHECK_DEADLOCK FALSE
