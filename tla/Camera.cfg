SPECIFICATION FairSpec
CONSTANTS
    Readers = {r1, r2}
    Dialer = Dialer
    NoOne = NoOne
CHECK_DEADLOCK FALSE
INVARIANTS
    OpenIsAligned
    DeadlineIsOwn
PROPERTIES
    EveryReadReturns
