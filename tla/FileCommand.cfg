SPECIFICATION FairSpec
CHECK_DEADLOCK FALSE
INVARIANTS
    ChangedAtMostOnce
    OutputIsWhole
    OnlyThePrinter
    DiscoveryIsHonest
PROPERTIES
    OutputIsOwn
    CommandEnds
