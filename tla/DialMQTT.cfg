SPECIFICATION FairSpec
CONSTANT Dials = {d1, d2}
CHECK_DEADLOCK FALSE
INVARIANTS
    AbandonedIsHandled
    PrinterNotDeaf
PROPERTIES
    NoOrphan
