SPECIFICATION FairSpec
CONSTANTS
    Control = Control
    Data = Data
    Main = Main
    Cleaner = Cleaner
    Nobody = Nobody
CHECK_DEADLOCK FALSE
INVARIANTS
    CleanupIsFinal
    NothingLeftOpen
    NilMeansPerformed
PROPERTIES
    SessionEnds
