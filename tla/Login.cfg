SPECIFICATION FairSpec
CHECK_DEADLOCK FALSE
INVARIANTS
    OneReader
    SavedIsGranted
    EchoRestored
PROPERTIES
    SignalEnds
