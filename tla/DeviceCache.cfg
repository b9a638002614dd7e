SPECIFICATION Spec
CONSTANTS
    Procs = {p1, p2}
    Serials = {s1}
    Scopes = {a, b}
    NoScope = NoScope
    Missing = Missing
    Unusable = Unusable
    Torn = Torn
    ListTTL = 2
    IPTTL = 1
    MaxTime = 2
    MaxCommands = 2
SYMMETRY Symmetry
CHECK_DEADLOCK FALSE
INVARIANTS
    TypeOK
PROPERTIES
    ListIsOwnAndFresh
    AddressIsOwnAndFresh
