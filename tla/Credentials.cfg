SPECIFICATION Spec
CONSTANTS
    Procs = {p1, p2}
    Regions = {china, global}
    Default = china
    NoRegion = NoRegion
    NoToken = NoToken
    Missing = Missing
    Unusable = Unusable
    Torn = Torn
SYMMETRY Symmetry
INVARIANTS
    TypeOK
    TokenStaysInRegion
