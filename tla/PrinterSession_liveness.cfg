SPECIFICATION FairSpec
CONSTANTS
    c1 = c1
    c2 = c2
    x = x
    f1 = f1
    a = a
    Scalar = Scalar
    Unsaid = Unsaid
    Members <- MCMembers
    Receiver = Receiver
    Lost = Lost
    NoOne = NoOne
    Callers <- MCCallers
    Commands <- MCCommands
    Fields <- MCFields
    Payloads <- MCOnePayload
    BufferSize = 1
    MaxSeq = 1
    MaxReports = 2
PROPERTIES
    EveryCallReturns
