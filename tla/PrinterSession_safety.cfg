SPECIFICATION Spec
CONSTANTS
    c1 = c1
    c2 = c2
    x = x
    f1 = f1
    a = a
    Scalar = Scalar
    Unsaid = Unsaid
    Members <- MCMembers
    Receiver = Receiver
    Lost = Lost
    NoOne = NoOne
    Callers <- MCCallers
    Commands <- MCCommands
    Fields <- MCFields
    Payloads <- MCPayloads
    BufferSize = 1
    MaxSeq = 2
    MaxReports = 2
SYMMETRY Symmetry
INVARIANTS
    TypeOK
    PendingExact
    DoneClosedOnce
    ReplyIsOwn
    NoLostReply
    LossHasReason
    NothingUncounted
PROPERTIES
    ClosedFreezes
    KeepsContract
