SPECIFICATION FairCommandSpec
CONSTANTS
    f1 = f1
    a = a
    Scalar = Scalar
    Unsaid = Unsaid
    Members <- MCMembers
    Cli = Cli
    Receiver = Receiver
    Lost = Lost
    NoOne = NoOne
    Callers <- MCCallers
    Commands <- MCCommands
    CliCommands <- MCCliCommands
    Fields <- MCFields
    Payloads <- MCPayloads
    BufferSize = 1
    MaxSeq = 1
    MaxReports = 2
CHECK_DEADLOCK FALSE
INVARIANTS
    ResultIsEarned
    SnapshotIsComplete
    NothingLeftOpen
PROPERTIES
    OutputAdvances
    CancelEnds
