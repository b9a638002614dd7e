SPECIFICATION CommandSpec
CONSTANTS
    f1 = f1
    a = a
    Scalar = Scalar
    Unsaid = Unsaid
    Members <- MCMembers
    Cli = Cli
    Receiver = Receiver
    Lost = Lost
    NoOne = NoOne
    Callers <- MCCallers
    Commands <- MCCommands
    CliCommands <- MCCliCommands
    Fields <- MCFields
    Payloads <- MCTwoPayloads
    BufferSize = 1
    MaxSeq = 1
    MaxReports = 2
CHECK_DEADLOCK FALSE
INVARIANT StateShowsStatus
