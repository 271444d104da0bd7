SPECIFICATION Spec
CONSTANTS
    Contracts = {1, 2, 3}
    Main = 1
    NoContract = NoContract
    NotAContract = NotAContract
    Creation = Creation
    Functions <- MCFunctions
    MainFunction = "f"
    Unknown = "unknown"
    Legible <- MCLegible
    InArguments <- MCInArguments
    AuthTrees <- MCAuthTrees
    AuthDepthLimit = 3
    MaxEvents = 8
INVARIANTS
    StackSound
    RecordedCallsWereMade
    MadeCallsAreRecorded
    AuthorizedCallsRecorded
    CallsStoredOnce
    ErrorIsTheCause
