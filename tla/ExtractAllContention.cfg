SPECIFICATION OneStreamSpec
CONSTANTS
    Callers = {"ledgers", "transactions", "operations", "contract_events"}
    MaxItems = 2
    Endings = {"eof", "openErr", "readErr", "openPanic", "readPanic"}
INVARIANTS
    SharedWalkIsPrivateWalk
    EveryExtractorAccounted
PROPERTIES
    DecodedOnce
