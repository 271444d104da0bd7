SPECIFICATION Spec
CONSTANTS
    Callers = {"transactions", "contract_events", "accounts"}
    MaxItems = 1
    Endings = {"eof", "openErr", "readErr", "openPanic", "readPanic"}
INVARIANT
    TypeOK
PROPERTIES
    ResultIsFinal
    Returns
    ExtractsIndependently
