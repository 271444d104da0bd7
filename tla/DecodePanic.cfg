SPECIFICATION Spec
CONSTANTS
    Callers = {"transactions", "operations"}
    MaxItems = 2
    Endings = {"eof", "readErr", "readPanic"}
INVARIANT
    BrokenLedgerFailsForEveryCaller
