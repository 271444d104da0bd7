SPECIFICATION Spec
CONSTANTS
    Callers = {"transactions", "accounts"}
    MaxItems = 1
    Endings = {"eof", "readErr"}
INVARIANT
    BrokenStreamReported
