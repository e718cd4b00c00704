SPECIFICATION Spec
CONSTANTS
    SIZE_MAX = 65535
    SEALBYTES = 48
    KeyMax = 1
    TextMax = 1
    StreamBound = 1
    Embedded = FALSE
    KeyDocs <- MCKeyDocs
    Requests <- LiveRequests
    MaxCalls = 1
    MaxSignals = 0
INVARIANTS
    BrokenPipeReturns
