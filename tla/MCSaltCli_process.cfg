SPECIFICATION Spec
CONSTANTS
    SIZE_MAX = 65535
    SEALBYTES = 48
    KeyMax = 1
    TextMax = 1
    StreamBound = 2
    Embedded = FALSE
    KeyDocs <- MCKeyDocs
    Requests <- ProcessRequests
    MaxCalls = 1
    MaxSignals = 2
INVARIANTS
    TypeOK
    OutputMatchesStatus
    FailureDiagnosed
    InterruptNeverSucceeds
    WholeInputSealed
    PlaintextGuarded
    KilledOnlyWhenTold
