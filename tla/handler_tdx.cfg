SPECIFICATION Spec
CONSTANTS
    Callers = {t1, t2}
    SessionIds = {s1}
    UniqueIds = TRUE
    Jobs = {j1}
    KeySizes = {1024, 2048}
    AllowedKeySizes = {2048}
    SessionTTL = 1
    NoSession = NoSession
    MaxKeys = 1
    MaxClock = 2
    Bundles = {b1}
    Datasets = {d1}
    EmptyBytes = EmptyBytes
    Absent = Absent
    NoReq = NoReq
    NoDoc = NoDoc
    Backend = "tdx"
    Requests <- MCRequests
    SomeJob = j1
    CipherKeys = {1}
    ExtraRequests = FALSE
INVARIANTS
    SuccessReported
