SPECIFICATION Spec
CONSTANTS
    Callers = {t1, t2}
    SessionIds = {s1, s2}
    UniqueIds = FALSE
    Jobs = {j1}
    KeySizes = {1024, 2048}
    AllowedKeySizes = {2048}
    SessionTTL = 1
    NoSession = NoSession
    MaxKeys = 2
    MaxClock = 2
    Bundles = {b1}
    Datasets = {d1}
    EmptyBytes = EmptyBytes
    Absent = Absent
    NoReq = NoReq
    NoDoc = NoDoc
    Backend = "nitro"
    Requests <- MCRequests
    SomeJob = j1
    CipherKeys = {1, 2}
    ExtraRequests = FALSE
SYMMETRY HandlerSymmetry
INVARIANTS
    TypeOK
    KeyErasedBeforeResult
    ReplayRefused
    OneKeyPerExecution
    AttestedKeyIsOurs
    ProofMatchesRun
    SuccessReported
PROPERTIES
    OwnSessionDeleted
    KeyCustodyKept
