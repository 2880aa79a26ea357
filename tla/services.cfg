SPECIFICATION Spec
CONSTANTS
    s1 = s1
    d1 = d1
    o1 = o1
    o2 = o2
    n1 = n1
    c1 = c1
    m1 = m1
    Modes = {"nsm", "nsm_closed", "no_device", "local", "tdx"}
    AttCalls <- MCAttCalls
    EmptyBytes = EmptyBytes
    EmptyText = EmptyText
    Absent = Absent
    MaxAsked = 2
    KmsContexts <- MCContexts
    NoContext = NoContext
    MaxKmsCalls = 3
    KeyPairs = {1, 2}
    KeyUnits <- MCKeyUnits
    Plaintexts = {"p1", "p2"}
    NoKey = NoKey
INVARIANTS
    EvidenceVerifies
    ProofBindsExecution
    SlotsUnambiguous
    DataKeyRoundTrip
    OpenedAsSent
CHECK_DEADLOCK FALSE
