SPECIFICATION FairSpec
CONSTANTS
    w1 = w1
    w2 = w2
    d1 = d1
    d2 = d2
    Workers = {w1, w2}
    Sessions = {"s1", "s2"}
    Calls <- MCCalls
    Datasets = {d1, d2}
    ScriptLike = {d2}
    Outside <- MCOutside
    EmptyBytes = EmptyBytes
    Absent = Absent
    MAX_ZIP_ENTRIES = 3
    MAX_ZIP_TOTAL_SIZE = 4
    MaxCalls = 2
    MaxClock = 1
INVARIANTS
    OnlyEndedBundlesRemain
    StatusHonest
    PlaintextRemoved
    ScriptChecked
PROPERTIES
    ContractKept
    ExecutionsEnd
CHECK_DEADLOCK FALSE
