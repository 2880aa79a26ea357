SPECIFICATION FairStoreSpec
CONSTANTS
    Callers = {c1, c2}
    SessionIds = {s1, s2}
    UniqueIds = FALSE
    Jobs = {j1}
    KeySizes = {1024, 2048}
    AllowedKeySizes = {2048}
    SessionTTL = 2
    NoSession = NoSession
    MaxKeys = 3
    MaxClock = 5
INVARIANTS
    StoreTypeOK
    NoKeyResurrection
    KeyHasOneSession
PROPERTIES
    LiveSessionKept
    EveryKeyErased
