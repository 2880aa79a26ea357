SPECIFICATION CASpec
CONSTANTS
    Threads = {t1}
    Faults = TRUE
    MaxHierarchies = 4
INVARIANT DocumentsVerify
INVARIANT OneTrustAnchor
INVARIANT PublishedRoot
INVARIANT OnlyLeafBlocks
