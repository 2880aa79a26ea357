SPECIFICATION FairSpec
CONSTANTS
    Nodes <- TreeNodes
    Parent <- TreeParent
    BadNames = {4}
    Sizes = {1, 3}
    max_files = 2
    max_total_bytes = 3
    MaxChanges = 2
INVARIANTS
    ResultWithinLimits
    MemoryBounded
    NothingForeign
    QuietResultExact
PROPERTY
    CollectionEnds
CHECK_DEADLOCK FALSE
