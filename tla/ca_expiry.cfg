SPECIFICATION CertSpec
CONSTANTS
    Threads = {t1}
    Faults = FALSE
    MaxHierarchies = 1
    LeafLifetime = 6
    MaxNow = 8
INVARIANT CertificateCurrent
