SPECIFICATION CASpec
CONSTANTS
    Threads = {t1, t2}
    Faults = FALSE
    MaxHierarchies = 2
SYMMETRY ThreadSymmetry
INVARIANT DocumentsVerify
