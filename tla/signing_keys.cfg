CONSTANTS
    Kids = {k1, k2}
    Lookups = {l1, l2}
    TTL = 2
    MaxDelay = 1
    Horizon = 4
    None = None
SPECIFICATION Spec
SYMMETRY Symmetry
CHECK_DEADLOCK FALSE
INVARIANTS
    TypeOK
    ReturnedKeyFresh
    MissingHasReason
PROPERTY NoRollback
