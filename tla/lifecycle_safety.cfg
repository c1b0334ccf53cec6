CONSTANTS
    Owner = owner
    Users = {owner, u1, u2}
    Requests = {r1, r2}
    NBatches = 2
    Environments <- SafetyEnvironments
SPECIFICATION Spec
SYMMETRY Symmetry
CHECK_DEADLOCK FALSE
INVARIANTS
    TypeOK
    DeletedNeverSearchable
    SearchableIsCompleted
    ActiveHasObject
    NoOrphanObject
    AccessIsGranted
    PrivateHasNoShares
    CompletedIsSearchable
    FoundIsReadable
    ReadableIsFound
PROPERTY PublishedWhole
