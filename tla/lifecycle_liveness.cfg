CONSTANTS
    Owner = owner
    Users = {owner, u1}
    Requests = {r1, r2}
    NBatches = 2
    Environments <- LivenessEnvironments
SPECIFICATION FairSpec
CHECK_DEADLOCK FALSE
PROPERTIES
    JobEnds
    DeletionEnds
    DeletionErases
