CONSTANTS
    Owner = owner
    Users = {owner, u1}
    Requests = {r1}
    NBatches = 2
    Environments <- Calm
SPECIFICATION Spec
CHECK_DEADLOCK FALSE
INVARIANT DenialOverDisclosure
