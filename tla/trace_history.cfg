CONSTANTS
    q1 = q1
    q2 = q2
    q3 = q3
    alice = alice
    bob = bob
    api = api
    other = other
    Traces = {q1, q2, q3}
    Replicas = {api, other}
    Command = command
    Home = api
    Interval = 2
    Window = 4
    Slack = 1
    Limit = 2
    Batch = 1
    Gates = {"pass", "fail", "skip"}
    None = None
    OwnerOf <- OwnerOfTrace
    Readers <- ReadersOf
    Parameters <- Tried
    Settings <- HistorySettings
SPECIFICATION Spec
INVARIANTS
    TypeOK
    NothingSlipsBy
    VerdictReachesTheIndex
    EntryTellsTheRow
    ReadsAreCoherent
