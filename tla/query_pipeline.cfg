CONSTANTS
    a = a
    b = b
    c = c
    Chunks = {a, b, c}
    None = None
    Unscored = Unscored
    PerPath = 2
    RrfK = 60
    Scale = 113460
    Cost <- TokenCost
    Separator = 1
    Budget = 10
    Source <- SourceFile
    Words <- WordsOf
    Similarity = 65
    Overlap = 15
    Requests = {q1, q2}
    Widening = 2
    Pool = 2
    MaxAttempts = 2
    MaxStarts = 2
    Settings <- PipelineSettings
SPECIFICATION FairSpec
CHECK_DEADLOCK FALSE
INVARIANTS
    TypeOK
    FusionRespectsRanks
    ContextPacked
    DefectsTellTheTruth
    VerdictTellsTheTruth
    HistoryNeverFailsAQuery
PROPERTIES
    EverythingEnds
    KeepsItsPromises
