CONSTANTS
    NDocs = 1
    Owner = owner
    Users = {owner, reader}
    Queries = {q1}
    Settings <- RaceSettings
SPECIFICATION Spec
CHECK_DEADLOCK FALSE
INVARIANT DeletedNeverRetrieved
