CONSTANTS
    NDocs = 2
    Owner = owner
    Users = {owner, reader}
    Queries = {q1}
    Settings <- ScopeSettings
SPECIFICATION Spec
CHECK_DEADLOCK FALSE
INVARIANTS
    TypeOK
    StrangersFindNothing
    AnswersWithinRights
