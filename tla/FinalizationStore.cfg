CONSTANTS
    f1 = f1
    f2 = f2
    sA = sA
    sB = sB
    Fids = {f1, f2}
    Scenarios = {sA, sB}
    Codes <- MCCodes
    NoScenario = NoScenario
    NoRecord = NoRecord
    NoItem = NoItem
    Clients = {c1, c2, c3, c4}
    Commands <- MCCommands
    StaleRetryLimit = 1
    CommitAttempts = 2
    MaxTouches = 1
SYMMETRY Symmetry
SPECIFICATION MCSpec
INVARIANTS
    RecordsSound
    NoStaleAuthority
PROPERTIES
    ImplementsLifecycle
    OutcomeSticky
    AnswersHold
CHECK_DEADLOCK FALSE
