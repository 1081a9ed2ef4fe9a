CONSTANTS
    f1 = f1
    f2 = f2
    sA = sA
    sB = sB
    Fids = {f1}
    Scenarios = {sA}
    Codes <- MCCodes
    NoScenario = NoScenario
    NoRecord = NoRecord
    NoItem = NoItem
    Clients = {c1, c2, c3}
    Commands <- MCRaceCommands
    StaleRetryLimit = 1
    CommitAttempts = 2
    MaxTouches = 0
SYMMETRY Symmetry
SPECIFICATION Spec
INVARIANTS
    NoFalseCorruption
CHECK_DEADLOCK FALSE
