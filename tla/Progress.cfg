CONSTANTS
    NoItem = NoItem
    None = None
    f1 = f1
    f2 = f2
    sc = sc
    sA = sA
    sB = sB
    k1 = k1
    k2 = k2
    s1 = s1
    c1 = c1
    c2 = c2
    m1 = m1
    r1 = r1
    r2 = r2
    a1 = a1
    e1 = e1
    e2 = e2
    t1 = t1
    Fids = {f1}
    Scenarios = {sc}
    Codes <- ErrorCodes
    NoScenario = NoScenario
    NoRecord = NoRecord
    Dispatchers = {d1}
    Grace = 1
    Deadline = 1
    Horizon = 0
    MaxReceives = 2
    MaxRetries = 1
    MaxFaults = 1
    LateContainers = FALSE
SPECIFICATION SuiteSpec
CHECK_DEADLOCK FALSE
PROPERTIES
    RequestsReturn
    WorkEnds
    UsersAreTold
