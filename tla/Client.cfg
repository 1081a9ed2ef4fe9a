CONSTANTS
    None = None
    t1 = t1
    t2 = t2
    v1 = v1
    v2 = v2
    MaxSessions = 2
    MaxMounts = 2
    Outcomes = {"success"}
    MaxFaults = 0
SPECIFICATION SuiteSpec
SYMMETRY Symmetry
CHECK_DEADLOCK FALSE
INVARIANTS
    VerificationShownIsTrue
    VerifierAnswersAreOwn
    BundlesAreWhole
PROPERTIES
    TabsKeepApart
