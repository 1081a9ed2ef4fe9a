CONSTANTS
    None = None
    NoItem = NoItem
    c1 = c1
    c2 = c2
    c3 = c3
    s1 = s1
    s2 = s2
    m1 = m1
    r1 = r1
    r2 = r2
    r3 = r3
    a1 = a1
    a2 = a2
    Submits = {c1, c2}
    Finalizes = {z1}
    Openings = {r1, r2}
    BotCount = 2
    MaxConditionalRetries = 2
    BotRounds = 2
    MaxTouches = 1
    MaxFaults = 1
SPECIFICATION SuiteSpec
SYMMETRY Symmetry
CHECK_DEADLOCK FALSE
INVARIANTS
    BallotSound
    AnswersTrue
    InputIsBallot
    RetriesSuffice
PROPERTIES
    BallotAppendOnly
    CommitsSound
    RunsSound
    LimitsHold
