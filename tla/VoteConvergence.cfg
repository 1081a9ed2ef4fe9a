CONSTANTS
    Submits = {s1, s2}
    Finalizes = {}
    Openings = {o1}
    None = None
    BotCount = 2
    MaxConditionalRetries = 3
    BotRounds = 3
    MaxTouches = 0
    MaxFaults = 0
SPECIFICATION Spec
INVARIANTS
    IdenticalRequestsConverge
CHECK_DEADLOCK FALSE
