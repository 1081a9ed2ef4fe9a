CONSTANTS
    Off = Off
    c1 = c1
    c2 = c2
    c3 = c3
    c4 = c4
    c5 = c5
    c6 = c6
    c7 = c7
    a1 = a1
    a2 = a2
    a3 = a3
    Slots = {0, 1}
    User = 0
    MaxFaults = 1
SPECIFICATION SuiteSpec
SYMMETRY Symmetry
CHECK_DEADLOCK FALSE
INVARIANTS
    BulletinProofsSound
    BitmapsTrue
    TallyIsTrue
    VerdictIsJust
