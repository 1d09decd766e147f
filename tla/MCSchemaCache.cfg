CONSTANTS
    Processes = {p1, p2}
    Threads = {t1, t2}
    NoProcess = NoProcess
    Ttl = 1
    MaxVersion = 2
SPECIFICATION Spec
SYMMETRY Symmetry
INVARIANTS
    TypeOK
    TimestampHonest
PROPERTIES
    LoadsRecentSchema
    NeverGoesBack
