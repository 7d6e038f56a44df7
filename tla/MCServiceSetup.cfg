CONSTANTS
    Servers = {s1, s2}
    Locations = {home, work}
    Nobody = Nobody
    MaxAttempts = 3
    MaxMeddles = 2
SPECIFICATION ServiceSpec
\* After MaxAttempts attempts nothing more is asked.
CHECK_DEADLOCK FALSE
INVARIANTS
    DialledIsComplete
    StoredIsWhole
    OneItemPerKind
    OnlyFailuresKeepLock
PROPERTIES
    AttemptEnds
