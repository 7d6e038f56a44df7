CONSTANTS
    Threads = {t1, t2}
    NoThread = NoThread
    Callers = {c1, c2}
    MaxStarts = 2
SPECIFICATION ThreadSpec
PROPERTIES
    JoinAfterBlock
    DeadLockIsForever
    JoinEnds
