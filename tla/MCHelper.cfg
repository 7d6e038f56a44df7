CONSTANTS
    viaUdp = viaUdp
    viaTcp = viaTcp
    viaPptp = viaPptp
    Servers = {viaUdp, viaTcp, viaPptp}
    NoServer = NoServer
    Protocol <- MCProtocol
    Threads = {t1, t2}
    NoThread = NoThread
    Callers = {p1}
    MaxStarts = 2
    MaxCrashes = 1
SPECIFICATION FairHelperSpec
\* The one peer may really hang, on a lock nobody signals.
CHECK_DEADLOCK FALSE
INVARIANTS
    OkMeansConnected
    ReportsDialledServer
    StuckOnlyOnRefusedStart
    StartedThreadHasTunnel
PROPERTIES
    RequestsEnd
