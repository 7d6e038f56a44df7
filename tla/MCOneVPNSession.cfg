CONSTANTS
    viaUdp = viaUdp
    viaTcp = viaTcp
    viaL2tp = viaL2tp
    Servers = {viaTcp, viaL2tp}
    AppServers = {viaTcp, viaL2tp}
    NoServer = NoServer
    NoAppServer = NoServer
    Protocol <- MCProtocol
    Threads = {t1, t2}
    NoThread = NoThread
    Callers = {app1}
    NoPeer = NoPeer
    MaxStarts = 1
    MaxCrashes = 0
SPECIFICATION FairSpec
\* The run ends: the application was quit, or the threads of the model are used up.
CHECK_DEADLOCK FALSE
INVARIANTS
    TypeOK
    ShownIsReal
    DisconnectedIsDown
    OneTunnel
PROPERTIES
    EveryRequestAnswered
