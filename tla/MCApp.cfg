CONSTANTS
    paris = paris
    berlin = berlin
    oslo = oslo
    AppServers = {paris, berlin, oslo}
    NoAppServer = NoAppServer
    Protocols = {"L2TP", "OpenVPN UDP"}
    FirstProtocol = "L2TP"
    ListOf <- MCListOf
    MaxListRequests = 3
SPECIFICATION ApplicationSpec
INVARIANTS
    OneRequestAtATime
    ConnectedServerIsFixed
    UserHasControl
    TableIsCurrent
    ListFollowsPopup
    ConnectionIsHeld
PROPERTIES
    ViewIsApp
