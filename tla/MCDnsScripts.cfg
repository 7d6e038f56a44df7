CONSTANTS
    t1 = t1
    t2 = t2
    t3 = t3
    wifi = wifi
    lan = lan
    Machines <- MCMachines
    Word <- MCWord
    MaxWords = 4
    NoKey = NoKey
SPECIFICATION DnsSpec
\* The run stops when the search domains have grown to MaxWords in every tunnel.
CHECK_DEADLOCK FALSE
SYMMETRY TunnelSymmetry
INVARIANTS
    SettingsReturn
    PushedServersUsed
    ManualServersKept
