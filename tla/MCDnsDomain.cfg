CONSTANTS
    t1 = t1
    t2 = t2
    t3 = t3
    wifi = wifi
    lan = lan
    Machines <- MCPlainMachine
    Word <- MCWord
    MaxWords = 3
    NoKey = NoKey
SPECIFICATION DnsSpec
INVARIANTS
    ManualDomainKept
