CONSTANTS
    Protos <- MCProtos
    MaxPushRequests = 2
    MaxNotify = 2
    MaxTerms = 2
SPECIFICATION FairProcessSpec
\* The process ends.
CHECK_DEADLOCK FALSE
INVARIANTS
    ScriptsPaired
    CompletedIsUp
    NoRestart
PROPERTIES
    IsATunnel
