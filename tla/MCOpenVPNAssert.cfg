CONSTANTS
    Protos <- MCProtos
    MaxPushRequests = 2
    MaxNotify = 1
    MaxTerms = 1
SPECIFICATION FairProcessSpec
\* The process ends.
CHECK_DEADLOCK FALSE
INVARIANT AssertionHolds
