CONSTANTS
    client = client
    server = server
    Ends = {client, server}
    NSend = 2
    NRec = 2
    AckSize = 1
    AckMax = 1
    IdSpace = 4
    Holds = {server}
    MaxPackets <- MCMaxPackets
    MaxNet = 2
SPECIFICATION FairReliableSpec
\* The run ends when everything has been written and acknowledged.
CHECK_DEADLOCK FALSE
INVARIANTS
    ReliableTypeOK
    PurgedWasReceived
    BufferNeverBlocks
PROPERTIES
    EveryPacketAcked
    ChannelIsFifo
