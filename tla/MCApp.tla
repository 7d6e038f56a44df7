-------------------------------- MODULE MCApp --------------------------------
\* Two protocols whose lists have different servers and lengths.
EXTENDS Application

CONSTANTS paris, berlin, oslo

MCListOf == [p \in Protocols |-> IF p = FirstProtocol THEN <<paris, berlin>> ELSE <<oslo>>]
=============================================================================
