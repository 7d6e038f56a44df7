----------------------------- MODULE MCReliable -----------------------------
\* What each end writes in the run of Reliable.
EXTENDS Reliable

CONSTANTS client, server

MCMaxPackets == [p \in Ends |-> IF p = client THEN 5 ELSE 1]
=============================================================================
