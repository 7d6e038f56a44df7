------------------------------ MODULE MCHelper ------------------------------
\* Servers for the run of OneVPNHelper.
EXTENDS OneVPNHelper

CONSTANTS viaUdp, viaTcp, viaPptp

MCProtocol ==
    [s \in Servers |-> CASE s = viaUdp -> "udp" [] s = viaTcp -> "tcp" [] s = viaPptp -> "pptp"]
=============================================================================
