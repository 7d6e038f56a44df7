------------------------------ MODULE MCOneVPN ------------------------------
\* Servers, threads and peers for the runs of OneVPN.
EXTENDS OneVPN

CONSTANTS viaUdp, viaTcp, viaL2tp

MCProtocol ==
    [s \in Servers |-> CASE s = viaUdp -> "udp" [] s = viaTcp -> "tcp" [] s = viaL2tp -> "l2tp"]

\* Threads and peers are interchangeable.
Symmetry == Permutations(Threads) \cup Permutations(Callers)
=============================================================================
