--------------------------- MODULE MCOpenVPNProcess ---------------------------
(* An openvpn process for TLC. *)
EXTENDS OpenVPNProcess

MCProtos == {"tcp", "udp"}
=============================================================================
