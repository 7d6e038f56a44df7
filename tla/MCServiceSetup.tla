--------------------------- MODULE MCServiceSetup ---------------------------
(* An L2TP set-up for TLC; the constants are given in MCServiceSetup.cfg. *)
EXTENDS ServiceSetup
=============================================================================
