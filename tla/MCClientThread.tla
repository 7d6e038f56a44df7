--------------------------- MODULE MCClientThread ---------------------------
(* Two threads and two callers for TLC; their names are in the .cfg. *)
EXTENDS ClientThread
=============================================================================
