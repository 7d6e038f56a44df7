-------------------------------- MODULE Tunnel --------------------------------
(***************************************************************************)
(* A tunnel process as VPNConnectionManager sees it, through its task: it  *)
(* runs until it is down, what it prints comes through a pipe, and it can  *)
(* be told to stop.  These are the TunnelUp, TunnelFails and TunnelStops   *)
(* of that module for one process, which may also print that the user was  *)
(* refused.                                                                *)
(***************************************************************************)

VARIABLES tunnel,   \* launched, up or down
          said,     \* what it has printed, of the two markers
          stopping  \* terminate has been sent

tunnelVars == <<tunnel, said, stopping>>

TunnelInit == tunnel = "launched" /\ said = {} /\ stopping = FALSE

Running == tunnel \in {"launched", "up"}

Completes ==
    /\ tunnel = "launched"
    /\ tunnel' = "up"
    /\ said' = said \cup {"completed"}
    /\ UNCHANGED stopping

IsRefused ==
    /\ Running
    /\ said' = said \cup {"auth"}
    /\ UNCHANGED <<tunnel, stopping>>

GoesDown ==
    /\ Running
    /\ tunnel' = "down"
    /\ UNCHANGED <<said, stopping>>

IsTerminated ==
    /\ Running
    /\ stopping' = TRUE
    /\ UNCHANGED <<tunnel, said>>

Stops == stopping /\ GoesDown

TunnelNext == Completes \/ IsRefused \/ GoesDown \/ IsTerminated

TunnelSafe == TunnelInit /\ [][TunnelNext]_tunnelVars

TunnelSpec == TunnelSafe /\ WF_tunnelVars(Stops)
=============================================================================
