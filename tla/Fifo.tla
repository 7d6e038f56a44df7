-------------------------------- MODULE Fifo --------------------------------
(***************************************************************************)
(* What the reliability layer of openvpn promises the TLS objects above it *)
(* (reliable.h): in each direction, what one side writes the other reads,  *)
(* once and in the order it was written.                                   *)
(***************************************************************************)
EXTENDS Naturals, Sequences

CONSTANTS Ends              \* the two ends of the control channel

VARIABLES count,            \* how much each end has written
          queue             \* what it has written and the other end not read

fifoVars == <<count, queue>>

FifoInit == count = [p \in Ends |-> 0] /\ queue = [p \in Ends |-> <<>>]

Put(p) ==
    /\ count' = [count EXCEPT ![p] = @ + 1]
    /\ queue' = [queue EXCEPT ![p] = Append(@, count'[p])]

Take(p) ==
    /\ queue[p] # <<>>
    /\ queue' = [queue EXCEPT ![p] = Tail(@)]
    /\ UNCHANGED count

FifoNext == \E p \in Ends : Put(p) \/ Take(p)

FifoSpec == FifoInit /\ [][FifoNext]_fifoVars
=============================================================================
