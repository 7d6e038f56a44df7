------------------------------- MODULE OneVPN -------------------------------
(***************************************************************************)
(* The application and the privileged helper over their XPC connection.    *)
(*                                                                         *)
(* Every run of the application is a peer of its own.  Its requests wait   *)
(* in the helper's connection until the handler of that peer takes them;   *)
(* replies come back to the main queue in order.  When the application     *)
(* quits, what it had asked for goes on in the helper and the reply is     *)
(* lost; when the helper dies, every request that is out gets an error,    *)
(* which reaches the application as an empty reply.                        *)
(***************************************************************************)
EXTENDS App, OneVPNHelper, SequencesExt

CONSTANT NoPeer

ASSUME PeerAssumption ==
    /\ NoPeer \notin Callers
    /\ AppServers = Servers
    /\ NoAppServer = NoServer

VARIABLES
    peer,       \* the connection of the running application
    inbox,      \* requests each peer has sent and the helper has not taken
    outbox,     \* replies on their way to the application
    usedPeers,  \* the connections that were ever made
    disturbed   \* history: the helper has died, or served a run that was quit
                \* while the next one was there

wires == <<peer, inbox, outbox, usedPeers, disturbed>>
vars == <<appVars, helperVars, wires>>

\* The reply of a broken connection, which counts as a version older than any, and
\* that of a helper of an older version.
ErrorReply == Reply("version", FALSE, NoServer)
OutdatedReply == ErrorReply

TypeOK ==
    /\ AppTypeOK
    /\ HelperTypeOK
    /\ peer \in Callers \cup {NoPeer}
    /\ inbox \in [Callers -> Seq(Requests)]
    /\ outbox \in [Callers -> Seq(Replies)]
    /\ usedPeers \subseteq Callers
    /\ disturbed \in BOOLEAN

Init ==
    /\ AppInit
    /\ HelperInit
    /\ peer = NoPeer
    /\ inbox = [c \in Callers |-> <<>>]
    /\ outbox = [c \in Callers |-> <<>>]
    /\ usedPeers = {}
    /\ disturbed = FALSE

\* sendRequest: a request appended to the inFlight that was n long before goes
\* out on peer c's connection.
SendNew(c, n) ==
    inbox' = IF Len(inFlight') > n
             THEN [inbox EXCEPT ![c] = Append(@, Last(inFlight'))]
             ELSE inbox

\* The requests of peer c that the helper has not answered: the one its handler is
\* serving, and those behind it.
Unanswered(c) == Len(inbox[c]) + (IF pc[c] = "idle" THEN 0 ELSE 1)

-----------------------------------------------------------------------------
\* The application's side.

AppLaunches ==
    \E c \in Callers \ usedPeers, helper \in {"found", "installed", "missing"} :
        /\ helper = "installed" => usedPeers = {}
        /\ Launch(helper)
        /\ peer' = c
        /\ usedPeers' = usedPeers \cup {c}
        /\ inbox' = [inbox EXCEPT ![c] = inFlight']
        /\ disturbed' = (disturbed \/ \E d \in Callers : Unanswered(d) > 0)
        /\ UNCHANGED <<helperVars, outbox>>

\* The connection is closed: no reply reaches anyone any more, but the helper
\* still serves what it has received.
AppQuits ==
    /\ Quit
    /\ peer' = NoPeer
    /\ outbox' = [outbox EXCEPT ![peer] = <<>>]
    /\ UNCHANGED <<helperVars, inbox, usedPeers, disturbed>>

\* Bound: a connect is clicked only while the model has a thread for it.
ThreadLeft ==
    Cardinality({t \in Threads : phase[t] = "free" /\ tunnel[t] = "none"})
        > Cardinality({c \in Callers : \/ pc[c] \in {"connect", "newThread"}
                                       \/ \E i \in DOMAIN inbox[c] : inbox[c][i].type = "connect"})

UserActs ==
    /\ peer # NoPeer
    /\ UserStep
    /\ inFlight' # inFlight /\ Last(inFlight').type = "connect" => ThreadLeft
    /\ SendNew(peer, Len(inFlight))
    /\ UNCHANGED <<helperVars, peer, outbox, usedPeers, disturbed>>

\* The next reply is handled on the main queue.  For a version request an error that
\* does not parse ends the chain as a failed installation does.
AppReceives ==
    /\ peer # NoPeer
    /\ outbox[peer] # <<>>
    /\ LET r == Head(outbox[peer]) IN
          \/ VersionReplied(r, FALSE) \/ PathesReplied(r) \/ StatusReplied(r)
          \/ ConnectReplied(r) \/ DisconnectReplied(r)
          \/ r = ErrorReply /\ Head(inFlight).type # "version" /\ NotParsed
    /\ outbox' = [outbox EXCEPT ![peer] = Tail(@)]
    /\ SendNew(peer, Len(inFlight) - 1)
    /\ UNCHANGED <<helperVars, peer, usedPeers, disturbed>>

\* An outdated version, or an empty reply: the helper is installed again, which
\* ends the running one, and the chain goes on over a new connection.
AppUpgrades ==
    /\ peer # NoPeer
    /\ outbox[peer] # <<>>
    /\ ~Head(outbox[peer]).ok
    /\ VersionReplied(Head(outbox[peer]), TRUE)
    /\ Die
    /\ \E c \in Callers \ usedPeers :
          /\ peer' = c
          /\ usedPeers' = usedPeers \cup {c}
          /\ inbox' = [d \in Callers |-> IF d = c THEN inFlight' ELSE <<>>]
          /\ outbox' = [d \in Callers |-> <<>>]
    /\ disturbed' = TRUE
    /\ UNCHANGED crashes

-----------------------------------------------------------------------------
\* The helper's side.

Answer(c, r) ==
    outbox' = IF c = peer THEN [outbox EXCEPT ![c] = Append(@, r)] ELSE outbox

Takes(c, type) == inbox[c] # <<>> /\ Head(inbox[c]).type = type

\* The helper the first run of the application finds may be an older one.
HelperTakes(c) ==
    /\ \/ Takes(c, "version") /\ HandleVersion(c) /\ Answer(c, VersionReply)
       \/ /\ Takes(c, "version") /\ HandleVersion(c)
          /\ usedPeers = {c}
          /\ Answer(c, OutdatedReply)
       \/ Takes(c, "pathes") /\ HandlePathes(c) /\ Answer(c, PathesReply)
       \/ Takes(c, "status") /\ ReceiveStatus(c) /\ UNCHANGED outbox
       \/ Takes(c, "connect") /\ ReceiveConnect(c, Head(inbox[c]).server) /\ UNCHANGED outbox
       \/ Takes(c, "disconnect") /\ ReceiveDisconnect(c) /\ UNCHANGED outbox
    /\ inbox' = [inbox EXCEPT ![c] = Tail(@)]
    /\ UNCHANGED <<appVars, peer, usedPeers, disturbed>>

HelperReplies(c) ==
    /\ \/ ReplyStatus(c) /\ Answer(c, StatusReply(c))
       \/ ReplyConnect(c) /\ Answer(c, ConnectReply(c))
       \/ ReplyDisconnect(c) /\ Answer(c, DisconnectReply(c))
    /\ UNCHANGED <<appVars, peer, inbox, usedPeers, disturbed>>

HelperWorks == Internal /\ UNCHANGED <<appVars, wires>>

\* Mutant: what is still waiting in the connection gets no error.
WaitingRequestsLost ==
    /\ Killed \/ \E c \in Callers : Raises(c)
    /\ inbox' = [c \in Callers |-> <<>>]
    /\ outbox' = [c \in Callers |->
          IF c = peer /\ pc[c] # "idle" THEN Append(outbox[c], ErrorReply) ELSE outbox[c]]
    /\ disturbed' = TRUE
    /\ UNCHANGED <<appVars, peer, usedPeers>>

\* The connection answers each request it still has a reply block for with an error.
HelperDies ==
    /\ Killed \/ \E c \in Callers : Raises(c)
    /\ inbox' = [c \in Callers |-> <<>>]
    /\ outbox' = [c \in Callers |->
          IF c = peer THEN outbox[c] \o [i \in 1..Unanswered(c) |-> ErrorReply] ELSE <<>>]
    /\ disturbed' = TRUE
    /\ UNCHANGED <<appVars, peer, usedPeers>>

HelperSide == \E c \in Callers : HelperTakes(c) \/ HelperReplies(c)

Next ==
    \/ AppLaunches \/ AppQuits \/ UserActs \/ AppReceives \/ AppUpgrades
    \/ HelperSide \/ HelperWorks \/ HelperDies

\* As for the helper alone; the main queue and the connection make progress.
Fairness ==
    /\ WF_vars(AppReceives)
    /\ \A c \in Callers :
          /\ WF_vars(HelperTakes(c))
          /\ WF_vars(HelperReplies(c))
          /\ WF_vars(ConnectStep(c) /\ UNCHANGED <<crashes, appVars, wires>>)
          /\ WF_vars(DisconnectStep(c) /\ UNCHANGED <<crashes, appVars, wires>>)
    /\ WF_vars(HelperDies /\ UNCHANGED crashes)
    /\ \A t \in Threads :
          /\ WF_vars(BlockStep(t) /\ UNCHANGED <<crashes, appVars, wires>>)
          /\ WF_vars(tunnel[t] = "launched" /\ TunnelStep(t)
                        /\ UNCHANGED <<crashes, appVars, wires>>)
          /\ WF_vars(TunnelStops(t) /\ UNCHANGED <<crashes, appVars, wires>>)
          /\ WF_vars(DeliverOutput(t) /\ UNCHANGED <<crashes, appVars, wires>>)

Spec == Init /\ [][Next]_vars

FairSpec == Spec /\ Fairness

-----------------------------------------------------------------------------
\* Properties of any history: quits, relaunches, deaths of the helper.

\* Every request of the running application is in exactly one place: waiting for
\* the helper, being served, or answered; and only its own answer, or the empty
\* one of a broken connection, can reach it (MessageProcessor.m:26-50,
\* XPCConnection.m:83-102).
EachRequestOnce ==
    running =>
        /\ Len(inFlight) = Len(inbox[peer]) + (IF pc[peer] = "idle" THEN 0 ELSE 1)
                              + Len(outbox[peer])
        /\ outbox[peer] # <<>> =>
              Head(outbox[peer]) = ErrorReply \/ Head(outbox[peer]).type = Head(inFlight).type

-----------------------------------------------------------------------------
\* One run of the application with a helper that stays alive.

Settled == running /\ inFlight = <<>>

\* A service whose SCNetworkConnectionStop failed: nobody will stop it any more.
StopFailed(t) == phase[t] = "finished" /\ ~success[t]

\* When the application shows a connection and nothing is out, the helper has it:
\* same server, a thread that waits for the disconnect, a program that was
\* started for that server (ConnectViewController.m:204-206, 165-168).
ShownIsReal ==
    Settled /\ shownConnected =>
        /\ IsConnected
        /\ connectedServer = currentServer
        /\ Started(clientThread)
        /\ dialled[clientThread] = currentServer

\* When it shows none, nothing it ever started still runs, except a service whose
\* stop failed.
DisconnectedIsDown ==
    Settled /\ ~shownConnected => \A t \in Threads : Running(t) => StopFailed(t)

\* The application never gets the helper to run two tunnels at once.
OneTunnel ==
    Cardinality({t \in Threads : Running(t) /\ ~StopFailed(t)}) <= 1

\* Whatever is asked is answered, and the application can be used again, unless
\* it is quit, a failed L2TP connect left the preferences locked, or a service that
\* had gone down by itself never called back the block that stops it (442-477).
EveryRequestAnswered ==
    (running /\ inFlight # <<>>) ~>
        (inFlight = <<>> \/ prefsLocked \/ \E t \in Threads : tunnel[t] = "silent")

\* An application that was quit and started again while nothing was under way shows
\* what the helper really has, once its chain of requests has told it: a tunnel
\* nobody would take down is never hidden behind "disconnected".  The exception is a
\* connect that lost the race of the polling loop (762-771): connectedServer is left
\* behind with a thread that was not started, and the new run is told "connected".
RelaunchIsTold ==
    ~disturbed /\ told =>
        /\ DisconnectedIsDown
        /\ Settled /\ shownConnected =>
              /\ IsConnected
              /\ connectedServer = currentServer
              /\ \/ Started(clientThread) /\ dialled[clientThread] = currentServer
                 \/ phase[clientThread] = "allocated" /\ ~Running(clientThread)

\* A disconnect that the helper answers with Fail leaves the application showing
\* the connection: ConnectViewController.m:169-170, "NOT DISCONNECTED".
FailedDisconnectIsShown ==
    [][running /\ inFlight # <<>> /\ inFlight' = Tail(inFlight)
          /\ outbox[peer] # <<>> /\ Head(outbox[peer]).type = "disconnect"
          /\ ~Head(outbox[peer]).ok
            => shownConnected' = shownConnected]_vars
=============================================================================
