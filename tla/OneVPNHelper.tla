---------------------------- MODULE OneVPNHelper ----------------------------
(***************************************************************************)
(* The privileged helper: main.m hands every message of an XPC peer to the *)
(* MessageProcessor, which serves it synchronously and replies.  XPC       *)
(* delivers the messages of one peer one at a time; the connections of     *)
(* several peers (an app that was quit and started again, two sessions)    *)
(* are served concurrently.  A peer that goes away is only logged.         *)
(*                                                                         *)
(* launchd starts the helper again, with nothing in memory, when it died.  *)
(***************************************************************************)
EXTENDS VPNConnectionManager, FiniteSets

CONSTANT MaxCrashes     \* bound: how often the helper is killed from outside

ASSUME CrashAssumption == MaxCrashes \in Nat

VARIABLE crashes

helperVars == <<managerVars, crashes>>

HelperTypeOK ==
    /\ ManagerTypeOK
    /\ crashes \in 0..MaxCrashes

HelperInit ==
    /\ ManagerInit
    /\ crashes = 0

\* The manager's own steps, while nothing is received or answered.
Internal == ManagerStep /\ UNCHANGED crashes

\* What a peer is sent; ok is the status, or "connected" in a status reply.
Reply(type, ok, srv) == [type |-> type, ok |-> ok, server |-> srv]
Replies == [type : {"version", "pathes", "status", "connect", "disconnect"},
            ok : BOOLEAN, server : Servers \cup {NoServer}]

-----------------------------------------------------------------------------
\* processRequest: requests answered on the spot.

HandleVersion(c) ==
    /\ pc[c] = "idle"
    /\ UNCHANGED helperVars

VersionReply == Reply("version", TRUE, NoServer)

HandlePathes(c) ==
    /\ pc[c] = "idle"
    /\ paths' = TRUE
    /\ UNCHANGED <<threadVars, connectedServer, clientThread, outsideVars,
                   attemptVars, callVars, crashes>>

PathesReply == Reply("pathes", TRUE, NoServer)

\* Mutant: a thread is taken for a connection.
StatusOfThread(c) ==
    /\ pc[c] = "idle"
    /\ connected' = [connected EXCEPT ![c] = clientThread # NoThread]
    /\ Goto(c, "replyStatus")
    /\ UNCHANGED <<threadVars, managerProps, outsideVars, attemptVars, requestVars,
                   result, crashes>>

\* Status reads isConnected first and the server after it.
ReceiveStatus(c) ==
    /\ pc[c] = "idle"
    /\ connected' = [connected EXCEPT ![c] = IsConnected]
    /\ Goto(c, "replyStatus")
    /\ UNCHANGED <<threadVars, managerProps, outsideVars, attemptVars, requestVars,
                   result, crashes>>

ReplyStatus(c) ==
    /\ pc[c] = "replyStatus"
    /\ Return(c)
    /\ UNCHANGED <<threadVars, managerProps, outsideVars, attemptVars, crashes>>

StatusReply(c) == Reply("status", connected[c], connectedServer)

-----------------------------------------------------------------------------
\* processRequest: connect and disconnect call the manager in between.

\* Bound: the model has a ClientThread left for the attempt.
HasSpareThread ==
    Cardinality({t \in Threads : phase[t] = "free" /\ tunnel[t] = "none"})
        > Cardinality({c \in Callers : pc[c] \in {"connect", "newThread"}})

ReceiveConnect(c, s) ==
    /\ pc[c] = "idle"
    /\ HasSpareThread
    /\ arg' = [arg EXCEPT ![c] = s]
    /\ Goto(c, "connect")
    /\ UNCHANGED <<threadVars, managerProps, outsideVars, attemptVars, attempt, starting,
                   retries, connected, result, crashes>>

ReplyConnect(c) ==
    /\ pc[c] = "replyConnect"
    /\ Return(c)
    /\ UNCHANGED <<threadVars, managerProps, outsideVars, attemptVars, crashes>>

ConnectReply(c) == Reply("connect", result[c], NoServer)

ReceiveDisconnect(c) ==
    /\ pc[c] = "idle"
    /\ Goto(c, "disconnect")
    /\ UNCHANGED <<threadVars, managerProps, outsideVars, attemptVars, requestVars,
                   connected, result, crashes>>

ReplyDisconnect(c) ==
    /\ pc[c] = "replyDisconnect"
    /\ Return(c)
    /\ UNCHANGED <<threadVars, managerProps, outsideVars, attemptVars, crashes>>

DisconnectReply(c) == Reply("disconnect", result[c], NoServer)

-----------------------------------------------------------------------------
\* The process dies: memory, threads and the preferences lock are gone; an
\* openvpn or pppd it launched may live on, a system connection does, and the
\* configuration files stay.  Pending requests are never answered.
Die ==
    /\ phase' = [t \in Threads |-> "free"]
    /\ cancelled' = [t \in Threads |-> FALSE]
    /\ lock' = [t \in Threads |-> 0]
    /\ signalled' = [t \in Threads |-> FALSE]
    /\ success' = [t \in Threads |-> FALSE]
    /\ waits' = [c \in Callers |-> NotWaiting]
    /\ connectedServer' = NoServer
    /\ clientThread' = NoThread
    /\ paths' = FALSE
    /\ prefsLocked' = FALSE
    /\ \E orphans \in SUBSET {t \in Threads : Running(t)} :
          /\ \A t \in Threads : Running(t) /\ L2TP(server[t]) => t \in orphans
          /\ tunnel' = [t \in Threads |-> IF t \in orphans THEN tunnel[t] ELSE "none"]
    /\ stopping' = [t \in Threads |-> FALSE]
    /\ cinfo' = [t \in Threads |-> "disconnected"]
    /\ pc' = [c \in Callers |-> "idle"]
    /\ arg' = [c \in Callers |-> NoServer]
    /\ attempt' = [c \in Callers |-> NoThread]
    /\ starting' = [c \in Callers |-> NoThread]
    /\ retries' = [c \in Callers |-> 0]
    /\ connected' = [c \in Callers |-> FALSE]
    /\ result' = [c \in Callers |-> FALSE]
    /\ UNCHANGED <<config, server, dialled, said, heard>>

Killed ==
    /\ crashes < MaxCrashes
    /\ Die
    /\ crashes' = crashes + 1

\* What raises an exception nobody catches, or uses freed memory: a nil launch path
\* (PPTP in its block, OpenVPN before the thread is made), a task launched or a thread
\* started a second time, the status of an L2TP attempt somebody disconnected.
NilLaunchPath(c) ==
    /\ ~paths
    /\ \/ pc[c] = "launch"
       \/ pc[c] = "newThread" /\ Protocol[arg[c]] \in {"tcp", "udp"}

StartedTwice(c) ==
    \/ pc[c] = "launch" /\ tunnel[starting[c]] # "none"
    \/ pc[c] = "start" /\ connected[c] /\ phase[starting[c]] # "allocated"

StatusFreed(c) ==
    \/ pc[c] = "runLoop" /\ cinfo[starting[c]] = "freed"
    \/ pc[c] \in {"adopt", "cause"} /\ cinfo[attempt[c]] = "freed"

Raises(c) ==
    /\ NilLaunchPath(c) \/ StartedTwice(c) \/ StatusFreed(c)
    /\ Die
    /\ UNCHANGED crashes

Serve(c) ==
    \/ HandleVersion(c) \/ HandlePathes(c) \/ ReceiveStatus(c) \/ ReplyStatus(c)
    \/ \E s \in Servers : ReceiveConnect(c, s)
    \/ ReplyConnect(c) \/ ReceiveDisconnect(c) \/ ReplyDisconnect(c)

HelperNext ==
    \/ Internal
    \/ \E c \in Callers : Serve(c) \/ Raises(c)
    \/ Killed

\* The handlers, blocks and output handlers run; a launched program or dialled
\* connection settles (connect-retry-max, the PPP controller's timeouts), and a
\* terminated one goes down.  Requests and failures are nobody's duty.
HelperFairness ==
    /\ \A c \in Callers :
          /\ WF_helperVars(ConnectStep(c) /\ UNCHANGED crashes)
          /\ WF_helperVars(DisconnectStep(c) /\ UNCHANGED crashes)
          /\ WF_helperVars(ReplyStatus(c) \/ ReplyConnect(c) \/ ReplyDisconnect(c))
          /\ WF_helperVars(Raises(c))
    /\ \A t \in Threads :
          /\ WF_helperVars(BlockStep(t) /\ UNCHANGED crashes)
          /\ WF_helperVars(tunnel[t] = "launched" /\ TunnelStep(t) /\ UNCHANGED crashes)
          /\ WF_helperVars(TunnelStops(t) /\ UNCHANGED crashes)
          /\ WF_helperVars(DeliverOutput(t) /\ UNCHANGED crashes)

HelperSpec == HelperInit /\ [][HelperNext]_helperVars

FairHelperSpec == HelperSpec /\ HelperFairness

-----------------------------------------------------------------------------
\* What any number of peers can rely on is what ClientThread promises; what two of
\* them do to each other's tunnels is not promised.  The rest is for one peer on its
\* own, whose requests are served one at a time, and across deaths of the helper.

Started(t) == phase[t] \in {"spawned", "inBlock"}

\* A thread runs for a tunnel that was really dialled: "Task is null. That's
\* very weird" (VPNConnectionManager.m:612-614) is never reached, whatever the
\* retry loop did to the task before.
StartedThreadHasTunnel ==
    \A t \in Threads : Started(t) \/ phase[t] = "finished" => tunnel[t] # "none"

\* A thread that reports success has taken its tunnel down (740-746, 477-497):
\* nothing joined with success is still carrying traffic.
SuccessMeansDown ==
    \A t \in Threads : phase[t] = "finished" /\ success[t] => tunnel[t] = "down"

\* A connect answered Ok left the manager on the server that was asked for, with
\* a thread that is running and that nobody has cancelled (705-796, 543-581).
OkMeansConnected ==
    \A c \in Callers : pc[c] = "replyConnect" /\ result[c] =>
        /\ IsConnected
        /\ connectedServer = arg[c]
        /\ clientThread = attempt[c]
        /\ Started(clientThread)
        /\ ~cancelled[clientThread]

\* The server the manager reports is the one its thread's program was started
\* with, though every attempt rewrites the same file (585, 706).
ReportsDialledServer ==
    \A c \in Callers :
        (pc[c] \in {"idle", "replyStatus"} /\ IsConnected /\ Started(clientThread)) =>
            /\ connectedServer = server[clientThread]
            /\ connectedServer = dialled[clientThread]

\* The only lock a disconnect can be stuck on is the one of an attempt that was
\* answered Fail: a task that printed its completion message and died before it
\* was polled again left connectedServer behind (762-771), or it replaced the
\* thread of a live connection.
StuckOnlyOnRefusedStart ==
    \A c \in Callers : WaitsOnDeadLock(c) =>
        /\ phase[clientThread] = "allocated"
        /\ ~Running(clientThread)
        /\ waits[c].number = lock[clientThread]

\* c waits for a block whose service was down before it was stopped (442-477).
WaitsForSilence(c) == waits[c] # NotWaiting /\ tunnel[waits[c].thread] = "silent"

\* Every request is answered, except for that disconnect, for one of a service that
\* had gone down by itself, and for an L2TP connect behind a preferences lock that a
\* failed attempt kept (220-353).
RequestsEnd ==
    \A c \in Callers : (pc[c] # "idle") ~>
        (pc[c] = "idle" \/ WaitsOnDeadLock(c) \/ WaitsForSilence(c) \/ prefsLocked)
=============================================================================
