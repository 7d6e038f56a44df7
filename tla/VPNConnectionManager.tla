------------------------ MODULE VPNConnectionManager ------------------------
(***************************************************************************)
(* VPNConnectionManager (OneVPNHelper/VPNConnectionManager): the shared    *)
(* object of the privileged helper that brings tunnels up and down.        *)
(*                                                                         *)
(* A request runs synchronously on the queue of the XPC peer that sent it, *)
(* so every caller has a program counter; two callers interleave on the    *)
(* nonatomic properties of the one manager.  Each connect method makes one *)
(* ClientThread; what its blocks capture (the task or connection, its      *)
(* output, the server) is indexed here by that thread.  The property       *)
(* clientThread is read again where the thread is started (543, 682, 793)  *)
(* and at each use in disconnect: another peer may have replaced it.       *)
(*                                                                         *)
(* A tunnel is an openvpn or pppd process, or the L2TP service the system  *)
(* dials; processes print, stop and die on their own.  Why an attempt      *)
(* failed (extStatus) is only the text of an alert, and left out.          *)
(***************************************************************************)
EXTENDS ClientThread

CONSTANTS
    Servers,
    NoServer,   \* nil
    Protocol    \* the protocol of each server

ASSUME ServerAssumption ==
    /\ NoServer \notin Servers
    /\ Protocol \in [Servers -> {"pptp", "l2tp", "tcp", "udp"}]

VARIABLES
    \* the properties of the manager
    connectedServer, clientThread,
    paths,        \* ovpnPath and pppdPath have been set
    \* files and locks outside the process
    config,       \* the server the openvpn and the pppd configuration name
    prefsLocked,  \* a failed attempt left SCPreferencesLock held
    \* one connect attempt, by its ClientThread
    server, tunnel, dialled,
    said,         \* the process has printed its completion message
    heard,        \* the message is in the output string
    stopping,     \* terminated, or SCNetworkConnectionStop accepted
    cinfo,        \* status of the last callback of the L2TP connection
    \* one request, by its caller
    pc, arg,
    attempt,      \* the thread the request made
    starting,     \* the thread it found in clientThread and sent -start
    retries,      \* of the PPTP loop
    connected,    \* local of the before-start block
    result        \* isConnected, then the value the method returns

managerProps == <<connectedServer, clientThread, paths>>
attemptVars == <<server, tunnel, dialled, said, heard, stopping, cinfo>>
requestVars == <<arg, attempt, starting, retries>>
callVars == <<pc, requestVars, connected, result>>
outsideVars == <<config, prefsLocked>>
managerVars == <<threadVars, managerProps, outsideVars, attemptVars, callVars>>

Kinds == {"openvpn", "pppd"}
ConnectSteps == {"connect", "newThread", "send", "launch", "poll", "checkRunning", "decided",
                 "start", "retry", "open", "runLoop", "adopt", "cause", "replyConnect"}
DisconnectSteps == {"disconnect", "cancel", "join", "joining", "collect", "forget",
                    "replyDisconnect"}
Steps == {"idle", "replyStatus"} \cup ConnectSteps \cup DisconnectSteps

ManagerTypeOK ==
    /\ ThreadTypeOK
    /\ connectedServer \in Servers \cup {NoServer}
    /\ clientThread \in Threads \cup {NoThread}
    /\ paths \in BOOLEAN
    /\ config \in [Kinds -> Servers \cup {NoServer}]
    /\ prefsLocked \in BOOLEAN
    /\ server \in [Threads -> Servers \cup {NoServer}]
    /\ tunnel \in [Threads -> {"none", "launched", "up", "down", "silent"}]
    /\ dialled \in [Threads -> Servers \cup {NoServer}]
    /\ said \in [Threads -> BOOLEAN]
    /\ heard \in [Threads -> BOOLEAN]
    /\ stopping \in [Threads -> BOOLEAN]
    /\ cinfo \in [Threads -> {"disconnected", "connected", "freed"}]
    /\ pc \in [Callers -> Steps]
    /\ arg \in [Callers -> Servers \cup {NoServer}]
    /\ attempt \in [Callers -> Threads \cup {NoThread}]
    /\ starting \in [Callers -> Threads \cup {NoThread}]
    /\ retries \in [Callers -> Nat]
    /\ connected \in [Callers -> BOOLEAN]
    /\ result \in [Callers -> BOOLEAN]

ManagerInit ==
    /\ ThreadInit
    /\ connectedServer = NoServer
    /\ clientThread = NoThread
    /\ paths = FALSE
    /\ config = [k \in Kinds |-> NoServer]
    /\ prefsLocked = FALSE
    /\ server = [t \in Threads |-> NoServer]
    /\ tunnel = [t \in Threads |-> "none"]
    /\ dialled = [t \in Threads |-> NoServer]
    /\ said = [t \in Threads |-> FALSE]
    /\ heard = [t \in Threads |-> FALSE]
    /\ stopping = [t \in Threads |-> FALSE]
    /\ cinfo = [t \in Threads |-> "disconnected"]
    /\ pc = [c \in Callers |-> "idle"]
    /\ arg = [c \in Callers |-> NoServer]
    /\ attempt = [c \in Callers |-> NoThread]
    /\ starting = [c \in Callers |-> NoThread]
    /\ retries = [c \in Callers |-> 0]
    /\ connected = [c \in Callers |-> FALSE]
    /\ result = [c \in Callers |-> FALSE]

IsConnected == connectedServer # NoServer /\ clientThread # NoThread

L2TP(s) == Protocol[s] = "l2tp"
Kind(s) == IF Protocol[s] = "pptp" THEN "pppd" ELSE "openvpn"
Running(t) == tunnel[t] \in {"launched", "up"}
Goto(c, step) == pc' = [pc EXCEPT ![c] = step]

\* The request is over: its local variables are gone.
Return(c) ==
    /\ Goto(c, "idle")
    /\ arg' = [arg EXCEPT ![c] = NoServer]
    /\ attempt' = [attempt EXCEPT ![c] = NoThread]
    /\ starting' = [starting EXCEPT ![c] = NoThread]
    /\ retries' = [retries EXCEPT ![c] = 0]
    /\ connected' = [connected EXCEPT ![c] = FALSE]
    /\ result' = [result EXCEPT ![c] = FALSE]

-----------------------------------------------------------------------------
\* connectToServer: one method per protocol.

\* Mutant: a configuration file that exists is kept.
KeepConfig(c) ==
    /\ pc[c] = "connect"
    /\ ~L2TP(arg[c])
    /\ config' = [config EXCEPT ![Kind(arg[c])] = IF @ = NoServer THEN arg[c] ELSE @]
    /\ Goto(c, "newThread")
    /\ UNCHANGED <<threadVars, managerProps, prefsLocked, attemptVars,
                   requestVars, connected, result>>

\* OpenVPN and PPTP write the one configuration file of their program; what
\* another attempt wrote there is gone.
WriteConfig(c) ==
    /\ pc[c] = "connect"
    /\ ~L2TP(arg[c])
    /\ config' = [config EXCEPT ![Kind(arg[c])] = arg[c]]
    /\ Goto(c, "newThread")
    /\ UNCHANGED <<threadVars, managerProps, prefsLocked, attemptVars,
                   requestVars, connected, result>>

\* L2TP rewrites the network service first.  An early return before the lock is
\* taken or after it is released just fails; one in between leaves it locked, and
\* the next attempt then waits for it in SCPreferencesCommitChanges.
PreparePrefs(c) ==
    /\ pc[c] = "connect"
    /\ L2TP(arg[c])
    /\ ~prefsLocked
    /\ \/ Goto(c, "newThread") /\ UNCHANGED <<prefsLocked, result>>
       \/ /\ Goto(c, "replyConnect")
          /\ result' = [result EXCEPT ![c] = FALSE]
          /\ prefsLocked' \in BOOLEAN
    /\ UNCHANGED <<threadVars, managerProps, config, attemptVars, requestVars, connected>>

\* The manager forgets the thread of an earlier attempt, running or not.  OpenVPN
\* has set the launch path of its task before.
NewClientThread(c, t) ==
    /\ pc[c] = "newThread"
    /\ Protocol[arg[c]] \in {"tcp", "udp"} => paths
    /\ tunnel[t] = "none"
    /\ InitThread(t)
    /\ clientThread' = t
    /\ server' = [server EXCEPT ![t] = arg[c]]
    /\ attempt' = [attempt EXCEPT ![c] = t]
    /\ connected' = [connected EXCEPT ![c] = FALSE]
    /\ Goto(c, "send")
    /\ UNCHANGED <<connectedServer, paths, outsideVars, tunnel, dialled, said,
                   heard, stopping, cinfo, arg, starting, retries, result>>

\* Where a request goes on when -start has returned.
AfterStart(c) ==
    CASE L2TP(arg[c]) -> "adopt"
      [] Protocol[arg[c]] = "pptp" /\ ~result[c] -> "retry"
      [] OTHER -> "replyConnect"

\* [self.clientThread start]: the thread that is the manager's by now, whose
\* before-start block runs on this caller; a message to nil does nothing.
\* Bound: nobody else starts the thread of a PPTP request.
SendStart(c) ==
    LET t == clientThread IN
    /\ pc[c] = "send"
    /\ starting' = [starting EXCEPT ![c] = t]
    /\ \/ t = NoThread /\ Goto(c, AfterStart(c))
       \/ t # NoThread /\ L2TP(server[t]) /\ Goto(c, "open")
       \/ /\ t # NoThread /\ ~L2TP(server[t])
          /\ Protocol[server[t]] = "pptp" => t = attempt[c]
          /\ Goto(c, "launch")
    /\ UNCHANGED <<threadVars, managerProps, outsideVars, attemptVars, arg, attempt,
                   retries, connected, result>>

-----------------------------------------------------------------------------
\* The before-start block of OpenVPN and PPTP.

\* A task is launched once; a PPTP block makes a new one each time.
LaunchTask(c) ==
    LET t == starting[c] IN
    /\ pc[c] = "launch"
    /\ paths
    /\ tunnel[t] = "none"
    /\ tunnel' = [tunnel EXCEPT ![t] = "launched"]
    /\ dialled' = [dialled EXCEPT ![t] = config[Kind(server[t])]]
    /\ said' = [said EXCEPT ![t] = FALSE]
    /\ heard' = [heard EXCEPT ![t] = FALSE]
    /\ connected' = [connected EXCEPT ![c] = FALSE]
    /\ Goto(c, "poll")
    /\ UNCHANGED <<threadVars, managerProps, outsideVars, server, stopping, cinfo,
                   requestVars, result>>

\* Mutant: connectedServer is not stored.
PollWithoutServer(c) ==
    /\ pc[c] = "poll"
    /\ connected' = [connected EXCEPT ![c] = heard[starting[c]]]
    /\ Goto(c, "checkRunning")
    /\ UNCHANGED <<threadVars, managerProps, outsideVars, attemptVars, requestVars, result>>

\* First half of the polling loop: the completion message in the output.
PollOutput(c) ==
    /\ pc[c] = "poll"
    /\ IF heard[starting[c]]
       THEN /\ connected' = [connected EXCEPT ![c] = TRUE]
            /\ connectedServer' = server[starting[c]]
       ELSE UNCHANGED <<connected, connectedServer>>
    /\ Goto(c, "checkRunning")
    /\ UNCHANGED <<threadVars, clientThread, paths, outsideVars, attemptVars,
                   requestVars, result>>

\* Mutant: the loop gives up after one look.
GiveUpEarly(c) ==
    /\ pc[c] = "checkRunning"
    /\ connected' = [connected EXCEPT ![c] = @ /\ Running(starting[c])]
    /\ Goto(c, "decided")
    /\ UNCHANGED <<threadVars, managerProps, outsideVars, attemptVars, requestVars, result>>

\* Second half: a task that is not running any more ends the loop with failure,
\* but connectedServer keeps what the first half stored.
CheckRunning(c) ==
    /\ pc[c] = "checkRunning"
    /\ connected' = [connected EXCEPT ![c] = @ /\ Running(starting[c])]
    /\ Goto(c, IF connected[c] \/ ~Running(starting[c]) THEN "decided" ELSE "poll")
    /\ UNCHANGED <<threadVars, managerProps, outsideVars, attemptVars, requestVars, result>>

\* isConnected belongs to the request that made the block.  The output ends with
\* the block that reads it.
StoreOutcome(c) ==
    LET t == starting[c] IN
    /\ pc[c] = "decided"
    /\ result' = [d \in Callers |-> IF attempt[d] = t THEN connected[c] ELSE result[d]]
    /\ said' = [said EXCEPT ![t] = FALSE]
    /\ heard' = [heard EXCEPT ![t] = FALSE]
    /\ Goto(c, "start")
    /\ UNCHANGED <<threadVars, managerProps, outsideVars, server, tunnel, dialled, stopping,
                   cinfo, requestVars, connected>>

\* Mutant: the retry loop does not stop after a success.
RetryAlways(c) ==
    /\ pc[c] = "start"
    /\ StartThread(starting[c], connected[c])
    /\ Goto(c, IF Protocol[arg[c]] = "pptp" THEN "retry" ELSE AfterStart(c))
    /\ UNCHANGED <<managerProps, outsideVars, attemptVars, requestVars, connected, result>>

\* -[ClientThread start] after the before-start block, for all protocols.
StartClientThread(c) ==
    /\ pc[c] = "start"
    /\ StartThread(starting[c], connected[c])
    /\ Goto(c, AfterStart(c))
    /\ UNCHANGED <<managerProps, outsideVars, attemptVars, requestVars, connected, result>>

\* PPTP only: the request's own task is terminated and dropped; then the thread is
\* started again, MaxStarts times in all (five in the code).
Retry(c) ==
    /\ pc[c] = "retry"
    /\ tunnel' = [tunnel EXCEPT ![attempt[c]] = "none"]
    /\ retries' = [retries EXCEPT ![c] = @ + 1]
    /\ Goto(c, IF retries[c] + 1 = MaxStarts THEN "replyConnect" ELSE "send")
    /\ UNCHANGED <<threadVars, managerProps, outsideVars, server, dialled, said, heard,
                   stopping, cinfo, arg, attempt, starting, connected, result>>

-----------------------------------------------------------------------------
\* L2TP: the connection is opened on the caller's run loop.

\* Scheduling or starting the connection may fail; otherwise the caller waits.
OpenConnection(c) ==
    LET t == starting[c] IN
    /\ pc[c] = "open"
    /\ \/ Goto(c, "start") /\ UNCHANGED <<tunnel, dialled>>
       \/ /\ tunnel' = [tunnel EXCEPT ![t] = IF @ = "up" THEN @ ELSE "launched"]
          /\ dialled' = [dialled EXCEPT ![t] = server[t]]
          /\ Goto(c, "runLoop")
    /\ connected' = [connected EXCEPT ![c] = FALSE]
    /\ UNCHANGED <<threadVars, managerProps, outsideVars, server, said, heard, stopping,
                   cinfo, requestVars, result>>

\* The callback that stops the run loop: connected, or disconnected/invalid.
Callback(c) ==
    LET t == starting[c] IN
    /\ pc[c] = "runLoop"
    /\ tunnel[t] \in {"up", "down"}
    /\ cinfo[t] # "freed"
    /\ cinfo' = [cinfo EXCEPT ![t] = IF tunnel[t] = "up" THEN "connected" ELSE "disconnected"]
    /\ connected' = [connected EXCEPT ![c] = (tunnel[t] = "up")]
    /\ Goto(c, "start")
    /\ UNCHANGED <<threadVars, managerProps, outsideVars, server, tunnel, dialled, said,
                   heard, stopping, requestVars, result>>

\* After -start: connectedServer follows the status, whatever was connected.
AdoptServer(c) ==
    /\ pc[c] = "adopt"
    /\ cinfo[attempt[c]] # "freed"
    /\ connectedServer' = IF cinfo[attempt[c]] = "connected" THEN arg[c] ELSE NoServer
    /\ Goto(c, "cause")
    /\ UNCHANGED <<threadVars, clientThread, paths, outsideVars, attemptVars,
                   requestVars, connected, result>>

\* The cause is read from the same memory; the answer is the manager's server by then.
ReadCause(c) ==
    /\ pc[c] = "cause"
    /\ cinfo[attempt[c]] # "freed"
    /\ result' = [result EXCEPT ![c] = (connectedServer # NoServer)]
    /\ Goto(c, "replyConnect")
    /\ UNCHANGED <<threadVars, managerProps, outsideVars, attemptVars, requestVars, connected>>

ConnectStep(c) ==
    \/ WriteConfig(c) \/ PreparePrefs(c)
    \/ \E t \in Threads : NewClientThread(c, t)
    \/ SendStart(c) \/ LaunchTask(c) \/ PollOutput(c) \/ CheckRunning(c) \/ StoreOutcome(c)
    \/ StartClientThread(c) \/ Retry(c)
    \/ OpenConnection(c) \/ Callback(c) \/ AdoptServer(c) \/ ReadCause(c)

-----------------------------------------------------------------------------
\* disconnect.  Every use of self.clientThread reads the property again; only the
\* two properties isConnected compares are read in one step.

CheckConnected(c) ==
    /\ pc[c] = "disconnect"
    /\ Goto(c, IF IsConnected THEN "cancel" ELSE "replyDisconnect")
    /\ result' = [result EXCEPT ![c] = TRUE]
    /\ UNCHANGED <<threadVars, managerProps, outsideVars, attemptVars, requestVars, connected>>

\* Mutant: the thread is joined without being cancelled.
JoinOnly(c) ==
    /\ pc[c] = "cancel"
    /\ Goto(c, "join")
    /\ UNCHANGED <<threadVars, managerProps, outsideVars, attemptVars, requestVars,
                   connected, result>>

CancelClientThread(c) ==
    /\ pc[c] = "cancel"
    /\ IF clientThread = NoThread THEN UNCHANGED threadVars ELSE CancelThread(clientThread)
    /\ Goto(c, "join")
    /\ UNCHANGED <<managerProps, outsideVars, attemptVars, requestVars, connected, result>>

\* Messages to nil, and -join on a thread without a lock, return at once.
JoinClientThread(c) ==
    /\ pc[c] = "join"
    /\ \/ /\ clientThread = NoThread
          /\ Goto(c, "collect")
          /\ UNCHANGED threadVars
       \/ /\ clientThread # NoThread
          /\ JoinNilLock(clientThread)
          /\ Goto(c, "collect")
       \/ /\ clientThread # NoThread
          /\ JoinLock(c, clientThread)
          /\ Goto(c, "joining")
    /\ UNCHANGED <<managerProps, outsideVars, attemptVars, requestVars, connected, result>>

LeaveJoin(c) ==
    /\ pc[c] = "joining"
    /\ JoinReturns(c)
    /\ Goto(c, "collect")
    /\ UNCHANGED <<managerProps, outsideVars, attemptVars, requestVars, connected, result>>

CollectSuccess(c) ==
    /\ pc[c] = "collect"
    /\ result' = [result EXCEPT ![c] = (clientThread # NoThread /\ success[clientThread])]
    /\ Goto(c, "forget")
    /\ UNCHANGED <<threadVars, managerProps, outsideVars, attemptVars, requestVars, connected>>

\* Whatever thread is the manager's by now is forgotten.
ForgetThread(c) ==
    /\ pc[c] = "forget"
    /\ clientThread' = NoThread
    /\ Goto(c, "replyDisconnect")
    /\ UNCHANGED <<threadVars, connectedServer, paths, outsideVars, attemptVars,
                   requestVars, connected, result>>

DisconnectStep(c) ==
    CheckConnected(c) \/ CancelClientThread(c) \/ JoinClientThread(c)
        \/ LeaveJoin(c) \/ CollectSuccess(c) \/ ForgetThread(c)

-----------------------------------------------------------------------------
\* The blocks of the client threads: wait for the cancellation, take the
\* tunnel down, forget the server.

BlockEnters(t) ==
    /\ EnterBlock(t)
    /\ UNCHANGED <<managerProps, outsideVars, attemptVars, callVars>>

\* OpenVPN and PPTP: terminate the task; a nil task is skipped.
BlockTerminates(t) ==
    /\ phase[t] = "inBlock"
    /\ cancelled[t]
    /\ ~L2TP(server[t])
    /\ ~stopping[t]
    /\ tunnel[t] # "none"
    /\ stopping' = [stopping EXCEPT ![t] = TRUE]
    /\ UNCHANGED <<threadVars, managerProps, outsideVars, server, tunnel, dialled, said,
                   heard, cinfo, callVars>>

\* Mutant: no waitUntilExit.
ClearsWithoutWaiting(t) ==
    /\ phase[t] = "inBlock"
    /\ cancelled[t]
    /\ ~L2TP(server[t])
    /\ tunnel[t] = "none" \/ stopping[t]
    /\ FinishBlock(t, TRUE)
    /\ connectedServer' = NoServer
    /\ UNCHANGED <<clientThread, paths, outsideVars, attemptVars, callVars>>

\* ... and, when it has exited, clear connectedServer and return true.
BlockClears(t) ==
    /\ phase[t] = "inBlock"
    /\ cancelled[t]
    /\ ~L2TP(server[t])
    /\ \/ tunnel[t] = "none"
       \/ stopping[t] /\ tunnel[t] = "down"
    /\ FinishBlock(t, TRUE)
    /\ connectedServer' = NoServer
    /\ UNCHANGED <<clientThread, paths, outsideVars, attemptVars, callVars>>

\* L2TP: scheduling or stopping the connection may fail; the block then returns
\* false and leaves connectedServer as it is.  After an accepted stop it waits in
\* CFRunLoopRun for a callback; of a service that was down before, the status of
\* which is only logged, there may never be one.
BlockStops(t) ==
    /\ phase[t] = "inBlock"
    /\ cancelled[t]
    /\ L2TP(server[t])
    /\ ~stopping[t]
    /\ \/ FinishBlock(t, FALSE) /\ UNCHANGED <<stopping, tunnel>>
       \/ /\ stopping' = [stopping EXCEPT ![t] = TRUE]
          /\ tunnel' \in {tunnel,
                IF tunnel[t] = "down" THEN [tunnel EXCEPT ![t] = "silent"] ELSE tunnel}
          /\ UNCHANGED threadVars
    /\ UNCHANGED <<managerProps, outsideVars, server, dialled, said, heard, cinfo, callVars>>

\* The callback that ends the run loop of the block reports the disconnection; the
\* memory both blocks and the request read the status from is freed.
BlockDisconnected(t) ==
    /\ phase[t] = "inBlock"
    /\ L2TP(server[t])
    /\ stopping[t]
    /\ tunnel[t] = "down"
    /\ cinfo' = [cinfo EXCEPT ![t] = "freed"]
    /\ connectedServer' = NoServer
    /\ FinishBlock(t, TRUE)
    /\ UNCHANGED <<clientThread, paths, outsideVars, server, tunnel, dialled,
                   said, heard, stopping, callVars>>

\* The callback reports a connection: the block gives up and returns false.
BlockStillConnected(t) ==
    /\ phase[t] = "inBlock"
    /\ L2TP(server[t])
    /\ stopping[t]
    /\ tunnel[t] = "up"
    /\ cinfo' = [cinfo EXCEPT ![t] = "connected"]
    /\ FinishBlock(t, FALSE)
    /\ UNCHANGED <<managerProps, outsideVars, server, tunnel, dialled, said, heard,
                   stopping, callVars>>

BlockStep(t) ==
    BlockEnters(t) \/ BlockTerminates(t) \/ BlockClears(t)
        \/ BlockStops(t) \/ BlockDisconnected(t) \/ BlockStillConnected(t)

-----------------------------------------------------------------------------
\* The tunnels (external): processes and the system's PPP controller.

\* Only the before-start block reads the output.
OutputIsRead(t) ==
    \E c \in Callers : starting[c] = t /\ pc[c] \in {"poll", "checkRunning", "decided"}

\* The process is up and prints its completion message.
TunnelUp(t) ==
    /\ tunnel[t] = "launched"
    /\ tunnel' = [tunnel EXCEPT ![t] = "up"]
    /\ said' = [said EXCEPT ![t] = TRUE]
    /\ UNCHANGED <<threadVars, managerProps, outsideVars, server, dialled, heard, stopping,
                   cinfo, callVars>>

\* It ends: the server refuses the user, or any other reason.
TunnelFails(t) ==
    /\ Running(t)
    /\ tunnel' = [tunnel EXCEPT ![t] = "down"]
    /\ UNCHANGED <<threadVars, managerProps, outsideVars, server, dialled, said, heard,
                   stopping, cinfo, callVars>>

\* A terminated process exits, or the stopped connection goes down.
TunnelStops(t) ==
    /\ stopping[t]
    /\ TunnelFails(t)

\* The pipe's readability handler appends what was printed to the output.
DeliverOutput(t) ==
    /\ heard[t] # said[t]
    /\ OutputIsRead(t)
    /\ heard' = [heard EXCEPT ![t] = said[t]]
    /\ UNCHANGED <<threadVars, managerProps, outsideVars, server, tunnel, dialled, said,
                   stopping, cinfo, callVars>>

TunnelStep(t) == TunnelUp(t) \/ TunnelFails(t) \/ DeliverOutput(t)

ManagerStep ==
    \/ \E c \in Callers : ConnectStep(c) \/ DisconnectStep(c)
    \/ \E t \in Threads : BlockStep(t) \/ TunnelStep(t)
=============================================================================
