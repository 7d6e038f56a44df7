---------------------------- MODULE OpenVPNProcess ----------------------------
(***************************************************************************)
(* The life of one openvpn process (openvpn.c, sig.c, init.c, forward.c    *)
(* and push.c), run as the helper runs it: a client that pulls its options *)
(* and has remap-usr1 SIGTERM, --up and --down, no persist-tun of its own. *)
(*                                                                         *)
(* One variable, signal_received, is written by the signal handler at any  *)
(* moment and by the program itself, now by register_signal and now by a   *)
(* plain assignment; the event loop looks at it between its stages.  A     *)
(* step is the code between two looks, or between two places where it      *)
(* matters that a signal may come.                                         *)
(*                                                                         *)
(* The peer and the network (external) are the choices of the steps that   *)
(* listen to them.  Nobody sends it SIGHUP or SIGUSR1, yet it can restart: *)
(* a SIGUSR1 it assigns itself while a SIGTERM has come becomes SIGHUP.    *)
(***************************************************************************)
EXTENDS Integers, Sequences

CONSTANTS Protos,           \* --proto of the configuration: a subset of tcp and udp
          MaxPushRequests,  \* handshake_window / PUSH_REQUEST_INTERVAL
          MaxNotify,        \* bound: the explicit-exit-notify a server pushes
          MaxTerms          \* bound: how often SIGTERM is sent to the process

ASSUME ProcessAssumption ==
    /\ Protos \subseteq {"tcp", "udp"}
    /\ MaxPushRequests \in Nat /\ MaxNotify \in Nat /\ MaxTerms \in Nat

VARIABLES
    proto,      \* of the configuration
    pc,         \* the stage the process is in
    sig,        \* signal_received
    hard,       \* the handler has stored a signal: siginfo_static.hard
    sigSave,    \* sig_save of link_socket_init_phase2
    heard,      \* connection_established: a packet of the server was authenticated
    pull,       \* before the first PUSH_REQUEST, while they are repeated, after that
    requests,   \* n_sent_push_requests
    upRan,      \* do_up_ran
    delayed,    \* route_wakeup: the routes, and with them the completion, are still to come
    tun,        \* the tun interface is open: c1.tuntap
    abortable,  \* static_context: an exit anywhere closes the interface
    notify,     \* explicit_exit_notification, in seconds; 0 without one
    waited,     \* seconds since the exit notification began, NotWaiting before
    scripts,    \* history: the scripts that ran to their end
    said,       \* history: what was printed, of the markers the helper looks for
    terms,      \* history: how many SIGTERMs were sent
    termed      \* history: the last of them came before the event loop, or late

sigVars == <<sig, hard, sigSave>>
linkVars == <<heard, pull, requests>>
notifyVars == <<notify, waited>>
tunVars == <<upRan, delayed, tun, abortable, scripts, said>>
termVars == <<terms, termed>>
vars == <<proto, pc, sigVars, linkVars, notifyVars, tunVars, termVars>>

NotWaiting == -1
IsSig == sig # "none"
Waiting == waited # NotWaiting

\* The looks at the signal, and what comes next without one.
After == [preSelected |-> "wait", timeout |-> "coarse", ready |-> "io", ioDone |-> "coarse"]
Looks == DOMAIN After
InitStages == {"exec", "options", "setup", "socket", "phase2", "handled"}
LoopStages == {"coarse", "timeouts", "tls", "control", "opening", "upScript", "completing",
               "wait", "io"} \cup Looks
EndStages == {"close", "downScript", "loops", "exit", "abortScript", "exited"}

ProcessInit ==
    /\ proto \in Protos
    /\ pc = "exec"
    /\ sig = "none" /\ hard = FALSE /\ sigSave = "none"
    /\ heard = FALSE /\ pull = "before" /\ requests = 0
    /\ upRan = FALSE /\ delayed = FALSE /\ tun = FALSE /\ abortable = FALSE
    /\ notify = 0 /\ waited = NotWaiting
    /\ scripts = << >> /\ said = {}
    /\ terms = 0 /\ termed = "no"

\* register_signal: SIGTERM is not replaced.
Registered(s) == IF sig = "TERM" THEN "TERM" ELSE s

\* Mutant: remap-usr1 is not looked at.
NoRemap(s) == s
Remap(s) == IF s = "USR1" THEN "TERM" ELSE s

-----------------------------------------------------------------------------
\* From main to the event loop.

PreInitSignalCatch ==
    /\ pc = "exec"
    /\ pc' = "options"
    /\ UNCHANGED <<proto, sigVars, linkVars, notifyVars, tunVars, termVars>>

\* The options have been read; init_instance starts without a signal, whatever came.
ResetSignal ==
    /\ pc = "options"
    /\ pc' = "setup"
    /\ sig' = "none" /\ hard' = FALSE
    /\ UNCHANGED <<proto, sigSave, linkVars, notifyVars, tunVars, termVars>>

\* It looks at the signal once more before it creates the socket; an earlier look, before
\* the keys are read, comes to the same.
CheckSetup ==
    /\ pc = "setup"
    /\ pc' = IF IsSig THEN "handled" ELSE "socket"
    /\ UNCHANGED <<proto, sigVars, linkVars, notifyVars, tunVars, termVars>>

\* The socket is created, which looks the server up.  Its second phase puts the number of
\* a signal aside while it resolves and connects, but leaves hard as it is.
SaveSignal ==
    /\ pc = "socket"
    /\ pc' = "phase2"
    /\ sigSave' = sig
    /\ sig' = "none"
    /\ UNCHANGED <<proto, hard, linkVars, notifyVars, tunVars, termVars>>

Restored(s) == IF s = "none" THEN sigSave ELSE s

\* It ends with the connection, with a signal, or with SIGUSR1 after its retries; that
\* is assigned even when SIGTERM came since the last look, or was put aside.
Phase2Ends ==
    /\ pc = "phase2"
    /\ \E s \in {sig, "USR1"} : sig' = Restored(s)
    /\ pc' = "handled"
    /\ UNCHANGED <<proto, hard, sigSave, linkVars, notifyVars, tunVars, termVars>>

\* close_context, with CC_HARD_USR1_TO_HUP.
Closed(s) == IF s = "USR1" /\ hard THEN "HUP" ELSE s

\* If init_instance returns with a signal, its sockets are closed and nothing else was
\* open; the loop is not entered.
HandleInitSignal ==
    /\ pc = "handled"
    /\ pc' = IF IsSig THEN "loops" ELSE "coarse"
    /\ sig' = Remap(Closed(sig))
    /\ UNCHANGED <<proto, hard, sigSave, linkVars, notifyVars, tunVars, termVars>>

-----------------------------------------------------------------------------
\* pre_select: the coarse timers.

\* The first timers send the PUSH_REQUESTs; when there were enough, SIGUSR1 is assigned.
PushTimers ==
    /\ pc = "coarse"
    /\ pc' = "timeouts"
    /\ \/ UNCHANGED <<sig, pull, requests>>
       \/ /\ heard /\ pull = "before"
          /\ pull' = "asking"
          /\ UNCHANGED <<sig, requests>>
       \/ /\ pull = "asking" /\ requests < MaxPushRequests
          /\ requests' = requests + 1
          /\ UNCHANGED <<sig, pull>>
       \/ /\ pull = "asking" /\ requests = MaxPushRequests
          /\ sig' = "USR1"
          /\ UNCHANGED <<pull, requests>>
    /\ UNCHANGED <<proto, hard, sigSave, heard, notifyVars, tunVars, termVars>>

\* No other timer is due, or a signal ends the round.
NoTimeout ==
    /\ pc = "timeouts"
    /\ pc' = IF IsSig THEN "preSelected" ELSE "tls"
    /\ UNCHANGED <<proto, sigVars, linkVars, notifyVars, tunVars, termVars>>

\* The peer was silent: inactivity and server poll register their signal, ping-exit and
\* ping-restart assign theirs.
TimesOut ==
    /\ pc = "timeouts"
    /\ \/ upRan /\ sig' = "TERM"                             \* inactive, if pushed
       \/ sig' = "USR1"                                      \* ping-restart
       \/ heard /\ sig' = "TERM"                             \* ping-exit, if pushed
       \/ ~heard /\ sig' = Registered("USR1")                \* server-poll-timeout
    /\ pc' = "preSelected"
    /\ UNCHANGED <<proto, hard, sigSave, linkVars, notifyVars, tunVars, termVars>>

\* Once a second during the exit notification: OCC_EXIT is sent to the peer, until the
\* time is over.  An assertion fails if the option is gone by then.
NotificationWakes ==
    /\ pc = "timeouts" /\ ~IsSig
    /\ Waiting
    /\ \/ /\ notify = 0
          /\ pc' = "exit"
          /\ UNCHANGED <<sig, waited>>
       \/ /\ notify # 0 /\ waited >= notify
          /\ sig' = "TERM"
          /\ pc' = "tls"
          /\ UNCHANGED waited
       \/ /\ notify # 0 /\ waited < notify
          /\ waited' = waited + 1
          /\ pc' = "tls"
          /\ UNCHANGED sig
    /\ UNCHANGED <<proto, hard, sigSave, linkVars, notify, tunVars, termVars>>

-----------------------------------------------------------------------------
\* pre_select: the control channel.

CheckTls ==
    /\ pc = "tls"
    /\ \/ ~IsSig /\ pc' = "control" /\ UNCHANGED sig
       \/ IsSig /\ pc' = "preSelected" /\ UNCHANGED sig
       \/ sig' = Registered("USR1") /\ pc' = "preSelected"   \* check_tls_errors
    /\ UNCHANGED <<proto, hard, sigSave, linkVars, notifyVars, tunVars, termVars>>

NoControlMessage ==
    /\ pc = "control"
    /\ pc' = "preSelected"
    /\ UNCHANGED <<proto, sigVars, linkVars, notifyVars, tunVars, termVars>>

\* AUTH_FAILED, RESTART and HALT assign a signal; the first is printed.
ReceiveAuthFailed ==
    /\ pc = "control" /\ heard
    /\ sig' = "TERM"
    /\ said' = said \cup {"auth"}
    /\ pc' = "preSelected"
    /\ UNCHANGED <<proto, hard, sigSave, linkVars, notifyVars, upRan, delayed, tun,
                   abortable, scripts, termVars>>

ServerPushedSignal ==
    /\ pc = "control" /\ heard
    /\ sig' \in {"USR1", "TERM"}
    /\ pc' = "preSelected"
    /\ UNCHANGED <<proto, hard, sigSave, linkVars, notifyVars, tunVars, termVars>>

\* The notification a message pushes, if it does.
Pushed == {notify} \cup (0 .. MaxNotify)

Deferred(n) == IF proto = "tcp" THEN 0 ELSE n

\* A PUSH_REPLY that others follow sets its options; the last one, unless the interface
\* was already brought up, also applies the deferred ones and brings it up.
IncomingPushMessage ==
    /\ pc = "control" /\ heard
    /\ pull' = "after"
    /\ \E n \in Pushed :
          \/ notify' = n /\ pc' = "preSelected"
          \/ ~upRan /\ notify' = Deferred(n) /\ pc' = "opening"
    /\ UNCHANGED <<proto, sigVars, heard, requests, waited, tunVars, termVars>>

-----------------------------------------------------------------------------
\* do_up: the interface and the up script.

\* Mutant: the up script is left out.
OpenSilently ==
    /\ pc = "opening"
    /\ tun' = TRUE
    /\ pc' = "completing"
    /\ UNCHANGED <<proto, sigVars, linkVars, notifyVars, upRan, delayed, abortable,
                   scripts, said, termVars>>

DoOpenTun ==
    /\ pc = "opening"
    /\ tun' = TRUE
    /\ pc' = "upScript"
    /\ UNCHANGED <<proto, sigVars, linkVars, notifyVars, upRan, delayed, abortable,
                   scripts, said, termVars>>

\* Mutant: static_context is not set.
OpenForgotten ==
    /\ pc = "upScript"
    /\ scripts' = Append(scripts, "up")
    /\ pc' = "completing"
    /\ UNCHANGED <<proto, sigVars, linkVars, notifyVars, upRan, delayed, tun, abortable,
                   said, termVars>>

\* A script that fails ends the process, which does not undo it: static_context is not
\* set before the script has returned.
RunUpScript ==
    /\ pc = "upScript"
    /\ \/ /\ scripts' = Append(scripts, "up")
          /\ abortable' = TRUE
          /\ pc' = "completing"
       \/ /\ scripts' = Append(scripts, "failed")
          /\ pc' = "exit"
          /\ UNCHANGED abortable
    /\ UNCHANGED <<proto, sigVars, linkVars, notifyVars, upRan, delayed, tun, said,
                   termVars>>

\* do_up ends with the completion message, unless the server pushed route-delay.
InitializationSequenceCompleted ==
    /\ pc = "completing"
    /\ \/ said' = said \cup {"completed"} /\ UNCHANGED delayed
       \/ delayed' = TRUE /\ UNCHANGED said
    /\ upRan' = TRUE
    /\ pc' = "preSelected"
    /\ UNCHANGED <<proto, sigVars, linkVars, notifyVars, tun, abortable, scripts,
                   termVars>>

\* check_add_routes, one of the coarse timers: the routes are set and the message printed
\* later, when the interface is ready or the delay is over, whatever signal there is.
AddRoutes ==
    /\ pc = "timeouts" /\ delayed
    /\ delayed' = FALSE
    /\ said' = said \cup {"completed"}
    /\ UNCHANGED <<proto, pc, sigVars, linkVars, notifyVars, upRan, tun, abortable,
                   scripts, termVars>>

-----------------------------------------------------------------------------
\* The rest of the loop.

\* The wait ends when something is ready or the next timer is due; with a signal it is
\* not begun.
IoWait ==
    /\ pc = "wait"
    /\ pc' \in {"timeout", "ready"}
    /\ UNCHANGED <<proto, sigVars, linkVars, notifyVars, tunVars, termVars>>

\* Packets of the tunnel pass; a packet of the server is authenticated for the first time;
\* the connection is reset, which the exit notification ignores; the peer exits.
ProcessIo ==
    /\ pc = "io"
    /\ pc' = "ioDone"
    /\ \/ heard' \in {heard, TRUE} /\ UNCHANGED sig
       \/ proto = "tcp" /\ ~Waiting /\ sig' = Registered("USR1") /\ UNCHANGED heard
       \/ heard /\ sig' = "TERM" /\ UNCHANGED heard         \* OCC_EXIT
    /\ UNCHANGED <<proto, hard, sigSave, pull, requests, notifyVars, tunVars, termVars>>

\* Mutant: the signal of the timer that ends the notification begins it again.
NotifiesAgain == notify # 0
BeginsNotification == notify # 0 /\ ~Waiting

\* process_signal_p2p: the remapping leaves no signal but SIGTERM, which begins the exit
\* notification or ends the loop.
CheckSignal ==
    /\ pc \in Looks
    /\ \/ /\ ~IsSig
          /\ pc' = After[pc]
          /\ UNCHANGED <<sig, hard, waited>>
       \/ /\ IsSig /\ Remap(sig) = "TERM" /\ BeginsNotification
          /\ sig' = "none" /\ hard' = FALSE
          /\ waited' = 0
          /\ pc' = "coarse"
       \/ /\ IsSig /\ ~(Remap(sig) = "TERM" /\ BeginsNotification)
          /\ sig' = Remap(sig)
          /\ pc' = "close"
          /\ UNCHANGED <<hard, waited>>
    /\ UNCHANGED <<proto, sigSave, linkVars, notify, tunVars, termVars>>

-----------------------------------------------------------------------------
\* The end.

\* close_instance: do_close_tun ...
CloseInstance ==
    /\ pc = "close"
    /\ pc' = IF tun THEN "downScript" ELSE "loops"
    /\ tun' = FALSE
    /\ abortable' = FALSE
    /\ UNCHANGED <<proto, sigVars, linkVars, notifyVars, upRan, delayed, scripts, said,
                   termVars>>

\* ... and the script, whose failure ends the process at once.
RunDownScript ==
    /\ pc = "downScript"
    /\ scripts' = Append(scripts, "down")
    /\ pc' \in {"loops", "exit"}
    /\ UNCHANGED <<proto, sigVars, linkVars, notifyVars, upRan, delayed, tun, abortable,
                   said, termVars>>

LeaveLoops ==
    /\ pc = "loops"
    /\ sig \notin {"USR1", "HUP"}
    /\ pc' = "exit"
    /\ UNCHANGED <<proto, sigVars, linkVars, notifyVars, tunVars, termVars>>

\* With SIGHUP the outer loop is repeated: the context is cleared and the configuration
\* read again, which another attempt may have written by now.  That of SIGUSR1 never is
\* (see NoRestart).
Restart ==
    /\ pc = "loops"
    /\ sig = "HUP"
    /\ pc' = "options"
    /\ proto' \in Protos
    /\ sig' = "none" /\ hard' = FALSE /\ sigSave' = "none"
    /\ heard' = FALSE /\ pull' = "before" /\ requests' = 0
    /\ notify' = 0 /\ waited' = NotWaiting
    /\ UNCHANGED <<tunVars, termVars>>

\* A fatal error (a bad file, no socket, no interface, no random numbers) exits at once.
Fatal ==
    /\ pc \in {"options", "setup", "socket", "opening", "tls"}
    /\ pc' = "exit"
    /\ UNCHANGED <<proto, sigVars, linkVars, notifyVars, tunVars, termVars>>

\* openvpn_exit: tun_abort closes the interface that is still up.
OpenvpnExit ==
    /\ pc = "exit"
    /\ pc' = IF abortable THEN "abortScript" ELSE "exited"
    /\ tun' = FALSE
    /\ abortable' = FALSE
    /\ UNCHANGED <<proto, sigVars, linkVars, notifyVars, upRan, delayed, scripts, said,
                   termVars>>

RunAbortScript ==
    /\ pc = "abortScript"
    /\ scripts' = Append(scripts, "down")
    /\ pc' = "exited"
    /\ UNCHANGED <<proto, sigVars, linkVars, notifyVars, upRan, delayed, tun, abortable,
                   said, termVars>>

-----------------------------------------------------------------------------
\* SIGTERM (external): the helper terminates its task, or the system shuts down.  Before
\* the handler is installed it kills the process.
Terminate ==
    /\ pc # "exited"
    /\ terms < MaxTerms
    /\ terms' = terms + 1
    /\ \/ /\ pc = "exec"
          /\ pc' = "exited"
          /\ UNCHANGED <<sig, hard, termed>>
       \/ /\ pc # "exec"
          /\ sig' = "TERM" /\ hard' = TRUE
          /\ termed' = IF pc \in InitStages THEN "early" ELSE "late"
          /\ UNCHANGED pc
    /\ UNCHANGED <<proto, sigSave, linkVars, notifyVars, tunVars>>

ProcessStep ==
    \/ PreInitSignalCatch \/ ResetSignal \/ CheckSetup \/ SaveSignal \/ Phase2Ends
    \/ HandleInitSignal
    \/ PushTimers \/ AddRoutes \/ NoTimeout \/ TimesOut \/ NotificationWakes
    \/ CheckTls \/ NoControlMessage \/ ReceiveAuthFailed \/ ServerPushedSignal
    \/ IncomingPushMessage
    \/ DoOpenTun \/ RunUpScript \/ InitializationSequenceCompleted
    \/ IoWait \/ ProcessIo \/ CheckSignal
    \/ CloseInstance \/ RunDownScript \/ LeaveLoops \/ Restart
    \/ Fatal \/ OpenvpnExit \/ RunAbortScript

ProcessNext == ProcessStep \/ Terminate

ProcessSpec == ProcessInit /\ [][ProcessNext]_vars

\* The process runs and its scripts end; a second passes between two rounds of the loop
\* again and again, so that the timer of the exit notification does fire.
FairProcessSpec ==
    ProcessSpec /\ WF_vars(ProcessStep) /\ SF_vars(NotificationWakes)

-----------------------------------------------------------------------------
ProcessTypeOK ==
    /\ proto \in Protos
    /\ pc \in InitStages \cup LoopStages \cup EndStages
    /\ sig \in {"none", "TERM", "USR1", "HUP"} /\ hard \in BOOLEAN
    /\ sigSave \in {"none", "TERM"}
    /\ heard \in BOOLEAN /\ pull \in {"before", "asking", "after"}
    /\ requests \in 0 .. MaxPushRequests
    /\ upRan \in BOOLEAN /\ delayed \in BOOLEAN /\ tun \in BOOLEAN /\ abortable \in BOOLEAN
    /\ notify \in 0 .. MaxNotify
    /\ waited \in NotWaiting .. MaxNotify
    /\ scripts \in Seq({"up", "failed", "down"})
    /\ said \subseteq {"completed", "auth"}
    /\ terms \in 0 .. MaxTerms /\ termed \in {"no", "early", "late"}

\* However the process ends, by a signal at any moment, a timeout, the server or a fatal
\* error, an up script that succeeded is followed by the down script, once each and in
\* that order: no settings of an ended tunnel are left behind.
ScriptsPaired ==
    /\ scripts \in {<< >>, <<"up">>, <<"failed">>, <<"up", "down">>}
    /\ pc = "exited" => scripts # <<"up">>

\* When the helper reads the completion message of a process that is not ending, the
\* interface is open and the up script has run, and a fatal error would undo both.
CompletedIsUp ==
    "completed" \in said /\ pc \notin EndStages => tun /\ abortable /\ scripts = <<"up">>

\* With remap-usr1 SIGTERM a process whose tunnel was begun never restarts: none of the
\* signals that mean a restart survives until the loops of main are tested, although
\* SIGUSR1 may be assigned over SIGTERM at any look.  It does restart, by SIGHUP, when a
\* SIGTERM and the end of the retries fell together while it was connecting; the SIGTERM
\* is lost then, and nothing had been opened or said yet.
NoRestart ==
    pc = "loops" =>
        \/ sig = "TERM"
        \/ sig = "HUP" /\ termed = "early" /\ scripts = << >> /\ ~tun /\ said = {}

\* What sig.c:313 asserts when the timer of the exit notification fires.
AssertionHolds == pc = "timeouts" /\ ~IsSig /\ Waiting => notify # 0

\* The helper's view of the process.
\* A SIGTERM from before the event loop may be lost, by the reset or by a restart; the
\* helper terminates a task only when it has printed the completion message, long after.
AsTunnel == INSTANCE Tunnel WITH
    tunnel <- IF pc = "exited" THEN "down" ELSE IF "completed" \in said THEN "up" ELSE "launched",
    said <- said,
    stopping <- (termed = "late")

\* The process is a tunnel process: it completes at most once and before it ends, and
\* once it was told to stop, in the event loop or later, it does end, although signals
\* overwrite each other and the exit notification takes the SIGTERM away.
IsATunnel == AsTunnel!TunnelSpec
=============================================================================
