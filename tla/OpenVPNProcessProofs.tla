------------------------- MODULE OpenVPNProcessProofs -------------------------
(***************************************************************************)
(* Theorems about the openvpn process, for every protocol, bound and       *)
(* number of signals: its scripts come in pairs, what it reports is true,  *)
(* it restarts only while nothing is set up, and it is a tunnel process    *)
(* as far as safety goes.                                                  *)
(*                                                                         *)
(* All four follow from one inductive invariant: which scripts have run,   *)
(* whether the interface is open and whether an exit would close it are    *)
(* known at every stage of the process.                                    *)
(***************************************************************************)
EXTENDS OpenVPNProcess, SequenceTheorems, TLAPS

\* Nothing has been set up yet.
Fresh ==
    scripts = << >> /\ ~tun /\ ~abortable /\ "completed" \notin said /\ ~upRan /\ ~delayed

\* All of it is up, whether or not the program has said so.
Up == scripts = <<"up">> /\ tun /\ abortable

\* Nothing is left to undo.
Ended == ~abortable /\ scripts \in {<< >>, <<"failed">>, <<"up", "down">>}

\* The stages at which do_up is either done or not begun.
RoundStages == (LoopStages \ {"opening", "upScript", "completing"}) \cup {"close"}

SetUp ==
    /\ pc \in InitStages \cup {"opening"} => Fresh
    /\ pc \in RoundStages => IF upRan THEN Up ELSE Fresh
    /\ pc = "upScript" =>
          scripts = << >> /\ tun /\ ~abortable /\ "completed" \notin said /\ ~upRan /\ ~delayed
    /\ pc = "completing" => Up /\ "completed" \notin said /\ ~upRan /\ ~delayed
    /\ delayed => "completed" \notin said

TornDown ==
    /\ pc \in {"downScript", "abortScript"} => ~abortable /\ scripts = <<"up">>
    /\ pc \in {"loops", "exited"} => Ended
    /\ pc = "exit" => Ended \/ Up

\* A restart is on its way: a SIGTERM came while the process was starting.
RestartsFresh ==
    sig = "HUP" /\ termed = "early" /\ said = {} /\ scripts = << >>
    /\ ~tun /\ ~abortable /\ ~upRan /\ ~delayed

\* The program raises nothing before it connects, and closes for SIGTERM only; SIGHUP
\* exists between close_context and the loops of main.
EndsByTerm ==
    /\ pc \in {"exec", "options", "setup", "socket"} => sig # "USR1"
    /\ pc \in {"close", "downScript"} => sig = "TERM"
    /\ pc = "loops" => sig = "TERM" \/ RestartsFresh
    /\ sig = "HUP" => pc = "loops"

\* Nothing was said, and no SIGTERM that counts was sent, before the event loop.
NotYetHeeded ==
    /\ pc \in InitStages => termed # "late" /\ said = {}
    /\ pc \in InitStages /\ hard => termed = "early"

LifeInv == ProcessTypeOK /\ SetUp /\ TornDown /\ EndsByTerm /\ NotYetHeeded

-----------------------------------------------------------------------------
\* What the scripts amount to, one after the other.
LEMMA ScriptLists ==
    /\ Append(<< >>, "up") = <<"up">>
    /\ Append(<< >>, "failed") = <<"failed">>
    /\ Append(<<"up">>, "down") = <<"up", "down">>
    /\ << >> # <<"up">> /\ <<"failed">> # <<"up">> /\ <<"up", "down">> # <<"up">>
<1>1. Append(<< >>, "up") = <<"up">>
  OBVIOUS
<1>2. Append(<< >>, "failed") = <<"failed">>
  OBVIOUS
<1>3. Append(<<"up">>, "down") = <<"up", "down">>
  <2> DEFINE S == {"up", "down"}
             a == Append(<<"up">>, "down")
             b == <<"up", "down">>
  <2>1. <<"up">> \in Seq(S) /\ b \in Seq(S) /\ "down" \in S
    OBVIOUS
  <2>2. Len(<<"up">>) = 1 /\ Len(b) = 2 /\ <<"up">>[1] = "up"
    OBVIOUS
  <2>3. a \in Seq(S) /\ Len(a) = 2 /\ a[1] = "up" /\ a[2] = "down"
    BY <2>1, <2>2
  <2>4. \A i \in 1 .. Len(a) : a[i] = b[i]
    BY <2>2, <2>3
  <2> QED  BY <2>1, <2>2, <2>3, <2>4, SeqEqual, ZenonT(20)
<1>4. Len(<< >>) = 0 /\ Len(<<"up">>) = 1 /\ Len(<<"up", "down">>) = 2
  OBVIOUS
<1>5. << >> # <<"up">> /\ <<"up", "down">> # <<"up">>
  BY <1>4
<1>6. <<"failed">> # <<"up">>
  OBVIOUS
<1> QED  BY <1>1, <1>2, <1>3, <1>5, <1>6

LEMMA ScriptTypes ==
    /\ << >> \in Seq({"up", "failed", "down"})
    /\ <<"up">> \in Seq({"up", "failed", "down"})
    /\ <<"failed">> \in Seq({"up", "failed", "down"})
    /\ <<"up", "down">> \in Seq({"up", "failed", "down"})
<1>1. << >> \in Seq({"up", "failed", "down"})
  OBVIOUS
<1>2. <<"up">> \in Seq({"up", "failed", "down"})
  OBVIOUS
<1>3. <<"failed">> \in Seq({"up", "failed", "down"})
  OBVIOUS
<1>4. <<"up", "down">> \in Seq({"up", "failed", "down"})
  OBVIOUS
<1> QED  BY <1>1, <1>2, <1>3, <1>4

LEMMA LifeInit == ProcessInit => LifeInv
<1> SUFFICES ASSUME ProcessInit PROVE LifeInv
  OBVIOUS
<1> USE DEF ProcessInit, InitStages, LoopStages, EndStages, RoundStages, Looks, After
<1>1. ProcessTypeOK
  <2>1. waited \in NotWaiting .. MaxNotify /\ notify \in 0 .. MaxNotify
    BY ProcessAssumption DEF NotWaiting
  <2>2. requests \in 0 .. MaxPushRequests /\ terms \in 0 .. MaxTerms
    BY ProcessAssumption
  <2>3. pc \in InitStages \cup LoopStages \cup EndStages
    OBVIOUS
  <2>4. heard \in BOOLEAN /\ upRan \in BOOLEAN /\ tun \in BOOLEAN /\ abortable \in BOOLEAN
    OBVIOUS
  <2>5. scripts \in Seq({"up", "failed", "down"}) /\ said \subseteq {"completed", "auth"}
    BY ScriptTypes
  <2> QED  BY <2>1, <2>2, <2>3, <2>4, <2>5 DEF ProcessTypeOK
<1>2. SetUp
  BY DEF SetUp, Fresh
<1>3. TornDown /\ EndsByTerm /\ NotYetHeeded
  BY DEF TornDown, EndsByTerm, NotYetHeeded
<1> QED  BY <1>1, <1>2, <1>3 DEF LifeInv

LEMMA StartKeepsLife ==
    ASSUME LifeInv,
           \/ PreInitSignalCatch \/ ResetSignal \/ CheckSetup \/ SaveSignal \/ Phase2Ends
           \/ HandleInitSignal
    PROVE  LifeInv'
<1> USE ProcessAssumption
    DEF LifeInv, ProcessTypeOK, SetUp, TornDown, EndsByTerm, NotYetHeeded, Fresh, Up, Ended,
        RestartsFresh, InitStages, LoopStages, EndStages, RoundStages, Looks, After, sigVars,
        linkVars, notifyVars, tunVars, termVars
<1>1. CASE PreInitSignalCatch
  BY <1>1 DEF PreInitSignalCatch
<1>2. CASE ResetSignal
  BY <1>2 DEF ResetSignal
<1>3. CASE SaveSignal
  BY <1>3 DEF SaveSignal
<1>4. CASE Phase2Ends
  BY <1>4 DEF Phase2Ends, Restored
<1>5. CASE HandleInitSignal
  BY <1>5 DEF HandleInitSignal, Remap, Closed, IsSig
<1>6. CASE CheckSetup
  BY <1>6 DEF CheckSetup, IsSig
<1> QED  BY <1>1, <1>2, <1>3, <1>4, <1>5, <1>6

LEMMA TimersKeepLife ==
    ASSUME LifeInv,
           PushTimers \/ AddRoutes \/ NoTimeout \/ TimesOut \/ NotificationWakes \/ CheckTls
    PROVE  LifeInv'
<1> USE ProcessAssumption
    DEF LifeInv, ProcessTypeOK, SetUp, TornDown, EndsByTerm, NotYetHeeded, Fresh, Up, Ended,
        RestartsFresh, InitStages, LoopStages, EndStages, RoundStages, Looks, After, sigVars,
        linkVars, notifyVars, tunVars, termVars
<1>1. CASE PushTimers
  BY <1>1 DEF PushTimers
<1>2. CASE NoTimeout
  BY <1>2 DEF NoTimeout, IsSig
<1>3. CASE TimesOut
  BY <1>3 DEF TimesOut, Registered
<1>4. CASE NotificationWakes
  BY <1>4 DEF NotificationWakes, Waiting, NotWaiting, IsSig
<1>5. CASE CheckTls
  BY <1>5 DEF CheckTls, Registered, IsSig
<1>6. CASE AddRoutes
  <2>1. ProcessTypeOK'
    BY <1>6, ZenonT(30) DEF AddRoutes
  <2>2. SetUp'
    BY <1>6, SMTT(30) DEF AddRoutes
  <2>3. TornDown' /\ EndsByTerm' /\ NotYetHeeded'
    BY <1>6, SMTT(30) DEF AddRoutes
  <2> QED  BY <2>1, <2>2, <2>3
<1> QED  BY <1>1, <1>2, <1>3, <1>4, <1>5, <1>6

LEMMA MessagesKeepLife ==
    ASSUME LifeInv,
           NoControlMessage \/ ReceiveAuthFailed \/ ServerPushedSignal \/ IncomingPushMessage
    PROVE  LifeInv'
<1> USE ProcessAssumption
    DEF LifeInv, ProcessTypeOK, SetUp, TornDown, EndsByTerm, NotYetHeeded, Fresh, Up, Ended,
        RestartsFresh, InitStages, LoopStages, EndStages, RoundStages, Looks, After, sigVars,
        linkVars, notifyVars, tunVars, termVars
<1>1. CASE NoControlMessage
  BY <1>1 DEF NoControlMessage
<1>2. CASE ReceiveAuthFailed
  BY <1>2 DEF ReceiveAuthFailed
<1>3. CASE ServerPushedSignal
  BY <1>3 DEF ServerPushedSignal
<1>4. CASE IncomingPushMessage
  BY <1>4 DEF IncomingPushMessage, Pushed, Deferred
<1> QED  BY <1>1, <1>2, <1>3, <1>4

LEMMA LoopKeepsLife ==
    ASSUME LifeInv,
           \/ DoOpenTun \/ RunUpScript \/ InitializationSequenceCompleted
           \/ IoWait \/ ProcessIo \/ CheckSignal
    PROVE  LifeInv'
<1> USE ProcessAssumption
    DEF LifeInv, ProcessTypeOK, SetUp, TornDown, EndsByTerm, NotYetHeeded, Fresh, Up, Ended,
        RestartsFresh, InitStages, LoopStages, EndStages, RoundStages, Looks, After, sigVars,
        linkVars, notifyVars, tunVars, termVars
<1>1. CASE DoOpenTun
  BY <1>1 DEF DoOpenTun
<1>2. CASE RunUpScript
  <2>1. CASE pc' = "completing"
    <3>1. scripts' = <<"up">> /\ abortable' = TRUE /\ scripts' \in Seq({"up", "failed", "down"})
      BY <1>2, <2>1, ScriptLists, ScriptTypes DEF RunUpScript
    <3> QED  BY <1>2, <2>1, <3>1 DEF RunUpScript
  <2>2. CASE pc' = "exit"
    <3>1. /\ scripts' = <<"failed">> /\ abortable' = FALSE
          /\ scripts' \in Seq({"up", "failed", "down"})
      BY <1>2, <2>2, ScriptLists, ScriptTypes DEF RunUpScript
    <3> QED  BY <1>2, <2>2, <3>1 DEF RunUpScript
  <2> QED  BY <1>2, <2>1, <2>2 DEF RunUpScript
<1>3. CASE InitializationSequenceCompleted
  <2>1. ProcessTypeOK'
    BY <1>3, ZenonT(30) DEF InitializationSequenceCompleted
  <2>2. SetUp'
    BY <1>3, SMTT(30) DEF InitializationSequenceCompleted
  <2>3. TornDown' /\ EndsByTerm' /\ NotYetHeeded'
    BY <1>3, SMTT(30) DEF InitializationSequenceCompleted
  <2> QED  BY <2>1, <2>2, <2>3
<1>4. CASE IoWait
  BY <1>4 DEF IoWait
<1>5. CASE ProcessIo
  <2>1. heard' \in BOOLEAN
    BY <1>5 DEF ProcessIo
  <2>2. sig' \in {"none", "TERM", "USR1"} /\ hard' = hard
    BY <1>5 DEF ProcessIo, Registered
  <2> QED  BY <1>5, <2>1, <2>2 DEF ProcessIo
<1>6. CASE CheckSignal
  <2>1. waited' \in NotWaiting .. MaxNotify /\ sig' \in {"none", "TERM", "USR1", "HUP"}
    BY <1>6 DEF CheckSignal, IsSig, Remap, NotWaiting
  <2>2. pc' \in InitStages \cup LoopStages \cup EndStages
    BY <1>6 DEF CheckSignal
  <2>3. hard' \in BOOLEAN
    BY <1>6, Zenon DEF CheckSignal
  <2>4. ProcessTypeOK'
    BY <1>6, <2>1, <2>2, <2>3, ZenonT(30) DEF CheckSignal
  <2>5. SetUp'
    BY <1>6, SMTT(30) DEF CheckSignal, IsSig, Remap, NotWaiting
  <2>6. TornDown' /\ EndsByTerm' /\ NotYetHeeded'
    BY <1>6, SMTT(30) DEF CheckSignal, IsSig, Remap, NotWaiting
  <2> QED  BY <2>4, <2>5, <2>6
<1> QED  BY <1>1, <1>2, <1>3, <1>4, <1>5, <1>6

LEMMA EndKeepsLife ==
    ASSUME LifeInv,
           \/ CloseInstance \/ RunDownScript \/ LeaveLoops \/ Restart \/ Fatal \/ OpenvpnExit
           \/ RunAbortScript \/ Terminate
    PROVE  LifeInv'
<1> USE ProcessAssumption
    DEF LifeInv, ProcessTypeOK, SetUp, TornDown, EndsByTerm, NotYetHeeded, Fresh, Up, Ended,
        RestartsFresh, InitStages, LoopStages, EndStages, RoundStages, Looks, After, sigVars,
        linkVars, notifyVars, tunVars, termVars
<1>1. CASE CloseInstance
  BY <1>1, ZenonT(60) DEF CloseInstance
<1>2. CASE RunDownScript
  BY <1>2, ScriptLists, ScriptTypes, ZenonT(60) DEF RunDownScript
<1>3. CASE LeaveLoops
  BY <1>3 DEF LeaveLoops
<1>4. CASE Fatal
  BY <1>4 DEF Fatal
<1>5. CASE OpenvpnExit
  <2>1. CASE abortable
    BY <1>5, <2>1, ZenonT(60) DEF OpenvpnExit
  <2>2. CASE ~abortable
    BY <1>5, <2>2, ZenonT(60) DEF OpenvpnExit
  <2> QED  BY <2>1, <2>2
<1>6. CASE RunAbortScript
  BY <1>6, ScriptLists, ScriptTypes, ZenonT(60) DEF RunAbortScript
<1>7. CASE Terminate
  <2>1. terms' \in 0 .. MaxTerms
    BY <1>7 DEF Terminate
  <2>2. ProcessTypeOK'
    BY <1>7, <2>1, ZenonT(30) DEF Terminate
  <2>3. SetUp'
    BY <1>7, SMTT(30) DEF Terminate
  <2>4. TornDown' /\ EndsByTerm' /\ NotYetHeeded'
    BY <1>7, SMTT(30) DEF Terminate
  <2> QED  BY <2>2, <2>3, <2>4
<1>8. CASE Restart
  <2>1. /\ waited' \in NotWaiting .. MaxNotify /\ requests' \in 0 .. MaxPushRequests
        /\ notify' \in 0 .. MaxNotify
    BY <1>8 DEF Restart, NotWaiting
  <2>2. ProcessTypeOK'
    BY <1>8, <2>1, ZenonT(30) DEF Restart
  <2>3. SetUp'
    BY <1>8, SMTT(30) DEF Restart, NotWaiting
  <2>4. TornDown' /\ EndsByTerm' /\ NotYetHeeded'
    BY <1>8, SMTT(30) DEF Restart, NotWaiting
  <2> QED  BY <2>2, <2>3, <2>4
<1> QED  BY <1>1, <1>2, <1>3, <1>4, <1>5, <1>6, <1>7, <1>8

LEMMA LifeIsInvariant == ProcessSpec => []LifeInv
<1>1. LifeInv /\ [ProcessNext]_vars => LifeInv'
  <2> SUFFICES ASSUME LifeInv, [ProcessNext]_vars PROVE LifeInv'
    OBVIOUS
  <2>1. CASE ProcessNext
    BY <2>1, StartKeepsLife, TimersKeepLife, MessagesKeepLife, LoopKeepsLife, EndKeepsLife
    DEF ProcessNext, ProcessStep
  <2>2. CASE UNCHANGED vars
    BY <2>2 DEF vars, sigVars, linkVars, notifyVars, tunVars, termVars, LifeInv, ProcessTypeOK,
       SetUp, TornDown, EndsByTerm, RestartsFresh, NotYetHeeded, Fresh, Up, Ended
  <2> QED  BY <2>1, <2>2
<1> QED  BY <1>1, LifeInit, PTL DEF ProcessSpec

-----------------------------------------------------------------------------
\* Whatever signals, messages and errors come, the variables of the process keep to
\* their types.
THEOREM ProcessIsTyped == ProcessSpec => []ProcessTypeOK
<1>1. LifeInv => ProcessTypeOK
  BY DEF LifeInv
<1> QED  BY <1>1, LifeIsInvariant, PTL

\* A process that has exited has run the down script if its up script succeeded, whether
\* it ended by close_instance or by openvpn_exit.
THEOREM ScriptsComeInPairs == ProcessSpec => []ScriptsPaired
<1>1. LifeInv => ScriptsPaired
  BY ScriptLists DEF LifeInv, ProcessTypeOK, SetUp, TornDown, Fresh, Up, Ended, ScriptsPaired,
                     InitStages,
     LoopStages, EndStages, RoundStages, Looks, After
<1> QED  BY <1>1, LifeIsInvariant, PTL

\* "Initialization Sequence Completed" is only printed of an interface that is up.
THEOREM CompletedMeansUp == ProcessSpec => []CompletedIsUp
<1>1. LifeInv => CompletedIsUp
  BY DEF LifeInv, ProcessTypeOK, SetUp, TornDown, Fresh, Up, Ended, CompletedIsUp, InitStages,
     LoopStages, EndStages, RoundStages, Looks, After
<1> QED  BY <1>1, LifeIsInvariant, PTL

\* The loops of main are run once, unless a SIGTERM fell into the start of the process;
\* then nothing had been set up.
THEOREM RunsOnce == ProcessSpec => []NoRestart
<1>1. LifeInv => NoRestart
  BY DEF LifeInv, EndsByTerm, RestartsFresh, NoRestart
<1> QED  BY <1>1, LifeIsInvariant, PTL

\* Every step of the process is one of the tunnel process the connection manager relies
\* on, or none that it can see.
THEOREM ImplementsTunnel == ProcessSpec => AsTunnel!TunnelSafe
<1>1. ProcessInit => AsTunnel!TunnelInit
  BY DEF ProcessInit, AsTunnel!TunnelInit
<1>2. LifeInv /\ [ProcessNext]_vars => [AsTunnel!TunnelNext]_AsTunnel!tunnelVars
  <2> SUFFICES ASSUME LifeInv, [ProcessNext]_vars
               PROVE  [AsTunnel!TunnelNext]_AsTunnel!tunnelVars
    OBVIOUS
  <2> USE DEF AsTunnel!TunnelNext, AsTunnel!tunnelVars, AsTunnel!Completes, AsTunnel!IsRefused,
              AsTunnel!GoesDown, AsTunnel!IsTerminated, AsTunnel!Running
  <2>1. CASE said' = said /\ termed' = termed /\ pc # "exited"
    BY <2>1
  <2>2. CASE ReceiveAuthFailed
    BY <2>2 DEF ReceiveAuthFailed, termVars
  <2>3. CASE InitializationSequenceCompleted \/ AddRoutes
    BY <2>3 DEF InitializationSequenceCompleted, AddRoutes, termVars, LifeInv, SetUp
  <2>4. CASE Terminate
    BY <2>4 DEF Terminate, tunVars, LifeInv, NotYetHeeded, InitStages
  <2>5. CASE UNCHANGED vars
    BY <2>5 DEF vars, tunVars, termVars
  <2>6. ProcessStep /\ ~ReceiveAuthFailed /\ ~InitializationSequenceCompleted /\ ~AddRoutes
          => said' = said /\ termed' = termed /\ pc # "exited"
    BY DEF ProcessStep, PreInitSignalCatch, ResetSignal, CheckSetup, SaveSignal, Phase2Ends,
       HandleInitSignal, PushTimers, NoTimeout, TimesOut, NotificationWakes, CheckTls,
       NoControlMessage, ServerPushedSignal, IncomingPushMessage, DoOpenTun, RunUpScript,
       IoWait, ProcessIo, CheckSignal, CloseInstance, RunDownScript, LeaveLoops, Restart,
       Fatal, OpenvpnExit, RunAbortScript, tunVars, termVars, Looks, After
  <2> QED  BY <2>1, <2>2, <2>3, <2>4, <2>5, <2>6 DEF ProcessNext
<1> QED  BY <1>1, <1>2, LifeIsInvariant, PTL DEF ProcessSpec, AsTunnel!TunnelSafe
=============================================================================
