---------------------------- MODULE HelperProofs ----------------------------
(***************************************************************************)
(* What holds of the helper for every set of servers and threads, every    *)
(* number of retries and every number of deaths.  First of the class of    *)
(* its threads alone, for any threads and callers: the helper's steps are  *)
(* steps of that class, so its lemmas serve both.  Then of a helper with   *)
(* any number of peers: its types, and what ClientThread promises.  Last,  *)
(* of a helper with one peer, whose requests come one after another; two   *)
(* peers may start, cancel and forget each other's threads.                *)
(***************************************************************************)
EXTENDS OneVPNHelper, TLAPS

-----------------------------------------------------------------------------
(* ClientThread. *)

\* The strengthening that is inductive: types, the lock's condition, and no
\* joiner ahead of the locks that exist.
ThreadInv == ThreadTypeOK /\ SignalledIsFinished /\ WaitsOnCreatedLock

LEMMA ThreadInitInv == ThreadInit => ThreadInv
  BY ThreadAssumption
  DEF ThreadInit, ThreadInv, ThreadTypeOK, Phases, SignalledIsFinished, WaitsOnCreatedLock,
      NotWaiting

\* Every operation of the class keeps the types of its fields.
LEMMA ThreadTypeStep ==
    ASSUME ThreadTypeOK, [ThreadNext]_threadVars PROVE ThreadTypeOK'
<1> USE ThreadAssumption DEF ThreadTypeOK, Phases
<1>1. ASSUME NEW t \in Threads, InitThread(t) PROVE ThreadTypeOK'
  BY <1>1 DEF InitThread
<1>2. ASSUME NEW t \in Threads, NEW ok \in BOOLEAN, StartThread(t, ok) PROVE ThreadTypeOK'
  BY <1>2 DEF StartThread
<1>3. ASSUME NEW t \in Threads, CancelThread(t) PROVE ThreadTypeOK'
  BY <1>3 DEF CancelThread
<1>4. ASSUME NEW t \in Threads, EnterBlock(t) PROVE ThreadTypeOK'
  BY <1>4 DEF EnterBlock
<1>5. ASSUME NEW t \in Threads, BlockReturns(t) PROVE ThreadTypeOK'
  BY <1>5 DEF BlockReturns, FinishBlock
<1>6. ASSUME NEW c \in Callers, NEW t \in Threads, CallJoin(c, t) PROVE ThreadTypeOK'
  <2>1. CASE JoinNilLock(t)
    BY <2>1 DEF JoinNilLock, threadVars
  <2>2. CASE JoinLock(c, t)
    <3>1. lock[t] \in 1..MaxStarts
      BY <2>2 DEF JoinLock
    <3> QED  BY <2>2, <3>1 DEF JoinLock, Locks
  <2> QED  BY <1>6, <2>1, <2>2 DEF CallJoin
<1>7. ASSUME NEW c \in Callers, JoinReturns(c) PROVE ThreadTypeOK'
  BY <1>7 DEF JoinReturns
<1>8. CASE UNCHANGED threadVars
  BY <1>8 DEF threadVars
<1> QED  BY <1>1, <1>2, <1>3, <1>4, <1>5, <1>6, <1>7, <1>8 DEF ThreadNext

\* ... and the invariant: only the block's end signals, and only -start makes
\* a lock.
LEMMA ThreadInvStep ==
    ASSUME ThreadInv, [ThreadNext]_threadVars PROVE ThreadInv'
<1>0. ThreadTypeOK /\ ThreadTypeOK'
  BY ThreadTypeStep DEF ThreadInv
<1> USE <1>0, ThreadAssumption
    DEF ThreadTypeOK, SignalledIsFinished, WaitsOnCreatedLock, Phases, NotWaiting, Locks
<1>1. ASSUME NEW t \in Threads, InitThread(t) PROVE ThreadInv'
  BY <1>1 DEF InitThread, ThreadInv
<1>2. ASSUME NEW t \in Threads, NEW ok \in BOOLEAN, StartThread(t, ok) PROVE ThreadInv'
  BY <1>2 DEF StartThread, ThreadInv
<1>3. ASSUME NEW t \in Threads, CancelThread(t) PROVE ThreadInv'
  BY <1>3 DEF CancelThread, ThreadInv
<1>4. ASSUME NEW t \in Threads, EnterBlock(t) PROVE ThreadInv'
  BY <1>4 DEF EnterBlock, ThreadInv
<1>5. ASSUME NEW t \in Threads, BlockReturns(t) PROVE ThreadInv'
  BY <1>5 DEF BlockReturns, FinishBlock, ThreadInv
<1>6. ASSUME NEW c \in Callers, NEW t \in Threads, CallJoin(c, t) PROVE ThreadInv'
  BY <1>6 DEF CallJoin, JoinNilLock, JoinLock, threadVars, ThreadInv
<1>7. ASSUME NEW c \in Callers, JoinReturns(c) PROVE ThreadInv'
  BY <1>7 DEF JoinReturns, ThreadInv
<1>8. CASE UNCHANGED threadVars
  BY <1>8 DEF threadVars, ThreadInv
<1> QED  BY <1>1, <1>2, <1>3, <1>4, <1>5, <1>6, <1>7, <1>8 DEF ThreadNext

LEMMA ThreadInvariance == ThreadSpec => []ThreadInv
  BY ThreadInitInv, ThreadInvStep, PTL DEF ThreadSpec

-----------------------------------------------------------------------------

\* The fields of every object keep their types: in particular no object is given
\* more than MaxStarts locks (ClientThread.m:49-60).
THEOREM ThreadTyping == ThreadSpec => []ThreadTypeOK
<1>1. ThreadInv => ThreadTypeOK
  BY DEF ThreadInv
<1> QED  BY <1>1, ThreadInvariance, PTL

\* A lock is in kStopCondition exactly when the block of its thread has returned
\* (ClientThread.m:55, 64-74).
THEOREM SignalledOnlyWhenFinished == ThreadSpec => []SignalledIsFinished
<1>1. ThreadInv => SignalledIsFinished
  BY DEF ThreadInv
<1> QED  BY <1>1, ThreadInvariance, PTL

\* -join returns from a lock only after the block of its thread, and what it then
\* reads from success is final (ClientThread.m:42-45, 69, 73).
THEOREM JoinReturnsAfterBlock == ThreadSpec => JoinAfterBlock
<1> DEFINE Final ==
      /\ \A c \in Callers :
            waits[c] # NotWaiting /\ waits'[c] = NotWaiting =>
                phase[waits[c].thread] = "finished"
      /\ \A t \in Threads :
            phase[t] = "finished" => success'[t] = success[t] /\ phase'[t] = "finished"
<1>1. ASSUME ThreadInv, [ThreadNext]_threadVars PROVE Final
  <2> USE <1>1 DEF ThreadInv, ThreadTypeOK, SignalledIsFinished
  <2>1. ASSUME NEW t \in Threads, \/ InitThread(t)
                                  \/ \E ok \in BOOLEAN : StartThread(t, ok)
                                  \/ CancelThread(t) \/ EnterBlock(t) \/ BlockReturns(t)
        PROVE  Final
    BY <2>1 DEF InitThread, StartThread, CancelThread, EnterBlock, BlockReturns, FinishBlock
  <2>2. ASSUME NEW c \in Callers, NEW t \in Threads, CallJoin(c, t) PROVE Final
    BY <2>2 DEF CallJoin, JoinNilLock, JoinLock, threadVars
  <2>3. ASSUME NEW c \in Callers, JoinReturns(c) PROVE Final
    <3>1. waits[c] \in Locks /\ phase[waits[c].thread] = "finished"
      BY <2>3 DEF JoinReturns, Joinable, Locks
    <3> QED  BY <2>3, <3>1 DEF JoinReturns
  <2>4. CASE UNCHANGED threadVars
    BY <2>4 DEF threadVars
  <2> QED  BY <1>1, <2>1, <2>2, <2>3, <2>4 DEF ThreadNext
<1> QED  BY <1>1, ThreadInvariance, PTL DEF ThreadSpec, JoinAfterBlock

\* What DeadLockIsForever says of a step.
DeadLocksStay ==
    \A c \in Callers : WaitsOnDeadLock(c) => waits'[c] = waits[c] /\ WaitsOnDeadLock(c)'

LEMMA DeadLockStep ==
    ASSUME ThreadInv, [ThreadNext]_threadVars PROVE DeadLocksStay
<1>0. ThreadTypeOK'
  BY ThreadTypeStep DEF ThreadInv
<1> USE <1>0, ThreadAssumption
    DEF ThreadInv, ThreadTypeOK, SignalledIsFinished, WaitsOnCreatedLock, WaitsOnDeadLock,
        Locks, NotWaiting, DeadLocksStay
<1>1. ASSUME NEW t \in Threads, NEW ok \in BOOLEAN, StartThread(t, ok) PROVE DeadLocksStay
  BY <1>1 DEF StartThread
<1>2. ASSUME NEW t \in Threads,
             InitThread(t) \/ CancelThread(t) \/ EnterBlock(t) \/ BlockReturns(t)
      PROVE  DeadLocksStay
  BY <1>2 DEF InitThread, CancelThread, EnterBlock, BlockReturns, FinishBlock
<1>3. ASSUME NEW c \in Callers, NEW t \in Threads, CallJoin(c, t) PROVE DeadLocksStay
  BY <1>3 DEF CallJoin, JoinNilLock, JoinLock, threadVars
<1>4. ASSUME NEW c \in Callers, JoinReturns(c) PROVE DeadLocksStay
  BY <1>4 DEF JoinReturns, Joinable
<1>5. CASE UNCHANGED threadVars
  BY <1>5 DEF threadVars
<1> QED  BY <1>1, <1>2, <1>3, <1>4, <1>5 DEF ThreadNext

\* A joiner that holds the lock of a start that started nothing is never let go:
\* later starts of the object signal other locks (ClientThread.m:55, 73).
THEOREM DeadLockHangs == ThreadSpec => DeadLockIsForever
<1>1. ThreadInv /\ [ThreadNext]_threadVars => [DeadLocksStay]_threadVars
  BY DeadLockStep
<1>2. ThreadSpec => [][DeadLocksStay]_threadVars
  BY <1>1, ThreadInvariance, PTL DEF ThreadSpec
<1> QED  BY <1>2 DEF DeadLockIsForever, DeadLocksStay

-----------------------------------------------------------------------------
(* The helper: types.  The server a block stores is that of a thread, not of nil. *)

\* Where the before-start block of a thread runs on a caller.
BlockRuns == {"launch", "poll", "checkRunning", "decided", "start", "open", "runLoop"}

\* A caller is in the block of some thread, not of nil.
StartsSomething == \A c \in Callers : pc[c] \in BlockRuns => starting[c] # NoThread

LEMMA HelperInitTyping == HelperInit => HelperTypeOK
<1> SUFFICES ASSUME HelperInit PROVE HelperTypeOK
  OBVIOUS
<1>1. ThreadTypeOK
  BY ThreadAssumption DEF HelperInit, ManagerInit, ThreadInit, ThreadTypeOK, Phases, NotWaiting
<1>2. crashes \in 0..MaxCrashes
  BY CrashAssumption DEF HelperInit
<1>3. /\ connectedServer \in Servers \cup {NoServer}
      /\ clientThread \in Threads \cup {NoThread}
      /\ paths \in BOOLEAN
      /\ config \in [Kinds -> Servers \cup {NoServer}]
      /\ prefsLocked \in BOOLEAN
  BY DEF HelperInit, ManagerInit
<1>4. /\ server \in [Threads -> Servers \cup {NoServer}]
      /\ tunnel \in [Threads -> {"none", "launched", "up", "down", "silent"}]
      /\ dialled \in [Threads -> Servers \cup {NoServer}]
      /\ said \in [Threads -> BOOLEAN]
      /\ heard \in [Threads -> BOOLEAN]
      /\ stopping \in [Threads -> BOOLEAN]
      /\ cinfo \in [Threads -> {"disconnected", "connected", "freed"}]
  BY DEF HelperInit, ManagerInit
<1>5. /\ pc \in [Callers -> Steps]
      /\ arg \in [Callers -> Servers \cup {NoServer}]
      /\ attempt \in [Callers -> Threads \cup {NoThread}]
      /\ starting \in [Callers -> Threads \cup {NoThread}]
      /\ retries \in [Callers -> Nat]
      /\ connected \in [Callers -> BOOLEAN]
      /\ result \in [Callers -> BOOLEAN]
  BY DEF HelperInit, ManagerInit, Steps
<1> QED  BY <1>1, <1>2, <1>3, <1>4, <1>5 DEF HelperTypeOK, ManagerTypeOK

LEMMA ConnectTyping ==
    ASSUME HelperTypeOK, StartsSomething, NEW c \in Callers, ConnectStep(c), UNCHANGED crashes
    PROVE  HelperTypeOK'
<1> USE ThreadAssumption, ServerAssumption
    DEF HelperTypeOK, ManagerTypeOK, threadVars, managerProps, outsideVars, attemptVars,
        callVars, requestVars, Goto, Steps, ConnectSteps
<1>1. ASSUME WriteConfig(c) PROVE HelperTypeOK'
  BY <1>1 DEF WriteConfig, ThreadTypeOK, Kinds, Kind
<1>2. ASSUME PreparePrefs(c) PROVE HelperTypeOK'
  BY <1>2, ZenonT(60) DEF PreparePrefs, ThreadTypeOK
<1>3. ASSUME NEW t \in Threads, NewClientThread(c, t) PROVE HelperTypeOK'
  BY <1>3 DEF NewClientThread, InitThread, ThreadTypeOK, Phases
<1>4. ASSUME LaunchTask(c) PROVE HelperTypeOK'
  BY <1>4 DEF LaunchTask, ThreadTypeOK, Kinds, Kind
<1>5. ASSUME PollOutput(c) PROVE HelperTypeOK'
  <2>1. /\ connected' \in {connected, [connected EXCEPT ![c] = TRUE]}
        /\ pc' = [pc EXCEPT ![c] = "checkRunning"]
    BY <1>5 DEF PollOutput
  <2>3. connected' \in [Callers -> BOOLEAN] /\ pc' \in [Callers -> Steps]
    BY <2>1
  <2>4. connectedServer' \in Servers \cup {NoServer}
    <3>1. starting[c] \in Threads
      BY <1>5 DEF PollOutput, StartsSomething, BlockRuns
    <3>2. server[starting[c]] \in Servers \cup {NoServer}
      BY <3>1
    <3>3. connectedServer' \in {connectedServer, server[starting[c]]}
      BY <1>5 DEF PollOutput
    <3> QED  BY <3>2, <3>3
  <2>2. UNCHANGED <<threadVars, clientThread, paths, outsideVars, attemptVars, requestVars, result>>
    BY <1>5 DEF PollOutput
  <2> QED  BY <2>2, <2>3, <2>4 DEF ThreadTypeOK
<1>6. ASSUME CheckRunning(c) PROVE HelperTypeOK'
  BY <1>6 DEF CheckRunning, ThreadTypeOK, Running
<1>7. ASSUME StoreOutcome(c) PROVE HelperTypeOK'
  BY <1>7 DEF StoreOutcome, ThreadTypeOK
<1>8. ASSUME StartClientThread(c) PROVE HelperTypeOK'
  <2>1. ThreadTypeOK'
    <3>1. StartThread(starting[c], connected[c])
      BY <1>8 DEF StartClientThread
    <3>2. CASE starting[c] \in Threads
      BY <3>1, <3>2 DEF StartThread, ThreadTypeOK, Phases
    <3>3. CASE starting[c] \notin Threads
      BY <3>1, <3>3 DEF StartThread, ThreadTypeOK, Phases
    <3> QED  BY <3>2, <3>3
  <2> QED  BY <1>8, <2>1 DEF StartClientThread, AfterStart
<1>9. ASSUME Retry(c) PROVE HelperTypeOK'
  <2>1. retries' \in [Callers -> Nat]
    BY <1>9 DEF Retry
  <2> QED  BY <1>9, <2>1 DEF Retry, ThreadTypeOK
<1>10. ASSUME OpenConnection(c) PROVE HelperTypeOK'
  BY <1>10, SMTT(30) DEF OpenConnection, ThreadTypeOK
<1>11. ASSUME Callback(c) PROVE HelperTypeOK'
  BY <1>11 DEF Callback, ThreadTypeOK
<1>12. ASSUME AdoptServer(c) PROVE HelperTypeOK'
  BY <1>12 DEF AdoptServer, ThreadTypeOK
<1>13. ASSUME ReadCause(c) PROVE HelperTypeOK'
  BY <1>13 DEF ReadCause, ThreadTypeOK
<1>14. ASSUME SendStart(c) PROVE HelperTypeOK'
  BY <1>14 DEF SendStart, AfterStart, ThreadTypeOK
<1> QED
  BY <1>1, <1>2, <1>3, <1>4, <1>5, <1>6, <1>7, <1>8, <1>9, <1>10, <1>11, <1>12, <1>13, <1>14
  DEF ConnectStep

LEMMA DisconnectTyping ==
    ASSUME HelperTypeOK, NEW c \in Callers, DisconnectStep(c), UNCHANGED crashes
    PROVE  HelperTypeOK'
<1> USE ThreadAssumption
    DEF HelperTypeOK, ManagerTypeOK, ThreadTypeOK, threadVars, managerProps, outsideVars,
        attemptVars, callVars, requestVars, Goto, Steps, DisconnectSteps
<1>1. ASSUME CheckConnected(c) PROVE HelperTypeOK'
  BY <1>1 DEF CheckConnected
<1>2. ASSUME CancelClientThread(c) PROVE HelperTypeOK'
  <2>1. CASE clientThread = NoThread
    BY <1>2, <2>1 DEF CancelClientThread
  <2>2. CASE clientThread # NoThread
    BY <1>2, <2>2 DEF CancelClientThread, CancelThread
  <2> QED  BY <2>1, <2>2
<1>3. ASSUME JoinClientThread(c) PROVE HelperTypeOK'
  <2>1. CASE UNCHANGED threadVars
    BY <1>3, <2>1 DEF JoinClientThread
  <2>2. CASE clientThread # NoThread /\ JoinLock(c, clientThread)
    <3>1. [thread |-> clientThread, number |-> lock[clientThread]] \in Locks
      BY <2>2 DEF JoinLock, Locks
    <3>2. ThreadTypeOK'
      BY <2>2, <3>1 DEF JoinLock
    <3> QED  BY <1>3, <3>2 DEF JoinClientThread
  <2> QED  BY <1>3, <2>1, <2>2 DEF JoinClientThread, JoinNilLock
<1>4. ASSUME LeaveJoin(c) PROVE HelperTypeOK'
  BY <1>4 DEF LeaveJoin, JoinReturns
<1>5. ASSUME CollectSuccess(c) PROVE HelperTypeOK'
  BY <1>5 DEF CollectSuccess
<1>6. ASSUME ForgetThread(c) PROVE HelperTypeOK'
  BY <1>6 DEF ForgetThread
<1> QED  BY <1>1, <1>2, <1>3, <1>4, <1>5, <1>6 DEF DisconnectStep

LEMMA BlockTyping ==
    ASSUME HelperTypeOK, NEW t \in Threads, BlockStep(t), UNCHANGED crashes
    PROVE  HelperTypeOK'
<1> USE ThreadAssumption
    DEF HelperTypeOK, ManagerTypeOK, ThreadTypeOK, Phases, threadVars, managerProps,
        outsideVars, attemptVars, callVars, requestVars
<1>1. ASSUME BlockEnters(t) PROVE HelperTypeOK'
  BY <1>1 DEF BlockEnters, EnterBlock
<1>2. ASSUME BlockTerminates(t) PROVE HelperTypeOK'
  BY <1>2 DEF BlockTerminates
<1>3. ASSUME BlockClears(t) PROVE HelperTypeOK'
  BY <1>3 DEF BlockClears, FinishBlock
<1>4. ASSUME BlockStops(t) PROVE HelperTypeOK'
  <2>1. CASE FinishBlock(t, FALSE) /\ UNCHANGED <<stopping, tunnel>>
    BY <1>4, <2>1 DEF BlockStops, FinishBlock
  <2>2. CASE /\ stopping' = [stopping EXCEPT ![t] = TRUE] /\ UNCHANGED threadVars
             /\ tunnel' \in {tunnel, [tunnel EXCEPT ![t] = "silent"]}
    BY <1>4, <2>2 DEF BlockStops
  <2> QED  BY <1>4, <2>1, <2>2 DEF BlockStops
<1>5. ASSUME BlockDisconnected(t) PROVE HelperTypeOK'
  BY <1>5 DEF BlockDisconnected, FinishBlock
<1>6. ASSUME BlockStillConnected(t) PROVE HelperTypeOK'
  BY <1>6 DEF BlockStillConnected, FinishBlock
<1> QED  BY <1>1, <1>2, <1>3, <1>4, <1>5, <1>6 DEF BlockStep

LEMMA TunnelTyping ==
    ASSUME HelperTypeOK, NEW t \in Threads, TunnelStep(t), UNCHANGED crashes
    PROVE  HelperTypeOK'
<1> USE DEF HelperTypeOK, ManagerTypeOK, ThreadTypeOK, threadVars, managerProps,
            outsideVars, attemptVars, callVars, requestVars
<1>1. ASSUME TunnelUp(t) PROVE HelperTypeOK'
  BY <1>1 DEF TunnelUp
<1>2. ASSUME TunnelFails(t) PROVE HelperTypeOK'
  BY <1>2 DEF TunnelFails
<1>3. ASSUME DeliverOutput(t) PROVE HelperTypeOK'
  BY <1>3 DEF DeliverOutput
<1> QED  BY <1>1, <1>2, <1>3 DEF TunnelStep

LEMMA ServeTyping ==
    ASSUME HelperTypeOK, NEW c \in Callers, Serve(c)
    PROVE  HelperTypeOK'
<1> USE DEF HelperTypeOK, ManagerTypeOK, ThreadTypeOK, threadVars, managerProps,
            outsideVars, attemptVars, callVars, requestVars, helperVars, managerVars, Goto, Return,
            Steps, ConnectSteps, DisconnectSteps
<1>1. ASSUME HandleVersion(c) \/ HandlePathes(c) PROVE HelperTypeOK'
  BY <1>1, ZenonT(60) DEF HandleVersion, HandlePathes
<1>2. ASSUME ReceiveStatus(c) PROVE HelperTypeOK'
  BY <1>2 DEF ReceiveStatus, IsConnected
<1>3. ASSUME ReplyStatus(c) \/ ReplyConnect(c) \/ ReplyDisconnect(c) PROVE HelperTypeOK'
  <2>1. Return(c) /\ UNCHANGED <<threadVars, managerProps, outsideVars, attemptVars, crashes>>
    BY <1>3, Zenon DEF ReplyStatus, ReplyConnect, ReplyDisconnect
  <2>2. /\ pc' \in [Callers -> Steps]
        /\ arg' \in [Callers -> Servers \cup {NoServer}]
        /\ attempt' \in [Callers -> Threads \cup {NoThread}]
        /\ starting' \in [Callers -> Threads \cup {NoThread}]
        /\ retries' \in [Callers -> Nat]
        /\ connected' \in [Callers -> BOOLEAN]
        /\ result' \in [Callers -> BOOLEAN]
    BY <2>1
  <2> QED  BY <2>1, <2>2
<1>4. ASSUME NEW s \in Servers, ReceiveConnect(c, s) PROVE HelperTypeOK'
  BY <1>4 DEF ReceiveConnect
<1>5. ASSUME ReceiveDisconnect(c) PROVE HelperTypeOK'
  BY <1>5 DEF ReceiveDisconnect
<1> QED  BY <1>1, <1>2, <1>3, <1>4, <1>5 DEF Serve

LEMMA DeathTyping ==
    ASSUME HelperTypeOK, Die, crashes' \in 0..MaxCrashes
    PROVE  HelperTypeOK'
<1>1. ThreadTypeOK'
  BY ThreadAssumption DEF Die, ThreadTypeOK, Phases, NotWaiting
<1>2. tunnel' \in [Threads -> {"none", "launched", "up", "down", "silent"}]
  BY DEF Die, HelperTypeOK, ManagerTypeOK
<1>3. /\ stopping' \in [Threads -> BOOLEAN]
      /\ cinfo' \in [Threads -> {"disconnected", "connected", "freed"}]
  BY DEF Die
<1>4. /\ pc' \in [Callers -> Steps]
      /\ arg' \in [Callers -> Servers \cup {NoServer}]
      /\ attempt' \in [Callers -> Threads \cup {NoThread}]
      /\ starting' \in [Callers -> Threads \cup {NoThread}]
      /\ retries' \in [Callers -> Nat]
      /\ connected' \in [Callers -> BOOLEAN]
      /\ result' \in [Callers -> BOOLEAN]
  BY DEF Die, Steps
<1> QED
  BY <1>1, <1>2, <1>3, <1>4 DEF Die, HelperTypeOK, ManagerTypeOK

LEMMA HelperTypeStep ==
    ASSUME HelperTypeOK, StartsSomething, [HelperNext]_helperVars PROVE HelperTypeOK'
<1>1. ASSUME Internal PROVE HelperTypeOK'
  BY <1>1, ConnectTyping, DisconnectTyping, BlockTyping, TunnelTyping
  DEF Internal, ManagerStep
<1>2. ASSUME NEW c \in Callers, Raises(c) PROVE HelperTypeOK'
  BY <1>2, DeathTyping DEF Raises, HelperTypeOK
<1>3. ASSUME Killed PROVE HelperTypeOK'
  <2>1. crashes' \in 0..MaxCrashes
    BY <1>3, CrashAssumption DEF Killed, HelperTypeOK
  <2> QED  BY <1>3, <2>1, DeathTyping DEF Killed
<1>4. CASE UNCHANGED helperVars
  BY <1>4
  DEF helperVars, managerVars, threadVars, managerProps, outsideVars, attemptVars, callVars,
      requestVars,
      HelperTypeOK, ManagerTypeOK, ThreadTypeOK
<1> QED  BY <1>1, <1>2, <1>3, <1>4, ServeTyping DEF HelperNext

-----------------------------------------------------------------------------
\* The helper's threads are ClientThreads, so that what is proved of the class
\* holds in the helper, too, whoever starts or joins them.

\* Only a cancelled thread stops its tunnel.
StoppingIsCancelled == \A t \in Threads : stopping[t] => cancelled[t]

ThreadsInv == HelperTypeOK /\ ThreadInv /\ StoppingIsCancelled /\ StartsSomething

\* Every step of the helper is one of ClientThread, but for its death.
LEMMA ThreadsStep ==
    ASSUME ThreadsInv, [HelperNext]_helperVars
    PROVE  Die \/ [ThreadNext]_threadVars
<1> USE DEF ThreadsInv, HelperTypeOK, ManagerTypeOK
<1>1. ASSUME NEW c \in Callers, ConnectStep(c) PROVE [ThreadNext]_threadVars
  <2>1. ASSUME NEW t \in Threads, NewClientThread(c, t) PROVE ThreadNext
    BY <2>1 DEF NewClientThread, ThreadNext
  <2>2. ASSUME StartClientThread(c) PROVE ThreadNext
    <3>1. starting[c] \in Threads
      BY <2>2 DEF StartClientThread, StartsSomething, BlockRuns
    <3>2. connected[c] \in BOOLEAN /\ StartThread(starting[c], connected[c])
      BY <2>2 DEF StartClientThread
    <3> QED  BY <3>1, <3>2 DEF ThreadNext
  <2> QED
    BY <1>1, <2>1, <2>2
    DEF ConnectStep, WriteConfig, PreparePrefs, SendStart, LaunchTask, PollOutput,
        CheckRunning, StoreOutcome, Retry, OpenConnection, Callback, AdoptServer, ReadCause
<1>2. ASSUME NEW c \in Callers, DisconnectStep(c) PROVE [ThreadNext]_threadVars
  <2>1. ASSUME CancelClientThread(c) PROVE [ThreadNext]_threadVars
    BY <2>1 DEF CancelClientThread, ThreadNext
  <2>2. ASSUME JoinClientThread(c) PROVE [ThreadNext]_threadVars
    BY <2>2 DEF JoinClientThread, ThreadNext, CallJoin
  <2>3. ASSUME LeaveJoin(c) PROVE ThreadNext
    BY <2>3 DEF LeaveJoin, ThreadNext
  <2> QED
    BY <1>2, <2>1, <2>2, <2>3 DEF DisconnectStep, CheckConnected, CollectSuccess, ForgetThread
<1>3. ASSUME NEW t \in Threads, BlockStep(t) PROVE [ThreadNext]_threadVars
  <2>1. ASSUME NEW ok \in BOOLEAN, cancelled[t], FinishBlock(t, ok) PROVE ThreadNext
    BY <2>1 DEF BlockReturns, ThreadNext
  <2>2. ASSUME BlockEnters(t) \/ BlockTerminates(t) PROVE [ThreadNext]_threadVars
    BY <2>2 DEF BlockEnters, BlockTerminates, ThreadNext
  <2>3. ASSUME BlockClears(t) PROVE ThreadNext
    BY <2>1, <2>3 DEF BlockClears
  <2>4. ASSUME BlockStops(t) PROVE [ThreadNext]_threadVars
    BY <2>1, <2>4 DEF BlockStops
  <2>5. ASSUME BlockDisconnected(t) \/ BlockStillConnected(t) PROVE ThreadNext
    <3>1. cancelled[t]
      BY <2>5 DEF BlockDisconnected, BlockStillConnected, StoppingIsCancelled
    <3> QED  BY <2>1, <2>5, <3>1 DEF BlockDisconnected, BlockStillConnected
  <2> QED  BY <1>3, <2>2, <2>3, <2>4, <2>5 DEF BlockStep
<1>4. ASSUME NEW t \in Threads, TunnelStep(t) PROVE UNCHANGED threadVars
  BY <1>4 DEF TunnelStep, TunnelUp, TunnelFails, DeliverOutput
<1>5. ASSUME NEW c \in Callers, Serve(c) PROVE UNCHANGED threadVars
  BY <1>5
  DEF Serve, HandleVersion, HandlePathes, ReceiveStatus, ReplyStatus, ReceiveConnect,
      ReplyConnect, ReceiveDisconnect, ReplyDisconnect, helperVars, managerVars
<1>6. CASE UNCHANGED helperVars
  BY <1>6 DEF helperVars, managerVars
<1> QED
  BY <1>1, <1>2, <1>3, <1>4, <1>5, <1>6
  DEF HelperNext, Internal, ManagerStep, Raises, Killed

LEMMA StoppingStep ==
    ASSUME ThreadsInv, [HelperNext]_helperVars
    PROVE  StoppingIsCancelled'
<1> USE DEF ThreadsInv, HelperTypeOK, ManagerTypeOK, ThreadTypeOK, StoppingIsCancelled
<1>1. CASE Die
  BY <1>1 DEF Die
<1>2. ASSUME NEW t \in Threads, BlockTerminates(t) \/ BlockStops(t)
      PROVE  StoppingIsCancelled'
  BY <1>2 DEF BlockTerminates, BlockStops, FinishBlock, threadVars
<1>3. ASSUME UNCHANGED stopping, ThreadNext \/ UNCHANGED threadVars
      PROVE  StoppingIsCancelled'
  BY <1>3
  DEF ThreadNext, threadVars, InitThread, StartThread, CancelThread, EnterBlock, BlockReturns,
      FinishBlock, CallJoin, JoinLock, JoinNilLock, JoinReturns
<1>4. \/ Die \/ UNCHANGED stopping
      \/ \E t \in Threads : BlockTerminates(t) \/ BlockStops(t)
  <2>1. ASSUME NEW c \in Callers, ConnectStep(c) \/ DisconnectStep(c)
        PROVE  UNCHANGED stopping
    BY <2>1, ZenonT(60)
    DEF ConnectStep, DisconnectStep, WriteConfig, PreparePrefs, NewClientThread, SendStart,
        LaunchTask, PollOutput, CheckRunning, StoreOutcome, StartClientThread, Retry,
        OpenConnection, Callback, AdoptServer, ReadCause, CheckConnected, CancelClientThread,
        JoinClientThread, LeaveJoin, CollectSuccess, ForgetThread, attemptVars
  <2>2. ASSUME NEW t \in Threads, TunnelStep(t) \/ BlockStep(t)
        PROVE  UNCHANGED stopping \/ BlockTerminates(t) \/ BlockStops(t)
    BY <2>2
    DEF BlockStep, TunnelStep, BlockEnters, BlockClears, BlockDisconnected,
        BlockStillConnected, TunnelUp, TunnelFails, DeliverOutput, attemptVars
  <2>3. ASSUME NEW c \in Callers, Serve(c) PROVE UNCHANGED stopping
    BY <2>3
    DEF Serve, HandleVersion, HandlePathes, ReceiveStatus, ReplyStatus, ReceiveConnect,
        ReplyConnect, ReceiveDisconnect, ReplyDisconnect, helperVars, managerVars, attemptVars
  <2> QED
    BY <2>1, <2>2, <2>3
    DEF HelperNext, Internal, ManagerStep, Raises, Killed, helperVars, managerVars, attemptVars
<1> QED  BY <1>1, <1>2, <1>3, <1>4, ThreadsStep

LEMMA StartsStep ==
    ASSUME ThreadsInv, [HelperNext]_helperVars
    PROVE  StartsSomething'
<1> USE DEF ThreadsInv, HelperTypeOK, ManagerTypeOK, StartsSomething, BlockRuns, Goto, requestVars
<1>1. CASE Die
  BY <1>1 DEF Die
<1>2. ASSUME NEW c \in Callers, SendStart(c) PROVE StartsSomething'
  BY <1>2 DEF SendStart, AfterStart
<1>3. ASSUME NEW c \in Callers, UNCHANGED starting,
             \E step \in Steps : /\ pc' = [pc EXCEPT ![c] = step]
                                 /\ step \in BlockRuns => pc[c] \in BlockRuns
      PROVE  StartsSomething'
  BY <1>3
<1>4. ASSUME NEW c \in Callers, Return(c) PROVE StartsSomething'
  BY <1>4 DEF Return
<1>5. ASSUME NEW c \in Callers, ConnectStep(c) PROVE StartsSomething'
  <2> USE <1>3 DEF Steps, ConnectSteps
  <2>1. ASSUME WriteConfig(c) \/ Retry(c) \/ AdoptServer(c) \/ ReadCause(c) PROVE StartsSomething'
    BY <2>1 DEF WriteConfig, Retry, AdoptServer, ReadCause
  <2>2. ASSUME PreparePrefs(c) PROVE StartsSomething'
    BY <2>2 DEF PreparePrefs
  <2>3. ASSUME NEW t \in Threads, NewClientThread(c, t) PROVE StartsSomething'
    BY <2>3 DEF NewClientThread
  <2>4. ASSUME LaunchTask(c) \/ PollOutput(c) \/ StoreOutcome(c) PROVE StartsSomething'
    BY <2>4 DEF LaunchTask, PollOutput, StoreOutcome
  <2>5. ASSUME CheckRunning(c) PROVE StartsSomething'
    BY <2>5 DEF CheckRunning
  <2>6. ASSUME StartClientThread(c) PROVE StartsSomething'
    BY <2>6 DEF StartClientThread, AfterStart
  <2>7. ASSUME OpenConnection(c) \/ Callback(c) PROVE StartsSomething'
    BY <2>7 DEF OpenConnection, Callback
  <2> QED
    BY <1>2, <1>5, <2>1, <2>2, <2>3, <2>4, <2>5, <2>6, <2>7 DEF ConnectStep
<1>6. ASSUME NEW c \in Callers, DisconnectStep(c) PROVE StartsSomething'
  <2> USE <1>3 DEF Steps, DisconnectSteps
  <2>1. ASSUME CheckConnected(c) PROVE StartsSomething'
    BY <2>1 DEF CheckConnected
  <2>2. ASSUME CancelClientThread(c) \/ LeaveJoin(c) PROVE StartsSomething'
    BY <2>2 DEF CancelClientThread, LeaveJoin
  <2>3. ASSUME JoinClientThread(c) PROVE StartsSomething'
    BY <2>3 DEF JoinClientThread
  <2>4. ASSUME CollectSuccess(c) \/ ForgetThread(c) PROVE StartsSomething'
    BY <2>4 DEF CollectSuccess, ForgetThread
  <2> QED  BY <1>6, <2>1, <2>2, <2>3, <2>4 DEF DisconnectStep
<1>7. ASSUME NEW c \in Callers, Serve(c) PROVE StartsSomething'
  <2> USE <1>3 DEF Steps, ConnectSteps, DisconnectSteps
  <2>1. ASSUME HandleVersion(c) \/ HandlePathes(c) PROVE StartsSomething'
    BY <2>1 DEF HandleVersion, HandlePathes, helperVars, managerVars, callVars
  <2>2. ASSUME ReceiveStatus(c) \/ ReceiveDisconnect(c) PROVE StartsSomething'
    BY <2>2 DEF ReceiveStatus, ReceiveDisconnect
  <2>3. ASSUME NEW s \in Servers, ReceiveConnect(c, s) PROVE StartsSomething'
    BY <2>3 DEF ReceiveConnect
  <2> QED
    BY <1>4, <1>7, <2>1, <2>2, <2>3 DEF Serve, ReplyStatus, ReplyConnect, ReplyDisconnect
<1>8. ASSUME \/ UNCHANGED helperVars
             \/ \E t \in Threads : TunnelStep(t) \/ BlockStep(t)
      PROVE  StartsSomething'
  <2>1. UNCHANGED callVars
    BY <1>8
    DEF TunnelStep, TunnelUp, TunnelFails, DeliverOutput, BlockStep, BlockEnters,
        BlockTerminates, BlockClears, BlockStops, BlockDisconnected, BlockStillConnected,
        helperVars, managerVars
  <2> QED  BY <2>1 DEF callVars
<1> QED
  BY <1>1, <1>5, <1>6, <1>7, <1>8 DEF HelperNext, Internal, ManagerStep, Raises, Killed

LEMMA ThreadsInvStep ==
    ASSUME ThreadsInv, [HelperNext]_helperVars
    PROVE  ThreadsInv'
<1>1. HelperTypeOK' /\ StoppingIsCancelled' /\ StartsSomething'
  BY HelperTypeStep, StoppingStep, StartsStep DEF ThreadsInv
<1>2. CASE Die
  <2>1. ThreadTypeOK'
    BY <1>1 DEF HelperTypeOK, ManagerTypeOK
  <2> QED
    BY <1>1, <1>2, <2>1
    DEF Die, ThreadsInv, ThreadInv, SignalledIsFinished, WaitsOnCreatedLock
<1>3. CASE [ThreadNext]_threadVars
  BY <1>1, <1>3, ThreadInvStep DEF ThreadsInv
<1> QED  BY <1>2, <1>3, ThreadsStep DEF ThreadsInv

LEMMA ThreadsInitInv == HelperInit => ThreadsInv
<1> SUFFICES ASSUME HelperInit PROVE ThreadsInv
  OBVIOUS
<1>1. HelperTypeOK
  BY HelperInitTyping
<1>2. ThreadInv
  BY ThreadInitInv DEF HelperInit, ManagerInit
<1> QED
  BY <1>1, <1>2
  DEF ThreadsInv, StoppingIsCancelled, StartsSomething, BlockRuns, HelperInit, ManagerInit

LEMMA ThreadsInvariance == HelperSpec => []ThreadsInv
<1>1. ThreadsInv /\ [HelperNext]_helperVars => ThreadsInv'
  BY ThreadsInvStep
<1> QED  BY <1>1, ThreadsInitInv, PTL DEF HelperSpec

\* Every property, local variable and lock of the helper keeps its type, whatever
\* its peers send and however often it dies (VPNConnectionManager.m, ClientThread.m).
THEOREM HelperTyping == HelperSpec => []HelperTypeOK
<1>1. ThreadsInv => HelperTypeOK
  BY DEF ThreadsInv
<1> QED  BY <1>1, ThreadsInvariance, PTL

\* In the helper, too, a lock is in kStopCondition only when the block of its thread
\* has returned, though several peers may start one thread, and however often the
\* helper dies (ClientThread.m 55, 64-74; VPNConnectionManager.m 141-146, 543, 793).
THEOREM HelperSignalsFinished == HelperSpec => []SignalledIsFinished
<1>1. ThreadsInv => SignalledIsFinished
  BY DEF ThreadsInv, ThreadInv
<1> QED  BY <1>1, ThreadsInvariance, PTL

\* No disconnect of any peer holds a lock that does not exist yet.
THEOREM HelperWaitsOnCreated == HelperSpec => []WaitsOnCreatedLock
<1>1. ThreadsInv => WaitsOnCreatedLock
  BY DEF ThreadsInv, ThreadInv
<1> QED  BY <1>1, ThreadsInvariance, PTL

\* A disconnect of any peer that waits on a dead lock waits until the helper dies:
\* what the other peers ask does not release it.
THEOREM HelperHangsUntilDeath == HelperSpec => [][Die \/ DeadLocksStay]_helperVars
<1>1. ASSUME ThreadsInv, [HelperNext]_helperVars PROVE Die \/ DeadLocksStay
  <2>1. ThreadInv
    BY <1>1 DEF ThreadsInv
  <2> QED  BY <1>1, <2>1, ThreadsStep, DeadLockStep
<1>2. ThreadsInv /\ [HelperNext]_helperVars => [Die \/ DeadLocksStay]_helperVars
  BY <1>1
<1> QED  BY <1>2, ThreadsInvariance, PTL DEF HelperSpec

-----------------------------------------------------------------------------
\* One peer.  Its requests are served one at a time, so that the manager's thread is
\* its own from the moment it is made, and a disconnect is over before the next
\* connect begins, unless it hangs for ever.
\*
\* First, who holds a running tunnel.  The strengthening says how far a connect
\* request has come with the thread it made: it is not started yet, and the request
\* leaves it with a dead task or a started thread.

OnePeer == \A p, q \in Callers : p = q

Dialling == BlockRuns \cup {"send", "retry"}

StartsOwn ==
    \A c \in Callers :
        /\ pc[c] \in Dialling =>
              /\ attempt[c] # NoThread
              /\ clientThread = attempt[c]
              /\ phase[attempt[c]] = "allocated"
              /\ server[attempt[c]] = arg[c]
        /\ pc[c] \in BlockRuns => starting[c] = attempt[c]

DiallingProgress ==
    \A c \in Callers :
        /\ pc[c] \in {"send", "launch", "open"} => tunnel[attempt[c]] = "none"
        /\ pc[c] \in {"poll", "checkRunning", "decided"} => tunnel[attempt[c]] # "none"
        /\ pc[c] \in {"decided", "start"} /\ ~connected[c] => ~Running(attempt[c])
        /\ pc[c] = "start" /\ connected[c] => tunnel[attempt[c]] # "none"
        /\ pc[c] \in {"open", "runLoop"} => L2TP(arg[c])
        /\ pc[c] = "start" /\ ~L2TP(arg[c]) => (result[c] <=> connected[c])
        /\ pc[c] = "retry" => ~Running(attempt[c])

\* Every running tunnel has somebody who can still take it down: its started
\* thread, or the request that is dialling it.  The exceptions are a service
\* whose stop failed (VPNConnectionManager.m:445-484) and what a dead helper
\* left behind.  In particular a connect that is refused leaves nothing running
\* (651-654, 768-771, 538-540).
RunningTunnelIsHeld ==
    \A t \in Threads : Running(t) =>
        \/ Started(t)
        \/ \E c \in Callers : attempt[c] = t /\ pc[c] \in
              {"poll", "checkRunning", "decided", "runLoop", "start"}
        \/ phase[t] = "finished" /\ L2TP(server[t]) /\ ~success[t]
        \/ phase[t] = "free"

Held ==
    /\ StartsOwn
    /\ DiallingProgress
    /\ RunningTunnelIsHeld
    /\ StartedThreadHasTunnel
    /\ SuccessMeansDown

HeldInv == HelperTypeOK /\ Held

LEMMA HeldInit == HelperInit => Held
  BY DEF HelperInit, ManagerInit, ThreadInit, Held, StartsOwn, Dialling, BlockRuns,
         DiallingProgress, RunningTunnelIsHeld, StartedThreadHasTunnel, SuccessMeansDown,
         Running, Started

\* A connect request never loses sight of the tunnel it dials.
LEMMA HeldConnect ==
    ASSUME OnePeer, HeldInv, NEW c \in Callers, ConnectStep(c)
    PROVE  Held'
<1>b. /\ connected \in [Callers -> BOOLEAN]
      /\ result \in [Callers -> BOOLEAN]
  BY DEF HeldInv, HelperTypeOK, ManagerTypeOK
<1>s. /\ AfterStart(c) \in {"adopt", "retry", "replyConnect"}
      /\ AfterStart(c) = "retry" => ~L2TP(arg[c]) /\ ~result[c]
  BY DEF AfterStart, L2TP
<1>r. ASSUME StoreOutcome(c) PROVE attempt[c] = starting[c] => (result'[c] <=> connected[c])
  <2>1. result' = [d \in Callers |->
                     IF attempt[d] = starting[c] THEN connected[c] ELSE result[d]]
    BY <1>r DEF StoreOutcome
  <2> QED  BY <2>1, <1>b, Zenon
<1>u. ASSUME Callback(c) PROVE connected'[c] <=> tunnel[starting[c]] = "up"
  <2>1. connected' = [connected EXCEPT ![c] = (tunnel[starting[c]] = "up")]
    BY <1>u DEF Callback
  <2> QED  BY <2>1, <1>b, Zenon
<1> USE DEF OnePeer, HeldInv, Held, HelperTypeOK, ManagerTypeOK, ThreadTypeOK,
            threadVars, managerProps, outsideVars, attemptVars, requestVars, Goto, Dialling,
            BlockRuns, Running, Started, StartsOwn, DiallingProgress, RunningTunnelIsHeld,
            StartedThreadHasTunnel, SuccessMeansDown
<1>1. ASSUME WriteConfig(c) \/ AdoptServer(c) \/ ReadCause(c) PROVE Held'
  <2>1. /\ UNCHANGED <<phase, success, tunnel, server, clientThread, starting, attempt, arg,
                       connected>>
        /\ pc[c] \notin Dialling
        /\ \E step \in {"newThread", "cause", "replyConnect"} : pc' = [pc EXCEPT ![c] = step]
    BY <1>1 DEF WriteConfig, AdoptServer, ReadCause, requestVars
  <2> QED  BY <2>1
<1>2. ASSUME PreparePrefs(c) PROVE Held'
  BY <1>2, SMTT(30) DEF PreparePrefs
<1>3. ASSUME NEW t \in Threads, NewClientThread(c, t) PROVE Held'
  BY <1>3, ThreadAssumption DEF NewClientThread, InitThread
<1>4. ASSUME LaunchTask(c) PROVE Held'
  BY <1>4 DEF LaunchTask
<1>5. ASSUME PollOutput(c) PROVE Held'
  BY <1>5 DEF PollOutput
<1>6. ASSUME CheckRunning(c) PROVE Held'
  BY <1>6 DEF CheckRunning
<1>7. ASSUME StoreOutcome(c) PROVE Held'
  <2>1. /\ UNCHANGED <<threadVars, tunnel, server, attempt, starting, clientThread, arg,
                       connected>>
        /\ pc[c] = "decided" /\ pc' = [pc EXCEPT ![c] = "start"]
    BY <1>7 DEF StoreOutcome
  <2>2. result'[c] <=> connected[c]
    BY <1>7, <1>r, <2>1
  <2>3. \A d \in Callers : d = c
    OBVIOUS
  <2> QED  BY <2>1, <2>2, <2>3
<1>8. ASSUME StartClientThread(c) PROVE Held'
  <2> DEFINE t == attempt[c]
  <2>1. /\ t \in Threads /\ clientThread = t /\ starting[c] = t
        /\ pc[c] = "start" /\ phase[t] = "allocated"
        /\ ~connected[c] => ~Running(t)
        /\ connected[c] => tunnel[t] # "none"
    BY <1>8 DEF StartClientThread
  <2>2. /\ UNCHANGED <<success, tunnel, server, attempt, starting, clientThread, arg, connected,
                       result>>
        /\ phase' = IF connected[c] THEN [phase EXCEPT ![t] = "spawned"] ELSE phase
    BY <1>8, <2>1 DEF StartClientThread, StartThread
  <2>3. PICK step \in {"adopt", "retry", "replyConnect"} :
          pc' = [pc EXCEPT ![c] = step] /\ step = AfterStart(c)
    <3>1. pc' = [pc EXCEPT ![c] = AfterStart(c)]
      BY <1>8, Zenon DEF StartClientThread
    <3> QED  BY <1>s, <3>1, Zenon
  <2>4. \A d \in Callers : d = c
    OBVIOUS
  <2>5. step = "retry" => ~connected[c]
    BY <1>s, <2>1, <2>3
  <2>6. CASE connected[c]
    BY <2>1, <2>2, <2>3, <2>4, <2>5, <2>6
  <2>7. CASE ~connected[c]
    BY <2>1, <2>2, <2>3, <2>4, <2>7
  <2> QED  BY <2>6, <2>7
<1>9. ASSUME Retry(c) PROVE Held'
  BY <1>9 DEF Retry
<1>10. ASSUME OpenConnection(c) PROVE Held'
  BY <1>10, SMTT(30) DEF OpenConnection
<1>11. ASSUME Callback(c) PROVE Held'
  <2> DEFINE t == attempt[c]
  <2>1. /\ UNCHANGED <<phase, success, tunnel, server, attempt, starting, clientThread, arg>>
        /\ pc[c] = "runLoop" /\ tunnel[t] \in {"up", "down"}
        /\ pc' = [pc EXCEPT ![c] = "start"]
        /\ L2TP(arg[c]) /\ starting[c] = t
    BY <1>11 DEF Callback
  <2>2. connected'[c] <=> tunnel[t] = "up"
    BY <1>11, <1>u, <2>1
  <2>3. \A d \in Callers : d = c
    OBVIOUS
  <2>4. StartsOwn' /\ DiallingProgress'
    BY <2>1, <2>2, <2>3
  <2>5. RunningTunnelIsHeld' /\ StartedThreadHasTunnel' /\ SuccessMeansDown'
    BY <2>1, <2>3
  <2> QED  BY <2>4, <2>5
<1>12. ASSUME SendStart(c) PROVE Held'
  BY <1>12, ThreadAssumption DEF SendStart
<1> QED
  BY <1>1, <1>2, <1>3, <1>4, <1>5, <1>6, <1>7, <1>8, <1>9, <1>10, <1>11, <1>12
  DEF ConnectStep

\* A disconnect changes neither threads' phases nor tunnels itself.
LEMMA HeldDisconnect ==
    ASSUME OnePeer, HeldInv, NEW c \in Callers, DisconnectStep(c)
    PROVE  Held'
<1> USE DEF OnePeer, HeldInv, Held, HelperTypeOK, ManagerTypeOK, ThreadTypeOK,
            threadVars, managerProps, outsideVars, attemptVars, requestVars, Goto, Dialling,
            BlockRuns, Running, Started, StartsOwn, DiallingProgress, RunningTunnelIsHeld,
            StartedThreadHasTunnel, SuccessMeansDown
<1>1. /\ UNCHANGED <<phase, success, tunnel, server, attempt, starting, arg, connected>>
      /\ pc[c] \notin Dialling
      /\ \E step \in DisconnectSteps : pc' = [pc EXCEPT ![c] = step]
  <2>1. ASSUME CheckConnected(c) \/ LeaveJoin(c) \/ CollectSuccess(c) \/ ForgetThread(c)
        PROVE  <1>1!:
    BY <2>1 DEF CheckConnected, LeaveJoin, JoinReturns, CollectSuccess, ForgetThread,
                DisconnectSteps
  <2>2. ASSUME CancelClientThread(c) PROVE <1>1!:
    BY <2>2 DEF CancelClientThread, CancelThread, DisconnectSteps
  <2>3. ASSUME JoinClientThread(c) PROVE <1>1!:
    BY <2>3 DEF JoinClientThread, JoinNilLock, JoinLock, DisconnectSteps
  <2> QED  BY <2>1, <2>2, <2>3 DEF DisconnectStep
<1> QED  BY <1>1 DEF DisconnectSteps

\* A block that reports success has seen its tunnel go down.
LEMMA HeldBlock ==
    ASSUME OnePeer, HeldInv, NEW t \in Threads, BlockStep(t)
    PROVE  Held'
<1> USE DEF OnePeer, HeldInv, Held, HelperTypeOK, ManagerTypeOK, ThreadTypeOK,
            threadVars, managerProps, outsideVars, callVars, requestVars, Running, Started,
            StartsOwn, DiallingProgress, RunningTunnelIsHeld,
            StartedThreadHasTunnel, SuccessMeansDown
<1>1. ASSUME BlockEnters(t) PROVE Held'
  BY <1>1 DEF BlockEnters, EnterBlock, attemptVars
<1>2. ASSUME BlockTerminates(t) PROVE Held'
  BY <1>2 DEF BlockTerminates
<1>3. ASSUME BlockClears(t) PROVE Held'
  BY <1>3 DEF BlockClears, FinishBlock, attemptVars
<1>4. ASSUME BlockStops(t) PROVE Held'
  <2>1. CASE FinishBlock(t, FALSE) /\ UNCHANGED <<stopping, tunnel>>
    BY <1>4, <2>1 DEF BlockStops, FinishBlock
  <2>2. CASE /\ UNCHANGED threadVars
             /\ \/ UNCHANGED tunnel
                \/ tunnel[t] = "down" /\ tunnel' = [tunnel EXCEPT ![t] = "silent"]
    <3>1. phase[t] = "inBlock" /\ UNCHANGED <<managerProps, server, callVars>>
      BY <1>4, Zenon DEF BlockStops
    <3>2. UNCHANGED <<server, attempt, starting, clientThread, arg, connected, result, pc>>
      BY <3>1
    <3>3. CASE UNCHANGED tunnel
      BY <2>2, <3>2, <3>3
    <3>4. CASE tunnel[t] = "down" /\ tunnel' = [tunnel EXCEPT ![t] = "silent"]
      <4>1. \A u \in Threads : /\ tunnel'[u] = "none" <=> tunnel[u] = "none"
                               /\ Running(u)' <=> Running(u)
                               /\ phase[u] # "inBlock" => tunnel'[u] = tunnel[u]
        BY <3>1, <3>4
      <4>2. StartsOwn'
        BY <2>2, <3>2
      <4>4. \A d \in Callers : pc[d] \in Dialling => attempt[d] \in Threads
        BY DEF Dialling
      <4>5. ASSUME NEW d \in Callers, pc[d] \in Dialling
            PROVE  /\ tunnel'[attempt[d]] = "none" <=> tunnel[attempt[d]] = "none"
                   /\ Running(attempt[d])' <=> Running(attempt[d])
        BY <3>2, <4>1, <4>4, <4>5
      <4>6. DiallingProgress'
        BY <3>2, <4>5 DEF Dialling, BlockRuns
      <4>3. RunningTunnelIsHeld' /\ StartedThreadHasTunnel' /\ SuccessMeansDown'
        BY <2>2, <3>2, <4>1
      <4> QED  BY <4>2, <4>3, <4>6
    <3> QED  BY <2>2, <3>3, <3>4
  <2> QED  BY <1>4, <2>1, <2>2 DEF BlockStops
<1>5. ASSUME BlockDisconnected(t) PROVE Held'
  BY <1>5 DEF BlockDisconnected, FinishBlock
<1>6. ASSUME BlockStillConnected(t) PROVE Held'
  BY <1>6 DEF BlockStillConnected, FinishBlock
<1> QED  BY <1>1, <1>2, <1>3, <1>4, <1>5, <1>6 DEF BlockStep

\* A tunnel that is not running never comes up by itself.
LEMMA HeldTunnel ==
    ASSUME OnePeer, HeldInv, NEW t \in Threads, TunnelStep(t)
    PROVE  Held'
<1> USE DEF OnePeer, HeldInv, Held, HelperTypeOK, ManagerTypeOK, ThreadTypeOK,
            threadVars, managerProps, outsideVars, callVars, requestVars, Running, Started,
            StartsOwn, DiallingProgress, RunningTunnelIsHeld,
            StartedThreadHasTunnel, SuccessMeansDown
<1>1. ASSUME TunnelUp(t) PROVE Held'
  BY <1>1 DEF TunnelUp
<1>2. ASSUME TunnelFails(t) PROVE Held'
  BY <1>2 DEF TunnelFails
<1>3. ASSUME DeliverOutput(t) PROVE Held'
  BY <1>3 DEF DeliverOutput
<1> QED  BY <1>1, <1>2, <1>3 DEF TunnelStep

LEMMA HeldServe ==
    ASSUME OnePeer, HeldInv, NEW c \in Callers, Serve(c)
    PROVE  Held'
<1> USE DEF OnePeer, HeldInv, Held, HelperTypeOK, ManagerTypeOK, ThreadTypeOK,
            threadVars, managerProps, outsideVars, attemptVars, callVars, requestVars, Goto, Return,
            Dialling, BlockRuns, Running, Started,
            StartsOwn, DiallingProgress, RunningTunnelIsHeld,
            StartedThreadHasTunnel, SuccessMeansDown
<1>1. ASSUME HandleVersion(c) \/ HandlePathes(c) PROVE Held'
  BY <1>1 DEF HandleVersion, HandlePathes, helperVars, managerVars
<1>2. ASSUME ReceiveStatus(c) PROVE Held'
  BY <1>2 DEF ReceiveStatus
<1>3. ASSUME NEW s \in Servers, ReceiveConnect(c, s) PROVE Held'
  BY <1>3 DEF ReceiveConnect
<1>4. ASSUME ReceiveDisconnect(c) PROVE Held'
  BY <1>4 DEF ReceiveDisconnect
<1>5. ASSUME ReplyStatus(c) \/ ReplyConnect(c) \/ ReplyDisconnect(c) PROVE Held'
  <2>1. /\ UNCHANGED <<phase, success, tunnel, server, clientThread>>
        /\ pc[c] \notin Dialling
        /\ pc' = [pc EXCEPT ![c] = "idle"]
    BY <1>5 DEF ReplyStatus, ReplyConnect, ReplyDisconnect
  <2>2. \A d \in Callers : d = c
    OBVIOUS
  <2> QED  BY <2>1, <2>2
<1> QED  BY <1>1, <1>2, <1>3, <1>4, <1>5 DEF Serve

LEMMA HeldDeath ==
    ASSUME HeldInv, Die PROVE Held'
  BY DEF Die, Held, Dialling, BlockRuns, Started, StartsOwn, DiallingProgress,
         RunningTunnelIsHeld, StartedThreadHasTunnel, SuccessMeansDown

LEMMA HeldStep ==
    ASSUME OnePeer, HeldInv, [HelperNext]_helperVars PROVE Held'
<1>1. CASE Internal
  BY <1>1, HeldConnect, HeldDisconnect, HeldBlock, HeldTunnel
  DEF Internal, ManagerStep
<1>2. ASSUME NEW c \in Callers, Serve(c) \/ Raises(c) PROVE Held'
  BY <1>2, HeldServe, HeldDeath DEF Raises
<1>3. CASE Killed
  BY <1>3, HeldDeath DEF Killed
<1>4. CASE UNCHANGED helperVars
  <2>1. UNCHANGED <<phase, success, tunnel, server, clientThread, attempt, starting, arg,
                    connected, result, pc>>
    BY <1>4, Zenon
    DEF helperVars, managerVars, threadVars, managerProps, attemptVars, callVars, requestVars
  <2> QED
    BY <2>1
    DEF HeldInv, Held, Running, Started, StartsOwn, DiallingProgress, RunningTunnelIsHeld,
        StartedThreadHasTunnel, SuccessMeansDown
<1> QED  BY <1>1, <1>2, <1>3, <1>4 DEF HelperNext

-----------------------------------------------------------------------------
\* Then what the requests of the one peer find and leave.

\* A thread is cancelled by a disconnect only, which waits until it has ended.
CancelledIsJoined ==
    \A t \in Threads :
        /\ phase[t] = "free" => ~cancelled[t] /\ cinfo[t] = "disconnected"
        /\ cancelled[t] /\ Started(t) =>
              clientThread = t /\ \E c \in Callers : pc[c] \in {"join", "joining"}

\* Nobody starts a thread again that has ended.
FinishedIsSignalled == \A t \in Threads : phase[t] = "finished" => signalled[t]

\* A disconnect waits on the current lock of the thread it cancelled.
Disconnecting ==
    \A c \in Callers :
        /\ pc[c] \in {"cancel", "join", "joining", "collect"} => clientThread # NoThread
        /\ pc[c] \in {"join", "joining", "collect"} => cancelled[clientThread]
        /\ IF pc[c] = "joining"
           THEN waits[c] = [thread |-> clientThread, number |-> lock[clientThread]]
           ELSE waits[c] = NotWaiting

\* A connect has the manager's thread, and the configuration is its own.
Connecting ==
    \A c \in Callers :
        /\ pc[c] \in ConnectSteps => arg[c] \in Servers
        /\ pc[c] \in Dialling \cup {"adopt", "cause"} =>
              /\ attempt[c] \in Threads /\ clientThread = attempt[c]
              /\ server[attempt[c]] = arg[c]
              /\ ~cancelled[attempt[c]]
        /\ pc[c] \in {"launch", "poll", "checkRunning", "decided", "retry"} => ~L2TP(arg[c])
        /\ pc[c] \in {"open", "runLoop", "adopt", "cause"} => L2TP(arg[c])
        /\ pc[c] \in Dialling \cup {"newThread"} =>
              L2TP(arg[c]) \/ config[Kind(arg[c])] = arg[c]

\* How far it is: what it found out, and what the manager knows of it.
ConnectProgress ==
    \A c \in Callers :
        /\ pc[c] = "poll" => ~connected[c]
        /\ pc[c] = "retry" => ~result[c]
        /\ pc[c] \in {"poll", "checkRunning", "decided", "runLoop"} => dialled[attempt[c]] = arg[c]
        /\ pc[c] = "start" /\ connected[c] => dialled[attempt[c]] = arg[c]
        /\ pc[c] \in {"checkRunning", "decided", "start"} /\ connected[c] /\ ~L2TP(arg[c]) =>
              connectedServer = arg[c]
        /\ pc[c] = "start" /\ ~L2TP(arg[c]) => (result[c] <=> connected[c])
        /\ pc[c] \in {"send", "open"} /\ L2TP(arg[c]) => cinfo[attempt[c]] = "disconnected"
        /\ pc[c] = "start" /\ L2TP(arg[c]) /\ cinfo[attempt[c]] = "connected" => connected[c]
        /\ pc[c] = "adopt" =>
              /\ cinfo[attempt[c]] = "connected" => Started(attempt[c])
              /\ Started(attempt[c]) => dialled[attempt[c]] = arg[c]
        /\ pc[c] = "cause" /\ connectedServer # NoServer =>
              connectedServer = arg[c] /\ Started(attempt[c])

\* While its thread runs the manager reports the server dialled, but for the
\* moment before an L2TP connect stores it.
Reports ==
    (\A c \in Callers : pc[c] # "adopt") /\ IsConnected /\ Started(clientThread) =>
        connectedServer = server[clientThread] /\ connectedServer = dialled[clientThread]

Solo ==
    /\ CancelledIsJoined
    /\ FinishedIsSignalled
    /\ Disconnecting
    /\ Connecting
    /\ ConnectProgress
    /\ OkMeansConnected
    /\ Reports

SoloInv == ThreadsInv /\ Held /\ Solo

\* A connect of the only peer, step by step: no disconnect is under way, so that no
\* block clears what it has stored.
LEMMA SoloConnect ==
    ASSUME OnePeer, SoloInv, NEW c \in Callers, ConnectStep(c)
    PROVE  Solo'
<1>0. \A d \in Callers : d = c
  BY DEF OnePeer
<1>o. pc[c] \in BlockRuns => starting[c] = attempt[c]
  BY DEF SoloInv, Held, StartsOwn
<1>a. ASSUME Callback(c) PROVE connected'[c] <=> tunnel[starting[c]] = "up"
  <2>1. connected \in [Callers -> BOOLEAN]
    BY DEF SoloInv, ThreadsInv, HelperTypeOK, ManagerTypeOK
  <2>2. connected' = [connected EXCEPT ![c] = (tunnel[starting[c]] = "up")]
    BY <1>a DEF Callback
  <2> QED  BY <2>1, <2>2, Zenon
<1> USE <1>0, <1>o, ThreadAssumption, ServerAssumption
    DEF SoloInv, ThreadsInv, HelperTypeOK, ManagerTypeOK, ThreadTypeOK,
        Solo, threadVars, managerProps, outsideVars, attemptVars, requestVars, Goto,
        CancelledIsJoined, FinishedIsSignalled, Disconnecting, Connecting, ConnectProgress,
        OkMeansConnected, Reports, Dialling, BlockRuns, ConnectSteps, IsConnected, Started,
        NotWaiting
<1>1. ASSUME WriteConfig(c) PROVE Solo'
  BY <1>1 DEF WriteConfig, Kind, Kinds
<1>2. ASSUME PreparePrefs(c) PROVE Solo'
  BY <1>2 DEF PreparePrefs
<1>3. ASSUME NEW t \in Threads, NewClientThread(c, t) PROVE Solo'
  BY <1>3 DEF NewClientThread, InitThread
<1>4. ASSUME SendStart(c) PROVE Solo'
  <2>1. clientThread = attempt[c] /\ attempt[c] \in Threads
    BY <1>4 DEF SendStart
  <2>2. /\ UNCHANGED <<threadVars, managerProps, outsideVars, attemptVars, arg, attempt,
                       connected, result>>
        /\ pc[c] = "send"
        /\ pc' = [pc EXCEPT ![c] = IF L2TP(server[clientThread]) THEN "open" ELSE "launch"]
    BY <1>4, <2>1 DEF SendStart
  <2>3. CASE L2TP(arg[c])
    BY <2>1, <2>2, <2>3
  <2>4. CASE ~L2TP(arg[c])
    BY <2>1, <2>2, <2>4
  <2> QED  BY <2>3, <2>4
<1>5. ASSUME LaunchTask(c) PROVE Solo'
  BY <1>5 DEF LaunchTask
<1>6. ASSUME PollOutput(c) PROVE Solo'
  BY <1>6 DEF PollOutput
<1>7. ASSUME CheckRunning(c) PROVE Solo'
  BY <1>7 DEF CheckRunning
<1>8. ASSUME StoreOutcome(c) PROVE Solo'
  <2>1. result'[c] = connected[c]
    BY <1>8 DEF StoreOutcome
  <2>2. /\ UNCHANGED <<threadVars, connectedServer, clientThread, config, server, dialled,
                      stopping, cinfo, arg, attempt, connected>>
        /\ pc[c] = "decided" /\ pc' = [pc EXCEPT ![c] = "start"]
    BY <1>8 DEF StoreOutcome
  <2> QED  BY <2>1, <2>2
<1>9. ASSUME StartClientThread(c) PROVE Solo'
  <2> DEFINE t == attempt[c]
  <2>1. /\ pc[c] = "start" /\ t \in Threads /\ phase[t] = "allocated"
        /\ starting[c] = t
        /\ UNCHANGED <<connectedServer, clientThread, config, server, dialled, stopping, cinfo,
                       arg, attempt, connected, cancelled, waits, result>>
        /\ lock' = [lock EXCEPT ![t] = @ + 1]
        /\ signalled' = [signalled EXCEPT ![t] = FALSE]
    BY <1>9 DEF StartClientThread, StartThread, Held, StartsOwn
  <2>2. pc' = [pc EXCEPT ![c] = IF L2TP(arg[c]) THEN "adopt"
                                ELSE IF Protocol[arg[c]] = "pptp" /\ ~result[c] THEN "retry"
                                ELSE "replyConnect"]
    BY <1>9 DEF StartClientThread, AfterStart, L2TP
  <2>3. CASE connected[c]
    <3>1. phase' = [phase EXCEPT ![t] = "spawned"]
      BY <1>9, <2>1, <2>3 DEF StartClientThread, StartThread
    <3>2. CASE L2TP(arg[c])
      BY <2>1, <2>2, <2>3, <3>1, <3>2
    <3>3. CASE ~L2TP(arg[c])
      <4>1. result[c] /\ pc' = [pc EXCEPT ![c] = "replyConnect"]
        BY <2>1, <2>2, <2>3, <3>3
      <4> QED  BY <2>1, <2>3, <3>1, <3>3, <4>1
    <3> QED  BY <3>2, <3>3
  <2>4. CASE ~connected[c]
    <3>1. phase' = phase
      BY <1>9, <2>1, <2>4 DEF StartClientThread, StartThread
    <3>2. CASE L2TP(arg[c])
      BY <2>1, <2>2, <2>4, <3>1, <3>2
    <3>3. CASE ~L2TP(arg[c])
      <4>1. ~result[c] /\ pc' \in {[pc EXCEPT ![c] = "replyConnect"], [pc EXCEPT ![c] = "retry"]}
        BY <2>1, <2>2, <2>4, <3>3
      <4> QED  BY <2>1, <2>4, <3>1, <3>3, <4>1
    <3> QED  BY <3>2, <3>3
  <2> QED  BY <2>3, <2>4
<1>10. ASSUME Retry(c) PROVE Solo'
  BY <1>10 DEF Retry
<1>11. ASSUME OpenConnection(c) PROVE Solo'
  BY <1>11 DEF OpenConnection
<1>12. ASSUME Callback(c) PROVE Solo'
  <2> DEFINE t == attempt[c]
  <2>1. /\ pc[c] = "runLoop" /\ pc' = [pc EXCEPT ![c] = "start"]
        /\ cinfo' = [cinfo EXCEPT ![t] = IF tunnel[t] = "up" THEN "connected" ELSE "disconnected"]
        /\ UNCHANGED <<threadVars, connectedServer, clientThread, config, server, dialled,
                       stopping, arg, attempt, result>>
    BY <1>12 DEF Callback
  <2>2. connected'[c] <=> tunnel[t] = "up"
    BY <1>a, <1>12, <2>1
  <2>3. t \in Threads /\ phase[t] = "allocated"
    BY <2>1 DEF Held, StartsOwn
  <2> QED  BY <2>1, <2>2, <2>3
<1>13. ASSUME AdoptServer(c) PROVE Solo'
  BY <1>13 DEF AdoptServer
<1>14. ASSUME ReadCause(c) PROVE Solo'
  BY <1>14 DEF ReadCause
<1> QED
  BY <1>1, <1>2, <1>3, <1>4, <1>5, <1>6, <1>7, <1>8, <1>9, <1>10, <1>11, <1>12, <1>13, <1>14
  DEF ConnectStep

\* A disconnect of the only peer: a join that is let through leaves no cancelled
\* thread running.
LEMMA SoloDisconnect ==
    ASSUME OnePeer, SoloInv, NEW c \in Callers, DisconnectStep(c)
    PROVE  Solo'
<1>0. \A d \in Callers : d = c
  BY DEF OnePeer
<1> USE <1>0, ThreadAssumption
    DEF SoloInv, ThreadsInv, HelperTypeOK, ManagerTypeOK, ThreadTypeOK,
        ThreadInv, SignalledIsFinished,
        Solo, threadVars, managerProps, outsideVars, attemptVars, Goto,
        CancelledIsJoined, FinishedIsSignalled, Disconnecting, Connecting, ConnectProgress,
        OkMeansConnected,
        Reports, Dialling, BlockRuns, ConnectSteps, IsConnected, Started, NotWaiting
<1>1. ASSUME CheckConnected(c) PROVE Solo'
  BY <1>1 DEF CheckConnected
<1>2. ASSUME CancelClientThread(c) PROVE Solo'
  BY <1>2 DEF CancelClientThread, CancelThread
<1>3. ASSUME JoinClientThread(c) PROVE Solo'
  BY <1>3 DEF JoinClientThread, JoinNilLock, JoinLock
<1>4. ASSUME LeaveJoin(c) PROVE Solo'
  BY <1>4 DEF LeaveJoin, JoinReturns, Joinable
<1>5. ASSUME CollectSuccess(c) PROVE Solo'
  BY <1>5 DEF CollectSuccess
<1>6. ASSUME ForgetThread(c) PROVE Solo'
  BY <1>6 DEF ForgetThread
<1> QED  BY <1>1, <1>2, <1>3, <1>4, <1>5, <1>6 DEF DisconnectStep

\* A block does more than wait only while a disconnect waits for it.
LEMMA SoloBlock ==
    ASSUME OnePeer, SoloInv, NEW t \in Threads, BlockStep(t)
    PROVE  Solo'
<1> USE ThreadAssumption
    DEF OnePeer, SoloInv, ThreadsInv, HelperTypeOK, ManagerTypeOK, ThreadTypeOK,
        StoppingIsCancelled, Solo, threadVars, managerProps, outsideVars, attemptVars, callVars,
        requestVars,
        CancelledIsJoined, FinishedIsSignalled, Disconnecting, Connecting, ConnectProgress,
        OkMeansConnected,
        Reports, Dialling, BlockRuns, ConnectSteps, IsConnected, Started
<1>1. ASSUME BlockEnters(t) PROVE Solo'
  BY <1>1 DEF BlockEnters, EnterBlock
<1>2. ASSUME BlockTerminates(t) PROVE Solo'
  BY <1>2 DEF BlockTerminates
<1>3. ASSUME phase[t] = "inBlock", cancelled[t], FinishBlock(t, TRUE) \/ FinishBlock(t, FALSE),
             cinfo' \in {cinfo, [cinfo EXCEPT ![t] = "freed"], [cinfo EXCEPT ![t] = "connected"]},
             connectedServer' \in {connectedServer, NoServer},
             UNCHANGED <<clientThread, config, server, dialled, callVars>>
      PROVE  Solo'
  <2>1. PICK c \in Callers : pc[c] \in {"join", "joining"} /\ \A d \in Callers : d = c
    BY <1>3
  <2>2. /\ phase' = [phase EXCEPT ![t] = "finished"]
        /\ signalled' = [signalled EXCEPT ![t] = TRUE]
        /\ UNCHANGED <<cancelled, lock, waits>>
    BY <1>3 DEF FinishBlock
  <2> QED  BY <1>3, <2>1, <2>2
<1>4. ASSUME BlockClears(t) PROVE Solo'
  BY <1>3, <1>4 DEF BlockClears
<1>5. ASSUME BlockStops(t) PROVE Solo'
  <2>1. CASE FinishBlock(t, FALSE)
    BY <1>3, <1>5, <2>1 DEF BlockStops
  <2>2. CASE UNCHANGED threadVars
    BY <1>5, <2>2 DEF BlockStops
  <2> QED  BY <1>5, <2>1, <2>2 DEF BlockStops
<1>6. ASSUME BlockDisconnected(t) PROVE Solo'
  BY <1>3, <1>6 DEF BlockDisconnected
<1>7. ASSUME BlockStillConnected(t) PROVE Solo'
  BY <1>3, <1>7 DEF BlockStillConnected
<1> QED  BY <1>1, <1>2, <1>4, <1>5, <1>6, <1>7 DEF BlockStep

LEMMA SoloServe ==
    ASSUME OnePeer, SoloInv, NEW c \in Callers, Serve(c)
    PROVE  Solo'
<1>0. \A d \in Callers : d = c
  BY DEF OnePeer
<1> USE <1>0, ThreadAssumption
    DEF SoloInv, ThreadsInv, HelperTypeOK, ManagerTypeOK, ThreadTypeOK,
        Solo, threadVars, managerProps, outsideVars, attemptVars, callVars, requestVars, Goto,
        Return,
        CancelledIsJoined, FinishedIsSignalled, Disconnecting, Connecting, ConnectProgress,
        OkMeansConnected,
        Reports, Dialling, BlockRuns, ConnectSteps, IsConnected, Started
<1>1. ASSUME HandleVersion(c) \/ HandlePathes(c) PROVE Solo'
  BY <1>1 DEF HandleVersion, HandlePathes, helperVars, managerVars
<1>2. ASSUME ReceiveStatus(c) PROVE Solo'
  BY <1>2 DEF ReceiveStatus
<1>3. ASSUME NEW s \in Servers, ReceiveConnect(c, s) PROVE Solo'
  BY <1>3 DEF ReceiveConnect
<1>4. ASSUME ReceiveDisconnect(c) PROVE Solo'
  BY <1>4 DEF ReceiveDisconnect
<1>5. ASSUME ReplyStatus(c) \/ ReplyConnect(c) \/ ReplyDisconnect(c) PROVE Solo'
  BY <1>5 DEF ReplyStatus, ReplyConnect, ReplyDisconnect
<1> QED  BY <1>1, <1>2, <1>3, <1>4, <1>5 DEF Serve

LEMMA SoloDeath ==
    ASSUME Die PROVE Solo'
  BY DEF Die, Solo, CancelledIsJoined, FinishedIsSignalled, Disconnecting, Connecting,
         ConnectProgress,
         OkMeansConnected, Reports, Dialling, BlockRuns, ConnectSteps, IsConnected, Started

\* The tunnels are not what the manager remembers of them.
LEMMA SoloRest ==
    ASSUME SoloInv,
           UNCHANGED helperVars \/ \E t \in Threads : TunnelStep(t)
    PROVE  Solo'
<1>1. UNCHANGED <<threadVars, managerProps, config, server, dialled, stopping, cinfo, callVars>>
  BY DEF TunnelStep, TunnelUp, TunnelFails, DeliverOutput, helperVars,
         managerVars, outsideVars, attemptVars
<1> QED
  BY <1>1
  DEF threadVars, managerProps, callVars, requestVars, SoloInv, Solo, CancelledIsJoined,
      FinishedIsSignalled, Disconnecting,
      Connecting, ConnectProgress, OkMeansConnected, Reports, IsConnected, Started

LEMMA SoloInvStep ==
    ASSUME OnePeer, SoloInv, [HelperNext]_helperVars
    PROVE  SoloInv'
<1>1. ThreadsInv' /\ Held'
  BY ThreadsInvStep, HeldStep DEF SoloInv, ThreadsInv, HeldInv
<1>2. CASE Internal
  BY <1>1, <1>2, SoloConnect, SoloDisconnect, SoloBlock, SoloRest
  DEF Internal, ManagerStep, SoloInv
<1>3. ASSUME NEW c \in Callers, Serve(c) \/ Raises(c) PROVE SoloInv'
  BY <1>1, <1>3, SoloServe, SoloDeath DEF Raises, SoloInv
<1>4. CASE Killed
  BY <1>1, <1>4, SoloDeath DEF Killed, SoloInv
<1>5. CASE UNCHANGED helperVars
  BY <1>1, <1>5, SoloRest DEF SoloInv
<1> QED  BY <1>2, <1>3, <1>4, <1>5 DEF HelperNext

LEMMA SoloInitInv == HelperInit => Solo
  BY DEF HelperInit, ManagerInit, ThreadInit, Solo, CancelledIsJoined, FinishedIsSignalled,
         Disconnecting,
         Connecting, ConnectProgress, OkMeansConnected, Reports, Dialling, BlockRuns, ConnectSteps,
         IsConnected, Started

LEMMA SoloInvariance == OnePeer => (HelperSpec => []SoloInv)
<1> SUFFICES ASSUME OnePeer PROVE HelperSpec => []SoloInv
  OBVIOUS
<1>1. HelperInit => SoloInv
  BY ThreadsInitInv, HeldInit, SoloInitInv DEF SoloInv
<1>2. SoloInv /\ [HelperNext]_helperVars => SoloInv'
  BY SoloInvStep
<1> QED  BY <1>1, <1>2, PTL DEF HelperSpec

-----------------------------------------------------------------------------

LEMMA HeldOfOnePeer == OnePeer => (HelperSpec => []Held)
<1> SUFFICES ASSUME OnePeer PROVE HelperSpec => []Held
  OBVIOUS
<1>1. SoloInv => Held
  BY DEF SoloInv
<1> QED  BY <1>1, SoloInvariance, PTL

\* With one peer, "Task is null. That's very weird" is unreachable for any number of
\* retries (VPNConnectionManager.m 608-614, 676-700).
THEOREM TaskIsNeverNull == OnePeer => (HelperSpec => []StartedThreadHasTunnel)
<1> SUFFICES ASSUME OnePeer PROVE HelperSpec => []StartedThreadHasTunnel
  OBVIOUS
<1>1. Held => StartedThreadHasTunnel
  BY DEF Held
<1> QED  BY <1>1, HeldOfOnePeer, PTL

\* With one peer, a block that reported success has taken its tunnel down (740-746,
\* 477-497).
THEOREM SuccessIsDown == OnePeer => (HelperSpec => []SuccessMeansDown)
<1> SUFFICES ASSUME OnePeer PROVE HelperSpec => []SuccessMeansDown
  OBVIOUS
<1>1. Held => SuccessMeansDown
  BY DEF Held
<1> QED  BY <1>1, HeldOfOnePeer, PTL

\* With one peer, a connect answered Ok left the manager on the server asked for,
\* with a started thread that nobody has cancelled, for every protocol
\* (VPNConnectionManager.m 543-581, 705-796).
THEOREM OkIsConnected == OnePeer => (HelperSpec => []OkMeansConnected)
<1> SUFFICES ASSUME OnePeer PROVE HelperSpec => []OkMeansConnected
  OBVIOUS
<1>1. SoloInv => OkMeansConnected
  BY DEF SoloInv, Solo
<1> QED  BY <1>1, SoloInvariance, PTL

\* With one peer, the server that a status reply names is the one the running
\* thread's program or service was started for (VPNConnectionManager.m 585, 706).
THEOREM ReportIsDialled == OnePeer => (HelperSpec => []ReportsDialledServer)
<1> SUFFICES ASSUME OnePeer PROVE HelperSpec => []ReportsDialledServer
  OBVIOUS
<1>1. SoloInv => ReportsDialledServer
  <2> SUFFICES ASSUME SoloInv, NEW c \in Callers, pc[c] \in {"idle", "replyStatus"},
                      IsConnected, Started(clientThread)
               PROVE  /\ connectedServer = server[clientThread]
                      /\ connectedServer = dialled[clientThread]
    BY DEF ReportsDialledServer
  <2>1. \A d \in Callers : pc[d] # "adopt"
    BY DEF OnePeer
  <2> QED  BY <2>1 DEF SoloInv, Solo, Reports
<1> QED  BY <1>1, SoloInvariance, PTL

\* With one peer, a disconnect hangs only on the newest lock of a thread that was
\* never started, and whose tunnel does not run: that of an attempt answered Fail
\* (ClientThread.m 55; VPNConnectionManager.m 762-771).
THEOREM StuckOnRefused == OnePeer => (HelperSpec => []StuckOnlyOnRefusedStart)
<1> SUFFICES ASSUME OnePeer PROVE HelperSpec => []StuckOnlyOnRefusedStart
  OBVIOUS
<1>1. SoloInv => StuckOnlyOnRefusedStart
  <2> SUFFICES ASSUME SoloInv, NEW c \in Callers, WaitsOnDeadLock(c)
               PROVE  /\ phase[clientThread] = "allocated"
                      /\ ~Running(clientThread)
                      /\ waits[c].number = lock[clientThread]
    BY DEF StuckOnlyOnRefusedStart
  <2>1. pc[c] = "joining" /\ clientThread # NoThread
        /\ waits[c] = [thread |-> clientThread, number |-> lock[clientThread]]
    BY DEF WaitsOnDeadLock, SoloInv, Solo, Disconnecting
  <2>2. clientThread \in Threads /\ lock[clientThread] \in Nat
    BY <2>1 DEF SoloInv, ThreadsInv, ThreadTypeOK, HelperTypeOK, ManagerTypeOK
  <2>3. phase[clientThread] = "allocated"
    BY <2>1, <2>2 DEF WaitsOnDeadLock, SoloInv, Solo, FinishedIsSignalled
  <2>4. \A d \in Callers : pc[d] = "joining"
    BY <2>1 DEF OnePeer
  <2>5. ~Running(clientThread)
    BY <2>2, <2>3, <2>4 DEF SoloInv, Held, RunningTunnelIsHeld, Started
  <2> QED  BY <2>1, <2>3, <2>5
<1> QED  BY <1>1, SoloInvariance, PTL
=============================================================================
