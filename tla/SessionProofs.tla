---------------------------- MODULE SessionProofs ----------------------------
(***************************************************************************)
(* What holds of the whole session, for any servers, threads, runs of the  *)
(* application and deaths of the helper: every request is in one place,    *)
(* and what is proved of the application and of the helper holds of them   *)
(* together.  Then, for one run of the application and a helper that stays *)
(* alive: what the application shows is what the helper has.               *)
(***************************************************************************)
EXTENDS OneVPN, AppProofs, HelperProofs, FiniteSetTheorems

\* A request to connect names a server.
Asked == {q \in Requests : q.type = "connect" => q.server \in Servers}

\* The steps at which a request of a type is served.
Serves(step, type) ==
    \/ type = "status" /\ step = "replyStatus"
    \/ type = "connect" /\ step \in ConnectSteps
    \/ type = "disconnect" /\ step \in DisconnectSteps

\* A connection that was never made has nothing in it, and one has at most one
\* request, which waits until it is taken.
WiresInv ==
    /\ peer \in Callers \cup {NoPeer}
    /\ usedPeers \subseteq Callers
    /\ inbox \in [Callers -> Seq(Asked)]
    /\ outbox \in [Callers -> Seq(Replies)]
    /\ running <=> peer # NoPeer
    /\ running => peer \in usedPeers
    /\ \A c \in Callers :
          /\ inbox[c] # <<>> => pc[c] = "idle" /\ \E q \in Asked : inbox[c] = <<q>>
          /\ c \notin usedPeers => inbox[c] = <<>> /\ outbox[c] = <<>> /\ pc[c] = "idle"

Waits(q) == inbox[peer] = <<q>> /\ pc[peer] = "idle" /\ outbox[peer] = <<>>
Served(q) == inbox[peer] = <<>> /\ Serves(pc[peer], q.type) /\ outbox[peer] = <<>>
Answered(q, r) == inbox[peer] = <<>> /\ pc[peer] = "idle" /\ outbox[peer] = <<r>>

Fits(q, r) == r = ErrorReply \/ r.type = q.type

\* The request of the running application waits, is served or is answered.
Pipeline ==
    running =>
        \/ inFlight = <<>> /\ inbox[peer] = <<>> /\ pc[peer] = "idle" /\ outbox[peer] = <<>>
        \/ \E q \in Asked :
              /\ inFlight = <<q>>
              /\ \/ Waits(q)
                 \/ Served(q)
                 \/ \E r \in Replies : Answered(q, r) /\ Fits(q, r)

SessionInv ==
    AppInv /\ ThreadsInv /\ WiresInv /\ Pipeline /\ disturbed \in BOOLEAN

-----------------------------------------------------------------------------
\* Sequences of at most one element.

LEMMA Single ==
    ASSUME NEW q
    PROVE  /\ <<q>> # <<>>
           /\ Len(<<q>>) = 1
           /\ Head(<<q>>) = q
           /\ Tail(<<q>>) = <<>>
           /\ Last(<<q>>) = q
           /\ Append(<<>>, q) = <<q>>
  BY DEF Last

LEMMA SingleIsOne ==
    ASSUME NEW p, NEW q, <<p>> = <<q>> PROVE p = q
  OBVIOUS

LEMMA SingleTyped ==
    ASSUME NEW S, NEW q \in S PROVE <<q>> \in Seq(S)
  OBVIOUS

LEMMA NoErrors ==
    ASSUME NEW S, NEW s \in Seq(S), NEW e PROVE s \o [i \in 1..0 |-> e] = s
<1>1. [i \in 1..0 |-> e] = <<>>
  OBVIOUS
<1> QED  BY <1>1, ConcatEmptySeq

LEMMA OneError ==
    ASSUME NEW e PROVE <<>> \o [i \in 1..1 |-> e] = <<e>>
<1>1. [i \in 1..1 |-> e] = <<e>>
  OBVIOUS
<1>2. <<e>> \in Seq({e})
  OBVIOUS
<1> QED  BY <1>1, <1>2, ConcatEmptySeq

-----------------------------------------------------------------------------
\* What each side does to the wires.

\* A launch asks at most the first question of the start-up chain.
LEMMA LaunchAsks ==
    ASSUME NEW helper \in {"found", "installed", "missing"}, Launch(helper)
    PROVE  /\ running' /\ ~broken'
           /\ \/ inFlight' = <<>>
              \/ \E q \in Asked : inFlight' = <<q>> /\ q.type \in {"version", "pathes"}
<1>1. ASSUME NEW type \in {"version", "pathes"}
      PROVE  Request(type, NoAppServer) \in Asked /\ Request(type, NoAppServer).type = type
  BY <1>1 DEF Request, Asked, Requests, RequestTypes
<1>2. inFlight' \in {<<>>, <<Request("version", NoAppServer)>>, <<Request("pathes", NoAppServer)>>}
  BY DEF Launch
<1> QED  BY <1>1, <1>2 DEF Launch

\* A click asks one thing, when nothing is out.
LEMMA UserAsks ==
    ASSUME AppInv, UserStep
    PROVE  /\ running /\ running' /\ UNCHANGED broken
           /\ \/ UNCHANGED inFlight
              \/ /\ inFlight = <<>>
                 /\ \E q \in Asked :
                       /\ inFlight' = <<q>>
                       /\ q = IF shownConnected THEN Request("disconnect", NoAppServer)
                                                ELSE Request("connect", currentServer)
<1>1. CASE ConnectButtonClicked
  <2>1. running /\ running' /\ UNCHANGED broken /\ inFlight = <<>>
    BY <1>1 DEF ConnectButtonClicked, AppInv, OneRequestAtATime, history
  <2> DEFINE q == IF shownConnected THEN Request("disconnect", NoAppServer)
                                    ELSE Request("connect", currentServer)
  <2>2. inFlight' = Append(<<>>, q)
    BY <1>1, <2>1 DEF ConnectButtonClicked, Ask
  <2>3. q \in Asked
    BY <1>1, PeerAssumption
    DEF ConnectButtonClicked, AppInv, AppTypeOK, Request, Asked, Requests, RequestTypes
  <2> QED  BY <2>1, <2>2, <2>3, Single, Zenon
<1>2. CASE \/ MenuButtonClicked \/ OnClose
           \/ \E s \in AppServers : OnServerSelected(s)
           \/ \E complete \in BOOLEAN : ControlTextDidChange(complete)
  <2>1. running /\ UNCHANGED <<running, broken, inFlight>>
    BY <1>2 DEF MenuButtonClicked, OnClose, OnServerSelected, ControlTextDidChange, history
  <2> QED  BY <2>1, Zenon
<1> QED  BY <1>1, <1>2, Zenon DEF UserStep

\* The reply is handled, or it is an error that does not parse.
Dropped(r) == r = ErrorReply /\ Head(inFlight).type # "version" /\ NotParsed
Arrives(r) == Handled(r) \/ Dropped(r)

LEMMA ReplyArrived ==
    ASSUME AppReceives \/ AppUpgrades
    PROVE  peer # NoPeer /\ outbox[peer] # <<>> /\ Arrives(Head(outbox[peer]))
<1>1. CASE AppUpgrades
  BY <1>1, Zenon DEF AppUpgrades, Handled, Arrives
<1>2. CASE AppReceives
  <2>1. /\ peer # NoPeer /\ outbox[peer] # <<>>
        /\ LET r == Head(outbox[peer]) IN
              \/ VersionReplied(r, FALSE) \/ PathesReplied(r) \/ StatusReplied(r)
              \/ ConnectReplied(r) \/ DisconnectReplied(r)
              \/ Dropped(r)
    BY <1>2, Zenon DEF AppReceives, Dropped
  <2> QED  BY <2>1, Zenon DEF Handled, Arrives
<1> QED  BY <1>1, <1>2

\* Reply r ends the request q, and may ask the next question of the chain.
Ends(q, r) ==
    /\ running /\ running'
    /\ broken' = (broken \/ r.type # q.type)
    /\ \/ inFlight' = <<>>
       \/ \E p \in Asked :
             /\ inFlight' = <<p>>
             /\ r.type = q.type
             /\ \/ p.type = "pathes" /\ q.type = "version"
                \/ p.type = "status" /\ q.type = "pathes" /\ r.ok

LEMMA ReplyEnds ==
    ASSUME NEW q, inFlight = <<q>>, NEW r, Arrives(r)
    PROVE  Ends(q, r)
<1>1. Head(inFlight) = q /\ Tail(inFlight) = <<>>
  BY Single, Zenon
<1>2. ASSUME NEW type \in {"pathes", "status"}
      PROVE  /\ Request(type, NoAppServer) \in Asked
             /\ Request(type, NoAppServer).type = type
             /\ Append(<<>>, Request(type, NoAppServer)) = <<Request(type, NoAppServer)>>
  BY <1>2, Single DEF Request, Asked, Requests, RequestTypes
<1>3. ASSUME NEW upgraded \in BOOLEAN, VersionReplied(r, upgraded) PROVE Ends(q, r)
  BY <1>1, <1>2, <1>3 DEF VersionReplied, Answers, Ends
<1>4. CASE PathesReplied(r)
  BY <1>1, <1>2, <1>4 DEF PathesReplied, Answers, Ends
<1>5. CASE StatusReplied(r) \/ ConnectReplied(r) \/ DisconnectReplied(r)
  <2>1. PICK type : Answers(type, r) /\ inFlight' = Tail(inFlight) /\ UNCHANGED running
    BY <1>5, Zenon DEF StatusReplied, ConnectReplied, DisconnectReplied
  <2>2. type = q.type
    BY <1>1, <2>1 DEF Answers
  <2> QED  BY <1>1, <2>1, <2>2, Zenon DEF Answers, Ends
<1>6. CASE Dropped(r)
  BY <1>1, <1>6, Zenon DEF Dropped, NotParsed, ErrorReply, Reply, Ends
<1> QED  BY <1>3, <1>4, <1>5, <1>6 DEF Arrives, Handled

LEMMA VersionReplies ==
    /\ VersionReply \in Replies /\ VersionReply.type = "version"
    /\ OutdatedReply \in Replies /\ OutdatedReply.type = "version"
  BY DEF VersionReply, OutdatedReply, ErrorReply, Reply, Replies

\* The helper takes the one request of a peer and answers it or begins to serve it.
Begins(c, q) ==
    /\ inbox[c] = <<q>> /\ pc[c] = "idle"
    /\ inbox' = [inbox EXCEPT ![c] = <<>>]
    /\ \/ \E r \in Replies : r.type = q.type /\ Answer(c, r) /\ UNCHANGED pc
       \/ \E step \in ConnectSteps \cup DisconnectSteps \cup {"replyStatus"} :
             /\ Serves(step, q.type)
             /\ pc' = [pc EXCEPT ![c] = step]
             /\ UNCHANGED outbox

LEMMA TakesOne ==
    ASSUME WiresInv, NEW c \in Callers, HelperTakes(c)
    PROVE  Serve(c) /\ \E q \in Asked : Begins(c, q)
<1>1. inbox[c] # <<>>
  BY DEF HelperTakes, Takes
<1>2. PICK q \in Asked : inbox[c] = <<q>>
  BY <1>1 DEF WiresInv
<1>3. Head(inbox[c]) = q /\ Tail(inbox[c]) = <<>> /\ pc[c] = "idle"
  BY <1>1, <1>2, Single DEF WiresInv
<1>4. inbox' = [inbox EXCEPT ![c] = <<>>]
  BY <1>3 DEF HelperTakes
<1>5. ASSUME NEW r \in {VersionReply, OutdatedReply},
             Takes(c, "version"), HandleVersion(c), Answer(c, r)
      PROVE  Serve(c) /\ Begins(c, q)
  <2>1. r \in Replies /\ r.type = "version"
    BY <1>5, VersionReplies
  <2>2. q.type = "version" /\ UNCHANGED pc
    BY <1>3, <1>5 DEF Takes, HandleVersion, helperVars, managerVars, callVars
  <2>3. \E a \in Replies : a.type = q.type /\ Answer(c, a) /\ UNCHANGED pc
    BY <1>5, <2>1, <2>2
  <2> QED  BY <1>2, <1>3, <1>4, <1>5, <2>3, Zenon DEF Serve, Begins
<1>6. CASE Takes(c, "pathes") /\ HandlePathes(c) /\ Answer(c, PathesReply)
  <2>1. PathesReply \in Replies /\ PathesReply.type = q.type /\ UNCHANGED pc
    BY <1>3, <1>6 DEF PathesReply, Reply, Replies, Takes, HandlePathes, callVars, requestVars
  <2> QED  BY <1>2, <1>3, <1>4, <1>6, <2>1, Zenon DEF Serve, Begins
<1>7. CASE Takes(c, "status") /\ ReceiveStatus(c) /\ UNCHANGED outbox
  BY <1>2, <1>3, <1>4, <1>7 DEF Serve, Begins, Takes, ReceiveStatus, Goto, Serves
<1>8. CASE /\ Takes(c, "connect")
           /\ ReceiveConnect(c, Head(inbox[c]).server)
           /\ UNCHANGED outbox
  <2>1. q.server \in Servers
    BY <1>2, <1>3, <1>8 DEF Takes, Asked
  <2> QED
    BY <1>2, <1>3, <1>4, <1>8, <2>1
    DEF Serve, Begins, Takes, ReceiveConnect, Goto, Serves, ConnectSteps
<1>9. CASE Takes(c, "disconnect") /\ ReceiveDisconnect(c) /\ UNCHANGED outbox
  BY <1>2, <1>3, <1>4, <1>9
  DEF Serve, Begins, Takes, ReceiveDisconnect, Goto, Serves, DisconnectSteps
<1> QED  BY <1>5, <1>6, <1>7, <1>8, <1>9 DEF HelperTakes

\* ... and answers what it has served.
Finishes(c, r) ==
    /\ Serves(pc[c], r.type)
    /\ pc' = [pc EXCEPT ![c] = "idle"]
    /\ Answer(c, r)

LEMMA RepliesOnce ==
    ASSUME HelperTypeOK, NEW c \in Callers, HelperReplies(c)
    PROVE  Serve(c) /\ \E r \in Replies : Finishes(c, r)
<1> USE DEF HelperTypeOK, ManagerTypeOK, Reply, Replies, Finishes, Serves, Goto, Return
<1>1. CASE ReplyStatus(c) /\ Answer(c, StatusReply(c))
  <2>1. StatusReply(c) \in Replies /\ StatusReply(c).type = "status"
    BY DEF StatusReply
  <2> QED  BY <1>1, <2>1 DEF Serve, ReplyStatus
<1>2. CASE ReplyConnect(c) /\ Answer(c, ConnectReply(c))
  <2>1. ConnectReply(c) \in Replies /\ ConnectReply(c).type = "connect"
    BY DEF ConnectReply
  <2> QED  BY <1>2, <2>1 DEF Serve, ReplyConnect, ConnectSteps
<1>3. CASE ReplyDisconnect(c) /\ Answer(c, DisconnectReply(c))
  <2>1. DisconnectReply(c) \in Replies /\ DisconnectReply(c).type = "disconnect"
    BY DEF DisconnectReply
  <2> QED  BY <1>3, <2>1 DEF Serve, ReplyDisconnect, DisconnectSteps
<1> QED  BY <1>1, <1>2, <1>3 DEF HelperReplies

\* Between the two it goes from step to step of the same request.
Advances(c, steps) ==
    pc[c] \in steps /\ \E step \in steps : pc' = [pc EXCEPT ![c] = step]

LEMMA WorksOn ==
    ASSUME Internal
    PROVE  \/ UNCHANGED pc
           \/ \E c \in Callers : Advances(c, ConnectSteps) \/ Advances(c, DisconnectSteps)
<1>0. ASSUME NEW c \in Callers PROVE AfterStart(c) \in {"adopt", "retry", "replyConnect"}
  BY DEF AfterStart
<1>1. ASSUME NEW c \in Callers, ConnectStep(c) PROVE Advances(c, ConnectSteps)
  <2>1. CASE SendStart(c)
    BY <1>0, <2>1 DEF SendStart, Advances, ConnectSteps, Goto
  <2>2. CASE StartClientThread(c)
    BY <1>0, <2>2 DEF StartClientThread, Advances, ConnectSteps, Goto
  <2>3. CASE WriteConfig(c) \/ PreparePrefs(c) \/ \E t \in Threads : NewClientThread(c, t)
    BY <2>3 DEF WriteConfig, PreparePrefs, NewClientThread, Advances, ConnectSteps, Goto
  <2>4. CASE LaunchTask(c) \/ PollOutput(c) \/ CheckRunning(c) \/ StoreOutcome(c)
    BY <2>4 DEF LaunchTask, PollOutput, CheckRunning, StoreOutcome, Advances, ConnectSteps, Goto
  <2>5. CASE Retry(c) \/ OpenConnection(c) \/ Callback(c) \/ AdoptServer(c) \/ ReadCause(c)
    BY <2>5
    DEF Retry, OpenConnection, Callback, AdoptServer, ReadCause, Advances, ConnectSteps, Goto
  <2> QED  BY <1>1, <2>1, <2>2, <2>3, <2>4, <2>5 DEF ConnectStep
<1>2. ASSUME NEW c \in Callers, DisconnectStep(c) PROVE Advances(c, DisconnectSteps)
  BY <1>2
  DEF DisconnectStep, Advances, DisconnectSteps, Goto, CheckConnected, CancelClientThread,
      JoinClientThread, LeaveJoin, CollectSuccess, ForgetThread
<1>3. ASSUME NEW t \in Threads, BlockStep(t) \/ TunnelStep(t) PROVE UNCHANGED pc
  BY <1>3
  DEF BlockStep, TunnelStep, BlockEnters, BlockTerminates, BlockClears, BlockStops,
      BlockDisconnected, BlockStillConnected, TunnelUp, TunnelFails, DeliverOutput, callVars,
      requestVars
<1> QED  BY <1>1, <1>2, <1>3 DEF Internal, ManagerStep

-----------------------------------------------------------------------------
\* What is proved of the helper holds in a session.

\* The helper's part of every step is a step of the helper, or its death when the
\* application installs it again.
LEMMA HelperPart ==
    ASSUME WiresInv, [Next]_vars
    PROVE  [HelperNext]_helperVars \/ (Die /\ UNCHANGED crashes)
<1>1. ASSUME NEW c \in Callers, HelperTakes(c) \/ HelperReplies(c) PROVE HelperNext
  <2>1. CASE HelperTakes(c)
    BY <2>1, TakesOne DEF HelperNext
  <2>2. CASE HelperReplies(c)
    BY <2>2 DEF HelperReplies, Serve, HelperNext
  <2> QED  BY <1>1, <2>1, <2>2
<1>2. CASE HelperWorks \/ HelperDies
  BY <1>2 DEF HelperWorks, HelperDies, HelperNext
<1>3. CASE AppLaunches \/ AppQuits \/ UserActs \/ AppReceives
  BY <1>3 DEF AppLaunches, AppQuits, UserActs, AppReceives
<1>4. CASE AppUpgrades
  BY <1>4 DEF AppUpgrades
<1>5. CASE UNCHANGED vars
  BY <1>5 DEF vars
<1> QED  BY <1>1, <1>2, <1>3, <1>4, <1>5 DEF Next, HelperSide

LEMMA ThreadsDeath ==
    ASSUME ThreadsInv, Die, UNCHANGED crashes PROVE ThreadsInv'
<1>1. HelperTypeOK'
  BY DeathTyping DEF ThreadsInv, HelperTypeOK
<1>2. ThreadTypeOK'
  BY <1>1 DEF HelperTypeOK, ManagerTypeOK
<1> QED
  BY <1>1, <1>2
  DEF Die, ThreadsInv, ThreadInv, SignalledIsFinished, WaitsOnCreatedLock, StoppingIsCancelled,
      StartsSomething, BlockRuns

LEMMA SessionThreads ==
    ASSUME WiresInv, ThreadsInv, [Next]_vars PROVE ThreadsInv'
  BY HelperPart, ThreadsInvStep, ThreadsDeath

LEMMA ReplyOfHelperTyped ==
    ASSUME NEW r \in Replies PROVE TypedReply(r)
  BY PeerAssumption DEF Replies, TypedReply

\* What arrives answers the one request that is out.
LEMMA AnswerArrives ==
    ASSUME SessionInv, peer # NoPeer, outbox[peer] # <<>>
    PROVE  /\ peer \in Callers /\ running
           /\ \E q \in Asked, r \in Replies :
                 /\ inFlight = <<q>> /\ Answered(q, r) /\ Fits(q, r)
                 /\ Head(outbox[peer]) = r /\ Tail(outbox[peer]) = <<>>
<1>1. peer \in Callers /\ running
  BY DEF SessionInv, WiresInv
<1>2. PICK q \in Asked, r \in Replies : inFlight = <<q>> /\ Answered(q, r) /\ Fits(q, r)
  BY <1>1 DEF SessionInv, Pipeline, Waits, Served
<1>3. outbox[peer] = <<r>>
  BY <1>2 DEF Answered
<1> QED  BY <1>1, <1>2, <1>3, Single, Zenon

\* And what is proved of the application.
LEMMA SessionApp ==
    ASSUME SessionInv, [Next]_vars PROVE AppInv'
<1>0. AppInv
  BY DEF SessionInv
<1>1. CASE AppLaunches \/ AppQuits
  BY <1>0, <1>1, AppInvStep DEF AppLaunches, AppQuits, AppNext
<1>2. CASE UserActs
  BY <1>0, <1>2, UserStepInv DEF UserActs
<1>3. CASE AppReceives \/ AppUpgrades
  <2>1. peer # NoPeer /\ outbox[peer] # <<>> /\ Arrives(Head(outbox[peer]))
    BY <1>3, ReplyArrived
  <2>2. PICK q \in Asked, r \in Replies : inFlight = <<q>> /\ Head(outbox[peer]) = r
    BY <2>1, AnswerArrives
  <2>3. inFlight # <<>> /\ TypedReply(r)
    BY <2>2, Single, ReplyOfHelperTyped
  <2>4. CASE Handled(r)
    BY <1>0, <2>3, <2>4, ReplyHandled
  <2>5. CASE NotParsed
    BY <1>0, <2>5, AppInvStep DEF AppNext
  <2> QED  BY <2>1, <2>2, <2>4, <2>5 DEF Arrives, Dropped
<1>4. CASE UNCHANGED appVars
  BY <1>0, <1>4, AppInvStep
<1>5. HelperSide \/ HelperWorks \/ HelperDies => UNCHANGED appVars
  BY DEF HelperSide, HelperTakes, HelperReplies, HelperWorks, HelperDies
<1> QED  BY <1>1, <1>2, <1>3, <1>4, <1>5 DEF Next, vars

-----------------------------------------------------------------------------
\* Every request is in one place.

LEMMA SendsNothing ==
    ASSUME NEW c \in Callers, NEW n \in Nat, SendNew(c, n),
           inFlight' = <<>> \/ (UNCHANGED inFlight /\ n = Len(inFlight))
    PROVE  UNCHANGED inbox
  BY DEF SendNew

LEMMA SendsOne ==
    ASSUME NEW c \in Callers, SendNew(c, 0), NEW q, inFlight' = <<q>>,
           inbox[c] = <<>>
    PROVE  inbox' = [inbox EXCEPT ![c] = <<q>>]
<1>1. Len(inFlight') > 0 /\ Last(inFlight') = q /\ Append(inbox[c], q) = <<q>>
  BY Single
<1> QED  BY <1>1 DEF SendNew

LEMMA LaunchWires ==
    ASSUME WiresInv, AppLaunches PROVE WiresInv' /\ Pipeline'
<1>1. PICK c \in Callers \ usedPeers, helper \in {"found", "installed", "missing"} :
          /\ Launch(helper)
          /\ peer' = c
          /\ usedPeers' = usedPeers \cup {c}
          /\ inbox' = [inbox EXCEPT ![c] = inFlight']
          /\ UNCHANGED <<helperVars, outbox>>
  BY DEF AppLaunches
<1>2. UNCHANGED pc
  BY <1>1 DEF helperVars, managerVars, callVars, requestVars
<1>3. running' /\ (inFlight' = <<>> \/ \E q \in Asked : inFlight' = <<q>>)
  BY <1>1, LaunchAsks
<1>4. inbox[c] = <<>> /\ outbox[c] = <<>> /\ pc[c] = "idle"
  BY <1>1 DEF WiresInv
<1>5. inFlight' \in Seq(Asked)
  BY <1>3, SingleTyped, EmptySeq
<1>6. inbox'[c] = inFlight' /\ \A d \in Callers : d # c => inbox'[d] = inbox[d]
  BY <1>1 DEF WiresInv
<1>7. WiresInv'
  BY <1>1, <1>2, <1>3, <1>4, <1>5, <1>6, PeerAssumption DEF WiresInv
<1> QED  BY <1>1, <1>2, <1>3, <1>4, <1>6, <1>7 DEF Pipeline, Waits

LEMMA QuitWires ==
    ASSUME WiresInv, AppQuits PROVE WiresInv' /\ Pipeline'
<1>1. peer \in Callers
  BY DEF AppQuits, Quit, WiresInv
<1>2. UNCHANGED pc
  BY DEF AppQuits, helperVars, managerVars, callVars, requestVars
<1>3. outbox' \in [Callers -> Seq(Replies)]
      /\ \A c \in Callers : c \notin usedPeers => outbox'[c] = <<>>
  BY <1>1, EmptySeq DEF AppQuits, WiresInv
<1>4. ~running' /\ peer' = NoPeer /\ UNCHANGED <<inbox, usedPeers>>
  BY DEF AppQuits, Quit
<1> QED  BY <1>2, <1>3, <1>4, Zenon DEF WiresInv, Pipeline

LEMMA UserWires ==
    ASSUME SessionInv, UserActs PROVE WiresInv' /\ Pipeline'
<1>1. peer \in Callers /\ SendNew(peer, Len(inFlight))
  BY DEF UserActs, SessionInv, WiresInv
<1>2. UNCHANGED <<pc, peer, outbox, usedPeers>>
  BY DEF UserActs, helperVars, managerVars, callVars, requestVars
<1>3. /\ running /\ running'
      /\ \/ UNCHANGED inFlight
         \/ inFlight = <<>> /\ \E q \in Asked : inFlight' = <<q>>
  BY UserAsks, Zenon DEF UserActs, SessionInv
<1>4. CASE UNCHANGED inFlight
  <2>1. Len(inFlight) \in Nat
    BY LenProperties DEF SessionInv, AppInv, AppTypeOK
  <2>2. UNCHANGED inbox
    BY <1>1, <1>4, <2>1, SendsNothing
  <2>3. WiresInv'
    BY <1>2, <1>3, <2>2, Zenon DEF SessionInv, WiresInv
  <2> QED
    BY <1>2, <1>3, <1>4, <2>2, <2>3, Zenon
    DEF SessionInv, Pipeline, Waits, Served, Answered
<1>5. ASSUME inFlight = <<>>, NEW q \in Asked, inFlight' = <<q>> PROVE WiresInv' /\ Pipeline'
  <2>1. inbox[peer] = <<>> /\ pc[peer] = "idle" /\ outbox[peer] = <<>>
    BY <1>3, <1>5, Single, Zenon DEF SessionInv, Pipeline
  <2>2. inbox' = [inbox EXCEPT ![peer] = <<q>>]
    <3>1. Len(inFlight) = 0
      BY <1>5
    <3> QED  BY <1>1, <1>5, <2>1, <3>1, SendsOne
  <2>3. <<q>> \in Seq(Asked) /\ inbox'[peer] = <<q>>
    BY <1>1, <2>2, SingleTyped DEF SessionInv, WiresInv
  <2>4. WiresInv'
    BY <1>1, <1>2, <1>3, <2>1, <2>2, <2>3 DEF SessionInv, WiresInv
  <2> QED  BY <1>1, <1>2, <1>5, <2>1, <2>3, <2>4 DEF Pipeline, Waits
<1> QED  BY <1>3, <1>4, <1>5

LEMMA ReceiveWires ==
    ASSUME SessionInv, AppReceives PROVE WiresInv' /\ Pipeline'
<1>1. /\ peer # NoPeer /\ outbox[peer] # <<>>
      /\ Arrives(Head(outbox[peer]))
      /\ outbox' = [outbox EXCEPT ![peer] = Tail(@)]
      /\ SendNew(peer, Len(inFlight) - 1)
      /\ UNCHANGED <<helperVars, peer, usedPeers>>
  BY ReplyArrived, Zenon DEF AppReceives
<1>2. PICK q \in Asked, r \in Replies :
          /\ inFlight = <<q>> /\ Answered(q, r)
          /\ Head(outbox[peer]) = r /\ Tail(outbox[peer]) = <<>>
  BY <1>1, AnswerArrives
<1>3. peer \in Callers /\ Ends(q, r) /\ SendNew(peer, 0)
  <2>1. Len(inFlight) = 1
    BY <1>2, Single
  <2> QED  BY <1>1, <1>2, <2>1, AnswerArrives, ReplyEnds
<1>4. UNCHANGED pc
  BY <1>1 DEF helperVars, managerVars, callVars, requestVars
<1>5. inbox[peer] = <<>> /\ pc[peer] = "idle"
  BY <1>2 DEF Answered
<1>6. outbox' = [outbox EXCEPT ![peer] = <<>>]
  BY <1>1, <1>2
<1>7. outbox' \in [Callers -> Seq(Replies)] /\ outbox'[peer] = <<>>
      /\ \A c \in Callers : c # peer => outbox'[c] = outbox[c]
  BY <1>3, <1>6, EmptySeq DEF SessionInv, WiresInv
<1>8. CASE inFlight' = <<>>
  <2>1. UNCHANGED inbox
    BY <1>3, <1>8, SendsNothing
  <2>2. WiresInv'
    BY <1>1, <1>3, <1>4, <1>7, <2>1 DEF SessionInv, WiresInv, Ends
  <2> QED  BY <1>1, <1>4, <1>5, <1>7, <1>8, <2>1, <2>2 DEF Pipeline
<1>9. ASSUME NEW p \in Asked, inFlight' = <<p>> PROVE WiresInv' /\ Pipeline'
  <2>1. inbox' = [inbox EXCEPT ![peer] = <<p>>]
    BY <1>3, <1>5, <1>9, SendsOne
  <2>2. <<p>> \in Seq(Asked) /\ inbox'[peer] = <<p>>
    BY <1>3, <2>1, SingleTyped DEF SessionInv, WiresInv
  <2>3. WiresInv'
    BY <1>1, <1>3, <1>4, <1>5, <1>7, <2>1, <2>2 DEF SessionInv, WiresInv, Ends
  <2> QED  BY <1>1, <1>4, <1>5, <1>7, <1>9, <2>2, <2>3 DEF Pipeline, Waits
<1> QED  BY <1>3, <1>8, <1>9 DEF Ends

LEMMA UpgradeWires ==
    ASSUME SessionInv, AppUpgrades PROVE WiresInv' /\ Pipeline'
<1>1. /\ peer # NoPeer /\ outbox[peer] # <<>>
      /\ Arrives(Head(outbox[peer]))
      /\ \A c \in Callers : pc'[c] = "idle"
  BY ReplyArrived DEF AppUpgrades, Die
<1>2. PICK c \in Callers \ usedPeers :
          /\ peer' = c
          /\ usedPeers' = usedPeers \cup {c}
          /\ inbox' = [d \in Callers |-> IF d = c THEN inFlight' ELSE <<>>]
          /\ outbox' = [d \in Callers |-> <<>>]
  BY DEF AppUpgrades
<1>3. PICK q \in Asked, r \in Replies : inFlight = <<q>> /\ Head(outbox[peer]) = r
  BY <1>1, AnswerArrives
<1>4. Ends(q, r)
  BY <1>1, <1>3, ReplyEnds
<1>5. inFlight' = <<>> \/ \E p \in Asked : inFlight' = <<p>>
  BY <1>4 DEF Ends
<1>6. inFlight' \in Seq(Asked)
  BY <1>5, SingleTyped, EmptySeq
<1>7. /\ inbox' \in [Callers -> Seq(Asked)]
      /\ outbox' \in [Callers -> Seq(Replies)]
      /\ inbox'[c] = inFlight'
      /\ \A d \in Callers : outbox'[d] = <<>> /\ (d # c => inbox'[d] = <<>>)
  BY <1>2, <1>6, EmptySeq
<1>8. running' /\ peer' # NoPeer /\ usedPeers' \subseteq Callers
  BY <1>2, <1>4, PeerAssumption DEF Ends, SessionInv, WiresInv
<1>9. WiresInv'
  BY <1>1, <1>2, <1>5, <1>7, <1>8 DEF WiresInv
<1> QED  BY <1>1, <1>2, <1>5, <1>7, <1>9 DEF Pipeline, Waits

\* An answer reaches the outbox of the running application only.
LEMMA AnswerWires ==
    ASSUME WiresInv, NEW c \in Callers, NEW r \in Replies, Answer(c, r)
    PROVE  /\ outbox' \in [Callers -> Seq(Replies)]
           /\ \A d \in Callers : d # c => outbox'[d] = outbox[d]
           /\ c # peer => outbox'[c] = outbox[c]
           /\ c = peer /\ outbox[c] = <<>> => outbox'[c] = <<r>>
<1>1. Append(outbox[c], r) \in Seq(Replies)
  BY AppendProperties DEF WiresInv
<1>2. outbox[c] = <<>> => Append(outbox[c], r) = <<r>>
  BY Single
<1> QED  BY <1>1, <1>2 DEF Answer, WiresInv

\* What a step does to other peers does not concern the running application.
LEMMA PeerUntouched ==
    ASSUME SessionInv, UNCHANGED <<running, inFlight, peer>>,
           running => UNCHANGED <<inbox[peer], pc[peer], outbox[peer]>>
    PROVE  Pipeline'
<1>1. CASE running
  BY <1>1 DEF SessionInv, Pipeline, Waits, Served, Answered
<1>2. CASE ~running
  BY <1>2 DEF Pipeline
<1> QED  BY <1>1, <1>2

LEMMA TakesWires ==
    ASSUME SessionInv, NEW c \in Callers, HelperTakes(c) PROVE WiresInv' /\ Pipeline'
<1>1. PICK q \in Asked : Begins(c, q)
  BY TakesOne DEF SessionInv
<1>2. UNCHANGED <<appVars, peer, usedPeers>>
  BY DEF HelperTakes
<1>3. UNCHANGED <<running, inFlight>>
  BY <1>2 DEF appVars
<1>4. /\ inbox' \in [Callers -> Seq(Asked)] /\ inbox'[c] = <<>>
      /\ \A d \in Callers : d # c => inbox'[d] = inbox[d]
  BY <1>1, EmptySeq DEF Begins, SessionInv, WiresInv
<1>5. c \in usedPeers /\ inbox[c] # <<>> /\ pc[c] = "idle"
  BY <1>1, Single DEF Begins, SessionInv, WiresInv
<1>6. running /\ c = peer => inFlight = <<q>> /\ outbox[c] = <<>>
  <2> SUFFICES ASSUME running, c = peer PROVE inFlight = <<q>> /\ outbox[c] = <<>>
    OBVIOUS
  <2>1. PICK p \in Asked : inFlight = <<p>> /\ Waits(p)
    BY <1>5 DEF SessionInv, Pipeline, Served, Answered
  <2>2. <<p>> = <<q>> /\ outbox[c] = <<>>
    BY <1>1, <2>1 DEF Begins, Waits
  <2>3. p = q
    BY <2>2, SingleIsOne
  <2> QED  BY <2>1, <2>2, <2>3
<1>7. ASSUME NEW r \in Replies, r.type = q.type, Answer(c, r), UNCHANGED pc
      PROVE  WiresInv' /\ Pipeline'
  <2>1. /\ outbox' \in [Callers -> Seq(Replies)]
        /\ \A d \in Callers : d # c => outbox'[d] = outbox[d]
        /\ c = peer /\ outbox[c] = <<>> => outbox'[c] = <<r>>
    BY <1>7, AnswerWires DEF SessionInv
  <2>2. WiresInv'
    BY <1>2, <1>3, <1>4, <1>5, <1>7, <2>1 DEF SessionInv, WiresInv
  <2>3. CASE running /\ c = peer
    <3>1. Answered(q, r)' /\ Fits(q, r) /\ inFlight' = <<q>>
      BY <1>2, <1>3, <1>4, <1>5, <1>6, <1>7, <2>1, <2>3 DEF Answered, Fits
    <3> QED  BY <2>2, <3>1 DEF Pipeline, Answered, Fits
  <2>4. CASE ~(running /\ c = peer)
    <3>1. running => UNCHANGED <<inbox[peer], pc[peer], outbox[peer]>>
      BY <1>2, <1>4, <1>7, <2>1, <2>4 DEF SessionInv, WiresInv
    <3> QED  BY <1>2, <1>3, <2>2, <3>1, PeerUntouched
  <2> QED  BY <2>3, <2>4
<1>8. ASSUME NEW step \in ConnectSteps \cup DisconnectSteps \cup {"replyStatus"},
             Serves(step, q.type), pc' = [pc EXCEPT ![c] = step], UNCHANGED outbox
      PROVE  WiresInv' /\ Pipeline'
  <2>1. pc'[c] = step /\ \A d \in Callers : d # c => pc'[d] = pc[d]
    BY <1>8 DEF SessionInv, ThreadsInv, HelperTypeOK, ManagerTypeOK
  <2>2. WiresInv'
    BY <1>2, <1>3, <1>4, <1>5, <1>8, <2>1 DEF SessionInv, WiresInv
  <2>3. CASE running /\ c = peer
    <3>1. Served(q)' /\ inFlight' = <<q>>
      BY <1>2, <1>3, <1>4, <1>6, <1>8, <2>1, <2>3 DEF Served
    <3> QED  BY <2>2, <3>1 DEF Pipeline, Served
  <2>4. CASE ~(running /\ c = peer)
    <3>1. running => UNCHANGED <<inbox[peer], pc[peer], outbox[peer]>>
      BY <1>2, <1>4, <1>8, <2>1, <2>4 DEF SessionInv, WiresInv
    <3> QED  BY <1>2, <1>3, <2>2, <3>1, PeerUntouched
  <2> QED  BY <2>3, <2>4
<1> QED  BY <1>1, <1>7, <1>8 DEF Begins

LEMMA ReplyWires ==
    ASSUME SessionInv, NEW c \in Callers, HelperReplies(c) PROVE WiresInv' /\ Pipeline'
<1>1. PICK r \in Replies : Finishes(c, r)
  BY RepliesOnce DEF SessionInv, ThreadsInv
<1>2. UNCHANGED <<running, inFlight, peer, inbox, usedPeers>>
  BY DEF HelperReplies, appVars
<1>3. pc'[c] = "idle" /\ \A d \in Callers : d # c => pc'[d] = pc[d]
  BY <1>1 DEF Finishes, SessionInv, ThreadsInv, HelperTypeOK, ManagerTypeOK
<1>4. /\ outbox' \in [Callers -> Seq(Replies)]
      /\ \A d \in Callers : d # c => outbox'[d] = outbox[d]
      /\ c = peer /\ outbox[c] = <<>> => outbox'[c] = <<r>>
  BY <1>1, AnswerWires DEF SessionInv, Finishes
<1>5. pc[c] # "idle" /\ c \in usedPeers /\ inbox[c] = <<>>
  BY <1>1 DEF Finishes, Serves, ConnectSteps, DisconnectSteps, SessionInv, WiresInv
<1>6. WiresInv'
  BY <1>2, <1>3, <1>4, <1>5 DEF SessionInv, WiresInv
<1>7. CASE running /\ c = peer
  <2>1. PICK q \in Asked : inFlight = <<q>> /\ Served(q)
    BY <1>5, <1>7 DEF SessionInv, Pipeline, Waits, Answered
  <2>2. r.type = q.type /\ outbox[c] = <<>>
    BY <1>1, <1>7, <2>1
    DEF Served, Finishes, Serves, ConnectSteps, DisconnectSteps, Asked, Requests
  <2>3. Answered(q, r)' /\ Fits(q, r) /\ inFlight' = <<q>>
    BY <1>2, <1>3, <1>4, <1>5, <1>7, <2>1, <2>2 DEF Answered, Fits
  <2> QED  BY <1>6, <2>3 DEF Pipeline, Answered, Fits
<1>8. CASE ~(running /\ c = peer)
  <2>1. running => UNCHANGED <<inbox[peer], pc[peer], outbox[peer]>>
    BY <1>2, <1>3, <1>4, <1>8 DEF SessionInv, WiresInv
  <2> QED  BY <1>2, <1>6, <2>1, PeerUntouched
<1> QED  BY <1>7, <1>8

LEMMA WorksWires ==
    ASSUME SessionInv, HelperWorks PROVE WiresInv' /\ Pipeline'
<1>1. UNCHANGED <<running, inFlight, peer, inbox, outbox, usedPeers>>
  BY DEF HelperWorks, appVars, wires
<1>2. CASE UNCHANGED pc
  <2>1. WiresInv'
    BY <1>1, <1>2 DEF SessionInv, WiresInv
  <2>2. Pipeline'
    BY <1>1, <1>2, PeerUntouched
  <2> QED  BY <2>1, <2>2
<1>3. ASSUME NEW c \in Callers, Advances(c, ConnectSteps) \/ Advances(c, DisconnectSteps)
      PROVE  WiresInv' /\ Pipeline'
  <2>1. /\ pc[c] # "idle" /\ pc'[c] # "idle"
        /\ \A q \in Asked : Serves(pc[c], q.type) => Serves(pc'[c], q.type)
        /\ \A d \in Callers : d # c => pc'[d] = pc[d]
    BY <1>3
    DEF Advances, Serves, ConnectSteps, DisconnectSteps, SessionInv, ThreadsInv, HelperTypeOK,
        ManagerTypeOK
  <2>2. WiresInv'
    BY <1>1, <2>1 DEF SessionInv, WiresInv
  <2>3. CASE running /\ c = peer
    <3>1. PICK q \in Asked : inFlight = <<q>> /\ Served(q)
      BY <2>1, <2>3 DEF SessionInv, Pipeline, Waits, Answered
    <3>2. Served(q)'
      BY <1>1, <2>1, <2>3, <3>1 DEF Served
    <3> QED  BY <1>1, <2>2, <3>1, <3>2 DEF Pipeline, Served
  <2>4. CASE ~(running /\ c = peer)
    <3>1. running => UNCHANGED <<inbox[peer], pc[peer], outbox[peer]>>
      BY <1>1, <2>1, <2>4 DEF SessionInv, WiresInv
    <3> QED  BY <1>1, <2>2, <3>1, PeerUntouched
  <2> QED  BY <2>3, <2>4
<1> QED  BY <1>2, <1>3, WorksOn DEF HelperWorks

\* A death of the helper turns whatever is out into an error: what waits, and what is
\* being served.
LEMMA DiesWires ==
    ASSUME SessionInv, HelperDies PROVE WiresInv' /\ Pipeline'
<1>1. /\ UNCHANGED <<running, inFlight, peer, usedPeers>>
      /\ inbox' = [c \in Callers |-> <<>>]
      /\ outbox' = [c \in Callers |->
            IF c = peer THEN outbox[c] \o [i \in 1..Unanswered(c) |-> ErrorReply] ELSE <<>>]
  BY DEF HelperDies, appVars
<1>2. \A c \in Callers : pc'[c] = "idle"
  BY DEF HelperDies, Killed, Raises, Die
<1>3. ErrorReply \in Replies
  BY DEF ErrorReply, Reply, Replies
<1>4. inbox' \in [Callers -> Seq(Asked)] /\ \A c \in Callers : inbox'[c] = <<>>
  BY <1>1, EmptySeq
<1>5. CASE ~running
  <2>1. \A c \in Callers : outbox'[c] = <<>>
    BY <1>1, <1>5, PeerAssumption DEF SessionInv, WiresInv
  <2>2. outbox' \in [Callers -> Seq(Replies)]
    BY <1>1, <1>5, PeerAssumption, EmptySeq DEF SessionInv, WiresInv
  <2> QED  BY <1>1, <1>2, <1>4, <1>5, <2>1, <2>2 DEF SessionInv, WiresInv, Pipeline
<1>6. CASE running
  <2> DEFINE n == Unanswered(peer)
  <2>1. peer \in Callers /\ peer \in usedPeers
    BY <1>6 DEF SessionInv, WiresInv
  <2>2. outbox'[peer] = outbox[peer] \o [i \in 1..n |-> ErrorReply]
    BY <1>1, <2>1
  <2>3. ASSUME n = 0, outbox[peer] \in Seq(Replies) PROVE outbox'[peer] = outbox[peer]
    BY <2>2, <2>3, NoErrors
  <2>4. ASSUME n = 1, outbox[peer] = <<>> PROVE outbox'[peer] = <<ErrorReply>>
    BY <2>2, <2>4, OneError
  <2>5. ASSUME inbox[peer] = <<>>, pc[peer] = "idle", outbox[peer] = <<>>
        PROVE  outbox'[peer] = <<>>
    <3>1. n = 0
      BY <2>5 DEF Unanswered
    <3> QED  BY <2>3, <2>5, <3>1, EmptySeq
  <2>6. ASSUME NEW q \in Asked, Waits(q) PROVE outbox'[peer] = <<ErrorReply>>
    <3>1. n = 1
      BY <2>6, Single DEF Waits, Unanswered
    <3> QED  BY <2>4, <2>6, <3>1 DEF Waits
  <2>7. ASSUME NEW q \in Asked, Served(q) PROVE outbox'[peer] = <<ErrorReply>>
    <3>1. pc[peer] # "idle"
      BY <2>7 DEF Served, Serves, ConnectSteps, DisconnectSteps
    <3>2. n = 1
      BY <2>7, <3>1 DEF Served, Unanswered
    <3> QED  BY <2>4, <2>7, <3>2 DEF Served
  <2>8. ASSUME NEW q \in Asked, NEW r \in Replies, Answered(q, r) PROVE outbox'[peer] = <<r>>
    <3>1. n = 0
      BY <2>8 DEF Answered, Unanswered
    <3> QED  BY <2>3, <2>8, <3>1, SingleTyped DEF Answered
  <2>9. \/ inFlight = <<>> /\ outbox'[peer] = <<>>
        \/ \E q \in Asked, r \in Replies :
              inFlight = <<q>> /\ outbox'[peer] = <<r>> /\ Fits(q, r)
    <3>1. CASE inFlight = <<>> /\ inbox[peer] = <<>> /\ pc[peer] = "idle" /\ outbox[peer] = <<>>
      BY <2>5, <3>1
    <3>2. ASSUME NEW q \in Asked, inFlight = <<q>>,
                 \/ Waits(q)
                 \/ Served(q)
                 \/ \E r \in Replies : Answered(q, r) /\ Fits(q, r)
          PROVE  \E r \in Replies : outbox'[peer] = <<r>> /\ Fits(q, r)
      BY <1>3, <2>6, <2>7, <2>8, <3>2, Zenon DEF Fits
    <3> QED  BY <1>6, <3>1, <3>2, Zenon DEF SessionInv, Pipeline
  <2>10. outbox'[peer] \in Seq(Replies)
    BY <2>9, SingleTyped, EmptySeq
  <2>11. outbox' \in [Callers -> Seq(Replies)] /\ \A c \in Callers : c # peer => outbox'[c] = <<>>
    BY <1>1, <2>1, <2>10, EmptySeq
  <2>12. WiresInv'
    BY <1>1, <1>2, <1>4, <2>1, <2>11 DEF SessionInv, WiresInv
  <2>13. Pipeline'
    BY <1>1, <1>2, <1>4, <2>1, <2>9, Zenon DEF Pipeline, Answered
  <2> QED  BY <2>12, <2>13
<1> QED  BY <1>5, <1>6

LEMMA DisturbedStep ==
    ASSUME disturbed \in BOOLEAN, [Next]_vars PROVE disturbed' \in BOOLEAN
  BY DEF Next, vars, wires, AppLaunches, AppQuits, UserActs, AppReceives, AppUpgrades, HelperSide,
         HelperTakes, HelperReplies, HelperWorks, HelperDies

LEMMA SessionStep ==
    ASSUME SessionInv, [Next]_vars PROVE SessionInv'
<1>1. AppInv' /\ ThreadsInv' /\ disturbed' \in BOOLEAN
  BY SessionApp, SessionThreads, DisturbedStep DEF SessionInv
<1>2. CASE UNCHANGED vars
  <2>1. UNCHANGED <<running, inFlight, peer, inbox, outbox, usedPeers, pc>>
    BY <1>2 DEF vars, appVars, wires, helperVars, managerVars, callVars, requestVars
  <2>2. WiresInv'
    BY <2>1 DEF SessionInv, WiresInv
  <2>3. Pipeline'
    BY <2>1, PeerUntouched
  <2> QED  BY <1>1, <2>2, <2>3 DEF SessionInv
<1>3. WiresInv' /\ Pipeline'
  BY <1>2, LaunchWires, QuitWires, UserWires, ReceiveWires, UpgradeWires, TakesWires,
     ReplyWires, WorksWires, DiesWires
  DEF Next, HelperSide, SessionInv
<1> QED  BY <1>1, <1>3 DEF SessionInv

LEMMA SessionInit == Init => SessionInv
<1> SUFFICES ASSUME Init PROVE SessionInv
  OBVIOUS
<1>1. AppInv /\ ThreadsInv
  BY AppInitInv, ThreadsInitInv DEF Init
<1>2. /\ inbox \in [Callers -> Seq(Asked)] /\ outbox \in [Callers -> Seq(Replies)]
      /\ \A c \in Callers : inbox[c] = <<>> /\ outbox[c] = <<>> /\ pc[c] = "idle"
  BY EmptySeq DEF Init, HelperInit, ManagerInit
<1>3. ~running /\ peer = NoPeer /\ usedPeers = {} /\ disturbed = FALSE
  BY DEF Init, AppInit
<1> QED  BY <1>1, <1>2, <1>3 DEF SessionInv, WiresInv, Pipeline

LEMMA SessionInvariance == Spec => []SessionInv
<1>1. SessionInv /\ [Next]_vars => SessionInv'
  BY SessionStep
<1> QED  BY <1>1, SessionInit, PTL DEF Spec

-----------------------------------------------------------------------------

\* Application, helper and connection keep their types, in any history of runs,
\* requests and deaths (OneVPN and OneVPNHelper with XPCConnection.m 83-102).
THEOREM SessionTyping == Spec => []TypeOK
<1>1. SessionInv => TypeOK
  <2> SUFFICES ASSUME SessionInv PROVE TypeOK
    OBVIOUS
  <2>1. inbox \in [Callers -> Seq(Requests)]
    <3>1. ASSUME NEW c \in Callers PROVE inbox[c] \in Seq(Requests)
      <4>1. inbox[c] = <<>> \/ \E q \in Requests : inbox[c] = <<q>>
        BY DEF SessionInv, WiresInv, Asked
      <4> QED  BY <4>1, SingleTyped, EmptySeq
    <3> QED  BY <3>1 DEF SessionInv, WiresInv
  <2> QED
    BY <2>1 DEF TypeOK, SessionInv, AppInv, ThreadsInv, WiresInv
<1> QED  BY <1>1, SessionInvariance, PTL

\* A request of the running application waits, is served or is answered, never two
\* of these and never none, and what reaches the application is its own answer or
\* an error (MessageProcessor.m 26-50, XPCConnection.m 83-102).
THEOREM RequestIsOnce == Spec => []EachRequestOnce
<1>1. SessionInv => EachRequestOnce
  <2> SUFFICES ASSUME SessionInv, running PROVE EachRequestOnce
    BY DEF EachRequestOnce
  <2>1. CASE inFlight = <<>> /\ inbox[peer] = <<>> /\ pc[peer] = "idle" /\ outbox[peer] = <<>>
    BY <2>1 DEF EachRequestOnce
  <2>2. ASSUME NEW q \in Asked, inFlight = <<q>>, Waits(q) PROVE EachRequestOnce
    BY <2>2, Single DEF Waits, EachRequestOnce
  <2>3. ASSUME NEW q \in Asked, inFlight = <<q>>, Served(q) PROVE EachRequestOnce
    <3>1. pc[peer] # "idle"
      BY <2>3 DEF Served, Serves, ConnectSteps, DisconnectSteps
    <3> QED  BY <2>3, <3>1, Single DEF Served, EachRequestOnce
  <2>4. ASSUME NEW q \in Asked, NEW r \in Replies, inFlight = <<q>>, Answered(q, r), Fits(q, r)
        PROVE  EachRequestOnce
    BY <2>4, Single DEF Answered, Fits, EachRequestOnce
  <2> QED  BY <2>1, <2>2, <2>3, <2>4 DEF SessionInv, Pipeline
<1> QED  BY <1>1, SessionInvariance, PTL

-----------------------------------------------------------------------------
\* One run of the application, and a helper that stays alive: there is one peer, and
\* nothing kills the helper from outside.

Alone == OnePeer /\ MaxCrashes = 0

NoneStarted == \A t \in Threads : ~Started(t)

\* The helper's side: the paths are set before the first connect, a connect finds no
\* thread started, and a disconnect ends the only one there is.
OneStarted ==
    /\ \A t \in Threads : phase[t] = "free" => tunnel[t] = "none"
    /\ \A t \in Threads : Started(t) => t = clientThread
    /\ \A t \in Threads : cinfo[t] = "freed" => cancelled[t]
    /\ \A c \in Callers :
        /\ pc[c] \in ConnectSteps => paths
        /\ pc[c] \in Dialling \cup {"connect", "newThread", "collect", "forget", "replyDisconnect"}
              => NoneStarted
        /\ pc[c] = "disconnect" => IsConnected
        /\ pc[c] = "start" /\ L2TP(arg[c]) /\ connected[c] => cinfo[attempt[c]] = "connected"
        /\ pc[c] = "adopt" /\ Started(attempt[c]) => cinfo[attempt[c]] = "connected"
        /\ pc[c] = "cause" /\ Started(attempt[c]) => connectedServer = arg[c]
        /\ pc[c] = "replyConnect" /\ ~result[c] => NoneStarted

\* What waits in a connection can be served: a connect when nothing is started, a
\* disconnect when something is connected.
Pending(c, type) == \E q \in Asked : inbox[c] = <<q>> /\ q.type = type

PendingFits ==
    \A c \in Callers :
        /\ Pending(c, "connect") => paths /\ NoneStarted
        /\ Pending(c, "disconnect") => IsConnected

Real ==
    /\ IsConnected
    /\ connectedServer = currentServer
    /\ Started(clientThread)
    /\ ~cancelled[clientThread]

Chain == {"version", "pathes", "status"}
AnyControl == connectButton \/ menuButton \/ fields \/ menuOpen
Nothing == NoneStarted /\ connectedServer = NoServer

\* What reply r says of the helper when it answers q.
Tells(q, r) ==
    /\ r.type = q.type
    /\ q.type = "pathes" => paths
    /\ q.type = "status" => ~r.ok
    /\ q.type = "connect" => IF r.ok THEN Real ELSE NoneStarted
    /\ q.type = "disconnect" => NoneStarted

\* What the helper is when request q is out.
Means(q) ==
    /\ q.type \in {"status", "connect", "disconnect"} => paths
    /\ q.type \in Chain => ~shownConnected /\ Nothing
    /\ q.type = "connect" => q.server = currentServer
    /\ q.type = "status" /\ Served(q) => ~connected[peer]
    /\ q.type = "connect" /\ Served(q) => arg[peer] = currentServer
    /\ \A r \in Replies : Answered(q, r) => Tells(q, r)

\* The application's side: what it shows, or has asked for, is what the helper has
\* or is doing; before the first status it shows nothing, and there is nothing.
ShowsReal ==
    /\ ~broken
    /\ ~running /\ usedPeers = {} => Nothing
    /\ running =>
        /\ AnyControl => paths
        /\ inFlight = <<>> => IF shownConnected THEN Real ELSE NoneStarted
        /\ \A q \in Asked : inFlight = <<q>> => Means(q)

AliveInv == SessionInv /\ ServerInv /\ SoloInv /\ OneStarted /\ PendingFits /\ ShowsReal

-----------------------------------------------------------------------------
\* The helper's side of one run.

StartedInv == SoloInv /\ OneStarted

\* A connect starts its thread when no other is started, and fails with none.
LEMMA StartedConnect ==
    ASSUME OnePeer, StartedInv, NEW c \in Callers, ConnectStep(c)
    PROVE  OneStarted'
<1>0. \A d \in Callers : d = c
  BY DEF OnePeer
<1>o. /\ pc[c] \in BlockRuns => starting[c] = attempt[c]
      /\ pc[c] \in Dialling => phase[attempt[c]] = "allocated"
  BY DEF StartedInv, SoloInv, Held, StartsOwn
<1> USE <1>0, <1>o, ThreadAssumption, ServerAssumption
    DEF StartedInv, SoloInv, ThreadsInv, HelperTypeOK, ManagerTypeOK, ThreadTypeOK,
        threadVars, managerProps, outsideVars, attemptVars, Goto,
        requestVars, Solo, Connecting, OneStarted, NoneStarted, Dialling, BlockRuns, ConnectSteps,
        IsConnected, Started
<1>1. ASSUME WriteConfig(c) PROVE OneStarted'
  BY <1>1 DEF WriteConfig
<1>2. ASSUME PreparePrefs(c) PROVE OneStarted'
  BY <1>2 DEF PreparePrefs
<1>3. ASSUME NEW t \in Threads, NewClientThread(c, t) PROVE OneStarted'
  BY <1>3 DEF NewClientThread, InitThread
<1>4. ASSUME LaunchTask(c) PROVE OneStarted'
  BY <1>4 DEF LaunchTask
<1>5. ASSUME PollOutput(c) PROVE OneStarted'
  BY <1>5 DEF PollOutput
<1>6. ASSUME CheckRunning(c) PROVE OneStarted'
  BY <1>6 DEF CheckRunning
<1>7. ASSUME StoreOutcome(c) PROVE OneStarted'
  BY <1>7 DEF StoreOutcome
<1>8. ASSUME StartClientThread(c) PROVE OneStarted'
  <2> DEFINE t == attempt[c]
  <2>1. /\ pc[c] = "start" /\ t \in Threads /\ phase[t] = "allocated" /\ clientThread = t
        /\ StartThread(t, connected[c])
        /\ pc' = [pc EXCEPT ![c] = AfterStart(c)]
        /\ UNCHANGED <<connectedServer, clientThread, paths, tunnel, cinfo,
                       arg, attempt, connected, result>>
    BY <1>8 DEF StartClientThread
  <2>2. /\ AfterStart(c) \in {"adopt", "retry", "replyConnect"}
        /\ L2TP(arg[c]) <=> AfterStart(c) = "adopt"
        /\ AfterStart(c) = "retry" => ~result[c]
    BY <1>8, <2>1 DEF AfterStart, L2TP
  <2>3. ~L2TP(arg[c]) => (result[c] <=> connected[c])
    BY <2>1 DEF ConnectProgress
  <2>4. CASE connected[c]
    <3>1. phase' = [phase EXCEPT ![t] = "spawned"] /\ UNCHANGED cancelled
      BY <2>1, <2>4 DEF StartThread
    <3>2. CASE L2TP(arg[c])
      BY <2>1, <2>2, <2>4, <3>1, <3>2
    <3>3. CASE ~L2TP(arg[c])
      BY <2>1, <2>2, <2>3, <2>4, <3>1, <3>3
    <3> QED  BY <3>2, <3>3
  <2>5. CASE ~connected[c]
    <3>1. phase' = phase /\ UNCHANGED cancelled
      BY <2>1, <2>5 DEF StartThread
    <3> QED  BY <2>1, <2>2, <2>5, <3>1
  <2> QED  BY <2>4, <2>5
<1>9. ASSUME Retry(c) PROVE OneStarted'
  BY <1>9 DEF Retry
<1>10. ASSUME OpenConnection(c) PROVE OneStarted'
  BY <1>10 DEF OpenConnection
<1>11. ASSUME Callback(c) PROVE OneStarted'
  <2> DEFINE t == attempt[c]
  <2>1. /\ pc[c] = "runLoop" /\ pc' = [pc EXCEPT ![c] = "start"]
        /\ cinfo' = [cinfo EXCEPT ![t] = IF tunnel[t] = "up" THEN "connected" ELSE "disconnected"]
        /\ connected' = [connected EXCEPT ![c] = (tunnel[t] = "up")]
        /\ UNCHANGED <<threadVars, connectedServer, clientThread, paths, tunnel, arg, attempt,
                       result>>
    BY <1>11 DEF Callback
  <2>2. connected'[c] => tunnel[t] = "up"
    BY <2>1, Zenon, SMTT(30)
  <2>3. t \in Threads /\ (tunnel[t] = "up" => cinfo'[t] = "connected")
    BY <2>1
  <2> QED  BY <2>1, <2>2, <2>3
<1>12. ASSUME AdoptServer(c) PROVE OneStarted'
  BY <1>12 DEF AdoptServer
<1>13. ASSUME ReadCause(c) PROVE OneStarted'
  BY <1>13 DEF ReadCause
<1>14. ASSUME SendStart(c) PROVE OneStarted'
  <2>1. clientThread = attempt[c] /\ attempt[c] \in Threads
    BY <1>14 DEF SendStart
  <2>2. pc' \in {[pc EXCEPT ![c] = "open"], [pc EXCEPT ![c] = "launch"]}
    BY <1>14, <2>1 DEF SendStart
  <2>3. /\ UNCHANGED <<threadVars, managerProps, outsideVars, attemptVars, arg, attempt,
                       connected, result>>
        /\ pc[c] = "send"
    BY <1>14, Zenon DEF SendStart
  <2> QED  BY <2>2, <2>3
<1> QED
  BY <1>1, <1>2, <1>3, <1>4, <1>5, <1>6, <1>7, <1>8, <1>9, <1>10, <1>11, <1>12, <1>13, <1>14
  DEF ConnectStep

\* A request goes on with nothing else changed but threads cancelled.
LEMMA StartedGoesOn ==
    ASSUME OneStarted, NEW c \in Callers, \A d \in Callers : d = c,
           UNCHANGED <<phase, connectedServer, clientThread, paths, tunnel, cinfo>>,
           \A t \in Threads : cancelled[t] => cancelled'[t],
           pc'[c] \notin ConnectSteps,
           pc'[c] \in {"collect", "forget", "replyDisconnect"} => NoneStarted,
           pc'[c] = "disconnect" => IsConnected
    PROVE  OneStarted'
<1>1. NoneStarted => NoneStarted'
  BY DEF NoneStarted, Started
<1>2. /\ \A t \in Threads : phase'[t] = "free" => tunnel'[t] = "none"
      /\ \A t \in Threads : Started(t)' => t = clientThread'
      /\ \A t \in Threads : cinfo'[t] = "freed" => cancelled'[t]
  BY DEF OneStarted, Started
<1> QED
  BY <1>1, <1>2 DEF OneStarted, Dialling, BlockRuns, ConnectSteps, IsConnected

\* A disconnect leaves its join when the thread it cancelled has finished.
LEMMA StartedDisconnect ==
    ASSUME OnePeer, StartedInv, NEW c \in Callers, DisconnectStep(c)
    PROVE  OneStarted'
<1>0. \A d \in Callers : d = c
  BY DEF OnePeer
<1>t. pc \in [Callers -> Steps] /\ clientThread \in Threads \cup {NoThread} /\ Disconnecting
  BY DEF StartedInv, SoloInv, ThreadsInv, HelperTypeOK, ManagerTypeOK, Solo
<1>1. ASSUME CheckConnected(c) PROVE OneStarted'
  <2>1. UNCHANGED <<phase, cancelled, connectedServer, clientThread, paths, tunnel, cinfo>>
    BY <1>1, Zenon DEF CheckConnected, threadVars, managerProps, attemptVars
  <2>2. pc'[c] = "cancel"
    BY <1>t, <1>1 DEF CheckConnected, Goto, StartedInv, OneStarted
  <2> QED  BY <1>0, <2>1, <2>2, StartedGoesOn DEF StartedInv, ConnectSteps
<1>2. ASSUME CancelClientThread(c) PROVE OneStarted'
  <2>1. UNCHANGED <<phase, connectedServer, clientThread, paths, tunnel, cinfo>>
    BY <1>2, Zenon DEF CancelClientThread, CancelThread, threadVars, managerProps, attemptVars
  <2>2. pc'[c] = "join"
    BY <1>t, <1>2 DEF CancelClientThread, Goto
  <2>3. cancelled \in [Threads -> BOOLEAN]
    BY DEF StartedInv, SoloInv, ThreadsInv, HelperTypeOK, ManagerTypeOK, ThreadTypeOK
  <2>4. \A t \in Threads : cancelled[t] => cancelled'[t]
    BY <1>2, <2>3 DEF CancelClientThread, CancelThread, threadVars
  <2> QED  BY <1>0, <2>1, <2>2, <2>4, StartedGoesOn DEF StartedInv, ConnectSteps
<1>3. ASSUME JoinClientThread(c) PROVE OneStarted'
  <2>1. UNCHANGED <<phase, cancelled, connectedServer, clientThread, paths, tunnel, cinfo>>
    BY <1>3, Zenon
    DEF JoinClientThread, JoinNilLock, JoinLock, threadVars, managerProps, attemptVars
  <2>2. CASE pc'[c] = "joining"
    BY <1>0, <2>1, <2>2, StartedGoesOn DEF StartedInv, ConnectSteps
  <2>3. ASSUME pc'[c] = "collect",
               clientThread = NoThread \/ lock[clientThread] = 0
        PROVE  OneStarted'
    <3>1. pc[c] = "join"
      BY <1>3 DEF JoinClientThread
    <3>2. clientThread \in Threads /\ lock[clientThread] = 0
      BY <1>t, <2>3, <3>1 DEF Disconnecting
    <3>3. ~Started(clientThread)
      BY <3>2
      DEF StartedInv, SoloInv, ThreadsInv, ThreadInv, SignalledIsFinished, Started,
          HelperTypeOK, ManagerTypeOK, ThreadTypeOK
    <3>4. NoneStarted
      BY <3>3 DEF StartedInv, OneStarted, NoneStarted
    <3> QED  BY <1>0, <2>1, <2>3, <3>4, StartedGoesOn DEF StartedInv, ConnectSteps
  <2> QED  BY <1>t, <1>3, <2>2, <2>3 DEF JoinClientThread, JoinNilLock, Goto
<1>4. ASSUME LeaveJoin(c) PROVE OneStarted'
  <2>1. UNCHANGED <<phase, cancelled, connectedServer, clientThread, paths, tunnel, cinfo>>
    BY <1>4, Zenon DEF LeaveJoin, JoinReturns, managerProps, attemptVars
  <2>2. pc[c] = "joining" /\ pc'[c] = "collect" /\ Joinable(c)
    BY <1>t, <1>4 DEF LeaveJoin, JoinReturns, Goto
  <2>3. waits[c].thread = clientThread
    BY <1>t, <2>2 DEF Disconnecting
  <2>4. clientThread \in Threads /\ ~Started(clientThread)
    BY <1>t, <2>2, <2>3
    DEF Disconnecting, Joinable, StartedInv, SoloInv, ThreadsInv, ThreadInv,
        SignalledIsFinished, Started
  <2>5. NoneStarted
    BY <2>4 DEF StartedInv, OneStarted, NoneStarted
  <2> QED  BY <1>0, <2>1, <2>2, <2>5, StartedGoesOn DEF StartedInv, ConnectSteps
<1>5. ASSUME CollectSuccess(c) PROVE OneStarted'
  <2>1. UNCHANGED <<phase, cancelled, connectedServer, clientThread, paths, tunnel, cinfo>>
    BY <1>5, Zenon DEF CollectSuccess, threadVars, managerProps, attemptVars
  <2>2. NoneStarted /\ pc'[c] = "forget"
    BY <1>t, <1>5 DEF CollectSuccess, Goto, StartedInv, OneStarted
  <2> QED  BY <1>0, <2>1, <2>2, StartedGoesOn DEF StartedInv, ConnectSteps
\* With nothing started, nothing depends on the thread that is forgotten.
<1>6. ASSUME ForgetThread(c) PROVE OneStarted'
  <2>1. UNCHANGED <<phase, cancelled, connectedServer, paths, tunnel, cinfo>>
    BY <1>6, Zenon DEF ForgetThread, threadVars, attemptVars
  <2>2. NoneStarted /\ pc'[c] = "replyDisconnect"
    BY <1>t, <1>6 DEF ForgetThread, Goto, StartedInv, OneStarted
  <2>3. NoneStarted'
    BY <2>1, <2>2 DEF NoneStarted, Started
  <2> QED
    BY <1>0, <2>1, <2>2, <2>3
    DEF StartedInv, OneStarted, NoneStarted, Dialling, BlockRuns, ConnectSteps
<1> QED  BY <1>1, <1>2, <1>3, <1>4, <1>5, <1>6 DEF DisconnectStep

\* What the application relies on while no request is served.
Rests ==
    /\ UNCHANGED <<connectedServer, clientThread, cancelled, paths, callVars>>
    /\ \A t \in Threads : Started(t)' <=> Started(t)

\* While no disconnect waits, blocks begin to wait and tunnels come and go.
LEMMA BlocksRest ==
    ASSUME SoloInv, \A c \in Callers : pc[c] \notin {"join", "joining"},
           NEW t \in Threads, BlockStep(t) \/ TunnelStep(t)
    PROVE  Rests
<1>1. phase[t] = "inBlock" => ~cancelled[t] /\ ~stopping[t]
  BY DEF SoloInv, Solo, CancelledIsJoined, Started, ThreadsInv, StoppingIsCancelled
<1>2. CASE BlockStep(t)
  <2>1. BlockEnters(t)
    BY <1>1, <1>2
    DEF BlockStep, BlockTerminates, BlockClears, BlockStops, BlockDisconnected,
        BlockStillConnected
  <2> QED
    BY <2>1
    DEF BlockEnters, EnterBlock, Rests, Started, managerProps, SoloInv, ThreadsInv, ThreadInv,
        ThreadTypeOK
<1>3. CASE TunnelStep(t)
  BY <1>3
  DEF TunnelStep, TunnelUp, TunnelFails, DeliverOutput, Rests, Started,
      threadVars, managerProps
<1> QED  BY <1>2, <1>3

LEMMA StartedBlock ==
    ASSUME OnePeer, StartedInv, NEW t \in Threads, BlockStep(t) \/ TunnelStep(t)
    PROVE  OneStarted'
<1> USE ThreadAssumption
    DEF StartedInv, SoloInv, ThreadsInv, HelperTypeOK, ManagerTypeOK, ThreadTypeOK,
        threadVars, managerProps, outsideVars, attemptVars, callVars, requestVars,
        OneStarted, NoneStarted, Dialling, ConnectSteps, IsConnected, Started
<1>1. ASSUME BlockEnters(t) PROVE OneStarted'
  BY <1>1 DEF BlockEnters, EnterBlock
<1>2. ASSUME BlockTerminates(t) PROVE OneStarted'
  BY <1>2 DEF BlockTerminates
<1>3. ASSUME phase[t] = "inBlock", cancelled[t], FinishBlock(t, TRUE) \/ FinishBlock(t, FALSE),
             cinfo' \in {cinfo, [cinfo EXCEPT ![t] = "freed"], [cinfo EXCEPT ![t] = "connected"]},
             UNCHANGED <<clientThread, paths, tunnel, callVars>>
      PROVE  OneStarted'
  <2>1. PICK c \in Callers : pc[c] \in {"join", "joining"}
    BY <1>3 DEF Solo, CancelledIsJoined
  <2>2. \A d \in Callers : d = c
    BY DEF OnePeer
  <2>3. phase' = [phase EXCEPT ![t] = "finished"] /\ UNCHANGED cancelled
    BY <1>3 DEF FinishBlock
  <2>4. /\ UNCHANGED <<clientThread, paths, tunnel, pc, arg, attempt, connected, result>>
        /\ \A u \in Threads : cinfo'[u] = "freed" => u = t \/ cinfo[u] = "freed"
    BY <1>3
  <2> QED  BY <1>3, <2>1, <2>2, <2>3, <2>4
<1>4. ASSUME BlockClears(t) PROVE OneStarted'
  BY <1>3, <1>4 DEF BlockClears
<1>5. ASSUME BlockStops(t) PROVE OneStarted'
  <2>1. phase[t] = "inBlock" /\ cancelled[t] /\ UNCHANGED <<managerProps, cinfo, callVars>>
    BY <1>5 DEF BlockStops
  <2>2. CASE FinishBlock(t, FALSE) /\ UNCHANGED tunnel
    BY <1>3, <2>1, <2>2
  <2>3. CASE /\ UNCHANGED threadVars
             /\ tunnel' \in {tunnel, IF tunnel[t] = "down"
                                      THEN [tunnel EXCEPT ![t] = "silent"] ELSE tunnel}
    BY <2>1, <2>3
  <2> QED  BY <1>5, <2>2, <2>3 DEF BlockStops
<1>6. ASSUME BlockDisconnected(t) PROVE OneStarted'
  BY <1>3, <1>6 DEF BlockDisconnected, StoppingIsCancelled
<1>8. ASSUME BlockStillConnected(t) PROVE OneStarted'
  BY <1>3, <1>8 DEF BlockStillConnected, StoppingIsCancelled
<1>7. ASSUME TunnelStep(t) PROVE OneStarted'
  BY <1>7 DEF TunnelStep, TunnelUp, TunnelFails, DeliverOutput, Running
<1> QED  BY <1>1, <1>2, <1>4, <1>5, <1>6, <1>7, <1>8 DEF BlockStep

\* Requests are taken, and answered, with nothing started that should not be.
LEMMA StartedServe ==
    ASSUME OnePeer, StartedInv, NEW c \in Callers,
           \/ HandleVersion(c) \/ HandlePathes(c) \/ ReceiveStatus(c)
           \/ (\E s \in Servers : ReceiveConnect(c, s)) /\ paths /\ NoneStarted
           \/ ReceiveDisconnect(c) /\ IsConnected
           \/ ReplyStatus(c) \/ ReplyConnect(c) \/ ReplyDisconnect(c)
    PROVE  OneStarted'
<1>0. \A d \in Callers : d = c
  BY DEF OnePeer
<1> USE <1>0
    DEF StartedInv, SoloInv, ThreadsInv, HelperTypeOK, ManagerTypeOK,
        threadVars, managerProps, outsideVars, attemptVars, callVars, requestVars, Goto, Return,
        OneStarted, NoneStarted, Dialling, ConnectSteps, IsConnected, Started
<1>1. CASE HandleVersion(c) \/ HandlePathes(c)
  BY <1>1 DEF HandleVersion, HandlePathes, helperVars, managerVars
<1>2. CASE ReceiveStatus(c)
  <2>1. UNCHANGED <<phase, cancelled, connectedServer, clientThread, paths, tunnel, cinfo>>
    BY <1>2, Zenon DEF ReceiveStatus
  <2>2. pc'[c] = "replyStatus"
    BY <1>2 DEF ReceiveStatus
  <2> QED  BY <2>1, <2>2, StartedGoesOn
<1>3. CASE (\E s \in Servers : ReceiveConnect(c, s)) /\ paths /\ NoneStarted
  BY <1>3 DEF ReceiveConnect
<1>4. CASE ReceiveDisconnect(c) /\ IsConnected
  <2>1. UNCHANGED <<phase, cancelled, connectedServer, clientThread, paths, tunnel, cinfo>>
    BY <1>4, Zenon DEF ReceiveDisconnect
  <2>2. pc'[c] = "disconnect"
    BY <1>4 DEF ReceiveDisconnect
  <2> QED  BY <1>4, <2>1, <2>2, StartedGoesOn
<1>5. CASE ReplyStatus(c) \/ ReplyConnect(c) \/ ReplyDisconnect(c)
  <2>1. UNCHANGED <<phase, cancelled, connectedServer, clientThread, paths, tunnel, cinfo>>
    BY <1>5, Zenon DEF ReplyStatus, ReplyConnect, ReplyDisconnect
  <2>2. pc'[c] = "idle"
    BY <1>5 DEF ReplyStatus, ReplyConnect, ReplyDisconnect
  <2> QED  BY <2>1, <2>2, StartedGoesOn
<1> QED  BY <1>1, <1>2, <1>3, <1>4, <1>5

-----------------------------------------------------------------------------
\* In one run the helper never dies, and cannot be installed again.

LEMMA Survives ==
    ASSUME Alone, AliveInv
    PROVE  ~HelperDies /\ ~AppUpgrades
<1>1. ~Killed
  BY DEF Killed, Alone, AliveInv, SessionInv, ThreadsInv, HelperTypeOK
<1>2. ~\E c \in Callers : Raises(c)
  <2> SUFFICES ASSUME NEW c \in Callers, Raises(c) PROVE FALSE
    OBVIOUS
  <2>1. ~NilLaunchPath(c)
    BY DEF NilLaunchPath, AliveInv, OneStarted, ConnectSteps
  <2>2. ~StartedTwice(c)
    BY DEF StartedTwice, AliveInv, SoloInv, Held, StartsOwn, DiallingProgress, Dialling, BlockRuns
  <2>3. ~StatusFreed(c)
    <3>1. pc[c] \in {"runLoop", "adopt", "cause"} =>
              attempt[c] \in Threads /\ ~cancelled[attempt[c]]
      BY DEF AliveInv, SoloInv, Solo, Connecting, Dialling, BlockRuns
    <3>2. pc[c] = "runLoop" => starting[c] = attempt[c]
      BY DEF AliveInv, SoloInv, Held, StartsOwn, BlockRuns
    <3> QED  BY <3>1, <3>2 DEF StatusFreed, AliveInv, OneStarted
  <2> QED  BY <2>1, <2>2, <2>3 DEF Raises
<1>3. ~AppUpgrades
  <2> SUFFICES ASSUME AppUpgrades PROVE FALSE
    OBVIOUS
  <2>1. PICK c \in Callers \ usedPeers : TRUE
    BY DEF AppUpgrades
  <2>2. peer \in Callers /\ peer \in usedPeers
    BY DEF AppUpgrades, AliveInv, SessionInv, WiresInv
  <2> QED  BY <2>1, <2>2 DEF Alone, OnePeer
<1> QED  BY <1>1, <1>2, <1>3 DEF HelperDies

LEMMA AliveSolo ==
    ASSUME Alone, AliveInv, [Next]_vars PROVE SoloInv'
<1>1. ASSUME NEW c \in Callers, HelperTakes(c) \/ HelperReplies(c) PROVE HelperNext
  <2>1. CASE HelperTakes(c)
    BY <2>1, TakesOne DEF HelperNext, AliveInv, SessionInv
  <2>2. CASE HelperReplies(c)
    BY <2>2 DEF HelperReplies, Serve, HelperNext
  <2> QED  BY <1>1, <2>1, <2>2
<1>2. CASE HelperWorks
  BY <1>2, SoloInvStep DEF HelperWorks, HelperNext, Alone, AliveInv
<1>3. CASE AppLaunches \/ AppQuits \/ UserActs \/ AppReceives
  BY <1>3, SoloInvStep DEF AppLaunches, AppQuits, UserActs, AppReceives, Alone, AliveInv
<1>4. CASE UNCHANGED vars
  BY <1>4, SoloInvStep DEF vars, Alone, AliveInv
<1> QED
  BY <1>1, <1>2, <1>3, <1>4, SoloInvStep, Survives DEF Next, HelperSide, Alone, AliveInv

LEMMA AliveServer ==
    ASSUME AliveInv, [Next]_vars PROVE ConnectedServerIsFixed' /\ AskedForServer'
<1>0. ServerInv
  BY DEF AliveInv
<1>1. CASE AppLaunches \/ AppQuits
  BY <1>0, <1>1, ServerInvStep DEF AppLaunches, AppQuits, AppNext, ServerInv
<1>2. CASE UserActs
  BY <1>0, <1>2, ServerInvStep DEF UserActs, AppNext, ServerInv
<1>3. CASE AppReceives \/ AppUpgrades
  <2>1. peer # NoPeer /\ outbox[peer] # <<>> /\ Arrives(Head(outbox[peer]))
    BY <1>3, ReplyArrived
  <2>2. PICK q \in Asked, r \in Replies :
            inFlight = <<q>> /\ Answered(q, r) /\ Head(outbox[peer]) = r
    BY <2>1, AnswerArrives DEF AliveInv
  <2>3. inFlight # <<>> /\ Arrives(r) /\ r.ok \in BOOLEAN
    BY <2>1, <2>2, Single DEF Replies
  <2>4. r.type = "status" => ~r.ok
    <3>1. running
      BY <2>1 DEF AliveInv, SessionInv, WiresInv
    <3> QED  BY <2>2, <3>1 DEF AliveInv, ShowsReal, Means, Tells
  <2>5. CASE Handled(r)
    BY <1>0, <2>3, <2>4, <2>5, ServerReplyHandled
  <2>6. CASE NotParsed
    BY <1>0, <2>6, ServerInvStep DEF AppNext, ServerInv
  <2> QED  BY <2>3, <2>5, <2>6 DEF Arrives, Dropped
<1>4. CASE UNCHANGED appVars
  BY <1>0, <1>4, ServerInvStep DEF ServerInv
<1>5. HelperSide \/ HelperWorks \/ HelperDies => UNCHANGED appVars
  BY DEF HelperSide, HelperTakes, HelperReplies, HelperWorks, HelperDies
<1> QED  BY <1>1, <1>2, <1>3, <1>4, <1>5 DEF Next, vars

-----------------------------------------------------------------------------
\* What is shown stays real while the helper rests.

LEMMA HelperStays ==
    ASSUME OneStarted, UNCHANGED helperVars PROVE OneStarted' /\ Rests
<1>1. UNCHANGED <<threadVars, managerProps, tunnel, cinfo, callVars>>
  BY DEF helperVars, managerVars, attemptVars
<1> QED
  BY <1>1
  DEF threadVars, managerProps, callVars, requestVars, Rests, OneStarted, NoneStarted,
      IsConnected, Started

LEMMA RealRests ==
    ASSUME ThreadsInv, Rests
    PROVE  /\ NoneStarted => NoneStarted'
           /\ Nothing => Nothing'
           /\ IsConnected => IsConnected'
           /\ UNCHANGED currentServer /\ Real => Real'
<1> USE DEF Rests, NoneStarted, Nothing, IsConnected
<1>1. NoneStarted => NoneStarted'
  OBVIOUS
<1>2. (Nothing => Nothing') /\ (IsConnected => IsConnected')
  BY <1>1
<1>3. ASSUME UNCHANGED currentServer, Real PROVE Real'
  <2>1. clientThread \in Threads
    BY <1>3 DEF Real, ThreadsInv, HelperTypeOK, ManagerTypeOK
  <2>2. Started(clientThread)'
    <3>1. Started(clientThread)
      BY <1>3 DEF Real
    <3>2. phase'[clientThread] \in {"spawned", "inBlock"}
      BY <2>1, <3>1 DEF Started
    <3> QED  BY <3>2 DEF Started
  <2> QED  BY <1>3, <2>2 DEF Real
<1> QED  BY <1>1, <1>2, <1>3

LEMMA MeansRests ==
    ASSUME ThreadsInv, Rests, NEW q \in Asked, Means(q),
           UNCHANGED <<shownConnected, currentServer, wires>>
    PROVE  Means(q)'
<1>1. UNCHANGED <<pc, arg, connected, paths>>
  BY DEF Rests, callVars, requestVars
<1>2. UNCHANGED <<peer, inbox, outbox>>
  BY DEF wires
<1>3. (Served(q)' <=> Served(q)) /\ \A r \in Replies : Answered(q, r)' <=> Answered(q, r)
  BY <1>1, <1>2 DEF Served, Answered
<1>4. ASSUME NEW r \in Replies, Tells(q, r) PROVE Tells(q, r)'
  BY <1>1, <1>4, RealRests DEF Tells
<1> QED  BY <1>1, <1>2, <1>3, <1>4, RealRests DEF Means

LEMMA ShowsRests ==
    ASSUME AliveInv, Rests, UNCHANGED <<appVars, wires>>
    PROVE  ShowsReal' /\ PendingFits'
<1>1. UNCHANGED <<running, shownConnected, currentServer, connectButton, menuButton, fields,
                  menuOpen, inFlight, broken>>
  BY DEF appVars, uiVars, history
<1>2. UNCHANGED <<inbox, usedPeers, paths>>
  BY DEF wires, Rests
<1>3. ThreadsInv /\ ShowsReal /\ PendingFits
  BY DEF AliveInv, SessionInv
<1>4. \A q \in Asked : Means(q) => Means(q)'
  BY <1>1, <1>3, MeansRests
<1>5. ShowsReal'
  BY <1>1, <1>2, <1>3, <1>4, RealRests DEF ShowsReal, AnyControl
<1>6. PendingFits'
  BY <1>2, <1>3, RealRests DEF PendingFits, Pending
<1> QED  BY <1>5, <1>6

-----------------------------------------------------------------------------
\* Each step of one run.

OneRunInv == OneStarted /\ PendingFits /\ ShowsReal

LEMMA AliveWorks ==
    ASSUME Alone, AliveInv, HelperWorks PROVE OneRunInv'
<1>1. Internal /\ UNCHANGED <<appVars, wires>>
  BY DEF HelperWorks
<1>2. OnePeer /\ StartedInv /\ ThreadsInv /\ WiresInv /\ Pipeline /\ ShowsReal
  BY DEF Alone, AliveInv, StartedInv, SessionInv
<1>3. OneStarted'
  BY <1>1, <1>2, StartedConnect, StartedDisconnect, StartedBlock DEF Internal, ManagerStep
<1>4. CASE \A c \in Callers : pc[c] \notin ConnectSteps \cup DisconnectSteps
  <2>1. \A c \in Callers : ~Advances(c, ConnectSteps) /\ ~Advances(c, DisconnectSteps)
    BY <1>4 DEF Advances
  <2>2. PICK t \in Threads : BlockStep(t) \/ TunnelStep(t)
    <3>1. ASSUME NEW c \in Callers, ConnectStep(c) PROVE FALSE
      BY <1>4, <3>1
      DEF ConnectStep, ConnectSteps, WriteConfig, PreparePrefs, NewClientThread, SendStart,
          LaunchTask, PollOutput, CheckRunning, StoreOutcome, StartClientThread, Retry,
          OpenConnection, Callback, AdoptServer, ReadCause
    <3>2. ASSUME NEW c \in Callers, DisconnectStep(c) PROVE FALSE
      BY <1>4, <3>2
      DEF DisconnectStep, DisconnectSteps, CheckConnected, CancelClientThread,
          JoinClientThread, LeaveJoin, CollectSuccess, ForgetThread
    <3> QED  BY <1>1, <3>1, <3>2 DEF Internal, ManagerStep
  <2>3. Rests
    BY <1>4, <2>2, BlocksRest DEF AliveInv, DisconnectSteps
  <2> QED  BY <1>1, <1>3, <2>3, ShowsRests DEF OneRunInv
<1>5. ASSUME NEW c \in Callers, pc[c] \in ConnectSteps \cup DisconnectSteps PROVE OneRunInv'
  <2>1. pc[c] # "idle" /\ \A d \in Callers : d = c
    BY <1>2, <1>5 DEF OnePeer, ConnectSteps, DisconnectSteps
  <2>2. pc'[c] # "idle" /\ UNCHANGED <<arg, paths>>
    <3>1. pc'[c] # "idle"
      BY <1>1, <1>2, <2>1, WorksOn
      DEF Advances, ConnectSteps, DisconnectSteps, ThreadsInv, HelperTypeOK,
          ManagerTypeOK
    <3>2. ASSUME NEW d \in Callers, ConnectStep(d) PROVE UNCHANGED <<arg, paths>>
      BY <3>2
      DEF ConnectStep, managerProps, requestVars, WriteConfig, PreparePrefs, NewClientThread,
          SendStart,
          LaunchTask, PollOutput, CheckRunning, StoreOutcome, StartClientThread, Retry,
          OpenConnection, Callback, AdoptServer, ReadCause
    <3>3. ASSUME NEW d \in Callers, DisconnectStep(d) PROVE UNCHANGED <<arg, paths>>
      BY <3>3
      DEF DisconnectStep, managerProps, requestVars, CheckConnected, CancelClientThread,
          JoinClientThread, LeaveJoin, CollectSuccess, ForgetThread
    <3>4. ASSUME NEW t \in Threads, BlockStep(t) \/ TunnelStep(t) PROVE UNCHANGED <<arg, paths>>
      BY <3>4
      DEF BlockStep, TunnelStep, BlockEnters, BlockTerminates, BlockClears, BlockStops,
          BlockDisconnected, BlockStillConnected, TunnelUp, TunnelFails, DeliverOutput, callVars,
          requestVars,
          managerProps
    <3> QED  BY <1>1, <3>1, <3>2, <3>3, <3>4 DEF Internal, ManagerStep
  <2>3. UNCHANGED <<running, shownConnected, currentServer, connectButton, menuButton, fields,
                    menuOpen, inFlight, broken, peer, inbox, outbox, usedPeers>>
    BY <1>1 DEF appVars, uiVars, history, wires
  <2>4. PendingFits'
    <3>1. inbox[c] = <<>>
      BY <1>2, <2>1 DEF WiresInv
    <3> QED  BY <2>1, <2>3, <3>1, Single DEF PendingFits, Pending
  <2>5. ShowsReal'
    <3>1. CASE ~running
      <4>1. usedPeers # {}
        BY <1>2, <2>1 DEF WiresInv
      <4> QED  BY <1>2, <2>3, <3>1, <4>1 DEF ShowsReal
    <3>2. CASE running
      <4>1. peer = c
        BY <1>2, <2>1, <3>2 DEF WiresInv
      <4>2. PICK q \in Asked : inFlight = <<q>> /\ Served(q)
        BY <1>2, <2>1, <3>2, <4>1 DEF Pipeline, Waits, Answered
      <4>3. q.type \in {"connect", "disconnect"}
        BY <1>5, <4>1, <4>2 DEF Served, Serves, ConnectSteps, DisconnectSteps
      <4>4. \A r \in Replies : ~Answered(q, r)'
        BY <2>2, <2>3, <4>1 DEF Answered
      <4>5. Means(q)
        BY <1>2, <3>2, <4>2 DEF ShowsReal
      <4>6. Means(q)'
        BY <2>2, <2>3, <4>2, <4>3, <4>4, <4>5 DEF Means, Chain
      <4>7. \A p \in Asked : inFlight' = <<p>> => p = q
        BY <2>3, <4>2, SingleIsOne
      <4>8. inFlight' # <<>>
        BY <2>3, <4>2, Single
      <4> QED
        BY <1>2, <2>2, <2>3, <3>2, <4>6, <4>7, <4>8 DEF ShowsReal, AnyControl
    <3> QED  BY <3>1, <3>2
  <2> QED  BY <1>3, <2>4, <2>5 DEF OneRunInv
<1> QED  BY <1>4, <1>5

\* The peer and the request that the helper serves in the one run.
LEMMA PeerServed ==
    ASSUME Alone, AliveInv, NEW c \in Callers, inbox[c] # <<>> \/ pc[c] # "idle"
    PROVE  /\ usedPeers # {}
           /\ \A d \in Callers : d = c
           /\ running => peer = c
<1>1. \A d \in Callers : d = c
  BY DEF Alone, OnePeer
<1>2. WiresInv
  BY DEF AliveInv, SessionInv
<1>3. c \in usedPeers /\ (running => peer \in Callers)
  BY <1>2 DEF WiresInv
<1> QED  BY <1>1, <1>3

LEMMA AliveTakes ==
    ASSUME Alone, AliveInv, NEW c \in Callers, HelperTakes(c) PROVE OneRunInv'
<1>1. PICK q \in Asked : Begins(c, q)
  BY TakesOne DEF AliveInv, SessionInv
<1>2. inbox[c] = <<q>> /\ pc[c] = "idle" /\ inbox[c] # <<>> /\ Head(inbox[c]) = q
  BY <1>1, Single DEF Begins
<1>3. usedPeers # {} /\ (\A d \in Callers : d = c) /\ (running => peer = c)
  BY <1>2, PeerServed
<1>4. OnePeer /\ StartedInv /\ ThreadsInv /\ WiresInv /\ Pipeline /\ ShowsReal /\ HelperTypeOK
  BY DEF Alone, AliveInv, StartedInv, SessionInv, ThreadsInv
<1>5. UNCHANGED <<running, shownConnected, currentServer, connectButton, menuButton, fields,
                  menuOpen, inFlight, broken, peer, usedPeers>>
  BY DEF HelperTakes, appVars, uiVars, history
<1>6. inbox'[c] = <<>>
  BY <1>1, <1>4 DEF Begins, WiresInv
<1>7. PendingFits'
  BY <1>3, <1>6, Single DEF PendingFits, Pending
<1>8. running => inFlight = <<q>> /\ outbox[peer] = <<>> /\ Means(q)
  <2> SUFFICES ASSUME running PROVE inFlight = <<q>> /\ outbox[peer] = <<>> /\ Means(q)
    OBVIOUS
  <2>1. PICK p \in Asked : inFlight = <<p>> /\ Waits(p)
    BY <1>2, <1>3, <1>4 DEF Pipeline, Served, Answered
  <2>2. p = q
    <3>1. <<p>> = <<q>>
      BY <1>2, <1>3, <2>1 DEF Waits
    <3> QED  BY <3>1, SingleIsOne
  <2> QED  BY <1>4, <2>1, <2>2 DEF Waits, ShowsReal
<1>9. (q.type = "connect" => paths /\ NoneStarted) /\ (q.type = "disconnect" => IsConnected)
  BY <1>2 DEF AliveInv, PendingFits, Pending
\* It is enough that the helper still means what the application takes it to.
<1>10. ASSUME OneStarted', running => Means(q)', paths => paths' PROVE OneRunInv'
  <2>1. CASE ~running
    BY <1>3, <1>4, <1>5, <1>7, <1>10, <2>1 DEF OneRunInv, ShowsReal
  <2>2. CASE running
    <3>1. inFlight' # <<>> /\ \A p \in Asked : inFlight' = <<p>> => p = q
      BY <1>5, <1>8, <2>2, Single, SingleIsOne
    <3> QED
      BY <1>4, <1>5, <1>7, <1>10, <2>2, <3>1 DEF OneRunInv, ShowsReal, AnyControl
  <2> QED  BY <2>1, <2>2
<1>11. ASSUME NEW a \in {VersionReply, OutdatedReply},
              Takes(c, "version"), HandleVersion(c), Answer(c, a)
       PROVE  OneRunInv'
  <2>1. OneStarted' /\ Rests
    BY <1>11, HelperStays DEF HandleVersion, AliveInv
  <2>2. q.type = "version" /\ a \in Replies /\ a.type = "version"
    <3>1. a \in Replies /\ a.type = "version"
      BY <1>11, VersionReplies
    <3> QED  BY <1>2, <1>11, <3>1 DEF Takes
  <2>3. ASSUME running PROVE Means(q)'
    <3>1. outbox'[peer] = <<a>>
      BY <1>3, <1>4, <1>8, <1>11, <2>2, <2>3, AnswerWires
    <3>2. \A r \in Replies : Answered(q, r)' => r = a
      BY <1>5, <3>1, SingleIsOne DEF Answered
    <3>3. Means(q)
      BY <1>8, <2>3
    <3> QED
      BY <1>4, <1>5, <2>1, <2>2, <3>2, <3>3, RealRests DEF Means, Tells, Chain
  <2> QED  BY <1>10, <2>1, <2>3 DEF Rests
<1>12. CASE Takes(c, "pathes") /\ HandlePathes(c) /\ Answer(c, PathesReply)
  <2>1. OneStarted'
    BY <1>4, <1>12, StartedServe
  <2>2. q.type = "pathes" /\ PathesReply \in Replies /\ PathesReply.type = "pathes" /\ paths'
    BY <1>2, <1>12 DEF Takes, PathesReply, Reply, Replies, HandlePathes
  <2>3. Nothing => Nothing'
    BY <1>12 DEF HandlePathes, threadVars, Nothing, NoneStarted, Started
  <2>4. ASSUME running PROVE Means(q)'
    <3>1. outbox'[peer] = <<PathesReply>>
      BY <1>3, <1>4, <1>8, <1>12, <2>2, <2>4, AnswerWires
    <3>2. \A r \in Replies : Answered(q, r)' => r = PathesReply
      BY <1>5, <3>1, SingleIsOne DEF Answered
    <3>3. Means(q)
      BY <1>8, <2>4
    <3> QED  BY <1>5, <2>2, <2>3, <3>2, <3>3 DEF Means, Tells, Chain
  <2> QED  BY <1>10, <2>1, <2>2, <2>4
<1>13. CASE Takes(c, "status") /\ ReceiveStatus(c) /\ UNCHANGED outbox
  <2>1. OneStarted'
    BY <1>4, <1>13, StartedServe
  <2>2. q.type = "status" /\ pc'[c] # "idle" /\ UNCHANGED paths
    BY <1>2, <1>4, <1>13
    DEF Takes, ReceiveStatus, Goto, HelperTypeOK, ManagerTypeOK, managerProps
  <2>3. (Nothing => Nothing') /\ (Nothing => ~connected'[c])
    BY <1>4, <1>13
    DEF ReceiveStatus, threadVars, managerProps, Nothing, NoneStarted, Started, IsConnected,
        HelperTypeOK, ManagerTypeOK
  <2>4. ASSUME running PROVE Means(q)'
    <3>1. \A r \in Replies : ~Answered(q, r)'
      BY <1>3, <1>5, <2>2, <2>4 DEF Answered
    <3>2. Means(q)
      BY <1>8, <2>4
    <3> QED  BY <1>3, <1>5, <2>2, <2>3, <2>4, <3>1, <3>2 DEF Means, Chain
  <2> QED  BY <1>10, <2>1, <2>2, <2>4
<1>14. CASE /\ Takes(c, "connect") \/ Takes(c, "disconnect")
            /\ \/ ReceiveConnect(c, Head(inbox[c]).server) /\ Takes(c, "connect")
               \/ ReceiveDisconnect(c) /\ Takes(c, "disconnect")
  <2>1. q.type \in {"connect", "disconnect"} /\ (q.type = "connect" => q.server \in Servers)
    BY <1>2, <1>14 DEF Takes, Asked
  <2>2. OneStarted'
    BY <1>2, <1>4, <1>9, <1>14, <2>1, StartedServe DEF Takes
  <2>3. pc'[c] # "idle" /\ UNCHANGED paths /\ (q.type = "connect" => arg'[c] = q.server)
    BY <1>2, <1>4, <1>14
    DEF Takes, ReceiveConnect, ReceiveDisconnect, Goto, HelperTypeOK, ManagerTypeOK,
        managerProps
  <2>4. ASSUME running PROVE Means(q)'
    <3>1. \A r \in Replies : ~Answered(q, r)'
      BY <1>3, <1>5, <2>3, <2>4 DEF Answered
    <3>2. Means(q)
      BY <1>8, <2>4
    <3> QED  BY <1>3, <1>5, <2>1, <2>3, <2>4, <3>1, <3>2 DEF Means, Chain
  <2> QED  BY <1>10, <2>2, <2>3, <2>4
<1> QED  BY <1>11, <1>12, <1>13, <1>14 DEF HelperTakes

LEMMA AliveReplies ==
    ASSUME Alone, AliveInv, NEW c \in Callers, HelperReplies(c) PROVE OneRunInv'
<1>1. PICK a \in Replies : Finishes(c, a)
  BY RepliesOnce DEF AliveInv, SessionInv, ThreadsInv
<1>2. pc[c] # "idle"
  BY <1>1 DEF Finishes, Serves, ConnectSteps, DisconnectSteps
<1>3. usedPeers # {} /\ (\A d \in Callers : d = c) /\ (running => peer = c)
  BY <1>2, PeerServed
<1>4. /\ OnePeer /\ StartedInv /\ ThreadsInv /\ WiresInv /\ Pipeline /\ ShowsReal /\ HelperTypeOK
      /\ Solo /\ OneStarted
  BY DEF Alone, AliveInv, StartedInv, SessionInv, ThreadsInv, SoloInv
<1>5. UNCHANGED <<running, shownConnected, currentServer, connectButton, menuButton, fields,
                  menuOpen, inFlight, broken, peer, inbox, usedPeers>>
  BY DEF HelperReplies, appVars, uiVars, history
<1>6. UNCHANGED <<phase, cancelled, connectedServer, clientThread, paths>>
  BY DEF HelperReplies, ReplyStatus, ReplyConnect, ReplyDisconnect, threadVars, managerProps
<1>7. OneStarted'
  BY <1>4, StartedServe DEF HelperReplies
<1>8. PendingFits'
  BY <1>2, <1>3, <1>4, <1>5, Single DEF PendingFits, Pending, WiresInv
<1>9. CASE ~running
  BY <1>3, <1>4, <1>5, <1>7, <1>8, <1>9 DEF OneRunInv, ShowsReal
<1>10. CASE running
  <2>1. PICK q \in Asked : inFlight = <<q>> /\ Served(q)
    BY <1>2, <1>3, <1>4, <1>10 DEF Pipeline, Waits, Answered
  <2>2. Means(q) /\ a.type = q.type
    BY <1>1, <1>3, <1>4, <1>10, <2>1
    DEF ShowsReal, Served, Finishes, Serves, ConnectSteps, DisconnectSteps, Asked, Requests
  <2>3. outbox'[peer] = <<a>> /\ pc'[peer] = "idle"
    BY <1>1, <1>3, <1>4, <1>10, <2>1, AnswerWires
    DEF Finishes, Served, HelperTypeOK, ManagerTypeOK
  <2>4. \A r \in Replies : Answered(q, r)' => r = a
    BY <1>5, <2>3, SingleIsOne DEF Answered
  <2>5. Tells(q, a)'
    <3>1. CASE q.type = "status"
      <4>1. ~connected[c] /\ pc[c] = "replyStatus"
        BY <1>3, <1>10, <2>1, <2>2, <3>1 DEF Means, Served, Serves
      <4>2. Answer(c, StatusReply(c)) /\ StatusReply(c) \in Replies /\ ~StatusReply(c).ok
        BY <1>4, <4>1
        DEF HelperReplies, ReplyConnect, ReplyDisconnect, StatusReply, Reply, Replies,
            HelperTypeOK, ManagerTypeOK
      <4>3. a = StatusReply(c)
        BY <1>3, <1>4, <1>10, <2>1, <2>3, <4>2, AnswerWires, SingleIsOne DEF Served
      <4> QED  BY <2>2, <3>1, <4>2, <4>3 DEF Tells
    <3>2. CASE q.type = "connect"
      <4>1. arg[c] = currentServer /\ pc[c] \in ConnectSteps
        BY <1>3, <1>10, <2>1, <2>2, <3>2 DEF Means, Served, Serves
      <4>2. /\ Answer(c, ConnectReply(c)) /\ ConnectReply(c) \in Replies
            /\ ConnectReply(c).ok = result[c] /\ pc[c] = "replyConnect"
        BY <1>4, <4>1
        DEF HelperReplies, ReplyStatus, ReplyConnect, ReplyDisconnect, ConnectReply, Reply,
            Replies, ConnectSteps, HelperTypeOK, ManagerTypeOK
      <4>3. a = ConnectReply(c)
        BY <1>3, <1>4, <1>10, <2>1, <2>3, <4>2, AnswerWires, SingleIsOne DEF Served
      <4>4. IF result[c] THEN Real ELSE NoneStarted
        BY <1>4, <4>1, <4>2 DEF Solo, OkMeansConnected, OneStarted, Real
      <4>5. IF result[c] THEN Real' ELSE NoneStarted'
        BY <1>5, <1>6, <4>4 DEF Real, NoneStarted, Started, IsConnected
      <4> QED  BY <2>2, <3>2, <4>2, <4>3, <4>5 DEF Tells
    <3>3. CASE q.type = "disconnect"
      <4>1. pc[c] = "replyDisconnect"
        BY <1>3, <1>10, <2>1, <3>3
        DEF Served, Serves, HelperReplies, ReplyStatus, ReplyConnect, ReplyDisconnect,
            DisconnectSteps
      <4>2. NoneStarted'
        BY <1>4, <1>6, <4>1 DEF OneStarted, NoneStarted, Started
      <4> QED  BY <2>2, <3>3, <4>2 DEF Tells
    <3> QED  BY <2>1, <3>1, <3>2, <3>3 DEF Served, Serves
  <2>6. Means(q)'
    BY <1>5, <1>6, <2>2, <2>3, <2>4, <2>5
    DEF Means, Chain, Served, Serves, ConnectSteps, Nothing, NoneStarted, Started
  <2>7. inFlight' # <<>> /\ \A p \in Asked : inFlight' = <<p>> => p = q
    BY <1>5, <2>1, Single, SingleIsOne
  <2> QED
    BY <1>4, <1>5, <1>6, <1>7, <1>8, <1>10, <2>6, <2>7 DEF OneRunInv, ShowsReal, AnyControl
<1> QED  BY <1>9, <1>10

LEMMA AliveLaunches ==
    ASSUME Alone, AliveInv, AppLaunches PROVE OneRunInv'
<1>1. PICK c \in Callers \ usedPeers, helper \in {"found", "installed", "missing"} :
          /\ Launch(helper)
          /\ peer' = c
          /\ usedPeers' = usedPeers \cup {c}
          /\ inbox' = [inbox EXCEPT ![c] = inFlight']
          /\ UNCHANGED <<helperVars, outbox>>
  BY DEF AppLaunches
<1>2. WiresInv /\ ThreadsInv /\ ShowsReal /\ OneStarted
  BY DEF AliveInv, SessionInv
<1>3. usedPeers = {} /\ \A d \in Callers : d = c
  BY <1>1, <1>2 DEF WiresInv, Alone, OnePeer
<1>4. OneStarted' /\ Rests
  BY <1>1, <1>2, HelperStays
<1>5. Nothing'
  BY <1>1, <1>2, <1>3, <1>4, RealRests DEF Launch, ShowsReal
<1>6. /\ running' /\ ~broken' /\ ~shownConnected' /\ ~AnyControl'
      /\ \/ inFlight' = <<>>
              \/ \E q \in Asked : inFlight' = <<q>> /\ q.type \in {"version", "pathes"}
  BY <1>1, LaunchAsks DEF Launch, SetViewEnabled, AnyControl
<1>7. inbox'[c] = inFlight' /\ outbox'[c] = <<>>
  BY <1>1, <1>2 DEF WiresInv
<1>8. \A q \in Asked : inFlight' = <<q>> => q.type \in {"version", "pathes"}
  BY <1>6, Single, SingleIsOne
<1>9. PendingFits'
  BY <1>3, <1>7, <1>8, Single DEF PendingFits, Pending
<1>10. \A q \in Asked : inFlight' = <<q>> => Means(q)'
  BY <1>1, <1>5, <1>6, <1>7, <1>8, Single DEF Means, Answered, Chain
<1> QED
  BY <1>4, <1>5, <1>6, <1>9, <1>10 DEF OneRunInv, ShowsReal, Nothing

LEMMA AliveQuits ==
    ASSUME AliveInv, AppQuits PROVE OneRunInv'
<1>1. WiresInv /\ ThreadsInv /\ ShowsReal /\ OneStarted /\ PendingFits
  BY DEF AliveInv, SessionInv
<1>2. OneStarted' /\ Rests
  BY <1>1, HelperStays DEF AppQuits
<1>3. usedPeers # {} /\ ~running' /\ UNCHANGED <<inbox, usedPeers, broken>>
  BY <1>1 DEF AppQuits, Quit, WiresInv, history
<1>4. PendingFits'
  BY <1>1, <1>2, <1>3, RealRests DEF PendingFits, Pending, Rests
<1> QED  BY <1>1, <1>2, <1>3, <1>4 DEF OneRunInv, ShowsReal

LEMMA AliveUser ==
    ASSUME Alone, AliveInv, UserActs PROVE OneRunInv'
<1>1. WiresInv /\ ThreadsInv /\ ShowsReal /\ OneStarted /\ PendingFits /\ AppInv /\ Pipeline
      /\ ConnectedServerIsFixed /\ SessionInv
  BY DEF AliveInv, SessionInv, ServerInv
<1>2. OneStarted' /\ Rests /\ UNCHANGED <<peer, outbox, usedPeers, paths, pc>>
  BY <1>1, HelperStays DEF UserActs, Rests, callVars, requestVars
<1>3. /\ running /\ running' /\ UNCHANGED broken /\ peer \in Callers /\ ~broken
      /\ SendNew(peer, Len(inFlight)) /\ UserStep
  BY <1>1, UserAsks DEF UserActs, WiresInv, ShowsReal
<1>4. \A d \in Callers : d = peer
  BY <1>3 DEF Alone, OnePeer
<1>5. UNCHANGED shownConnected /\ (shownConnected => UNCHANGED currentServer)
  BY <1>1, <1>3
  DEF UserStep, MenuButtonClicked, OnClose, ConnectButtonClicked, OnServerSelected,
      ControlTextDidChange, ConnectedServerIsFixed
<1>6. AnyControl /\ inFlight = <<>> /\ paths'
  <2>1. AnyControl
    BY <1>3
    DEF UserStep, MenuButtonClicked, OnClose, ConnectButtonClicked, OnServerSelected,
        ControlTextDidChange, AnyControl
  <2> QED  BY <1>1, <1>2, <1>3, <2>1 DEF AppInv, OneRequestAtATime, AnyControl, ShowsReal
<1>7. IF shownConnected THEN Real' ELSE NoneStarted'
  BY <1>1, <1>2, <1>3, <1>5, <1>6, RealRests DEF ShowsReal
<1>8. inbox[peer] = <<>> /\ outbox[peer] = <<>> /\ pc[peer] = "idle"
  BY <1>1, <1>3, <1>6, Single DEF Pipeline
<1>9. CASE UNCHANGED inFlight
  <2>1. UNCHANGED inbox
    BY <1>3, <1>6, <1>9, SendsNothing
  <2>2. PendingFits'
    BY <1>4, <1>8, <2>1, Single DEF PendingFits, Pending
  <2>3. \A q \in Asked : inFlight' # <<q>>
    BY <1>6, <1>9, Single
  <2> QED
    BY <1>2, <1>3, <1>5, <1>6, <1>7, <2>2, <2>3 DEF OneRunInv, ShowsReal
<1>10. ASSUME NEW q \in Asked, inFlight' = <<q>>,
              q = IF shownConnected THEN Request("disconnect", NoAppServer)
                                    ELSE Request("connect", currentServer)
       PROVE  OneRunInv'
  <2>1. inbox'[peer] = <<q>>
    <3>1. SendNew(peer, 0)
      BY <1>3, <1>6
    <3>2. inbox' = [inbox EXCEPT ![peer] = <<q>>]
      BY <1>3, <1>8, <1>10, <3>1, SendsOne
    <3> QED  BY <1>1, <1>3, <3>2 DEF WiresInv
  <2>2. /\ q.type = "connect" => ~shownConnected /\ q.server = currentServer
        /\ q.type = "disconnect" => shownConnected
        /\ q.type \in {"connect", "disconnect"}
    BY <1>10 DEF Request
  <2>3. q.type = "connect" => UNCHANGED currentServer
    <3>1. ConnectButtonClicked
      <4>1. inFlight' # inFlight
        BY <1>6, <1>10, Single
      <4> QED
        BY <1>3, <4>1
        DEF UserStep, MenuButtonClicked, OnClose, OnServerSelected, ControlTextDidChange
    <3> QED  BY <3>1 DEF ConnectButtonClicked
  <2>4. PendingFits'
    BY <1>2, <1>4, <1>6, <1>7, <2>1, <2>2, SingleIsOne DEF PendingFits, Pending, Real
  <2>5. Means(q)'
    <3>1. ~Served(q)' /\ \A r \in Replies : ~Answered(q, r)'
      BY <1>2, <1>8, <2>1, Single DEF Served, Answered
    <3> QED  BY <1>2, <1>6, <2>2, <2>3, <3>1 DEF Means, Chain
  <2>6. inFlight' # <<>> /\ \A p \in Asked : inFlight' = <<p>> => p = q
    BY <1>10, Single, SingleIsOne
  <2> QED
    BY <1>2, <1>3, <1>6, <2>4, <2>5, <2>6 DEF OneRunInv, ShowsReal
<1> QED  BY <1>9, <1>10, <1>1, <1>3, UserAsks

LEMMA AliveReceives ==
    ASSUME Alone, AliveInv, AppReceives PROVE OneRunInv'
<1>1. /\ WiresInv /\ ThreadsInv /\ ShowsReal /\ OneStarted /\ SessionInv /\ AskedForServer
      /\ WiresInv' /\ AppInv /\ AppInv'
  BY ReceiveWires, SessionApp DEF AliveInv, SessionInv, ServerInv, Next
<1>2. /\ peer # NoPeer /\ outbox[peer] # <<>>
      /\ Arrives(Head(outbox[peer]))
      /\ outbox' = [outbox EXCEPT ![peer] = Tail(@)]
      /\ SendNew(peer, Len(inFlight) - 1)
      /\ UNCHANGED <<helperVars, peer, usedPeers>>
  BY ReplyArrived, Zenon DEF AppReceives
<1>3. PICK q \in Asked, r \in Replies :
          /\ inFlight = <<q>> /\ Answered(q, r)
          /\ Head(outbox[peer]) = r /\ Tail(outbox[peer]) = <<>>
  BY <1>1, <1>2, AnswerArrives
<1>4. /\ OneStarted' /\ Rests /\ UNCHANGED <<pc, paths>>
      /\ peer \in Callers /\ running /\ Arrives(r) /\ Ends(q, r) /\ SendNew(peer, 0)
  <2>1. Len(inFlight) = 1
    BY <1>3, Single
  <2> QED
    BY <1>1, <1>2, <1>3, <2>1, HelperStays, ReplyEnds DEF WiresInv, Rests, callVars, requestVars
<1>5. Means(q) /\ Tells(q, r) /\ ~broken
  BY <1>1, <1>3, <1>4 DEF ShowsReal, Means
<1>6. ~broken' /\ running'
  BY <1>4, <1>5, Zenon DEF Ends, Tells
<1>7. \A d \in Callers : d = peer
  BY <1>4 DEF Alone, OnePeer
<1>8. outbox'[peer] = <<>> /\ inbox[peer] = <<>> /\ pc'[peer] = "idle"
  BY <1>1, <1>2, <1>3, <1>4 DEF Answered, WiresInv
<1>9. ~AnyControl /\ Head(inFlight) = q /\ Tail(inFlight) = <<>>
  BY <1>1, <1>3, <1>4, Single DEF AppInv, OneRequestAtATime, AnyControl
\* The start-up chain goes on, or ends without a status.
<1>10. CASE (\E upgraded \in BOOLEAN : VersionReplied(r, upgraded)) \/ PathesReplied(r)
  <2>1. q.type \in {"version", "pathes"} /\ UNCHANGED uiVars
    BY <1>9, <1>10, Zenon DEF VersionReplied, PathesReplied, Answers
  <2>2. ~AnyControl' /\ ~shownConnected' /\ Nothing'
    BY <1>1, <1>4, <1>5, <1>9, <2>1, RealRests DEF uiVars, AnyControl, Means, Chain
  <2>3. CASE inFlight' = <<>>
    <3>1. UNCHANGED inbox
      BY <1>4, <2>3, SendsNothing
    <3>2. PendingFits'
      BY <1>7, <1>8, <3>1, Single DEF PendingFits, Pending
    <3> QED
      BY <1>4, <1>6, <2>2, <2>3, <3>2, Single DEF OneRunInv, ShowsReal, Nothing
  <2>4. ASSUME NEW p \in Asked, inFlight' = <<p>>,
               \/ p.type = "pathes" /\ q.type = "version"
               \/ p.type = "status" /\ q.type = "pathes" /\ r.ok
        PROVE  OneRunInv'
    <3>1. inbox' = [inbox EXCEPT ![peer] = <<p>>]
      BY <1>4, <1>8, <2>4, SendsOne
    <3>2. inbox'[peer] = <<p>>
      BY <1>1, <1>4, <3>1 DEF WiresInv
    <3>3. PendingFits'
      BY <1>7, <2>4, <3>2, SingleIsOne DEF PendingFits, Pending
    <3>4. p.type = "status" => paths'
      BY <1>4, <1>5, <2>4 DEF Tells
    <3>5. ~Served(p)' /\ \A a \in Replies : ~Answered(p, a)'
      BY <1>2, <3>2, Single DEF Served, Answered
    <3>6. Means(p)'
      BY <2>2, <2>4, <3>4, <3>5 DEF Means, Chain
    <3>7. inFlight' # <<>> /\ \A a \in Asked : inFlight' = <<a>> => a = p
      BY <2>4, Single, SingleIsOne
    <3> QED
      BY <1>4, <1>6, <2>2, <3>3, <3>6, <3>7 DEF OneRunInv, ShowsReal
  <2> QED  BY <1>4, <2>3, <2>4 DEF Ends
\* The view shows what the reply says.
<1>11. CASE StatusReplied(r) \/ ConnectReplied(r) \/ DisconnectReplied(r)
  <2>1. inFlight' = <<>>
    BY <1>9, <1>11, Zenon DEF StatusReplied, ConnectReplied, DisconnectReplied
  <2>2. UNCHANGED inbox
    BY <1>4, <2>1, SendsNothing
  <2>3. PendingFits'
    BY <1>7, <1>8, <2>2, Single DEF PendingFits, Pending
  <2>4. paths' /\ IF shownConnected' THEN Real' ELSE NoneStarted'
    <3>1. CASE StatusReplied(r)
      <4>1. q.type = "status" /\ shownConnected' = r.ok
        BY <1>5, <1>9, <3>1 DEF StatusReplied, Answers, Tells
      <4> QED  BY <1>1, <1>4, <1>5, <4>1, RealRests DEF Means, Tells, Chain, Nothing
    <3>2. CASE ConnectReplied(r)
      <4>1. q.type = "connect" /\ r.type = "connect" /\ UNCHANGED currentServer
        BY <1>5, <1>9, <3>2 DEF ConnectReplied, Answers, Tells
      <4>2. ~shownConnected
        BY <1>1, <1>3, <1>5, <1>9, <4>1, Single DEF AskedForServer
      <4>3. shownConnected' <=> r.ok
        BY <3>2, <4>1, <4>2, Zenon DEF ConnectReplied
      <4> QED  BY <1>1, <1>4, <1>5, <4>1, <4>3, RealRests DEF Means, Tells
    <3>3. CASE DisconnectReplied(r)
      <4>1. q.type = "disconnect" /\ r.type = "disconnect"
        BY <1>5, <1>9, <3>3 DEF DisconnectReplied, Answers, Tells
      <4>2. ~shownConnected'
        BY <3>3, <4>1 DEF DisconnectReplied, StatusOfConnectField
      <4> QED  BY <1>1, <1>4, <1>5, <4>1, <4>2, RealRests DEF Means, Tells
    <3> QED  BY <1>11, <3>1, <3>2, <3>3
  <2>5. \A p \in Asked : inFlight' # <<p>>
    BY <2>1, Single
  <2> QED
    BY <1>4, <1>6, <2>1, <2>3, <2>4, <2>5 DEF OneRunInv, ShowsReal
\* The helper lives, so no error is dropped.
<1>12. ~Dropped(r)
  <2>1. Dropped(r) => r.type = "version" /\ q.type # "version"
    BY <1>9 DEF Dropped, ErrorReply, Reply
  <2> QED  BY <1>5, <2>1 DEF Tells
<1> QED  BY <1>4, <1>10, <1>11, <1>12 DEF Arrives, Handled

LEMMA AliveStep ==
    ASSUME Alone, AliveInv, [Next]_vars PROVE AliveInv'
<1>1. SessionInv' /\ SoloInv' /\ ServerInv'
  BY SessionStep, AliveSolo, AliveServer DEF AliveInv, ServerInv, SessionInv
<1>2. CASE UNCHANGED vars
  <2>1. UNCHANGED helperVars /\ UNCHANGED <<appVars, wires>>
    BY <1>2 DEF vars
  <2>2. OneStarted' /\ Rests
    BY <2>1, HelperStays DEF AliveInv
  <2>3. ShowsReal' /\ PendingFits'
    BY <2>1, <2>2, ShowsRests
  <2> QED  BY <1>1, <2>2, <2>3 DEF AliveInv
<1>3. CASE Next
  <2>1. OneRunInv'
    BY <1>3, AliveLaunches, AliveQuits, AliveUser, AliveReceives, AliveTakes, AliveReplies,
       AliveWorks, Survives
    DEF Next, HelperSide
  <2> QED  BY <1>1, <2>1 DEF AliveInv, OneRunInv
<1> QED  BY <1>2, <1>3

LEMMA AliveInvariance == Alone => (Spec => []AliveInv)
<1> SUFFICES ASSUME Alone PROVE Spec => []AliveInv
  OBVIOUS
<1>1. ASSUME Init PROVE AliveInv
  <2>1. SessionInv
    BY <1>1, SessionInit
  <2>2. ServerInv
    BY <1>1, AppInitInv
    DEF Init, AppInit, ServerInv, ConnectedServerIsFixed, AskedForServer
  <2>3. SoloInv
    BY <1>1, ThreadsInitInv, HeldInit, SoloInitInv DEF Init, SoloInv
  <2>4. OneStarted /\ Nothing
    BY <1>1
    DEF Init, HelperInit, ManagerInit, ThreadInit, OneStarted, Nothing, NoneStarted, Started,
        Dialling, ConnectSteps
  <2>5. PendingFits
    BY <1>1, Single DEF Init, PendingFits, Pending
  <2>6. ShowsReal
    BY <1>1, <2>4 DEF Init, AppInit, ShowsReal
  <2> QED  BY <2>1, <2>2, <2>3, <2>4, <2>5, <2>6 DEF AliveInv
<1>2. AliveInv /\ [Next]_vars => AliveInv'
  BY AliveStep
<1> QED  BY <1>1, <1>2, PTL DEF Spec

-----------------------------------------------------------------------------

\* In one run with a helper that stays alive, a connection that the application
\* shows while nothing is out is the helper's: its server, a started thread, and a
\* program or service that was started for that server
\* (ConnectViewController.m 165-168, 204-206; VPNConnectionManager.m 543-581, 705-796).
THEOREM ShownConnectionIsReal == Alone => (Spec => []ShownIsReal)
<1> SUFFICES ASSUME Alone PROVE Spec => []ShownIsReal
  OBVIOUS
<1>1. AliveInv => ShownIsReal
  <2> SUFFICES ASSUME AliveInv, Settled, shownConnected
               PROVE  /\ IsConnected
                      /\ connectedServer = currentServer
                      /\ Started(clientThread)
                      /\ dialled[clientThread] = currentServer
    BY DEF ShownIsReal
  <2>1. Real
    BY DEF Settled, AliveInv, ShowsReal
  <2>2. pc[peer] = "idle" /\ peer \in Callers
    BY Single DEF Settled, AliveInv, SessionInv, WiresInv, Pipeline
  <2>3. \A c \in Callers : pc[c] # "adopt"
    BY <2>2 DEF Alone, OnePeer
  <2> QED  BY <2>1, <2>3 DEF Real, AliveInv, SoloInv, Solo, Reports
<1> QED  BY <1>1, AliveInvariance, PTL

\* ... and when it shows none, nothing that was ever started still runs, except a
\* service whose stop failed (VPNConnectionManager.m 136-157, 445-475).
THEOREM ShownNoneIsDown == Alone => (Spec => []DisconnectedIsDown)
<1> SUFFICES ASSUME Alone PROVE Spec => []DisconnectedIsDown
  OBVIOUS
<1>1. AliveInv => DisconnectedIsDown
  <2> SUFFICES ASSUME AliveInv, Settled, ~shownConnected, NEW t \in Threads, Running(t)
               PROVE  StopFailed(t)
    BY DEF DisconnectedIsDown
  <2>1. NoneStarted
    BY DEF Settled, AliveInv, ShowsReal
  <2>2. pc[peer] = "idle" /\ peer \in Callers
    BY Single DEF Settled, AliveInv, SessionInv, WiresInv, Pipeline
  <2>3. \A c \in Callers : pc[c] = "idle"
    BY <2>2 DEF Alone, OnePeer
  <2>4. phase[t] # "free"
    BY DEF AliveInv, OneStarted, Running
  <2>5. RunningTunnelIsHeld
    BY DEF AliveInv, SessionInv, SoloInv, Held
  <2> QED  BY <2>1, <2>3, <2>4, <2>5 DEF NoneStarted, RunningTunnelIsHeld, StopFailed
<1> QED  BY <1>1, AliveInvariance, PTL

\* The application never gets the helper to run two tunnels at once, except for
\* services whose stop failed: every other running tunnel is that of the manager's
\* thread (VPNConnectionManager.m 436-793, ConnectViewController.m 141-246).
THEOREM RunsOneTunnel == Alone => (Spec => []OneTunnel)
<1> SUFFICES ASSUME Alone PROVE Spec => []OneTunnel
  OBVIOUS
<1>1. AliveInv => OneTunnel
  <2> SUFFICES ASSUME AliveInv PROVE OneTunnel
    OBVIOUS
  <2> DEFINE Up == {t \in Threads : Running(t) /\ ~StopFailed(t)}
  <2>1. ASSUME NEW t \in Up PROVE t = clientThread
    <3>1. Running(t) /\ RunningTunnelIsHeld /\ phase[t] # "free"
      BY DEF AliveInv, SessionInv, SoloInv, Held, OneStarted, Running
    <3>2. CASE Started(t)
      BY <3>2 DEF AliveInv, OneStarted
    <3>3. ASSUME NEW c \in Callers, attempt[c] = t,
                 pc[c] \in {"poll", "checkRunning", "decided", "runLoop", "start"}
          PROVE  t = clientThread
      BY <3>3 DEF AliveInv, SoloInv, Solo, Connecting, Dialling, BlockRuns
    <3> QED  BY <3>1, <3>2, <3>3 DEF RunningTunnelIsHeld, StopFailed
  <2>2. Up \subseteq {clientThread}
    BY <2>1
  <2>3. IsFiniteSet({clientThread}) /\ Cardinality({clientThread}) = 1
    BY FS_Singleton
  <2>4. IsFiniteSet(Up) /\ Cardinality(Up) <= 1
    BY <2>2, <2>3, FS_Subset
  <2> QED  BY <2>4 DEF OneTunnel
<1> QED  BY <1>1, AliveInvariance, PTL
=============================================================================
