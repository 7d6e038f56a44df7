------------------------------ MODULE AppProofs ------------------------------
(***************************************************************************)
(* What holds of the application for every set of servers: the controls    *)
(* keep a second request from being sent, and a shown connection from      *)
(* losing its server.                                                      *)
(***************************************************************************)
EXTENDS App, SequenceTheorems, TLAPS

\* The only request in flight has been answered: nothing is out any more.
LEMMA LastAnswered ==
    ASSUME NEW S, NEW s \in Seq(S), s # <<>>, Len(s) <= 1
    PROVE  Tail(s) = <<>>
<1>1. Tail(s) \in Seq(S) /\ Len(Tail(s)) = Len(s) - 1
  BY HeadTailProperties
<1>2. Len(Tail(s)) \in Nat /\ Len(s) \in Nat
  BY <1>1, LenProperties
<1>3. Len(Tail(s)) = 0
  BY <1>1, <1>2
<1> QED  BY <1>1, <1>3, EmptySeq

LEMMA RequestTyped ==
    ASSUME NEW type \in RequestTypes, NEW srv \in AppServers \cup {NoAppServer}
    PROVE  Request(type, srv) \in Requests
  BY DEF Request, Requests

\* At most one request is out when there is none, or when one has been asked.
LEMMA NoneOut == <<>> \in Seq(Requests) /\ Len(<<>>) <= 1
  BY EmptySeq

LEMMA OneOut ==
    ASSUME NEW e \in Requests
    PROVE  Append(<<>>, e) \in Seq(Requests) /\ Len(Append(<<>>, e)) <= 1
<1>1. Append(<<>>, e) = <<e>>
  OBVIOUS
<1> QED  BY <1>1

-----------------------------------------------------------------------------

\* The strengthening: nothing is out when the application does not run, and an
\* open menu covers disabled controls.
AppInv ==
    /\ AppTypeOK
    /\ OneRequestAtATime
    /\ ~running => inFlight = <<>>
    /\ menuOpen => ~connectButton /\ ~fields

LEMMA AppInitInv == AppInit => AppInv
<1> SUFFICES ASSUME AppInit PROVE AppInv
  OBVIOUS
<1>1. inFlight = <<>> /\ inFlight \in Seq(Requests) /\ Len(inFlight) <= 1
  BY NoneOut DEF AppInit
<1>2. AppTypeOK
  BY <1>1, Zenon DEF AppInit, AppTypeOK
<1> QED  BY <1>1, <1>2, Zenon DEF AppInit, AppInv, OneRequestAtATime

\* What a reply r may be.
LEMMA ReplyTyped ==
    ASSUME NEW type \in RequestTypes, NEW r \in AppReplies(type)
    PROVE  r.ok \in BOOLEAN /\ (r.type = "status" => r.server \in AppServers)
<1>1. CASE r \in [type : {type}, ok : BOOLEAN, server : AppServers]
  BY <1>1
<1>2. CASE r = EmptyReply
  BY <1>2 DEF EmptyReply
<1> QED  BY <1>1, <1>2 DEF AppReplies

\* As much of a reply as the handlers read, and the handler that reads it.
TypedReply(r) ==
    r.ok \in BOOLEAN /\ (r.type = "status" => r.server \in AppServers \cup {NoAppServer})

Handled(r) ==
    \/ \E upgraded \in BOOLEAN : VersionReplied(r, upgraded)
    \/ PathesReplied(r) \/ StatusReplied(r)
    \/ ConnectReplied(r) \/ DisconnectReplied(r)

\* A reply leaves at most the next question of the start-up chain in flight.
LEMMA ReplyHandled ==
    ASSUME AppInv, inFlight # <<>>, NEW r, TypedReply(r), Handled(r)
    PROVE  AppInv'
<1> USE DEF AppInv
<1>1. inFlight \in Seq(Requests) /\ inFlight # <<>> /\ Len(inFlight) <= 1
  BY Zenon DEF AppTypeOK, OneRequestAtATime
<1>2. Tail(inFlight) = <<>>
  BY <1>1, LastAnswered
<1>4. Handled(r)
  OBVIOUS
<1> USE DEF Handled
<1>5. r.ok \in BOOLEAN /\ (r.type = "status" => r.server \in AppServers \cup {NoAppServer})
  BY DEF TypedReply
<1>6. running /\ ~connectButton /\ ~menuButton /\ ~fields /\ ~menuOpen
  BY <1>1, <1>4
  DEF OneRequestAtATime, Answers, VersionReplied, PathesReplied, StatusReplied,
      ConnectReplied, DisconnectReplied
<1>0. broken' \in BOOLEAN /\ told' \in BOOLEAN
  BY <1>4, Zenon
  DEF AppTypeOK, Answers, VersionReplied, PathesReplied, StatusReplied, ConnectReplied,
      DisconnectReplied
<1>7. ASSUME NEW upgraded \in BOOLEAN, VersionReplied(r, upgraded) PROVE AppInv'
  <2>1. Request("pathes", NoAppServer) \in Requests
    BY RequestTyped DEF RequestTypes
  <2>2. inFlight' = <<>> \/ inFlight' = Append(<<>>, Request("pathes", NoAppServer))
    BY <1>2, <1>7 DEF VersionReplied
  <2>3. inFlight' \in Seq(Requests) /\ Len(inFlight') <= 1
    BY <2>1, <2>2, NoneOut, OneOut
  <2> QED  BY <1>0, <1>6, <1>7, <2>3 DEF VersionReplied, AppTypeOK, OneRequestAtATime, uiVars
<1>8. ASSUME PathesReplied(r) PROVE AppInv'
  <2>1. Request("status", NoAppServer) \in Requests
    BY RequestTyped DEF RequestTypes
  <2>2. inFlight' = <<>> \/ inFlight' = Append(<<>>, Request("status", NoAppServer))
    BY <1>2, <1>8 DEF PathesReplied
  <2>3. inFlight' \in Seq(Requests) /\ Len(inFlight') <= 1
    BY <2>1, <2>2, NoneOut, OneOut
  <2> QED  BY <1>0, <1>6, <1>8, <2>3 DEF PathesReplied, AppTypeOK, OneRequestAtATime, uiVars
<1>9. ASSUME StatusReplied(r) \/ ConnectReplied(r) \/ DisconnectReplied(r) PROVE AppInv'
  <2>0. inFlight' = <<>>
    BY <1>2, <1>9, Zenon DEF StatusReplied, ConnectReplied, DisconnectReplied
  <2>1. inFlight' = <<>> /\ inFlight' \in Seq(Requests) /\ Len(inFlight') <= 1
    BY <2>0, NoneOut
  <2>2. AppTypeOK'
    BY <1>0, <1>5, <1>6, <1>9, <2>1
    DEF AppTypeOK, StatusReplied, ConnectReplied, DisconnectReplied, SetViewEnabled
  <2>3. ~menuOpen'
    BY <1>6, <1>9, Zenon DEF StatusReplied, ConnectReplied, DisconnectReplied
  <2> QED  BY <2>1, <2>2, <2>3 DEF OneRequestAtATime
<1> QED  BY <1>4, <1>7, <1>8, <1>9

\* A reply of any helper is typed.
LEMMA ReplyArrives ==
    ASSUME AppInv, Replied
    PROVE  /\ inFlight # <<>>
           /\ \E r : /\ r.ok \in BOOLEAN
                     /\ r.type = "status" => r.server \in AppServers
                     /\ Handled(r)
<1>1. inFlight # <<>> /\ Head(inFlight).type \in RequestTypes
  <2>1. inFlight \in Seq(Requests) /\ inFlight # <<>>
    BY Zenon DEF Replied, AppInv, AppTypeOK
  <2>2. Head(inFlight) \in Requests
    BY <2>1, HeadTailProperties
  <2> QED  BY <2>1, <2>2 DEF Requests
<1>2. PICK r \in AppReplies(Head(inFlight).type) : Handled(r)
  BY DEF Replied, Handled
<1> QED  BY <1>1, <1>2, ReplyTyped

LEMMA ReplyStep ==
    ASSUME AppInv, Replied PROVE AppInv'
  BY ReplyArrives, ReplyHandled DEF TypedReply

\* A click that asks something finds nothing in flight and disables everything.
LEMMA UserStepInv ==
    ASSUME AppInv, UserStep PROVE AppInv'
<1> USE DEF AppInv
<1>1. ASSUME ConnectButtonClicked PROVE AppInv'
  <2>1. inFlight = <<>> /\ ~menuOpen
    BY <1>1 DEF ConnectButtonClicked, OneRequestAtATime
  <2>2. PICK e \in Requests : inFlight' = Append(<<>>, e)
    <3>1. CASE shownConnected
      BY <1>1, <2>1, <3>1, RequestTyped DEF ConnectButtonClicked, Ask, RequestTypes
    <3>2. CASE ~shownConnected
      BY <1>1, <2>1, <3>2, RequestTyped DEF ConnectButtonClicked, Ask, RequestTypes, AppTypeOK
    <3> QED  BY <3>1, <3>2
  <2>3. inFlight' \in Seq(Requests) /\ Len(inFlight') <= 1
    BY <2>2, OneOut
  <2> QED
    BY <1>1, <2>1, <2>3 DEF ConnectButtonClicked, SetViewEnabled, history, AppTypeOK,
                            OneRequestAtATime
<1>2. ASSUME MenuButtonClicked \/ OnClose PROVE AppInv'
  BY <1>2 DEF MenuButtonClicked, OnClose, SetViewEnabled, history, AppTypeOK, OneRequestAtATime
<1>3. ASSUME NEW s \in AppServers, OnServerSelected(s) PROVE AppInv'
  BY <1>3 DEF OnServerSelected, SetViewEnabled, history, AppTypeOK, OneRequestAtATime
<1>4. ASSUME NEW complete \in BOOLEAN, ControlTextDidChange(complete) PROVE AppInv'
  BY <1>4 DEF ControlTextDidChange, history, AppTypeOK, OneRequestAtATime
<1> QED  BY <1>1, <1>2, <1>3, <1>4 DEF UserStep

LEMMA AppInvStep ==
    ASSUME AppInv, [AppNext]_appVars PROVE AppInv'
<1>1. ASSUME NEW helper \in {"found", "installed", "missing"}, Launch(helper) PROVE AppInv'
  <2>1. inFlight' \in Seq(Requests) /\ Len(inFlight') <= 1
    BY <1>1, RequestTyped DEF Launch, RequestTypes
  <2> QED
    BY <1>1, <2>1 DEF Launch, AppInv, AppTypeOK, OneRequestAtATime, SetViewEnabled
<1>2. ASSUME Quit PROVE AppInv'
  <2>1. inFlight' = <<>> /\ inFlight' \in Seq(Requests) /\ Len(inFlight') <= 1
    BY <1>2, NoneOut DEF Quit
  <2> QED  BY <1>2, <2>1 DEF Quit, AppInv, AppTypeOK, OneRequestAtATime, uiVars, history
<1>3. CASE UNCHANGED appVars
  BY <1>3 DEF appVars, uiVars, history, AppInv, AppTypeOK, OneRequestAtATime
<1>4. ASSUME NotParsed PROVE AppInv'
  <2>1. Tail(inFlight) = <<>>
    BY <1>4, LastAnswered, Zenon DEF NotParsed, AppInv, AppTypeOK, OneRequestAtATime
  <2>2. inFlight' = <<>> /\ inFlight' \in Seq(Requests) /\ Len(inFlight') <= 1
    BY <1>4, <2>1, NoneOut DEF NotParsed
  <2> QED  BY <1>4, <2>2 DEF NotParsed, uiVars, AppInv, AppTypeOK, OneRequestAtATime
<1> QED  BY <1>1, <1>2, <1>3, <1>4, ReplyStep, UserStepInv DEF AppNext

LEMMA AppInvariance == AppSpec => []AppInv
  BY AppInitInv, AppInvStep, PTL DEF AppSpec

-----------------------------------------------------------------------------

\* The application never asks the helper two things at once, whatever the helper
\* answers and whether or not the connection breaks (ConnectViewController.m
\* 141-246, AppDelegate.m 34-168).
THEOREM OneRequest == AppSpec => []OneRequestAtATime
<1>1. AppInv => OneRequestAtATime
  BY DEF AppInv
<1> QED  BY <1>1, AppInvariance, PTL

\* Every field of the application keeps its type; what is shown as the server is
\* always a server or nil (ConnectViewController.m 115-116, 240-241).
THEOREM AppTyping == AppSpec => []AppTypeOK
<1>1. AppInv => AppTypeOK
  BY DEF AppInv
<1> QED  BY <1>1, AppInvariance, PTL

-----------------------------------------------------------------------------
\* The server of a shown connection, while the connection to the helper holds.

\* A connect in flight was asked for a server, while nothing was shown connected.
AskedForServer ==
    inFlight # <<>> /\ Head(inFlight).type = "connect" /\ ~broken =>
        ~shownConnected /\ currentServer # NoAppServer

ServerInv == AppInv /\ ConnectedServerIsFixed /\ AskedForServer

LEMMA ServerReplyHandled ==
    ASSUME ServerInv, inFlight # <<>>, NEW r, r.ok \in BOOLEAN,
           r.type = "status" /\ r.ok => r.server \in AppServers,
           Handled(r)
    PROVE  ConnectedServerIsFixed' /\ AskedForServer'
<1>1. AppInv /\ ConnectedServerIsFixed /\ AskedForServer
  BY DEF ServerInv
<1>2. inFlight \in Seq(Requests) /\ inFlight # <<>> /\ Len(inFlight) <= 1
  BY <1>1, Zenon DEF AppInv, AppTypeOK, OneRequestAtATime
<1>3. Tail(inFlight) = <<>>
  BY <1>2, LastAnswered
<1>4. Handled(r)
  OBVIOUS
<1> USE DEF Handled
<1> DEFINE asked == Head(inFlight).type
<1>a. broken' = (broken \/ r.type # asked)
  BY <1>4
  DEF Answers, VersionReplied, PathesReplied, StatusReplied, ConnectReplied, DisconnectReplied
<1>b. CASE broken'
  BY <1>b DEF ConnectedServerIsFixed, AskedForServer
<1>c. SUFFICES ASSUME ~broken' PROVE ConnectedServerIsFixed' /\ AskedForServer'
  BY <1>b
<1>d. ~broken /\ r.type = asked
  BY <1>a, <1>c
<1>6. running /\ ~menuButton /\ ~menuOpen
  BY <1>1, <1>2, <1>4
  DEF AppInv, OneRequestAtATime, Answers, VersionReplied, PathesReplied, StatusReplied,
      ConnectReplied, DisconnectReplied
<1>7. ASSUME NEW upgraded \in BOOLEAN, VersionReplied(r, upgraded) \/ PathesReplied(r)
      PROVE  ConnectedServerIsFixed' /\ AskedForServer'
  <2>0. \/ inFlight' = <<>>
        \/ inFlight' = Append(<<>>, Request("pathes", NoAppServer))
        \/ inFlight' = Append(<<>>, Request("status", NoAppServer))
    BY <1>3, <1>7 DEF VersionReplied, PathesReplied
  <2>1. ASSUME NEW type \in {"pathes", "status"}
        PROVE  Head(Append(<<>>, Request(type, NoAppServer))).type # "connect"
    <3>1. Append(<<>>, Request(type, NoAppServer)) = <<Request(type, NoAppServer)>>
      OBVIOUS
    <3> QED  BY <3>1 DEF Request
  <2>2. inFlight' # <<>> => Head(inFlight').type # "connect"
    BY <2>0, <2>1
  <2>3. UNCHANGED <<running, uiVars>>
    BY <1>7, Zenon DEF VersionReplied, PathesReplied
  <2>4. ConnectedServerIsFixed'
    BY <1>1, <1>d, <2>3 DEF uiVars, ConnectedServerIsFixed
  <2> QED  BY <2>2, <2>4 DEF AskedForServer
<1>8. ASSUME StatusReplied(r) PROVE ConnectedServerIsFixed' /\ AskedForServer'
  <2>1. inFlight' = <<>> /\ r.type = "status"
    BY <1>3, <1>d, <1>8 DEF StatusReplied, Answers
  <2>2. r.ok => r.server # NoAppServer
    BY <2>1, AppAssumption
  <2> QED
    BY <1>6, <1>8, <2>1, <2>2 DEF StatusReplied, ConnectedServerIsFixed, AskedForServer
<1>9. ASSUME ConnectReplied(r) PROVE ConnectedServerIsFixed' /\ AskedForServer'
  <2>1. inFlight' = <<>> /\ r.type = "connect" /\ Head(inFlight).type = "connect"
    BY <1>3, <1>d, <1>9 DEF ConnectReplied, Answers
  <2>2. ~shownConnected /\ currentServer # NoAppServer
    BY <1>1, <1>2, <1>d, <2>1 DEF AskedForServer
  <2> QED
    BY <1>6, <1>9, <2>1, <2>2 DEF ConnectReplied, ConnectedServerIsFixed, AskedForServer
<1>10. ASSUME DisconnectReplied(r) PROVE ConnectedServerIsFixed' /\ AskedForServer'
  <2>1. inFlight' = <<>> /\ r.type = "disconnect"
    BY <1>3, <1>d, <1>10 DEF DisconnectReplied, Answers
  <2>2. ~shownConnected'
    BY <1>10, <2>1 DEF DisconnectReplied, StatusOfConnectField
  <2> QED  BY <2>1, <2>2 DEF ConnectedServerIsFixed, AskedForServer
<1> QED  BY <1>4, <1>7, <1>8, <1>9, <1>10

LEMMA ServerReplyStep ==
    ASSUME ServerInv, Replied
    PROVE  ConnectedServerIsFixed' /\ AskedForServer'
  BY ReplyArrives, ServerReplyHandled DEF ServerInv

LEMMA ServerInvStep ==
    ASSUME ServerInv, [AppNext]_appVars PROVE ServerInv'
<1>0. AppInv /\ AppInv' /\ ConnectedServerIsFixed /\ AskedForServer
  BY AppInvStep DEF ServerInv
<1>1. ASSUME NEW helper \in {"found", "installed", "missing"}, Launch(helper)
      PROVE  ConnectedServerIsFixed' /\ AskedForServer'
  <2>1. ~shownConnected' /\ (inFlight' # <<>> => Head(inFlight').type # "connect")
    BY <1>1 DEF Launch, Request
  <2> QED  BY <2>1 DEF ConnectedServerIsFixed, AskedForServer
<1>2. ASSUME Quit PROVE ConnectedServerIsFixed' /\ AskedForServer'
  BY <1>2 DEF Quit, ConnectedServerIsFixed, AskedForServer
<1>3. ASSUME ConnectButtonClicked PROVE ConnectedServerIsFixed' /\ AskedForServer'
  <2>1. inFlight = <<>> /\ ~menuOpen
    BY <1>0, <1>3 DEF ConnectButtonClicked, AppInv, OneRequestAtATime
  <2>2. PICK e : /\ inFlight' = Append(<<>>, e)
                 /\ e.type = "connect" => ~shownConnected /\ currentServer # NoAppServer
    BY <1>3, <2>1 DEF ConnectButtonClicked, Ask, Request
  <2>3. Append(<<>>, e) = <<e>> /\ Head(<<e>>) = e
    OBVIOUS
  <2> QED
    BY <1>0, <1>3, <2>1, <2>2, <2>3
    DEF ConnectButtonClicked, history, ConnectedServerIsFixed, AskedForServer
<1>4. ASSUME MenuButtonClicked \/ OnClose \/ (\E s \in AppServers : OnServerSelected(s))
      PROVE  ConnectedServerIsFixed' /\ AskedForServer'
  <2>1. inFlight = <<>> /\ inFlight' = <<>>
    BY <1>0, <1>4, Zenon
    DEF MenuButtonClicked, OnClose, OnServerSelected, AppInv, OneRequestAtATime
  <2>2. broken' \/ ~shownConnected'
    BY <1>0, <1>4, Zenon
    DEF MenuButtonClicked, OnClose, OnServerSelected, history, ConnectedServerIsFixed
  <2> QED  BY <2>1, <2>2 DEF ConnectedServerIsFixed, AskedForServer
<1>5. ASSUME NEW complete \in BOOLEAN, ControlTextDidChange(complete)
      PROVE  ConnectedServerIsFixed' /\ AskedForServer'
  BY <1>0, <1>5, Zenon DEF ControlTextDidChange, history, ConnectedServerIsFixed, AskedForServer
<1>6. CASE UNCHANGED appVars
  BY <1>0, <1>6, Zenon
  DEF appVars, uiVars, history, ConnectedServerIsFixed, AskedForServer, ServerInv
<1>7. ASSUME NotParsed PROVE ConnectedServerIsFixed' /\ AskedForServer'
  BY <1>7, Zenon DEF NotParsed, ConnectedServerIsFixed, AskedForServer
<1> QED
  BY <1>0, <1>1, <1>2, <1>3, <1>4, <1>5, <1>6, <1>7, ServerReplyStep
  DEF AppNext, UserStep, ServerInv

\* While the connection to the helper does not break, the server of a shown
\* connection cannot be changed: the menu is closed and stays unavailable until a
\* disconnect is answered (ConnectViewController.m 111-121, 186, 204-213).
THEOREM ServerIsFixed == AppSpec => []ConnectedServerIsFixed
<1>1. AppInit => ServerInv
  BY AppInitInv DEF AppInit, ServerInv, ConnectedServerIsFixed, AskedForServer
<1>2. ServerInv /\ [AppNext]_appVars => ServerInv'
  BY ServerInvStep
<1>3. ServerInv => ConnectedServerIsFixed
  BY DEF ServerInv
<1> QED  BY <1>1, <1>2, <1>3, PTL DEF AppSpec
-----------------------------------------------------------------------------
\* The controls left to the user.

\* An open menu was opened with the menu button, which stays enabled under it, and
\* covers disabled controls; what is asked after the status was told, the user asks.
AskedByUser ==
    told /\ inFlight # <<>> => Head(inFlight).type \in {"connect", "disconnect"}

Controls == UserHasControl /\ (menuOpen => menuButton) /\ AskedByUser

ControlInv == ServerInv /\ Controls

LEMMA ControlReplyHandled ==
    ASSUME ControlInv, inFlight # <<>>, NEW r, r.ok \in BOOLEAN, Handled(r)
    PROVE  Controls'
<1>0. inFlight \in Seq(Requests) /\ Tail(inFlight) = <<>>
  BY LastAnswered, Zenon DEF ControlInv, ServerInv, AppInv, AppTypeOK, OneRequestAtATime
<1>1. AppInv /\ AskedForServer
  BY DEF ControlInv, ServerInv
<1>2. inFlight # <<>>
  OBVIOUS
<1>3. Handled(r)
  OBVIOUS
<1> USE DEF Handled
<1>4. ~menuButton /\ ~fields /\ ~menuOpen
  BY <1>1, <1>2, <1>3
  DEF AppInv, OneRequestAtATime, Answers, VersionReplied, PathesReplied, StatusReplied,
      ConnectReplied, DisconnectReplied
<1>5. UNCHANGED menuOpen
  BY <1>3 DEF uiVars, VersionReplied, PathesReplied, StatusReplied, ConnectReplied,
              DisconnectReplied
<1>6. CASE \/ \E upgraded \in BOOLEAN : VersionReplied(r, upgraded)
           \/ PathesReplied(r)
  <2>1. Head(inFlight).type \in {"version", "pathes"} /\ UNCHANGED uiVars /\ (told' => told)
    BY <1>6 DEF VersionReplied, PathesReplied, Answers
  <2>2. ~told'
    BY <1>2, <2>1 DEF ControlInv, Controls, AskedByUser
  <2> QED  BY <1>4, <2>1, <2>2 DEF uiVars, Controls, UserHasControl, AskedByUser
<1>7a. StatusReplied(r) \/ ConnectReplied(r) \/ DisconnectReplied(r) => inFlight' = <<>>
  BY <1>0, Zenon DEF StatusReplied, ConnectReplied, DisconnectReplied
<1>7. CASE StatusReplied(r)
  <2>1. r.type = "status" \/ ((told' => told) /\ Head(inFlight).type = "status")
    BY <1>7 DEF StatusReplied, Answers
  <2>2. r.type = "status" \/ ~told'
    BY <1>2, <2>1 DEF ControlInv, Controls, AskedByUser
  <2>3. inFlight' = <<>> /\ ~menuOpen'
    BY <1>4, <1>5, <1>7, <1>7a
  <2>4. CASE r.type = "status"
    <3>1. /\ shownConnected' <=> r.ok
          /\ menuButton' <=> ~r.ok
          /\ connectButton' <=> r.ok
      BY <1>7, <2>4, Zenon DEF StatusReplied, SetViewEnabled
    <3> QED  BY <2>3, <3>1, Zenon DEF Controls, UserHasControl, AskedByUser
  <2> QED  BY <2>2, <2>3, <2>4, Zenon DEF Controls, UserHasControl, AskedByUser
<1>8. CASE ConnectReplied(r)
  <2>1. r.type = "connect" \/ broken'
    BY <1>8 DEF ConnectReplied, Answers
  <2>2. fields' /\ (r.type = "connect" => shownConnected' \/ menuButton')
    BY <1>8 DEF ConnectReplied, SetViewEnabled
  <2> QED  BY <1>4, <1>5, <1>8, <1>7a, <2>1, <2>2 DEF Controls, UserHasControl, AskedByUser
<1>9. CASE DisconnectReplied(r)
  BY <1>4, <1>5, <1>9, <1>7a
  DEF DisconnectReplied, SetViewEnabled, Controls, UserHasControl, AskedByUser
<1> QED  BY <1>3, <1>4, <1>5, <1>6, <1>7, <1>8, <1>9

LEMMA ControlReplyStep ==
    ASSUME ControlInv, Replied
    PROVE  Controls'
  BY ReplyArrives, ControlReplyHandled DEF ControlInv, ServerInv

LEMMA ControlInvStep ==
    ASSUME ControlInv, [AppNext]_appVars PROVE ControlInv'
<1>0. AppInv /\ ConnectedServerIsFixed /\ ServerInv'
  BY ServerInvStep DEF ControlInv, ServerInv
<1> USE DEF ControlInv, Controls, UserHasControl, AskedByUser, SetViewEnabled, history
<1>1. CASE (\E helper \in {"found", "installed", "missing"} : Launch(helper)) \/ Quit
  BY <1>0, <1>1 DEF Launch, Quit, uiVars
<1>2. CASE MenuButtonClicked \/ OnClose \/ (\E s \in AppServers : OnServerSelected(s))
  BY <1>0, <1>2
  DEF MenuButtonClicked, OnClose, OnServerSelected, ConnectedServerIsFixed
<1>3. CASE ConnectButtonClicked
  <2>1. ~menuOpen /\ ~menuOpen' /\ ~menuButton'
    BY <1>0, <1>3 DEF ConnectButtonClicked, AppInv
  <2>2. inFlight = <<>>
    BY <1>0, <1>3 DEF ConnectButtonClicked, AppInv, OneRequestAtATime
  <2>3. PICK e : inFlight' = Append(<<>>, e) /\ e.type \in {"connect", "disconnect"}
    BY <1>3, <2>2 DEF ConnectButtonClicked, Ask, Request
  <2>4. Append(<<>>, e) = <<e>> /\ Head(<<e>>) = e /\ <<e>> # <<>>
    OBVIOUS
  <2> QED  BY <1>0, <2>1, <2>3, <2>4
<1>4. CASE \E complete \in BOOLEAN : ControlTextDidChange(complete)
  BY <1>0, <1>4 DEF ControlTextDidChange
<1>5. CASE UNCHANGED appVars
  BY <1>0, <1>5 DEF appVars, uiVars
<1>6. CASE NotParsed
  BY <1>0, <1>6 DEF NotParsed, uiVars
<1> QED
  BY <1>0, <1>1, <1>2, <1>3, <1>4, <1>5, <1>6, ControlReplyStep DEF AppNext, UserStep

\* Once the helper has told its status the user always has a control, whatever is
\* clicked, typed and answered, and while the connection does not break it is the one
\* that leads on (ConnectViewController.m 111-246).
THEOREM ControlIsLeft == AppSpec => []UserHasControl
<1>1. AppInit => ControlInv
  BY AppInitInv
  DEF AppInit, ControlInv, Controls, ServerInv, ConnectedServerIsFixed, AskedForServer,
      UserHasControl, AskedByUser
<1>2. ControlInv /\ [AppNext]_appVars => ControlInv'
  BY ControlInvStep
<1>3. ControlInv => UserHasControl
  BY DEF ControlInv, Controls
<1> QED  BY <1>1, <1>2, <1>3, PTL DEF AppSpec
=============================================================================
