-------------------------------- MODULE App --------------------------------
(***************************************************************************)
(* The OneVPN application: AppDelegate's start-up chain (version, paths,   *)
(* status) and ConnectViewController, whose enabled controls decide which  *)
(* requests can be sent to the helper.  Everything runs on the main queue; *)
(* what interleaves are clicks, typing and the replies of the helper.      *)
(*                                                                         *)
(* A reply that carries no data (the connection broke) parses, in a        *)
(* release build, as an empty XPCResponse: type Version, version 0.0.  In  *)
(* a debug build it does not parse, and its completion is not called.      *)
(* Every other reply parses: both programs are built from one proto file.  *)
(***************************************************************************)
EXTENDS Sequences, Naturals

CONSTANTS AppServers, NoAppServer     \* what ServerInfo may name, and nil

ASSUME AppAssumption == NoAppServer \notin AppServers

VARIABLES
    running,            \* the application is running
    shownConnected,     \* ConnectViewController.connected
    currentServer,
    connectButton, menuButton, fields,      \* enabled controls
    menuOpen,           \* the menu view covers the controls
    credentials,        \* login and password are both saved and not empty
    inFlight,           \* requests whose reply the application has not seen
    broken,             \* history: a reply of this run was that of a broken connection
    told                \* history: the status was told, and no reply was dropped since

uiVars == <<shownConnected, currentServer, connectButton, menuButton, fields,
            menuOpen, credentials>>
history == <<broken, told>>
appVars == <<running, uiVars, inFlight, history>>

RequestTypes == {"version", "pathes", "status", "connect", "disconnect"}
Request(type, srv) == [type |-> type, server |-> srv]
Requests == [type : RequestTypes, server : AppServers \cup {NoAppServer}]

AppTypeOK ==
    /\ running \in BOOLEAN
    /\ shownConnected \in BOOLEAN
    /\ currentServer \in AppServers \cup {NoAppServer}
    /\ connectButton \in BOOLEAN
    /\ menuButton \in BOOLEAN
    /\ fields \in BOOLEAN
    /\ menuOpen \in BOOLEAN
    /\ credentials \in BOOLEAN
    /\ inFlight \in Seq(Requests)
    /\ broken \in BOOLEAN
    /\ told \in BOOLEAN

AppInit ==
    /\ running = FALSE
    /\ shownConnected = FALSE
    /\ currentServer = NoAppServer
    /\ connectButton = FALSE
    /\ menuButton = FALSE
    /\ fields = FALSE
    /\ menuOpen = FALSE
    /\ credentials \in BOOLEAN
    /\ inFlight = <<>>
    /\ broken = FALSE
    /\ told = FALSE

EmptyReply == [type |-> "version", ok |-> FALSE, server |-> NoAppServer]

Ask(type, srv) == inFlight' = Append(inFlight, Request(type, srv))

\* Reply r is processed: it answers the oldest request in flight.
Answers(type, r) ==
    /\ running /\ inFlight # <<>> /\ Head(inFlight).type = type
    /\ broken' = (broken \/ r.type # type)
    /\ told' = (told \/ (type = "status" /\ r.type = "status"))

\* The reply of a broken connection that does not parse.
NotParsed ==
    /\ running /\ inFlight # <<>>
    /\ inFlight' = Tail(inFlight)
    /\ broken' = TRUE
    /\ told' = FALSE
    /\ UNCHANGED <<running, uiVars>>

SetViewEnabled(enabled) == connectButton' = enabled /\ fields' = enabled

-----------------------------------------------------------------------------
\* AppDelegate.

\* viewDidLoad, then applicationDidFinishLaunching: an installed helper is asked
\* for its version, a freshly installed one is given the paths; without a helper
\* nothing is ever sent.
Launch(helper) ==
    /\ ~running
    /\ running' = TRUE
    /\ broken' = FALSE
    /\ told' = FALSE
    /\ shownConnected' = FALSE
    /\ currentServer' = NoAppServer
    /\ menuButton' = FALSE
    /\ menuOpen' = FALSE
    /\ SetViewEnabled(FALSE)
    /\ inFlight' = CASE helper = "found" -> <<Request("version", NoAppServer)>>
                     [] helper = "installed" -> <<Request("pathes", NoAppServer)>>
                     [] helper = "missing" -> <<>>
    /\ UNCHANGED credentials

\* checkVersion: an outdated helper is replaced first, which may fail.
VersionReplied(r, upgraded) ==
    /\ Answers("version", r)
    /\ inFlight' = IF r.type = "version" /\ (r.ok \/ upgraded)
                   THEN Append(Tail(inFlight), Request("pathes", NoAppServer))
                   ELSE Tail(inFlight)
    /\ UNCHANGED <<running, uiVars>>

PathesReplied(r) ==
    /\ Answers("pathes", r)
    /\ inFlight' = IF r.type = "pathes" /\ r.ok
                   THEN Append(Tail(inFlight), Request("status", NoAppServer))
                   ELSE Tail(inFlight)
    /\ UNCHANGED <<running, uiVars>>

\* The last window is closed.
Quit ==
    /\ running
    /\ running' = FALSE
    /\ inFlight' = <<>>
    /\ UNCHANGED <<uiVars, history>>

-----------------------------------------------------------------------------
\* ConnectViewController: replies.

\* Mutant: the whole reply is kept as the server.
StatusKeepsReply(r) ==
    /\ Answers("status", r)
    /\ inFlight' = Tail(inFlight)
    /\ shownConnected' = (r.type = "status" /\ r.ok)
    /\ currentServer' = r
    /\ menuButton' = (r.type = "status" /\ ~r.ok)
    /\ SetViewEnabled(r.type = "status" /\ r.ok)
    /\ UNCHANGED <<running, menuOpen, credentials>>

StatusReplied(r) ==
    /\ Answers("status", r)
    /\ inFlight' = Tail(inFlight)
    /\ IF r.type = "status"
       THEN /\ shownConnected' = r.ok
            /\ currentServer' = IF r.ok THEN r.server ELSE currentServer
            /\ menuButton' = ~r.ok
            /\ SetViewEnabled(r.ok)
       ELSE UNCHANGED <<shownConnected, currentServer, menuButton, connectButton, fields>>
    /\ UNCHANGED <<running, menuOpen, credentials>>

\* Mutant: the menu button comes back in any case, as a commented line does.
MenuAfterConnect(r) ==
    /\ Answers("connect", r)
    /\ inFlight' = Tail(inFlight)
    /\ shownConnected' = (shownConnected \/ (r.type = "connect" /\ r.ok))
    /\ menuButton' = TRUE
    /\ SetViewEnabled(TRUE)
    /\ UNCHANGED <<running, currentServer, menuOpen, credentials>>

\* Mutant: the menu button stays disabled after a failure too.
MenuStaysDisabled(r) ==
    /\ Answers("connect", r)
    /\ inFlight' = Tail(inFlight)
    /\ shownConnected' = (shownConnected \/ (r.type = "connect" /\ r.ok))
    /\ SetViewEnabled(TRUE)
    /\ UNCHANGED <<running, currentServer, menuButton, menuOpen, credentials>>

ConnectReplied(r) ==
    /\ Answers("connect", r)
    /\ inFlight' = Tail(inFlight)
    /\ shownConnected' = (shownConnected \/ (r.type = "connect" /\ r.ok))
    /\ menuButton' = (menuButton \/ (r.type = "connect" /\ ~r.ok))
    /\ SetViewEnabled(TRUE)
    /\ UNCHANGED <<running, currentServer, menuOpen, credentials>>

\* The status is read from the reply's connect field, which a disconnect reply
\* does not carry: an empty ConnectResponse, status Ok.
StatusOfConnectField(r) == IF r.type = "connect" THEN r.ok ELSE TRUE

DisconnectReplied(r) ==
    /\ Answers("disconnect", r)
    /\ inFlight' = Tail(inFlight)
    /\ shownConnected' =
          (shownConnected /\ ~(r.type = "disconnect" /\ StatusOfConnectField(r)))
    /\ menuButton' = TRUE
    /\ SetViewEnabled(TRUE)
    /\ UNCHANGED <<running, currentServer, menuOpen, credentials>>

-----------------------------------------------------------------------------
\* ConnectViewController: the user.  The menu lies over the controls, which are
\* disabled meanwhile.

MenuButtonClicked ==
    /\ running
    /\ menuButton
    /\ menuOpen' = TRUE
    /\ SetViewEnabled(FALSE)
    /\ UNCHANGED <<running, history, shownConnected, currentServer, menuButton, credentials,
                   inFlight>>

OnClose ==
    /\ running
    /\ menuOpen
    /\ menuOpen' = FALSE
    /\ SetViewEnabled(TRUE)
    /\ UNCHANGED <<running, history, shownConnected, currentServer, menuButton, credentials,
                   inFlight>>

OnServerSelected(s) ==
    /\ running
    /\ menuOpen
    /\ currentServer' = s
    /\ menuOpen' = FALSE
    /\ SetViewEnabled(TRUE)
    /\ UNCHANGED <<running, history, shownConnected, menuButton, credentials, inFlight>>

\* Every keystroke saves the field and decides whether the button is enabled, for
\* connecting and disconnecting alike.
ControlTextDidChange(complete) ==
    /\ running
    /\ fields
    /\ credentials' = complete
    /\ connectButton' = (complete /\ currentServer # NoAppServer)
    /\ UNCHANGED <<running, history, shownConnected, currentServer, menuButton, fields, menuOpen,
                   inFlight>>

\* Mutant: the menu stays available while the request is out.
ClickKeepsMenu ==
    /\ running
    /\ connectButton
    /\ IF shownConnected
       THEN Ask("disconnect", NoAppServer) /\ SetViewEnabled(FALSE)
       ELSE IF currentServer # NoAppServer
            THEN Ask("connect", currentServer) /\ SetViewEnabled(FALSE)
            ELSE UNCHANGED <<inFlight, connectButton, fields>>
    /\ UNCHANGED <<running, history, shownConnected, currentServer, menuButton, menuOpen,
                   credentials>>

\* One button for both; without a server the click does nothing.
ConnectButtonClicked ==
    /\ running
    /\ connectButton
    /\ shownConnected \/ currentServer # NoAppServer
    /\ IF shownConnected THEN Ask("disconnect", NoAppServer) ELSE Ask("connect", currentServer)
    /\ menuButton' = FALSE
    /\ SetViewEnabled(FALSE)
    /\ UNCHANGED <<running, history, shownConnected, currentServer, menuOpen, credentials>>

UserStep ==
    \/ MenuButtonClicked \/ OnClose \/ ConnectButtonClicked
    \/ \E s \in AppServers : OnServerSelected(s)
    \/ \E complete \in BOOLEAN : ControlTextDidChange(complete)

-----------------------------------------------------------------------------
\* The application on its own, with any helper: each request gets a reply of its
\* type or, when the connection broke, an empty one.

AppReplies(type) ==
    [type : {type}, ok : BOOLEAN, server : AppServers] \cup {EmptyReply}

Replied ==
    /\ inFlight # <<>>
    /\ \E r \in AppReplies(Head(inFlight).type) :
          \/ \E upgraded \in BOOLEAN : VersionReplied(r, upgraded)
          \/ PathesReplied(r) \/ StatusReplied(r)
          \/ ConnectReplied(r) \/ DisconnectReplied(r)

AppNext ==
    \/ \E helper \in {"found", "installed", "missing"} : Launch(helper)
    \/ Quit
    \/ UserStep
    \/ Replied
    \/ NotParsed

AppSpec == AppInit /\ [][AppNext]_appVars

-----------------------------------------------------------------------------

\* The helper is never asked two things at once: while a request is out, no
\* control that could send another or change its server is enabled, and no menu
\* is open that could enable them again (ConnectViewController.m:92-95, 141-246).
OneRequestAtATime ==
    /\ Len(inFlight) <= 1
    /\ running /\ inFlight # <<>> =>
          ~connectButton /\ ~menuButton /\ ~fields /\ ~menuOpen

\* What is shown as connected is a server, and the server cannot be changed under
\* it: the menu is closed and stays unavailable until a disconnect is answered
\* (111-121, 186, 204-213, 235-246), as long as the connection to the helper does not break.
ConnectedServerIsFixed ==
    running /\ shownConnected /\ ~broken =>
        /\ currentServer # NoAppServer
        /\ ~menuOpen
        /\ ~menuButton

\* Once the helper has answered the status, the user is never left without a
\* control, and while the connection to it does not break it is one that leads on:
\* connected there is the button or the fields that enable it, otherwise the menu
\* (111-121, 161-175, 204-246).
UserHasControl ==
    running /\ told /\ inFlight = <<>> =>
        /\ connectButton \/ fields \/ menuButton \/ menuOpen
        /\ ~broken => IF shownConnected THEN connectButton \/ fields ELSE menuButton \/ menuOpen
=============================================================================
