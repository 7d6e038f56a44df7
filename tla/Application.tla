---------------------------- MODULE Application ----------------------------
(***************************************************************************)
(* The whole application: the connect view and the delegate (App), the     *)
(* menu with the server list that lies over the view (ServerMenu), and the *)
(* object that holds the connection to the helper (XPCConnection).  The    *)
(* helper may answer anything, as in App.                                  *)
(***************************************************************************)
EXTENDS App, ServerMenu, XPCConnection

ASSUME ApplicationAssumption == ListOf \in [Protocols -> Seq(AppServers)]

VARIABLES
    upgrading,          \* the main thread is in SMJobBless, and handles nothing
    lateInvalid         \* history: connect ran before the INVALID of the cancelled connection

applicationVars == <<appVars, menuVars, xpcVars, upgrading, lateInvalid>>

ApplicationInit ==
    /\ AppInit /\ MenuInit /\ XPCInit
    /\ upgrading = FALSE
    /\ lateInvalid = FALSE

Launches ==
    /\ \E helper \in {"found", "installed", "missing"} :
          /\ Launch(helper)
          /\ XPCFresh(IF helper = "missing" THEN 0 ELSE 1)
    /\ MenuFresh
    /\ lateInvalid' = FALSE
    /\ UNCHANGED upgrading

Quits ==
    /\ Quit
    /\ UNCHANGED <<menuVars, xpcVars, upgrading, lateInvalid>>

\* The version is too old: the connection is cancelled before the helper is
\* replaced.
UpgradeBegins ==
    /\ running /\ inFlight # <<>> /\ Head(inFlight).type = "version"
    /\ Disconnect
    /\ upgrading' = TRUE
    /\ UNCHANGED <<appVars, menuVars, lateInvalid>>

\* The connect at the end of an upgrade.
Reconnects(ok) ==
    /\ Connect(ok)
    /\ lateInvalid' = (lateInvalid \/ dropped \cap valid # {})

\* The helper has been replaced and a new connection made; or the installation or the
\* connect failed, and nothing more is asked.
UpgradeEnds(r, done) ==
    /\ ~r.ok
    /\ VersionReplied(r, done)
    /\ \/ Reconnects(done)
       \/ ~done /\ UNCHANGED <<xpcVars, lateInvalid>>
    /\ upgrading' = FALSE
    /\ UNCHANGED menuVars

\* The other replies.
Replies ==
    /\ inFlight # <<>>
    /\ \/ NotParsed
       \/ \E r \in AppReplies(Head(inFlight).type) :
             \/ r.ok /\ VersionReplied(r, FALSE)
             \/ PathesReplied(r) \/ StatusReplied(r)
             \/ ConnectReplied(r) \/ DisconnectReplied(r)
    /\ UNCHANGED <<menuVars, xpcVars, upgrading, lateInvalid>>

InvalidComes ==
    /\ running
    /\ \E c \in valid : Invalid(c)
    /\ UNCHANGED <<appVars, menuVars, upgrading, lateInvalid>>

MenuOpens == MenuButtonClicked /\ MenuShown

\* A row of the table is clicked; the menu stays when the row is no more.
CellChangeSelected(row) ==
    /\ menuOpen
    /\ row \in DOMAIN table
    /\ IF Chosen(row) = {}
       THEN UNCHANGED appVars
       ELSE \E s \in Chosen(row) : OnServerSelected(s)
    /\ UNCHANGED menuVars

MenuActs ==
    /\ running
    /\ \/ menuOpen /\ (ReloadButtonClicked \/ \E p \in Protocols : ProtocolSelected(p))
       \/ \E q \in listRequests : ListAnswered(q)
       \/ ReloadData
    /\ UNCHANGED appVars

UserActsInView ==
    /\ \/ OnClose \/ ConnectButtonClicked
       \/ \E complete \in BOOLEAN : ControlTextDidChange(complete)
    /\ UNCHANGED menuVars

MainThread ==
    /\ \/ MenuOpens \/ MenuActs \/ UserActsInView
       \/ \E row \in DOMAIN table : CellChangeSelected(row)
    /\ UNCHANGED <<xpcVars, upgrading, lateInvalid>>

ApplicationNext ==
    \/ InvalidComes
    \/ IF upgrading
       THEN \E r \in AppReplies("version"), done \in BOOLEAN : UpgradeEnds(r, done)
       ELSE Launches \/ Quits \/ UpgradeBegins \/ Replies \/ MainThread

ApplicationSpec == ApplicationInit /\ [][ApplicationNext]_applicationVars

-----------------------------------------------------------------------------

\* The connection in use is never a cancelled one.  Each connection is released once, by
\* its own INVALID and by nothing else, and NULL never is, unless the upgrade connected
\* again before the INVALID of the connection it had cancelled: the handler then finds
\* the next connection in the variable, or NULL (XPCConnection.m:38-80, AppDelegate.m:81-97).
\* A live connection that became INVALID still counts as connected.
ConnectionIsHeld ==
    /\ isConnected => connection \in (1..made) \ dropped
    /\ ~lateInvalid =>
          \A c \in NoConnection..MaxConnections :
              releases[c] = IF c \in (1..made) \ valid THEN 1 ELSE 0

\* Whatever the menu and the connection do, the view and the delegate behave as
\* App says, so that what is proved of App holds here.
ViewIsApp == AppSpec
=============================================================================
