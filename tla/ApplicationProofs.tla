------------------------- MODULE ApplicationProofs -------------------------
(***************************************************************************)
(* What holds of the whole application, for any servers, protocols and     *)
(* bounds: its view and delegate behave as App says, the list in the menu  *)
(* is the one asked for last, and the connection in use is held.           *)
(***************************************************************************)
EXTENDS Application, AppProofs

\* The menu's state: the rows are servers of the application, no reload is owed
\* when none is queued, and a request numbered as the last is for the protocol
\* selected.
MenuInv ==
    /\ protocol \in Protocols
    /\ listRequests \subseteq [number : Nat, protocol : Protocols]
    /\ servers \in Seq(AppServers) /\ table \in Seq(AppServers)
    /\ reloads \in Nat /\ requested \in Nat /\ applied \in Nat
    /\ TableIsCurrent
    /\ ListFollowsPopup
    /\ applied <= requested
    /\ \A q \in listRequests :
          q.number <= requested /\ (q.number = requested => q.protocol = protocol)

LEMMA EmptyMenu == <<>> \in Seq(AppServers)
OBVIOUS

LEMMA MenuInitInv == ApplicationInit => MenuInv
BY MenuAssumption, EmptyMenu
   DEF ApplicationInit, MenuInit, MenuInv, TableIsCurrent, ListFollowsPopup

LEMMA ListStep ==
    ASSUME MenuInv, NEW q, ListAnswered(q)
    PROVE  MenuInv'
<1> USE DEF MenuInv
<1>1. q \in listRequests /\ listRequests' = listRequests \ {q}
    BY DEF ListAnswered
<1>2. UNCHANGED <<menuLoaded, protocol, table, requested>>
    BY DEF ListAnswered
<1>3. q.protocol \in Protocols /\ q.number \in Nat
    BY <1>1
<1>4. ASSUME NEW list \in {<<>>, ListOf[q.protocol]}, Fill(q, list)
      PROVE  MenuInv'
    <2>1. list \in Seq(AppServers)
        BY <1>3, ApplicationAssumption, EmptyMenu
    <2>2. TableIsCurrent'
        BY <1>4 DEF Fill, TableIsCurrent
    <2>3. ListFollowsPopup'
        BY <1>1, <1>2, <1>4 DEF Fill, ListFollowsPopup
    <2> QED
        BY <1>1, <1>2, <1>3, <1>4, <2>1, <2>2, <2>3 DEF Fill
<1>5. CASE UNCHANGED <<servers, reloads, applied>>
    BY <1>1, <1>2, <1>5 DEF TableIsCurrent, ListFollowsPopup
<1> QED
    BY <1>4, <1>5 DEF ListAnswered

LEMMA RequestStep ==
    ASSUME MenuInv, NEW p \in Protocols, UpdateServersList(p), protocol' = p,
           UNCHANGED <<servers, table, reloads, applied>>
    PROVE  MenuInv'
<1> DEFINE new == [number |-> requested + 1, protocol |-> p]
<1>1. listRequests' = listRequests \cup {new} /\ requested' = requested + 1
    BY DEF UpdateServersList
<1>2. applied' < requested'
    BY <1>1 DEF MenuInv
<1> QED
    BY <1>1, <1>2 DEF MenuInv, TableIsCurrent, ListFollowsPopup

LEMMA MenuStep ==
    ASSUME MenuInv, [ApplicationNext]_applicationVars
    PROVE  MenuInv'
<1>1. CASE UNCHANGED menuVars
    BY <1>1 DEF menuVars, MenuInv, TableIsCurrent, ListFollowsPopup
<1>2. CASE MenuFresh
    BY <1>2, MenuAssumption, EmptyMenu DEF MenuFresh, MenuInv, TableIsCurrent, ListFollowsPopup
<1>3. CASE MenuShown
    <2>1. CASE ~menuLoaded
        BY <1>3, <2>1, RequestStep DEF MenuShown, MenuInv
    <2> QED
        BY <1>1, <1>3, <2>1 DEF MenuShown
<1>4. CASE MenuActs
    <2>1. CASE ReloadButtonClicked
        BY <2>1, RequestStep DEF ReloadButtonClicked, MenuInv
    <2>2. ASSUME NEW p \in Protocols, ProtocolSelected(p) PROVE MenuInv'
        BY <2>2, RequestStep DEF ProtocolSelected
    <2>3. ASSUME NEW q, ListAnswered(q) PROVE MenuInv'
        BY <2>3, ListStep
    <2>4. CASE ReloadData
        BY <2>4 DEF ReloadData, MenuInv, TableIsCurrent, ListFollowsPopup
    <2> QED
        BY <1>4, <2>1, <2>2, <2>3, <2>4 DEF MenuActs
<1>5. UNCHANGED menuVars \/ MenuFresh \/ MenuShown \/ MenuActs
    <2>1. CASE ApplicationNext
        BY <2>1 DEF ApplicationNext, InvalidComes, UpgradeEnds, Launches, Quits,
                    UpgradeBegins, Replies, MainThread, MenuOpens, UserActsInView,
                    CellChangeSelected
    <2> QED
        BY <2>1 DEF applicationVars
<1> QED
    BY <1>1, <1>2, <1>3, <1>4, <1>5

LEMMA MenuInvariance == ApplicationSpec => []MenuInv
BY MenuInitInv, MenuStep, PTL DEF ApplicationSpec

\* The rows of the table are what a click chooses, and the list is that of the
\* protocol selected, whatever the order of the answers (MenuViewController.m).
THEOREM TableShowsServers == ApplicationSpec => []TableIsCurrent
BY MenuInvariance, PTL DEF MenuInv

THEOREM ListIsSelected == ApplicationSpec => []ListFollowsPopup
BY MenuInvariance, PTL DEF MenuInv

-----------------------------------------------------------------------------
\* The menu and the connection leave the variables of App alone but for what App
\* allows.

LEMMA ViewStep ==
    ASSUME MenuInv, ApplicationNext
    PROVE  [AppNext]_appVars
<1>1. CASE InvalidComes
    BY <1>1 DEF InvalidComes
<1>2. ASSUME NEW r \in AppReplies("version"), NEW done \in BOOLEAN, UpgradeEnds(r, done)
      PROVE  AppNext
    <2>1. VersionReplied(r, done)
        BY <1>2 DEF UpgradeEnds
    <2>2. inFlight # <<>> /\ Head(inFlight).type = "version"
        BY <2>1 DEF VersionReplied, Answers
    <2> QED
        BY <2>1, <2>2 DEF AppNext, Replied
<1>3. CASE Launches
    BY <1>3 DEF Launches, AppNext
<1>4. CASE Quits
    BY <1>4 DEF Quits, AppNext
<1>5. CASE UpgradeBegins
    BY <1>5 DEF UpgradeBegins
<1>6. CASE Replies
    BY <1>6 DEF Replies, AppNext, Replied
<1>7. CASE MainThread
    <2>1. CASE MenuOpens
        BY <2>1 DEF MenuOpens, AppNext, UserStep
    <2>2. CASE MenuActs
        BY <2>2 DEF MenuActs
    <2>3. CASE UserActsInView
        BY <2>3 DEF UserActsInView, AppNext, UserStep
    <2>4. ASSUME NEW row \in DOMAIN table, CellChangeSelected(row)
          PROVE  [AppNext]_appVars
        <3>1. CASE Chosen(row) = {}
            BY <2>4, <3>1 DEF CellChangeSelected
        <3>2. ASSUME NEW s \in Chosen(row), OnServerSelected(s) PROVE AppNext
            <4>1. s \in AppServers
                BY <3>2 DEF Chosen, MenuInv
            <4> QED
                BY <3>2, <4>1 DEF AppNext, UserStep
        <3> QED
            BY <2>4, <3>1, <3>2 DEF CellChangeSelected
    <2> QED
        BY <1>7, <2>1, <2>2, <2>3, <2>4 DEF MainThread
<1> QED
    BY <1>1, <1>2, <1>3, <1>4, <1>5, <1>6, <1>7 DEF ApplicationNext

\* The whole application implements App (ConnectViewController and AppDelegate
\* among the menu and the connection).
THEOREM ViewImplementsApp == ApplicationSpec => ViewIsApp
<1>1. ApplicationInit => AppInit
    BY DEF ApplicationInit
<1>2. MenuInv /\ [ApplicationNext]_applicationVars => [AppNext]_appVars
    BY ViewStep DEF applicationVars
<1> QED
    BY <1>1, <1>2, MenuInvariance, PTL DEF ApplicationSpec, ViewIsApp, AppSpec

\* So the application has one request out at a time (ConnectViewController.m:148-231).
THEOREM OneRequestInAll == ApplicationSpec => []OneRequestAtATime
BY ViewImplementsApp, OneRequest, PTL DEF ViewIsApp

\* And once the status is told it always leaves the user a control to go on with.
THEOREM ControlIsLeftInAll == ApplicationSpec => []UserHasControl
BY ViewImplementsApp, ControlIsLeft, PTL DEF ViewIsApp

-----------------------------------------------------------------------------
\* The connection to the helper.

\* The variable holds the last connection made, or NULL when none was or the last connect
\* failed.  A connection whose INVALID has not come is in use or was cancelled, and unless
\* the upgrade connected before that INVALID it is still in the variable.
HeldInv ==
    /\ made \in 0..MaxConnections
    /\ connection \in {NoConnection, made}
    /\ valid \subseteq 1..made
    /\ dropped \subseteq 1..made
    /\ isConnected => connection = made /\ made # 0 /\ made \notin dropped
    /\ valid \subseteq dropped \cup (IF isConnected THEN {connection} ELSE {})
    /\ releases \in [NoConnection..MaxConnections -> Nat]
    /\ ~lateInvalid =>
          /\ valid \subseteq {connection}
          /\ \A c \in NoConnection..MaxConnections :
                releases[c] = IF c \in (1..made) \ valid THEN 1 ELSE 0

LEMMA HeldStep ==
    ASSUME HeldInv, [ApplicationNext]_applicationVars
    PROVE  HeldInv'
<1> USE DEF HeldInv, MaxConnections, NoConnection
<1>1. CASE UNCHANGED <<xpcVars, lateInvalid>>
    BY <1>1 DEF xpcVars
<1>2. CASE Launches
    <2>1. PICK n \in {0, 1} : XPCFresh(n)
        BY <1>2 DEF Launches
    <2>2. lateInvalid' = FALSE
        BY <1>2 DEF Launches
    <2>3. CASE n = 0
        <3>1. made' = 0 /\ connection' = 0 /\ dropped' = {} /\ releases' = [c \in 0..2 |-> 0]
            BY <2>1, <2>3, Zenon DEF XPCFresh
        <3>2. isConnected' = FALSE /\ valid' = {}
            <4>1. isConnected' = (n # 0) /\ valid' = 1..n
                BY <2>1, Zenon DEF XPCFresh
            <4>2. valid' = {}
                BY <4>1, <2>3
            <4> QED
                BY <4>1, <4>2, <2>3, 0 # 1, Zenon
        <3>3. releases' \in [0..2 -> Nat] /\ \A c \in 0..2 : releases'[c] = 0
            BY <3>1
        <3>4. (1..made') \ valid' = {}
            BY <3>1, <3>2
        <3>5. \A c \in 0..2 : releases'[c] = IF c \in (1..made') \ valid' THEN 1 ELSE 0
            BY <3>3, <3>4, Zenon
        <3>6. /\ made' \in 0..2 /\ connection' \in {0, made'}
              /\ valid' \subseteq 1..made' /\ dropped' \subseteq 1..made'
              /\ isConnected' => connection' = made' /\ made' # 0 /\ made' \notin dropped'
              /\ valid' \subseteq dropped' \cup (IF isConnected' THEN {connection'} ELSE {})
              /\ valid' \subseteq {connection'}
            BY <3>1, <3>2
        <3> QED
            BY <2>2, <3>3, <3>5, <3>6
    <2>4. CASE n = 1
        <3>1. made' = 1 /\ connection' = 1 /\ dropped' = {} /\ releases' = [c \in 0..2 |-> 0]
            BY <2>1, <2>4, Zenon DEF XPCFresh
        <3>2. isConnected' = TRUE /\ valid' = {1}
            <4>1. isConnected' = (n # 0) /\ valid' = 1..n
                BY <2>1, Zenon DEF XPCFresh
            <4>2. valid' = {1}
                BY <4>1, <2>4
            <4> QED
                BY <4>1, <4>2, <2>4, 0 # 1, Zenon
        <3>3. releases' \in [0..2 -> Nat] /\ \A c \in 0..2 : releases'[c] = 0
            BY <3>1
        <3>4. (1..made') \ valid' = {}
            BY <3>1, <3>2
        <3>5. \A c \in 0..2 : releases'[c] = IF c \in (1..made') \ valid' THEN 1 ELSE 0
            BY <3>3, <3>4, Zenon
        <3>6. /\ made' \in 0..2 /\ connection' \in {0, made'}
              /\ valid' \subseteq 1..made' /\ dropped' \subseteq 1..made'
              /\ isConnected' => connection' = made' /\ made' # 0 /\ made' \notin dropped'
              /\ valid' \subseteq dropped' \cup (IF isConnected' THEN {connection'} ELSE {})
              /\ valid' \subseteq {connection'}
            BY <3>1, <3>2
        <3> QED
            BY <2>2, <3>3, <3>5, <3>6
    <2> QED
        BY <2>3, <2>4
<1>3. CASE UpgradeBegins
    <2>1. /\ isConnected' = FALSE
          /\ dropped' = IF isConnected THEN dropped \cup {connection} ELSE dropped
          /\ UNCHANGED <<connection, made, valid, releases, lateInvalid>>
        BY <1>3 DEF UpgradeBegins, Disconnect
    <2>2. dropped' \subseteq 1..made' /\ valid' \subseteq dropped'
        BY <2>1
    <2> QED
        BY <2>1, <2>2
<1>4. ASSUME NEW ok \in BOOLEAN, Reconnects(ok) PROVE HeldInv'
    <2>1. CASE isConnected
        <3>1. UNCHANGED xpcVars
            BY <1>4, <2>1, Zenon DEF Reconnects, Connect
        <3>2. ~lateInvalid' => ~lateInvalid
            BY <1>4, Zenon DEF Reconnects
        <3> QED
            BY <3>1, <3>2 DEF xpcVars
    <2>2. CASE ~isConnected
        <3>1. /\ ok => made < MaxConnections
              /\ made' = IF ok THEN made + 1 ELSE made
              /\ connection' = IF ok THEN made + 1 ELSE NoConnection
              /\ isConnected' = ok
              /\ valid' = IF ok THEN valid \cup {made + 1} ELSE valid
              /\ UNCHANGED <<dropped, releases>>
              /\ lateInvalid' = (lateInvalid \/ dropped \cap valid # {})
            BY <1>4, <2>2 DEF Reconnects, Connect
        <3>2. ~lateInvalid' => ~lateInvalid /\ valid = {}
            BY <2>2, <3>1
        <3>3. /\ made' \in 0..MaxConnections /\ connection' \in {NoConnection, made'}
              /\ valid' \subseteq 1..made' /\ dropped' \subseteq 1..made'
              /\ isConnected' => connection' = made' /\ made' # 0 /\ made' \notin dropped'
              /\ valid' \subseteq dropped' \cup (IF isConnected' THEN {connection'} ELSE {})
            BY <2>2, <3>1
        <3>4. ASSUME ~lateInvalid'
              PROVE  /\ valid' \subseteq {connection'}
                     /\ \A c \in NoConnection..MaxConnections :
                           releases'[c] = IF c \in (1..made') \ valid' THEN 1 ELSE 0
            BY <3>1, <3>2, <3>4
        <3> QED
            BY <3>1, <3>3, <3>4
    <2> QED
        BY <2>1, <2>2
<1>5. CASE InvalidComes
    <2>1. PICK c \in valid : Invalid(c) /\ UNCHANGED lateInvalid
        BY <1>5 DEF InvalidComes
    <2>2. connection \in NoConnection..MaxConnections
        OBVIOUS
    <2>3. releases' \in [NoConnection..MaxConnections -> Nat]
        BY <2>1, <2>2 DEF Invalid
    <2>4. ASSUME ~lateInvalid', NEW d \in NoConnection..MaxConnections
          PROVE  releases'[d] = IF d \in (1..made') \ valid' THEN 1 ELSE 0
        <3>1. connection = c /\ releases[c] = 0 /\ c \in 1..made
            BY <2>1, <2>2, <2>4
        <3>2. releases'[d] = IF d = c THEN 1 ELSE releases[d]
            BY <2>1, <2>2, <3>1 DEF Invalid
        <3> QED
            BY <2>1, <2>4, <3>1, <3>2 DEF Invalid
    <2> QED
        BY <2>1, <2>3, <2>4 DEF Invalid
<1>6. \/ UNCHANGED <<xpcVars, lateInvalid>>
      \/ Launches \/ UpgradeBegins \/ InvalidComes
      \/ \E ok \in BOOLEAN : Reconnects(ok)
    <2>1. CASE ApplicationNext
        BY <2>1 DEF ApplicationNext, UpgradeEnds, Quits, Replies, MainThread
    <2> QED
        BY <2>1 DEF applicationVars
<1> QED
    BY <1>1, <1>2, <1>3, <1>4, <1>5, <1>6

\* Whatever breaks and in whatever order the INVALID events come, a cancelled connection
\* is never the one in use; and each is released once, by its own INVALID, unless the
\* upgrade connected before the INVALID of the one it had cancelled (XPCConnection.m:38-80).
THEOREM ConnectionHeld == ApplicationSpec => []ConnectionIsHeld
<1>1. ApplicationInit => HeldInv
    BY DEF ApplicationInit, XPCInit, HeldInv, MaxConnections, NoConnection
<1>2. HeldInv /\ [ApplicationNext]_applicationVars => HeldInv'
    BY HeldStep
<1>3. HeldInv => ConnectionIsHeld
    BY DEF HeldInv, ConnectionIsHeld, MaxConnections, NoConnection
<1> QED
    BY <1>1, <1>2, <1>3, PTL DEF ApplicationSpec
=============================================================================
