----------------------------- MODULE ServerMenu -----------------------------
(***************************************************************************)
(* The server list of the application: MenuViewController with RestService.*)
(* Each selection of a protocol and each click on the reload button sends  *)
(* a request of its own; the answers come in any order, replace the array  *)
(* of servers at once and reload the table later, and the user may click a *)
(* row of the table at any moment in between.                              *)
(***************************************************************************)
EXTENDS Naturals, Sequences

CONSTANTS
    Protocols, FirstProtocol,   \* the titles of the popup, and the first of them
    ListOf,                     \* the servers that the service names for each
    MaxListRequests             \* bound: requests in one run of the application

ASSUME MenuAssumption == FirstProtocol \in Protocols

VARIABLES
    menuLoaded,         \* viewDidLoad has run: the menu has been opened once
    protocol,           \* protocolPopup.titleOfSelectedItem
    listRequests,       \* requests without an answer, numbered
    servers,            \* self.servers
    table,              \* what the rows of serversTable show
    reloads,            \* calls of reloadData queued on the main queue
    requested, applied  \* history: the last request, and the one servers is from

menuVars == <<menuLoaded, protocol, listRequests, servers, table, reloads,
              requested, applied>>

MenuFresh ==
    /\ menuLoaded' = FALSE
    /\ protocol' = FirstProtocol
    /\ listRequests' = {}
    /\ servers' = <<>> /\ table' = <<>>
    /\ reloads' = 0
    /\ requested' = 0 /\ applied' = 0

MenuInit ==
    /\ menuLoaded = FALSE
    /\ protocol = FirstProtocol
    /\ listRequests = {}
    /\ servers = <<>> /\ table = <<>>
    /\ reloads = 0
    /\ requested = 0 /\ applied = 0

UpdateServersList(p) ==
    /\ requested < MaxListRequests
    /\ requested' = requested + 1
    /\ listRequests' = listRequests \cup {[number |-> requested + 1, protocol |-> p]}

\* The menu's view is made the first time it is shown.
MenuShown ==
    IF menuLoaded
    THEN UNCHANGED menuVars
    ELSE /\ menuLoaded' = TRUE
         /\ UpdateServersList(protocol)
         /\ UNCHANGED <<protocol, servers, table, reloads, applied>>

\* Mutant: another protocol is selected without asking for its list.
SelectOnly(p) ==
    /\ protocol' = p
    /\ UNCHANGED <<menuLoaded, listRequests, servers, table, reloads, requested, applied>>

ProtocolSelected(p) ==
    /\ protocol' = p
    /\ UpdateServersList(p)
    /\ UNCHANGED <<menuLoaded, servers, table, reloads, applied>>

ReloadButtonClicked ==
    /\ UpdateServersList(protocol)
    /\ UNCHANGED <<menuLoaded, protocol, servers, table, reloads, applied>>

\* Mutant: the table is left as it is.
FillOnly(q, list) ==
    /\ servers' = list
    /\ applied' = q.number
    /\ UNCHANGED reloads

\* success: what was there is replaced, and the table reloaded later.
Fill(q, list) ==
    /\ servers' = list
    /\ applied' = q.number
    /\ reloads' = reloads + 1

\* status 1 is a list, status 0 an error that counts as an empty list; any other
\* status calls nothing, and a failed request shows an alert.
ListAnswered(q) ==
    /\ q \in listRequests
    /\ listRequests' = listRequests \ {q}
    /\ \/ Fill(q, ListOf[q.protocol])
       \/ Fill(q, <<>>)
       \/ UNCHANGED <<servers, reloads, applied>>
    /\ UNCHANGED <<menuLoaded, protocol, table, requested>>

ReloadData ==
    /\ reloads > 0
    /\ reloads' = reloads - 1
    /\ table' = servers
    /\ UNCHANGED <<menuLoaded, protocol, listRequests, servers, requested, applied>>

\* Mutant: past the end, an empty server is chosen.
EmptyPastEnd(row) == IF row <= Len(servers) THEN {servers[row]} ELSE {<<>>}

\* cellChangeSelected: the row is read from the array as it is now; past its end
\* this raises, and nothing is chosen.
Chosen(row) == IF row <= Len(servers) THEN {servers[row]} ELSE {}

-----------------------------------------------------------------------------

\* A row shows the server that a click on it chooses, whenever no reload is still
\* queued (MenuViewController.m:108-118, 150-156).
TableIsCurrent == reloads = 0 => table = servers

\* Once the answer to the last request has been applied last, the list is that of
\* the protocol selected, or empty when the service refused; only an answer that
\* was overtaken, lost or without a known status leaves another (148-167).
ListFollowsPopup == applied = requested => servers \in {<<>>, ListOf[protocol]}
=============================================================================
