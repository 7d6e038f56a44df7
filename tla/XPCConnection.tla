--------------------------- MODULE XPCConnection ---------------------------
(***************************************************************************)
(* The application's connection object (XPCConnection.m): one variable for *)
(* the current connection, which the event handlers of all connections     *)
(* read.  An event comes later, on another thread, and finds whatever the  *)
(* variable holds by then.                                                 *)
(***************************************************************************)
EXTENDS Naturals

\* applicationDidFinishLaunching connects, and may upgrade the helper once.
MaxConnections == 2

VARIABLES
    connection,         \* the variable: the number of a connection, or NULL
    isConnected,
    made,               \* how many connections have been made
    valid,              \* those whose INVALID has not come
    dropped,            \* those that disconnect has cancelled
    releases            \* how often each has been released, NULL included

xpcVars == <<connection, isConnected, made, valid, dropped, releases>>

NoConnection == 0

XPCInit ==
    /\ connection = NoConnection
    /\ isConnected = FALSE
    /\ made = 0
    /\ valid = {}
    /\ dropped = {}
    /\ releases = [c \in NoConnection..MaxConnections |-> 0]

\* A new object whose connect, if it was called, made n connections.
XPCFresh(n) ==
    /\ connection' = n
    /\ isConnected' = (n # 0)
    /\ made' = n
    /\ valid' = 1..n
    /\ dropped' = {}
    /\ releases' = [c \in NoConnection..MaxConnections |-> 0]

\* Mutant: the connection is released at once, and again by its event handler.
CancelAndRelease ==
    /\ isConnected' = FALSE
    /\ dropped' = IF isConnected THEN dropped \cup {connection} ELSE dropped
    /\ releases' = [releases EXCEPT ![connection] = @ + 1]
    /\ UNCHANGED <<connection, made, valid>>

\* disconnect: the connection is cancelled, and the variable keeps it.
Disconnect ==
    /\ isConnected' = FALSE
    /\ dropped' = IF isConnected THEN dropped \cup {connection} ELSE dropped
    /\ UNCHANGED <<connection, made, valid, releases>>

\* connect: a new connection, unless there is one; when none can be made the variable
\* is NULL.
Connect(ok) ==
    IF isConnected
    THEN UNCHANGED xpcVars
    ELSE /\ ok => made < MaxConnections
         /\ made' = IF ok THEN made + 1 ELSE made
         /\ connection' = IF ok THEN made + 1 ELSE NoConnection
         /\ isConnected' = ok
         /\ valid' = IF ok THEN valid \cup {made + 1} ELSE valid
         /\ UNCHANGED <<dropped, releases>>

\* XPC_ERROR_CONNECTION_INVALID of connection c, cancelled or of a service that cannot be
\* found: the handler releases what the variable holds, and isConnected stays as it is.
Invalid(c) ==
    /\ c \in valid
    /\ valid' = valid \ {c}
    /\ releases' = [releases EXCEPT ![connection] = @ + 1]
    /\ UNCHANGED <<connection, isConnected, made, dropped>>
=============================================================================
