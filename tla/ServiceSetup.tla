---------------------------- MODULE ServiceSetup ----------------------------
(***************************************************************************)
(* connectToPPPServer up to the dialling (VPNConnectionManager.m): each    *)
(* attempt replaces the network service OneVPN in the preferences of the   *)
(* system and its two items in the keychain.                               *)
(*                                                                         *)
(* Preferences change by commits of sessions, of which one at a time may   *)
(* hold the lock; the keychain changes at once.  Any call may fail, the    *)
(* helper may die between two of them, and the user may change location or *)
(* delete things meanwhile.  connectToServer sends L2TP here only, so the  *)
(* branches for PPTP are left out.                                         *)
(***************************************************************************)
EXTENDS Naturals, FiniteSets

CONSTANTS
    Servers,
    Locations,          \* sets of network services, one of which is current
    Nobody,             \* the account of the shared secret, which is no server's
    MaxAttempts,        \* bound: attempts; the number of one is its service id
    MaxMeddles          \* bound: changes by the user

ASSUME ServiceAssumption ==
    /\ Nobody \notin Servers
    /\ MaxAttempts \in Nat /\ MaxMeddles \in Nat

VARIABLES
    committed,          \* the services named OneVPN in the stored preferences
    current,            \* the current location in the stored preferences
    lock,               \* the session that holds the lock of the preferences
    items,              \* the items of OneVPN in the system keychain
    attempt, server,    \* the attempt, which is also its session and service id
    pc,
    view, location,     \* services and current location as the session sees them
    stale,              \* the preferences changed since the session read them
    kind, found,        \* createItem: what it writes, the old item it found
    failed,             \* history: the attempts that returned false
    meddled, meddles    \* history: the user's changes, in this attempt and in all

stored == <<committed, current, lock, items>>
session == <<view, location, stale>>
history == <<failed, meddled, meddles>>
vars == <<stored, attempt, server, pc, session, kind, found, history>>

NoSession == 0
Attempts == 1..MaxAttempts
Kinds == {"password", "secret"}      \* VPN Password, VPN Shared Secret
Item(k, id, s) ==
    [kind |-> k, id |-> id, account |-> IF k = "password" THEN s ELSE Nobody]
Items == [kind : Kinds, id : Attempts, account : Servers \cup {Nobody}]
Service(id, l, s, on) == [id |-> id, set |-> l, server |-> s, enabled |-> on]
Services == [id : Attempts, set : Locations, server : Servers, enabled : BOOLEAN]

-----------------------------------------------------------------------------
\* The session.

\* Another session holds the lock, and this one waits for it.
LockIsFree == lock \in {NoSession, attempt}

\* A commit takes the lock if its session has not, and refuses a stale session.
Commits == LockIsFree /\ ~stale /\ committed' = view

\* A session is opened, and loses the services named OneVPN.
RemoveServices(s) ==
    /\ pc \in {"idle", "dialled"} /\ attempt < MaxAttempts
    /\ attempt' = attempt + 1 /\ server' = s /\ pc' = "removed"
    /\ location' = current /\ stale' = FALSE
    /\ view' = {v \in committed : v.set # current}
    /\ meddled' = FALSE
    /\ UNCHANGED <<stored, kind, found, failed, meddles>>

CommitRemoval ==
    /\ pc = "removed" /\ Commits /\ pc' = "cleared"
    /\ UNCHANGED <<current, lock, items, attempt, server, session, kind, found, history>>

Synchronize ==
    /\ pc = "cleared" /\ pc' = "synchronized"
    /\ view' = committed /\ location' = current /\ stale' = FALSE
    /\ UNCHANGED <<stored, attempt, server, kind, found, history>>

Lock ==
    /\ pc = "synchronized" /\ LockIsFree /\ ~stale
    /\ lock' = attempt /\ pc' = "locked"
    /\ UNCHANGED <<committed, current, items, attempt, server, session, kind, found, history>>

\* Mutant: the service is committed before its passwords are written.
CommitEarly ==
    /\ pc = "locked" /\ pc' = "find"
    /\ \E on \in BOOLEAN : view' = view \cup {Service(attempt, location, server, on)}
    /\ committed' = view'
    /\ kind' = "password"
    /\ UNCHANGED <<current, lock, items, attempt, server, location, stale, found, history>>

\* The service with its interfaces, configuration and protocol, in the session.
CreateService ==
    /\ pc = "locked" /\ pc' = "find"
    /\ \E on \in BOOLEAN : view' = view \cup {Service(attempt, location, server, on)}
    /\ kind' = "password"
    /\ UNCHANGED <<stored, attempt, server, location, stale, found, history>>

-----------------------------------------------------------------------------
\* createItem, of the password and then of the shared secret.

FindItem ==
    /\ pc = "find" /\ pc' = "write"
    /\ LET old == {i \in items : i.kind = kind}
       IN  found' = IF old = {} THEN {} ELSE {CHOOSE i \in old : TRUE}
    /\ UNCHANGED <<stored, attempt, server, session, kind, history>>

NextItem ==
    IF kind = "password"
    THEN pc' = "find" /\ kind' = "secret"
    ELSE pc' = "written" /\ UNCHANGED kind

\* Mutant: the item of an earlier service stays.
AddItem ==
    /\ pc = "write" /\ NextItem
    /\ items' = items \cup {Item(kind, attempt, server)}
    /\ UNCHANGED <<committed, current, lock, attempt, server, session, found, history>>

\* The item found is modified; if none was, or it is gone, one is created.
WriteItem ==
    /\ pc = "write" /\ NextItem
    /\ items' = (items \ found) \cup {Item(kind, attempt, server)}
    /\ UNCHANGED <<committed, current, lock, attempt, server, session, found, history>>

-----------------------------------------------------------------------------
\* The service is stored, enabled and dialled.

CommitService ==
    /\ pc = "written" /\ Commits /\ pc' = "committed"
    /\ UNCHANGED <<current, lock, items, attempt, server, session, kind, found, history>>

\* Mutant: the lock is kept.
NoUnlock ==
    /\ pc = "committed" /\ pc' = "unlocked"
    /\ UNCHANGED <<stored, attempt, server, session, kind, found, history>>

Unlock ==
    /\ pc = "committed" /\ lock' = NoSession /\ pc' = "unlocked"
    /\ UNCHANGED <<committed, current, items, attempt, server, session, kind, found, history>>

\* Mutant: only the configuration is written again.
ConfigureOnly ==
    /\ pc = "unlocked" /\ pc' = "configured"
    /\ UNCHANGED <<stored, attempt, server, session, kind, found, history>>

\* Enabled, and configured again as it was.
Enable ==
    /\ pc = "unlocked" /\ pc' = "configured"
    /\ view' = {IF v.id = attempt THEN [v EXCEPT !.enabled = TRUE] ELSE v : v \in view}
    /\ UNCHANGED <<stored, attempt, server, location, stale, kind, found, history>>

CommitEnabled ==
    /\ pc = "configured" /\ Commits /\ pc' = "stored"
    /\ UNCHANGED <<current, lock, items, attempt, server, session, kind, found, history>>

\* The connection is made by the id of the service.
Dial ==
    /\ pc = "stored" /\ pc' = "dialled"
    /\ UNCHANGED <<stored, attempt, server, session, kind, found, history>>

-----------------------------------------------------------------------------
\* Faults, and the user.

Waiting == pc \in {"removed", "synchronized", "configured"} /\ ~LockIsFree

\* Any call fails: the session is left as it is, and so is its lock.
Fail ==
    /\ pc \notin {"idle", "dialled"} /\ ~Waiting
    /\ pc' = "idle" /\ failed' = failed \cup {attempt}
    /\ UNCHANGED <<stored, attempt, server, session, kind, found, meddled, meddles>>

\* The lock is that of a file, which the system drops with the process.
HelperDies ==
    /\ pc' = "idle" /\ lock' = NoSession
    /\ UNCHANGED <<committed, current, items, attempt, server, session, kind, found, history>>

Meddles == meddles < MaxMeddles /\ meddles' = meddles + 1 /\ meddled' = TRUE

SwitchLocation(l) ==
    /\ lock = NoSession /\ l # current /\ Meddles
    /\ current' = l /\ stale' = TRUE
    /\ UNCHANGED <<committed, lock, items, attempt, server, pc, view, location, kind, found,
                   failed>>

DeleteService(v) ==
    /\ lock = NoSession /\ Meddles
    /\ committed' = committed \ {v} /\ stale' = TRUE
    /\ UNCHANGED <<current, lock, items, attempt, server, pc, view, location, kind, found, failed>>

DeleteItem(i) ==
    /\ Meddles /\ items' = items \ {i}
    /\ UNCHANGED <<committed, current, lock, attempt, server, pc, session, kind, found, failed>>

-----------------------------------------------------------------------------
ServiceInit ==
    /\ committed = {} /\ current \in Locations /\ lock = NoSession /\ items = {}
    /\ attempt = 0 /\ server \in Servers /\ pc = "idle"
    /\ view = {} /\ location = current /\ stale = FALSE
    /\ kind = "password" /\ found = {}
    /\ failed = {} /\ meddled = FALSE /\ meddles = 0

Step ==
    \/ CommitRemoval \/ Synchronize \/ Lock \/ CreateService
    \/ FindItem \/ WriteItem
    \/ CommitService \/ Unlock \/ Enable \/ CommitEnabled \/ Dial
    \/ Fail

ServiceNext ==
    \/ \E s \in Servers : RemoveServices(s)
    \/ Step
    \/ HelperDies
    \/ \E l \in Locations : SwitchLocation(l)
    \/ \E v \in committed : DeleteService(v)
    \/ \E i \in items : DeleteItem(i)

\* The thread of an attempt goes on as long as it waits for nothing.
ServiceSpec == ServiceInit /\ [][ServiceNext]_vars /\ WF_vars(Step)

-----------------------------------------------------------------------------
\* Every variable has its type.
ServiceTypeOK ==
    /\ committed \subseteq Services /\ view \subseteq Services
    /\ current \in Locations /\ location \in Locations
    /\ items \subseteq Items /\ found \subseteq Items
    /\ lock \in Attempts \cup {NoSession} /\ attempt \in 0..MaxAttempts
    /\ server \in Servers /\ kind \in Kinds
    /\ pc \in {"idle", "removed", "cleared", "synchronized", "locked", "find", "write",
               "written", "committed", "unlocked", "configured", "stored", "dialled"}
    /\ stale \in BOOLEAN /\ meddled \in BOOLEAN /\ meddles \in 0..MaxMeddles
    /\ failed \subseteq Attempts

\* Both items of service v are in the keychain.
Whole(v) == \A k \in Kinds : Item(k, v.id, v.server) \in items

\* Unless the user interferes with the attempt itself, the service dialled is
\* the only OneVPN of its location, enabled, for the server asked for, and its
\* items are in the keychain, whatever earlier attempts have left behind.
DialledIsComplete ==
    pc = "dialled" /\ ~meddled =>
        LET dialled == Service(attempt, current, server, TRUE)
        IN  {v \in committed : v.set = current} = {dialled} /\ Whole(dialled)

\* If the user changes nothing, no failure and no crash leaves a second service
\* behind, nor one whose items are missing: what is stored can be dialled.
StoredIsWhole ==
    meddles = 0 => /\ \A v, w \in committed : v.id = w.id
                   /\ \A v \in committed : Whole(v)

\* However many services have been made, the keychain has one password and one
\* shared secret of OneVPN, even if the user deletes one while it is replaced.
OneItemPerKind == \A i, j \in items : i.kind = j.kind => i = j

\* The states of an attempt in which it holds the lock.
Holding == {"locked", "find", "write", "written", "committed"}

\* The lock is held by the attempt under way, between lock and unlock, or by one
\* that has failed there: connectToPPPServer returns without unlocking.
OnlyFailuresKeepLock ==
    lock # NoSession => lock \in failed \/ (lock = attempt /\ pc \in Holding)

\* An attempt ends, unless one that failed still has the lock, for which
\* everything waits until the helper dies.
AttemptEnds ==
    pc \notin {"idle", "dialled"} ~> (pc \in {"idle", "dialled"} \/ lock \in failed)
=============================================================================
