------------------------- MODULE ServiceSetupProofs -------------------------
(***************************************************************************)
(* The lock, the keychain and the service dialled, for any number of       *)
(* servers, locations, attempts and changes by the user.                   *)
(***************************************************************************)
EXTENDS ServiceSetup, TLAPS

\* What is under way has a number.
Typed == ServiceTypeOK /\ (pc # "idle" => attempt \in Attempts)

LEMMA ItemTyped ==
    ASSUME NEW k \in Kinds, NEW id \in Attempts, NEW s \in Servers
    PROVE  Item(k, id, s) \in Items
BY DEF Item, Items

LEMMA ServiceRecord ==
    ASSUME NEW id \in Attempts, NEW l \in Locations, NEW s \in Servers, NEW on \in BOOLEAN
    PROVE  Service(id, l, s, on) \in Services
BY DEF Service, Services

LEMMA EnabledTyped ==
    ASSUME NEW v \in Services
    PROVE  [v EXCEPT !.enabled = TRUE] \in Services
BY DEF Services

\* Every variable keeps its type.
LEMMA ServiceTyped == ServiceSpec => []Typed
<1>1. ServiceInit => Typed
  <2> SUFFICES ASSUME ServiceInit PROVE Typed
    OBVIOUS
  <2>1. stale \in BOOLEAN /\ meddled \in BOOLEAN
    BY Zenon DEF ServiceInit
  <2>2. meddles \in 0..MaxMeddles /\ attempt \in 0..MaxAttempts
    BY ServiceAssumption DEF ServiceInit
  <2>3. QED
    BY <2>1, <2>2 DEF ServiceInit, Typed, ServiceTypeOK, Kinds
<1>2. Typed /\ [ServiceNext]_vars => Typed'
  <2> SUFFICES ASSUME Typed, [ServiceNext]_vars PROVE Typed'
    OBVIOUS
  <2> USE ServiceAssumption DEF Typed, ServiceTypeOK, stored, session, history, Attempts,
                                NoSession, Kinds
  <2>1. ASSUME NEW s \in Servers, RemoveServices(s) PROVE Typed'
    <3>1. stale' \in BOOLEAN /\ meddled' \in BOOLEAN
      BY <2>1, Zenon DEF RemoveServices
    <3>2. attempt' \in 1..MaxAttempts
      BY <2>1 DEF RemoveServices
    <3>3. view' \subseteq Services
      BY <2>1 DEF RemoveServices
    <3>4. QED
      BY <2>1, <3>1, <3>2, <3>3 DEF RemoveServices
  <2>2. CASE CommitRemoval
    BY <2>2 DEF CommitRemoval, Commits
  <2>3. CASE Synchronize
    BY <2>3 DEF Synchronize
  <2>4. CASE Lock
    BY <2>4 DEF Lock
  <2>5. CASE CreateService
    BY <2>5, ServiceRecord DEF CreateService
  <2>6. CASE FindItem
    BY <2>6 DEF FindItem
  <2>7. CASE WriteItem
    BY <2>7, ItemTyped DEF WriteItem, NextItem
  <2>8. CASE CommitService
    BY <2>8 DEF CommitService, Commits
  <2>9. CASE Unlock
    BY <2>9 DEF Unlock
  <2>10. CASE Enable
    BY <2>10, EnabledTyped DEF Enable
  <2>11. CASE CommitEnabled
    BY <2>11 DEF CommitEnabled, Commits
  <2>12. CASE Dial
    BY <2>12 DEF Dial
  <2>13. CASE Fail
    BY <2>13 DEF Fail
  <2>14. CASE HelperDies
    BY <2>14 DEF HelperDies
  <2>15. ASSUME NEW l \in Locations, SwitchLocation(l) PROVE Typed'
    BY <2>15 DEF SwitchLocation, Meddles
  <2>16. ASSUME NEW v \in committed, DeleteService(v) PROVE Typed'
    BY <2>16 DEF DeleteService, Meddles
  <2>17. ASSUME NEW i \in items, DeleteItem(i) PROVE Typed'
    BY <2>17 DEF DeleteItem, Meddles
  <2>18. CASE UNCHANGED vars
    BY <2>18 DEF vars
  <2>19. QED
    BY <2>1, <2>2, <2>3, <2>4, <2>5, <2>6, <2>7, <2>8, <2>9, <2>10, <2>11, <2>12,
       <2>13, <2>14, <2>15, <2>16, <2>17, <2>18 DEF ServiceNext, Step
<1>3. QED
  BY <1>1, <1>2, PTL DEF ServiceSpec

-----------------------------------------------------------------------------
\* The keychain.

\* What is about to be replaced is the only item of its kind.
KeychainInv ==
    /\ OneItemPerKind
    /\ pc = "write" => \A i \in items : i.kind = kind => i \in found

\* The keychain never gets a second password or a second shared secret.
THEOREM KeychainStaysSmall == ServiceSpec => []OneItemPerKind
<1>1. ServiceInit => KeychainInv
  BY DEF ServiceInit, KeychainInv, OneItemPerKind
<1>2. KeychainInv /\ Typed /\ [ServiceNext]_vars => KeychainInv'
  <2> SUFFICES ASSUME KeychainInv, Typed, [ServiceNext]_vars PROVE KeychainInv'
    OBVIOUS
  <2> USE DEF KeychainInv, OneItemPerKind
  <2>1. CASE FindItem
    <3> DEFINE old == {i \in items : i.kind = kind}
    <3>1. UNCHANGED <<items, kind>> /\ found' = IF old = {} THEN {} ELSE {CHOOSE i \in old : TRUE}
      BY <2>1 DEF FindItem, stored
    <3>2. \A i \in old : found' = {i}
      BY <3>1
    <3>3. QED
      BY <3>1, <3>2
  <2>2. CASE WriteItem
    <3> DEFINE new == Item(kind, attempt, server)
    <3>1. new.kind = kind /\ pc' # "write" /\ items' = (items \ found) \cup {new}
      BY <2>2 DEF WriteItem, NextItem, Item
    <3>2. \A i \in items \ found : i.kind # kind
      BY <2>2 DEF WriteItem
    <3>3. QED
      BY <3>1, <3>2
  <2>3. ASSUME NEW i \in items, DeleteItem(i) PROVE KeychainInv'
    BY <2>3 DEF DeleteItem
  <2>4. ASSUME UNCHANGED items, pc' # "write" PROVE KeychainInv'
    BY <2>4
  <2>5. ASSUME UNCHANGED <<items, found, kind, pc>> PROVE KeychainInv'
    BY <2>5
  <2>6. CASE UNCHANGED vars
    BY <2>5, <2>6 DEF vars, stored
  <2>7. CASE \E s \in Servers : RemoveServices(s)
    BY <2>4, <2>7 DEF RemoveServices, stored
  <2>8. CASE \/ CommitRemoval \/ Synchronize \/ Lock \/ CreateService \/ CommitService
             \/ Unlock \/ Enable \/ CommitEnabled \/ Dial \/ Fail \/ HelperDies
    BY <2>4, <2>8 DEF CommitRemoval, Synchronize, Lock, CreateService, CommitService,
       Unlock, Enable, CommitEnabled, Dial, Fail, HelperDies, stored
  <2>9. CASE (\E l \in Locations : SwitchLocation(l)) \/ (\E v \in committed : DeleteService(v))
    BY <2>5, <2>9 DEF SwitchLocation, DeleteService
  <2>10. QED
    BY <2>1, <2>2, <2>3, <2>6, <2>7, <2>8, <2>9 DEF ServiceNext, Step
<1>3. KeychainInv => OneItemPerKind
  BY DEF KeychainInv
<1>4. QED
  BY <1>1, <1>2, <1>3, ServiceTyped, PTL DEF ServiceSpec

-----------------------------------------------------------------------------
\* The lock.

\* Only a failure between lock and unlock leaves the lock behind.
THEOREM LockIsReleased == ServiceSpec => []OnlyFailuresKeepLock
<1>1. ServiceInit => OnlyFailuresKeepLock
  BY DEF ServiceInit, OnlyFailuresKeepLock
<1>2. OnlyFailuresKeepLock /\ [ServiceNext]_vars => OnlyFailuresKeepLock'
  <2> SUFFICES ASSUME OnlyFailuresKeepLock, [ServiceNext]_vars PROVE OnlyFailuresKeepLock'
    OBVIOUS
  <2> USE DEF OnlyFailuresKeepLock, Holding, stored, history
  <2>1. CASE \E s \in Servers : RemoveServices(s)
    BY <2>1 DEF RemoveServices
  <2>2. CASE CommitRemoval \/ Synchronize
    BY <2>2 DEF CommitRemoval, Synchronize
  <2>3. CASE Lock \/ CreateService
    BY <2>3 DEF Lock, CreateService
  <2>4. CASE FindItem \/ WriteItem
    BY <2>4 DEF FindItem, WriteItem, NextItem
  <2>5. CASE CommitService \/ Unlock
    BY <2>5 DEF CommitService, Unlock
  <2>6. CASE Enable \/ CommitEnabled \/ Dial
    BY <2>6 DEF Enable, CommitEnabled, Dial
  <2>7. CASE Fail \/ HelperDies
    BY <2>7 DEF Fail, HelperDies
  <2>8. CASE \/ \E l \in Locations : SwitchLocation(l)
             \/ \E v \in committed : DeleteService(v)
             \/ \E i \in items : DeleteItem(i)
    BY <2>8 DEF SwitchLocation, DeleteService, DeleteItem
  <2>9. CASE UNCHANGED vars
    BY <2>9 DEF vars
  <2>10. QED
    BY <2>1, <2>2, <2>3, <2>4, <2>5, <2>6, <2>7, <2>8, <2>9 DEF ServiceNext, Step
<1>3. QED
  BY <1>1, <1>2, PTL DEF ServiceSpec

-----------------------------------------------------------------------------
\* The service dialled.

InCurrent(services) == {v \in services : v.set = current}
New(on) == Service(attempt, current, server, on)
Has(k) == Item(k, attempt, server) \in items

\* How far the session, the preferences and the keychain are at each step.
Progress ==
    /\ location = current
    /\ pc = "removed" => InCurrent(view) = {}
    /\ pc = "cleared" => InCurrent(committed) = {}
    /\ pc \in {"synchronized", "locked"} => InCurrent(view) = {}
    /\ pc \in {"find", "write", "written", "committed", "unlocked"} =>
          \E on \in BOOLEAN : InCurrent(view) = {New(on)}
    /\ pc = "configured" => InCurrent(view) = {New(TRUE)}
    /\ pc \in {"stored", "dialled"} => InCurrent(committed) = {New(TRUE)}
    /\ pc = "write" => \A i \in found : i.kind = kind
    /\ pc \in {"find", "write"} /\ kind = "secret" => Has("password")
    /\ pc \in {"written", "committed", "unlocked", "configured", "stored", "dialled"} =>
          Has("password") /\ Has("secret")

SetupInv == ~meddled /\ pc # "idle" => Progress

LEMMA SetupInvariance == ServiceSpec => []SetupInv
<1>1. ServiceInit => SetupInv
  BY DEF ServiceInit, SetupInv
<1>2. SetupInv /\ Typed /\ [ServiceNext]_vars => SetupInv'
  <2> SUFFICES ASSUME SetupInv, Typed, [ServiceNext]_vars, ~meddled', pc' # "idle"
               PROVE  Progress'
    BY DEF SetupInv
  <2> USE DEF SetupInv, Progress, stored, session, history, InCurrent, New, Has
  <2>1. ASSUME NEW s \in Servers, RemoveServices(s) PROVE Progress'
    BY <2>1 DEF RemoveServices
  <2>2. CASE CommitRemoval
    BY <2>2 DEF CommitRemoval, Commits
  <2>3. CASE Synchronize
    BY <2>3 DEF Synchronize
  <2>4. CASE Lock
    BY <2>4 DEF Lock
  <2>5. CASE CreateService
    <3>1. PICK on \in BOOLEAN : view' = view \cup {Service(attempt, location, server, on)}
      BY <2>5 DEF CreateService
    <3>2. Service(attempt, location, server, on).set = current
      BY <2>5 DEF CreateService, Service
    <3>3. location = current /\ InCurrent(view) = {}
      BY <2>5 DEF CreateService
    <3>4. InCurrent(view)' = {New(on)}'
      BY <2>5, <3>1, <3>2, <3>3 DEF CreateService
    <3>5. kind' # "secret" /\ pc' = "find"
      BY <2>5 DEF CreateService
    <3>6. QED
      BY <2>5, <3>3, <3>4, <3>5 DEF CreateService
  <2>6. CASE FindItem
    <3>1. \A i \in found' : i.kind = kind
      BY <2>6 DEF FindItem
    <3>2. QED
      BY <2>6, <3>1 DEF FindItem
  <2>7. CASE WriteItem
    <3>1. Item(kind, attempt, server) \in items' /\ UNCHANGED <<attempt, server>>
      BY <2>7 DEF WriteItem
    <3>2. CASE kind = "password"
      BY <2>7, <3>1, <3>2 DEF WriteItem, NextItem
    <3>3. CASE kind = "secret"
      <4>1. Item("password", attempt, server) \notin found
        BY <2>7, <3>3 DEF WriteItem, Item
      <4>2. Has("password")'
        BY <2>7, <3>3, <4>1 DEF WriteItem
      <4>3. QED
        BY <2>7, <3>1, <3>3, <4>2 DEF WriteItem, NextItem
    <3>4. QED
      BY <3>2, <3>3 DEF Typed, ServiceTypeOK, Kinds
  <2>8. CASE CommitService
    BY <2>8 DEF CommitService
  <2>9. CASE Unlock
    BY <2>9 DEF Unlock
  <2>10. CASE Enable
    <3>1. PICK on \in BOOLEAN : InCurrent(view) = {New(on)}
      BY <2>10 DEF Enable
    <3> DEFINE Enabled(v) == IF v.id = attempt THEN [v EXCEPT !.enabled = TRUE] ELSE v
    <3>2. \A v \in view : Enabled(v).set = v.set
      BY DEF Typed, ServiceTypeOK, Services
    <3>3. Enabled(New(on)) = New(TRUE)
      BY DEF Service
    <3>4. view' = {Enabled(v) : v \in view} /\ UNCHANGED <<current, attempt, server>>
      BY <2>10 DEF Enable
    <3>5. InCurrent(view)' = {Enabled(v) : v \in InCurrent(view)}
      BY <3>2, <3>4
    <3>6. InCurrent(view)' = {New(TRUE)}'
      <4>1. InCurrent(view)' = {Enabled(New(on))}
        <5> HIDE DEF InCurrent, New, Enabled
        <5>1. QED
          BY <3>1, <3>5
      <4>2. New(TRUE)' = New(TRUE)
        BY <3>4
      <4>3. QED
        BY <3>3, <4>1, <4>2
    <3>7. QED
      BY <2>10, <3>6 DEF Enable
  <2>11. CASE CommitEnabled
    BY <2>11 DEF CommitEnabled, Commits
  <2>12. CASE Dial
    BY <2>12 DEF Dial
  <2>13. CASE Fail \/ HelperDies
    BY <2>13 DEF Fail, HelperDies
  <2>14. CASE \/ \E l \in Locations : SwitchLocation(l)
              \/ \E v \in committed : DeleteService(v)
              \/ \E i \in items : DeleteItem(i)
    BY <2>14 DEF SwitchLocation, DeleteService, DeleteItem, Meddles
  <2>15. CASE UNCHANGED vars
    BY <2>15 DEF vars
  <2>16. QED
    BY <2>1, <2>2, <2>3, <2>4, <2>5, <2>6, <2>7, <2>8, <2>9, <2>10, <2>11, <2>12,
       <2>13, <2>14, <2>15 DEF ServiceNext, Step
<1>3. QED
  BY <1>1, <1>2, ServiceTyped, PTL DEF ServiceSpec

\* What is dialled is complete, whatever failed or died before.
THEOREM DialsACompleteService == ServiceSpec => []DialledIsComplete
<1>1. SetupInv /\ Typed => DialledIsComplete
  BY DEF SetupInv, Progress, InCurrent, New, Has, DialledIsComplete, Whole, Kinds, Service
<1>2. QED
  BY <1>1, SetupInvariance, ServiceTyped, PTL

-----------------------------------------------------------------------------
\* What is stored between the attempts.

\* While the user changes nothing there is one location, and no service is stored
\* from the commit of the removal to that of the new service, so that no item is
\* written under a stored service.
StoredInv ==
    /\ meddled => meddles > 0
    /\ meddles = 0 =>
          /\ StoredIsWhole
          /\ \A v \in committed : v.set = current
          /\ pc # "idle" => \A v \in view : v.set = current
          /\ pc \in {"cleared", "synchronized", "locked", "find", "write", "written"} =>
                committed = {}

\* A commit of the new service, whose items are there, leaves it alone in the
\* preferences.
LEMMA CommitStep ==
    ASSUME Typed, SetupInv, StoredInv, Commits, meddles' = 0,
           UNCHANGED <<current, items, meddled, meddles, attempt, server>>,
           UNCHANGED view, pc \in {"written", "configured"}
    PROVE  StoredIsWhole' /\ \A v \in committed' : v.set = current'
<1>0. Progress
  BY DEF SetupInv, StoredInv
<1>1. PICK on \in BOOLEAN : InCurrent(view) = {New(on)}
  <2>1. CASE pc = "written"
    BY <1>0, <2>1 DEF Progress
  <2>2. CASE pc = "configured"
    BY <1>0, <2>2 DEF Progress
  <2>3. QED
    BY <2>1, <2>2
<1>2. committed' = {New(on)}
  <2>1. committed' = view /\ InCurrent(view) = view
    BY DEF Commits, StoredInv, InCurrent
  <2>2. QED
    BY <1>1, <2>1
<1>3. Has("password") /\ Has("secret")
  BY <1>0 DEF Progress
<1>4. New(on).id = attempt /\ New(on).server = server /\ New(on).set = current
  BY DEF New, Service
<1>5. \A k \in Kinds : Item(k, attempt, server) \in items'
  BY <1>3 DEF Has, Kinds
<1>6. \A v \in committed' : Whole(v)'
  BY <1>2, <1>4, <1>5 DEF Whole
<1>7. QED
  BY <1>2, <1>4, <1>6 DEF StoredIsWhole

\* If the user changes nothing, no failure and no crash of the helper leaves in the
\* preferences a second service of OneVPN or one without its items
\* (VPNConnectionManager.m: removal, lock, createItem, commit).
THEOREM StoresWhole == ServiceSpec => []StoredIsWhole
<1>1. ServiceInit => StoredInv
  BY DEF ServiceInit, StoredInv, StoredIsWhole
<1>2. Typed /\ SetupInv /\ StoredInv /\ [ServiceNext]_vars => StoredInv'
  <2> SUFFICES ASSUME Typed, SetupInv, StoredInv, [ServiceNext]_vars PROVE StoredInv'
    OBVIOUS
  <2>0. meddles \in Nat /\ (meddled' => meddles' > 0)
    <3>1. meddles \in Nat
      BY DEF Typed, ServiceTypeOK
    <3>2. QED
      BY <3>1
      DEF StoredInv, ServiceNext, Step, RemoveServices, CommitRemoval, Synchronize, Lock,
          CreateService, FindItem, WriteItem, CommitService, Unlock, Enable, CommitEnabled,
          Dial, Fail, HelperDies, SwitchLocation, DeleteService, DeleteItem, Meddles, vars,
          history
  <2> SUFFICES ASSUME meddles' = 0 PROVE StoredInv'
    BY <2>0 DEF StoredInv
  <2>1. CASE \/ \E l \in Locations : SwitchLocation(l)
             \/ \E v \in committed : DeleteService(v)
             \/ \E i \in items : DeleteItem(i)
    BY <2>0, <2>1 DEF SwitchLocation, DeleteService, DeleteItem, Meddles
  <2> DEFINE Kept == UNCHANGED <<committed, current, items, meddled, meddles>>
  <2>2. ASSUME Kept PROVE StoredIsWhole' /\ \A v \in committed' : v.set = current'
    BY <2>2 DEF StoredInv, StoredIsWhole, Whole
  <2>3. CASE \E s \in Servers : RemoveServices(s)
    <3>1. UNCHANGED <<committed, current, items, meddles>> /\ pc' = "removed"
      BY <2>3 DEF RemoveServices, stored
    <3>2. StoredIsWhole' /\ \A v \in committed' : v.set = current'
      BY <3>1 DEF StoredInv, StoredIsWhole, Whole
    <3>3. view' = {}
      BY <2>3, <3>1 DEF RemoveServices, StoredInv
    <3>4. QED
      BY <2>0, <3>1, <3>2, <3>3 DEF StoredInv
  <2>4. CASE CommitRemoval
    <3>1. ~meddled /\ InCurrent(view) = {}
      BY <2>4 DEF CommitRemoval, StoredInv, SetupInv, Progress, history
    <3>2. committed' = {} /\ UNCHANGED <<view, current>> /\ pc' = "cleared"
      BY <2>4, <3>1 DEF CommitRemoval, Commits, StoredInv, InCurrent, history, session
    <3>3. QED
      BY <2>0, <2>4, <3>2 DEF CommitRemoval, StoredInv, StoredIsWhole, history
  <2>5. CASE Synchronize \/ Lock
    <3>1. Kept /\ committed = {} /\ view' \in {committed, view}
      BY <2>5 DEF Synchronize, Lock, StoredInv, stored, session, history
    <3>2. QED
      BY <2>0, <2>2, <2>5, <3>1 DEF Synchronize, Lock, StoredInv
  <2>6. CASE CreateService
    <3>1. Kept /\ committed = {} /\ location = current
      BY <2>6 DEF CreateService, StoredInv, SetupInv, Progress, stored, history
    <3>2. \A v \in view' : v.set = current'
      BY <2>6, <3>1 DEF CreateService, StoredInv, Service, history
    <3>3. QED
      BY <2>0, <2>2, <2>6, <3>1, <3>2 DEF CreateService, StoredInv
  <2>7. CASE FindItem
    BY <2>0, <2>2, <2>7 DEF FindItem, StoredInv, stored, session, history
  <2>8. CASE WriteItem
    <3>1. committed' = {} /\ UNCHANGED <<view, current, meddles>> /\ pc' \in {"find", "written"}
      BY <2>8 DEF WriteItem, NextItem, StoredInv, session, history
    <3>2. QED
      BY <2>0, <2>8, <3>1 DEF WriteItem, StoredInv, StoredIsWhole
  <2>9. CASE CommitService \/ CommitEnabled
    <3>1. /\ UNCHANGED <<current, items, meddled, meddles, attempt, server>>
          /\ Commits /\ UNCHANGED view
          /\ pc \in {"written", "configured"} /\ pc' \in {"committed", "stored"}
      BY <2>9 DEF CommitService, CommitEnabled, session, history
    <3>2. StoredIsWhole' /\ \A v \in committed' : v.set = current'
      BY <3>1, CommitStep
    <3>3. QED
      BY <2>0, <3>1, <3>2 DEF StoredInv
  <2>10. CASE Enable
    <3>1. Kept /\ view' = {IF v.id = attempt THEN [v EXCEPT !.enabled = TRUE] ELSE v : v \in view}
      BY <2>10 DEF Enable, stored, history
    <3>2. \A v \in view : [v EXCEPT !.enabled = TRUE].set = v.set
      BY DEF Typed, ServiceTypeOK, Services
    <3>3. \A v \in view' : v.set = current'
      BY <2>10, <3>1, <3>2 DEF Enable, StoredInv
    <3>4. QED
      BY <2>0, <2>2, <2>10, <3>1, <3>3 DEF Enable, StoredInv
  <2>11. CASE Unlock \/ Dial
    BY <2>0, <2>2, <2>11 DEF Unlock, Dial, StoredInv, stored, session, history
  <2>12. CASE Fail \/ HelperDies
    BY <2>0, <2>2, <2>12 DEF Fail, HelperDies, StoredInv, stored, history
  <2>13. CASE UNCHANGED vars
    BY <2>0, <2>2, <2>13 DEF vars, StoredInv, stored, session, history
  <2>14. QED
    BY <2>1, <2>3, <2>4, <2>5, <2>6, <2>7, <2>8, <2>9, <2>10, <2>11, <2>12, <2>13
    DEF ServiceNext, Step
<1>3. StoredInv /\ Typed => StoredIsWhole
  BY DEF StoredInv, StoredIsWhole
<1>4. QED
  BY <1>1, <1>2, <1>3, ServiceTyped, SetupInvariance, PTL DEF ServiceSpec
=============================================================================
