# OneVPN in TLA+

OneVPN is a VPN client for macOS: an application, which the user clicks, and a
privileged helper, which brings tunnels up and down through `openvpn`, `pppd`
or the system's own L2TP service. The application talks to the helper over XPC;
`openvpn` runs two shell scripts that change and restore the DNS settings. This
directory models the code of `src/without_pptp`; the paths below are relative to it.

## 1. Inventory

### The parts, their state and their operations

| Part | Code | State | Operations |
| --- | --- | --- | --- |
| Connection thread | `OneVPNHelper/Utils/ClientThread.m` | the thread, its condition lock, `success` | `initWithBlock:`, `start`, `cancel`, `join`, the end of the block |
| Connection manager | `OneVPNHelper/VPNConnectionManager/VPNConnectionManager.m` | `connectedServer`, `clientThread`, the paths; `extStatus`, the text of an alert | `connectToServer:` (OpenVPN, PPTP, L2TP), `disconnect`, `isConnected`, the L2TP callback |
| L2TP service | the same file, `connectToPPPServer:`, `createItem:` | the network service `OneVPN` in the preferences, its two keychain items, the lock | remove, create, store, enable, dial |
| Configuration files | `OneVPNHelper/VPNConnectionManager/Config` | one file per program | `writeServerConfigs:` |
| Helper | `OneVPNHelper/main.m`, `OneVPNHelper/MessageProcessor` | one manager for all peers | one handler per request: version, pathes, status, connect, disconnect |
| Application | `OneVPN/Source/AppDelegate.m`, `ConnectViewController.m` | `connected`, `currentServer`, enabled controls | the chain at launch (version, paths, status), clicks, typing, replies |
| Connection | `OneVPN/Source/XPCConnection` | one variable for the connection, `isConnected`, requests that are out | `connect`, `disconnect`, `sendRequest:`, the event handler |
| Server list | `MenuViewController.m`, `RestService.m`, `ServerInfo.m` | the array behind the table, the rows shown | fetch, reload, select |
| DNS scripts | `OneVPN/Resources/ovpn/client.up.sh`, `client.down.sh` | keys of the dynamic store | save and set, restore and remove |
| The openvpn process | `Carthage/Checkouts/openvpn/src/openvpn`: `openvpn.c`, `sig.c`, `init.c`, `forward.c`, `push.c` | `signal_received`, the stage, the interface, the exit notification | start, event loop, pulled options, up and down, exit |
| Its control channel | the same: `reliable.c`, `ssl.c` | send and receive buffers, packet ids, acknowledgements | send, acknowledge, receive, read |
| The rest of openvpn: TLS sessions, options, routes, server mode | the same | | |
| Protocol | `Shared/Protocol/proto/xpc.proto` | none | |
| Views, colours, windows; vendored protobuf, AFNetworking, Sparkle | | none of the connection | |

### How they interact

- The application sends a request and handles the reply on its main queue
  (`XPCConnection.m:83-102`). The controls it enables decide what can be sent.
- The server list comes from a web service, in answers that arrive in any order; a
  row that is clicked becomes the server of the connect view.
- A handler in the helper serves a request synchronously: connect and disconnect
  block it until the tunnel is up or its thread has ended (`MessageProcessor.m:26-50`).
- All handlers share one manager with nonatomic properties, and read `clientThread`
  again at every use: to cancel, join, collect and forget a thread, and also to start
  it (`VPNConnectionManager.m:142-146`, `:543`, `:682`, `:793`). A second peer may have
  replaced or forgotten it by then. The block of a connection thread, the readability
  handler of a program's output and the L2TP callback write the properties too, from
  threads of their own.
- The manager knows an `openvpn` by its task and by two markers in its output, and
  ends it with SIGTERM. An `openvpn` or `pppd` outlives the helper if the helper
  dies; the L2TP service always does. Configuration files stay.
- An `openvpn` runs the up and the down script; the scripts of two `openvpn`
  processes share `State:/Network/OpenVPN`.

### What is hard, and what correct means

| Part | Hard | Correct means |
| --- | --- | --- |
| Connection thread | a lock is created by each `start`, refused or not, so before it there is none and after a second one there are two | `join` returns only when the block has ended, with its final result, and returns at all |
| Manager | program output, polling, retries and blocks race; a connect may replace a live thread; errors leave state behind; a block waits for a callback that may never come | a connect that succeeded is what was asked for; what is reported is what was dialled; a disconnect ends, or hangs for a stated reason |
| L2TP service | any of some twenty calls may fail, with the lock held or the keychain half written; the helper dies; the user changes the same settings | what is dialled is complete; nothing half written is stored; nothing piles up |
| Helper | peers at once, who start, replace and forget each other's threads; death and relaunch | with any number of peers: the promises of the threads, and each request answered once; the rest with one |
| Application | replies against clicks and typing; a broken connection looks like an answer; late answers and late events | one request at a time; the server shown cannot change under a connection; the user keeps a control; a row is the server it shows |
| Session | quits, relaunches, the helper's death | what is shown is what runs; each request is answered once; a new run is told of the tunnel it finds |
| The openvpn process | signals from outside and inside overwrite one variable; an exit anywhere | its scripts come in pairs; a SIGTERM ends it, once it has connected; it completes once; it restarts only with nothing set up |
| Control channel | loss, duplication, reordering, ids that wrap around | a Fifo each way; never full for ever; all is acknowledged |
| DNS scripts | two scripts at once, `bash -e`, a primary service that changes | settings come back, on their service; pushed servers are used; manual ones are kept |

`PROJECT.json` lists every hazard at its line with the properties aimed at it.

## 2. Modules

```
ClientThread <- VPNConnectionManager <- OneVPNHelper <-+
                  |                                    +- OneVPN
                  | Tunnel (its contract)      App <---+
                  |   ^                         ^
                  |   | refines                 | refines
                  |  OpenVPNProcess            Application -> ServerMenu, XPCConnection
ServiceSetup      DnsScripts
Reliable -refines-> Fifo
```

An arrow `<-` is EXTENDS; "refines" is a property of the detailed module, with the
abstract one instantiated under a refinement mapping (Application extends App, so
there the mapping is the identity).

- **ClientThread**: one `ClientThread` object per element of `Threads`. A lock is a
  number, 0 before the first `start`; a waiting `join` remembers the lock it found.
- **VPNConnectionManager** extends it. A request has a program counter (`pc`), and its
  steps are the statements of `connectToServer:` and `disconnect` that read or write
  shared state. What the blocks capture (program, output, server) is indexed by the
  thread. `attempt` is the thread a request made, `starting` the one it found in
  `clientThread` when it sent `start` (`SendStart`): with two peers they may differ,
  and the before-start block of the other's thread then runs on this caller. `said`
  and `heard` separate what a program has printed from what the readability handler
  has read. The memory of an L2TP attempt's status (`cinfo`) may be freed while the
  request still reads it. A tunnel is "silent" when its service had gone down before
  it was stopped, so that no callback may ever come. `extStatus`, which only names the
  cause of a failure in an alert, is left out. A configuration file is the server it
  names. The set-up of the L2TP service is one step that succeeds, fails, or fails
  with the preferences lock held: ServiceSetup is that step in detail. The programs
  are `TunnelUp`, `TunnelFails` and `TunnelStops`, external here.
- **Tunnel** restates those actions for one program, as a specification of its
  own: what the manager relies on. **OpenVPNProcess** shows that `openvpn` keeps to
  it: one process with the options of `OpenVPNConfig.m` (a client that pulls,
  `remap-usr1 SIGTERM`, keepalive, up and down scripts, no `persist-tun`), through its
  restart by SIGHUP too (section 4). A step is
  the code between two looks at `signal_received`; the signal handler, the timers
  and the server's messages write that variable by assignment or `register_signal`,
  as each line of the code does. The peer is external.
- **ServiceSetup**: one attempt at a time, one step per call that fails or changes
  the preferences or the keychain; each may instead fail, with what the early return
  leaves behind. The preferences are external: a session sees what was stored when
  it was opened or synchronised, a commit is refused when the stored preferences
  have changed since, and a lock that is never released is freed when its process
  ends. `HelperDies`, `SwitchLocation`, `DeleteService` and `DeleteItem` may come
  between any two steps.
- **OneVPNHelper** adds the handlers of the peers and the death of the helper, killed
  or by what it does itself (`Raises`): a nil launch path, a task or a thread started
  twice, freed memory.
- **App** is the connect view with the delegate: enabled controls, what is shown,
  requests out (`inFlight`). On its own, it is given any reply of the right type, or
  the empty one of a broken connection, which the history variable `broken` records;
  in a build where that one does not parse, its completion is never called (`NotParsed`,
  `XPCConnection.m:96-100`). `told` records that the status was told.
- **Application** composes App with **ServerMenu** (the popup, the array, the rows,
  answers in any order, queued reloads) and **XPCConnection** (the one variable that
  the event handlers of all connections read, and INVALID events: of a cancelled
  connection, which comes later, and of one whose service cannot be found, which comes
  at any time). During an upgrade the main thread is in
  `SMJobBless`, so the user's steps and the replies wait; the event handlers do not.
- **OneVPN** composes App and OneVPNHelper: each launch of the application is a peer
  with an `inbox` and an `outbox`. The first run may find an older helper
  (`OutdatedReply`) and replace it. A death of the helper answers what is waiting in
  the connection and what its handler was serving with errors. Requests carry what the
  application puts in them and parse: `MessageProcessor.m:37-40`, which would drop one
  that does not, is not taken.
- **DnsScripts**: one program counter per `openvpn`; a step is one `scutil`
  session that writes, or a run of sessions that only read; so the down script reads the
  saved keys in one step and restores three keys in three, and another script may come
  between any two. A setting is the sequence of its words.
  Only the arguments that the manager passes (`VPNConnectionManager.m:715-716`) are
  modelled: no TAP, no `-p`, monitoring on. A machine (services, tunnels, system,
  settings, what may fail) is drawn in the initial state.
- **Reliable**: both ends of the control channel over a network that loses, repeats
  and reorders. The n-th packet carries the id n % `IdSpace`, and every comparison is
  the code's, on ids. `started` is the state of the session as far as it matters here:
  nothing but the first packet is written before that one was acknowledged
  (`ssl.c:2317`). **Fifo** is what the layer promises.

The modules `...Proofs` hold the theorems (section 6): HelperProofs those of
ClientThread and of OneVPNHelper, whose steps are steps of that class; SessionProofs
those of OneVPN, on top of the proofs of both its halves.

The modules `MC...` give the constants values. The type invariants of the single
components (`ThreadTypeOK`, `HelperTypeOK`, `AppTypeOK`, `ServiceTypeOK`,
`ProcessTypeOK`) are proved for all values, so no run of their own repeats them.
Operators marked "Mutant" are plausible bugs of the definition that follows them; they
are not part of any specification, and each property is known to fail when its mutant
takes the place of the definition.

## 3. Runs

| Run | Instance | Shows |
| --- | --- | --- |
| `client_thread` | 2 threads, 2 callers, 2 starts | `JoinAfterBlock`, `DeadLockIsForever`; under fairness `JoinEnds` |
| `helper` | 1 peer, UDP, TCP and PPTP, 2 threads, 2 starts, 1 death | `OkMeansConnected`, `ReportsDialledServer`, `StuckOnlyOnRefusedStart`, `StartedThreadHasTunnel`; under fairness `RequestsEnd` |
| `session` | 1 launch, TCP and L2TP, 2 threads, a helper that stays alive | `TypeOK` of the application and the helper; `ShownIsReal`, `DisconnectedIsDown`, `OneTunnel`; under fairness `EveryRequestAnswered` |
| `relaunch` | 2 launches (2 peers), quit at any moment, TCP and L2TP, 2 threads, 2 starts; deaths by what the helper does itself | `EachRequestOnce`, `RelaunchIsTold` |
| `failed_disconnect` | as `session` | a violation: a refused disconnect is shown as done |
| `app` | 3 servers, 2 protocols, 3 list requests, an upgrade, any replies, a connection that may break | `OneRequestAtATime`, `ConnectedServerIsFixed`, `UserHasControl`, `TableIsCurrent`, `ListFollowsPopup`, `ConnectionIsHeld`; that Application implements App (`ViewIsApp`) |
| `service_setup` | 3 attempts, 2 servers, 2 locations, 2 changes by the user | `DialledIsComplete`, `StoredIsWhole`, `OneItemPerKind`, `OnlyFailuresKeepLock`; under fairness `AttemptEnds` |
| `openvpn_process` | TCP and UDP, 2 SIGTERMs, 2 push requests, notifications of up to 2 seconds | `ScriptsPaired`, `CompletedIsUp`, `NoRestart`; under fairness that it implements Tunnel (`IsATunnel`) |
| `openvpn_assert` | the same, 1 SIGTERM, 1 second | a violation: the assertion of `sig.c:313` fails |
| `reliable` | buffers of 2, ids of 4, the client writes 5 packets and the server 1, 2 packets in the network | `ReliableTypeOK`, `PurgedWasReceived`, `BufferNeverBlocks`; that it implements Fifo (`ChannelIsFifo`); under fairness `EveryPacketAcked` |
| `dns_scripts` | 1 tunnel over 2 services of which either becomes primary; 2 tunnels that overlap on 1 service, `launchctl` may fail | `SettingsReturn` and `PushedServersUsed` with one tunnel and no failure; `ManualServersKept` in every case with one service |
| `dns_manual_domain` | 1 tunnel, 1 service | a violation: a manual domain name is lost |

### Bounds

- `Threads` bounds connect attempts. Two are one live and one later attempt, and
  for every property about one thread replacing another that is the whole case;
  `HasSpareThread` and `ThreadLeft` keep a connect from starting without one. A
  thread serves one attempt; a death of the helper frees those without a tunnel.
- `MaxStarts` bounds the starts of one thread (the PPTP loop makes at most five);
  two give a lock that is replaced. `MaxCrashes` bounds deaths from outside. A second
  request never starts the thread of a PPTP request (`SendStart`): two tasks of one
  thread would be needed for it.
- `MaxListRequests`: three requests are enough for one answer to be overtaken by the
  second and the third. `MaxConnections` is not a bound: the code connects at launch
  and once more after an upgrade.
- `MaxAttempts`, `MaxMeddles`: a third attempt finds what two left behind in two
  locations; two changes by the user can undo each other.
- `MaxPushRequests` is `handshake_window / PUSH_REQUEST_INTERVAL` (12 by default),
  `MaxNotify` what a server may push; the process only compares them, and two
  distinguish first, middle and last. `MaxTerms`: a second SIGTERM is all it takes to
  meet the first one's effects; a third is like the second.
- `NSend`, `NRec` are 4 and 8 in `ssl.h`, and `AckSize` 8; small ones make the buffers
  fill and the ids wrap within the five packets (`IdSpace` 4 is the smallest that two
  windows fit in; see "How many ids" in section 4). `MaxNet` bounds the packets under
  way at once, not the losses or repetitions.
- In `dns_scripts` a service is set to what DHCP, a user, both or neither would set,
  and one to just what a server pushes: there a script finds nothing to change.
- `MaxWords` bounds the search domains a script sets: they grow by each up script
  that finds another tunnel's. The scripts of one tunnel never come near it.
- Symmetry over threads and tunnels is used in safety runs only.
- Deadlock is allowed where the code can hang or stop: on a lock nobody signals, on
  the preferences lock, after the application quit, when the process has exited, or
  where a bound ends the run.

### Fairness

- Helper and session: weak fairness for each handler, block and output handler: they
  are threads the system schedules. Weak fairness for a launched program to settle
  and a terminated one to end: the second is what `openvpn_process` shows of
  `openvpn`; the PPP controller has its own timeouts. None for the user, for
  failures, or for a tunnel that is up to go down.
- `openvpn`: weak fairness of the process as a whole (the system runs it, and its
  scripts end), and strong fairness of the timer of the exit notification
  (`NotificationWakes`): other events may keep the loop busy, but a second passes
  again and again, and `process_coarse_timers` then finds the timer due. Tunnel asks
  for weak fairness of `Stops` only.
- `Reliable`: each end begins, reads what is next and sends acknowledgements; no
  packet stays in the network; and the oldest packet without an acknowledgement, which
  `reliable_send` retries with no limit, gets through again and again, and so does
  its acknowledgement. Fairness of the network is what a reliable channel assumes:
  without it nothing is delivered, and the code then ends the session by a timeout.
- `ServiceSetup`: weak fairness of the steps of the attempt, which are statements of
  one thread. A commit that waits for the lock of another session is not a step.

## 4. What the checks show

- **A poll race leaves state behind.** `openvpn` may print its completion line and
  die before the poll loop looks again (`VPNConnectionManager.m:760-774`). The
  connect is refused, but `connectedServer` is set and `clientThread` was never
  started. The next disconnect joins a lock that nobody signals.
  `StuckOnlyOnRefusedStart` says this is the only lock a disconnect can hang on,
  `DeadLockIsForever` that it hangs for good. Within one launch of the application
  that disconnect is never sent, since after a refusal the button connects again:
  `EveryRequestAnswered` holds there. An application launched anew asks for the status,
  is told "connected", and can send it. So `EveryRequestAnswered` and `ShownIsReal` are
  checked for one launch only.
- **Tunnels without an owner.** A connect while another connection is up replaces
  `clientThread`, and the thread of the old one, with its tunnel, has nobody left to
  cancel it. One launch never does that (`OneTunnel`). Two peers that cross do, and
  more: one may start, join or forget the thread of the other, start it twice, or free
  the status that the other reads, which ends the helper. No property promises anything
  of their tunnels; what holds is what the threads promise and that each request of
  the running application is answered once (`EachRequestOnce`). `RelaunchIsTold` says
  what a relaunch may count on: if it comes while nothing is under way, the new run is
  told of the tunnel that the old one left, and can end it.
- **A disconnect that waits for nothing.** The block of an L2TP connection logs the
  status of the service and then waits for a callback (`VPNConnectionManager.m:450`,
  `:477`). If the service had gone down by itself there may be none, and the disconnect
  is never answered; `RequestsEnd` and `EveryRequestAnswered` name this case
  (`WaitsForSilence`), as they do the lock of a refused start and the preferences lock.
- **A refused disconnect is shown as done** (`failed_disconnect`):
  `ConnectViewController.m:165` reads the status of a disconnect from the field of
  a connect response, so the branch that keeps the connection shown is dead.
- **A broken connection.** After the empty reply of a broken connection a menu button
  may stay disabled (an error in a connect), or the menu be enabled under a connection
  that is still shown (an error in a disconnect). `ConnectedServerIsFixed` is therefore
  stated as long as no reply was empty (`~broken`), and `UserHasControl` says two things:
  once the status was told, the user always has some control when nothing is out; and
  before the connection broke, one that leads on. Before the status was told there may be
  none: a helper that is missing, refuses the paths or does not answer leaves the window
  as it was made, with everything disabled. `OneRequestAtATime` and `EachRequestOnce`
  hold nevertheless.
- **Late events of the application.** `XPCConnection.m:56` releases the variable, not
  the connection of the event. An INVALID of the old connection that comes after the
  upgrade has connected again releases the new connection, or NULL: `ConnectionIsHeld`
  is stated unless that happened (`lateInvalid`). Otherwise each connection is
  released once, by its own INVALID. A live connection that becomes INVALID is
  released too, but goes on counting as connected. An answer of the web service that
  is overtaken leaves the list of another protocol (`MenuViewController.m:150`):
  `ListFollowsPopup` is stated for the case that the last request's answer was applied
  last.
- **After the helper's death** its paths are gone until the application is launched
  again: a connect raises in `LaunchTask`, which ends the helper once more.
- **The L2TP service.** Whatever attempts have failed or died before, what is dialled
  is complete (`DialledIsComplete`) and what is stored can be dialled
  (`StoredIsWhole`). A failure between lock and unlock returns without unlocking
  (`VPNConnectionManager.m:225-351`), and the next attempt waits until the helper dies:
  `OnlyFailuresKeepLock` and `AttemptEnds` say that this is the only way for an
  attempt to block another. When the user switches the location or deletes a
  service or an item during an attempt, the attempt may dial what is no longer
  complete: `DialledIsComplete` is stated for attempts without that.
- **The openvpn process.** The program assigns `SIGUSR1` over a `SIGTERM` in several
  places; `remap-usr1 SIGTERM` is what makes it end nevertheless, and once it is in its
  event loop a `SIGTERM` always ends it (`IsATunnel`). Before, one can be lost in two ways:
  - `init_instance` clears `signal_received` (`init.c:3348`) when the handlers have
    long been installed, so a `SIGTERM` from the time of reading the options is lost,
    although `doc/openvpn.8` says that it "Causes OpenVPN to exit gracefully".
  - A `SIGTERM` that comes while the server is looked up or connected to sets
    `c->sig->hard` (`sig.c:97-101`), which stays set when the number of the signal is put
    aside (`socket.c:1520-1524`). If the retries then end with `SIGUSR1`
    (`socket.c:1066`), `close_context` makes a `SIGHUP` of it (`init.c:3765-3769`),
    `remap_signal` leaves that alone, and `openvpn_main` repeats its outer loop
    (`openvpn.c:296`). `NoRestart` says that this is the only way to restart, and that
    nothing has been opened, run or said when it happens.

  In `IsATunnel` only a `SIGTERM` from the event loop on counts. The helper does not meet
  the others: it terminates a task only when its connect has succeeded, which needs the
  completion message (`VPNConnectionManager.m:746`, `:741`). One more limit:
  - An up script that fails ends the process without the down script, since
    `static_context` is set when the script has returned: `ScriptsPaired` has a
    sequence of its own for it.
- **The failing assertion** (`openvpn_assert`). Over TCP, when a server pushes
  `explicit-exit-notify` in the first of two PUSH_REPLY messages and SIGTERM comes
  between them, the exit notification begins; the second message then takes the option
  away (`init.c:1808`), and the timer's assertion (`sig.c:313`) ends the process.
  `openvpn_exit` still closes what is open, so `ScriptsPaired` is not affected, and
  the process ends as it was told to, with an error.
- **The control channel.** It is a Fifo each way under any loss, duplication and
  reordering (`ChannelIsFifo`), with one proviso: a packet does not stay in the network
  while its sender goes through half of the ids (`Fresh`). `reliable_pid_in_range2`
  treats a replay from before a wrap of the ids as out of the window while the window
  is just behind the wrap; the comment above it (`reliable.c:69-70`) has replays
  included. Such a replay is not acknowledged again, so if the first acknowledgement
  was lost it would be sent until the session times out; `EveryPacketAcked` excludes
  it. With 2^32 ids a session of openvpn does not get there. With the four ids of the
  run the exception begins once two packets were read, so what the run demands is that
  these arrive and that the last one, once it is sent, is acknowledged: it is the weakest
  of the liveness results, and instances with more ids take longer than a run should.
- **How many ids.** Two receive windows of ids are not enough. A sender may have
  `NSend` packets out while the receiver reads on; with `NSend = NRec = 3` and six ids
  the id of a packet beyond the window is then taken for a replay, acknowledged, and
  dropped by its sender without having been received. `ReliableAssumption` therefore
  asks for `2 * (NSend + NRec - 1)` ids, unless `NSend` is at most 2. The proof of
  `PurgedWasReceived` failed there first; TLC finds the case with these values. The
  code, with 4, 8 and 2^32, is far from it.
- **DNS.** With one tunnel at a time the scripts restore exactly what they found, on
  the service it came from, whatever becomes primary. What the server pushed is used,
  with one exception that the proof of `PushedServersUsed` brought up: a script decides
  whether there is anything to change by the service that is primary when it looks, not
  by the one it is going to set. If another service with just those servers has become
  primary in between, it sets nothing. When `launchctl` fails, or two
  tunnels overlap, `SettingsReturn` does not hold: the next up script
  saves pushed settings as the service's own, and one that comes between the sessions of
  a down script changes what that restores. Name servers entered by hand stay in
  use even then (`ManualServersKept`, with one service: the up script reads the primary
  service in one session and its settings in later ones, from `client.up.sh:110` on,
  and a change in between mixes the settings of two). A manual domain name is lost
  (`dns_manual_domain`): it is read with the pattern of an array.

## 5. Assumptions

- The handlers of two peers run concurrently, those of one peer do not. `main.m`
  creates the listener on the main queue and sets no target queue for the peers; if
  the system served all peers on one queue, the behaviours with two peers would be
  fewer. The runs with one peer hold under either reading.
- An empty reply parses as an empty `XPCResponse`, as it does in a release build, or
  does not parse; every other message parses, since both programs are built from one
  protocol file.
- A program settles (is up or down) once it was launched. `openvpn` also ends when its
  up script fails, and runs the down script whenever a tunnel that was up ends: this
  is `ScriptsPaired` of OpenVPNProcess, and what DnsScripts starts from.
- Nothing but the helper and the system signals an `openvpn`, with SIGTERM. A process
  that is killed runs no down script; neither code sends SIGKILL.
- A session of the preferences works as `SystemConfiguration` documents lock, commit
  and stale sessions; services and items that others named `OneVPN` are out of scope.
- The system arbitrates item by item between `Setup:` and `State:` keys; a `scutil`
  session is atomic; `d.add` without `*` takes one word.
- The user and DHCP change a service's settings only between tunnels. A change made
  while a tunnel is up is overwritten when the down script restores.

## 6. Proofs

TLAPS checks every theorem for all values of the constants, under the named
assumptions of the modules (`ThreadAssumption`, `ServerAssumption`, `CrashAssumption`,
`AppAssumption`, `MenuAssumption`, `ApplicationAssumption`, `ServiceAssumption`,
`ProcessAssumption`, `ReliableAssumption`, `DnsAssumption`). Every safety property,
action property and refinement that a passing run checks is stated by a theorem (of
`IsATunnel`, the safety part), with the exception of `RelaunchIsTold`; the inductive
invariants were checked by TLC before they were proved.

| Module | Theorems (the property where the name differs) | Inductive invariant |
| --- | --- | --- |
| HelperProofs, threads | `ThreadTyping`, `SignalledOnlyWhenFinished`, `JoinReturnsAfterBlock`, `DeadLockHangs` | `ThreadInv` |
| HelperProofs, any peers | `HelperTyping`, `HelperSignalsFinished` (`SignalledIsFinished`), `HelperWaitsOnCreated` (`WaitsOnCreatedLock`), `HelperHangsUntilDeath` | `ThreadsInv` |
| HelperProofs, one peer | `TaskIsNeverNull` (`StartedThreadHasTunnel`), `SuccessIsDown` (`SuccessMeansDown`), `OkIsConnected`, `ReportIsDialled`, `StuckOnRefused` | `HeldInv`, `SoloInv` |
| AppProofs | `OneRequest`, `AppTyping`, `ServerIsFixed`, `ControlIsLeft` (`UserHasControl`) | `AppInv`, `ServerInv`, `ControlInv` |
| ApplicationProofs | `ViewImplementsApp` (a refinement), `OneRequestInAll`, `ControlIsLeftInAll`, `TableShowsServers`, `ListIsSelected`, `ConnectionHeld` | `MenuInv`, `HeldInv` |
| SessionProofs, any launches | `SessionTyping`, `RequestIsOnce` (`EachRequestOnce`) | `SessionInv` |
| SessionProofs, one launch | `ShownConnectionIsReal` (`ShownIsReal`), `ShownNoneIsDown` (`DisconnectedIsDown`), `RunsOneTunnel` (`OneTunnel`) | `AliveInv` |
| ServiceSetupProofs | `KeychainStaysSmall`, `LockIsReleased`, `DialsACompleteService`, `StoresWhole` (`StoredIsWhole`) | `Typed`, `KeychainInv`, `SetupInv` |
| OpenVPNProcessProofs | `ProcessIsTyped`, `ScriptsComeInPairs`, `CompletedMeansUp`, `RunsOnce`, `ImplementsTunnel` (a refinement) | `LifeInv` |
| ReliableProofs | `ReliableTyping`, `PurgesWhatWasReceived`, `NeverBlocks`, `IsFifo` (a refinement) | `ReliableInv` |
| DnsProofs | `SettingsComeBack`, `UsesPushedServers`, `KeepsManualServers` | `DnsInv` |

**Hypotheses.** Two groups of theorems have one beyond the assumptions. `OnePeer`:
there is at most one peer; with two, which share one manager, TLC finds each of the
five properties violated but `StartedThreadHasTunnel`, whose proof with one peer comes
with the others. `Alone` (SessionProofs): one launch of the application, which
is one peer, and no death of the helper from outside (`MaxCrashes = 0`); TLC finds
each of the three properties violated with two launches, and with one death. Both are
what the runs `helper` and `session` have, and each leaves servers, protocols, threads
and starts free. The other theorems hold for any number of peers, launches and deaths.

### The helper

- Threads: `SignalledIsFinished` is inductive with the types; with
  `WaitsOnCreatedLock` they give `JoinReturnsAfterBlock` and `DeadLockHangs` as action
  properties: a waiting caller can only be let through by a signal on the newest lock,
  and `start` refuses a thread that is not `allocated`. Inside the helper, its own
  steps and a death keep these invariants too.
- Any number of peers: `ThreadsInv` adds that a block runs for a thread, not for nil
  (`StartsSomething`), and that only a cancelled thread stops its tunnel. Nothing in it
  depends on whose thread a request starts, joins or forgets.
- With one peer, `TaskIsNeverNull` and `SuccessIsDown` are not inductive. They are
  proved together (`HeldInv`): the types; the properties; a request starts the thread
  it made, which is the manager's and `allocated` while it dials (`StartsOwn`); its
  tunnel is as far as the program counter says (`DiallingProgress`); and a running
  tunnel has a thread or the request that dials it (`RunningTunnelIsHeld`). Without
  `DiallingProgress` a thread could start before its program was launched, or a refused
  dial leave a program running.
- With one peer, further (`SoloInv`): a thread that is cancelled and still running is the
  manager's, and is being joined (`CancelledIsJoined`); a disconnect waits on the
  newest lock of that thread (`Disconnecting`); a connect has the manager's thread and
  the configuration file is its own (`Connecting`, `ConnectProgress`); the manager
  names the server dialled but for the moment before an L2TP connect stores it
  (`Reports`). `CancelledIsJoined` is what keeps a block that ends late from clearing
  `connectedServer` under the next connect.

### The application and the session

- AppProofs: a reply appends a request only where it removes one, and a control that
  sends is enabled only when nothing is out. `ServerIsFixed` is strengthened by
  `AskedForServer`: as long as the connection has not broken, while a connect is out
  nothing is shown connected and a server is chosen.
- ApplicationProofs: every step of the application with its menu and its connection is
  a step of App or leaves its variables alone, so what holds of App holds here with no
  new induction. The click on a row needs that rows are servers, which `MenuInv` gives.
- SessionProofs composes the two. A step of the application is a step of App with some
  reply, a step of the helper one of OneVPNHelper or a death, so both halves'
  invariants are cited, not proved again. What is new is `Pipeline`: the request of
  the running application waits, is served, or is answered, and nothing else is on
  its wires; that is `EachRequestOnce`. With one launch, `ShowsReal` says for each
  request and each place it can be in what it will tell (`Means`, `Tells`),
  `PendingFits` that what waits can be served, and `OneStarted` that a connect finds
  no thread started: without that last fact a connect could replace a live thread,
  and without the first a reply could arrive when it is no longer true.

### The L2TP service and the openvpn process

- ServiceSetupProofs: while an item is written, the old one found is all there is of
  its kind (`KeychainInv`), which is why deletions by the user do no harm.
  `DialsACompleteService` rests on `SetupInv`: for every program counter, what the
  session, the preferences and the keychain already hold of the service (`Progress`),
  as long as the user has not interfered with this attempt.
- OpenVPNProcessProofs: `LifeInv` has the types; `SetUp`, which scripts have run,
  whether the interface is open and whether an exit would close it, at each stage
  before the end; `TornDown`, the same for the stages of the end; `EndsByTerm`, that
  the process raises nothing before it connects, closes for SIGTERM only, and has a
  SIGHUP only between `close_context` and the loops of main, with nothing set up
  (`RestartsFresh`); `NotYetHeeded`, that a signal from before the event loop is an
  early one. `ImplementsTunnel` is the
  safety part of `IsATunnel`: the completion message is a `Completes`, which needs
  that it was not printed before; an exit is a `GoesDown`; everything else, the restart
  included, stutters.

### The control channel

The code compares ids only, so the module first proves what its comparisons say of
packets that are not too far apart: `reliable_pid_in_range1` measures a distance, a
window is taken whole across the wrap (`WindowIsTaken`) and the packet after it is
refused (`EdgeIsRefused`), `reliable_pid_min` is the order of packets less than half
of the ids apart. `ReliableInv` then says that they are never further apart: windows
reach back no further than their size (`BuffersFit`); data under way is younger than
half of the ids (`DataIsRecent`, since `Fresh` drops what is older); what is or will be
acknowledged was received, and an acknowledgement under way is younger than a round
(`AcksAreTrue`); a list of acknowledgements never holds one so old that later ones
overtake it by half of the ids (`AcksInOrder`), which is what bounds the age of an id
that is *about* to be sent. From these, an acknowledged id names one packet, a replay
is recognised, a receiver that waits has room. `IsFifo` follows: a write appends, a
read takes the front, everything else stutters; Fifo has no fairness, so this is the
whole of `ChannelIsFifo`.

### The DNS scripts

`DnsInv` has three parts. `DnsTyped`: the types, and what a script knows at each of
its points. `SingleInv`, with one tunnel and a working `launchctl`: the store is the
services' own but for the plan carried out on one service, and what was saved is that
service's own; the plan has the pushed servers unless some service had them when the
script looked. `ManualInv`, while the primary service stays, for any number of
tunnels: only that service is touched, and its own servers, if entered by hand, are
in the store, in what was saved and in every plan. The last two parts are why a script
that saves what another script has set still saves the right servers.

### What is only model-checked

Liveness (`JoinEnds`, `RequestsEnd`, `EveryRequestAnswered`, `AttemptEnds`,
`EveryPacketAcked`, the fairness of `IsATunnel`) and ENABLED are out of the prover's
reach. `RelaunchIsTold` has no proof yet. The three violations are counterexamples of
TLC. `EveryPacketAcked` is the weakest of the liveness results (section 4).

## 7. Not modelled

- Of `openvpn`: the state machine of the TLS sessions, the keys and their renewal (to
  the process it is `heard`, and an error in `CheckTls`; to the channel it is what
  reads and writes); parsing options; routes, interfaces, proxies and the management
  interface, which the configuration does not use or which are calls to the system;
  server mode, which the application does not run; restarts by SIGUSR1, which
  `NoRestart` shows to be unreachable here.
- An exception for a configuration file that cannot be written; the contents of the
  files beyond the server.
- In the scripts: TAP, flushing caches, resetting the interface, logs, and changes of
  the settings under a tunnel.
- The encoding of the protocol's messages (generated code); views, colours, texts;
  vendored code other than `openvpn`.

## 8. What could come next

- Theorems: `RelaunchIsTold` for any launches; the action properties behind the
  liveness results (what a step may do to a request that waits, to a lock that is
  joined, to a packet that is not acknowledged); `ShownIsReal` for any launches, with
  what a refused start leaves behind as the only exception.
- The TLS sessions of `ssl.c`, with the renewal of keys under traffic, on top of Fifo.
- DnsScripts with changes of the settings under a tunnel.
- ServiceSetup in the place of the one step in VPNConnectionManager, with the two
  peers that may run two attempts at once.
