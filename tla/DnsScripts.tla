----------------------------- MODULE DnsScripts -----------------------------
(***************************************************************************)
(* The two shell scripts openvpn runs around a tunnel: client.up.sh, once  *)
(* the tunnel's interface is up, saves the DNS and SMB settings of the     *)
(* primary network service in the dynamic store of the system and replaces *)
(* them by what the server pushed; client.down.sh, when the tunnel ends,   *)
(* puts the saved settings back.  The scripts of two tunnels share one     *)
(* place for what they save, State:/Network/OpenVPN.                       *)
(*                                                                         *)
(* A setting is the sequence of its words, << >> when it has no value: the *)
(* shell joins and splits them in just that way.  A step is one scutil     *)
(* session, or the sessions of a script that only read; everything else    *)
(* (other tunnels, the system's choice of primary service) may happen      *)
(* between two steps.                                                      *)
(***************************************************************************)
EXTENDS Naturals, Sequences, FiniteSets

CONSTANTS Machines,       \* the systems the scripts run on, of which one is chosen
          Word,           \* what the shell takes for one word
          MaxWords,       \* bound: the words of the search domains a script sets
          NoKey           \* a key that is not in the dynamic store

\* The items of a key: ServerAddresses, SearchDomains, DomainName; NetBIOSName,
\* Workgroup, WINSAddresses.  The keys of a service; what an up script saves.
Words == Seq(Word)
DNSItems == [sa : Words, sd : Words, dn : Words]
SMBItems == [nn : Words, wg : Words, wa : Words]
DNSKey == DNSItems \cup {NoKey}
SMBKey == SMBItems \cup {NoKey}
ServiceKeys == [stateDNS : DNSKey, setupDNS : DNSKey, stateSMB : SMBKey, setupSMB : SMBKey]
\* What a server pushes: dhcp-option DNS, DOMAIN, DOMAIN-SEARCH and WINS.
PushedItems == [dns : Words, domain : Words, search : Words, wins : Words]
SavedKeys(services) == [service : services, setupKeys : BOOLEAN, oldDNS : DNSKey,
                        oldDNSSetup : DNSKey, oldSMB : SMBKey]

\* A machine: the openvpn processes that may run at once and what their servers may
\* push, its network services and what each may be set to without any tunnel, the
\* version of its system, whether launchctl can fail to load or unload the monitor,
\* and whether the primary service can change.
ASSUME DnsAssumption ==
  /\ \A m \in Machines :
       /\ IsFiniteSet(m.tunnels) /\ m.services # {}
       /\ m.settings \subseteq ServiceKeys /\ m.pushes \subseteq PushedItems
       /\ NoKey \notin m.services \cup SavedKeys(m.services)
       /\ m.os \in {"10.6", "10.7", "10.8"}     \* 10.8 and later are alike
       /\ m.launchctlFails \in BOOLEAN /\ m.primaryMoves \in BOOLEAN
  /\ {"openvpn", "<dictionary>"} \subseteq Word    \* which the scripts contain
  /\ NoKey \notin DNSItems \cup SMBItems
  /\ MaxWords \in Nat

VARIABLES machine,  \* the system the scripts run on
          store,    \* Setup: and State: DNS and SMB keys of every service
          own,      \* history: the same keys as they would be with no tunnel
          primary,  \* State:/Network/Global/IPv4, PrimaryService
          saved,    \* State:/Network/OpenVPN and its OldDNS, OldDNSSetup, OldSMB
          pc,       \* where each tunnel's script is
          job       \* the shell variables of each tunnel's script

vars == <<machine, store, own, primary, saved, pc, job>>

Tunnels == machine.tunnels
Services == machine.services
OSVersion == machine.os
Settings == machine.settings
Pushes == machine.pushes
LaunchctlFails == machine.launchctlFails
PrimaryMoves == machine.primaryMoves

\* A key without items.
NoDNS == [sa |-> << >>, sd |-> << >>, dn |-> << >>]
NoSMB == [nn |-> << >>, wg |-> << >>, wa |-> << >>]

\* What `show` prints of a key: its items, none when there is no such key.
Items(key, none) == IF key = NoKey THEN none ELSE key

-----------------------------------------------------------------------------
(* What the up script reads. *)

\* The system's arbitration "between manual and DHCP data" (client.up.sh:67):
\* what a service resolves names with, State:/Network/Global when it is primary.
Arbitrated(setup, state) ==
  [i \in DOMAIN setup |-> IF setup[i] # << >> THEN setup[i] ELSE state[i]]

CurDNS(s) == Arbitrated(Items(store[s].setupDNS, NoDNS), Items(store[s].stateDNS, NoDNS))
CurSMB(s) == Arbitrated(Items(store[s].setupSMB, NoSMB), Items(store[s].stateSMB, NoSMB))

\* The manual domain name as the script reads it: the pattern looks for an
\* array, so it finds the array printed after the name, or matches nothing and
\* leaves the whole text, which begins with the word <dictionary>.
ManDomainReadings(dns) ==
  IF dns.dn = << >> THEN {<< >>}
                    ELSE {<<"<dictionary>">>} \cup ({dns.sa, dns.sd} \ {<< >>})

DefaultDomain == <<"openvpn">>

-----------------------------------------------------------------------------
(* What the up script decides (the FIN_ and SKP_ variables). *)

\* One item that is not aggregated: a manual value wins over a pushed one.
FinItem(dyn, man, cur) ==
  CASE dyn = << >> -> cur
    [] dyn # << >> /\ man # << >> -> man
    [] OTHER -> dyn

\* Mutant: a pushed name server wins over a manual one.
PushedServersWin(dyn, man, cur) == IF dyn = << >> THEN cur ELSE dyn

FinServers(dyn, man, cur) == IF dyn = << >> \/ man # << >> THEN cur ELSE dyn

\* Search domains, -p not given: pushed ones go in front of the current ones,
\* else the domain name takes their place; manual ones are left alone.
FinSearch(dyn, domain, man, cur) ==
  CASE man # << >> -> cur
    [] man = << >> /\ dyn # << >> -> dyn \o cur
    [] man = << >> /\ dyn = << >> /\ domain \notin {<< >>, <<"localdomain">>} -> domain
    [] OTHER -> cur

FinDNS(push, manDomain, man, cur) ==
  LET pushed == IF push.domain = << >> THEN DefaultDomain ELSE push.domain
      domain == FinItem(pushed, manDomain, cur.dn)
  IN  [sa |-> FinServers(push.dns, man.sa, cur.sa),
       sd |-> FinSearch(push.search, domain, man.sd, cur.sd),
       dn |-> domain]

FinSMB(push, man, cur) ==
  [nn |-> FinItem(<< >>, man.nn, cur.nn),
   wg |-> FinItem(<< >>, man.wg, cur.wg),
   wa |-> FinItem(push.wins, man.wa, cur.wa)]

\* Mutant: one item that stays as it is holds the others back.
SkipsOnOne(fin, cur) == \E i \in DOMAIN fin : fin[i] \in {<< >>, cur[i]}

\* Nothing of a key is set when every item has no value or its current one.
Skips(fin, cur) == \A i \in DOMAIN fin : fin[i] \in {<< >>, cur[i]}

UsesSetupKeys(man) ==
  CASE OSVersion = "10.6" -> FALSE
    [] OSVersion = "10.7" -> man.sa # << >> \/ man.sd # << >>
    [] OTHER -> TRUE

\* d.add without `*` takes one word.
Added(fin) ==
  [fin EXCEPT !.dn = IF fin.dn = << >> THEN << >> ELSE <<Head(fin.dn)>>]

-----------------------------------------------------------------------------
(* client.up.sh *)

Idle == [push |-> NoKey, service |-> NoKey, plan |-> NoKey]

\* openvpn has the tunnel up and runs the script: without a pushed name server
\* there is nothing to do, else the primary service is the one to change.
UpReadService(t) ==
  /\ pc[t] = "off"
  /\ \E push \in Pushes :
       \/ /\ push.dns = << >>
          /\ pc' = [pc EXCEPT ![t] = "running"]
          /\ job' = [job EXCEPT ![t] = [Idle EXCEPT !.push = push]]
       \/ /\ push.dns # << >>
          /\ pc' = [pc EXCEPT ![t] = "reading"]
          /\ job' = [job EXCEPT ![t] = [Idle EXCEPT !.push = push, !.service = primary]]
  /\ UNCHANGED <<store, own, primary, saved>>

\* The manual settings are those of the service, the current ones those of
\* whatever service is primary by now.
UpReadSettings(t) ==
  LET s == job[t].service
      man == Items(store[s].setupDNS, NoDNS)
      manSMB == Items(store[s].setupSMB, NoSMB)
  IN  /\ pc[t] = "reading"
      /\ \E manDomain \in ManDomainReadings(man) :
           LET dns == FinDNS(job[t].push, manDomain, man, CurDNS(primary))
               smb == FinSMB(job[t].push, manSMB, CurSMB(primary))
           IN  /\ Len(dns.sd) <= MaxWords
               /\ job' = [job EXCEPT ![t].plan =
                    [dns |-> dns, setsDNS |-> ~Skips(dns, CurDNS(primary)),
                     smb |-> smb, setsSMB |-> ~Skips(smb, CurSMB(primary)),
                     setupKeys |-> UsesSetupKeys(man)]]
      /\ pc' = [pc EXCEPT ![t] = "saving"]
      /\ UNCHANGED <<store, own, primary, saved>>

\* One scutil session: save the service's keys, then set the new ones.
Planned(keys, plan) ==
  [stateDNS |-> IF plan.setsDNS THEN Added(plan.dns) ELSE keys.stateDNS,
   setupDNS |-> IF plan.setsDNS /\ plan.setupKeys THEN Added(plan.dns) ELSE keys.setupDNS,
   stateSMB |-> IF plan.setsSMB THEN plan.smb ELSE keys.stateSMB,
   setupSMB |-> keys.setupSMB]

Old(s, setupKeys) ==
  [service |-> s, setupKeys |-> setupKeys, oldDNS |-> store[s].stateDNS,
   oldDNSSetup |-> store[s].setupDNS, oldSMB |-> store[s].stateSMB]

UpSave(t) ==
  LET s == job[t].service
      plan == job[t].plan
  IN  /\ pc[t] = "saving"
      /\ saved' = Old(s, plan.setupKeys)
      /\ store' = [store EXCEPT ![s] = Planned(store[s], plan)]
      /\ pc' = [pc EXCEPT ![t] = "loading"]
      /\ UNCHANGED <<own, primary, job>>

\* launchctl load: the script runs under bash -e, so a failure ends it, and
\* openvpn with it; the down script of that tunnel is then not run.
UpMonitor(t) ==
  /\ pc[t] = "loading"
  /\ \/ /\ pc' = [pc EXCEPT ![t] = "running"]
        /\ UNCHANGED job
     \/ /\ LaunchctlFails
        /\ pc' = [pc EXCEPT ![t] = "off"]
        /\ job' = [job EXCEPT ![t] = Idle]
  /\ UNCHANGED <<store, own, primary, saved>>

-----------------------------------------------------------------------------
(* client.down.sh *)

ScriptEnds(t) ==
  /\ pc' = [pc EXCEPT ![t] = "off"]
  /\ job' = [job EXCEPT ![t] = Idle]

\* The tunnel ends (terminated, or on its own) and the script looks for what an
\* up script saved; unloading the monitor may fail and end the script there.
DownRead(t) ==
  /\ pc[t] = "running"
  /\ \/ /\ saved = NoKey \/ LaunchctlFails
        /\ ScriptEnds(t)
     \/ /\ saved # NoKey
        /\ pc' = [pc EXCEPT ![t] = "restoring"]
        /\ job' = [job EXCEPT ![t].service = saved.service,
                              ![t].plan = [setupKeys |-> saved.setupKeys]]
  /\ UNCHANGED <<store, own, primary, saved>>

\* The saved keys are read: one with only TunnelblickNoSuchKey stands for a key that
\* did not exist (NoKey), and will be removed; any other will be set.
DownReadOld(t) ==
  LET isNoSuchKey(old) == saved # NoKey /\ saved[old] = NoKey
  IN  /\ pc[t] = "restoring"
      /\ pc' = [pc EXCEPT ![t] = "restoringDNS"]
      /\ job' = [job EXCEPT ![t].plan =
           [setupKeys |-> job[t].plan.setupKeys, removesDNS |-> isNoSuchKey("oldDNS"),
            removesSetup |-> isNoSuchKey("oldDNSSetup"), removesSMB |-> isNoSuchKey("oldSMB")]]
      /\ UNCHANGED <<store, own, primary, saved>>

\* Then each is removed, or set to what the saved key holds by now: another tunnel's
\* script may have put TunnelblickNoSuchKey there, which has no item, or have removed
\* it, and then nothing is set.
Restored(key, removes, old, none) ==
  CASE removes -> NoKey
    [] ~removes /\ saved = NoKey -> key
    [] OTHER -> Items(saved[old], none)

\* Mutant: the service that is primary by now is restored.
RestoreOnPrimary(t) ==
  /\ pc[t] = "restoringDNS"
  /\ store' = [store EXCEPT ![primary].stateDNS =
                 Restored(@, job[t].plan.removesDNS, "oldDNS", NoDNS)]
  /\ pc' = [pc EXCEPT ![t] = "restoringSetup"]
  /\ UNCHANGED <<own, primary, saved, job>>

DownRestoreDNS(t) ==
  /\ pc[t] = "restoringDNS"
  /\ store' = [store EXCEPT ![job[t].service].stateDNS =
                 Restored(@, job[t].plan.removesDNS, "oldDNS", NoDNS)]
  /\ pc' = [pc EXCEPT ![t] = "restoringSetup"]
  /\ UNCHANGED <<own, primary, saved, job>>

DownRestoreSetup(t) ==
  /\ pc[t] = "restoringSetup"
  /\ store' = IF job[t].plan.setupKeys
               THEN [store EXCEPT ![job[t].service].setupDNS =
                       Restored(@, job[t].plan.removesSetup, "oldDNSSetup", NoDNS)]
               ELSE store
  /\ pc' = [pc EXCEPT ![t] = "restoringSMB"]
  /\ UNCHANGED <<own, primary, saved, job>>

DownRestoreSMB(t) ==
  /\ pc[t] = "restoringSMB"
  /\ store' = [store EXCEPT ![job[t].service].stateSMB =
                 Restored(@, job[t].plan.removesSMB, "oldSMB", NoSMB)]
  /\ pc' = [pc EXCEPT ![t] = "removing"]
  /\ UNCHANGED <<own, primary, saved, job>>

DownRemove(t) ==
  /\ pc[t] = "removing"
  /\ saved' = NoKey
  /\ ScriptEnds(t)
  /\ UNCHANGED <<store, own, primary>>

-----------------------------------------------------------------------------
(* The system around the scripts. *)

PrimaryChanges ==
  /\ PrimaryMoves
  /\ primary' \in Services \ {primary}
  /\ UNCHANGED <<store, own, saved, pc, job>>

\* The user or the network sets a service anew; bound: only between sessions.
SettingsChange(s) ==
  /\ saved = NoKey /\ \A t \in Tunnels : pc[t] = "off"
  /\ \E keys \in Settings : own' = [own EXCEPT ![s] = keys]
                         /\ store' = [store EXCEPT ![s] = keys]
  /\ UNCHANGED <<primary, saved, pc, job>>

Init ==
  /\ machine \in Machines
  /\ own \in [Services -> Settings]
  /\ store = own
  /\ primary \in Services
  /\ saved = NoKey
  /\ pc = [t \in Tunnels |-> "off"]
  /\ job = [t \in Tunnels |-> Idle]

Next ==
  /\ UNCHANGED machine
  /\ \/ \E t \in Tunnels :
          \/ UpReadService(t) \/ UpReadSettings(t) \/ UpSave(t) \/ UpMonitor(t)
          \/ DownRead(t) \/ DownReadOld(t) \/ DownRestoreDNS(t) \/ DownRestoreSetup(t)
          \/ DownRestoreSMB(t) \/ DownRemove(t)
     \/ PrimaryChanges
     \/ \E s \in Services : SettingsChange(s)

DnsSpec == Init /\ [][Next]_vars

-----------------------------------------------------------------------------
(* Properties. *)

\* What is said of a machine whose tunnels do not overlap and whose scripts do not
\* fail; with them the scripts save what another script has set.
OneAtATime == Cardinality(Tunnels) = 1 /\ ~LaunchctlFails

\* SettingsReturn: once a tunnel is gone and nothing is saved, every service is
\* set exactly as it would be had there never been a tunnel, keys that did not
\* exist included, even when the primary service has changed under the tunnel.
\* (One tunnel at a time, and launchctl works.)
SettingsReturn ==
  (OneAtATime /\ saved = NoKey /\ \A t \in Tunnels : pc[t] = "off") => store = own

\* ManualServersKept: a service whose name servers were entered by hand resolves
\* with them at every moment, also while tunnels overlap and scripts fail
\* (client.up.sh:293, "Ignoring ServerAddresses ... set manually").  (While the
\* primary service stays: the script reads what is manual of the service it found
\* first, and what is current of the one that is primary by then.)
ManualServersKept ==
  ~PrimaryMoves => \A s \in Services :
    LET man == Items(own[s].setupDNS, NoDNS).sa
    IN  man # << >> => CurDNS(s).sa = man

\* PushedServersUsed: while a tunnel with pushed name servers is up, the service
\* its script has set resolves with them unless its servers were entered by hand:
\* no name is looked up outside the tunnel for as long as that service is primary.
\* (One tunnel at a time, and no other service has those servers anyway: if that one
\* becomes primary under the script, the script finds nothing to change.)
PushedServersUsed ==
  \A t \in Tunnels :
    LET s == job[t].service
    IN  ( /\ OneAtATime
          /\ pc[t] \in {"loading", "running"} /\ s # NoKey
          /\ Items(own[s].setupDNS, NoDNS).sa = << >>
          /\ \A r \in Services \ {s} : CurDNS(r).sa # job[t].push.dns )
           => CurDNS(s).sa = job[t].push.dns

\* ManualDomainKept: a service whose domain name was entered by hand keeps it
\* while a tunnel is up (client.up.sh:257, "Ignoring DomainName ... because
\* DomainName was set manually").
ManualDomainKept ==
  \A s \in Services :
    LET man == Items(own[s].setupDNS, NoDNS).dn
    IN  man # << >> => CurDNS(s).dn = man

=============================================================================
