------------------------------ MODULE DnsProofs ------------------------------
(***************************************************************************)
(* What holds of the DNS scripts on every machine, whatever servers push   *)
(* and services are set to: with one tunnel at a time, that the settings   *)
(* come back and that pushed servers are used; with any number of tunnels, *)
(* that servers entered by hand are kept.                                  *)
(***************************************************************************)
EXTENDS DnsScripts, FiniteSetTheorems, TLAPS

Plans == [dns : DNSItems, setsDNS : BOOLEAN, smb : SMBItems, setsSMB : BOOLEAN,
          setupKeys : BOOLEAN]

\* What the down script has read, of its tunnel and of the saved keys.
DownPlans == [setupKeys : BOOLEAN, removesDNS : BOOLEAN, removesSetup : BOOLEAN,
              removesSMB : BOOLEAN]

Setting == {"restoringDNS", "restoringSetup", "restoringSMB"}
Points == {"off", "reading", "saving", "loading", "running", "restoring", "removing"}
            \cup Setting
Jobs == [push : PushedItems \cup {NoKey}, service : Services \cup {NoKey},
         plan : Plans \cup [setupKeys : BOOLEAN] \cup DownPlans \cup {NoKey}]

\* What a script has found out at each of its points.
JobFits(t) ==
  /\ pc[t] \in {"reading", "saving", "loading"} =>
       job[t].push \in PushedItems /\ job[t].push.dns # << >> /\ job[t].service \in Services
  /\ pc[t] \in {"saving", "loading"} => job[t].plan \in Plans
  /\ pc[t] = "running" /\ job[t].service # NoKey =>
       job[t].push \in PushedItems /\ job[t].push.dns # << >> /\ job[t].plan \in Plans
  /\ pc[t] = "restoring" => job[t].service \in Services /\ job[t].plan.setupKeys \in BOOLEAN
  /\ pc[t] \in Setting => job[t].service \in Services /\ job[t].plan \in DownPlans

DnsTyped ==
  /\ machine \in Machines
  /\ primary \in Services
  /\ own \in [Services -> ServiceKeys]
  /\ store \in [Services -> ServiceKeys]
  /\ saved \in SavedKeys(Services) \cup {NoKey}
  /\ pc \in [Tunnels -> Points]
  /\ job \in [Tunnels -> Jobs]
  /\ \A t \in Tunnels : JobFits(t)

-----------------------------------------------------------------------------
(* One tunnel at a time. *)

OwnDNS(s) == Arbitrated(Items(own[s].setupDNS, NoDNS), Items(own[s].stateDNS, NoDNS))
OwnServers(s) == Items(own[s].setupDNS, NoDNS).sa

\* What was saved is the service's own.
SavedIsOwn(s) ==
  /\ saved # NoKey /\ saved.service = s
  /\ saved.oldDNS = own[s].stateDNS /\ saved.oldDNSSetup = own[s].setupDNS
  /\ saved.oldSMB = own[s].stateSMB

\* The script has done what it planned, or has nothing to undo.
IsSet(t) == pc[t] = "loading" \/ (pc[t] = "running" /\ job[t].service # NoKey)
IsUnset(t) == \/ pc[t] \in {"off", "reading", "saving"}
              \/ pc[t] = "running" /\ job[t].service = NoKey

SingleTunnel(t) ==
  LET s == job[t].service
      plan == job[t].plan
  IN  /\ IsUnset(t) => store = own /\ saved = NoKey
      /\ IsSet(t) => /\ SavedIsOwn(s) /\ saved.setupKeys = plan.setupKeys
                     /\ store = [own EXCEPT ![s] = Planned(own[s], plan)]
      /\ pc[t] \in {"restoring"} \cup Setting =>
           /\ SavedIsOwn(s) /\ saved.setupKeys = plan.setupKeys
           /\ \A r \in Services \ {s} : store[r] = own[r]
           /\ store[s].setupSMB = own[s].setupSMB
           /\ ~plan.setupKeys => store[s].setupDNS = own[s].setupDNS
      /\ pc[t] \in Setting =>
           /\ plan.removesDNS <=> saved.oldDNS = NoKey
           /\ plan.removesSetup <=> saved.oldDNSSetup = NoKey
           /\ plan.removesSMB <=> saved.oldSMB = NoKey
      /\ pc[t] \in {"restoringSetup", "restoringSMB"} => store[s].stateDNS = own[s].stateDNS
      /\ pc[t] = "restoringSMB" => store[s].setupDNS = own[s].setupDNS
      /\ pc[t] = "removing" => store = own

\* Pushed servers are in the plan, which is carried out unless some service has them.
PlanUsesPushed(t) ==
  LET s == job[t].service
      plan == job[t].plan
  IN  (pc[t] = "saving" \/ IsSet(t)) /\ OwnServers(s) = << >> =>
        /\ plan.dns.sa = job[t].push.dns
        /\ plan.setsDNS \/ \E r \in Services : OwnDNS(r).sa = job[t].push.dns

SingleInv == OneAtATime => \A t \in Tunnels : SingleTunnel(t) /\ PlanUsesPushed(t)

-----------------------------------------------------------------------------
(* Any number of tunnels, on the service that stays primary. *)

KeepsServers(s, servers) ==
  /\ Items(store[s].setupDNS, NoDNS).sa = servers
  /\ saved # NoKey => Items(saved.oldDNSSetup, NoDNS).sa = servers
  /\ \A t \in Tunnels : /\ pc[t] = "saving" => job[t].plan.dns.sa = servers
                        /\ pc[t] \in Setting => ~job[t].plan.removesSetup

OnlyPrimary ==
  /\ saved # NoKey => saved.service = primary
  /\ \A t \in Tunnels : job[t].service \in {primary, NoKey}
  /\ \A s \in Services \ {primary} : store[s] = own[s]
  /\ OwnServers(primary) # << >> => KeepsServers(primary, OwnServers(primary))

ManualInv == ~PrimaryMoves => OnlyPrimary

DnsInv == DnsTyped /\ SingleInv /\ ManualInv

-----------------------------------------------------------------------------
(* The operators on settings. *)

\* What the assumption says of the machine that was chosen.
LEMMA TheMachine ==
  ASSUME machine \in Machines
  PROVE  /\ IsFiniteSet(Tunnels) /\ Settings \subseteq ServiceKeys
         /\ Pushes \subseteq PushedItems
         /\ NoKey \notin Services /\ NoKey \notin SavedKeys(Services)
         /\ LaunchctlFails \in BOOLEAN /\ PrimaryMoves \in BOOLEAN
  BY DnsAssumption DEF Tunnels, Services, Settings, Pushes, LaunchctlFails, PrimaryMoves

\* The items of a key are items, those of no key have no value.
LEMMA ItemsFit ==
  /\ \A key \in DNSKey : Items(key, NoDNS) \in DNSItems
  /\ \A key \in SMBKey : Items(key, NoSMB) \in SMBItems
  <1>1. << >> \in Words
    BY DEF Words
  <1>2. NoDNS \in DNSItems /\ NoSMB \in SMBItems
    BY <1>1 DEF NoDNS, NoSMB, DNSItems, SMBItems
  <1> QED
    BY <1>2 DEF Items, DNSKey, SMBKey

\* What a service resolves with is its manual value of an item, if it has one.
LEMMA ArbitratedItems ==
  /\ \A a, b \in DNSItems :
       /\ Arbitrated(a, b).sa = IF a.sa # << >> THEN a.sa ELSE b.sa
       /\ Arbitrated(a, b).sd = IF a.sd # << >> THEN a.sd ELSE b.sd
       /\ Arbitrated(a, b).dn = IF a.dn # << >> THEN a.dn ELSE b.dn
       /\ Arbitrated(a, b) \in DNSItems
  /\ \A a, b \in SMBItems :
       /\ Arbitrated(a, b).nn = IF a.nn # << >> THEN a.nn ELSE b.nn
       /\ Arbitrated(a, b).wg = IF a.wg # << >> THEN a.wg ELSE b.wg
       /\ Arbitrated(a, b).wa = IF a.wa # << >> THEN a.wa ELSE b.wa
       /\ Arbitrated(a, b) \in SMBItems
  BY DEF Arbitrated, DNSItems, SMBItems

\* What the plan of a script says of the name servers, and that it is a plan.
LEMMA FinFits ==
  ASSUME NEW push \in PushedItems, NEW man \in DNSItems, NEW manDomain \in ManDomainReadings(man),
         NEW cur \in DNSItems
  PROVE  /\ FinDNS(push, manDomain, man, cur) \in DNSItems
         /\ FinDNS(push, manDomain, man, cur).sa = FinServers(push.dns, man.sa, cur.sa)
  <1>1. push \in [dns : Words, domain : Words, search : Words, wins : Words]
    BY DEF PushedItems
  <1>2. << >> \in Words /\ DefaultDomain \in Words /\ <<"<dictionary>">> \in Words
    <2>1. ASSUME NEW w \in Word
          PROVE  <<w>> \in Words
      BY DEF Words
    <2>2. << >> \in Words
      BY DEF Words
    <2>3. "openvpn" \in Word /\ "<dictionary>" \in Word
      BY DnsAssumption
    <2> QED
      BY <2>1, <2>2, <2>3 DEF DefaultDomain
  <1>3. manDomain \in Words
    BY <1>2 DEF ManDomainReadings, DNSItems
  <1> DEFINE pushed == IF push.domain = << >> THEN DefaultDomain ELSE push.domain
             domain == FinItem(pushed, manDomain, cur.dn)
  <1>4. domain \in Words
    BY <1>1, <1>2, <1>3 DEF FinItem, DNSItems
  <1>5. FinServers(push.dns, man.sa, cur.sa) \in Words
    BY <1>1 DEF FinServers, DNSItems
  <1>6. \A a, b \in Words : a \o b \in Words
    BY DEF Words
  <1>7. FinSearch(push.search, domain, man.sd, cur.sd) \in Words
    <2> HIDE DEF domain
    <2>1. cur.sd \in Words /\ push.search \in Words /\ push.search \o cur.sd \in Words
      BY <1>1, <1>6 DEF DNSItems
    <2> QED
      BY <2>1, <1>4 DEF FinSearch
  <1> QED
    BY <1>4, <1>5, <1>7 DEF FinDNS, DNSItems

\* Same of the SMB items.
LEMMA FinSMBFits ==
  ASSUME NEW push \in PushedItems, NEW man \in SMBItems, NEW cur \in SMBItems
  PROVE  FinSMB(push, man, cur) \in SMBItems
  <1>1. push.wins \in Words /\ << >> \in Words
    BY DEF PushedItems, Words
  <1> QED
    BY <1>1 DEF FinSMB, FinItem, SMBItems

\* Setting a domain name of several words sets the first; the servers are all set.
LEMMA AddedFits ==
  ASSUME NEW fin \in DNSItems
  PROVE  Added(fin) \in DNSItems /\ Added(fin).sa = fin.sa
  <1>1. (IF fin.dn = << >> THEN << >> ELSE <<Head(fin.dn)>>) \in Words
    <2>1. fin.dn \in Words /\ << >> \in Words
      BY DEF DNSItems, Words
    <2>2. ASSUME fin.dn # << >>
          PROVE  <<Head(fin.dn)>> \in Words
      <3>1. Head(fin.dn) \in Word
        BY <2>1, <2>2 DEF Words
      <3> QED
        BY <3>1 DEF Words
    <2> QED
      BY <2>1, <2>2
  <1> QED
    BY <1>1 DEF Added, DNSItems

\* Keys as planned are keys.
LEMMA PlannedFits ==
  ASSUME NEW keys \in ServiceKeys, NEW plan \in Plans
  PROVE  Planned(keys, plan) \in ServiceKeys
  <1>1. Added(plan.dns) \in DNSKey /\ plan.smb \in SMBKey
    BY AddedFits DEF Plans, DNSKey, SMBKey
  <1> QED
    BY <1>1 DEF Planned, ServiceKeys, Plans

\* What is restored is a key.
LEMMA RestoredFits ==
  ASSUME saved \in SavedKeys(Services) \cup {NoKey}, NEW removes \in BOOLEAN
  PROVE  /\ \A key \in DNSKey : /\ Restored(key, removes, "oldDNS", NoDNS) \in DNSKey
                                /\ Restored(key, removes, "oldDNSSetup", NoDNS) \in DNSKey
         /\ \A key \in SMBKey : Restored(key, removes, "oldSMB", NoSMB) \in SMBKey
  <1>1. saved # NoKey => /\ saved["oldDNS"] \in DNSKey /\ saved["oldDNSSetup"] \in DNSKey
                         /\ saved["oldSMB"] \in SMBKey
    BY DEF SavedKeys
  <1>2. NoKey \in DNSKey /\ NoKey \in SMBKey
    BY DEF DNSKey, SMBKey
  <1>3. saved # NoKey => /\ Items(saved["oldDNS"], NoDNS) \in DNSKey
                         /\ Items(saved["oldDNSSetup"], NoDNS) \in DNSKey
                         /\ Items(saved["oldSMB"], NoSMB) \in SMBKey
    BY <1>1, ItemsFit DEF DNSKey, SMBKey
  <1> QED
    BY <1>2, <1>3 DEF Restored

\* A script that leaves the name servers as they are finds them as it wants them.
LEMMA SkippedServers ==
  ASSUME NEW fin \in DNSItems, NEW cur \in DNSItems, Skips(fin, cur), fin.sa # << >>
  PROVE  cur.sa = fin.sa
  BY DEF Skips, DNSItems

\* What the servers of a service are while its keys are as planned.
LEMMA PlannedServers ==
  ASSUME NEW keys \in ServiceKeys, NEW plan \in Plans, plan.setsDNS,
         Items(keys.setupDNS, NoDNS).sa = << >> \/ plan.setupKeys
  PROVE  LET new == Planned(keys, plan)
         IN  plan.dns.sa # << >> =>
               Arbitrated(Items(new.setupDNS, NoDNS), Items(new.stateDNS, NoDNS)).sa = plan.dns.sa
  <1> DEFINE new == Planned(keys, plan)
  <1>1. Added(plan.dns) \in DNSItems /\ Added(plan.dns).sa = plan.dns.sa
    BY AddedFits DEF Plans
  <1>2. new.stateDNS = Added(plan.dns) /\ new.setupDNS \in {Added(plan.dns), keys.setupDNS}
        /\ (plan.setupKeys => new.setupDNS = Added(plan.dns))
    BY DEF Planned
  <1>3. Items(Added(plan.dns), NoDNS) = Added(plan.dns)
    BY <1>1, DnsAssumption DEF Items
  <1>4. Items(new.setupDNS, NoDNS) \in DNSItems
    BY <1>1, <1>2, ItemsFit DEF DNSKey, ServiceKeys
  <1>5. Items(new.setupDNS, NoDNS).sa \in {<< >>, plan.dns.sa}
    BY <1>1, <1>2, <1>3
  <1> HIDE DEF new
  <1>6. Arbitrated(Items(new.setupDNS, NoDNS), Added(plan.dns)).sa
          = IF Items(new.setupDNS, NoDNS).sa # << >> THEN Items(new.setupDNS, NoDNS).sa
            ELSE Added(plan.dns).sa
    BY <1>1, <1>4, ArbitratedItems
  <1>7. plan.dns.sa # << >> =>
          Arbitrated(Items(new.setupDNS, NoDNS), Items(new.stateDNS, NoDNS)).sa = plan.dns.sa
    BY <1>1, <1>2, <1>3, <1>5, <1>6
  <1> QED
    BY <1>7 DEF new

-----------------------------------------------------------------------------
(* Every step keeps the types. *)

\* What a service resolves names with.
LEMMA CurFits ==
  ASSUME DnsTyped, NEW s \in Services
  PROVE  /\ CurDNS(s) \in DNSItems /\ CurSMB(s) \in SMBItems
         /\ Items(store[s].setupDNS, NoDNS) \in DNSItems
         /\ Items(store[s].setupSMB, NoSMB) \in SMBItems
  <1>1. store[s].setupDNS \in DNSKey /\ store[s].stateDNS \in DNSKey
        /\ store[s].setupSMB \in SMBKey /\ store[s].stateSMB \in SMBKey
    BY DEF DnsTyped, ServiceKeys
  <1> QED
    BY <1>1, ItemsFit, ArbitratedItems DEF CurDNS, CurSMB

\* A step of one tunnel's script leaves the others' types alone.
LEMMA OneScriptSteps ==
  ASSUME DnsTyped, NEW t \in Tunnels, NEW point \in Points, NEW found \in Jobs,
         UNCHANGED <<machine, own, primary>>,
         store' \in [Services -> ServiceKeys], saved' \in SavedKeys(Services) \cup {NoKey},
         pc' = [pc EXCEPT ![t] = point], job' = [job EXCEPT ![t] = found], JobFits(t)'
  PROVE  DnsTyped'
  <1>1. Tunnels' = Tunnels /\ Services' = Services
    BY DEF Tunnels, Services
  <1>2. pc' \in [Tunnels -> Points] /\ job' \in [Tunnels -> Jobs]
    BY DEF DnsTyped
  <1>3. ASSUME NEW u \in Tunnels, u # t
        PROVE  JobFits(u)'
    <2>1. pc'[u] = pc[u] /\ job'[u] = job[u]
      BY <1>3 DEF DnsTyped
    <2> QED
      BY <2>1, <1>1, <1>3 DEF DnsTyped, JobFits
  <1> QED
    BY <1>1, <1>2, <1>3 DEF DnsTyped, Jobs

\* Same for the steps outside of the scripts.
LEMMA NoScriptSteps ==
  ASSUME DnsTyped, UNCHANGED <<machine, saved, pc, job>>, primary' \in Services,
         own' \in [Services -> ServiceKeys], store' \in [Services -> ServiceKeys]
  PROVE  DnsTyped'
  BY DEF DnsTyped, JobFits, Tunnels, Services, Jobs

\* The job is one that only knows its push, and the service if there is one to set.
LEMMA UpReadServiceTyped ==
  ASSUME DnsTyped, NEW t \in Tunnels, UNCHANGED machine, UpReadService(t)
  PROVE  DnsTyped'
  <1> USE DEF UpReadService
  <1>1. PICK push \in PushedItems :
          \/ /\ push.dns = << >>
             /\ pc' = [pc EXCEPT ![t] = "running"]
             /\ job' = [job EXCEPT ![t] = [Idle EXCEPT !.push = push]]
          \/ /\ push.dns # << >>
             /\ pc' = [pc EXCEPT ![t] = "reading"]
             /\ job' = [job EXCEPT ![t] = [Idle EXCEPT !.push = push, !.service = primary]]
    BY TheMachine DEF DnsTyped
  <1>2. CASE push.dns = << >>
    <2> DEFINE found == [Idle EXCEPT !.push = push]
    <2>1. found \in Jobs /\ found.service = NoKey
      BY DEF Jobs, Idle
    <2>2. job'[t] = found /\ pc'[t] = "running"
      BY <1>1, <1>2 DEF DnsTyped
    <2>3. JobFits(t)'
      BY <2>1, <2>2 DEF JobFits, Setting
    <2>4. "running" \in Points /\ UNCHANGED <<machine, store, own, primary, saved>>
      BY DEF Points
    <2> QED
      BY <1>1, <1>2, <2>1, <2>3, <2>4, OneScriptSteps DEF DnsTyped
  <1>3. CASE push.dns # << >>
    <2> DEFINE found == [Idle EXCEPT !.push = push, !.service = primary]
    <2>1. found \in Jobs /\ found.service = primary /\ found.push = push
      BY DEF Jobs, Idle, DnsTyped
    <2>2. job'[t] = found /\ pc'[t] = "reading" /\ Services' = Services
      BY <1>1, <1>3 DEF DnsTyped, Services
    <2>3. JobFits(t)'
      BY <1>3, <2>1, <2>2 DEF JobFits, DnsTyped, Setting
    <2>4. "reading" \in Points /\ UNCHANGED <<machine, store, own, primary, saved>>
      BY DEF Points
    <2> QED
      BY <1>1, <1>3, <2>1, <2>3, <2>4, OneScriptSteps DEF DnsTyped
  <1> QED
    BY <1>2, <1>3

\* What the up script reads and decides, in one place for the lemmas below.
LEMMA WhatIsPlanned ==
  ASSUME DnsTyped, NEW t \in Tunnels, UNCHANGED machine, UpReadSettings(t)
  PROVE  \E plan \in Plans :
           LET s == job[t].service
               cur == CurDNS(primary)
           IN  /\ pc[t] = "reading" /\ s \in Services
               /\ job[t].push \in PushedItems /\ job[t].push.dns # << >>
               /\ pc' = [pc EXCEPT ![t] = "saving"]
               /\ job' = [job EXCEPT ![t].plan = plan]
               /\ plan.dns.sa = FinServers(job[t].push.dns, Items(store[s].setupDNS, NoDNS).sa, cur.sa)
               /\ plan.setsDNS <=> ~Skips(plan.dns, cur)
               /\ plan.setupKeys <=> UsesSetupKeys(Items(store[s].setupDNS, NoDNS))
  <1> DEFINE s == job[t].service
             push == job[t].push
             man == Items(store[s].setupDNS, NoDNS)
             manSMB == Items(store[s].setupSMB, NoSMB)
             cur == CurDNS(primary)
             smb == FinSMB(push, manSMB, CurSMB(primary))
             planned(dns) == [dns |-> dns, setsDNS |-> ~Skips(dns, cur),
                              smb |-> smb, setsSMB |-> ~Skips(smb, CurSMB(primary)),
                              setupKeys |-> UsesSetupKeys(man)]
  <1>1. PICK manDomain \in ManDomainReadings(man) :
          job' = [job EXCEPT ![t].plan = planned(FinDNS(push, manDomain, man, cur))]
    BY DEF UpReadSettings
  <1>2. pc[t] = "reading" /\ pc' = [pc EXCEPT ![t] = "saving"]
    BY DEF UpReadSettings
  <1>3. s \in Services /\ push \in PushedItems /\ push.dns # << >> /\ primary \in Services
    BY <1>2 DEF DnsTyped, JobFits
  <1> DEFINE dns == FinDNS(push, manDomain, man, cur)
  <1>4. man \in DNSItems /\ manSMB \in SMBItems /\ cur \in DNSItems /\ CurSMB(primary) \in SMBItems
    BY <1>3, CurFits
  <1>5. dns \in DNSItems /\ dns.sa = FinServers(push.dns, man.sa, cur.sa) /\ smb \in SMBItems
    <2> HIDE DEF man, manSMB, cur, s, push
    <2> QED
      BY <1>1, <1>3, <1>4, FinFits, FinSMBFits
  <1>6. Skips(dns, cur) \in BOOLEAN /\ Skips(smb, CurSMB(primary)) \in BOOLEAN
        /\ UsesSetupKeys(man) \in BOOLEAN
    BY DEF Skips, UsesSetupKeys
  <1>7. /\ planned(dns) \in Plans /\ planned(dns).dns = dns
        /\ planned(dns).setsDNS <=> ~Skips(dns, cur)
        /\ planned(dns).setupKeys <=> UsesSetupKeys(man)
    <2> HIDE DEF man, manSMB, cur, s, push, dns, smb
    <2> QED
      BY <1>5, <1>6 DEF Plans
  <1> USE <1>7
  <1> WITNESS planned(dns) \in Plans
  <1> QED
    BY <1>1, <1>2, <1>3, <1>5, <1>7, Zenon

\* What is planned is a plan, for the service found before.
LEMMA UpReadSettingsTyped ==
  ASSUME DnsTyped, NEW t \in Tunnels, UNCHANGED machine, UpReadSettings(t)
  PROVE  DnsTyped'
  <1>1. PICK plan \in Plans :
          /\ pc[t] = "reading" /\ job[t].service \in Services
          /\ job[t].push \in PushedItems /\ job[t].push.dns # << >>
          /\ pc' = [pc EXCEPT ![t] = "saving"]
          /\ job' = [job EXCEPT ![t].plan = plan]
    BY WhatIsPlanned, Zenon
  <1> DEFINE found == [job[t] EXCEPT !.plan = plan]
  <1>2. found \in Jobs /\ found.service = job[t].service /\ found.push = job[t].push
        /\ found.plan = plan
    BY DEF Jobs, DnsTyped
  <1>3. job' = [job EXCEPT ![t] = found] /\ job'[t] = found /\ pc'[t] = "saving"
        /\ Services' = Services /\ "saving" \in Points
    BY <1>1 DEF DnsTyped, Services, Points
  <1>4. UNCHANGED <<machine, store, own, primary, saved>>
    BY DEF UpReadSettings
  <1>5. JobFits(t)'
    BY <1>1, <1>2, <1>3 DEF JobFits, Setting
  <1> HIDE DEF found
  <1> QED
    BY <1>1, <1>2, <1>3, <1>4, <1>5, OneScriptSteps DEF DnsTyped

\* The service's keys are saved, and are what was planned.
LEMMA UpSaveTyped ==
  ASSUME DnsTyped, NEW t \in Tunnels, UNCHANGED machine, UpSave(t)
  PROVE  DnsTyped'
  <1> DEFINE s == job[t].service
             plan == job[t].plan
  <1>1. pc[t] = "saving" /\ saved' = Old(s, plan.setupKeys)
        /\ store' = [store EXCEPT ![s] = Planned(store[s], plan)]
        /\ pc' = [pc EXCEPT ![t] = "loading"] /\ UNCHANGED <<own, primary, job>>
    BY DEF UpSave
  <1>2. s \in Services /\ plan \in Plans
    BY <1>1 DEF DnsTyped, JobFits
  <1>3. store[s] \in ServiceKeys
    BY <1>2 DEF DnsTyped
  <1>4. Planned(store[s], plan) \in ServiceKeys
    BY <1>2, <1>3, PlannedFits
  <1>5. store' \in [Services -> ServiceKeys]
    BY <1>1, <1>4 DEF DnsTyped
  <1>6. saved' \in SavedKeys(Services)
    <2>1. plan.setupKeys \in BOOLEAN
      BY <1>2 DEF Plans
    <2> QED
      BY <1>1, <1>2, <1>3, <2>1 DEF Old, SavedKeys, ServiceKeys
  <1>7. job' = [job EXCEPT ![t] = job[t]] /\ job[t] \in Jobs /\ pc'[t] = "loading"
        /\ Services' = Services /\ "loading" \in Points
    BY <1>1 DEF DnsTyped, Services, Points
  <1>8. JobFits(t)'
    BY <1>1, <1>7 DEF JobFits, DnsTyped, Setting
  <1> QED
    BY <1>1, <1>5, <1>6, <1>7, <1>8, OneScriptSteps

\* The script of a tunnel has ended.
LEMMA ScriptEndsTyped ==
  ASSUME DnsTyped, NEW t \in Tunnels, ScriptEnds(t),
         UNCHANGED <<machine, own, primary>>,
         store' \in [Services -> ServiceKeys], saved' \in SavedKeys(Services) \cup {NoKey}
  PROVE  DnsTyped'
  <1>1. Idle \in Jobs /\ "off" \in Points
    BY DEF Idle, Jobs, Points
  <1>2. pc' = [pc EXCEPT ![t] = "off"] /\ job' = [job EXCEPT ![t] = Idle] /\ pc'[t] = "off"
    BY DEF ScriptEnds, DnsTyped
  <1>3. JobFits(t)'
    BY <1>2 DEF JobFits, Setting
  <1> QED
    BY <1>1, <1>2, <1>3, OneScriptSteps

\* The script goes on with its job, or ends.
LEMMA UpMonitorTyped ==
  ASSUME DnsTyped, NEW t \in Tunnels, UNCHANGED machine, UpMonitor(t)
  PROVE  DnsTyped'
  <1>1. pc[t] = "loading" /\ UNCHANGED <<store, own, primary, saved>>
    BY DEF UpMonitor
  <1>2. CASE pc' = [pc EXCEPT ![t] = "running"] /\ UNCHANGED job
    <2>1. job' = [job EXCEPT ![t] = job[t]] /\ job[t] \in Jobs /\ pc'[t] = "running"
          /\ Services' = Services /\ "running" \in Points
      BY <1>2 DEF DnsTyped, Services, Points
    <2>2. JobFits(t)'
      BY <1>1, <1>2, <2>1 DEF JobFits, DnsTyped, Setting
    <2> QED
      BY <1>1, <1>2, <2>1, <2>2, OneScriptSteps DEF DnsTyped
  <1>3. CASE ScriptEnds(t)
    BY <1>1, <1>3, ScriptEndsTyped DEF DnsTyped
  <1> QED
    BY <1>2, <1>3 DEF UpMonitor, ScriptEnds

\* The script ends, or has found a service in what was saved.
LEMMA DownReadTyped ==
  ASSUME DnsTyped, NEW t \in Tunnels, UNCHANGED machine, DownRead(t)
  PROVE  DnsTyped'
  <1>1. UNCHANGED <<store, own, primary, saved>>
    BY DEF DownRead
  <1>2. CASE ScriptEnds(t)
    BY <1>1, <1>2, ScriptEndsTyped DEF DnsTyped
  <1>3. CASE /\ saved # NoKey
             /\ pc' = [pc EXCEPT ![t] = "restoring"]
             /\ job' = [job EXCEPT ![t].service = saved.service,
                                   ![t].plan = [setupKeys |-> saved.setupKeys]]
    <2> DEFINE found == [job[t] EXCEPT !.service = saved.service,
                                       !.plan = [setupKeys |-> saved.setupKeys]]
    <2>1. saved.service \in Services /\ saved.setupKeys \in BOOLEAN
      BY <1>3 DEF DnsTyped, SavedKeys
    <2>2. found \in Jobs /\ found.service \in Services /\ found.plan.setupKeys \in BOOLEAN
      BY <2>1 DEF Jobs, DnsTyped
    <2>3. job' = [job EXCEPT ![t] = found] /\ job'[t] = found /\ pc'[t] = "restoring"
          /\ Services' = Services /\ "restoring" \in Points
      BY <1>3 DEF DnsTyped, Services, Points
    <2> HIDE DEF found
    <2>4. JobFits(t)'
      BY <2>2, <2>3 DEF JobFits, Setting
    <2> QED
      BY <1>1, <1>3, <2>2, <2>3, <2>4, OneScriptSteps DEF DnsTyped
  <1> QED
    BY <1>2, <1>3 DEF DownRead

\* The saved keys are there or not.
LEMMA DownReadOldTyped ==
  ASSUME DnsTyped, NEW t \in Tunnels, UNCHANGED machine, DownReadOld(t)
  PROVE  /\ DnsTyped'
         /\ pc[t] = "restoring" /\ job'[t].service = job[t].service
         /\ job'[t].plan.setupKeys = job[t].plan.setupKeys
         /\ job'[t].plan.removesDNS <=> saved # NoKey /\ saved.oldDNS = NoKey
         /\ job'[t].plan.removesSetup <=> saved # NoKey /\ saved.oldDNSSetup = NoKey
         /\ job'[t].plan.removesSMB <=> saved # NoKey /\ saved.oldSMB = NoKey
  <1> DEFINE dns == saved # NoKey /\ saved.oldDNS = NoKey
             setup == saved # NoKey /\ saved.oldDNSSetup = NoKey
             smb == saved # NoKey /\ saved.oldSMB = NoKey
             plan == [setupKeys |-> job[t].plan.setupKeys, removesDNS |-> dns,
                      removesSetup |-> setup, removesSMB |-> smb]
             found == [job[t] EXCEPT !.plan = plan]
  <1>1. /\ pc[t] = "restoring" /\ pc' = [pc EXCEPT ![t] = "restoringDNS"]
        /\ job' = [job EXCEPT ![t].plan = plan] /\ UNCHANGED <<store, own, primary, saved>>
    BY DEF DownReadOld
  <1>2. job[t].service \in Services /\ job[t].plan.setupKeys \in BOOLEAN /\ job[t] \in Jobs
    BY <1>1 DEF DnsTyped, JobFits
  <1>3. dns \in BOOLEAN /\ setup \in BOOLEAN /\ smb \in BOOLEAN
    OBVIOUS
  <1> HIDE DEF dns, setup, smb
  <1>4. plan \in DownPlans
    BY <1>2, <1>3 DEF DownPlans
  <1>5. /\ plan.setupKeys = job[t].plan.setupKeys /\ plan.removesDNS = dns
        /\ plan.removesSetup = setup /\ plan.removesSMB = smb
    OBVIOUS
  <1> HIDE DEF plan
  <1>6. found \in Jobs /\ found.service = job[t].service /\ found.plan = plan
    BY <1>2, <1>4 DEF Jobs
  <1>7. job' = [job EXCEPT ![t] = found] /\ job'[t] = found /\ pc'[t] = "restoringDNS"
        /\ Services' = Services /\ "restoringDNS" \in Points
    BY <1>1 DEF DnsTyped, Services, Points, Setting
  <1> HIDE DEF found
  <1>8. JobFits(t)'
    BY <1>2, <1>4, <1>6, <1>7 DEF JobFits, Setting
  <1>9. DnsTyped'
    BY <1>1, <1>6, <1>7, <1>8, OneScriptSteps DEF DnsTyped
  <1>10. job'[t].plan = plan /\ job'[t].service = job[t].service
    BY <1>6, <1>7
  <1> QED
    BY <1>1, <1>5, <1>9, <1>10, Zenon DEF dns, setup, smb

\* A session restores one key of one service.
LEMMA RestoringTyped ==
  ASSUME DnsTyped, NEW t \in Tunnels, UNCHANGED <<machine, own, primary, saved, job>>,
         pc[t] \in Setting, NEW point \in Setting \cup {"removing"},
         pc' = [pc EXCEPT ![t] = point], store' \in [Services -> ServiceKeys]
  PROVE  DnsTyped'
  <1>1. job' = [job EXCEPT ![t] = job[t]] /\ job[t] \in Jobs /\ pc'[t] = point
        /\ Services' = Services /\ point \in Points
    BY DEF DnsTyped, Services, Points
  <1>2. JobFits(t)'
    BY <1>1 DEF JobFits, DnsTyped, Setting
  <1> QED
    BY <1>1, <1>2, OneScriptSteps DEF DnsTyped

\* What the three sessions leave in the store, in one place for the lemmas below.
LEMMA WhatIsRestored ==
  ASSUME DnsTyped, NEW t \in Tunnels
  PROVE  LET s == job[t].service
             plan == job[t].plan
         IN  /\ DownRestoreDNS(t) =>
                  LET new == Restored(store[s].stateDNS, plan.removesDNS, "oldDNS", NoDNS)
                  IN  /\ new \in DNSKey /\ plan \in DownPlans /\ s \in Services
                      /\ store' = [store EXCEPT ![s] = [store[s] EXCEPT !.stateDNS = new]]
             /\ DownRestoreSetup(t) =>
                  LET new == Restored(store[s].setupDNS, plan.removesSetup, "oldDNSSetup", NoDNS)
                  IN  /\ new \in DNSKey /\ plan \in DownPlans /\ s \in Services
                      /\ store' = IF plan.setupKeys
                                  THEN [store EXCEPT ![s] = [store[s] EXCEPT !.setupDNS = new]]
                                  ELSE store
             /\ DownRestoreSMB(t) =>
                  LET new == Restored(store[s].stateSMB, plan.removesSMB, "oldSMB", NoSMB)
                  IN  /\ new \in SMBKey /\ plan \in DownPlans /\ s \in Services
                      /\ store' = [store EXCEPT ![s] = [store[s] EXCEPT !.stateSMB = new]]
  <1> DEFINE s == job[t].service
             plan == job[t].plan
  <1>1. pc[t] \in Setting => s \in Services /\ plan \in DownPlans
    BY DEF DnsTyped, JobFits
  <1>2. s \in Services => /\ store[s].stateDNS \in DNSKey /\ store[s].setupDNS \in DNSKey
                          /\ store[s].stateSMB \in SMBKey
    BY DEF DnsTyped, ServiceKeys
  <1>3. plan \in DownPlans => /\ plan.removesDNS \in BOOLEAN /\ plan.removesSetup \in BOOLEAN
                              /\ plan.removesSMB \in BOOLEAN
    BY DEF DownPlans
  <1>4. saved \in SavedKeys(Services) \cup {NoKey}
    BY DEF DnsTyped
  <1>5. ASSUME DownRestoreDNS(t)
        PROVE  LET new == Restored(store[s].stateDNS, plan.removesDNS, "oldDNS", NoDNS)
               IN  /\ new \in DNSKey /\ plan \in DownPlans /\ s \in Services
                   /\ store' = [store EXCEPT ![s] = [store[s] EXCEPT !.stateDNS = new]]
    <2>1. pc[t] \in Setting
      BY <1>5 DEF DownRestoreDNS, Setting
    <2> QED
      BY <1>1, <1>2, <1>3, <1>4, <1>5, <2>1, RestoredFits DEF DownRestoreDNS
  <1>6. ASSUME DownRestoreSetup(t)
        PROVE  LET new == Restored(store[s].setupDNS, plan.removesSetup, "oldDNSSetup", NoDNS)
               IN  /\ new \in DNSKey /\ plan \in DownPlans /\ s \in Services
                   /\ store' = IF plan.setupKeys
                               THEN [store EXCEPT ![s] = [store[s] EXCEPT !.setupDNS = new]]
                               ELSE store
    <2>1. pc[t] \in Setting
      BY <1>6 DEF DownRestoreSetup, Setting
    <2> QED
      BY <1>1, <1>2, <1>3, <1>4, <1>6, <2>1, RestoredFits DEF DownRestoreSetup
  <1>7. ASSUME DownRestoreSMB(t)
        PROVE  LET new == Restored(store[s].stateSMB, plan.removesSMB, "oldSMB", NoSMB)
               IN  /\ new \in SMBKey /\ plan \in DownPlans /\ s \in Services
                   /\ store' = [store EXCEPT ![s] = [store[s] EXCEPT !.stateSMB = new]]
    <2>1. pc[t] \in Setting
      BY <1>7 DEF DownRestoreSMB, Setting
    <2> QED
      BY <1>1, <1>2, <1>3, <1>4, <1>7, <2>1, RestoredFits DEF DownRestoreSMB
  <1> QED
    BY <1>5, <1>6, <1>7, Zenon

\* What was saved are keys of a service.
LEMMA DownRestoreTyped ==
  ASSUME DnsTyped, NEW t \in Tunnels, UNCHANGED machine,
         DownRestoreDNS(t) \/ DownRestoreSetup(t) \/ DownRestoreSMB(t)
  PROVE  DnsTyped'
  <1>2. store' \in [Services -> ServiceKeys]
    <2>1. store \in [Services -> ServiceKeys]
      BY DEF DnsTyped
    <2>2. CASE DownRestoreDNS(t)
      <3>1. PICK s \in Services, k \in DNSKey :
              store' = [store EXCEPT ![s] = [store[s] EXCEPT !.stateDNS = k]]
        BY <2>2, WhatIsRestored, Zenon
      <3> QED
        BY <3>1 DEF DnsTyped, ServiceKeys
    <2>3. CASE DownRestoreSetup(t)
      <3> DEFINE s == job[t].service
                 new == Restored(store[s].setupDNS, job[t].plan.removesSetup, "oldDNSSetup", NoDNS)
      <3>1. /\ new \in DNSKey /\ s \in Services
            /\ store' = IF job[t].plan.setupKeys
                        THEN [store EXCEPT ![s] = [store[s] EXCEPT !.setupDNS = new]]
                        ELSE store
        BY <2>3, WhatIsRestored, Zenon
      <3> HIDE DEF new, s
      <3>2. [store EXCEPT ![s] = [store[s] EXCEPT !.setupDNS = new]] \in [Services -> ServiceKeys]
        BY <2>1, <3>1 DEF ServiceKeys
      <3> QED
        BY <2>1, <3>1, <3>2, Zenon
    <2>4. CASE DownRestoreSMB(t)
      <3>1. PICK s \in Services, m \in SMBKey :
              store' = [store EXCEPT ![s] = [store[s] EXCEPT !.stateSMB = m]]
        BY <2>4, WhatIsRestored, Zenon
      <3> QED
        BY <3>1 DEF DnsTyped, ServiceKeys
    <2> QED
      BY <2>2, <2>3, <2>4
  <1>3. PICK point \in Setting \cup {"removing"} :
          /\ pc[t] \in Setting /\ pc' = [pc EXCEPT ![t] = point]
          /\ UNCHANGED <<own, primary, saved, job>>
    BY DEF DownRestoreDNS, DownRestoreSetup, DownRestoreSMB, Setting
  <1> QED
    BY <1>2, <1>3, RestoringTyped

\* The script ends.
LEMMA DownRemoveTyped ==
  ASSUME DnsTyped, NEW t \in Tunnels, UNCHANGED machine, DownRemove(t)
  PROVE  DnsTyped'
  BY ScriptEndsTyped DEF DownRemove, DnsTyped

\* The primary service is one of the services.
LEMMA PrimaryChangesTyped ==
  ASSUME DnsTyped, UNCHANGED machine, PrimaryChanges
  PROVE  DnsTyped'
  BY NoScriptSteps DEF PrimaryChanges, DnsTyped

\* A service is set to something a service may be set to.
LEMMA SettingsChangeTyped ==
  ASSUME DnsTyped, NEW s \in Services, UNCHANGED machine, SettingsChange(s)
  PROVE  DnsTyped'
  <1>1. PICK keys \in Settings : own' = [own EXCEPT ![s] = keys] /\ store' = [store EXCEPT ![s] = keys]
    BY DEF SettingsChange
  <1>2. keys \in ServiceKeys
    BY TheMachine DEF DnsTyped
  <1>3. UNCHANGED <<saved, pc, job>> /\ primary' \in Services
    BY DEF SettingsChange, DnsTyped
  <1>4. own' \in [Services -> ServiceKeys] /\ store' \in [Services -> ServiceKeys]
    BY <1>1, <1>2 DEF DnsTyped
  <1> QED
    BY <1>3, <1>4, NoScriptSteps

-----------------------------------------------------------------------------
(* One tunnel at a time: the store is the services' own but for the plan. *)

\* One tunnel at a time is the one whose script takes a step.
LEMMA TheTunnel ==
  ASSUME DnsTyped, OneAtATime, NEW t \in Tunnels
  PROVE  Tunnels = {t}
  <1>1. IsFiniteSet(Tunnels) /\ Cardinality(Tunnels) = 1
    BY TheMachine DEF DnsTyped, OneAtATime
  <1>2. PICK u : Tunnels = {u}
    BY <1>1, FS_Singleton
  <1> QED
    BY <1>2

\* Nothing is set yet.
LEMMA UpReadServiceSingle ==
  ASSUME DnsTyped, NEW t \in Tunnels, SingleTunnel(t), UpReadService(t)
  PROVE  SingleTunnel(t)' /\ PlanUsesPushed(t)'
  <1>1. pc[t] = "off" /\ UNCHANGED <<store, own, saved>>
    BY DEF UpReadService
  <1>2. \/ pc'[t] = "running" /\ job'[t].service = NoKey
        \/ pc'[t] = "reading"
    BY DEF UpReadService, DnsTyped, Idle
  <1> QED
    BY <1>1, <1>2 DEF SingleTunnel, PlanUsesPushed, IsSet, IsUnset, Setting

\* Pushed servers are planned, and skipped only if the primary service has them.
LEMMA UpReadSettingsSingle ==
  ASSUME DnsTyped, NEW t \in Tunnels, UNCHANGED machine, SingleTunnel(t), UpReadSettings(t)
  PROVE  SingleTunnel(t)' /\ PlanUsesPushed(t)'
  <1> DEFINE s == job[t].service
             push == job[t].push
             man == Items(store[s].setupDNS, NoDNS)
             cur == CurDNS(primary)
  <1>1. PICK plan \in Plans :
          /\ pc[t] = "reading" /\ s \in Services
          /\ push \in PushedItems /\ push.dns # << >>
          /\ pc' = [pc EXCEPT ![t] = "saving"]
          /\ job' = [job EXCEPT ![t].plan = plan]
          /\ plan.dns.sa = FinServers(push.dns, man.sa, cur.sa)
          /\ plan.setsDNS <=> ~Skips(plan.dns, cur)
    BY WhatIsPlanned, Zenon
  <1>2. UNCHANGED <<store, own, primary, saved>> /\ Services' = Services
    BY DEF UpReadSettings, Services
  <1>3. pc'[t] = "saving" /\ job'[t].plan = plan /\ job'[t].service = s /\ job'[t].push = push
    BY <1>1 DEF DnsTyped, Jobs
  <1>4. store = own /\ saved = NoKey
    BY <1>1 DEF SingleTunnel, IsUnset
  <1>5. SingleTunnel(t)'
    BY <1>2, <1>3, <1>4 DEF SingleTunnel, IsSet, IsUnset, Setting
  <1>6. ASSUME OwnServers(s) = << >>
        PROVE  /\ plan.dns.sa = push.dns
               /\ plan.setsDNS \/ \E r \in Services : OwnDNS(r).sa = push.dns
    <2>1. plan.dns.sa = push.dns
      BY <1>1, <1>4, <1>6 DEF FinServers, OwnServers
    <2>2. ASSUME ~plan.setsDNS
          PROVE  OwnDNS(primary).sa = push.dns
      <3>1. cur \in DNSItems /\ plan.dns \in DNSItems /\ Skips(plan.dns, cur)
        BY <1>1, <2>2, CurFits DEF DnsTyped, Plans
      <3>2. cur.sa = push.dns
        BY <1>1, <2>1, <3>1, SkippedServers
      <3> QED
        BY <3>2, <1>4 DEF CurDNS, OwnDNS
    <2> QED
      BY <2>1, <2>2 DEF DnsTyped
  <1>7. PlanUsesPushed(t)'
    BY <1>2, <1>3, <1>6 DEF PlanUsesPushed, OwnServers, OwnDNS
  <1> QED
    BY <1>5, <1>7

\* What is saved is the service's own, since nothing was set.
LEMMA UpSaveSingle ==
  ASSUME DnsTyped, NEW t \in Tunnels, UNCHANGED machine, SingleTunnel(t), PlanUsesPushed(t),
         UpSave(t)
  PROVE  SingleTunnel(t)' /\ PlanUsesPushed(t)'
  <1> DEFINE s == job[t].service
             plan == job[t].plan
  <1>1. pc[t] = "saving" /\ saved' = Old(s, plan.setupKeys)
        /\ store' = [store EXCEPT ![s] = Planned(store[s], plan)]
        /\ pc'[t] = "loading" /\ UNCHANGED <<own, primary, job>> /\ Services' = Services
    BY DEF UpSave, DnsTyped, Services
  <1>2. store = own
    BY <1>1 DEF SingleTunnel, IsUnset
  <1>3. saved' \in SavedKeys(Services)
    <2>1. s \in Services /\ plan.setupKeys \in BOOLEAN /\ store[s] \in ServiceKeys
      BY <1>1 DEF DnsTyped, JobFits, Plans
    <2> QED
      BY <1>1, <2>1 DEF Old, SavedKeys, ServiceKeys
  <1>4. saved' # NoKey
    BY <1>3, TheMachine DEF DnsTyped
  <1>5. SavedIsOwn(s)' /\ saved'.setupKeys = plan.setupKeys
    BY <1>1, <1>2, <1>4 DEF SavedIsOwn, Old
  <1>6. store' = [own EXCEPT ![s] = Planned(own[s], plan)]
    BY <1>1, <1>2
  <1>7. SingleTunnel(t)'
    BY <1>1, <1>5, <1>6 DEF SingleTunnel, IsSet, IsUnset, Setting
  <1>8. PlanUsesPushed(t)'
    BY <1>1 DEF PlanUsesPushed, IsSet, OwnServers, OwnDNS
  <1> QED
    BY <1>7, <1>8

\* launchctl does not fail, so what was set stays with the script.
LEMMA UpMonitorSingle ==
  ASSUME DnsTyped, OneAtATime, NEW t \in Tunnels, UNCHANGED machine,
         SingleTunnel(t), PlanUsesPushed(t), UpMonitor(t)
  PROVE  SingleTunnel(t)' /\ PlanUsesPushed(t)'
  <1>1. pc[t] = "loading" /\ pc'[t] = "running" /\ UNCHANGED <<store, own, saved, job>>
    BY DEF UpMonitor, OneAtATime, DnsTyped
  <1>2. job[t].service \in Services /\ job[t].service # NoKey /\ Services' = Services
    BY <1>1, TheMachine DEF DnsTyped, JobFits, Services
  <1>3. SingleTunnel(t)'
    BY <1>1, <1>2 DEF SingleTunnel, IsSet, IsUnset, SavedIsOwn, Setting
  <1>4. PlanUsesPushed(t)'
    BY <1>1, <1>2 DEF PlanUsesPushed, IsSet, OwnServers, OwnDNS
  <1> QED
    BY <1>3, <1>4

\* The script finds what its up script saved, or that it saved nothing.
LEMMA DownReadSingle ==
  ASSUME DnsTyped, OneAtATime, NEW t \in Tunnels, UNCHANGED machine, SingleTunnel(t), DownRead(t)
  PROVE  SingleTunnel(t)' /\ PlanUsesPushed(t)'
  <1>1. pc[t] = "running" /\ UNCHANGED <<store, own, saved>> /\ Services' = Services
    BY DEF DownRead, Services
  <1>2. CASE saved = NoKey /\ ScriptEnds(t)
    <2>1. pc'[t] = "off"
      BY <1>2 DEF ScriptEnds, DnsTyped
    <2>2. store = own
      BY <1>1, <1>2 DEF SingleTunnel, IsSet, IsUnset, SavedIsOwn
    <2> QED
      BY <1>1, <1>2, <2>1, <2>2 DEF SingleTunnel, PlanUsesPushed, IsSet, IsUnset, Setting
  <1>3. CASE /\ saved # NoKey
             /\ pc' = [pc EXCEPT ![t] = "restoring"]
             /\ job' = [job EXCEPT ![t].service = saved.service,
                                   ![t].plan = [setupKeys |-> saved.setupKeys]]
    <2> DEFINE s == job[t].service
               plan == job[t].plan
    <2>1. pc'[t] = "restoring" /\ job'[t].service = saved.service
          /\ job'[t].plan.setupKeys = saved.setupKeys
      BY <1>3 DEF DnsTyped, Jobs
    <2>2. /\ SavedIsOwn(s) /\ saved.setupKeys = plan.setupKeys
          /\ store = [own EXCEPT ![s] = Planned(own[s], plan)]
      BY <1>1, <1>3 DEF SingleTunnel, IsSet, IsUnset
    <2>3. s \in Services /\ saved.service = s
      BY <1>3, <2>2 DEF SavedIsOwn, DnsTyped, SavedKeys
    <2>4. store[s] = Planned(own[s], plan) /\ \A r \in Services \ {s} : store[r] = own[r]
      BY <2>2, <2>3 DEF DnsTyped
    <2>5. store[s].setupSMB = own[s].setupSMB
          /\ (~plan.setupKeys => store[s].setupDNS = own[s].setupDNS)
      BY <2>4 DEF Planned
    <2>6. SavedIsOwn(s)'
      BY <1>1, <2>1, <2>2, <2>3 DEF SavedIsOwn
    <2>7. SingleTunnel(t)'
      BY <1>1, <2>1, <2>2, <2>3, <2>4, <2>5, <2>6 DEF SingleTunnel, IsSet, IsUnset, Setting
    <2> QED
      BY <2>1, <2>7 DEF PlanUsesPushed, IsSet
  <1> QED
    BY <1>2, <1>3 DEF DownRead, OneAtATime

\* The keys are removed that did not exist.
LEMMA DownReadOldSingle ==
  ASSUME DnsTyped, NEW t \in Tunnels, UNCHANGED machine, SingleTunnel(t), DownReadOld(t)
  PROVE  SingleTunnel(t)' /\ PlanUsesPushed(t)'
  <1>1. /\ pc[t] = "restoring" /\ job'[t].service = job[t].service
        /\ job'[t].plan.setupKeys = job[t].plan.setupKeys
        /\ job'[t].plan.removesDNS <=> saved # NoKey /\ saved.oldDNS = NoKey
        /\ job'[t].plan.removesSetup <=> saved # NoKey /\ saved.oldDNSSetup = NoKey
        /\ job'[t].plan.removesSMB <=> saved # NoKey /\ saved.oldSMB = NoKey
    BY DownReadOldTyped
  <1>2. pc'[t] = "restoringDNS" /\ UNCHANGED <<store, own, saved>> /\ Services' = Services
    BY DEF DownReadOld, DnsTyped, Services
  <1>3. saved # NoKey
    BY <1>1 DEF SingleTunnel, SavedIsOwn
  <1> QED
    <2> DEFINE s == job[t].service
               plan == job'[t].plan
    <2>1. /\ plan.setupKeys = job[t].plan.setupKeys
          /\ plan.removesDNS <=> saved.oldDNS = NoKey
          /\ plan.removesSetup <=> saved.oldDNSSetup = NoKey
          /\ plan.removesSMB <=> saved.oldSMB = NoKey
      BY <1>1, <1>3, Zenon
    <2>2. /\ SavedIsOwn(s) /\ saved.setupKeys = plan.setupKeys
          /\ \A r \in Services \ {s} : store[r] = own[r]
          /\ store[s].setupSMB = own[s].setupSMB
          /\ ~plan.setupKeys => store[s].setupDNS = own[s].setupDNS
      BY <1>1, <2>1 DEF SingleTunnel
    <2>3. SavedIsOwn(s)'
      BY <1>1, <1>2, <2>2 DEF SavedIsOwn
    <2> QED
      BY <1>1, <1>2, <2>1, <2>2, <2>3
      DEF SingleTunnel, PlanUsesPushed, IsSet, IsUnset, Setting

\* Every key is back, those included that the plan has not touched.
LEMMA DownRestoreSingle ==
  ASSUME DnsTyped, NEW t \in Tunnels, UNCHANGED machine, SingleTunnel(t),
         DownRestoreDNS(t) \/ DownRestoreSetup(t) \/ DownRestoreSMB(t)
  PROVE  SingleTunnel(t)' /\ PlanUsesPushed(t)'
  <1> DEFINE s == job[t].service
             plan == job[t].plan
  <1>1. UNCHANGED <<own, saved, job>> /\ Services' = Services /\ pc[t] \in Setting
    BY DEF DownRestoreDNS, DownRestoreSetup, DownRestoreSMB, Services, Setting
  <1>2. s \in Services /\ plan \in DownPlans /\ own[s] \in ServiceKeys /\ store[s] \in ServiceKeys
    BY <1>1 DEF DnsTyped, JobFits
  <1>3. /\ SavedIsOwn(s) /\ saved.setupKeys = plan.setupKeys
        /\ \A r \in Services \ {s} : store[r] = own[r]
        /\ store[s].setupSMB = own[s].setupSMB
        /\ ~plan.setupKeys => store[s].setupDNS = own[s].setupDNS
        /\ plan.removesDNS <=> saved.oldDNS = NoKey
        /\ plan.removesSetup <=> saved.oldDNSSetup = NoKey
        /\ plan.removesSMB <=> saved.oldSMB = NoKey
    BY <1>1 DEF SingleTunnel
  <1>4. /\ \A key : Restored(key, plan.removesDNS, "oldDNS", NoDNS) = own[s].stateDNS
        /\ \A key : Restored(key, plan.removesSetup, "oldDNSSetup", NoDNS) = own[s].setupDNS
        /\ \A key : Restored(key, plan.removesSMB, "oldSMB", NoSMB) = own[s].stateSMB
    BY <1>3 DEF Restored, Items, SavedIsOwn
  <1>5. SavedIsOwn(s)'
    BY <1>1, <1>3 DEF SavedIsOwn
  <1>6. CASE DownRestoreDNS(t)
    <2>1. store' = [store EXCEPT ![s] = [store[s] EXCEPT !.stateDNS = own[s].stateDNS]]
      <3> DEFINE new == Restored(store[s].stateDNS, plan.removesDNS, "oldDNS", NoDNS)
      <3>1. store' = [store EXCEPT ![s] = [store[s] EXCEPT !.stateDNS = new]]
        BY <1>6, WhatIsRestored
      <3>2. new = own[s].stateDNS
        BY <1>4
      <3> QED
        BY <3>1, <3>2, Zenon
    <2>2. pc'[t] = "restoringSetup"
      BY <1>6 DEF DownRestoreDNS, DnsTyped
    <2>3. store'[s] = [store[s] EXCEPT !.stateDNS = own[s].stateDNS]
          /\ \A r \in Services \ {s} : store'[r] = own[r]
      <3>1. store \in [Services -> ServiceKeys]
        BY DEF DnsTyped
      <3> QED
        BY <2>1, <1>2, <1>3, <3>1
    <2>4. store'[s].stateDNS = own[s].stateDNS /\ store'[s].setupDNS = store[s].setupDNS
          /\ store'[s].setupSMB = store[s].setupSMB
      BY <2>3, <1>2 DEF ServiceKeys
    <2>5. PlanUsesPushed(t)'
      BY <2>2 DEF PlanUsesPushed, IsSet
    <2>6. SingleTunnel(t)'
      BY <1>1, <1>3, <1>5, <2>2, <2>3, <2>4 DEF SingleTunnel, IsSet, IsUnset, Setting
    <2> QED
      BY <2>5, <2>6
  <1>7. CASE DownRestoreSetup(t)
    <2>1. store' = IF plan.setupKeys
                   THEN [store EXCEPT ![s] = [store[s] EXCEPT !.setupDNS = own[s].setupDNS]]
                   ELSE store
      <3> DEFINE new == Restored(store[s].setupDNS, plan.removesSetup, "oldDNSSetup", NoDNS)
      <3>1. store' = IF plan.setupKeys
                     THEN [store EXCEPT ![s] = [store[s] EXCEPT !.setupDNS = new]]
                     ELSE store
        BY <1>7, WhatIsRestored
      <3>2. new = own[s].setupDNS
        BY <1>4
      <3> QED
        BY <3>1, <3>2, Zenon
    <2>2. pc[t] = "restoringSetup" /\ pc'[t] = "restoringSMB"
      BY <1>7 DEF DownRestoreSetup, DnsTyped
    <2>3. store[s].stateDNS = own[s].stateDNS
      BY <2>2 DEF SingleTunnel
    <2>4. \A r \in Services \ {s} : store'[r] = own[r]
      BY <2>1, <1>2, <1>3 DEF DnsTyped
    <2>5. store'[s].stateDNS = own[s].stateDNS /\ store'[s].setupDNS = own[s].setupDNS
          /\ store'[s].setupSMB = own[s].setupSMB
      BY <2>1, <2>3, <1>2, <1>3 DEF ServiceKeys, DnsTyped
    <2>6. PlanUsesPushed(t)'
      BY <2>2 DEF PlanUsesPushed, IsSet
    <2>7. SingleTunnel(t)'
      BY <1>1, <1>3, <1>5, <2>2, <2>4, <2>5 DEF SingleTunnel, IsSet, IsUnset, Setting
    <2> QED
      BY <2>6, <2>7
  <1>8. CASE DownRestoreSMB(t)
    <2>1. store' = [store EXCEPT ![s] = [store[s] EXCEPT !.stateSMB = own[s].stateSMB]]
      <3> DEFINE new == Restored(store[s].stateSMB, plan.removesSMB, "oldSMB", NoSMB)
      <3>1. store' = [store EXCEPT ![s] = [store[s] EXCEPT !.stateSMB = new]]
        BY <1>8, WhatIsRestored
      <3>2. new = own[s].stateSMB
        BY <1>4
      <3> QED
        BY <3>1, <3>2, Zenon
    <2>2. pc[t] = "restoringSMB" /\ pc'[t] = "removing"
      BY <1>8 DEF DownRestoreSMB, DnsTyped
    <2>3. store[s].stateDNS = own[s].stateDNS /\ store[s].setupDNS = own[s].setupDNS
      BY <2>2 DEF SingleTunnel
    <2>4. [store[s] EXCEPT !.stateSMB = own[s].stateSMB] = own[s]
      BY <2>3, <1>2, <1>3 DEF ServiceKeys
    <2>5. store' = own
      BY <2>1, <2>4, <1>2, <1>3 DEF DnsTyped
    <2> QED
      BY <1>1, <2>2, <2>5 DEF SingleTunnel, PlanUsesPushed, IsSet, IsUnset, Setting
  <1> QED
    BY <1>6, <1>7, <1>8

\* Nothing is saved when everything is back.
LEMMA DownRemoveSingle ==
  ASSUME DnsTyped, NEW t \in Tunnels, SingleTunnel(t), DownRemove(t)
  PROVE  SingleTunnel(t)' /\ PlanUsesPushed(t)'
  <1>1. pc[t] = "removing" /\ pc'[t] = "off" /\ saved' = NoKey /\ UNCHANGED <<store, own>>
    BY DEF DownRemove, ScriptEnds, DnsTyped
  <1> QED
    BY <1>1 DEF SingleTunnel, PlanUsesPushed, IsSet, IsUnset, Setting

\* A service is set anew with nothing saved.
LEMMA SettingsChangeSingle ==
  ASSUME DnsTyped, NEW s \in Services, NEW t \in Tunnels, SingleTunnel(t), SettingsChange(s)
  PROVE  SingleTunnel(t)' /\ PlanUsesPushed(t)'
  <1>1. saved = NoKey /\ pc[t] = "off" /\ UNCHANGED <<saved, pc, job>>
    BY DEF SettingsChange
  <1>2. store' = own'
    BY <1>1 DEF SettingsChange, SingleTunnel, IsUnset
  <1> QED
    BY <1>1, <1>2 DEF SingleTunnel, PlanUsesPushed, IsSet, IsUnset, Setting

\* A step that leaves all but the primary service alone.
LEMMA SameSingle ==
  ASSUME NEW t, SingleTunnel(t), PlanUsesPushed(t), UNCHANGED <<machine, store, own, saved, pc, job>>
  PROVE  SingleTunnel(t)' /\ PlanUsesPushed(t)'
  BY DEF SingleTunnel, PlanUsesPushed, IsSet, IsUnset, SavedIsOwn, OwnServers, OwnDNS, Services

-----------------------------------------------------------------------------
(* Any number of tunnels while the primary service stays. *)

\* What a step of one tunnel's script has to see to.
LEMMA OneScriptKeeps ==
  ASSUME DnsTyped, OnlyPrimary, NEW t \in Tunnels, NEW point, NEW found,
         UNCHANGED <<machine, own, primary>>,
         pc' = [pc EXCEPT ![t] = point], job' = [job EXCEPT ![t] = found],
         found.service \in {primary, NoKey},
         saved' # NoKey => saved'.service = primary,
         \A s \in Services \ {primary} : store'[s] = own[s],
         OwnServers(primary) # << >> =>
           /\ Items(store'[primary].setupDNS, NoDNS).sa = OwnServers(primary)
           /\ saved' # NoKey => Items(saved'.oldDNSSetup, NoDNS).sa = OwnServers(primary)
           /\ point = "saving" => found.plan.dns.sa = OwnServers(primary)
           /\ point \in Setting => ~found.plan.removesSetup
  PROVE  OnlyPrimary'
  <1>1. Tunnels' = Tunnels /\ Services' = Services /\ OwnServers(primary)' = OwnServers(primary)
    BY DEF Tunnels, Services, OwnServers
  <1>2. pc'[t] = point /\ job'[t] = found
        /\ \A u \in Tunnels \ {t} : pc'[u] = pc[u] /\ job'[u] = job[u]
    BY DEF DnsTyped
  <1>3. \A u \in Tunnels : job'[u].service \in {primary, NoKey}
    BY <1>2 DEF OnlyPrimary
  <1>4. ASSUME OwnServers(primary) # << >>
        PROVE  \A u \in Tunnels :
                 /\ pc'[u] = "saving" => job'[u].plan.dns.sa = OwnServers(primary)
                 /\ pc'[u] \in Setting => ~job'[u].plan.removesSetup
    BY <1>2, <1>4 DEF OnlyPrimary, KeepsServers, Setting
  <1>5. OwnServers(primary) # << >> => KeepsServers(primary, OwnServers(primary))'
    BY <1>1, <1>4 DEF KeepsServers
  <1> QED
    BY <1>1, <1>3, <1>5 DEF OnlyPrimary

\* A step that leaves the store and what is saved alone, and plans nothing.
LEMMA PlainStepKeeps ==
  ASSUME DnsTyped, OnlyPrimary, NEW t \in Tunnels, NEW point, NEW found,
         UNCHANGED <<machine, own, primary, store>>,
         pc' = [pc EXCEPT ![t] = point], job' = [job EXCEPT ![t] = found],
         found.service \in {primary, NoKey}, point \notin {"saving"} \cup Setting,
         saved' \in {saved, NoKey}
  PROVE  OnlyPrimary'
  <1>1. /\ saved' # NoKey => saved'.service = primary
        /\ \A s \in Services \ {primary} : store'[s] = own[s]
        /\ OwnServers(primary) # << >> =>
             /\ Items(store'[primary].setupDNS, NoDNS).sa = OwnServers(primary)
             /\ saved' # NoKey => Items(saved'.oldDNSSetup, NoDNS).sa = OwnServers(primary)
    BY DEF OnlyPrimary, KeepsServers
  <1> QED
    BY <1>1, OneScriptKeeps

\* The end of a script plans nothing.
LEMMA EndKeeps ==
  ASSUME DnsTyped, OnlyPrimary, NEW t \in Tunnels, ScriptEnds(t),
         UNCHANGED <<machine, own, primary, store>>, saved' \in {saved, NoKey}
  PROVE  OnlyPrimary'
  <1>1. Idle.service = NoKey
    BY DEF Idle
  <1> QED
    BY <1>1, PlainStepKeeps DEF ScriptEnds, Setting

\* The service a script finds is the primary one.
LEMMA UpReadServiceKeeps ==
  ASSUME DnsTyped, OnlyPrimary, NEW t \in Tunnels, UNCHANGED machine, UpReadService(t)
  PROVE  OnlyPrimary'
  <1>1. UNCHANGED <<own, primary, store, saved>>
    BY DEF UpReadService
  <1>2. PICK push \in PushedItems :
          \/ /\ pc' = [pc EXCEPT ![t] = "running"]
             /\ job' = [job EXCEPT ![t] = [Idle EXCEPT !.push = push]]
          \/ /\ pc' = [pc EXCEPT ![t] = "reading"]
             /\ job' = [job EXCEPT ![t] = [Idle EXCEPT !.push = push, !.service = primary]]
    BY TheMachine DEF UpReadService, DnsTyped
  <1>3. [Idle EXCEPT !.push = push].service = NoKey
        /\ [Idle EXCEPT !.push = push, !.service = primary].service = primary
    BY DEF Idle
  <1> QED
    BY <1>1, <1>2, <1>3, PlainStepKeeps DEF Setting

\* Servers by hand are what the service resolves with, and so what is planned.
LEMMA UpReadSettingsKeeps ==
  ASSUME DnsTyped, OnlyPrimary, NEW t \in Tunnels, UNCHANGED machine, UpReadSettings(t)
  PROVE  OnlyPrimary'
  <1> DEFINE s == job[t].service
             push == job[t].push
             man == Items(store[s].setupDNS, NoDNS)
             cur == CurDNS(primary)
  <1>1. PICK plan \in Plans :
          /\ pc[t] = "reading" /\ s \in Services
          /\ pc' = [pc EXCEPT ![t] = "saving"]
          /\ job' = [job EXCEPT ![t].plan = plan]
          /\ plan.dns.sa = FinServers(push.dns, man.sa, cur.sa)
    BY WhatIsPlanned, Zenon
  <1>2. UNCHANGED <<store, own, primary, saved>>
    BY DEF UpReadSettings
  <1> DEFINE found == [job[t] EXCEPT !.plan = plan]
  <1>3. found.service = s /\ found.plan = plan /\ job' = [job EXCEPT ![t] = found]
    BY <1>1 DEF DnsTyped, Jobs
  <1>4. s = primary
    BY <1>1, TheMachine DEF OnlyPrimary, DnsTyped
  <1>5. ASSUME OwnServers(primary) # << >>
        PROVE  plan.dns.sa = OwnServers(primary)
    <2>1. man.sa = OwnServers(primary)
      BY <1>4, <1>5 DEF OnlyPrimary, KeepsServers
    <2>2. store[primary].setupDNS \in DNSKey /\ store[primary].stateDNS \in DNSKey
      BY DEF DnsTyped, ServiceKeys
    <2>3. cur.sa = man.sa
      BY <2>1, <2>2, <1>4, <1>5, ItemsFit, ArbitratedItems DEF CurDNS
    <2> QED
      BY <2>1, <2>3, <1>1, <1>5 DEF FinServers
  <1>6. /\ saved' # NoKey => saved'.service = primary
        /\ \A r \in Services \ {primary} : store'[r] = own[r]
        /\ OwnServers(primary) # << >> =>
             /\ Items(store'[primary].setupDNS, NoDNS).sa = OwnServers(primary)
             /\ saved' # NoKey => Items(saved'.oldDNSSetup, NoDNS).sa = OwnServers(primary)
    BY <1>2 DEF OnlyPrimary, KeepsServers
  <1> HIDE DEF found
  <1> QED
    BY <1>1, <1>2, <1>3, <1>4, <1>5, <1>6, OneScriptKeeps DEF Setting

\* The servers planned are those that were saved.
LEMMA UpSaveKeeps ==
  ASSUME DnsTyped, OnlyPrimary, NEW t \in Tunnels, UNCHANGED machine, UpSave(t)
  PROVE  OnlyPrimary'
  <1> DEFINE s == job[t].service
             plan == job[t].plan
  <1>1. pc[t] = "saving" /\ saved' = Old(s, plan.setupKeys)
        /\ store' = [store EXCEPT ![s] = Planned(store[s], plan)]
        /\ pc' = [pc EXCEPT ![t] = "loading"] /\ UNCHANGED <<own, primary, job>>
    BY DEF UpSave
  <1>2. s \in Services /\ plan \in Plans /\ s = primary
    BY <1>1, TheMachine DEF DnsTyped, JobFits, OnlyPrimary
  <1>3. saved'.service = primary /\ saved'.oldDNSSetup = store[primary].setupDNS
    BY <1>1, <1>2 DEF Old
  <1>4. store'[primary] = Planned(store[primary], plan)
        /\ \A r \in Services \ {primary} : store'[r] = own[r]
    BY <1>1, <1>2 DEF DnsTyped, OnlyPrimary
  <1>5. ASSUME OwnServers(primary) # << >>
        PROVE  /\ Items(store'[primary].setupDNS, NoDNS).sa = OwnServers(primary)
               /\ Items(saved'.oldDNSSetup, NoDNS).sa = OwnServers(primary)
    <2>1. plan.dns.sa = OwnServers(primary)
          /\ Items(store[primary].setupDNS, NoDNS).sa = OwnServers(primary)
      BY <1>1, <1>5 DEF OnlyPrimary, KeepsServers, Setting
    <2>2. Added(plan.dns) \in DNSItems /\ Added(plan.dns).sa = plan.dns.sa
      BY <1>2, AddedFits DEF Plans
    <2>3. Items(Added(plan.dns), NoDNS).sa = OwnServers(primary)
      BY <2>1, <2>2, DnsAssumption DEF Items
    <2>4. Planned(store[primary], plan).setupDNS \in {Added(plan.dns), store[primary].setupDNS}
      BY DEF Planned
    <2> QED
      BY <2>1, <2>3, <2>4, <1>3, <1>4
  <1>6. job' = [job EXCEPT ![t] = job[t]]
    BY <1>1 DEF DnsTyped
  <1> QED
    BY <1>1, <1>2, <1>3, <1>4, <1>5, <1>6, OneScriptKeeps DEF Setting

\* Failing or not, launchctl changes no setting.
LEMMA UpMonitorKeeps ==
  ASSUME DnsTyped, OnlyPrimary, NEW t \in Tunnels, UNCHANGED machine, UpMonitor(t)
  PROVE  OnlyPrimary'
  <1>1. UNCHANGED <<store, own, primary, saved>>
    BY DEF UpMonitor
  <1>2. CASE pc' = [pc EXCEPT ![t] = "running"] /\ UNCHANGED job
    <2>1. job' = [job EXCEPT ![t] = job[t]] /\ job[t].service \in {primary, NoKey}
      BY <1>2 DEF DnsTyped, OnlyPrimary
    <2> QED
      BY <1>1, <1>2, <2>1, PlainStepKeeps DEF Setting
  <1>3. CASE ScriptEnds(t)
    BY <1>1, <1>3, EndKeeps
  <1> QED
    BY <1>2, <1>3 DEF UpMonitor, ScriptEnds

\* What was saved is of the primary service.
LEMMA DownReadKeeps ==
  ASSUME DnsTyped, OnlyPrimary, NEW t \in Tunnels, UNCHANGED machine, DownRead(t)
  PROVE  OnlyPrimary'
  <1>1. UNCHANGED <<store, own, primary, saved>>
    BY DEF DownRead
  <1>2. CASE ScriptEnds(t)
    BY <1>1, <1>2, EndKeeps
  <1>3. CASE /\ saved # NoKey
             /\ pc' = [pc EXCEPT ![t] = "restoring"]
             /\ job' = [job EXCEPT ![t].service = saved.service,
                                   ![t].plan = [setupKeys |-> saved.setupKeys]]
    <2> DEFINE found == [job[t] EXCEPT !.service = saved.service,
                                       !.plan = [setupKeys |-> saved.setupKeys]]
    <2>1. found.service = primary /\ job' = [job EXCEPT ![t] = found]
      BY <1>3 DEF DnsTyped, Jobs, OnlyPrimary
    <2> HIDE DEF found
    <2> QED
      BY <1>1, <1>3, <2>1, PlainStepKeeps DEF Setting
  <1> QED
    BY <1>2, <1>3 DEF DownRead

\* Servers by hand were saved, by whichever script, so their key is not removed.
LEMMA DownReadOldKeeps ==
  ASSUME DnsTyped, OnlyPrimary, NEW t \in Tunnels, UNCHANGED machine, DownReadOld(t)
  PROVE  OnlyPrimary'
  <1> DEFINE found == [job[t] EXCEPT !.plan = job'[t].plan]
  <1>1. job' = [job EXCEPT ![t] = found] /\ found.service = job[t].service
        /\ found.plan = job'[t].plan
    BY DEF DownReadOld, DnsTyped, Jobs
  <1>2. pc' = [pc EXCEPT ![t] = "restoringDNS"] /\ UNCHANGED <<own, primary, store, saved>>
    BY DEF DownReadOld
  <1>3. found.service \in {primary, NoKey}
    BY <1>1 DEF OnlyPrimary
  <1>4. job'[t].plan.removesSetup <=> saved # NoKey /\ saved.oldDNSSetup = NoKey
    BY DownReadOldTyped, Zenon
  <1>5. NoDNS.sa = << >>
    BY DEF NoDNS
  <1>6. OwnServers(primary) # << >> => ~found.plan.removesSetup
    BY <1>1, <1>4, <1>5 DEF OnlyPrimary, KeepsServers, Items
  <1>7. /\ saved' # NoKey => saved'.service = primary
        /\ \A s \in Services \ {primary} : store'[s] = own[s]
        /\ OwnServers(primary) # << >> =>
             /\ Items(store'[primary].setupDNS, NoDNS).sa = OwnServers(primary)
             /\ saved' # NoKey => Items(saved'.oldDNSSetup, NoDNS).sa = OwnServers(primary)
    BY <1>2 DEF OnlyPrimary, KeepsServers
  <1> HIDE DEF found
  <1> QED
    BY <1>1, <1>2, <1>3, <1>6, <1>7, OneScriptKeeps DEF Setting

\* What was saved has the servers by hand.
LEMMA DownRestoreKeeps ==
  ASSUME DnsTyped, OnlyPrimary, NEW t \in Tunnels, UNCHANGED machine,
         DownRestoreDNS(t) \/ DownRestoreSetup(t) \/ DownRestoreSMB(t)
  PROVE  OnlyPrimary'
  <1> DEFINE s == job[t].service
             plan == job[t].plan
  <1>1. PICK point \in Setting \cup {"removing"} :
          /\ pc[t] \in Setting /\ pc' = [pc EXCEPT ![t] = point]
          /\ UNCHANGED <<own, primary, saved, job>>
    BY DEF DownRestoreDNS, DownRestoreSetup, DownRestoreSMB, Setting
  <1>2. s \in Services /\ plan \in DownPlans /\ s = primary /\ store[s] \in ServiceKeys
    BY <1>1, TheMachine DEF DnsTyped, JobFits, OnlyPrimary
  <1>3. \A r \in Services \ {primary} : store'[r] = own[r]
    <2>1. store \in [Services -> ServiceKeys] /\ \A r \in Services \ {primary} : store[r] = own[r]
      BY DEF DnsTyped, OnlyPrimary
    <2>2. \/ \E k : store' = [store EXCEPT ![s] = k]
          \/ store' = store
      BY WhatIsRestored, Zenon
    <2> QED
      BY <1>2, <2>1, <2>2
  <1>4. ASSUME OwnServers(primary) # << >>
        PROVE  Items(store'[primary].setupDNS, NoDNS).sa = OwnServers(primary)
    <2>1. /\ Items(store[primary].setupDNS, NoDNS).sa = OwnServers(primary)
          /\ saved # NoKey => Items(saved.oldDNSSetup, NoDNS).sa = OwnServers(primary)
          /\ ~plan.removesSetup
      BY <1>1, <1>4 DEF OnlyPrimary, KeepsServers, Setting
    <2>2. CASE DownRestoreDNS(t) \/ DownRestoreSMB(t)
      <3>1. store'[primary].setupDNS = store[primary].setupDNS
        <4>1. PICK k \in DNSKey, m \in SMBKey :
                \/ store' = [store EXCEPT ![s] = [store[s] EXCEPT !.stateDNS = k]]
                \/ store' = [store EXCEPT ![s] = [store[s] EXCEPT !.stateSMB = m]]
          <5>1. NoKey \in DNSKey /\ NoKey \in SMBKey
            BY DEF DNSKey, SMBKey
          <5> QED
            BY <5>1, <2>2, WhatIsRestored, Zenon
        <4> QED
          BY <1>2, <4>1 DEF DnsTyped, ServiceKeys
      <3> QED
        BY <2>1, <3>1
    <2>3. CASE DownRestoreSetup(t)
      <3> DEFINE new == Restored(store[s].setupDNS, plan.removesSetup, "oldDNSSetup", NoDNS)
      <3>1. store'[primary].setupDNS \in {new, store[primary].setupDNS}
        <4> HIDE DEF new
        <4>1. store' \in {[store EXCEPT ![s] = [store[s] EXCEPT !.setupDNS = new]], store}
          BY <2>3, WhatIsRestored DEF new
        <4> QED
          BY <1>2, <4>1 DEF DnsTyped, ServiceKeys
      <3>2. saved # NoKey => saved["oldDNSSetup"] \in DNSKey
        BY DEF DnsTyped, SavedKeys
      <3>3. saved # NoKey => /\ Items(saved.oldDNSSetup, NoDNS) # NoKey
                             /\ new = Items(saved.oldDNSSetup, NoDNS)
        BY <2>1, <3>2, ItemsFit, DnsAssumption DEF Restored
      <3>4. saved = NoKey => new = store[primary].setupDNS
        BY <1>2, <2>1 DEF Restored
      <3>5. Items(new, NoDNS).sa = OwnServers(primary)
        <4>1. CASE saved = NoKey
          BY <2>1, <3>4, <4>1
        <4>2. CASE saved # NoKey
          <5>1. Items(new, NoDNS) = new
            BY <3>3, <4>2, Zenon DEF Items
          <5> QED
            BY <2>1, <3>3, <4>2, <5>1
        <4> QED
          BY <4>1, <4>2
      <3> HIDE DEF new
      <3> QED
        BY <2>1, <3>1, <3>5
    <2> QED
      BY <2>2, <2>3
  <1>5. OwnServers(primary) # << >> => ~plan.removesSetup
    BY <1>1 DEF OnlyPrimary, KeepsServers, Setting
  <1>6. /\ saved' # NoKey => saved'.service = primary
        /\ OwnServers(primary) # << >> /\ saved' # NoKey =>
             Items(saved'.oldDNSSetup, NoDNS).sa = OwnServers(primary)
    BY <1>1 DEF OnlyPrimary, KeepsServers
  <1>7. job' = [job EXCEPT ![t] = job[t]] /\ point # "saving"
    BY <1>1 DEF DnsTyped, Setting
  <1> QED
    BY <1>1, <1>2, <1>3, <1>4, <1>5, <1>6, <1>7, OneScriptKeeps

\* A service that is set anew is as it would be.
LEMMA SettingsChangeKeeps ==
  ASSUME DnsTyped, OnlyPrimary, NEW s \in Services, UNCHANGED machine, SettingsChange(s)
  PROVE  OnlyPrimary'
  <1>1. PICK keys \in Settings : own' = [own EXCEPT ![s] = keys] /\ store' = [store EXCEPT ![s] = keys]
    BY DEF SettingsChange
  <1>2. saved = NoKey /\ UNCHANGED <<primary, saved, pc, job>> /\ \A t \in Tunnels : pc[t] = "off"
    BY DEF SettingsChange
  <1>3. Tunnels' = Tunnels /\ Services' = Services /\ primary \in Services
    BY DEF Tunnels, Services, DnsTyped
  <1>4. \A r \in Services \ {primary} : store'[r] = own'[r]
    BY <1>1 DEF DnsTyped, OnlyPrimary
  <1>5. \/ store'[primary] = own'[primary]
        \/ store'[primary] = store[primary] /\ own'[primary] = own[primary]
    BY <1>1, <1>3 DEF DnsTyped
  <1>6. OwnServers(primary)' # << >> => KeepsServers(primary, OwnServers(primary))'
    BY <1>2, <1>3, <1>5 DEF OnlyPrimary, KeepsServers, OwnServers, Setting
  <1> QED
    BY <1>2, <1>3, <1>4, <1>6 DEF OnlyPrimary

-----------------------------------------------------------------------------
(* The invariant, and what it says of the settings. *)

\* Nothing is set or saved at first.
LEMMA DnsStarts == Init => DnsInv
  <1> SUFFICES ASSUME Init PROVE DnsInv
    OBVIOUS
  <1>1. Settings \subseteq ServiceKeys
    BY TheMachine DEF Init
  <1>2. own \in [Services -> ServiceKeys]
    BY <1>1 DEF Init
  <1>3. Idle \in Jobs /\ "off" \in Points /\ Idle.service = NoKey
    BY DEF Idle, Jobs, Points
  <1>4. \A t \in Tunnels : pc[t] = "off" /\ job[t] = Idle
    BY DEF Init
  <1>5. DnsTyped
    BY <1>2, <1>3, <1>4 DEF Init, DnsTyped, JobFits, Setting
  <1>6. SingleInv
    BY <1>4 DEF Init, SingleInv, SingleTunnel, PlanUsesPushed, IsSet, IsUnset, Setting
  <1>7. ManualInv
    BY <1>3, <1>4 DEF Init, ManualInv, OnlyPrimary, KeepsServers, OwnServers, Setting
  <1> QED
    BY <1>5, <1>6, <1>7 DEF DnsInv

\* Every step keeps the types,
LEMMA DnsStepTyped == DnsTyped /\ [Next]_vars => DnsTyped'
  <1> SUFFICES ASSUME DnsTyped, [Next]_vars PROVE DnsTyped'
    OBVIOUS
  <1>1. CASE UNCHANGED vars
    BY <1>1, NoScriptSteps DEF vars, DnsTyped
  <1>2. CASE Next
    <2> USE <1>2
    <2>1. UNCHANGED machine
      BY DEF Next
    <2>2. ASSUME NEW t \in Tunnels,
                 UpReadService(t) \/ UpReadSettings(t) \/ UpSave(t) \/ UpMonitor(t)
                 \/ DownRead(t) \/ DownReadOld(t) \/ DownRestoreDNS(t) \/ DownRestoreSetup(t)
                 \/ DownRestoreSMB(t) \/ DownRemove(t)
          PROVE  DnsTyped'
      BY <2>1, <2>2, UpReadServiceTyped, UpReadSettingsTyped, UpSaveTyped, UpMonitorTyped,
         DownReadTyped, DownReadOldTyped, DownRestoreTyped, DownRemoveTyped
    <2>3. CASE PrimaryChanges
      BY <2>1, <2>3, PrimaryChangesTyped
    <2>4. ASSUME NEW s \in Services, SettingsChange(s)
          PROVE  DnsTyped'
      BY <2>1, <2>4, SettingsChangeTyped
    <2> QED
      BY <2>2, <2>3, <2>4 DEF Next
  <1> QED
    BY <1>1, <1>2

\* what holds of one tunnel at a time,
LEMMA DnsStepSingle == DnsTyped /\ SingleInv /\ [Next]_vars => SingleInv'
  <1> SUFFICES ASSUME DnsTyped, SingleInv, [Next]_vars, OneAtATime', NEW t \in Tunnels'
               PROVE  SingleTunnel(t)' /\ PlanUsesPushed(t)'
    BY DEF SingleInv
  <1>1. UNCHANGED machine
    BY DEF Next, vars
  <1>2. OneAtATime /\ t \in Tunnels
    BY <1>1 DEF OneAtATime, Tunnels, LaunchctlFails
  <1>3. SingleTunnel(t) /\ PlanUsesPushed(t) /\ Tunnels = {t}
    BY <1>2, TheTunnel DEF SingleInv
  <1>4. CASE UNCHANGED vars
    BY <1>3, <1>4, SameSingle DEF vars
  <1>5. CASE UpReadService(t)
    BY <1>2, <1>3, <1>5, UpReadServiceSingle
  <1>6. CASE UpReadSettings(t)
    BY <1>1, <1>2, <1>3, <1>6, UpReadSettingsSingle
  <1>7. CASE UpSave(t)
    BY <1>1, <1>2, <1>3, <1>7, UpSaveSingle
  <1>8. CASE UpMonitor(t)
    BY <1>1, <1>2, <1>3, <1>8, UpMonitorSingle
  <1>9. CASE DownRead(t)
    BY <1>1, <1>2, <1>3, <1>9, DownReadSingle
  <1>14. CASE DownReadOld(t)
    BY <1>1, <1>2, <1>3, <1>14, DownReadOldSingle
  <1>10. CASE DownRestoreDNS(t) \/ DownRestoreSetup(t) \/ DownRestoreSMB(t)
    BY <1>1, <1>2, <1>3, <1>10, DownRestoreSingle
  <1>11. CASE DownRemove(t)
    BY <1>2, <1>3, <1>11, DownRemoveSingle
  <1>12. CASE PrimaryChanges
    BY <1>1, <1>3, <1>12, SameSingle DEF PrimaryChanges
  <1>13. ASSUME NEW s \in Services, SettingsChange(s)
         PROVE  SingleTunnel(t)' /\ PlanUsesPushed(t)'
    BY <1>2, <1>3, <1>13, SettingsChangeSingle
  <1> QED
    BY <1>3, <1>4, <1>5, <1>6, <1>7, <1>8, <1>9, <1>10, <1>11, <1>12, <1>13, <1>14
    DEF Next

\* and what holds of the service that stays primary.
LEMMA DnsStepManual == DnsTyped /\ ManualInv /\ [Next]_vars => ManualInv'
  <1> SUFFICES ASSUME DnsTyped, ManualInv, [Next]_vars, ~PrimaryMoves'
               PROVE  OnlyPrimary'
    BY DEF ManualInv
  <1>1. UNCHANGED machine
    BY DEF Next, vars
  <1>2. ~PrimaryMoves /\ OnlyPrimary
    BY <1>1 DEF ManualInv, PrimaryMoves
  <1>3. CASE UNCHANGED vars
    BY <1>2, <1>3 DEF vars, OnlyPrimary, KeepsServers, OwnServers, Tunnels, Services
  <1>4. ASSUME NEW t \in Tunnels,
               UpReadService(t) \/ UpReadSettings(t) \/ UpSave(t) \/ UpMonitor(t)
               \/ DownRead(t) \/ DownReadOld(t)
               \/ DownRestoreDNS(t) \/ DownRestoreSetup(t) \/ DownRestoreSMB(t)
        PROVE  OnlyPrimary'
    BY <1>1, <1>2, <1>4, UpReadServiceKeeps, UpReadSettingsKeeps, UpSaveKeeps, UpMonitorKeeps,
       DownReadKeeps, DownReadOldKeeps, DownRestoreKeeps
  <1>5. ASSUME NEW t \in Tunnels, DownRemove(t)
        PROVE  OnlyPrimary'
    BY <1>1, <1>2, <1>5, EndKeeps DEF DownRemove
  <1>6. ~PrimaryChanges
    BY <1>2 DEF PrimaryChanges
  <1>7. ASSUME NEW s \in Services, SettingsChange(s)
        PROVE  OnlyPrimary'
    BY <1>1, <1>2, <1>7, SettingsChangeKeeps
  <1> QED
    BY <1>3, <1>4, <1>5, <1>6, <1>7 DEF Next

\* On every machine, whatever servers push, the store, what is saved and what each
\* script has read fit together at every moment of client.up.sh and client.down.sh.
LEMMA DnsHolds == DnsSpec => []DnsInv
  <1>1. DnsInv /\ [Next]_vars => DnsInv'
    BY DnsStepTyped, DnsStepSingle, DnsStepManual DEF DnsInv
  <1> QED
    BY DnsStarts, <1>1, PTL DEF DnsSpec

\* SettingsReturn: once the one tunnel is gone, the down script has put back every
\* key the up script changed, on the service it had changed, and no other.
THEOREM SettingsComeBack == DnsSpec => []SettingsReturn
  <1>1. DnsInv => SettingsReturn
    <2> SUFFICES ASSUME DnsInv, OneAtATime, \A t \in Tunnels : pc[t] = "off"
                 PROVE  store = own
      BY DEF SettingsReturn
    <2>1. PICK t : t \in Tunnels
      <3>1. IsFiniteSet(Tunnels) /\ Cardinality(Tunnels) = 1
        BY TheMachine DEF DnsInv, DnsTyped, OneAtATime
      <3> QED
        BY <3>1, FS_Singleton
    <2> QED
      BY <2>1 DEF DnsInv, SingleInv, SingleTunnel, IsUnset
  <1> QED
    BY <1>1, DnsHolds, PTL

\* PushedServersUsed: the servers a tunnel pushed are those its service resolves with
\* while the tunnel is up, whichever service is primary by then.
THEOREM UsesPushedServers == DnsSpec => []PushedServersUsed
  <1>1. DnsInv => PushedServersUsed
    <2> SUFFICES ASSUME DnsInv, NEW t \in Tunnels, OneAtATime,
                        pc[t] \in {"loading", "running"}, job[t].service # NoKey,
                        OwnServers(job[t].service) = << >>,
                        \A r \in Services \ {job[t].service} : CurDNS(r).sa # job[t].push.dns
                 PROVE  CurDNS(job[t].service).sa = job[t].push.dns
      BY DEF PushedServersUsed, OwnServers
    <2> DEFINE s == job[t].service
               plan == job[t].plan
               push == job[t].push
    <2>1. IsSet(t)
      BY DEF IsSet
    <2>2. SavedIsOwn(s) /\ store = [own EXCEPT ![s] = Planned(own[s], plan)]
      BY <2>1 DEF DnsInv, SingleInv, SingleTunnel
    <2>3. plan.dns.sa = push.dns /\ (plan.setsDNS \/ \E r \in Services : OwnDNS(r).sa = push.dns)
      BY <2>1 DEF DnsInv, SingleInv, PlanUsesPushed
    <2>4. s \in Services /\ plan \in Plans /\ push.dns # << >> /\ own[s] \in ServiceKeys
      <3>1. s \in Services
        BY <2>2 DEF DnsInv, DnsTyped, SavedIsOwn, SavedKeys
      <3> QED
        BY <3>1 DEF DnsInv, DnsTyped, JobFits
    <2>5. store[s] = Planned(own[s], plan) /\ \A r \in Services \ {s} : store[r] = own[r]
      BY <2>2, <2>4 DEF DnsInv, DnsTyped
    <2>6. CASE plan.setsDNS
      BY <2>3, <2>4, <2>5, <2>6, PlannedServers DEF CurDNS, OwnServers
    <2>7. CASE ~plan.setsDNS
      <3>1. PICK r \in Services : OwnDNS(r).sa = push.dns
        BY <2>3, <2>7
      <3>2. store[s].setupDNS = own[s].setupDNS /\ store[s].stateDNS = own[s].stateDNS
        BY <2>5, <2>7 DEF Planned
      <3>3. CurDNS(r) = OwnDNS(r)
        BY <2>5, <3>2 DEF CurDNS, OwnDNS
      <3> QED
        BY <3>1, <3>3
    <2> QED
      BY <2>6, <2>7
  <1> QED
    BY <1>1, DnsHolds, PTL

\* ManualServersKept: scripts of any number of tunnels, overlapping and failing as they
\* may, never change what a service with servers entered by hand resolves with.
THEOREM KeepsManualServers == DnsSpec => []ManualServersKept
  <1>1. DnsInv => ManualServersKept
    <2> SUFFICES ASSUME DnsInv, ~PrimaryMoves, NEW s \in Services, OwnServers(s) # << >>
                 PROVE  CurDNS(s).sa = OwnServers(s)
      BY DEF ManualServersKept, OwnServers
    <2>1. Items(store[s].setupDNS, NoDNS).sa = OwnServers(s)
      BY DEF DnsInv, ManualInv, OnlyPrimary, KeepsServers, OwnServers
    <2>2. store[s].setupDNS \in DNSKey /\ store[s].stateDNS \in DNSKey
      BY DEF DnsInv, DnsTyped, ServiceKeys
    <2> QED
      BY <2>1, <2>2, ItemsFit, ArbitratedItems DEF CurDNS
  <1> QED
    BY <1>1, DnsHolds, PTL

=============================================================================
