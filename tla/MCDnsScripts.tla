---------------------------- MODULE MCDnsScripts ----------------------------
\* What services are set to and servers push, for the runs of DnsScripts.
EXTENDS DnsScripts, TLC

CONSTANTS t1, t2, t3, wifi, lan

MCWord == STRING

TunnelSymmetry == Permutations({t1, t2})

Dhcp == [sa |-> <<"router">>, sd |-> <<"home">>, dn |-> <<"home">>]
Manual(sa, sd, dn) == [stateDNS |-> Dhcp, setupDNS |-> [sa |-> sa, sd |-> sd, dn |-> dn],
                       stateSMB |-> NoKey, setupSMB |-> NoKey]

\* A service without any key, one set by DHCP, ones with a manual item each, one
\* with all that a server pushes.
MCSettings ==
  { [stateDNS |-> NoKey, setupDNS |-> NoKey, stateSMB |-> NoKey, setupSMB |-> NoKey],
    [stateDNS |-> Dhcp, setupDNS |-> NoKey,
     stateSMB |-> [NoSMB EXCEPT !.nn = <<"mac">>], setupSMB |-> NoKey],
    [stateDNS |-> Dhcp, setupDNS |-> NoKey,
     stateSMB |-> NoKey, setupSMB |-> [NoSMB EXCEPT !.wa = <<"office">>]],
    Manual(<<"mine">>, << >>, << >>), Manual(<< >>, <<"work">>, << >>),
    Manual(<<"mine">>, << >>, <<"work">>), Manual(<< >>, << >>, <<"work">>),
    Manual(<<"vpn">>, <<"openvpn">>, <<"openvpn">>) }

\* For overlapping tunnels: name servers by hand, with and without a domain.
MCManualSettings == { Manual(<<"mine">>, << >>, << >>), Manual(<<"mine">>, << >>, <<"work">>) }

Push(dns, domain, search, wins) ==
  [dns |-> dns, domain |-> domain, search |-> search, wins |-> wins]

\* Nothing; everything; a server only, with the default domain; "localdomain".
MCFewPushes ==
  { Push(<< >>, <<"vpn.net">>, << >>, << >>),
    Push(<<"vpn">>, <<"vpn.net">>, <<"vpn.net">>, <<"wins">>) }
MCPushes ==
  MCFewPushes \cup { Push(<<"vpn">>, << >>, << >>, << >>),
                     Push(<<"vpn">>, <<"localdomain">>, << >>, << >>) }

\* One tunnel at a time under two services of which either may be primary; tunnels
\* that overlap, with scripts that fail; a machine for the run about domains.
Roaming == [tunnels |-> {t3}, services |-> {wifi, lan}, os |-> "10.7", settings |-> MCSettings,
            pushes |-> MCPushes, launchctlFails |-> FALSE, primaryMoves |-> TRUE]
Overlapping == [tunnels |-> {t1, t2}, services |-> {wifi}, os |-> "10.8",
                settings |-> MCManualSettings, pushes |-> MCFewPushes,
                launchctlFails |-> TRUE, primaryMoves |-> FALSE]
Plain == [tunnels |-> {t3}, services |-> {wifi}, os |-> "10.8", settings |-> MCSettings,
          pushes |-> MCPushes, launchctlFails |-> FALSE, primaryMoves |-> FALSE]

MCMachines == {Roaming, Overlapping}
MCPlainMachine == {Plain}
=============================================================================
