---------------------------- MODULE StartupProofs ----------------------------
(***************************************************************************)
(* Whatever the two files hold: a controller that gets past them runs on a *)
(* policy and on port maps that have the properties every other module     *)
(* assumes of its constants.                                               *)
(***************************************************************************)
EXTENDS Startup, DaemonTablesProofs

(* The loaded tables of an accepted policy.json (load_policy()).           *)
LEMMA LoadedPolicy ==
  ASSUME NEW raw \in Files, policy_ok(raw), policy = load_policy(raw)
  PROVE  Python!PolicyAssumption
<1> DEFINE ZONES == DOMAIN raw.zones
<1>1. /\ DOMAIN policy.zones = ZONES
      /\ \A n \in ZONES : /\ policy.zones[n].net = raw.zones[n].net
                          /\ policy.zones[n].prefix = raw.zones[n].prefix
                          /\ policy.zones[n].gateway = raw.zones[n].gateway
                          /\ policy.zones[n].mac = Lower[raw.zones[n].mac]
  BY DEF load_policy
<1>2. \A n \in ZONES : subnet(policy.zones[n]) = subnet(raw.zones[n])
  BY <1>1 DEF subnet, Size
<1>3. None \notin ZONES
  BY FilesAssumption
<1>4. \A n \in ZONES : /\ raw.zones[n].gateway \in subnet(raw.zones[n])
                       /\ subnet(raw.zones[n]) \subseteq Addresses
                       /\ raw.zones[n].mac \in MacTexts
  BY DEF policy_ok, zone_ok, subnet
<1>5. \A n \in ZONES : Lower[raw.zones[n].mac] \in MacTexts
  BY <1>4, TablesAssumption
<1>6. \A n, m \in ZONES :
        n # m => /\ subnet(raw.zones[n]) \cap subnet(raw.zones[m]) = {}
                 /\ Lower[raw.zones[n].mac] # Lower[raw.zones[m].mac]
  BY DEF policy_ok, clash
<1>7. ASSUME NEW kind PROVE blocks(raw, kind) \subseteq ZONES \X ZONES
  BY DEF policy_ok, rule_ok, blocks
<1>8. policy.block_all_ip \subseteq ZONES \X ZONES /\ policy.block_icmp \subseteq ZONES \X ZONES
  BY <1>7 DEF load_policy
<1> HIDE DEF ZONES
<1>9. \A n \in ZONES :
        /\ subnet(policy.zones[n]) \subseteq Addresses
        /\ policy.zones[n].gateway \in subnet(policy.zones[n])
        /\ policy.zones[n].mac \in MacTexts
  BY <1>1, <1>2, <1>4, <1>5
<1>10. \A n, m \in ZONES :
         n # m => /\ subnet(policy.zones[n]) \cap subnet(policy.zones[m]) = {}
                  /\ policy.zones[n].mac # policy.zones[m].mac
  BY <1>1, <1>2, <1>6
<1>11. DOMAIN policy.zones = ZONES
  BY <1>1
<1> QED  BY <1>3, <1>8, <1>9, <1>10, <1>11 DEF Python!PolicyAssumption
-----------------------------------------------------------------------------
(* The loaded layout of an accepted network.json. *)

(* What the lemmas below show of the network that is loaded: its switches, *)
(* its uplinks, a host h of it, its maps, and the core's port map.         *)
SwitchesLoaded(raw, zones, net) ==
  /\ DOMAIN net.switches = DOMAIN raw.switches
  /\ net.core \in DOMAIN net.switches
  /\ LeavesOf(raw.switches) = DOMAIN net.switches \ {net.core}
  /\ net.core = CoreOf(raw.switches)
  /\ \A s \in DOMAIN net.switches : NamedBy(net, net.switches[s].dpid) = s
  /\ \A leaf \in LeavesOf(raw.switches) :
       /\ net.switches[leaf].zone = raw.switches[leaf].zone
       /\ net.switches[leaf].zone \in DOMAIN zones

UplinksLoaded(raw, net) ==
  /\ DOMAIN net.uplinks = LeavesOf(raw.switches)
  /\ \A leaf \in LeavesOf(raw.switches) :
       /\ net.uplinks[leaf].leaf_port \in Nat \ {0}
       /\ net.uplinks[leaf].core_port \in Nat \ {0}
  /\ \A a, b \in LeavesOf(raw.switches) :
       net.uplinks[a].core_port = net.uplinks[b].core_port => a = b

HostLoaded(raw, zones, net, h) ==
  LET host == net.hosts[h] IN
  /\ h \in DOMAIN raw.hosts /\ host.port \in Nat \ {0}
  /\ host.zone = zone_holding(zones, host.ip) /\ host.zone \in DOMAIN zones
  /\ host.ip \in subnet(zones[host.zone]) /\ host.ip # zones[host.zone].gateway
  /\ host.switch \in DOMAIN raw.switches
  /\ host.switch # net.core => /\ net.switches[host.switch].zone = host.zone
                               /\ net.uplinks[host.switch].leaf_port # host.port
  /\ host.switch = net.core =>
       /\ \A leaf \in LeavesOf(raw.switches) : net.uplinks[leaf].core_port # host.port
       /\ \A g \in DOMAIN net.hosts :
            net.hosts[g].switch = net.core /\ net.hosts[g].port = host.port => g = h

LeafMapped(net, L, s) ==
  /\ net.switches[s].dpid \in DpidsOf(net, L)
  /\ switch_zone(net)[net.switches[s].dpid] = net.switches[s].zone
  /\ leaf_uplink_port(net)[net.switches[s].dpid] = net.uplinks[s].leaf_port
  /\ leaf_core_port(net)[net.switches[s].dpid] = net.uplinks[s].core_port

MapsLoaded(net, L) ==
  /\ \A s \in DOMAIN net.switches : net.switches[s].dpid \in DpidsOf(net, DOMAIN net.switches)
  /\ core_dpid(net) = net.switches[net.core].dpid
  /\ core_dpid(net) \notin DpidsOf(net, L)
  /\ DOMAIN switch_zone(net) = DpidsOf(net, L)
  /\ DOMAIN leaf_uplink_port(net) = DpidsOf(net, L)
  /\ DOMAIN leaf_core_port(net) = DpidsOf(net, L)
  /\ \A s \in L : LeafMapped(net, L, s)
  /\ \A d \in DpidsOf(net, L) : \E s \in L : d = net.switches[s].dpid

CorePortsLoaded(net, L, zones) ==
  LET ports == core_port_zones(net) IN
  /\ DOMAIN ports \subseteq Nat \ {0}
  /\ ports \in [DOMAIN ports -> DOMAIN zones]
  /\ \A leaf \in L : /\ net.uplinks[leaf].core_port \in DOMAIN ports
                     /\ ports[net.uplinks[leaf].core_port] = net.switches[leaf].zone
  /\ \A h \in DOMAIN net.hosts : net.hosts[h].switch = net.core =>
       /\ net.hosts[h].port \in DOMAIN ports
       /\ ports[net.hosts[h].port] = net.hosts[h].zone

(* One switch is the core, every other has a zone, and a dpid names one    *)
(* switch (_load_switches()).                                              *)
LEMMA LoadedSwitches ==
  ASSUME NEW raw, NEW zones, NEW net, network_ok(raw, zones), net = load_network(raw, zones)
  PROVE  SwitchesLoaded(raw, zones, net)
<1> DEFINE SW == DOMAIN raw.switches
<1>1. /\ \A s \in SW : raw.switches[s].core \/ raw.switches[s].zone \in DOMAIN zones
      /\ \A s, t \in SW : s # t => raw.switches[s].dpid # raw.switches[t].dpid
      /\ \E s \in SW : Cores(raw.switches) = {s}
  BY DEF network_ok, switches_ok
<1>2. /\ DOMAIN net.switches = SW /\ net.core = CoreOf(raw.switches)
      /\ \A s \in SW : /\ net.switches[s].dpid = raw.switches[s].dpid
                       /\ net.switches[s].zone = IF raw.switches[s].core THEN None
                                                 ELSE raw.switches[s].zone
  BY DEF load_network
<1>3. CoreOf(raw.switches) \in SW /\ Cores(raw.switches) = {CoreOf(raw.switches)}
  BY <1>1 DEF CoreOf, Cores
<1>4. LeavesOf(raw.switches) = SW \ {net.core}
  BY <1>2, <1>3 DEF LeavesOf
<1>5. \A s \in SW : NamedBy(net, net.switches[s].dpid) = s
  BY <1>1, <1>2 DEF NamedBy
<1>6. \A leaf \in LeavesOf(raw.switches) : ~raw.switches[leaf].core /\ leaf \in SW
  BY DEF LeavesOf, Cores
<1> HIDE DEF SW
<1>7. \A leaf \in LeavesOf(raw.switches) :
        net.switches[leaf].zone = raw.switches[leaf].zone
          /\ net.switches[leaf].zone \in DOMAIN zones
  BY <1>1, <1>2, <1>6
<1> QED  BY <1>2, <1>3, <1>4, <1>5, <1>7 DEF SwitchesLoaded, SW

(* What is plugged into a port: the end of an uplink or a host             *)
(* (_check_ports_unique()).                                                *)
Plugged(raw, switch, port, plug) == <<switch, port, plug>> \in attachments(raw)

(* Every plug has a port number, and a port of a switch has one plug       *)
(* (_check_ports_unique()).                                                *)
LEMMA PortsAreUnique ==
  ASSUME NEW raw, NEW zones, network_ok(raw, zones), NEW switch, NEW port, NEW p,
         Plugged(raw, switch, port, p)
  PROVE  port \in Nat \ {0} /\ \A q : Plugged(raw, switch, port, q) => p = q
<1> DEFINE At(q) == <<switch, port, q>>
<1>1. \A q : At(q)[1] = switch /\ At(q)[2] = port /\ At(q)[3] = q
  OBVIOUS
<1>2. \A q : Plugged(raw, switch, port, q) => At(q) \in attachments(raw)
  BY DEF Plugged
<1> HIDE DEF At
<1>3. /\ \A a \in attachments(raw) : a[2] \in Nat /\ a[2] > 0
      /\ \A a, b \in attachments(raw) : a[1] = b[1] /\ a[2] = b[2] => a = b
  BY DEF network_ok, ports_unique
<1>4. port \in Nat \ {0}
  BY <1>1, <1>2, <1>3
<1>5. ASSUME NEW q, Plugged(raw, switch, port, q) PROVE p = q
  <2>1. At(p) = At(q)
    BY <1>1, <1>2, <1>3, <1>5
  <2>2. At(p)[3] = At(q)[3]
    BY <2>1
  <2> QED  BY <1>1, <2>2
<1> QED  BY <1>4, <1>5

(* The two plugs of an uplink (_check_ports_unique()).                     *)
LEMMA UplinkPlugs ==
  ASSUME NEW raw, NEW i \in DOMAIN raw.uplinks
  PROVE  LET uplink == raw.uplinks[i]
         IN  /\ Plugged(raw, uplink.leaf, uplink.leaf_port, <<"uplink_to_core", i>>)
             /\ Plugged(raw, CoreOf(raw.switches), uplink.core_port, <<"uplink_from", i>>)
BY DEF attachments, Plugged

(* The plug of a host (_check_ports_unique()). *)
LEMMA HostPlug ==
  ASSUME NEW raw, NEW g \in DOMAIN raw.hosts
  PROVE  Plugged(raw, raw.hosts[g].switch, raw.hosts[g].port, <<"host", g>>)
BY DEF attachments, Plugged

(* Plugs are of one uplink or of one host. *)
LEMMA PlugsDiffer ==
  ASSUME NEW i, NEW j
  PROVE  /\ <<"uplink_from", i>> = <<"uplink_from", j>> => i = j
         /\ <<"host", i>> = <<"host", j>> => i = j
         /\ <<"uplink_to_core", i>> # <<"host", j>>
         /\ <<"uplink_from", i>> # <<"host", j>>
OBVIOUS

(* An uplink's ports are positive, and its core port no other uplink's     *)
(* (_check_ports_unique()).                                                *)
LEMMA UplinksApart ==
  ASSUME NEW raw, NEW zones, network_ok(raw, zones), NEW i \in DOMAIN raw.uplinks
  PROVE  /\ raw.uplinks[i].leaf_port \in Nat \ {0} /\ raw.uplinks[i].core_port \in Nat \ {0}
         /\ \A j \in DOMAIN raw.uplinks :
              raw.uplinks[i].core_port = raw.uplinks[j].core_port => i = j
<1> DEFINE from(j) == <<"uplink_from", j>>
           to(j) == <<"uplink_to_core", j>>
           port(j) == raw.uplinks[j].core_port
           core == CoreOf(raw.switches)
<1>1. \A j \in DOMAIN raw.uplinks : Plugged(raw, core, port(j), from(j))
  BY UplinkPlugs
<1>2. Plugged(raw, raw.uplinks[i].leaf, raw.uplinks[i].leaf_port, to(i))
  BY UplinkPlugs
<1>3. \A j : from(i) = from(j) => i = j
  BY PlugsDiffer
<1>4. port(i) = raw.uplinks[i].core_port /\ \A j : port(j) = raw.uplinks[j].core_port
  OBVIOUS
<1> HIDE DEF from, to, port, core
<1>5. raw.uplinks[i].leaf_port \in Nat \ {0}
  BY <1>2, PortsAreUnique
<1>6. port(i) \in Nat \ {0} /\ \A q : Plugged(raw, core, port(i), q) => from(i) = q
  BY <1>1, PortsAreUnique
<1>7. \A j \in DOMAIN raw.uplinks : port(i) = port(j) => i = j
  BY <1>1, <1>3, <1>6
<1> QED  BY <1>4, <1>5, <1>6, <1>7

(* A host has its port to itself (_check_ports_unique()).                  *)
LEMMA HostsApart ==
  ASSUME NEW raw, NEW zones, network_ok(raw, zones), NEW h \in DOMAIN raw.hosts
  PROVE  /\ raw.hosts[h].port \in Nat \ {0}
         /\ \A g \in DOMAIN raw.hosts :
              raw.hosts[g].switch = raw.hosts[h].switch /\ raw.hosts[g].port = raw.hosts[h].port
                => g = h
         /\ \A i \in DOMAIN raw.uplinks :
              /\ ~(raw.uplinks[i].leaf = raw.hosts[h].switch
                      /\ raw.uplinks[i].leaf_port = raw.hosts[h].port)
              /\ ~(CoreOf(raw.switches) = raw.hosts[h].switch
                      /\ raw.uplinks[i].core_port = raw.hosts[h].port)
<1> DEFINE switch == raw.hosts[h].switch
           port == raw.hosts[h].port
           plug(g) == <<"host", g>>
           from(i) == <<"uplink_from", i>>
           to(i) == <<"uplink_to_core", i>>
<1>1. \A g \in DOMAIN raw.hosts :
        Plugged(raw, raw.hosts[g].switch, raw.hosts[g].port, plug(g))
  BY HostPlug
<1>2. \A i \in DOMAIN raw.uplinks :
        /\ Plugged(raw, raw.uplinks[i].leaf, raw.uplinks[i].leaf_port, to(i))
        /\ Plugged(raw, CoreOf(raw.switches), raw.uplinks[i].core_port, from(i))
  BY UplinkPlugs
<1>3. /\ \A g : plug(h) = plug(g) => g = h
      /\ \A i : to(i) # plug(h) /\ from(i) # plug(h)
  BY PlugsDiffer
<1>4. Plugged(raw, switch, port, plug(h))
  BY <1>1
<1> HIDE DEF switch, port, plug, from, to
<1>5. port \in Nat \ {0} /\ \A q : Plugged(raw, switch, port, q) => plug(h) = q
  BY <1>4, PortsAreUnique
<1>6. \A g \in DOMAIN raw.hosts :
        raw.hosts[g].switch = switch /\ raw.hosts[g].port = port => g = h
  BY <1>1, <1>3, <1>5
<1>7. \A i \in DOMAIN raw.uplinks :
        /\ ~(raw.uplinks[i].leaf = switch /\ raw.uplinks[i].leaf_port = port)
        /\ ~(CoreOf(raw.switches) = switch /\ raw.uplinks[i].core_port = port)
  BY <1>2, <1>3, <1>5
<1> QED  BY <1>5, <1>6, <1>7 DEF switch, port

(* A leaf's loaded uplink is one of the file's (_load_uplinks()).          *)
LEMMA UplinkPorts ==
  ASSUME NEW raw, NEW zones, NEW net, network_ok(raw, zones), net = load_network(raw, zones),
         NEW leaf \in LeavesOf(raw.switches)
  PROVE  \E i \in DOMAIN raw.uplinks :
           /\ raw.uplinks[i].leaf = leaf
           /\ net.uplinks[leaf].core_port = raw.uplinks[i].core_port
           /\ net.uplinks[leaf].leaf_port = raw.uplinks[i].leaf_port
<1> DEFINE I == DOMAIN raw.uplinks
           j == CHOOSE i \in I : raw.uplinks[i].leaf = leaf
<1>1. j \in I /\ raw.uplinks[j].leaf = leaf
  BY DEF network_ok, uplinks_ok
<1>2. UplinkOf(raw, leaf) = raw.uplinks[j]
  BY DEF UplinkOf
<1> HIDE DEF j
<1>3. /\ net.uplinks[leaf].leaf_port = UplinkOf(raw, leaf).leaf_port
      /\ net.uplinks[leaf].core_port = UplinkOf(raw, leaf).core_port
  BY <1>1 DEF load_network
<1> QED  BY <1>1, <1>2, <1>3

(* Every leaf has one uplink, whose two ports are its own                  *)
(* (_load_uplinks() and _check_ports_unique()).                            *)
LEMMA LoadedUplinks ==
  ASSUME NEW raw, NEW zones, NEW net, network_ok(raw, zones), net = load_network(raw, zones)
  PROVE  UplinksLoaded(raw, net)
<1> DEFINE LEAVES == LeavesOf(raw.switches)
           I == DOMAIN raw.uplinks
<1>1. /\ \A i \in I : raw.uplinks[i].leaf \in LEAVES
      /\ \A leaf \in LEAVES : \E i \in I : raw.uplinks[i].leaf = leaf
  BY DEF network_ok, uplinks_ok
<1>2. DOMAIN net.uplinks = {raw.uplinks[i].leaf : i \in I}
  BY DEF load_network
<1>3. DOMAIN net.uplinks = LEAVES
  BY <1>1, <1>2
<1>4. ASSUME NEW leaf \in LEAVES
      PROVE  \E i \in I : /\ raw.uplinks[i].leaf = leaf
                          /\ net.uplinks[leaf].core_port = raw.uplinks[i].core_port
                          /\ net.uplinks[leaf].leaf_port = raw.uplinks[i].leaf_port
  BY UplinkPorts
<1>5. /\ \A i \in I : raw.uplinks[i].leaf_port \in Nat \ {0} /\ raw.uplinks[i].core_port \in Nat \ {0}
      /\ \A i, j \in I : raw.uplinks[i].core_port = raw.uplinks[j].core_port => i = j
  BY UplinksApart
<1> HIDE DEF LEAVES, I
<1>9. \A leaf \in LEAVES : /\ net.uplinks[leaf].leaf_port \in Nat \ {0}
                           /\ net.uplinks[leaf].core_port \in Nat \ {0}
  BY <1>4, <1>5
<1>10. \A a, b \in LEAVES : net.uplinks[a].core_port = net.uplinks[b].core_port => a = b
  BY <1>4, <1>5
<1> QED  BY <1>3, <1>9, <1>10 DEF UplinksLoaded, LEAVES

(* A host has an address of its zone that the zone does not keep, sits on  *)
(* a leaf of that zone or on the core, and has its port to itself          *)
(* (_load_hosts() and _check_ports_unique()).                              *)
LEMMA LoadedHosts ==
  ASSUME NEW raw, NEW zones, NEW net, network_ok(raw, zones), net = load_network(raw, zones),
         NEW h \in DOMAIN net.hosts
  PROVE  HostLoaded(raw, zones, net, h)
<1> DEFINE host == raw.hosts[h]
           zone == zone_holding(zones, host.ip)
<1>1. /\ DOMAIN net.hosts = DOMAIN raw.hosts
      /\ \A g \in DOMAIN raw.hosts :
           /\ net.hosts[g].ip = raw.hosts[g].ip /\ net.hosts[g].port = raw.hosts[g].port
           /\ net.hosts[g].switch = raw.hosts[g].switch
           /\ net.hosts[g].zone = zone_holding(zones, raw.hosts[g].ip)
  BY DEF load_network
<1>2. /\ zone # None /\ ~reserved(zones[zone], host.ip)
      /\ host.switch \in DOMAIN raw.switches
      /\ host.switch \in LeavesOf(raw.switches) => raw.switches[host.switch].zone = zone
  BY <1>1 DEF network_ok, hosts_ok
<1>3. zone \in DOMAIN zones /\ host.ip \in subnet(zones[zone])
  BY <1>2 DEF zone_holding
<1>4. host.ip # zones[zone].gateway
  BY <1>2 DEF reserved
<1>16. h \in DOMAIN raw.hosts
  BY <1>1
<1>7. ASSUME NEW leaf \in LeavesOf(raw.switches)
      PROVE  \E i \in DOMAIN raw.uplinks :
               /\ raw.uplinks[i].leaf = leaf
               /\ net.uplinks[leaf].leaf_port = raw.uplinks[i].leaf_port
               /\ net.uplinks[leaf].core_port = raw.uplinks[i].core_port
  BY <1>7, UplinkPorts
<1>8. /\ host.port \in Nat \ {0}
      /\ \A g \in DOMAIN raw.hosts :
           raw.hosts[g].switch = host.switch /\ raw.hosts[g].port = host.port => g = h
  BY <1>16, HostsApart
<1>9. \A i \in DOMAIN raw.uplinks :
        /\ ~(raw.uplinks[i].leaf = host.switch /\ raw.uplinks[i].leaf_port = host.port)
        /\ ~(CoreOf(raw.switches) = host.switch /\ raw.uplinks[i].core_port = host.port)
  BY <1>16, HostsApart
<1>10. net.core = CoreOf(raw.switches) /\ LeavesOf(raw.switches) = DOMAIN raw.switches \ {net.core}
       /\ \A leaf \in LeavesOf(raw.switches) : net.switches[leaf].zone = raw.switches[leaf].zone
  BY LoadedSwitches DEF SwitchesLoaded
<1>12. /\ net.hosts[h].ip = host.ip /\ net.hosts[h].port = host.port
       /\ net.hosts[h].switch = host.switch /\ net.hosts[h].zone = zone
  BY <1>1
<1>13. ASSUME host.switch # net.core
       PROVE  /\ net.switches[host.switch].zone = zone
              /\ net.uplinks[host.switch].leaf_port # host.port
  <2>1. host.switch \in LeavesOf(raw.switches)
    BY <1>2, <1>10, <1>13
  <2> QED  BY <1>2, <1>7, <1>9, <1>10, <2>1
<1>14. ASSUME host.switch = net.core, NEW leaf \in LeavesOf(raw.switches)
       PROVE  net.uplinks[leaf].core_port # host.port
  BY <1>7, <1>9, <1>10, <1>14
<1>15. ASSUME host.switch = net.core, NEW g \in DOMAIN net.hosts,
              net.hosts[g].switch = net.core, net.hosts[g].port = host.port
       PROVE  g = h
  BY <1>1, <1>8, <1>15
<1> HIDE DEF host, zone
<1> QED
  BY <1>2, <1>3, <1>4, <1>8, <1>12, <1>13, <1>14, <1>15, <1>16 DEF HostLoaded, zone
-----------------------------------------------------------------------------
(* The port maps. *)

(* What the maps are, by switch instead of by dpid (port_maps()).          *)
LEMMA MapsOfLayout ==
  ASSUME NEW raw, NEW zones, NEW net, network_ok(raw, zones), net = load_network(raw, zones)
  PROVE  MapsLoaded(net, LeavesOf(raw.switches))
<1> DEFINE L == LeavesOf(raw.switches)
<1>1. /\ net.core \in DOMAIN net.switches /\ L = DOMAIN net.switches \ {net.core}
      /\ \A s \in DOMAIN net.switches : NamedBy(net, net.switches[s].dpid) = s
      /\ DOMAIN net.uplinks = L
  BY LoadedSwitches, LoadedUplinks DEF SwitchesLoaded, UplinksLoaded
<1> HIDE DEF L
<1>2. /\ \A s \in DOMAIN net.switches : net.switches[s].dpid \in DpidsOf(net, DOMAIN net.switches)
      /\ \A s \in L : net.switches[s].dpid \in DpidsOf(net, L)
      /\ \A d \in DpidsOf(net, L) : \E s \in L : d = net.switches[s].dpid
  BY DEF DpidsOf
<1>3. core_dpid(net) = net.switches[net.core].dpid
  BY DEF core_dpid
<1>4. core_dpid(net) \notin DpidsOf(net, L)
  <2> SUFFICES ASSUME core_dpid(net) \in DpidsOf(net, L) PROVE FALSE
    OBVIOUS
  <2>1. PICK s \in L : net.switches[net.core].dpid = net.switches[s].dpid
    BY <1>2, <1>3
  <2>2. NamedBy(net, net.switches[net.core].dpid) = NamedBy(net, net.switches[s].dpid)
    BY <2>1
  <2> QED  BY <1>1, <2>2
<1>5. /\ DOMAIN switch_zone(net) = DpidsOf(net, L)
      /\ DOMAIN leaf_uplink_port(net) = DpidsOf(net, L)
      /\ DOMAIN leaf_core_port(net) = DpidsOf(net, L)
  BY <1>1 DEF switch_zone, leaf_uplink_port, leaf_core_port
<1>6. ASSUME NEW s \in L
      PROVE  /\ switch_zone(net)[net.switches[s].dpid] = net.switches[s].zone
             /\ leaf_uplink_port(net)[net.switches[s].dpid] = net.uplinks[s].leaf_port
             /\ leaf_core_port(net)[net.switches[s].dpid] = net.uplinks[s].core_port
  BY <1>1, <1>2 DEF switch_zone, leaf_uplink_port, leaf_core_port
<1>7. \A s \in L : LeafMapped(net, L, s)
  BY <1>2, <1>6 DEF LeafMapped
<1>8. MapsLoaded(net, L)
  BY <1>2, <1>3, <1>4, <1>5, <1>7 DEF MapsLoaded
<1> QED  BY <1>8 DEF L

(* The core's port map knows the port of every leaf, of that leaf's zone,  *)
(* and of every host on the core, of that host's zone (port_maps()).       *)
LEMMA CorePortsOfLayout ==
  ASSUME NEW raw, NEW zones, NEW net, network_ok(raw, zones), net = load_network(raw, zones)
  PROVE  CorePortsLoaded(net, LeavesOf(raw.switches), zones)
<1> DEFINE L == LeavesOf(raw.switches)
           on_core == {h \in DOMAIN net.hosts : net.hosts[h].switch = net.core}
           host_ports == {net.hosts[h].port : h \in on_core}
           link_ports == {net.uplinks[leaf].core_port : leaf \in DOMAIN net.uplinks}
           HostAt(port) == CHOOSE h \in on_core : net.hosts[h].port = port
           LeafAt(port) == CHOOSE leaf \in DOMAIN net.uplinks : net.uplinks[leaf].core_port = port
<1>1. core_port_zones(net) =
        [port \in link_ports \cup host_ports |->
           IF port \in host_ports THEN net.hosts[HostAt(port)].zone
           ELSE net.switches[LeafAt(port)].zone]
  BY DEF core_port_zones
<1>0. /\ SwitchesLoaded(raw, zones, net) /\ UplinksLoaded(raw, net)
      /\ \A h \in DOMAIN net.hosts : HostLoaded(raw, zones, net, h)
  BY LoadedSwitches, LoadedUplinks, LoadedHosts
<1>2. /\ DOMAIN net.uplinks = L
      /\ \A leaf \in L : net.uplinks[leaf].core_port \in Nat \ {0}
      /\ \A a, b \in L : net.uplinks[a].core_port = net.uplinks[b].core_port => a = b
      /\ \A leaf \in L : net.switches[leaf].zone \in DOMAIN zones
  BY <1>0 DEF UplinksLoaded, SwitchesLoaded
<1>10. ASSUME NEW h \in on_core
       PROVE  /\ net.hosts[h].port \in Nat \ {0} /\ net.hosts[h].zone \in DOMAIN zones
              /\ \A leaf \in L : net.uplinks[leaf].core_port # net.hosts[h].port
              /\ \A g \in on_core : net.hosts[g].port = net.hosts[h].port => g = h
  BY <1>0 DEF HostLoaded
<1>3. ASSUME NEW leaf \in L
      PROVE  /\ net.uplinks[leaf].core_port \in Nat \ {0}
             /\ net.uplinks[leaf].core_port \in link_ports
             /\ net.uplinks[leaf].core_port \notin host_ports
             /\ LeafAt(net.uplinks[leaf].core_port) = leaf
             /\ net.switches[leaf].zone \in DOMAIN zones
  <2> HIDE DEF L, on_core
  <2>1. net.uplinks[leaf].core_port \in link_ports
    BY <1>2
  <2>2. net.uplinks[leaf].core_port \notin host_ports
    BY <1>10
  <2>3. LeafAt(net.uplinks[leaf].core_port) = leaf
    BY <1>2
  <2> QED  BY <1>2, <2>1, <2>2, <2>3
<1>4. ASSUME NEW h \in on_core
      PROVE  /\ net.hosts[h].port \in Nat \ {0} /\ net.hosts[h].port \in host_ports
             /\ HostAt(net.hosts[h].port) = h
             /\ net.hosts[h].zone \in DOMAIN zones
  <2> HIDE DEF L, on_core
  <2> QED  BY <1>10
<1>5. \A port \in link_ports : \E leaf \in L : port = net.uplinks[leaf].core_port
  BY <1>2
<1>6. \A port \in host_ports : \E h \in on_core : port = net.hosts[h].port
  OBVIOUS
<1>7. \A h \in DOMAIN net.hosts : net.hosts[h].switch = net.core => h \in on_core
  OBVIOUS
<1> HIDE DEF on_core, host_ports, link_ports, HostAt, LeafAt
<1>8. \A port \in link_ports \cup host_ports : core_port_zones(net)[port] \in DOMAIN zones
  BY <1>1, <1>3, <1>4, <1>5, <1>6
<1>9. DOMAIN core_port_zones(net) = link_ports \cup host_ports
      /\ core_port_zones(net) \in [link_ports \cup host_ports -> DOMAIN zones]
  BY <1>1, <1>8
<1>11. DOMAIN core_port_zones(net) \subseteq Nat \ {0}
  BY <1>3, <1>4, <1>5, <1>6, <1>9
<1>12. ASSUME NEW leaf \in L
       PROVE  /\ net.uplinks[leaf].core_port \in DOMAIN core_port_zones(net)
              /\ core_port_zones(net)[net.uplinks[leaf].core_port] = net.switches[leaf].zone
  BY <1>1, <1>3, <1>9
<1>13. ASSUME NEW h \in DOMAIN net.hosts, net.hosts[h].switch = net.core
       PROVE  /\ net.hosts[h].port \in DOMAIN core_port_zones(net)
              /\ core_port_zones(net)[net.hosts[h].port] = net.hosts[h].zone
  BY <1>1, <1>4, <1>7, <1>9, <1>13
<1> HIDE DEF L
<1>14. CorePortsLoaded(net, L, zones)
  BY <1>9, <1>11, <1>12, <1>13 DEF CorePortsLoaded
<1> QED  BY <1>14 DEF L

(* All of it, of the network the controller loads.                         *)
LEMMA LoadedNetwork ==
  ASSUME NEW raw, NEW zones, NEW net, network_ok(raw, zones), net = load_network(raw, zones)
  PROVE  /\ SwitchesLoaded(raw, zones, net) /\ UplinksLoaded(raw, net)
         /\ \A h \in DOMAIN net.hosts : HostLoaded(raw, zones, net, h)
         /\ MapsLoaded(net, LeavesOf(raw.switches))
         /\ CorePortsLoaded(net, LeavesOf(raw.switches), zones)
BY LoadedSwitches, LoadedUplinks, LoadedHosts, MapsOfLayout, CorePortsOfLayout

(* The maps of an accepted layout fit together (port_maps()).              *)
LEMMA LoadedLayout ==
  ASSUME NEW raw \in Files, policy_ok(raw), policy = load_policy(raw),
         network_ok(raw, policy.zones), layout = load_network(raw, policy.zones)
  PROVE  Maps!PortMapsAssumption
<1> DEFINE L == LeavesOf(raw.switches)
           maps == DpidsOf(layout, L)
<1>0. /\ SwitchesLoaded(raw, policy.zones, layout) /\ UplinksLoaded(raw, layout)
      /\ MapsLoaded(layout, L) /\ CorePortsLoaded(layout, L, policy.zones)
  BY LoadedNetwork
<1>1. None \notin Nat \ {0}
  BY FilesAssumption
<1>2. /\ \A s \in L : layout.switches[s].zone \in DOMAIN policy.zones
      /\ layout.core \in DOMAIN layout.switches
  BY <1>0 DEF SwitchesLoaded
<1>3. \A s \in L : layout.uplinks[s].leaf_port \in Nat \ {0}
  BY <1>0 DEF UplinksLoaded
<1> HIDE DEF L
<1>4. /\ core_dpid(layout) \in DpidsOf(layout, DOMAIN layout.switches) \ maps
      /\ DOMAIN switch_zone(layout) = maps
      /\ DOMAIN leaf_uplink_port(layout) = maps /\ DOMAIN leaf_core_port(layout) = maps
  BY <1>0, <1>2 DEF MapsLoaded
<1>8. /\ \A s \in L : LeafMapped(layout, L, s)
      /\ \A d \in maps : \E s \in L : d = layout.switches[s].dpid
  BY <1>0 DEF MapsLoaded
<1>9. \A s \in L :
        /\ layout.uplinks[s].core_port \in DOMAIN core_port_zones(layout)
        /\ core_port_zones(layout)[layout.uplinks[s].core_port] = layout.switches[s].zone
  BY <1>0 DEF CorePortsLoaded
<1>6. /\ DOMAIN core_port_zones(layout) \subseteq Nat \ {0}
      /\ core_port_zones(layout) \in [DOMAIN core_port_zones(layout) -> DOMAIN policy.zones]
  BY <1>0 DEF CorePortsLoaded
<1>5. ASSUME NEW d \in maps
      PROVE  /\ switch_zone(layout)[d] \in DOMAIN policy.zones
             /\ leaf_uplink_port(layout)[d] \in Nat \ {0}
             /\ leaf_core_port(layout)[d] \in DOMAIN core_port_zones(layout)
             /\ core_port_zones(layout)[leaf_core_port(layout)[d]] = switch_zone(layout)[d]
  <2>1. PICK s \in L : d = layout.switches[s].dpid
    BY <1>8
  <2>2. /\ switch_zone(layout)[d] = layout.switches[s].zone
        /\ leaf_uplink_port(layout)[d] = layout.uplinks[s].leaf_port
        /\ leaf_core_port(layout)[d] = layout.uplinks[s].core_port
    BY <2>1, <1>8 DEF LeafMapped
  <2> QED  BY <1>2, <1>3, <1>9, <2>2
<1>7. /\ switch_zone(layout) \in [maps -> DOMAIN policy.zones]
      /\ leaf_uplink_port(layout) \in [maps -> Nat \ {0}]
      /\ leaf_core_port(layout) \in [maps -> DOMAIN core_port_zones(layout)]
      /\ core_port_zones(layout) \in [DOMAIN core_port_zones(layout) -> DOMAIN policy.zones]
  <2>1. switch_zone(layout) = [d \in DOMAIN switch_zone(layout) |-> switch_zone(layout)[d]]
    BY DEF switch_zone
  <2>2. leaf_uplink_port(layout) =
          [d \in DOMAIN leaf_uplink_port(layout) |-> leaf_uplink_port(layout)[d]]
    BY DEF leaf_uplink_port
  <2>3. leaf_core_port(layout) =
          [d \in DOMAIN leaf_core_port(layout) |-> leaf_core_port(layout)[d]]
    BY DEF leaf_core_port
  <2> HIDE DEF maps
  <2> QED  BY <1>4, <1>5, <1>6, <2>1, <2>2, <2>3
<1> HIDE DEF maps
<1> QED  BY <1>1, <1>4, <1>5, <1>6, <1>7 DEF Maps!PortMapsAssumption, Maps!Leaves

(* A host is believed, and found, where it is plugged in.                  *)
HostBelongs(host, dpid) ==
  /\ Python!source_ip_valid_for_zone(host.ip, Maps!zone_of_port(dpid, host.port))
  /\ ~Maps!is_leaf_uplink(dpid, host.port)
  /\ Maps!core_port_for(dpid, host.port) \in Maps!ZONE_CORE_PORTS(host.zone)
  /\ dpid = core_dpid(layout) =>
       \A leaf \in Maps!Leaves : leaf_core_port(layout)[leaf] # host.port

(* A host of an accepted layout, where it is plugged in (load_network()).  *)
LEMMA LoadedHostBelongs ==
  ASSUME NEW raw \in Files, policy_ok(raw), policy = load_policy(raw),
         network_ok(raw, policy.zones), layout = load_network(raw, policy.zones),
         NEW h \in DOMAIN layout.hosts
  PROVE  HostBelongs(layout.hosts[h], layout.switches[layout.hosts[h].switch].dpid)
<1> DEFINE host == layout.hosts[h]
           dpid == layout.switches[host.switch].dpid
           L == LeavesOf(raw.switches)
           ports == core_port_zones(layout)
<1>0. /\ SwitchesLoaded(raw, policy.zones, layout) /\ HostLoaded(raw, policy.zones, layout, h)
      /\ MapsLoaded(layout, L) /\ CorePortsLoaded(layout, L, policy.zones)
  BY LoadedNetwork
<1>1. /\ host.zone \in DOMAIN policy.zones /\ host.ip \in subnet(policy.zones[host.zone])
      /\ host.ip # policy.zones[host.zone].gateway
      /\ host.switch \in DOMAIN raw.switches
      /\ host.switch # layout.core => /\ layout.switches[host.switch].zone = host.zone
                                      /\ layout.uplinks[host.switch].leaf_port # host.port
      /\ host.switch = layout.core =>
           \A leaf \in L : layout.uplinks[leaf].core_port # host.port
  BY <1>0 DEF HostLoaded, L
<1>6. host.switch # layout.core => host.switch \in L
  BY <1>0, <1>1 DEF SwitchesLoaded
<1>7. host.switch = layout.core => host.port \in DOMAIN ports /\ ports[host.port] = host.zone
  BY <1>0 DEF CorePortsLoaded
<1>8. \A s \in L : /\ layout.uplinks[s].core_port \in DOMAIN ports
                   /\ ports[layout.uplinks[s].core_port] = layout.switches[s].zone
  BY <1>0 DEF CorePortsLoaded
<1>9. /\ \A s \in L : LeafMapped(layout, L, s)
      /\ \A d \in DpidsOf(layout, L) : \E s \in L : d = layout.switches[s].dpid
  BY <1>0 DEF MapsLoaded
<1>2. Python!source_ip_valid_for_zone(host.ip, host.zone)
  <2> HIDE DEF host, dpid, L, ports
  <2>1. \A z \in DOMAIN policy.zones : host.ip \in subnet(policy.zones[z]) => z = host.zone
    <3>1. Python!PolicyAssumption
      BY LoadedPolicy
    <3>2. \A y, z \in DOMAIN policy.zones :
            y # z => subnet(policy.zones[y]) \cap subnet(policy.zones[z]) = {}
      BY <3>1 DEF Python!PolicyAssumption
    <3> QED  BY <1>1, <3>2
  <2>2. Python!zone_for_ip(host.ip) = host.zone
    BY <1>1, <2>1 DEF Python!zone_for_ip
  <2> QED  BY <1>1, <2>2 DEF Python!source_ip_valid_for_zone
<1>3. /\ core_dpid(layout) = layout.switches[layout.core].dpid
      /\ core_dpid(layout) \notin Maps!Leaves
      /\ DOMAIN switch_zone(layout) = DpidsOf(layout, L)
      /\ Maps!Leaves = DpidsOf(layout, L)
  BY <1>0 DEF MapsLoaded, Maps!Leaves
<1>10. dpid = layout.switches[host.switch].dpid
  OBVIOUS
<1> SUFFICES HostBelongs(host, dpid)
  OBVIOUS
<1> HIDE DEF host, dpid, L, ports
<1>4. CASE host.switch = layout.core
  <2>1. dpid = core_dpid(layout)
    BY <1>3, <1>4, <1>10
  <2>2. host.port \in DOMAIN ports /\ ports[host.port] = host.zone
    BY <1>4, <1>7
  <2>3. Maps!zone_of_port(dpid, host.port) = host.zone
    BY <1>3, <2>1, <2>2 DEF Maps!zone_of_port, ports
  <2>4. ~Maps!is_leaf_uplink(dpid, host.port)
    BY <1>3, <2>1 DEF Maps!is_leaf_uplink
  <2>5. Maps!core_port_for(dpid, host.port) \in Maps!ZONE_CORE_PORTS(host.zone)
    BY <1>3, <2>1, <2>2 DEF Maps!core_port_for, Maps!ZONE_CORE_PORTS, ports
  <2>6. ASSUME NEW leaf \in Maps!Leaves PROVE leaf_core_port(layout)[leaf] # host.port
    <3>1. PICK s \in L : leaf = layout.switches[s].dpid
      BY <1>3, <1>9
    <3>2. leaf_core_port(layout)[leaf] = layout.uplinks[s].core_port
      BY <3>1, <1>9 DEF LeafMapped
    <3> QED  BY <1>1, <1>4, <3>2
  <2> QED  BY <1>2, <2>3, <2>4, <2>5, <2>6 DEF HostBelongs
<1>5. CASE host.switch # layout.core
  <2>1. host.switch \in L
    BY <1>5, <1>6
  <2>2. /\ dpid \in Maps!Leaves /\ dpid # core_dpid(layout)
        /\ switch_zone(layout)[dpid] = host.zone
        /\ leaf_uplink_port(layout)[dpid] = layout.uplinks[host.switch].leaf_port
        /\ leaf_core_port(layout)[dpid] = layout.uplinks[host.switch].core_port
    <3>1. /\ dpid \in DpidsOf(layout, L)
          /\ switch_zone(layout)[dpid] = layout.switches[host.switch].zone
          /\ leaf_uplink_port(layout)[dpid] = layout.uplinks[host.switch].leaf_port
          /\ leaf_core_port(layout)[dpid] = layout.uplinks[host.switch].core_port
      BY <2>1, <1>9, <1>10 DEF LeafMapped
    <3> QED  BY <1>1, <1>3, <1>5, <3>1
  <2>3. Maps!zone_of_port(dpid, host.port) = host.zone
    BY <1>3, <2>2 DEF Maps!zone_of_port
  <2>4. ~Maps!is_leaf_uplink(dpid, host.port)
    BY <1>1, <1>5, <2>2 DEF Maps!is_leaf_uplink
  <2>5. Maps!core_port_for(dpid, host.port) \in Maps!ZONE_CORE_PORTS(host.zone)
    <3>1. /\ layout.uplinks[host.switch].core_port \in DOMAIN ports
          /\ ports[layout.uplinks[host.switch].core_port] = host.zone
      BY <1>1, <1>5, <1>8, <2>1
    <3> QED  BY <2>2, <3>1 DEF Maps!core_port_for, Maps!ZONE_CORE_PORTS, ports
  <2> QED  BY <1>2, <2>2, <2>3, <2>4, <2>5 DEF HostBelongs
<1> QED  BY <1>4, <1>5
-----------------------------------------------------------------------------
(* Nothing is loaded that was not checked first (load_policy() and         *)
(* load_network()).                                                        *)
LoadedOnlyIfAccepted ==
  /\ files \in Files
  /\ stage \in {"layout", "running"} => policy_ok(files) /\ policy = load_policy(files)
  /\ stage = "running" => /\ network_ok(files, policy.zones)
                          /\ layout = load_network(files, policy.zones)

LEMMA Accepted == Spec => []LoadedOnlyIfAccepted
<1>1. Init => LoadedOnlyIfAccepted
  BY DEF Init, LoadedOnlyIfAccepted
<1>2. LoadedOnlyIfAccepted /\ [Next]_vars => LoadedOnlyIfAccepted'
  <2> SUFFICES ASSUME LoadedOnlyIfAccepted, [Next]_vars PROVE LoadedOnlyIfAccepted'
    OBVIOUS
  <2>1. CASE LoadPolicy
    BY <2>1 DEF LoadPolicy, LoadedOnlyIfAccepted
  <2>2. CASE LoadNetwork
    BY <2>2 DEF LoadNetwork, LoadedOnlyIfAccepted
  <2>3. CASE UNCHANGED vars
    BY <2>3 DEF vars, LoadedOnlyIfAccepted
  <2> QED  BY <2>1, <2>2, <2>3 DEF Next
<1> QED  BY <1>1, <1>2, PTL DEF Spec

(* For every file and width of addresses: an accepted policy.json has the  *)
(* properties the controller's modules assume (load_policy()).             *)
THEOREM PolicySound == Spec => []PolicyIsSound
<1>1. LoadedOnlyIfAccepted => PolicyIsSound
  BY LoadedPolicy DEF LoadedOnlyIfAccepted, PolicyIsSound
<1> QED  BY <1>1, Accepted, PTL

(* For every file: the port maps of an accepted network.json fit together  *)
(* (load_network() and port_maps()).                                       *)
THEOREM LayoutSound == Spec => []LayoutIsSound
<1>1. LoadedOnlyIfAccepted => LayoutIsSound
  BY LoadedLayout DEF LoadedOnlyIfAccepted, LayoutIsSound
<1> QED  BY <1>1, Accepted, PTL

(* For every file: a host is where the controller will look for it and     *)
(* believe it (_load_hosts(), _check_ports_unique() and port_maps()).      *)
THEOREM HostsSound == Spec => []HostsBelong
<1>1. LoadedOnlyIfAccepted => HostsBelong
  <2> SUFFICES ASSUME LoadedOnlyIfAccepted, stage = "running", NEW h \in DOMAIN layout.hosts
               PROVE  HostBelongs(layout.hosts[h], layout.switches[layout.hosts[h].switch].dpid)
    BY DEF HostsBelong, HostBelongs
  <2>1. /\ files \in Files /\ policy_ok(files) /\ policy = load_policy(files)
        /\ network_ok(files, policy.zones) /\ layout = load_network(files, policy.zones)
    BY DEF LoadedOnlyIfAccepted
  <2> QED  BY <2>1, LoadedHostBelongs
<1> QED  BY <1>1, Accepted, PTL
-----------------------------------------------------------------------------
(* The two firewalls. *)

Cpp(zone) == IF zone = None THEN "Unknown" ELSE zone

(* The daemon built from an accepted policy.json, and the controller.      *)
LEMMA LoadedDaemonAgrees ==
  ASSUME NEW raw \in Files, policy_ok(raw), policy = load_policy(raw), names_ok(policy.zones)
  PROVE  /\ \A ip \in Addresses : ClassifyZone(render(policy), ip) = Cpp(Python!zone_for_ip(ip))
         /\ \A src, dst \in DOMAIN policy.zones \cup {None}, is_icmp \in BOOLEAN :
              DecideZones(render(policy), Cpp(src), Cpp(dst), is_icmp)
                = Python!firewall_allowed(src, dst, is_icmp)
<1> DEFINE names == DOMAIN policy.zones
<1>1. /\ names = DOMAIN raw.zones
      /\ \A n \in names : /\ policy.zones[n].net = raw.zones[n].net
                          /\ policy.zones[n].prefix = raw.zones[n].prefix
  BY DEF load_policy
<1>2. IsFiniteSet(names) /\ None \notin names /\ "Unknown" \notin names
  BY <1>1, FilesAssumption DEF names_ok, RESERVED
<1>3. \A n \in names : is_network(policy.zones[n])
  <2>1. \A n \in names : is_network(raw.zones[n])
    BY <1>1 DEF policy_ok, zone_ok
  <2> QED  BY <1>1, <2>1 DEF is_network, Size
<1>4. \A n, m \in names : n # m => subnet(policy.zones[n]) \cap subnet(policy.zones[m]) = {}
  BY LoadedPolicy DEF Python!PolicyAssumption
<1>5. /\ policy.block_all_ip \subseteq names \X names
      /\ policy.block_icmp \subseteq names \X names
  BY LoadedPolicy DEF Python!PolicyAssumption
<1>6. IsFiniteSet(policy.block_all_ip) /\ IsFiniteSet(policy.block_icmp)
  <2>1. IsFiniteSet(names \X names)
    BY <1>2, FS_Product
  <2> QED  BY <1>5, <2>1, FS_Subset
<1>7. ASSUME NEW ip \in Addresses
      PROVE  ClassifyZone(render(policy), ip) = Cpp(Python!zone_for_ip(ip))
  <2>1. /\ \A n \in names : ip \in subnet(policy.zones[n]) => ClassifyZone(render(policy), ip) = n
        /\ (\A n \in names : ip \notin subnet(policy.zones[n]))
             => ClassifyZone(render(policy), ip) = "Unknown"
    BY <1>2, <1>3, <1>4, RowsFindZone
  <2>2. CASE \E n \in names : ip \in subnet(policy.zones[n])
    <3>1. PICK n \in names : ip \in subnet(policy.zones[n])
      BY <2>2
    <3>2. \A m \in names : ip \in subnet(policy.zones[m]) => m = n
      BY <1>4, <3>1
    <3>3. Python!zone_for_ip(ip) = n
      BY <3>1, <3>2 DEF Python!zone_for_ip
    <3> QED  BY <1>2, <2>1, <3>1, <3>3 DEF Cpp
  <2>3. CASE \A n \in names : ip \notin subnet(policy.zones[n])
    <3>1. Python!zone_for_ip(ip) = None
      BY <2>3 DEF Python!zone_for_ip
    <3> QED  BY <2>1, <2>3, <3>1 DEF Cpp
  <2> QED  BY <2>2, <2>3
<1>8. ASSUME NEW src \in names \cup {None}, NEW dst \in names \cup {None}, NEW is_icmp \in BOOLEAN
      PROVE  DecideZones(render(policy), Cpp(src), Cpp(dst), is_icmp)
               = Python!firewall_allowed(src, dst, is_icmp)
  <2>1. CASE src = None \/ dst = None
    <3>1. "Unknown" \in {Cpp(src), Cpp(dst)}
      BY <2>1 DEF Cpp
    <3> QED  BY <1>2, <2>1, <3>1 DEF DecideZones, Python!firewall_allowed
  <2>2. CASE src # None /\ dst # None
    <3>1. Cpp(src) = src /\ Cpp(dst) = dst /\ src \in names /\ dst \in names
      BY <2>2 DEF Cpp
    <3>2. "Unknown" \notin {src, dst}
      BY <1>2, <3>1
    <3>3. /\ ContainsPair(render(policy).kBlockAllIp, src, dst)
               <=> <<src, dst>> \in policy.block_all_ip
          /\ ContainsPair(render(policy).kBlockIcmp, src, dst)
               <=> <<src, dst>> \in policy.block_icmp
      BY <1>6, PairsListed DEF render
    <3> QED  BY <3>1, <3>2, <3>3 DEF DecideZones, Python!firewall_allowed
  <2> QED  BY <2>1, <2>2
<1> QED  BY <1>7, <1>8

(* For every file and every width of addresses, the deployed 32 bits       *)
(* included: the daemon built from the policy decides as the controller    *)
(* does (render(), ClassifyZone(), Decide() and firewall_allowed()).       *)
THEOREM DaemonAgreement == Spec => []DaemonAgrees
<1>1. LoadedOnlyIfAccepted => DaemonAgrees
  <2> SUFFICES ASSUME LoadedOnlyIfAccepted, stage = "layout", names_ok(policy.zones)
               PROVE  DaemonAgrees
    BY DEF DaemonAgrees
  <2>1. files \in Files /\ policy_ok(files) /\ policy = load_policy(files)
    BY DEF LoadedOnlyIfAccepted
  <2>2. /\ \A ip \in Addresses : ClassifyZone(render(policy), ip) = Cpp(Python!zone_for_ip(ip))
        /\ \A src, dst \in DOMAIN policy.zones \cup {None}, is_icmp \in BOOLEAN :
             DecideZones(render(policy), Cpp(src), Cpp(dst), is_icmp)
               = Python!firewall_allowed(src, dst, is_icmp)
    BY <2>1, LoadedDaemonAgrees
  <2> QED  BY <2>2 DEF DaemonAgrees, Cpp
<1> QED  BY <1>1, Accepted, PTL
=============================================================================
