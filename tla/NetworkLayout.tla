---------------------------- MODULE NetworkLayout ----------------------------
(***************************************************************************)
(* What becomes of network.json: network.load_network() and port_maps().   *)
(* A raw file has switches, a function from names to [dpid, core, zone],   *)
(* uplinks, a sequence of [leaf, leaf_port, core_port], and hosts, a       *)
(* function from names to [ip, switch, port]. zones is the table of the    *)
(* policy that was loaded before.                                          *)
(***************************************************************************)
EXTENDS PolicyTables

zone_holding(zones, ip) ==
  IF \E n \in DOMAIN zones : ip \in subnet(zones[n])
    THEN CHOOSE n \in DOMAIN zones : ip \in subnet(zones[n])
    ELSE None

Cores(switches) == {s \in DOMAIN switches : switches[s].core}
CoreOf(switches) == CHOOSE s \in DOMAIN switches : switches[s].core
LeavesOf(switches) == DOMAIN switches \ Cores(switches)

switches_ok(raw, zones) ==
  LET switches == raw.switches
  IN  /\ \A s \in DOMAIN switches :
           /\ switches[s].dpid \in Nat /\ switches[s].dpid > 0
           /\ switches[s].core \/ switches[s].zone \in DOMAIN zones
      /\ \A s, t \in DOMAIN switches : s # t => switches[s].dpid # switches[t].dpid
      /\ \E s \in DOMAIN switches : Cores(switches) = {s}

(* Fault: leaves without an uplink are not missed.                         *)
uplinks_unique(raw) ==
  /\ \A i \in DOMAIN raw.uplinks : raw.uplinks[i].leaf \in LeavesOf(raw.switches)
  /\ \A i, j \in DOMAIN raw.uplinks :
       i # j => raw.uplinks[i].leaf # raw.uplinks[j].leaf

uplinks_ok(raw) ==
  /\ \A i \in DOMAIN raw.uplinks : raw.uplinks[i].leaf \in LeavesOf(raw.switches)
  /\ \A i, j \in DOMAIN raw.uplinks :
       i # j => raw.uplinks[i].leaf # raw.uplinks[j].leaf
  /\ \A leaf \in LeavesOf(raw.switches) :
       \E i \in DOMAIN raw.uplinks : raw.uplinks[i].leaf = leaf

(* An address its zone keeps for itself.                                   *)
reserved(z, ip) == ip \in {z.gateway, z.net, z.net + Size(z.prefix) - 1}

(* Fault: a host may be plugged into a leaf of another zone.               *)
hosts_anywhere(raw, zones) ==
  /\ \A h \in DOMAIN raw.hosts :
       LET host == raw.hosts[h]
           zone == zone_holding(zones, host.ip)
       IN  /\ zone # None /\ ~reserved(zones[zone], host.ip)
           /\ host.switch \in DOMAIN raw.switches
  /\ \A h, g \in DOMAIN raw.hosts : h # g => raw.hosts[h].ip # raw.hosts[g].ip

hosts_ok(raw, zones) ==
  /\ \A h \in DOMAIN raw.hosts :
       LET host == raw.hosts[h]
           zone == zone_holding(zones, host.ip)
       IN  /\ zone # None /\ ~reserved(zones[zone], host.ip)
           /\ host.switch \in DOMAIN raw.switches
           /\ host.switch \in LeavesOf(raw.switches) => raw.switches[host.switch].zone = zone
  /\ \A h, g \in DOMAIN raw.hosts : h # g => raw.hosts[h].ip # raw.hosts[g].ip

(* Every plug: <<switch, port, what is plugged in>>.                       *)
attachments(raw) ==
  {<<raw.hosts[h].switch, raw.hosts[h].port, <<"host", h>>>> : h \in DOMAIN raw.hosts}
  \cup {<<raw.uplinks[i].leaf, raw.uplinks[i].leaf_port, <<"uplink_to_core", i>>>> :
          i \in DOMAIN raw.uplinks}
  \cup {<<CoreOf(raw.switches), raw.uplinks[i].core_port, <<"uplink_from", i>>>> :
          i \in DOMAIN raw.uplinks}

ports_unique(raw) ==
  /\ \A a \in attachments(raw) : a[2] \in Nat /\ a[2] > 0
  /\ \A a, b \in attachments(raw) : a[1] = b[1] /\ a[2] = b[2] => a = b

network_ok(raw, zones) ==
  switches_ok(raw, zones) /\ uplinks_ok(raw) /\ hosts_ok(raw, zones) /\ ports_unique(raw)

UplinkOf(raw, leaf) ==
  raw.uplinks[CHOOSE i \in DOMAIN raw.uplinks : raw.uplinks[i].leaf = leaf]

(* The namedtuple Network of an accepted file.                             *)
load_network(raw, zones) ==
  [core |-> CoreOf(raw.switches),
   switches |-> [s \in DOMAIN raw.switches |->
                   [dpid |-> raw.switches[s].dpid,
                    zone |-> IF raw.switches[s].core THEN None ELSE raw.switches[s].zone]],
   uplinks |-> [leaf \in {raw.uplinks[i].leaf : i \in DOMAIN raw.uplinks} |->
                  [leaf_port |-> UplinkOf(raw, leaf).leaf_port,
                   core_port |-> UplinkOf(raw, leaf).core_port]],
   hosts |-> [h \in DOMAIN raw.hosts |->
                [ip |-> raw.hosts[h].ip, zone |-> zone_holding(zones, raw.hosts[h].ip),
                 switch |-> raw.hosts[h].switch, port |-> raw.hosts[h].port]]]
-----------------------------------------------------------------------------
(* port_maps(). *)

DpidsOf(net, names) == {net.switches[s].dpid : s \in names}
NamedBy(net, dpid) == CHOOSE s \in DOMAIN net.switches : net.switches[s].dpid = dpid

core_dpid(net) == net.switches[net.core].dpid

switch_zone(net) ==
  [dpid \in DpidsOf(net, DOMAIN net.switches \ {net.core}) |->
     net.switches[NamedBy(net, dpid)].zone]

leaf_uplink_port(net) ==
  [dpid \in DpidsOf(net, DOMAIN net.uplinks) |-> net.uplinks[NamedBy(net, dpid)].leaf_port]

leaf_core_port(net) ==
  [dpid \in DpidsOf(net, DOMAIN net.uplinks) |-> net.uplinks[NamedBy(net, dpid)].core_port]

(* A host on the core overrides the uplink on its port, as dict.update().  *)
core_port_zones(net) ==
  LET on_core == {h \in DOMAIN net.hosts : net.hosts[h].switch = net.core}
      host_ports == {net.hosts[h].port : h \in on_core}
      link_ports == {net.uplinks[leaf].core_port : leaf \in DOMAIN net.uplinks}
  IN  [port \in link_ports \cup host_ports |->
         IF port \in host_ports
           THEN net.hosts[CHOOSE h \in on_core : net.hosts[h].port = port].zone
           ELSE net.switches[CHOOSE leaf \in DOMAIN net.uplinks :
                               net.uplinks[leaf].core_port = port].zone]
=============================================================================
