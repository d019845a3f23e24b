------------------------------- MODULE Startup -------------------------------
(***************************************************************************)
(* The controller reads its two files before it meets a packet: first      *)
(* policy.json, when firewall_rules is imported, then network.json. Either *)
(* is refused as a whole, and then the controller does not start.          *)
(* topology.py builds the network from the same layout.                    *)
(***************************************************************************)
EXTENDS NetworkLayout, DaemonTables

CONSTANT Files   \* records with the fields of both raw files

ASSUME FilesAssumption ==
  /\ None \notin Nat
  /\ \A raw \in Files : None \notin DOMAIN raw.zones /\ IsFiniteSet(DOMAIN raw.zones)

VARIABLES
  files,    \* what the files hold
  policy,   \* the loaded policy, or None
  layout,   \* the loaded network, or None
  stage     \* "import", "layout", "running" or "refused"

vars == <<files, policy, layout, stage>>

Init ==
  /\ files \in Files
  /\ policy = None /\ layout = None
  /\ stage = "import"

LoadPolicy ==
  /\ stage = "import"
  /\ \/ /\ policy_ok(files)
        /\ policy' = load_policy(files)
        /\ stage' = "layout"
     \/ ~policy_ok(files) /\ stage' = "refused" /\ UNCHANGED policy
  /\ UNCHANGED <<files, layout>>

LoadNetwork ==
  /\ stage = "layout"
  /\ \/ /\ network_ok(files, policy.zones)
        /\ layout' = load_network(files, policy.zones)
        /\ stage' = "running"
     \/ ~network_ok(files, policy.zones) /\ stage' = "refused" /\ UNCHANGED layout
  /\ UNCHANGED <<files, policy>>

Next == LoadPolicy \/ LoadNetwork

Spec == Init /\ [][Next]_vars
-----------------------------------------------------------------------------
(* The modules of the running controller, with what was loaded for their   *)
(* constants.                                                              *)
Python == INSTANCE ZonePolicy WITH
  ZONES <- DOMAIN policy.zones, Ips <- Addresses, Macs <- MacTexts,
  Subnet <- [n \in DOMAIN policy.zones |-> subnet(policy.zones[n])],
  Gateway <- [n \in DOMAIN policy.zones |-> policy.zones[n].gateway],
  GatewayMac <- [n \in DOMAIN policy.zones |-> policy.zones[n].mac],
  BLOCK_ALL_IP <- policy.block_all_ip, BLOCK_ICMP <- policy.block_icmp

Maps == INSTANCE PortMaps WITH
  ZONES <- DOMAIN policy.zones, Ips <- Addresses, Macs <- MacTexts,
  Subnet <- [n \in DOMAIN policy.zones |-> subnet(policy.zones[n])],
  Gateway <- [n \in DOMAIN policy.zones |-> policy.zones[n].gateway],
  GatewayMac <- [n \in DOMAIN policy.zones |-> policy.zones[n].mac],
  BLOCK_ALL_IP <- policy.block_all_ip, BLOCK_ICMP <- policy.block_icmp,
  Dpids <- DpidsOf(layout, DOMAIN layout.switches), Ports <- Nat \ {0},
  CORE_DPID <- core_dpid(layout), SWITCH_ZONE <- switch_zone(layout),
  LEAF_UPLINK_PORT <- leaf_uplink_port(layout), LEAF_CORE_PORT <- leaf_core_port(layout),
  CORE_PORT_ZONES <- core_port_zones(layout)

(* Whatever policy.json holds, a policy that is not refused is one the     *)
(* controller's reasoning rests on: gateways inside their subnets,         *)
(* subnets apart, gateway addresses told apart however they were spelled,  *)
(* rules about known zones (load_policy()).                                *)
PolicyIsSound == stage \in {"layout", "running"} => Python!PolicyAssumption

(* Whatever network.json holds, the port maps of a layout that is not      *)
(* refused fit together: one zone per port, each leaf reached through a    *)
(* core port of its own zone (load_network() and port_maps()).             *)
LayoutIsSound == stage = "running" => Maps!PortMapsAssumption

(* Every host of an accepted layout passes the anti-spoofing check where   *)
(* it is plugged in, is not taken for transit, and is routed to through a  *)
(* port of its zone that is no other's (_load_hosts(), _check_ports_       *)
(* unique(), and the controller's port functions).                         *)
HostsBelong ==
  stage = "running" =>
    \A h \in DOMAIN layout.hosts :
      LET host == layout.hosts[h]
          dpid == layout.switches[host.switch].dpid
      IN  /\ Python!source_ip_valid_for_zone(host.ip, Maps!zone_of_port(dpid, host.port))
          /\ ~Maps!is_leaf_uplink(dpid, host.port)
          /\ Maps!core_port_for(dpid, host.port) \in Maps!ZONE_CORE_PORTS(host.zone)
          /\ dpid = core_dpid(layout) =>
               \A leaf \in Maps!Leaves : leaf_core_port(layout)[leaf] # host.port

(* The two firewalls are one policy: whatever policy is accepted, the      *)
(* daemon built from it classifies every address as Python does, prefix 0  *)
(* and full included, and gives the same verdict for every pair of zones,  *)
(* empty tables included (the comment on ClassifyZone() and Decide(), and  *)
(* render()).                                                              *)
DaemonAgrees ==
  stage = "layout" /\ names_ok(policy.zones) =>
    LET header == render(policy)
        Cpp(zone) == IF zone = None THEN "Unknown" ELSE zone
        Zones == DOMAIN policy.zones \cup {None}
    IN  /\ \A ip \in Addresses : ClassifyZone(header, ip) = Cpp(Python!zone_for_ip(ip))
        /\ \A src, dst \in Zones, is_icmp \in BOOLEAN :
             DecideZones(header, Cpp(src), Cpp(dst), is_icmp)
               = Python!firewall_allowed(src, dst, is_icmp)
=============================================================================
