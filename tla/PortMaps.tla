------------------------------ MODULE PortMaps ------------------------------
(***************************************************************************)
(* The port maps the controller classifies and routes traffic with, as     *)
(* network.port_maps() derives them from an accepted network.json: one     *)
(* core switch, leaf switches that each serve one zone and have one uplink *)
(* to the core, and the zone behind every core port.                       *)
(***************************************************************************)
EXTENDS ZonePolicy

CONSTANTS
  Dpids,             \* datapath ids of the switches that may connect
  Ports,             \* switch port numbers
  CORE_DPID,
  SWITCH_ZONE,       \* leaf dpid -> its zone
  LEAF_UPLINK_PORT,  \* leaf dpid -> its own port to the core
  LEAF_CORE_PORT,    \* leaf dpid -> the core port at the other end
  CORE_PORT_ZONES    \* core port -> the zone behind it

Leaves == DOMAIN SWITCH_ZONE

ASSUME PortMapsAssumption ==
  /\ None \notin Ports
  /\ CORE_DPID \in Dpids \ Leaves
  /\ SWITCH_ZONE \in [Leaves -> ZONES]
  /\ LEAF_UPLINK_PORT \in [Leaves -> Ports]
  /\ DOMAIN CORE_PORT_ZONES \subseteq Ports
  /\ CORE_PORT_ZONES \in [DOMAIN CORE_PORT_ZONES -> ZONES]
  /\ LEAF_CORE_PORT \in [Leaves -> DOMAIN CORE_PORT_ZONES]
  /\ \A leaf \in Leaves :
       CORE_PORT_ZONES[LEAF_CORE_PORT[leaf]] = SWITCH_ZONE[leaf]

ZONE_CORE_PORTS(zone) ==
  {port \in DOMAIN CORE_PORT_ZONES : CORE_PORT_ZONES[port] = zone}

zone_of_port(dpid, port) ==
  CASE dpid = CORE_DPID /\ port \in DOMAIN CORE_PORT_ZONES -> CORE_PORT_ZONES[port]
    [] dpid \in Leaves                                     -> SWITCH_ZONE[dpid]
    [] OTHER                                               -> None

(* Fault: the wrong end of the uplink is compared.                         *)
is_core_end(dpid, port) == dpid \in Leaves /\ LEAF_CORE_PORT[dpid] = port

is_leaf_uplink(dpid, port) == dpid \in Leaves /\ LEAF_UPLINK_PORT[dpid] = port

(* Fault: a leaf's own port is taken for the core's.                       *)
own_port(dpid, port) == IF dpid = CORE_DPID \/ dpid \in Leaves THEN port ELSE None

core_port_for(dpid, port) ==
  CASE dpid = CORE_DPID -> port
    [] dpid \in Leaves  -> LEAF_CORE_PORT[dpid]
    [] OTHER            -> None
=============================================================================
