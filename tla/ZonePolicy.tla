----------------------------- MODULE ZonePolicy -----------------------------
(***************************************************************************)
(* The zone table and the stateless firewall verdict: policy.json as       *)
(* firewall_rules.load_policy() accepts it, and the three pure functions   *)
(* every other component asks.                                             *)
(*                                                                         *)
(* An address is a member of Ips; a subnet is the set of its addresses.    *)
(* None stands for Python's None (and for the daemon's Zone::Unknown).     *)
(***************************************************************************)
CONSTANTS
  ZONES,          \* zone names
  Ips,            \* IPv4 addresses
  Macs,           \* Ethernet addresses
  Subnet,         \* ZONES -> set of addresses
  Gateway,        \* ZONES -> the virtual gateway address
  GatewayMac,     \* ZONES -> the virtual gateway's Ethernet address
  BLOCK_ALL_IP,   \* zone pairs <<from, to>> blocked for every IP packet
  BLOCK_ICMP,     \* zone pairs <<from, to>> blocked for ICMP
  None

(* What load_policy() guarantees of a policy it returns: each gateway is   *)
(* inside its subnet, subnets do not overlap, gateway MACs differ, and     *)
(* rules name known zones only.                                            *)
ASSUME PolicyAssumption ==
  /\ None \notin ZONES
  /\ Subnet \in [ZONES -> SUBSET Ips]
  /\ Gateway \in [ZONES -> Ips]
  /\ GatewayMac \in [ZONES -> Macs]
  /\ \A z \in ZONES : Gateway[z] \in Subnet[z]
  /\ \A y, z \in ZONES :
       y # z => /\ Subnet[y] \cap Subnet[z] = {}
                /\ GatewayMac[y] # GatewayMac[z]
  /\ BLOCK_ALL_IP \subseteq ZONES \X ZONES
  /\ BLOCK_ICMP \subseteq ZONES \X ZONES

zone_for_ip(ip) ==
  IF \E z \in ZONES : ip \in Subnet[z]
    THEN CHOOSE z \in ZONES : ip \in Subnet[z]
    ELSE None

IsGateway(ip) == \E z \in ZONES : ip = Gateway[z]

(* Fault: any known zone's address will do.                                *)
source_ip_of_some_zone(src_ip, ingress_zone) ==
  /\ ingress_zone \in ZONES
  /\ src_ip # Gateway[ingress_zone]
  /\ zone_for_ip(src_ip) # None

(* Anti-spoofing: the claimed source must be a host address of the zone    *)
(* the packet physically came from.                                        *)
source_ip_valid_for_zone(src_ip, ingress_zone) ==
  /\ ingress_zone \in ZONES
  /\ src_ip # Gateway[ingress_zone]
  /\ zone_for_ip(src_ip) = ingress_zone

firewall_allowed(src_zone, dst_zone, is_icmp) ==
  /\ src_zone \in ZONES
  /\ dst_zone \in ZONES
  /\ <<src_zone, dst_zone>> \notin BLOCK_ALL_IP
  /\ is_icmp => <<src_zone, dst_zone>> \notin BLOCK_ICMP

(* The daemon never sees the ingress port: it classifies both ends by      *)
(* address, and says which rule decided. Rule 0 is that none matched.      *)
rule_id(src_ip, dst_ip, is_icmp) ==
  LET src_zone == zone_for_ip(src_ip)
      dst_zone == zone_for_ip(dst_ip)
  IN  IF src_zone = None \/ dst_zone = None                     THEN 3
      ELSE IF <<src_zone, dst_zone>> \in BLOCK_ALL_IP           THEN 1
      ELSE IF is_icmp /\ <<src_zone, dst_zone>> \in BLOCK_ICMP THEN 2
      ELSE 0

Decide(src_ip, dst_ip, is_icmp) == rule_id(src_ip, dst_ip, is_icmp) = 0
=============================================================================
