-------------------------- MODULE ZonePolicyProofs --------------------------
(***************************************************************************)
(* What the zone table and the verdict functions give for every policy:    *)
(* facts the proofs of the controller and of the verdict service rest on.  *)
(***************************************************************************)
EXTENDS ZonePolicy, Naturals, TLAPS

(* An address inside a zone's subnet is classified into that zone, since   *)
(* subnets do not overlap (firewall_rules.zone_for_ip()).                  *)
LEMMA ZoneOfMember ==
  ASSUME NEW z \in ZONES, NEW ip \in Subnet[z]
  PROVE  zone_for_ip(ip) = z
<1>1. \A y \in ZONES : ip \in Subnet[y] => y = z
  BY PolicyAssumption
<1> QED  BY <1>1 DEF zone_for_ip

(* Classification gives a zone or None.                                    *)
LEMMA ZoneOrNone ==
  ASSUME NEW ip
  PROVE  zone_for_ip(ip) \in ZONES \cup {None}
  BY DEF zone_for_ip

(* A zone's gateway address is classified into that zone.                  *)
LEMMA ZoneOfGateway ==
  ASSUME NEW z \in ZONES
  PROVE  zone_for_ip(Gateway[z]) = z
  BY ZoneOfMember, PolicyAssumption

(* An address that passes the anti-spoofing check belongs to the port's    *)
(* zone and is no zone's gateway (source_ip_valid_for_zone()).             *)
LEMMA ValidSource ==
  ASSUME NEW ip, NEW zone, source_ip_valid_for_zone(ip, zone)
  PROVE  /\ zone \in ZONES
         /\ zone_for_ip(ip) = zone
         /\ ~IsGateway(ip)
  BY ZoneOfGateway DEF source_ip_valid_for_zone, IsGateway

(* The daemon's rule numbers are the firewall's verdict, for addresses of  *)
(* no zone too (Decide() and firewall_rules.firewall_allowed()).           *)
LEMMA DaemonDecides ==
  ASSUME NEW src_ip, NEW dst_ip, NEW is_icmp \in BOOLEAN
  PROVE  Decide(src_ip, dst_ip, is_icmp)
           = firewall_allowed(zone_for_ip(src_ip), zone_for_ip(dst_ip), is_icmp)
<1> DEFINE src == zone_for_ip(src_ip)
           dst == zone_for_ip(dst_ip)
<1>1. CASE src = None \/ dst = None
  <2>1. ~Decide(src_ip, dst_ip, is_icmp)
    BY <1>1 DEF Decide, rule_id
  <2>2. ~firewall_allowed(src, dst, is_icmp)
    BY <1>1, PolicyAssumption DEF firewall_allowed
  <2> QED  BY <2>1, <2>2, Zenon DEF Decide, firewall_allowed
<1>2. CASE src # None /\ dst # None /\ <<src, dst>> \in BLOCK_ALL_IP
  <2>1. ~Decide(src_ip, dst_ip, is_icmp)
    BY <1>2 DEF Decide, rule_id
  <2> QED  BY <1>2, <2>1, Zenon DEF Decide, firewall_allowed
<1>3. CASE /\ src # None /\ dst # None /\ <<src, dst>> \notin BLOCK_ALL_IP
           /\ is_icmp /\ <<src, dst>> \in BLOCK_ICMP
  <2>1. ~Decide(src_ip, dst_ip, is_icmp)
    BY <1>3 DEF Decide, rule_id
  <2> QED  BY <1>3, <2>1, Zenon DEF Decide, firewall_allowed
<1>4. CASE /\ src # None /\ dst # None /\ <<src, dst>> \notin BLOCK_ALL_IP
           /\ ~(is_icmp /\ <<src, dst>> \in BLOCK_ICMP)
  <2>1. Decide(src_ip, dst_ip, is_icmp)
    BY <1>4 DEF Decide, rule_id
  <2>2. firewall_allowed(src, dst, is_icmp)
    BY <1>4, ZoneOrNone DEF firewall_allowed
  <2> QED  BY <2>1, <2>2, Zenon DEF Decide, firewall_allowed
<1> QED  BY <1>1, <1>2, <1>3, <1>4
=============================================================================
