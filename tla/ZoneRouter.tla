----------------------------- MODULE ZoneRouter -----------------------------
(***************************************************************************)
(* controller.ZoneRouter: the routing and firewall controller, one action  *)
(* per event handler or timer callback. POX runs handlers one at a time,   *)
(* so each is atomic; what interleaves is their order, and an address      *)
(* resolution spans many of them.                                          *)
(*                                                                         *)
(* A packet-in is [dpid, port, frame]. Frames are records with a type:     *)
(*   "IP"     src, dst, srcip, dstip, kind, sport, dport, ttl              *)
(*   "ARP"    src, dst, opcode, hwsrc, protosrc, protodst                  *)
(*   "INCOMPLETE", "LLDP", "OTHER"   src, dst                              *)
(* The messages a handler sends are kept in `sent' until the next step: a  *)
(* family indexed by position, or by output port where one copy per port   *)
(* is sent.                                                                *)
(***************************************************************************)
EXTENDS PortMaps, ConnectionTable, Sequences, FiniteSets

CONSTANTS
  PacketIns,        \* packet-in events the switches may raise
  Broadcast,        \* the all-ones Ethernet address
  Multicast,        \* the Ethernet addresses of groups, Broadcast among them
  ARP_MAX_RETRIES,
  MaxQueue          \* bound: packets waiting for one address

ROUTED_FLOW_IDLE_TIMEOUT == 30

(* Fault: as long as the connection table remembers.                       *)
ROUTED_FLOW_HARD_TIMEOUT_TOO_LONG == 120

ROUTED_FLOW_HARD_TIMEOUT == 60
DROP_FLOW_IDLE_TIMEOUT == 10
DROP_FLOW_HARD_TIMEOUT == 30

DefaultTtl == 64    \* of a packet the controller originates

(* A frame from one zone's hosts to another's.                             *)
Crosses(frame) ==
  frame.type = "IP" /\ zone_for_ip(frame.srcip) # zone_for_ip(frame.dstip)

Permits(src_ip, dst_ip, kind) ==
  firewall_allowed(zone_for_ip(src_ip), zone_for_ip(dst_ip), kind \in IcmpKinds)

(* What entitles a packet to cross: the policy lets its sender start this  *)
(* traffic, or it is of a kind that answers and the policy lets its        *)
(* addressee start it.                                                     *)
Justified(frame) ==
  \/ Permits(frame.srcip, frame.dstip, frame.kind)
  \/ /\ frame.kind \in {"tcp", "udp", "echo_reply"}
     /\ Permits(frame.dstip, frame.srcip, frame.kind)

IpFrames == [type : {"IP"}, src : Macs, dst : Macs, srcip : Ips, dstip : Ips,
             kind : Kinds, sport : Nat, dport : Nat, ttl : Nat]

ArpFrames == [type : {"ARP"}, src : Macs, dst : Macs, opcode : {"REQUEST", "REPLY"},
              hwsrc : Macs, protosrc : Ips, protodst : Ips]

OtherFrames == [type : {"INCOMPLETE", "LLDP", "OTHER"}, src : Macs, dst : Macs]

Frames == IpFrames \cup ArpFrames \cup OtherFrames

Items == [dpid : Dpids, port : Ports, frame : Frames]

PacketOuts == [op : {"packet_out"}, to : Dpids, frame : Frames, out : Ports]

IcmpErrors == [op : {"packet_out"}, to : Dpids, out : Ports, quotes : Frames, frame : Frames]

Resolutions == [zone : ZONES, queue : Seq(Items), retries : 1 .. ARP_MAX_RETRIES]

ASSUME RouterAssumption ==
  /\ ARP_MAX_RETRIES \in Nat \ {0}
  /\ MaxQueue \in Nat
  /\ Broadcast \in Multicast
  /\ Multicast \subseteq Macs
  /\ IsFiniteSet(Ports)
  /\ None \notin Resolutions \cup PacketOuts \cup IcmpErrors
  /\ PacketIns \subseteq Items

(* What comes down a leaf's uplink was put there by the controller or by   *)
(* the core's rules, so it was checked where it entered the network (the   *)
(* module docstring's first paragraph on leaf uplinks).                    *)
ASSUME TransitAssumption ==
  \A ev \in PacketIns :
    is_leaf_uplink(ev.dpid, ev.port) /\ Crosses(ev.frame) => Justified(ev.frame)

VARIABLES
  connections,   \* dpids whose switch has connected
  mac_table,     \* dpid -> mac -> port, or None
  ip_to_loc,     \* ip -> [port, mac, zone], or None
  pending,       \* ip -> [zone, queue, retries], or None
  timers,        \* ip -> how many retry timers are running for it
  last_seen,     \* the connection table
  sent           \* OpenFlow messages the last step sent

vars == <<connections, mac_table, ip_to_loc, pending, timers, last_seen, sent>>

Init ==
  /\ connections = {}
  /\ mac_table = [dpid \in Dpids |-> [mac \in Macs |-> None]]
  /\ ip_to_loc = [ip \in Ips |-> None]
  /\ pending = [ip \in Ips |-> None]
  /\ timers = [ip \in Ips |-> 0]
  /\ last_seen = [f \in {} |-> 0]
  /\ sent = <<>>
-----------------------------------------------------------------------------
(* OpenFlow messages. *)

PacketOut(dpid, frame, port) ==
  [op |-> "packet_out", to |-> dpid, frame |-> frame, out |-> port]

(* OFPP_FLOOD: every port but the one the packet came in through.          *)
FloodOut(ev) ==
  [op |-> "packet_out", to |-> ev.dpid, frame |-> ev.frame, out |-> "FLOOD",
   in_port |-> ev.port]

(* Fault: the ICMP type is left out of the match.                          *)
from_packet_any_icmp(frame, in_port) ==
  [in_port |-> in_port,
   frame |-> IF frame.type # "IP" THEN frame
             ELSE IF frame.kind \in {"tcp", "udp"}
               THEN [frame EXCEPT !.ttl = None]
               ELSE [frame EXCEPT !.ttl = None, !.sport = None, !.dport = None,
                       !.kind = IF @ \in IcmpKinds THEN "icmp_part" ELSE @]]

(* ofp_match.from_packet(): OpenFlow 1.0 has no field for the TTL, and     *)
(* beyond TCP and UDP ports only the ICMP type and code: no echo           *)
(* identifier. Of a packet whose header POX could not parse the match has  *)
(* the protocol alone: a part kind stands for ports or type left open.     *)
from_packet(frame, in_port) ==
  [in_port |-> in_port,
   frame |-> IF frame.type # "IP" THEN frame
             ELSE IF frame.kind \in {"tcp", "udp"}
               THEN [frame EXCEPT !.ttl = None]
               ELSE [frame EXCEPT !.ttl = None, !.sport = None, !.dport = None]]

(* What a match with the ports or the type left open looks at.             *)
Headless(frame) ==
  LET part == [icmp |-> "icmp_part", tcp |-> "tcp_part", udp |-> "udp_part", other |-> "other"]
  IN  IF frame.type = "IP" THEN [frame EXCEPT !.kind = part[ProtoOf(@)]] ELSE frame

FlowMod(dpid, match, idle, hard, actions) ==
  [op |-> "flow_mod", to |-> dpid, match |-> match, idle |-> idle, hard |-> hard,
   actions |-> actions]

Output(port) == [out |-> port]
DropActions == [out |-> None]

(* A message for a switch that never connected is not sent.                *)
Send(msgs) ==
  sent' = Restrict(msgs, {i \in DOMAIN msgs : msgs[i] # None /\ msgs[i].to \in connections})
-----------------------------------------------------------------------------
(* Learning and layer-2 forwarding. *)

learn_mac(dpid, port, mac) == mac_table' = [mac_table EXCEPT ![dpid][mac] = port]

learn(dpid, port, ip, mac, zone) ==
  /\ learn_mac(dpid, port, mac)
  /\ ip_to_loc' =
       IF core_port_for(dpid, port) = None THEN ip_to_loc
       ELSE [ip_to_loc EXCEPT ![ip] =
               [port |-> core_port_for(dpid, port), mac |-> mac, zone |-> zone]]

(* Fault: the core floods every port.                                      *)
flood_everywhere(ev) ==
  IF ev.dpid = CORE_DPID
    THEN [port \in DOMAIN CORE_PORT_ZONES \ {ev.port} |-> PacketOut(CORE_DPID, ev.frame, port)]
    ELSE <<FloodOut(ev)>>

flood_in_zone(ev) ==
  IF ev.dpid = CORE_DPID
    THEN [port \in ZONE_CORE_PORTS(zone_of_port(CORE_DPID, ev.port)) \ {ev.port} |->
            PacketOut(CORE_DPID, ev.frame, port)]
    ELSE <<FloodOut(ev)>>

(* The rule carries the packet with it (msg.data), so the packet leaves    *)
(* through the same port, unless that is the one it came in through, to    *)
(* which an output action does not apply. The sender's address was learned *)
(* before the lookup.                                                      *)
l2_forward(ev) ==
  LET out_port == mac_table'[ev.dpid][ev.frame.dst]
  IN  IF out_port = None THEN flood_in_zone(ev)
      ELSE << FlowMod(ev.dpid, from_packet(ev.frame, ev.port),
                      ROUTED_FLOW_IDLE_TIMEOUT, ROUTED_FLOW_HARD_TIMEOUT, Output(out_port)) >>
             \o (IF out_port = ev.port THEN <<>>
                 ELSE << PacketOut(ev.dpid, ev.frame, out_port) >>)
-----------------------------------------------------------------------------
(* Routed frames and ICMP errors. An item is a packet with the port it     *)
(* entered through: [dpid, port, frame].                                   *)

icmp_error(item, kind) ==
  LET src_zone == zone_of_port(item.dpid, item.port)
  IN  IF src_zone = None THEN None
      ELSE [op |-> "packet_out", to |-> item.dpid, out |-> item.port, quotes |-> item.frame,
            frame |->
              [type |-> "IP", src |-> GatewayMac[src_zone], dst |-> item.frame.src,
               srcip |-> Gateway[src_zone], dstip |-> item.frame.srcip,
               kind |-> kind, sport |-> 0, dport |-> 0, ttl |-> DefaultTtl]]

forward_ip(item, dst_zone, out_port, dst_mac) ==
  IF item.frame.ttl <= 1 THEN icmp_error(item, "time_exceeded")
  ELSE PacketOut(CORE_DPID,
         [item.frame EXCEPT !.src = GatewayMac[dst_zone], !.dst = dst_mac, !.ttl = @ - 1],
         out_port)

(* Fault: the leaf's rule does the router hop too.                         *)
install_route_flows_two_hops(ev, dst_zone, out_port, dst_mac) ==
  LET hop(port) == [out |-> port, set_src |-> GatewayMac[dst_zone],
                    set_dst |-> dst_mac, dec_ttl |-> TRUE]
      rule(dpid, in_port, port) ==
        FlowMod(dpid, from_packet(ev.frame, in_port),
                ROUTED_FLOW_IDLE_TIMEOUT, ROUTED_FLOW_HARD_TIMEOUT, hop(port))
  IN  IF CORE_DPID \notin connections \/ ev.frame.ttl <= 1 THEN <<>>
      ELSE <<rule(CORE_DPID, core_port_for(ev.dpid, ev.port), out_port)>>
             \o (IF ev.dpid = CORE_DPID THEN <<>>
                 ELSE <<rule(ev.dpid, ev.port, LEAF_UPLINK_PORT[ev.dpid])>>)

(* The core's rule does the router hop and is sent first; a packet that    *)
(* entered at a leaf also gets a rule up that leaf's uplink. Neither is    *)
(* sent while the core is not connected.                                   *)
install_route_flows(ev, dst_zone, out_port, dst_mac) ==
  IF CORE_DPID \notin connections \/ ev.frame.ttl <= 1 THEN <<>>
  ELSE << FlowMod(CORE_DPID, from_packet(ev.frame, core_port_for(ev.dpid, ev.port)),
                  ROUTED_FLOW_IDLE_TIMEOUT, ROUTED_FLOW_HARD_TIMEOUT,
                  [out |-> out_port, set_src |-> GatewayMac[dst_zone],
                   set_dst |-> dst_mac, dec_ttl |-> TRUE]) >>
       \o (IF ev.dpid = CORE_DPID THEN <<>>
           ELSE << FlowMod(ev.dpid, from_packet(ev.frame, ev.port),
                           ROUTED_FLOW_IDLE_TIMEOUT, ROUTED_FLOW_HARD_TIMEOUT,
                           Output(LEAF_UPLINK_PORT[ev.dpid])) >>)

install_drop_flow(ev) ==
  << FlowMod(ev.dpid, from_packet(ev.frame, ev.port),
             DROP_FLOW_IDLE_TIMEOUT, DROP_FLOW_HARD_TIMEOUT, DropActions) >>
-----------------------------------------------------------------------------
(* Address resolution. *)

send_arp_probe(dst_ip, dst_zone) ==
  [port \in ZONE_CORE_PORTS(dst_zone) |->
     PacketOut(CORE_DPID,
       [type |-> "ARP", src |-> GatewayMac[dst_zone], dst |-> Broadcast,
        opcode |-> "REQUEST", hwsrc |-> GatewayMac[dst_zone],
        protosrc |-> Gateway[dst_zone], protodst |-> dst_ip],
       port)]

(* Fault: the packet's own zone is probed for its destination.             *)
queue_for_source_zone(item, dst_zone) ==
  LET dst_ip == item.frame.dstip
      zone   == zone_of_port(item.dpid, item.port)
  IN  \/ /\ pending[dst_ip] = None
         /\ pending' = [pending EXCEPT ![dst_ip] =
                          [zone |-> zone, queue |-> <<item>>, retries |-> 1]]
         /\ timers' = [timers EXCEPT ![dst_ip] = @ + 1]
         /\ Send(send_arp_probe(dst_ip, zone))
      \/ /\ pending[dst_ip] # None
         /\ Len(pending[dst_ip].queue) < MaxQueue
         /\ pending' = [pending EXCEPT ![dst_ip].queue = Append(@, item)]
         /\ UNCHANGED timers
         /\ Send(<<>>)

(* Fault: only the latest packet is kept.                                  *)
queue_latest(item, dst_zone) ==
  LET dst_ip == item.frame.dstip
  IN  \/ /\ pending[dst_ip] = None
         /\ pending' = [pending EXCEPT ![dst_ip] =
                          [zone |-> dst_zone, queue |-> <<item>>, retries |-> 1]]
         /\ timers' = [timers EXCEPT ![dst_ip] = @ + 1]
         /\ Send(send_arp_probe(dst_ip, dst_zone))
      \/ /\ pending[dst_ip] # None
         /\ pending' = [pending EXCEPT ![dst_ip].queue = <<item>>]
         /\ UNCHANGED timers
         /\ Send(<<>>)

queue_and_resolve(item, dst_zone) ==
  LET dst_ip == item.frame.dstip
  IN  \/ /\ pending[dst_ip] = None
         /\ pending' = [pending EXCEPT ![dst_ip] =
                          [zone |-> dst_zone, queue |-> <<item>>, retries |-> 1]]
         /\ timers' = [timers EXCEPT ![dst_ip] = @ + 1]
         /\ Send(send_arp_probe(dst_ip, dst_zone))
      \/ /\ pending[dst_ip] # None
         /\ Len(pending[dst_ip].queue) < MaxQueue
         /\ pending' = [pending EXCEPT ![dst_ip].queue = Append(@, item)]
         /\ UNCHANGED timers
         /\ Send(<<>>)

(* Fault: one probe too many.                                              *)
retry_arp_once_more(dst_ip) ==
  LET entry == pending[dst_ip]
  IN  /\ timers[dst_ip] > 0
      /\ entry # None
      /\ IF entry.retries > ARP_MAX_RETRIES
           THEN /\ timers' = [timers EXCEPT ![dst_ip] = @ - 1]
                /\ pending' = [pending EXCEPT ![dst_ip] = None]
                /\ Send([i \in DOMAIN entry.queue |->
                           icmp_error(entry.queue[i], "host_unreachable")])
           ELSE /\ pending' = [pending EXCEPT ![dst_ip].retries = @ + 1]
                /\ UNCHANGED timers
                /\ Send(send_arp_probe(dst_ip, entry.zone))
      /\ UNCHANGED <<connections, mac_table, ip_to_loc, last_seen>>

(* Fault: attempts are not counted.                                        *)
retry_arp_uncounted(dst_ip) ==
  /\ timers[dst_ip] > 0 /\ pending[dst_ip] # None
  /\ Send(send_arp_probe(dst_ip, pending[dst_ip].zone))
  /\ UNCHANGED <<connections, mac_table, ip_to_loc, pending, timers, last_seen>>

(* Callback of the recurring retry timer of one address.                   *)
retry_arp(dst_ip) ==
  LET entry == pending[dst_ip]
  IN  /\ timers[dst_ip] > 0
      /\ \/ /\ entry = None
            /\ UNCHANGED <<pending, timers>>
            /\ Send(<<>>)
         \/ /\ entry # None
            /\ entry.retries >= ARP_MAX_RETRIES
            /\ timers' = [timers EXCEPT ![dst_ip] = @ - 1]
            /\ pending' = [pending EXCEPT ![dst_ip] = None]
            /\ Send([i \in DOMAIN entry.queue |->
                       icmp_error(entry.queue[i], "host_unreachable")])
         \/ /\ entry # None
            /\ entry.retries < ARP_MAX_RETRIES
            /\ pending' = [pending EXCEPT ![dst_ip].retries = @ + 1]
            /\ UNCHANGED timers
            /\ Send(send_arp_probe(dst_ip, entry.zone))
      /\ UNCHANGED <<connections, mac_table, ip_to_loc, last_seen>>

(* Fault: the retry timer is left running.                                 *)
resolve_without_cancel(ip, mac) ==
  LET entry == pending[ip]
  IN  /\ UNCHANGED timers
      /\ pending' = [pending EXCEPT ![ip] = None]
      /\ Send(IF entry = None THEN <<>>
              ELSE [i \in DOMAIN entry.queue |->
                      forward_ip(entry.queue[i], entry.zone, ip_to_loc'[ip].port, mac)])

resolve_pending(ip, mac) ==
  LET entry == pending[ip]
  IN  \/ /\ entry = None
         /\ UNCHANGED <<pending, timers>>
         /\ Send(<<>>)
      \/ /\ entry # None
         /\ pending' = [pending EXCEPT ![ip] = None]
         /\ timers' = [timers EXCEPT ![ip] = @ - 1]
         /\ Send([i \in DOMAIN entry.queue |->
                    forward_ip(entry.queue[i], entry.zone, ip_to_loc'[ip].port, mac)])
-----------------------------------------------------------------------------
(* Packet-in handlers. *)

(* Ignored outright: frames POX could not parse, discovery frames, ports   *)
(* of no zone, and addresses that do not belong to the zone of the port    *)
(* they came from.                                                         *)
Ignore ==
  /\ Send(<<>>)
  /\ UNCHANGED <<mac_table, ip_to_loc, pending, timers, last_seen>>

handle_transit(ev) ==
  /\ learn_mac(ev.dpid, ev.port, ev.frame.src)
  /\ Send(IF ev.frame.dst \in Multicast THEN flood_in_zone(ev) ELSE l2_forward(ev))
  /\ UNCHANGED <<ip_to_loc, pending, timers, last_seen>>

handle_arp(ev) ==
  LET arp      == ev.frame
      src_zone == zone_of_port(ev.dpid, ev.port)
  IN  IF ~source_ip_valid_for_zone(arp.protosrc, src_zone) THEN Ignore
      ELSE /\ learn(ev.dpid, ev.port, arp.protosrc, arp.hwsrc, src_zone)
           /\ UNCHANGED last_seen
           /\ \/ /\ arp.opcode = "REQUEST" /\ IsGateway(arp.protodst)
                 /\ Send(<<PacketOut(ev.dpid,
                             [type |-> "ARP", src |-> GatewayMac[src_zone], dst |-> arp.hwsrc,
                              opcode |-> "REPLY", hwsrc |-> GatewayMac[src_zone],
                              protosrc |-> arp.protodst, protodst |-> arp.protosrc],
                             ev.port)>>)
                 /\ UNCHANGED <<pending, timers>>
              \/ /\ arp.opcode = "REPLY" /\ IsGateway(arp.protodst)
                 /\ resolve_pending(arp.protosrc, arp.hwsrc)
              \/ /\ ~(arp.opcode \in {"REQUEST", "REPLY"} /\ IsGateway(arp.protodst))
                 /\ Send(flood_in_zone(ev))
                 /\ UNCHANGED <<pending, timers>>

tracked(p) == tracked_packet(p.srcip, p.dstip, p.kind, p.sport, p.dport)

(* The verdict comes from the daemon, which classifies by address, or,     *)
(* when that is unreachable, from the Python rules, which are given the    *)
(* zone of the ingress port.                                               *)
backend_verdicts(src_zone, p) ==
  { Decide(p.srcip, p.dstip, p.kind \in IcmpKinds),
    firewall_allowed(src_zone, zone_for_ip(p.dstip), p.kind \in IcmpKinds) }

route(ev, dst_zone) ==
  LET loc == ip_to_loc'[ev.frame.dstip]
  IN  \/ /\ loc # None
         /\ Send(install_route_flows(ev, dst_zone, loc.port, loc.mac)
                   \o <<forward_ip(ev, dst_zone, loc.port, loc.mac)>>)
         /\ UNCHANGED <<pending, timers>>
      \/ /\ loc = None
         /\ queue_and_resolve(ev, dst_zone)

(* A packet that crosses zones: the rules, then connection tracking, then  *)
(* a drop rule or routing.                                                 *)
handle_crossing(ev, src_zone, dst_zone) ==
  \E policy_allowed \in backend_verdicts(src_zone, ev.frame) :
    /\ last_seen' = check_table(last_seen, policy_allowed, tracked(ev.frame))
    /\ IF check_verdict(last_seen, policy_allowed, tracked(ev.frame)) = "drop"
         THEN /\ Send(install_drop_flow(ev))
              /\ UNCHANGED <<pending, timers>>
         ELSE route(ev, dst_zone)

handle_ip(ev) ==
  LET p        == ev.frame
      src_zone == zone_of_port(ev.dpid, ev.port)
      dst_zone == zone_for_ip(p.dstip)
  IN  IF ~source_ip_valid_for_zone(p.srcip, src_zone) THEN Ignore
      ELSE /\ learn(ev.dpid, ev.port, p.srcip, p.src, src_zone)
           /\ IF IsGateway(p.dstip) \/ dst_zone \in {None, src_zone}
                THEN /\ Send(IF IsGateway(p.dstip) \/ dst_zone = None THEN <<>>
                             ELSE l2_forward(ev))
                     /\ UNCHANGED <<pending, timers, last_seen>>
                ELSE handle_crossing(ev, src_zone, dst_zone)

PacketIn(ev) ==
  /\ ev.dpid \in connections
  /\ \/ /\ ev.frame.type \in {"INCOMPLETE", "LLDP"}
        /\ Ignore
     \/ /\ ev.frame.type \notin {"INCOMPLETE", "LLDP"}
        /\ is_leaf_uplink(ev.dpid, ev.port)
        /\ handle_transit(ev)
     \/ /\ ~is_leaf_uplink(ev.dpid, ev.port)
        /\ \/ ev.frame.type = "ARP" /\ handle_arp(ev)
           \/ ev.frame.type = "IP" /\ handle_ip(ev)
           \/ /\ ev.frame.type = "OTHER"
              /\ Send(flood_in_zone(ev))
              /\ UNCHANGED <<mac_table, ip_to_loc, pending, timers, last_seen>>
  /\ UNCHANGED connections
-----------------------------------------------------------------------------
ConnectionUp(dpid) ==
  /\ connections' = connections \cup {dpid}
  /\ Send(<<>>)
  /\ UNCHANGED <<mac_table, ip_to_loc, pending, timers, last_seen>>

(* The recurring sweep of the connection table.                            *)
Expire ==
  /\ last_seen' = expire(last_seen)
  /\ Send(<<>>)
  /\ UNCHANGED <<connections, mac_table, ip_to_loc, pending, timers>>

(* Time passes for the remembered connections.                             *)
Elapse ==
  /\ last_seen' = elapse(last_seen)
  /\ Send(<<>>)
  /\ UNCHANGED <<connections, mac_table, ip_to_loc, pending, timers>>

Next ==
  \/ \E dpid \in Dpids : ConnectionUp(dpid)
  \/ \E ev \in PacketIns : PacketIn(ev)
  \/ \E ip \in Ips : retry_arp(ip)
  \/ Expire
  \/ Elapse

(* Timers are POX tasks: a running timer keeps firing.                     *)
Spec == Init /\ [][Next]_vars /\ \A ip \in Ips : WF_vars(retry_arp(ip))
-----------------------------------------------------------------------------
Locations == [port : Ports, mac : Macs, zone : ZONES]

(* Every table of the controller has the shape its comment in __init__     *)
(* gives it, and no resolution outlives its retries (controller.py         *)
(* __init__ and every handler).                                            *)
TypeOK ==
  /\ connections \subseteq Dpids
  /\ mac_table \in [Dpids -> [Macs -> Ports \cup {None}]]
  /\ ip_to_loc \in [Ips -> Locations \cup {None}]
  /\ pending \in [Ips -> Resolutions \cup {None}]
  /\ timers \in [Ips -> Nat]
  /\ last_seen \in [DOMAIN last_seen -> 0 .. IDLE_TIMEOUT]

(* A learned location is a core port of the zone the address belongs to,   *)
(* and never a gateway's: whatever packets arrive, at a leaf or at the     *)
(* core, no address is ever recorded behind another zone's port (learn()   *)
(* with the anti-spoofing check before it).                                *)
LocationsMatchZones ==
  \A ip \in Ips : ip_to_loc[ip] # None =>
    /\ ip_to_loc[ip].port \in ZONE_CORE_PORTS(zone_for_ip(ip))
    /\ ip_to_loc[ip].zone = zone_for_ip(ip)
    /\ ~IsGateway(ip)

(* The core ports behind which frames of an address enter the network: at  *)
(* the core, or at a leaf and not down its uplink.                         *)
EntryPorts(ip) ==
  {core_port_for(ev.dpid, ev.port) : ev \in
     {e \in PacketIns :
        /\ e.dpid \in Leaves => e.port # LEAF_UPLINK_PORT[e.dpid]
        /\ \/ e.frame.type = "IP" /\ e.frame.srcip = ip
           \/ e.frame.type = "ARP" /\ e.frame.protosrc = ip}}

(* A located host is recorded behind the core port where its frames enter  *)
(* the network, even when another leaf of its zone shows the controller    *)
(* its frames coming down its uplink (_handle_transit() and                *)
(* core_port_for()).                                                       *)
LocationsPointHome ==
  \A ip \in Ips : ip_to_loc[ip] # None => ip_to_loc[ip].port \in EntryPorts(ip)

(* Every remembered connection was opened in a direction the policy        *)
(* permits, between two zones: no sequence of packets plants an entry the  *)
(* other way round (handle_ip() and ConnectionTable.check()).              *)
TrackedArePermitted ==
  \A f \in DOMAIN last_seen :
    /\ firewall_allowed(zone_for_ip(f.src), zone_for_ip(f.dst), f.proto = "icmp")
    /\ zone_for_ip(f.src) # zone_for_ip(f.dst)

(* The frame a message makes a switch emit, and the port it emits it on.   *)
Emits(m) == IF m.op = "packet_out" THEN m.frame ELSE m.match.frame
EmitPort(m) == IF m.op = "packet_out" THEN m.out ELSE m.actions.out

(* Segmentation: no message the controller ever sends, at once or for a    *)
(* packet that waited for its address, as a packet or as a rule, makes a   *)
(* switch pass traffic between zones that the policy does not entitle to   *)
(* cross (handle_ip(), _route(), _resolve_pending()).                      *)
Segmentation ==
  \A i \in DOMAIN sent :
    EmitPort(sent[i]) # None /\ Crosses(Emits(sent[i])) => Justified(Emits(sent[i]))

(* Traffic that crosses zones leaves the core only through a port of its   *)
(* destination's zone (_forward_ip() and _install_route_flows()).          *)
RoutedTowardsZone ==
  \A i \in DOMAIN sent :
    sent[i].to = CORE_DPID /\ EmitPort(sent[i]) # None /\ Crosses(Emits(sent[i]))
      => EmitPort(sent[i]) \in ZONE_CORE_PORTS(zone_for_ip(Emits(sent[i]).dstip))

(* Rule 8: an ARP frame the core is told to emit stays in one zone, the    *)
(* zone of the host that sent it or, for an answer of the gateway, of the  *)
(* host that asked (_flood_in_zone(), _send_arp_probe(), _handle_arp()).   *)
ArpStaysInZone ==
  \A i \in DOMAIN sent :
    LET f == Emits(sent[i]) IN
    sent[i].to = CORE_DPID /\ f.type = "ARP" =>
      EmitPort(sent[i]) \in ZONE_CORE_PORTS(
        zone_for_ip(IF f.opcode = "REPLY" /\ IsGateway(f.protosrc) THEN f.protodst
                    ELSE f.protosrc))

(* A rule that lets traffic through against the policy's direction is only *)
(* installed for the reverse of a connection that is remembered and was    *)
(* refreshed by the very packet the rule is made for (_handle_ip() and     *)
(* ConnectionTable.is_reply()).                                            *)
ReplyRulesFollowConnections ==
  \A i \in DOMAIN sent :
    LET p == Emits(sent[i]) IN
    /\ sent[i].op = "flow_mod" /\ sent[i].to = CORE_DPID
    /\ EmitPort(sent[i]) # None /\ Crosses(p)
    /\ ~Permits(p.srcip, p.dstip, p.kind)
    => \E f \in DOMAIN last_seen :
         /\ last_seen[f] = 0
         /\ f.src = p.dstip /\ f.dst = p.srcip /\ f.proto = ProtoOf(p.kind)
         /\ p.kind \notin EchoKinds => f.sport = p.dport /\ f.dport = p.sport

(* A resolution in progress is for an address of the zone it probes, holds *)
(* at least the packet that started it, and every packet in it entered     *)
(* where its source belongs and is entitled to cross                       *)
(* (_queue_and_resolve()).                                                 *)
QueuesAreJustified ==
  \A ip \in Ips : pending[ip] # None =>
    /\ pending[ip].zone = zone_for_ip(ip)
    /\ pending[ip].queue # <<>>
    /\ \A i \in DOMAIN pending[ip].queue :
         LET item == pending[ip].queue[i]
             p    == item.frame
         IN  /\ p.type = "IP" /\ p.dstip = ip /\ Crosses(p) /\ Justified(p)
             /\ source_ip_valid_for_zone(p.srcip, zone_of_port(item.dpid, item.port))

(* Exactly one retry timer runs for an address being resolved and none for *)
(* any other: a resolution that ends early never leaves a timer behind to  *)
(* speed up the next one (_retry_arp(), _resolve_pending()).               *)
OneTimerPerResolution ==
  \A ip \in Ips : timers[ip] = IF pending[ip] = None THEN 0 ELSE 1

(* What becomes of a queued packet: it is sent on with one hop less, or    *)
(* its sender gets an ICMP error that quotes it.                           *)
AnsweredBy(item, m) ==
  /\ m.op = "packet_out"
  /\ \/ /\ m.to = CORE_DPID
        /\ [m.frame EXCEPT !.src = item.frame.src, !.dst = item.frame.dst]
             = [item.frame EXCEPT !.ttl = @ - 1]
     \/ /\ m.to = item.dpid /\ m.out = item.port
        /\ "quotes" \in DOMAIN m /\ m.quotes = item.frame

(* No queued packet is lost or overtaken in its queue: a resolution keeps  *)
(* its packets in order until it ends, and when it ends each one is        *)
(* answered in that step, as long as the core is connected (the two        *)
(* endings in _resolve_pending() and _retry_arp()).                        *)
QueuedPacketsAreAnswered ==
  [][\A ip \in Ips : pending[ip] # None =>
       IF pending'[ip] = None
         THEN CORE_DPID \in connections =>
                \A i \in DOMAIN pending[ip].queue :
                  i \in DOMAIN sent' /\ AnsweredBy(pending[ip].queue[i], sent'[i])
         ELSE \A i \in DOMAIN pending[ip].queue :
                /\ i \in DOMAIN pending'[ip].queue
                /\ pending'[ip].queue[i] = pending[ip].queue[i]]_vars

(* Every resolution ends, by an answer or by giving up, although the       *)
(* packets that wait for it keep arriving (_retry_arp()).                  *)
ResolutionsEnd == \A ip \in Ips : pending[ip] # None ~> pending[ip] = None

(* The controller docstring: probing, queueing and giving up are for a     *)
(* host that has not been located, and a host is located the moment it     *)
(* ARPs for its gateway. So a destination that is reported unreachable is  *)
(* one whose location is unknown.                                          *)
UnreachableMeansUnknown ==
  \A i \in DOMAIN sent :
    LET m == sent[i] IN
    m.op = "packet_out" /\ m.frame.type = "IP" /\ m.frame.kind = "host_unreachable"
      => ip_to_loc[m.quotes.dstip] = None
=============================================================================
