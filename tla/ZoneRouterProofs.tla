-------------------------- MODULE ZoneRouterProofs --------------------------
(***************************************************************************)
(* The controller's safety for every policy, layout, set of packet-ins and *)
(* bound: the tables keep their shape, locations stay within their zone,   *)
(* connections are opened only as the policy permits, and nothing that is  *)
(* sent passes traffic between zones the policy does not entitle to cross. *)
(***************************************************************************)
EXTENDS ZoneRouter, ZonePolicyProofs, SequenceTheorems, FiniteSetTheorems, TLAPS

-----------------------------------------------------------------------------
(* Zones of addresses and ports. *)

(* For a packet that passed the anti-spoofing check the daemon, which      *)
(* classifies by address, and the Python fallback, which is given the      *)
(* ingress zone, give one and the same verdict (_firewall_allowed()).      *)
THEOREM BackendsAgree ==
  ASSUME NEW p, NEW zone, source_ip_valid_for_zone(p.srcip, zone),
         zone_for_ip(p.dstip) # None
  PROVE  backend_verdicts(zone, p) = {Permits(p.srcip, p.dstip, p.kind)}
<1>1. zone_for_ip(p.srcip) = zone /\ zone \in ZONES /\ zone # None
  BY ValidSource, PolicyAssumption
<1>2. zone_for_ip(p.dstip) \in ZONES
  BY ZoneOrNone
<1>3. firewall_allowed(zone, zone_for_ip(p.dstip), p.kind \in IcmpKinds)
        = Permits(p.srcip, p.dstip, p.kind)
  BY <1>1 DEF Permits
<1>4. Decide(p.srcip, p.dstip, p.kind \in IcmpKinds) = Permits(p.srcip, p.dstip, p.kind)
  <2>1. (p.kind \in IcmpKinds) \in BOOLEAN
    OBVIOUS
  <2>2. Decide(p.srcip, p.dstip, p.kind \in IcmpKinds)
          = firewall_allowed(zone_for_ip(p.srcip), zone_for_ip(p.dstip), p.kind \in IcmpKinds)
    BY <2>1, DaemonDecides
  <2> QED  BY <2>2 DEF Permits
<1> QED  BY <1>3, <1>4 DEF backend_verdicts

(* The core port recorded for a host seen at a port is a core port of that *)
(* port's zone (core_port_for()).                                          *)
LEMMA CorePortOfZone ==
  ASSUME NEW dpid, NEW port, NEW zone \in ZONES, zone_of_port(dpid, port) = zone
  PROVE  core_port_for(dpid, port) \in ZONE_CORE_PORTS(zone)
<1>1. zone # None
  BY PolicyAssumption
<1>2. CASE dpid = CORE_DPID
  BY <1>1, <1>2, PortMapsAssumption DEF zone_of_port, core_port_for, ZONE_CORE_PORTS
<1>3. CASE dpid # CORE_DPID
  <2>1. dpid \in Leaves /\ SWITCH_ZONE[dpid] = zone
    BY <1>1, <1>3 DEF zone_of_port
  <2>2. core_port_for(dpid, port) = LEAF_CORE_PORT[dpid]
    BY <1>3, <2>1 DEF core_port_for
  <2> QED  BY <2>1, <2>2, PortMapsAssumption DEF ZONE_CORE_PORTS
<1> QED  BY <1>2, <1>3

-----------------------------------------------------------------------------
(* Type correctness, with the timer count it depends on. *)

TablesInv == TypeOK /\ OneTimerPerResolution

(* Learning keeps the tables' shape and records only locations in the      *)
(* address's own zone (_learn()).                                          *)
LEMMA LearnKeepsTables ==
  ASSUME TypeOK, NEW dpid \in Dpids, NEW port \in Ports, NEW ip \in Ips, NEW mac \in Macs,
         NEW zone, zone = zone_of_port(dpid, port), source_ip_valid_for_zone(ip, zone),
         learn(dpid, port, ip, mac, zone)
  PROVE  /\ mac_table' \in [Dpids -> [Macs -> Ports \cup {None}]]
         /\ ip_to_loc' \in [Ips -> Locations \cup {None}]
         /\ LocationsMatchZones => LocationsMatchZones'
         /\ ip_to_loc'[ip].port \in ZONE_CORE_PORTS(zone_for_ip(ip))
<1>1. zone \in ZONES /\ zone_for_ip(ip) = zone /\ ~IsGateway(ip)
  BY ValidSource
<1>2. core_port_for(dpid, port) \in ZONE_CORE_PORTS(zone)
  BY <1>1, CorePortOfZone
<1>3. core_port_for(dpid, port) \in Ports /\ core_port_for(dpid, port) # None
  BY <1>2, PortMapsAssumption DEF ZONE_CORE_PORTS
<1>4. ip_to_loc' = [ip_to_loc EXCEPT ![ip] =
                      [port |-> core_port_for(dpid, port), mac |-> mac, zone |-> zone]]
  BY <1>3 DEF learn
<1>5. mac_table' \in [Dpids -> [Macs -> Ports \cup {None}]]
  BY DEF learn, learn_mac, TypeOK
<1>6. ip_to_loc' \in [Ips -> Locations \cup {None}]
  BY <1>1, <1>3, <1>4 DEF TypeOK, Locations
<1>7. ASSUME LocationsMatchZones PROVE LocationsMatchZones'
  BY <1>1, <1>2, <1>4, <1>7 DEF LocationsMatchZones, TypeOK
<1>8. ip_to_loc'[ip].port = core_port_for(dpid, port)
  BY <1>4 DEF TypeOK
<1> QED  BY <1>1, <1>2, <1>5, <1>6, <1>7, <1>8

(* Queueing a packet starts a resolution with its timer, or adds to the    *)
(* one that runs (_queue_and_resolve()).                                   *)
LEMMA QueueKeepsTables ==
  ASSUME TablesInv, NEW item \in Items, item.frame.type = "IP", NEW dst_zone \in ZONES,
         queue_and_resolve(item, dst_zone)
  PROVE  /\ pending' \in [Ips -> Resolutions \cup {None}]
         /\ timers' \in [Ips -> Nat]
         /\ OneTimerPerResolution'
<1> DEFINE dst_ip == item.frame.dstip
<1>1. dst_ip \in Ips
  BY DEF Items, Frames, IpFrames, ArpFrames, OtherFrames
<1>2. CASE pending[dst_ip] = None
  <2> DEFINE entry == [zone |-> dst_zone, queue |-> <<item>>, retries |-> 1]
  <2>1. /\ pending' = [pending EXCEPT ![dst_ip] = entry]
        /\ timers' = [timers EXCEPT ![dst_ip] = @ + 1]
    BY <1>2 DEF queue_and_resolve
  <2>2. entry \in Resolutions
    <3>1. 1 \in 1 .. ARP_MAX_RETRIES
      BY RouterAssumption
    <3>2. <<item>> \in Seq(Items)
      OBVIOUS
    <3> QED  BY <3>1, <3>2 DEF Resolutions
  <2>3. entry # None
    BY <2>2, RouterAssumption
  <2> QED  BY <1>1, <1>2, <2>1, <2>2, <2>3 DEF TablesInv, TypeOK, OneTimerPerResolution
<1>3. CASE pending[dst_ip] # None
  <2> DEFINE entry == [pending[dst_ip] EXCEPT !.queue = Append(@, item)]
  <2>1. pending' = [pending EXCEPT ![dst_ip] = entry] /\ timers' = timers
    BY <1>3 DEF queue_and_resolve
  <2>2. pending[dst_ip] \in Resolutions
    BY <1>1, <1>3 DEF TablesInv, TypeOK
  <2>3. entry \in Resolutions
    <3>1. Append(pending[dst_ip].queue, item) \in Seq(Items)
      BY <2>2 DEF Resolutions
    <3> QED  BY <2>2, <3>1 DEF Resolutions
  <2>4. entry # None
    BY <2>3, RouterAssumption
  <2> QED  BY <1>1, <1>3, <2>1, <2>3, <2>4 DEF TablesInv, TypeOK, OneTimerPerResolution
<1> QED  BY <1>2, <1>3

(* A resolution that ends stops its one timer (_resolve_pending()).        *)
LEMMA ResolveKeepsTables ==
  ASSUME TablesInv, NEW ip \in Ips, NEW mac, resolve_pending(ip, mac)
  PROVE  /\ pending' \in [Ips -> Resolutions \cup {None}]
         /\ timers' \in [Ips -> Nat]
         /\ OneTimerPerResolution'
<1>1. CASE pending[ip] = None
  BY <1>1, RouterAssumption DEF resolve_pending, TablesInv, TypeOK, OneTimerPerResolution
<1>2. CASE pending[ip] # None
  <2>1. /\ pending' = [pending EXCEPT ![ip] = None]
        /\ timers' = [timers EXCEPT ![ip] = @ - 1]
    BY <1>2 DEF resolve_pending
  <2>2. timers[ip] = 1
    BY <1>2 DEF TablesInv, OneTimerPerResolution
  <2> QED  BY <1>2, <2>1, <2>2 DEF TablesInv, TypeOK, OneTimerPerResolution
<1> QED  BY <1>1, <1>2

(* So does one whose retries are used up (_retry_arp()).                   *)
LEMMA RetryKeepsTables ==
  ASSUME TablesInv, NEW ip \in Ips, retry_arp(ip)
  PROVE  TablesInv'
<1> DEFINE entry == pending[ip]
<1>1. UNCHANGED <<connections, mac_table, ip_to_loc, last_seen>>
  BY DEF retry_arp
<1>2. CASE entry = None
  <2>1. UNCHANGED <<pending, timers>>
    BY <1>2, RouterAssumption DEF retry_arp
  <2> QED  BY <1>1, <2>1 DEF TablesInv, TypeOK, OneTimerPerResolution
<1>3. CASE entry # None /\ entry.retries >= ARP_MAX_RETRIES
  <2>1. entry \in Resolutions /\ timers[ip] = 1
    BY <1>3 DEF TablesInv, TypeOK, OneTimerPerResolution
  <2>2. /\ pending' = [pending EXCEPT ![ip] = None]
        /\ timers' = [timers EXCEPT ![ip] = @ - 1]
    BY <1>3, <2>1, RouterAssumption DEF retry_arp, Resolutions
  <2> QED  BY <1>1, <2>1, <2>2 DEF TablesInv, TypeOK, OneTimerPerResolution
<1>4. CASE entry # None /\ ~(entry.retries >= ARP_MAX_RETRIES)
  <2>1. entry \in Resolutions
    BY <1>4 DEF TablesInv, TypeOK
  <2>2. /\ pending' = [pending EXCEPT ![ip] = [entry EXCEPT !.retries = @ + 1]]
        /\ timers' = timers
    BY <1>4 DEF retry_arp
  <2>3. [entry EXCEPT !.retries = @ + 1] \in Resolutions
    BY <1>4, <2>1, RouterAssumption DEF Resolutions
  <2>4. [entry EXCEPT !.retries = @ + 1] # None
    BY <2>3, RouterAssumption
  <2> QED  BY <1>1, <1>4, <2>2, <2>3, <2>4 DEF TablesInv, TypeOK, OneTimerPerResolution
<1> QED  BY <1>2, <1>3, <1>4

-----------------------------------------------------------------------------
(* Messages. *)

(* What a rule may do with the packets it matches.                         *)
Lawful(f, actions) ==
  /\ actions.out # None /\ Crosses(f) => Justified(f)
  /\ "dec_ttl" \in DOMAIN actions =>
       f.type = "IP" /\ actions.set_src \in Macs /\ actions.set_dst \in Macs

(* Traffic the policy permits, or the reverse of a connection refreshed    *)
(* just now.                                                               *)
BackedBy(p, table) ==
  ~Permits(p.srcip, p.dstip, p.kind) =>
    /\ p.kind \in {"tcp", "udp", "echo_reply"}
    /\ \E f \in DOMAIN table :
         /\ table[f] = 0
         /\ f.src = p.dstip /\ f.dst = p.srcip /\ f.proto = ProtoOf(p.kind)
         /\ p.kind \notin EchoKinds => f.sport = p.dport /\ f.dport = p.sport

(* What the properties of what is sent, and the switches that obey, ask of *)
(* one message.                                                            *)
Safe(m, table) ==
  LET f == Emits(m) IN
  /\ m.op = "packet_out" => m.frame \in Frames /\ (Crosses(m.frame) => Justified(m.frame))
  /\ m.op = "flow_mod" => Lawful(m.match.frame, m.actions)
  /\ m.op \in {"packet_out", "flow_mod"}
  /\ m.to = CORE_DPID /\ EmitPort(m) # None /\ Crosses(f) =>
       EmitPort(m) \in ZONE_CORE_PORTS(zone_for_ip(f.dstip))
  /\ m.to = CORE_DPID /\ f.type = "ARP" =>
       EmitPort(m) \in ZONE_CORE_PORTS(
         zone_for_ip(IF f.opcode = "REPLY" /\ IsGateway(f.protosrc) THEN f.protodst
                     ELSE f.protosrc))
  /\ m.op = "flow_mod" /\ m.to = CORE_DPID /\ EmitPort(m) # None /\ Crosses(f) =>
       BackedBy(f, table)

(* A family of messages that may be sent.                                  *)
Sendable(msgs, table) ==
  /\ IsFiniteSet(DOMAIN msgs)
  /\ \A i \in DOMAIN msgs : msgs[i] # None => Safe(msgs[i], table)

SafeSent == IsFiniteSet(DOMAIN sent) /\ \A i \in DOMAIN sent : Safe(sent[i], last_seen)

(* The properties of what is sent hold when every message is safe.         *)
LEMMA SafeSentSuffices ==
  ASSUME SafeSent
  PROVE  Segmentation /\ RoutedTowardsZone /\ ArpStaysInZone /\ ReplyRulesFollowConnections
<1>1. Segmentation
  BY DEF SafeSent, Safe, Lawful, Segmentation, Emits, EmitPort
<1>2. RoutedTowardsZone /\ ArpStaysInZone
  BY DEF SafeSent, Safe, RoutedTowardsZone, ArpStaysInZone
<1>3. ReplyRulesFollowConnections
  BY DEF SafeSent, Safe, BackedBy, ReplyRulesFollowConnections
<1> QED  BY <1>1, <1>2, <1>3

(* Sending a family of safe messages leaves only safe messages sent.       *)
LEMMA SendSafe ==
  ASSUME NEW msgs, Sendable(msgs, last_seen'), Send(msgs)
  PROVE  SafeSent'
<1>1. /\ DOMAIN sent' \subseteq DOMAIN msgs
      /\ \A i \in DOMAIN sent' : sent'[i] = msgs[i] /\ msgs[i] # None
  BY DEF Send, Restrict
<1>2. IsFiniteSet(DOMAIN sent')
  BY <1>1, FS_Subset DEF Sendable
<1>3. \A i \in DOMAIN sent' : Safe(sent'[i], last_seen')
  BY <1>1 DEF Sendable
<1> QED  BY <1>2, <1>3 DEF SafeSent, Safe, Emits, EmitPort

(* A sequence has a finite domain.                                         *)
LEMMA FiniteSequence ==
  ASSUME NEW S, NEW s \in Seq(S) PROVE IsFiniteSet(DOMAIN s)
<1>1. DOMAIN s = 1 .. Len(s) /\ Len(s) \in Nat
  BY LenProperties
<1> QED  BY <1>1, FS_Interval

(* Sending nothing is safe.                                                *)
LEMMA NothingSafe == ASSUME NEW table PROVE Sendable(<<>>, table)
  BY FS_EmptySet DEF Sendable

(* A rule's match keeps the addresses and the kind of the packet it was    *)
(* made from, and the ports where they tell connections apart              *)
(* (ofp_match.from_packet()).                                              *)
LEMMA MatchKeepsHeaders ==
  ASSUME NEW frame \in Frames, NEW port
  PROVE  LET h == from_packet(frame, port).frame IN
         /\ h.type = frame.type
         /\ Crosses(h) <=> Crosses(frame)
         /\ frame.type = "IP" =>
              /\ h.srcip = frame.srcip /\ h.dstip = frame.dstip
              /\ h.kind = frame.kind
              /\ frame.kind \in {"tcp", "udp"} => h.sport = frame.sport /\ h.dport = frame.dport
              /\ Justified(h) <=> Justified(frame)
<1> DEFINE h == from_packet(frame, port).frame
<1>1. CASE frame.type # "IP"
  BY <1>1 DEF from_packet
<1>2. CASE frame.type = "IP"
  <2>1. frame \in IpFrames
    BY <1>2 DEF Frames, ArpFrames, OtherFrames
  <2>2. /\ h.type = frame.type
        /\ h.srcip = frame.srcip /\ h.dstip = frame.dstip
        /\ h.kind = frame.kind
        /\ frame.kind \in {"tcp", "udp"} => h.sport = frame.sport /\ h.dport = frame.dport
    BY <2>1 DEF from_packet, IpFrames
  <2> QED  BY <1>2, <2>2 DEF Crosses, Justified
<1> QED  BY <1>1, <1>2

(* What a packet without its header is: of its protocol's part kind, with  *)
(* the same addresses (ofp_match.from_packet()).                           *)
LEMMA HeadlessFrame ==
  ASSUME NEW frame \in Frames
  PROVE  LET w == Headless(frame) IN
         /\ w \in Frames
         /\ frame.type # "IP" => w = frame
         /\ frame.type = "IP" =>
              /\ w = [frame EXCEPT !.kind = w.kind]
              /\ w.kind \in PartKinds \/ w.kind = frame.kind
              /\ w.kind \in IcmpKinds <=> frame.kind \in IcmpKinds
<1>1. CASE frame.type # "IP"
  BY <1>1 DEF Headless
<1>2. CASE frame.type = "IP"
  <2>1. frame \in IpFrames
    BY <1>2 DEF Frames, ArpFrames, OtherFrames
  <2> DEFINE kind == CASE frame.kind \in IcmpKinds           -> "icmp_part"
                       [] frame.kind \in {"tcp", "tcp_part"} -> "tcp_part"
                       [] frame.kind \in {"udp", "udp_part"} -> "udp_part"
                       [] OTHER                              -> "other"
  <2>2. frame.kind \in Kinds
    BY <2>1 DEF IpFrames
  <2>3. Headless(frame) = [frame EXCEPT !.kind = kind]
    BY <1>2, <2>1, <2>2 DEF Headless, ProtoOf, Kinds, PartKinds, IcmpKinds, EchoKinds, IpFrames
  <2>4. /\ kind \in Kinds
        /\ kind \in PartKinds \/ kind = frame.kind
        /\ kind \in IcmpKinds <=> frame.kind \in IcmpKinds
    BY <2>2 DEF Kinds, PartKinds, IcmpKinds, EchoKinds
  <2> HIDE DEF kind
  <2> QED  BY <1>2, <2>1, <2>3, <2>4 DEF IpFrames, Frames
<1> QED  BY <1>1, <1>2

(* A match that leaves the ports or the type open still tells who may      *)
(* send what to whom: a frame it covers may cross if the packet it was     *)
(* made from may, as parts of packets answer nothing (table lookup, and    *)
(* ofp_match.from_packet()).                                               *)
LEMMA MatchCovers ==
  ASSUME NEW frame \in Frames, NEW port, NEW match,
         match \in {from_packet(frame, port), from_packet(Headless(frame), port)}
  PROVE  LET h == match.frame IN
         /\ match.in_port = port
         /\ h.type = frame.type
         /\ Crosses(h) <=> Crosses(frame)
         /\ frame.type # "IP" => h = frame
         /\ frame.type = "IP" =>
              /\ h.src = frame.src /\ h.dst = frame.dst
              /\ h.srcip = frame.srcip /\ h.dstip = frame.dstip
              /\ h.kind \in PartKinds \/ match = from_packet(frame, port)
              /\ Justified(h) => Justified(frame)
<1> DEFINE h == match.frame
<1>1. CASE match = from_packet(frame, port)
  <2>1. /\ match.in_port = port
        /\ h.src = frame.src /\ h.dst = frame.dst
        /\ frame.type # "IP" => h = frame
    <3>1. CASE frame.type = "IP"
      <4>1. frame \in IpFrames
        BY <3>1 DEF Frames, ArpFrames, OtherFrames
      <4> QED  BY <1>1, <3>1, <4>1 DEF from_packet, IpFrames
    <3>2. CASE frame.type # "IP"
      BY <1>1, <3>2 DEF from_packet
    <3> QED  BY <3>1, <3>2
  <2> QED  BY <1>1, <2>1, MatchKeepsHeaders
<1>2. CASE match # from_packet(frame, port)
  <2> DEFINE w == Headless(frame)
  <2>1. match = from_packet(w, port) /\ w # frame
    BY <1>2
  <2>2. frame.type = "IP" /\ frame \in IpFrames
    BY <2>1, HeadlessFrame DEF Frames, ArpFrames, OtherFrames
  <2>3. /\ w \in Frames
        /\ w = [frame EXCEPT !.kind = w.kind]
        /\ w.kind \in PartKinds \/ w.kind = frame.kind
        /\ w.kind \in IcmpKinds <=> frame.kind \in IcmpKinds
    BY <2>2, HeadlessFrame
  <2> HIDE DEF w
  <2>4. w.kind \in PartKinds
    BY <2>1, <2>2, <2>3 DEF IpFrames
  <2>5. w.type = "IP" /\ w \in IpFrames
    BY <2>2, <2>3 DEF IpFrames, Frames, ArpFrames, OtherFrames
  <2>6. w.src = frame.src /\ w.dst = frame.dst /\ w.srcip = frame.srcip /\ w.dstip = frame.dstip
    BY <2>2, <2>3 DEF IpFrames
  <2>7. match.in_port = port /\ h.src = w.src /\ h.dst = w.dst
    BY <2>1, <2>5 DEF from_packet, IpFrames
  <2>8. /\ h.type = "IP" /\ h.srcip = w.srcip /\ h.dstip = w.dstip /\ h.kind = w.kind
        /\ Justified(h) <=> Justified(w)
    BY <2>1, <2>3, <2>5, MatchKeepsHeaders
  <2>9. Justified(w) => Justified(frame)
    <3>1. Justified(w) => Permits(w.srcip, w.dstip, w.kind)
      BY <2>4 DEF Justified, PartKinds
    <3>2. Permits(w.srcip, w.dstip, w.kind) => Permits(frame.srcip, frame.dstip, frame.kind)
      BY <2>3, <2>6 DEF Permits
    <3> QED  BY <3>1, <3>2 DEF Justified
  <2> QED  BY <2>2, <2>4, <2>6, <2>7, <2>8, <2>9 DEF Crosses
<1> QED  BY <1>1, <1>2

(* One safe message may be sent.                                           *)
LEMMA OneSafe ==
  ASSUME NEW table, NEW m, Safe(m, table), NEW S, m \in S
  PROVE  <<m>> \in Seq(S) /\ Sendable(<<m>>, table)
<1>1. DOMAIN <<m>> = {1} /\ <<m>>[1] = m
  OBVIOUS
<1>2. <<m>> \in Seq(S)
  OBVIOUS
<1> QED  BY <1>1, <1>2, FS_Singleton DEF Sendable

(* Flooding is safe: at a leaf for any frame entitled to be there, at the  *)
(* core for frames that do not cross zones (_flood_in_zone()).             *)
LEMMA FloodSafe ==
  ASSUME NEW ev \in Items, Crosses(ev.frame) => Justified(ev.frame), NEW table,
         ev.dpid = CORE_DPID =>
           /\ ~Crosses(ev.frame)
           /\ ev.frame.type = "ARP" =>
                source_ip_valid_for_zone(ev.frame.protosrc, zone_of_port(ev.dpid, ev.port))
  PROVE  Sendable(flood_in_zone(ev), table)
<1>0. ev.frame \in Frames
  BY DEF Items
<1>1. CASE ev.dpid = CORE_DPID
  <2> DEFINE zone == zone_of_port(CORE_DPID, ev.port)
             ports == ZONE_CORE_PORTS(zone) \ {ev.port}
  <2>1. flood_in_zone(ev) = [port \in ports |-> PacketOut(CORE_DPID, ev.frame, port)]
    BY <1>1 DEF flood_in_zone
  <2>2. IsFiniteSet(ports)
    <3>1. ports \subseteq Ports
      BY PortMapsAssumption DEF ZONE_CORE_PORTS
    <3> QED  BY <3>1, RouterAssumption, FS_Subset
  <2>3. ASSUME NEW port \in ports PROVE Safe(PacketOut(CORE_DPID, ev.frame, port), table)
    <3>1. ev.frame.type = "ARP" =>
            zone_for_ip(ev.frame.protosrc) = zone /\ ~IsGateway(ev.frame.protosrc)
      BY <1>1, ValidSource
    <3> QED  BY <1>0, <1>1, <3>1 DEF Safe, PacketOut, Emits, EmitPort
  <2> QED  BY <2>1, <2>2, <2>3 DEF Sendable
<1>2. CASE ev.dpid # CORE_DPID
  <2>1. flood_in_zone(ev) = <<FloodOut(ev)>>
    BY <1>2 DEF flood_in_zone
  <2>2. Safe(FloodOut(ev), table)
    BY <1>0, <1>2 DEF Safe, FloodOut, Emits, EmitPort
  <2> QED  BY <2>1, <2>2, OneSafe
<1> QED  BY <1>1, <1>2

(* So are safe messages one after the other.                               *)
LEMMA ConcatSafe ==
  ASSUME NEW table, NEW S, NEW s \in Seq(S), NEW t \in Seq(S),
         Sendable(s, table), Sendable(t, table)
  PROVE  s \o t \in Seq(S) /\ Sendable(s \o t, table)
<1>1. /\ s \o t \in Seq(S)
      /\ Len(s \o t) = Len(s) + Len(t)
      /\ \A i \in 1 .. Len(s) + Len(t) :
           (s \o t)[i] = IF i <= Len(s) THEN s[i] ELSE t[i - Len(s)]
  BY ConcatProperties
<1>2. /\ DOMAIN (s \o t) = 1 .. Len(s) + Len(t)
      /\ DOMAIN s = 1 .. Len(s) /\ DOMAIN t = 1 .. Len(t)
      /\ Len(s) \in Nat /\ Len(t) \in Nat
  BY <1>1, LenProperties
<1>3. ASSUME NEW i \in DOMAIN (s \o t), (s \o t)[i] # None PROVE Safe((s \o t)[i], table)
  <2>1. CASE i <= Len(s)
    <3>1. i \in DOMAIN s /\ (s \o t)[i] = s[i]
      BY <1>1, <1>2, <2>1
    <3> QED  BY <1>3, <3>1 DEF Sendable
  <2>2. CASE ~(i <= Len(s))
    <3>1. i - Len(s) \in DOMAIN t /\ (s \o t)[i] = t[i - Len(s)]
      BY <1>1, <1>2, <2>2
    <3> QED  BY <1>3, <3>1 DEF Sendable
  <2> QED  BY <2>1, <2>2
<1>4. IsFiniteSet(DOMAIN (s \o t))
  BY <1>1, FiniteSequence
<1> QED  BY <1>1, <1>3, <1>4 DEF Sendable

(* So is layer-2 forwarding (_l2_forward()).                               *)
LEMMA ForwardSafe ==
  ASSUME NEW ev \in Items, Crosses(ev.frame) => Justified(ev.frame), NEW table,
         ev.dpid = CORE_DPID => ~Crosses(ev.frame) /\ ev.frame.type = "IP"
  PROVE  Sendable(l2_forward(ev), table)
<1> DEFINE port == mac_table'[ev.dpid][ev.frame.dst]
           rule == FlowMod(ev.dpid, from_packet(ev.frame, ev.port),
                           ROUTED_FLOW_IDLE_TIMEOUT, ROUTED_FLOW_HARD_TIMEOUT, Output(port))
           copy == PacketOut(ev.dpid, ev.frame, port)
<1>0. ev.frame \in Frames
  BY DEF Items
<1>1. CASE port = None
  BY <1>1, FloodSafe DEF l2_forward
<1>2. CASE port # None
  <2>1. l2_forward(ev) = <<rule>> \o (IF port = ev.port THEN <<>> ELSE <<copy>>)
    BY <1>2 DEF l2_forward
  <2>2. Safe(copy, table)
    BY <1>0 DEF Safe, PacketOut, Emits, EmitPort
  <2>3. Safe(rule, table)
    <3>1. /\ Emits(rule) = from_packet(ev.frame, ev.port).frame /\ rule.to = ev.dpid
          /\ rule.op = "flow_mod" /\ rule.match.frame = Emits(rule)
          /\ "dec_ttl" \notin DOMAIN rule.actions
      BY DEF FlowMod, Emits, Output
    <3>2. /\ Emits(rule).type = ev.frame.type
          /\ Crosses(Emits(rule)) <=> Crosses(ev.frame)
          /\ ev.frame.type = "IP" => (Justified(Emits(rule)) <=> Justified(ev.frame))
      BY <1>0, <3>1, MatchKeepsHeaders
    <3> QED  BY <3>1, <3>2 DEF Safe, Lawful, Crosses
  <2> DEFINE rest == IF port = ev.port THEN <<>> ELSE <<copy>>
  <2> HIDE DEF rule, copy, port
  <2>4. <<rule>> \in Seq({rule, copy}) /\ Sendable(<<rule>>, table)
    BY <2>3, OneSafe
  <2>5. rest \in Seq({rule, copy}) /\ Sendable(rest, table)
    <3>1. CASE port = ev.port
      BY <3>1, NothingSafe
    <3>2. CASE port # ev.port
      BY <2>2, <3>2, OneSafe
    <3> QED  BY <3>1, <3>2
  <2>6. Sendable(<<rule>> \o rest, table)
    <3> HIDE DEF rest
    <3> QED  BY <2>4, <2>5, ConcatSafe
  <2> QED  BY <2>1, <2>6
<1> QED  BY <1>1, <1>2

(* A packet the router forwards between zones, once accepted.              *)
Accepted(item) ==
  LET p == item.frame IN
  /\ item \in Items /\ p.type = "IP"
  /\ Crosses(p) /\ Justified(p)
  /\ source_ip_valid_for_zone(p.srcip, zone_of_port(item.dpid, item.port))

(* It is an IP frame between two addresses.                                *)
LEMMA AcceptedFrame ==
  ASSUME NEW item, Accepted(item)
  PROVE  item \in Items /\ item.frame \in IpFrames
  BY DEF Accepted, Items, Frames, ArpFrames, OtherFrames

(* An ICMP error goes from a zone's gateway back to a host of that zone    *)
(* (_send_icmp_error()).                                                   *)
LEMMA ErrorSafe ==
  ASSUME NEW item, Accepted(item), NEW kind \in Kinds, NEW table
  PROVE  Safe(icmp_error(item, kind), table)
<1> DEFINE zone == zone_of_port(item.dpid, item.port)
           m == icmp_error(item, kind)
<1>1. zone \in ZONES /\ zone_for_ip(item.frame.srcip) = zone /\ zone # None
  BY ValidSource, PolicyAssumption DEF Accepted
<1>2. zone_for_ip(Gateway[zone]) = zone
  BY <1>1, ZoneOfGateway
<1>3. /\ ~Crosses(m.frame) /\ m.frame.type = "IP" /\ m.op = "packet_out"
      /\ Emits(m) = m.frame
  BY <1>1, <1>2 DEF icmp_error, Emits, Crosses
<1>4. m.frame \in Frames
  BY <1>1, AcceptedFrame, PolicyAssumption DEF icmp_error, IpFrames, Frames, DefaultTtl
<1> QED  BY <1>3, <1>4 DEF Safe

(* A routed packet keeps its addresses and leaves the core towards its     *)
(* destination's zone; without a hop left its sender gets an error         *)
(* (_forward_ip()).                                                        *)
LEMMA RouteSafe ==
  ASSUME NEW item, Accepted(item), NEW zone \in ZONES, NEW mac \in Macs,
         NEW port \in ZONE_CORE_PORTS(zone_for_ip(item.frame.dstip)), NEW table
  PROVE  Safe(forward_ip(item, zone, port, mac), table)
<1>1. CASE item.frame.ttl <= 1
  BY <1>1, ErrorSafe DEF forward_ip, Kinds, IcmpKinds
<1>2. CASE ~(item.frame.ttl <= 1)
  <2> DEFINE m == forward_ip(item, zone, port, mac)
  <2>1. item.frame \in IpFrames /\ item.frame.ttl - 1 \in Nat /\ GatewayMac[zone] \in Macs
    <3>1. item.frame \in IpFrames
      BY AcceptedFrame
    <3>2. item.frame.ttl \in Nat
      BY <3>1 DEF IpFrames
    <3> QED  BY <1>2, <3>1, <3>2, PolicyAssumption
  <2>2. /\ m.frame = [item.frame EXCEPT !.src = GatewayMac[zone], !.dst = mac, !.ttl = @ - 1]
        /\ Emits(m) = m.frame /\ EmitPort(m) = port /\ m.op = "packet_out"
    BY <1>2 DEF forward_ip, PacketOut, Emits, EmitPort
  <2>3. /\ m.frame.type = "IP" /\ m.frame.kind = item.frame.kind
        /\ m.frame.srcip = item.frame.srcip /\ m.frame.dstip = item.frame.dstip
        /\ m.frame \in Frames
    BY <2>1, <2>2 DEF IpFrames, Frames
  <2> QED  BY <2>2, <2>3 DEF Safe, Accepted, Justified
<1> QED  BY <1>1, <1>2

(* The rules of a route match the packet they are made for and send it on  *)
(* the same way (_install_route_flows()).                                  *)
LEMMA RulesSafe ==
  ASSUME NEW ev, Accepted(ev), NEW zone \in ZONES, NEW mac \in Macs,
         NEW port \in ZONE_CORE_PORTS(zone_for_ip(ev.frame.dstip)),
         NEW table, BackedBy(ev.frame, table),
         NEW m, Safe(m, table)
  PROVE  Sendable(install_route_flows(ev, zone, port, mac) \o <<m>>, table)
<1> DEFINE core_rule ==
             FlowMod(CORE_DPID, from_packet(ev.frame, core_port_for(ev.dpid, ev.port)),
                     ROUTED_FLOW_IDLE_TIMEOUT, ROUTED_FLOW_HARD_TIMEOUT,
                     [out |-> port, set_src |-> GatewayMac[zone],
                      set_dst |-> mac, dec_ttl |-> TRUE])
           leaf_rule ==
             FlowMod(ev.dpid, from_packet(ev.frame, ev.port),
                     ROUTED_FLOW_IDLE_TIMEOUT, ROUTED_FLOW_HARD_TIMEOUT,
                     Output(LEAF_UPLINK_PORT[ev.dpid]))
<1>1. /\ ev \in Items /\ ev.frame.type = "IP" /\ Justified(ev.frame)
      /\ ev.frame \in Frames
  BY DEF Accepted, Items
<1>2. Safe(core_rule, table)
  <2>1. /\ Emits(core_rule) = from_packet(ev.frame, core_port_for(ev.dpid, ev.port)).frame
        /\ EmitPort(core_rule) = port
        /\ core_rule.match.frame = Emits(core_rule)
        /\ core_rule.op = "flow_mod"
        /\ core_rule.actions.set_src = GatewayMac[zone] /\ core_rule.actions.set_dst = mac
    BY DEF FlowMod, Emits, EmitPort
  <2> DEFINE h == Emits(core_rule)
  <2>2. /\ h.type = "IP" /\ h.srcip = ev.frame.srcip /\ h.dstip = ev.frame.dstip
        /\ h.kind = ev.frame.kind /\ Justified(h)
        /\ h.kind \in {"tcp", "udp"} => h.sport = ev.frame.sport /\ h.dport = ev.frame.dport
    BY <1>1, <2>1, MatchKeepsHeaders
  <2>3. BackedBy(h, table)
    BY <2>2 DEF BackedBy, EchoKinds
  <2>4. GatewayMac[zone] \in Macs
    BY PolicyAssumption
  <2> HIDE DEF core_rule
  <2> QED  BY <2>1, <2>2, <2>3, <2>4 DEF Safe, Lawful
<1>3. ASSUME ev.dpid # CORE_DPID PROVE Safe(leaf_rule, table)
  <2>1. /\ Emits(leaf_rule) = from_packet(ev.frame, ev.port).frame /\ leaf_rule.to = ev.dpid
        /\ leaf_rule.op = "flow_mod" /\ leaf_rule.match.frame = Emits(leaf_rule)
        /\ "dec_ttl" \notin DOMAIN leaf_rule.actions
    BY DEF FlowMod, Emits, Output
  <2>2. Emits(leaf_rule).type = "IP" /\ Justified(Emits(leaf_rule))
    BY <1>1, <2>1, MatchKeepsHeaders
  <2> QED  BY <1>3, <2>1, <2>2 DEF Safe, Lawful
<1> HIDE DEF core_rule, leaf_rule
<1> DEFINE rules == install_route_flows(ev, zone, port, mac)
           S == {core_rule, leaf_rule, m}
<1>4. rules \in Seq(S) /\ Sendable(rules, table)
  <2>1. CASE CORE_DPID \notin connections \/ ev.frame.ttl <= 1
    <3>1. rules = <<>>
      BY <2>1 DEF install_route_flows
    <3> QED  BY <3>1, NothingSafe
  <2>2. CASE ~(CORE_DPID \notin connections \/ ev.frame.ttl <= 1)
    <3> DEFINE rest == IF ev.dpid = CORE_DPID THEN <<>> ELSE <<leaf_rule>>
    <3>1. rules = <<core_rule>> \o rest
      BY <2>2 DEF install_route_flows, core_rule, leaf_rule
    <3>2. rest \in Seq(S) /\ Sendable(rest, table)
      <4>1. CASE ev.dpid = CORE_DPID
        BY <4>1, NothingSafe
      <4>2. CASE ev.dpid # CORE_DPID
        BY <1>3, <4>2, OneSafe
      <4> QED  BY <4>1, <4>2
    <3>3. <<core_rule>> \in Seq(S) /\ Sendable(<<core_rule>>, table)
      BY <1>2, OneSafe
    <3> HIDE DEF rest, S, rules
    <3> QED  BY <3>1, <3>2, <3>3, ConcatSafe
  <2> QED  BY <2>1, <2>2
<1>5. <<m>> \in Seq(S) /\ Sendable(<<m>>, table)
  BY OneSafe
<1> HIDE DEF rules, S
<1>6. Sendable(rules \o <<m>>, table)
  BY <1>4, <1>5, ConcatSafe
<1> QED  BY <1>6 DEF rules

(* A drop rule emits nothing (_install_drop_flow()).                       *)
LEMMA DropSafe ==
  ASSUME NEW ev \in Items, ev.frame.type = "IP", NEW table
  PROVE  Sendable(install_drop_flow(ev), table)
<1> DEFINE rule == FlowMod(ev.dpid, from_packet(ev.frame, ev.port),
                           DROP_FLOW_IDLE_TIMEOUT, DROP_FLOW_HARD_TIMEOUT, DropActions)
<1>1. /\ EmitPort(rule) = None /\ rule.actions.out = None /\ rule.op = "flow_mod"
      /\ "dec_ttl" \notin DOMAIN rule.actions
      /\ Emits(rule) = from_packet(ev.frame, ev.port).frame
  BY DEF FlowMod, DropActions, EmitPort, Emits
<1>2. Emits(rule).type = "IP"
  BY <1>1, MatchKeepsHeaders DEF Items
<1>3. Safe(rule, table)
  BY <1>1, <1>2 DEF Safe, Lawful
<1>4. install_drop_flow(ev) = <<rule>>
  BY DEF install_drop_flow
<1> HIDE DEF rule
<1> QED  BY <1>3, <1>4, OneSafe

(* A probe carries its zone's gateway address and goes to that zone's core *)
(* ports only (_send_arp_probe()).                                         *)
LEMMA ProbeSafe ==
  ASSUME NEW ip \in Ips, NEW zone \in ZONES, zone_for_ip(ip) = zone, NEW table
  PROVE  Sendable(send_arp_probe(ip, zone), table)
<1>1. IsFiniteSet(DOMAIN send_arp_probe(ip, zone))
  <2>1. DOMAIN send_arp_probe(ip, zone) \subseteq Ports
    BY PortMapsAssumption DEF send_arp_probe, ZONE_CORE_PORTS
  <2> QED  BY <2>1, RouterAssumption, FS_Subset
<1>2. ASSUME NEW i \in DOMAIN send_arp_probe(ip, zone)
      PROVE  Safe(send_arp_probe(ip, zone)[i], table)
  <2> DEFINE m == send_arp_probe(ip, zone)[i]
  <2>1. m.frame \in Frames
    BY <1>2, PolicyAssumption, RouterAssumption DEF send_arp_probe, PacketOut, Frames, ArpFrames
  <2>2. /\ m.op = "packet_out" /\ m.frame.type = "ARP" /\ m.frame.opcode = "REQUEST"
        /\ m.frame.protosrc = Gateway[zone] /\ m.out = i /\ i \in ZONE_CORE_PORTS(zone)
    BY <1>2 DEF send_arp_probe, PacketOut
  <2> HIDE DEF m
  <2>3. Safe(m, table)
    BY <2>1, <2>2, ZoneOfGateway DEF Safe, Emits, EmitPort, Crosses
  <2> QED  BY <2>3 DEF m
<1> QED  BY <1>1, <1>2 DEF Sendable

-----------------------------------------------------------------------------
(* Handlers. *)

(* Tracking a packet that crosses zones never plants a connection the      *)
(* policy does not permit, and admits only packets entitled to cross       *)
(* (ConnectionTable.check() under _handle_ip()).                           *)
LEMMA TrackingSafe ==
  ASSUME TypeOK, TrackedArePermitted, NEW p \in IpFrames, Crosses(p),
         NEW allowed, allowed = Permits(p.srcip, p.dstip, p.kind),
         last_seen' = check_table(last_seen, allowed, tracked(p))
  PROVE  /\ last_seen' \in [DOMAIN last_seen' -> 0 .. IDLE_TIMEOUT]
         /\ TrackedArePermitted'
         /\ check_verdict(last_seen, allowed, tracked(p)) # "drop" =>
              Justified(p) /\ BackedBy(p, last_seen')
<1> DEFINE t == tracked(p)
<1>0. ProtoOf(p.kind) = "icmp" <=> p.kind \in IcmpKinds
  BY DEF ProtoOf, IcmpKinds, EchoKinds
<1>1. /\ t.flow.src = p.srcip /\ t.flow.dst = p.dstip
      /\ t.flow.proto = "icmp" <=> p.kind \in IcmpKinds
      /\ reversed(t.flow).src = p.dstip /\ reversed(t.flow).dst = p.srcip
      /\ reversed(t.flow).proto = t.flow.proto /\ t.flow.proto = ProtoOf(p.kind)
      /\ reversed(t.flow).sport = p.dport /\ reversed(t.flow).dport = p.sport
      /\ t.may_reply <=> p.kind \in {"tcp", "udp", "echo_reply"}
  BY <1>0 DEF tracked, tracked_packet, reversed, IpFrames
<1>2. ASSUME reversed(t.flow) \in DOMAIN last_seen
      PROVE  Permits(p.dstip, p.srcip, p.kind)
  BY <1>1, <1>2 DEF TrackedArePermitted, Permits
<1>3. CASE allowed
  <2>1. last_seen' \in {last_seen, track(last_seen, t.flow)}
    BY <1>3 DEF check_table, check_verdict
  <2>2. /\ last_seen' \in [DOMAIN last_seen' -> 0 .. IDLE_TIMEOUT]
        /\ DOMAIN last_seen' \subseteq DOMAIN last_seen \cup {t.flow}
    BY <2>1, IdleTimeoutAssumption DEF track, TypeOK
  <2>3. TrackedArePermitted'
    BY <1>1, <1>3, <2>2 DEF TrackedArePermitted, Permits, Crosses
  <2> QED  BY <1>3, <2>2, <2>3 DEF Justified, BackedBy
<1>4. CASE ~allowed /\ t.may_reply /\ is_reply(last_seen, t.flow)
  <2>1. last_seen' = track(last_seen, reversed(t.flow))
    BY <1>4 DEF check_table, check_verdict
  <2>2. reversed(t.flow) \in DOMAIN last_seen
    BY <1>4 DEF is_reply, alive
  <2>3. /\ last_seen' \in [DOMAIN last_seen' -> 0 .. IDLE_TIMEOUT]
        /\ DOMAIN last_seen' = DOMAIN last_seen
        /\ last_seen'[reversed(t.flow)] = 0
    BY <2>1, <2>2, IdleTimeoutAssumption DEF track, TypeOK
  <2>4. TrackedArePermitted'
    BY <2>3 DEF TrackedArePermitted
  <2>5. BackedBy(p, last_seen')
    BY <1>1, <1>4, <2>2, <2>3 DEF BackedBy
  <2> QED  BY <1>1, <1>2, <1>4, <2>2, <2>3, <2>4, <2>5 DEF Justified
<1>5. CASE ~allowed /\ ~(t.may_reply /\ is_reply(last_seen, t.flow))
  <2>1. /\ check_verdict(last_seen, allowed, t) = "drop"
        /\ last_seen' = last_seen
    BY <1>5 DEF check_table, check_verdict
  <2> QED  BY <2>1 DEF TypeOK, TrackedArePermitted
<1> QED  BY <1>3, <1>4, <1>5

(* Setting one address's resolution to one that holds accepted packets for *)
(* that address keeps every queue justified.                               *)
LEMMA UpdateQueue ==
  ASSUME TypeOK, QueuesAreJustified, NEW ip \in Ips, NEW entry,
         entry.zone = zone_for_ip(ip), entry.queue # <<>>,
         \A i \in DOMAIN entry.queue :
           Accepted(entry.queue[i]) /\ entry.queue[i].frame.dstip = ip,
         pending' = [pending EXCEPT ![ip] = entry]
  PROVE  QueuesAreJustified'
<1>1. pending'[ip] = entry /\ \A j \in Ips \ {ip} : pending'[j] = pending[j]
  BY DEF TypeOK
<1> SUFFICES ASSUME NEW j \in Ips, pending'[j] # None
             PROVE  /\ pending'[j].zone = zone_for_ip(j)
                    /\ pending'[j].queue # <<>>
                    /\ \A i \in DOMAIN pending'[j].queue :
                         LET item == pending'[j].queue[i]
                             p    == item.frame
                         IN  /\ p.type = "IP" /\ p.dstip = j /\ Crosses(p) /\ Justified(p)
                             /\ source_ip_valid_for_zone(p.srcip, zone_of_port(item.dpid, item.port))
  BY DEF QueuesAreJustified
<1>2. CASE j = ip
  BY <1>1, <1>2 DEF Accepted
<1>3. CASE j # ip
  BY <1>1, <1>3 DEF QueuesAreJustified
<1> QED  BY <1>2, <1>3

(* The packets of a justified queue are accepted packets for its address.  *)
LEMMA QueuedAccepted ==
  ASSUME TypeOK, QueuesAreJustified, NEW ip \in Ips, pending[ip] # None
  PROVE  /\ pending[ip] \in Resolutions
         /\ pending[ip].zone = zone_for_ip(ip)
         /\ pending[ip].queue \in Seq(Items) /\ pending[ip].queue # <<>>
         /\ \A i \in DOMAIN pending[ip].queue :
              Accepted(pending[ip].queue[i]) /\ pending[ip].queue[i].frame.dstip = ip
<1>1. pending[ip] \in Resolutions
  BY DEF TypeOK
<1>2. pending[ip].queue \in Seq(Items)
  BY <1>1 DEF Resolutions
<1>3. \A i \in DOMAIN pending[ip].queue : pending[ip].queue[i] \in Items
  BY <1>2, ElementOfSeq, LenProperties
<1> QED  BY <1>1, <1>2, <1>3 DEF QueuesAreJustified, Accepted

(* What is queued is accepted (_queue_and_resolve()).                      *)
LEMMA QueueSafe ==
  ASSUME TablesInv, QueuesAreJustified, NEW item, Accepted(item),
         NEW zone \in ZONES, zone = zone_for_ip(item.frame.dstip),
         queue_and_resolve(item, zone)
  PROVE  QueuesAreJustified' /\ SafeSent'
<1> DEFINE ip == item.frame.dstip
<1>1. ip \in Ips /\ item \in Items
  BY DEF Accepted, Items, Frames, IpFrames, ArpFrames, OtherFrames
<1>2. CASE pending[ip] = None
  <2> DEFINE entry == [zone |-> zone, queue |-> <<item>>, retries |-> 1]
  <2>1. /\ pending' = [pending EXCEPT ![ip] = entry]
        /\ Send(send_arp_probe(ip, zone))
    BY <1>2 DEF queue_and_resolve
  <2>2. SafeSent'
    BY <1>1, <2>1, ProbeSafe, SendSafe
  <2>3. /\ entry.zone = zone
        /\ entry.queue # <<>> /\ DOMAIN entry.queue = {1} /\ entry.queue[1] = item
    OBVIOUS
  <2> HIDE DEF entry
  <2>4. \A i \in DOMAIN entry.queue : entry.queue[i] = item
    BY <2>3
  <2>5. QueuesAreJustified'
    BY <1>1, <2>1, <2>3, <2>4, UpdateQueue DEF TablesInv
  <2> QED  BY <2>2, <2>5
<1>3. CASE pending[ip] # None
  <2> DEFINE q == pending[ip].queue
             entry == [pending[ip] EXCEPT !.queue = Append(@, item)]
  <2>1. pending' = [pending EXCEPT ![ip] = entry] /\ Send(<<>>)
    BY <1>3 DEF queue_and_resolve
  <2>2. SafeSent'
    BY <2>1, NothingSafe, SendSafe
  <2>3. /\ pending[ip] \in Resolutions /\ q \in Seq(Items)
        /\ pending[ip].zone = zone_for_ip(ip)
        /\ \A i \in DOMAIN q : Accepted(q[i]) /\ q[i].frame.dstip = ip
    BY <1>1, <1>3, QueuedAccepted DEF TablesInv
  <2>4. entry.zone = pending[ip].zone /\ entry.queue = Append(q, item)
    BY <2>3 DEF Resolutions
  <2> HIDE DEF entry, q
  <2>5. /\ entry.queue # <<>>
        /\ \A i \in DOMAIN entry.queue :
             (i \in DOMAIN q /\ entry.queue[i] = q[i]) \/ entry.queue[i] = item
    <3>1. /\ Append(q, item) # <<>>
          /\ \A i \in DOMAIN Append(q, item) :
               (i \in DOMAIN q /\ Append(q, item)[i] = q[i]) \/ Append(q, item)[i] = item
      BY <1>1, <2>3, AppendProperties, LenProperties
    <3> QED  BY <2>4, <3>1
  <2>6. QueuesAreJustified'
    BY <1>1, <2>1, <2>3, <2>4, <2>5, UpdateQueue DEF TablesInv
  <2> QED  BY <2>2, <2>6
<1> QED  BY <1>2, <1>3

(* A queue that is flushed goes out towards the zone of its address        *)
(* (_resolve_pending()).                                                   *)
LEMMA ResolveSafe ==
  ASSUME TablesInv, QueuesAreJustified, NEW ip \in Ips, NEW mac \in Macs,
         ip_to_loc'[ip].port \in ZONE_CORE_PORTS(zone_for_ip(ip)),
         resolve_pending(ip, mac)
  PROVE  QueuesAreJustified' /\ SafeSent'
<1>1. CASE pending[ip] = None
  <2>1. pending' = pending /\ Send(<<>>)
    BY <1>1 DEF resolve_pending
  <2> QED  BY <2>1, NothingSafe, SendSafe DEF QueuesAreJustified
<1>2. CASE pending[ip] # None
  <2> DEFINE entry == pending[ip]
             msgs == [i \in DOMAIN entry.queue |->
                        forward_ip(entry.queue[i], entry.zone, ip_to_loc'[ip].port, mac)]
  <2>1. pending' = [pending EXCEPT ![ip] = None] /\ Send(msgs)
    BY <1>2 DEF resolve_pending
  <2>2. QueuesAreJustified'
    BY <2>1 DEF QueuesAreJustified, TablesInv, TypeOK
  <2>3. /\ entry \in Resolutions /\ entry.queue \in Seq(Items)
        /\ \A i \in DOMAIN entry.queue :
             Accepted(entry.queue[i]) /\ entry.queue[i].frame.dstip = ip
    BY <1>2, QueuedAccepted DEF TablesInv
  <2>4. Sendable(msgs, last_seen')
    <3>1. entry.zone \in ZONES /\ IsFiniteSet(DOMAIN msgs)
      BY <2>3, FiniteSequence DEF Resolutions
    <3>2. \A i \in DOMAIN msgs : Safe(msgs[i], last_seen')
      BY <2>3, <3>1, RouteSafe
    <3> QED  BY <3>1, <3>2 DEF Sendable
  <2> QED  BY <2>1, <2>2, <2>4, SendSafe
<1> QED  BY <1>1, <1>2

(* Giving up answers every queued packet in its own zone; a retry probes   *)
(* the zone of the address (_retry_arp()).                                 *)
LEMMA RetrySafe ==
  ASSUME TablesInv, QueuesAreJustified, NEW ip \in Ips, retry_arp(ip)
  PROVE  QueuesAreJustified' /\ SafeSent'
<1> DEFINE entry == pending[ip]
<1>1. CASE entry = None
  <2>1. pending' = pending /\ Send(<<>>)
    BY <1>1, RouterAssumption DEF retry_arp
  <2> QED  BY <2>1, NothingSafe, SendSafe DEF QueuesAreJustified
<1>2. CASE entry # None /\ entry.retries >= ARP_MAX_RETRIES
  <2> DEFINE msgs == [i \in DOMAIN entry.queue |-> icmp_error(entry.queue[i], "host_unreachable")]
  <2>1. entry.queue \in Seq(Items) /\ \A i \in DOMAIN entry.queue : Accepted(entry.queue[i])
    BY <1>2, QueuedAccepted DEF TablesInv
  <2>2. entry \in Resolutions
    BY <1>2 DEF TablesInv, TypeOK
  <2>3. ~(entry.retries < ARP_MAX_RETRIES)
    BY <1>2, <2>2, RouterAssumption DEF Resolutions
  <2>4. pending' = [pending EXCEPT ![ip] = None] /\ Send(msgs)
    BY <1>2, <2>3 DEF retry_arp
  <2>5. Sendable(msgs, last_seen')
    <3>1. IsFiniteSet(DOMAIN msgs)
      BY <2>1, FiniteSequence
    <3>2. \A i \in DOMAIN msgs : Safe(msgs[i], last_seen')
      BY <2>1, ErrorSafe DEF Kinds, IcmpKinds
    <3> QED  BY <3>1, <3>2 DEF Sendable
  <2>6. QueuesAreJustified'
    BY <2>4 DEF QueuesAreJustified, TablesInv, TypeOK
  <2> QED  BY <2>4, <2>5, <2>6, SendSafe
<1>3. CASE entry # None /\ ~(entry.retries >= ARP_MAX_RETRIES)
  <2> DEFINE next == [entry EXCEPT !.retries = @ + 1]
  <2>1. pending' = [pending EXCEPT ![ip] = next] /\ Send(send_arp_probe(ip, entry.zone))
    BY <1>3 DEF retry_arp
  <2>2. /\ entry \in Resolutions /\ entry.zone = zone_for_ip(ip) /\ entry.queue # <<>>
        /\ \A i \in DOMAIN entry.queue :
             Accepted(entry.queue[i]) /\ entry.queue[i].frame.dstip = ip
    BY <1>3, QueuedAccepted DEF TablesInv
  <2>3. entry.zone \in ZONES /\ next.zone = entry.zone /\ next.queue = entry.queue
    BY <2>2 DEF Resolutions
  <2>4. SafeSent'
    BY <2>1, <2>2, <2>3, ProbeSafe, SendSafe
  <2> HIDE DEF next, entry
  <2>5. QueuesAreJustified'
    BY <2>1, <2>2, <2>3, UpdateQueue DEF TablesInv, entry
  <2> QED  BY <2>4, <2>5
<1> QED  BY <1>1, <1>2, <1>3

(* An accepted packet is routed at once or queued (_route()).              *)
LEMMA RouteStepSafe ==
  ASSUME TablesInv, QueuesAreJustified, NEW ev, Accepted(ev),
         NEW zone \in ZONES, zone = zone_for_ip(ev.frame.dstip),
         ip_to_loc' \in [Ips -> Locations \cup {None}], LocationsMatchZones',
         BackedBy(ev.frame, last_seen'), route(ev, zone)
  PROVE  /\ pending' \in [Ips -> Resolutions \cup {None}]
         /\ timers' \in [Ips -> Nat]
         /\ OneTimerPerResolution' /\ QueuesAreJustified' /\ SafeSent'
<1> DEFINE ip == ev.frame.dstip
           loc == ip_to_loc'[ip]
<1>1. ip \in Ips /\ ev \in Items /\ ev.frame.type = "IP"
  BY DEF Accepted, Items, Frames, IpFrames, ArpFrames, OtherFrames
<1>2. CASE loc # None
  <2> DEFINE copy == forward_ip(ev, zone, loc.port, loc.mac)
             msgs == install_route_flows(ev, zone, loc.port, loc.mac) \o <<copy>>
  <2>1. pending' = pending /\ timers' = timers /\ Send(msgs)
    BY <1>2 DEF route
  <2>2. loc.port \in ZONE_CORE_PORTS(zone_for_ip(ip)) /\ loc.mac \in Macs
    BY <1>1, <1>2 DEF LocationsMatchZones, Locations
  <2>3. Safe(copy, last_seen')
    BY <2>2, RouteSafe
  <2> HIDE DEF copy
  <2>4. Sendable(msgs, last_seen')
    BY <2>2, <2>3, RulesSafe
  <2> HIDE DEF msgs
  <2>5. SafeSent'
    BY <2>1, <2>4, SendSafe
  <2> QED  BY <2>1, <2>5 DEF TablesInv, TypeOK, OneTimerPerResolution, QueuesAreJustified
<1>3. CASE loc = None
  <2>1. queue_and_resolve(ev, zone)
    BY <1>3 DEF route
  <2> QED  BY <1>1, <2>1, QueueKeepsTables, QueueSafe
<1> QED  BY <1>2, <1>3
-----------------------------------------------------------------------------
(* The invariant: every table is well formed and every one of the          *)
(* properties holds; each leans on the others. A queue is safe to flush    *)
(* because its packets were justified when they were queued, a route is    *)
(* because locations stay within their zone, a reply is because what is    *)
(* tracked was permitted.                                                  *)
SafetyInv ==
  TablesInv /\ LocationsMatchZones /\ TrackedArePermitted /\ QueuesAreJustified /\ SafeSent

(* Packets whose source does not belong to their port change nothing.      *)
LEMMA IgnoreSafe ==
  ASSUME SafetyInv, Ignore, UNCHANGED connections PROVE SafetyInv'
<1>1. SafeSent'
  BY NothingSafe, SendSafe DEF Ignore
<1> QED  BY <1>1 DEF Ignore, SafetyInv, TablesInv, TypeOK, OneTimerPerResolution,
           LocationsMatchZones, TrackedArePermitted, QueuesAreJustified

(* Transit learns a MAC only and passes on what was already checked        *)
(* (_handle_transit()).                                                    *)
LEMMA TransitSafe ==
  ASSUME SafetyInv, NEW ev \in Items, is_leaf_uplink(ev.dpid, ev.port),
         Crosses(ev.frame) => Justified(ev.frame),
         handle_transit(ev), UNCHANGED connections
  PROVE  SafetyInv'
<1>1. ev \in Items /\ ev.dpid \in Dpids /\ ev.port \in Ports /\ ev.frame.src \in Macs
  BY DEF Items, Frames, IpFrames, ArpFrames, OtherFrames
<1>3. ev.dpid # CORE_DPID
  BY PortMapsAssumption DEF is_leaf_uplink
<1>4. mac_table' \in [Dpids -> [Macs -> Ports \cup {None}]]
  BY <1>1 DEF handle_transit, learn_mac, SafetyInv, TablesInv, TypeOK
<1>5. SafeSent'
  <2>1. CASE ev.frame.dst \in Multicast
    <3>1. Send(flood_in_zone(ev))
      BY <2>1 DEF handle_transit
    <3> QED  BY <3>1, <1>1, <1>3, FloodSafe, SendSafe
  <2>2. CASE ev.frame.dst \notin Multicast
    <3>1. Send(l2_forward(ev))
      BY <2>2 DEF handle_transit
    <3> QED  BY <3>1, <1>1, <1>3, ForwardSafe, SendSafe
  <2> QED  BY <2>1, <2>2
<1> QED  BY <1>4, <1>5 DEF handle_transit, SafetyInv, TablesInv, TypeOK,
           OneTimerPerResolution, LocationsMatchZones, TrackedArePermitted, QueuesAreJustified

(* ARP: a checked sender is learned; the gateway answers, a probe's reply  *)
(* resolves its address, anything else is flooded (_handle_arp()).         *)
LEMMA ArpSafe ==
  ASSUME SafetyInv, NEW ev \in Items, ev.frame.type = "ARP",
         handle_arp(ev), UNCHANGED connections
  PROVE  SafetyInv'
<1> DEFINE arp == ev.frame
           zone == zone_of_port(ev.dpid, ev.port)
<1>1. /\ ev \in Items /\ ev.dpid \in Dpids /\ ev.port \in Ports
      /\ arp.protosrc \in Ips /\ arp.protodst \in Ips /\ arp.hwsrc \in Macs
  BY DEF Items, Frames, IpFrames, ArpFrames, OtherFrames
<1>2. CASE ~source_ip_valid_for_zone(arp.protosrc, zone)
  BY <1>2, IgnoreSafe DEF handle_arp
<1>3. CASE source_ip_valid_for_zone(arp.protosrc, zone)
  <2>1. learn(ev.dpid, ev.port, arp.protosrc, arp.hwsrc, zone) /\ last_seen' = last_seen
    BY <1>3 DEF handle_arp
  <2>2. /\ mac_table' \in [Dpids -> [Macs -> Ports \cup {None}]]
        /\ ip_to_loc' \in [Ips -> Locations \cup {None}]
        /\ LocationsMatchZones'
        /\ ip_to_loc'[arp.protosrc].port \in ZONE_CORE_PORTS(zone_for_ip(arp.protosrc))
    BY <1>1, <1>3, <2>1, LearnKeepsTables DEF SafetyInv, TablesInv
  <2>3. zone_for_ip(arp.protosrc) = zone /\ zone \in ZONES /\ ~IsGateway(arp.protosrc)
    BY <1>3, ValidSource
  <2>4. /\ pending' \in [Ips -> Resolutions \cup {None}] /\ timers' \in [Ips -> Nat]
        /\ OneTimerPerResolution' /\ QueuesAreJustified' /\ SafeSent'
    <3>1. CASE arp.opcode = "REQUEST" /\ IsGateway(arp.protodst)
      <4> DEFINE reply == PacketOut(ev.dpid,
                   [type |-> "ARP", src |-> GatewayMac[zone], dst |-> arp.hwsrc,
                    opcode |-> "REPLY", hwsrc |-> GatewayMac[zone],
                    protosrc |-> arp.protodst, protodst |-> arp.protosrc],
                   ev.port)
      <4>1. pending' = pending /\ timers' = timers /\ Send(<<reply>>)
        BY <1>3, <3>1 DEF handle_arp
      <4>2. ev.dpid = CORE_DPID => ev.port \in ZONE_CORE_PORTS(zone)
        <5>1. core_port_for(ev.dpid, ev.port) \in ZONE_CORE_PORTS(zone)
          BY <2>3, CorePortOfZone
        <5>2. ev.dpid = CORE_DPID => core_port_for(ev.dpid, ev.port) = ev.port
          BY PortMapsAssumption DEF core_port_for
        <5> QED  BY <5>1, <5>2
      <4>3. Safe(reply, last_seen')
        <5>1. reply.frame \in Frames
          BY <1>1, <2>3, PolicyAssumption DEF PacketOut, Frames, ArpFrames
        <5>2. /\ reply.op = "packet_out" /\ Emits(reply) = reply.frame
              /\ reply.frame.type = "ARP" /\ reply.frame.opcode = "REPLY"
              /\ reply.frame.protosrc = arp.protodst /\ reply.frame.protodst = arp.protosrc
              /\ EmitPort(reply) = ev.port /\ reply.to = ev.dpid
          BY DEF PacketOut, Emits, EmitPort
        <5> HIDE DEF reply
        <5> QED  BY <3>1, <2>3, <4>2, <5>1, <5>2 DEF Safe, Crosses
      <4> HIDE DEF reply
      <4>4. SafeSent'
        BY <4>1, <4>3, OneSafe, SendSafe
      <4> QED  BY <4>1, <4>4 DEF SafetyInv, TablesInv, TypeOK, OneTimerPerResolution,
                 QueuesAreJustified
    <3>2. CASE arp.opcode = "REPLY" /\ IsGateway(arp.protodst)
      <4>1. resolve_pending(arp.protosrc, arp.hwsrc)
        <5>1. arp.opcode # "REQUEST"
          BY <3>2
        <5> QED  BY <1>3, <3>2, <5>1 DEF handle_arp
      <4> QED  BY <1>1, <2>2, <4>1, ResolveKeepsTables, ResolveSafe DEF SafetyInv
    <3>3. CASE ~(arp.opcode \in {"REQUEST", "REPLY"} /\ IsGateway(arp.protodst))
      <4>1. pending' = pending /\ timers' = timers /\ Send(flood_in_zone(ev))
        BY <1>3, <3>3 DEF handle_arp
      <4>2. ~Crosses(arp)
        BY DEF Crosses
      <4>3. SafeSent'
        BY <1>1, <1>3, <4>1, <4>2, FloodSafe, SendSafe
      <4> QED  BY <4>1, <4>3 DEF SafetyInv, TablesInv, TypeOK, OneTimerPerResolution,
                 QueuesAreJustified
    <3> QED  BY <3>1, <3>2, <3>3
  <2>5. TrackedArePermitted'
    BY <2>1 DEF SafetyInv, TrackedArePermitted
  <2> QED  BY <2>1, <2>2, <2>4, <2>5 DEF SafetyInv, TablesInv, TypeOK
<1> QED  BY <1>2, <1>3

(* IP: a checked sender is learned; the packet is dropped, delivered       *)
(* within its zone, or tracked and then blocked or routed (_handle_ip()).  *)
LEMMA IpSafe ==
  ASSUME SafetyInv, NEW ev \in Items, ev.frame.type = "IP",
         handle_ip(ev), UNCHANGED connections
  PROVE  SafetyInv'
<1> DEFINE p == ev.frame
           src_zone == zone_of_port(ev.dpid, ev.port)
           dst_zone == zone_for_ip(p.dstip)
<1>1. /\ ev \in Items /\ ev.dpid \in Dpids /\ ev.port \in Ports
      /\ p \in IpFrames /\ p.srcip \in Ips /\ p.src \in Macs
  BY DEF Items, Frames, IpFrames, ArpFrames, OtherFrames
<1>2. CASE ~source_ip_valid_for_zone(p.srcip, src_zone)
  BY <1>2, IgnoreSafe DEF handle_ip
<1>3. CASE source_ip_valid_for_zone(p.srcip, src_zone)
  <2>1. learn(ev.dpid, ev.port, p.srcip, p.src, src_zone)
    BY <1>3 DEF handle_ip
  <2>2. /\ mac_table' \in [Dpids -> [Macs -> Ports \cup {None}]]
        /\ ip_to_loc' \in [Ips -> Locations \cup {None}]
        /\ LocationsMatchZones'
    BY <1>1, <1>3, <2>1, LearnKeepsTables DEF SafetyInv, TablesInv
  <2>3. zone_for_ip(p.srcip) = src_zone /\ src_zone \in ZONES
    BY <1>3, ValidSource
  <2>4. CASE IsGateway(p.dstip) \/ dst_zone \in {None, src_zone}
    <3>1. /\ UNCHANGED <<pending, timers, last_seen>>
          /\ Send(IF IsGateway(p.dstip) \/ dst_zone = None THEN <<>> ELSE l2_forward(ev))
      BY <1>3, <2>4 DEF handle_ip
    <3>2. SafeSent'
      <4>1. CASE IsGateway(p.dstip) \/ dst_zone = None
        <5>1. Send(<<>>)
          BY <3>1, <4>1
        <5> QED  BY <5>1, NothingSafe, SendSafe
      <4>2. CASE ~(IsGateway(p.dstip) \/ dst_zone = None)
        <5>1. Send(l2_forward(ev)) /\ ~Crosses(p)
          BY <2>3, <2>4, <3>1, <4>2 DEF Crosses
        <5> QED  BY <1>1, <5>1, ForwardSafe, SendSafe
      <4> QED  BY <4>1, <4>2
    <3> QED  BY <2>2, <3>1, <3>2 DEF SafetyInv, TablesInv, TypeOK, OneTimerPerResolution,
               TrackedArePermitted, QueuesAreJustified
  <2>5. CASE ~(IsGateway(p.dstip) \/ dst_zone \in {None, src_zone})
    <3>1. handle_crossing(ev, src_zone, dst_zone)
      BY <1>3, <2>5 DEF handle_ip
    <3>2. dst_zone \in ZONES /\ Crosses(p)
      BY <2>3, <2>5, ZoneOrNone DEF Crosses
    <3>3. PICK allowed \in backend_verdicts(src_zone, p) :
            /\ last_seen' = check_table(last_seen, allowed, tracked(p))
            /\ IF check_verdict(last_seen, allowed, tracked(p)) = "drop"
                 THEN Send(install_drop_flow(ev)) /\ UNCHANGED <<pending, timers>>
                 ELSE route(ev, dst_zone)
      BY <3>1 DEF handle_crossing
    <3>4. allowed = Permits(p.srcip, p.dstip, p.kind)
      BY <1>3, <2>5, BackendsAgree
    <3>5. /\ last_seen' \in [DOMAIN last_seen' -> 0 .. IDLE_TIMEOUT]
          /\ TrackedArePermitted'
          /\ check_verdict(last_seen, allowed, tracked(p)) # "drop" =>
               Justified(p) /\ BackedBy(p, last_seen')
      BY <1>1, <3>2, <3>3, <3>4, TrackingSafe DEF SafetyInv, TablesInv
    <3>6. CASE check_verdict(last_seen, allowed, tracked(p)) = "drop"
      <4>1. Send(install_drop_flow(ev)) /\ UNCHANGED <<pending, timers>>
        BY <3>3, <3>6
      <4>2. SafeSent'
        BY <1>1, <4>1, DropSafe, SendSafe
      <4> QED  BY <2>2, <3>5, <4>1, <4>2 DEF SafetyInv, TablesInv, TypeOK,
                 OneTimerPerResolution, QueuesAreJustified
    <3>7. CASE check_verdict(last_seen, allowed, tracked(p)) # "drop"
      <4>1. route(ev, dst_zone) /\ Accepted(ev)
        BY <1>1, <1>3, <3>2, <3>3, <3>5, <3>7 DEF Accepted
      <4>2. /\ pending' \in [Ips -> Resolutions \cup {None}] /\ timers' \in [Ips -> Nat]
            /\ OneTimerPerResolution' /\ QueuesAreJustified' /\ SafeSent'
        BY <2>2, <3>2, <3>5, <3>7, <4>1, RouteStepSafe DEF SafetyInv
      <4> QED  BY <2>2, <3>5, <4>2 DEF SafetyInv, TablesInv, TypeOK
    <3> QED  BY <3>6, <3>7
  <2> QED  BY <2>4, <2>5
<1> QED  BY <1>2, <1>3

(* Every packet-in, whichever handler it is dispatched to, if what comes   *)
(* down an uplink is entitled to cross (_handle_PacketIn()).               *)
LEMMA PacketInSafe ==
  ASSUME SafetyInv, NEW ev \in Items, PacketIn(ev),
         is_leaf_uplink(ev.dpid, ev.port) /\ Crosses(ev.frame) => Justified(ev.frame)
  PROVE  SafetyInv'
<1> DEFINE type == ev.frame.type
           uplink == is_leaf_uplink(ev.dpid, ev.port)
<1>1. /\ type \in {"IP", "ARP", "INCOMPLETE", "LLDP", "OTHER"}
      /\ connections' = connections
  BY DEF PacketIn, Items, Frames, IpFrames, ArpFrames, OtherFrames
<1>2. CASE type \in {"INCOMPLETE", "LLDP"}
  BY <1>1, <1>2, IgnoreSafe DEF PacketIn
<1>3. CASE type \notin {"INCOMPLETE", "LLDP"} /\ uplink
  BY <1>1, <1>3, TransitSafe DEF PacketIn
<1>4. CASE type = "ARP" /\ ~uplink
  BY <1>1, <1>4, ArpSafe DEF PacketIn
<1>5. CASE type = "IP" /\ ~uplink
  BY <1>1, <1>5, IpSafe DEF PacketIn
<1>6. CASE type = "OTHER" /\ ~uplink
  <2>1. /\ Send(flood_in_zone(ev))
        /\ UNCHANGED <<mac_table, ip_to_loc, pending, timers, last_seen>>
    BY <1>6 DEF PacketIn
  <2>2. SafeSent'
    BY <1>1, <1>6, <2>1, FloodSafe, SendSafe DEF Crosses
  <2> QED  BY <1>1, <2>1, <2>2 DEF SafetyInv, TablesInv, TypeOK, OneTimerPerResolution,
             LocationsMatchZones, TrackedArePermitted, QueuesAreJustified
<1> QED  BY <1>1, <1>2, <1>3, <1>4, <1>5, <1>6

(* The controller that starts, and that starts again, knows nothing.       *)
LEMMA StartSafe == Init => SafetyInv
<1> SUFFICES ASSUME Init PROVE SafetyInv
  OBVIOUS
<1>1. TypeOK /\ OneTimerPerResolution
  BY DEF Init, TypeOK, OneTimerPerResolution
<1>2. LocationsMatchZones /\ TrackedArePermitted /\ QueuesAreJustified
  BY DEF Init, LocationsMatchZones, TrackedArePermitted, QueuesAreJustified
<1>3. SafeSent
  <2>1. sent = <<>> /\ DOMAIN <<>> = {}
    BY DEF Init
  <2> QED  BY <2>1, FS_EmptySet DEF SafeSent
<1> QED  BY <1>1, <1>2, <1>3 DEF SafetyInv, TablesInv

(* A switch that connects changes no table (_handle_ConnectionUp()).       *)
LEMMA ConnectSafe ==
  ASSUME SafetyInv, NEW dpid \in Dpids, ConnectionUp(dpid) PROVE SafetyInv'
<1>1. SafeSent'
  BY NothingSafe, SendSafe DEF ConnectionUp
<1> QED  BY <1>1 DEF ConnectionUp, SafetyInv, TablesInv, TypeOK,
           OneTimerPerResolution, LocationsMatchZones, TrackedArePermitted, QueuesAreJustified

(* A retry timer's callback (_retry_arp()).                                *)
LEMMA TimerSafe ==
  ASSUME SafetyInv, NEW ip \in Ips, retry_arp(ip) PROVE SafetyInv'
<1>1. TablesInv'
  BY RetryKeepsTables DEF SafetyInv
<1>2. QueuesAreJustified' /\ SafeSent'
  BY RetrySafe DEF SafetyInv
<1> QED  BY <1>1, <1>2 DEF retry_arp, SafetyInv, LocationsMatchZones, TrackedArePermitted

(* The sweep keeps some connections (_expire()).                           *)
LEMMA SweepSafe == ASSUME SafetyInv, Expire PROVE SafetyInv'
<1>1. SafeSent'
  BY NothingSafe, SendSafe DEF Expire
<1>2. /\ DOMAIN last_seen' \subseteq DOMAIN last_seen
      /\ \A f \in DOMAIN last_seen' : last_seen'[f] = last_seen[f]
      /\ last_seen' \in [DOMAIN last_seen' -> 0 .. IDLE_TIMEOUT]
  BY DEF Expire, expire, Restrict, SafetyInv, TablesInv, TypeOK
<1> QED  BY <1>1, <1>2 DEF Expire, SafetyInv, TablesInv, TypeOK,
           OneTimerPerResolution, LocationsMatchZones, TrackedArePermitted, QueuesAreJustified

(* Connections grow older.                                                 *)
LEMMA ElapseSafe == ASSUME SafetyInv, Elapse PROVE SafetyInv'
<1>1. SafeSent'
  BY NothingSafe, SendSafe DEF Elapse
<1>2. /\ DOMAIN last_seen' = DOMAIN last_seen
      /\ last_seen' \in [DOMAIN last_seen' -> 0 .. IDLE_TIMEOUT]
  BY IdleTimeoutAssumption DEF Elapse, elapse, SafetyInv, TablesInv, TypeOK
<1> QED  BY <1>1, <1>2 DEF Elapse, SafetyInv, TablesInv, TypeOK,
           OneTimerPerResolution, LocationsMatchZones, TrackedArePermitted, QueuesAreJustified

(* The invariant holds in every state the controller can reach.            *)
THEOREM Safety == Spec => []SafetyInv
<1>1. SafetyInv /\ [Next]_vars => SafetyInv'
  <2> SUFFICES ASSUME SafetyInv, [Next]_vars PROVE SafetyInv'
    OBVIOUS
  <2>1. ASSUME NEW ev \in PacketIns, PacketIn(ev) PROVE SafetyInv'
    BY <2>1, PacketInSafe, RouterAssumption, TransitAssumption
  <2>2. ASSUME UNCHANGED vars PROVE SafetyInv'
    BY <2>2 DEF vars, SafetyInv, TablesInv, TypeOK, OneTimerPerResolution,
         LocationsMatchZones, TrackedArePermitted, QueuesAreJustified, SafeSent
  <2> QED  BY <2>1, <2>2, ConnectSafe, TimerSafe, SweepSafe, ElapseSafe DEF Next
<1> QED  BY <1>1, StartSafe, PTL DEF Spec

(* The controller's tables keep their shape, and a resolution's retries    *)
(* stay within ARP_MAX_RETRIES, whatever packets arrive (every handler).   *)
THEOREM TypeCorrect == Spec => []TypeOK
<1>1. SafetyInv => TypeOK
  BY DEF SafetyInv, TablesInv
<1> QED  BY <1>1, Safety, PTL

(* A retry timer runs exactly while its address is being resolved, however *)
(* answers and timer callbacks interleave (_retry_arp(),                   *)
(* _resolve_pending()).                                                    *)
THEOREM OneTimer == Spec => []OneTimerPerResolution
<1>1. SafetyInv => OneTimerPerResolution
  BY DEF SafetyInv, TablesInv
<1> QED  BY <1>1, Safety, PTL

(* No address is ever recorded behind a port of another zone (_learn()     *)
(* after the anti-spoofing check).                                         *)
THEOREM LocationsInZone == Spec => []LocationsMatchZones
<1>1. SafetyInv => LocationsMatchZones
  BY DEF SafetyInv
<1> QED  BY <1>1, Safety, PTL

(* Only a frame seen where it entered moves its sender: what other         *)
(* switches show of it on its way never does (_handle_transit() learns no  *)
(* address, core_port_for() is the same at a leaf and at the core).        *)
THEOREM LocationsAtEntry == Spec => []LocationsPointHome
<1>1. Init => LocationsPointHome
  BY DEF Init, LocationsPointHome
<1>2. TypeOK /\ LocationsPointHome /\ [Next]_vars => LocationsPointHome'
  <2> SUFFICES ASSUME TypeOK, LocationsPointHome, [Next]_vars PROVE LocationsPointHome'
    OBVIOUS
  <2>1. ASSUME ip_to_loc' = ip_to_loc PROVE LocationsPointHome'
    BY <2>1 DEF LocationsPointHome
  <2>2. ASSUME NEW ev \in PacketIns, ~is_leaf_uplink(ev.dpid, ev.port), NEW ip, NEW mac,
               NEW zone, learn(ev.dpid, ev.port, ip, mac, zone),
               \/ ev.frame.type = "IP" /\ ev.frame.srcip = ip
               \/ ev.frame.type = "ARP" /\ ev.frame.protosrc = ip
        PROVE  LocationsPointHome'
    <3> DEFINE port == core_port_for(ev.dpid, ev.port)
    <3>1. port \in EntryPorts(ip)
      BY <2>2 DEF EntryPorts, is_leaf_uplink
    <3>2. \/ ip_to_loc' = ip_to_loc
          \/ ip_to_loc' = [ip_to_loc EXCEPT ![ip] = [port |-> port, mac |-> mac, zone |-> zone]]
      BY <2>2 DEF learn
    <3> HIDE DEF port
    <3>3. ASSUME NEW j \in Ips, ip_to_loc'[j] # None PROVE ip_to_loc'[j].port \in EntryPorts(j)
      <4>1. \/ ip_to_loc'[j] = ip_to_loc[j]
            \/ j = ip /\ ip_to_loc'[j].port = port
        BY <3>2 DEF TypeOK
      <4> QED  BY <3>1, <3>3, <4>1 DEF LocationsPointHome
    <3> QED  BY <3>3 DEF LocationsPointHome
  <2>3. ASSUME NEW ev \in PacketIns, PacketIn(ev) PROVE LocationsPointHome'
    <3>1. CASE ip_to_loc' = ip_to_loc
      BY <2>1, <3>1
    <3>2. CASE ip_to_loc' # ip_to_loc
      <4>1. ~is_leaf_uplink(ev.dpid, ev.port)
        BY <2>3, <3>2 DEF PacketIn, Ignore, handle_transit
      <4>2. \/ /\ ev.frame.type = "ARP"
               /\ learn(ev.dpid, ev.port, ev.frame.protosrc, ev.frame.hwsrc,
                        zone_of_port(ev.dpid, ev.port))
            \/ /\ ev.frame.type = "IP"
               /\ learn(ev.dpid, ev.port, ev.frame.srcip, ev.frame.src,
                        zone_of_port(ev.dpid, ev.port))
        BY <2>3, <3>2 DEF PacketIn, Ignore, handle_transit, handle_arp, handle_ip
      <4> QED  BY <2>2, <4>1, <4>2
    <3> QED  BY <3>1, <3>2
  <2> QED  BY <2>1, <2>3 DEF Next, ConnectionUp, retry_arp, Expire, Elapse, vars
<1> QED  BY <1>1, <1>2, TypeCorrect, PTL DEF Spec

(* Every remembered connection was opened in a permitted direction, so no  *)
(* sequence of packets plants an entry that would let blocked traffic      *)
(* through as a reply (_handle_ip(), ConnectionTable.check()).             *)
THEOREM PermittedConnections == Spec => []TrackedArePermitted
<1>1. SafetyInv => TrackedArePermitted
  BY DEF SafetyInv
<1> QED  BY <1>1, Safety, PTL

(* What waits for an address was checked, and waits for the right one      *)
(* (_queue_and_resolve()).                                                 *)
THEOREM JustifiedQueues == Spec => []QueuesAreJustified
<1>1. SafetyInv => QueuesAreJustified
  BY DEF SafetyInv
<1> QED  BY <1>1, Safety, PTL

(* Segmentation, for every topology, policy and timeout: no message the    *)
(* controller sends lets traffic cross zones unless the policy permits it  *)
(* or permits its addressee to have started it (_handle_ip(), _route(),    *)
(* _resolve_pending(), _retry_arp()).                                      *)
THEOREM SegmentationHolds == Spec => []Segmentation
<1>1. SafetyInv => Segmentation
  BY SafeSentSuffices DEF SafetyInv
<1> QED  BY <1>1, Safety, PTL

(* Routed traffic leaves the core towards its destination's zone, also     *)
(* when it waited for an address (_forward_ip(), _install_route_flows()).  *)
THEOREM RoutedHolds == Spec => []RoutedTowardsZone
<1>1. SafetyInv => RoutedTowardsZone
  BY SafeSentSuffices DEF SafetyInv
<1> QED  BY <1>1, Safety, PTL

(* Rule 8 for ARP: no ARP frame is emitted into another zone               *)
(* (_flood_in_zone(), _send_arp_probe(), _handle_arp()).                   *)
THEOREM ArpHolds == Spec => []ArpStaysInZone
<1>1. SafetyInv => ArpStaysInZone
  BY SafeSentSuffices DEF SafetyInv
<1> QED  BY <1>1, Safety, PTL

(* A rule against the policy's direction is installed only for the reverse *)
(* of a connection that the very packet it is made for refreshed           *)
(* (_handle_ip(), ConnectionTable.is_reply(), _install_route_flows()).     *)
THEOREM ReplyRulesHold == Spec => []ReplyRulesFollowConnections
<1>1. SafetyInv => ReplyRulesFollowConnections
  BY SafeSentSuffices DEF SafetyInv
<1> QED  BY <1>1, Safety, PTL
-----------------------------------------------------------------------------
(* No packet that waits for an address is lost: a resolution keeps its     *)
(* packets in order, and when it ends each one is sent on or reported to   *)
(* its sender. What could lose one is a message for a switch the           *)
(* controller has no connection to, so the invariant is that no packet     *)
(* waits that came from such a switch.                                     *)

QueuedAreReachable ==
  \A ip \in Ips : pending[ip] # None =>
    \A i \in DOMAIN pending[ip].queue : pending[ip].queue[i].dpid \in connections

AnswerInv == SafetyInv /\ QueuedAreReachable

(* What a step does with the packets waiting for an address.               *)
Kept(ip) ==
  /\ pending'[ip] # None
  /\ \A i \in DOMAIN pending[ip].queue :
       /\ i \in DOMAIN pending'[ip].queue
       /\ pending'[ip].queue[i] = pending[ip].queue[i]

Answered(ip) ==
  /\ pending'[ip] = None
  /\ CORE_DPID \in connections =>
       \A i \in DOMAIN pending[ip].queue :
         i \in DOMAIN sent' /\ AnsweredBy(pending[ip].queue[i], sent'[i])

QueueStep == \A ip \in Ips : pending[ip] # None => Kept(ip) \/ Answered(ip)

-----------------------------------------------------------------------------
(* Messages that arrive. *)

(* A message for a connected switch is sent.                               *)
LEMMA MessageSent ==
  ASSUME NEW msgs, Send(msgs), NEW i \in DOMAIN msgs,
         msgs[i] # None, msgs[i].to \in connections
  PROVE  i \in DOMAIN sent' /\ sent'[i] = msgs[i]
  BY DEF Send, Restrict

(* An ICMP error goes back where its packet came from and quotes it        *)
(* (_send_icmp_error()).                                                   *)
LEMMA ErrorAnswers ==
  ASSUME NEW item, Accepted(item), NEW kind \in Kinds
  PROVE  LET m == icmp_error(item, kind) IN
         m # None /\ m.to = item.dpid /\ AnsweredBy(item, m)
<1> DEFINE zone == zone_of_port(item.dpid, item.port)
           m == icmp_error(item, kind)
<1>1. zone \in ZONES /\ zone # None
  BY ValidSource, PolicyAssumption DEF Accepted
<1>2. m = [op |-> "packet_out", to |-> item.dpid, out |-> item.port, quotes |-> item.frame,
           frame |->
             [type |-> "IP", src |-> GatewayMac[zone], dst |-> item.frame.src,
              srcip |-> Gateway[zone], dstip |-> item.frame.srcip,
              kind |-> kind, sport |-> 0, dport |-> 0, ttl |-> DefaultTtl]]
  BY <1>1 DEF icmp_error
<1>3. /\ item.dpid \in Dpids /\ item.port \in Ports /\ item.frame \in IpFrames
      /\ item.frame \in Frames
  BY AcceptedFrame DEF Items
<1>4. GatewayMac[zone] \in Macs /\ Gateway[zone] \in Ips
  BY <1>1, PolicyAssumption
<1>5. m.frame \in IpFrames
  BY <1>2, <1>3, <1>4 DEF IpFrames, DefaultTtl
<1>6. m \in IcmpErrors
  BY <1>2, <1>3, <1>5 DEF IcmpErrors, Frames
<1>7. AnsweredBy(item, m) /\ m.to = item.dpid
  BY <1>2 DEF AnsweredBy
<1> QED  BY <1>6, <1>7, RouterAssumption

(* A forwarded packet has one hop less, or its sender gets an error        *)
(* (_forward_ip()).                                                        *)
LEMMA ForwardAnswers ==
  ASSUME NEW item, Accepted(item), NEW zone \in ZONES, NEW mac \in Macs, NEW port \in Ports
  PROVE  LET m == forward_ip(item, zone, port, mac) IN
         m # None /\ m.to \in {CORE_DPID, item.dpid} /\ AnsweredBy(item, m)
<1>1. CASE item.frame.ttl <= 1
  <2>1. forward_ip(item, zone, port, mac) = icmp_error(item, "time_exceeded")
    BY <1>1 DEF forward_ip
  <2> QED  BY <2>1, ErrorAnswers DEF Kinds, IcmpKinds
<1>2. CASE ~(item.frame.ttl <= 1)
  <2> DEFINE m == forward_ip(item, zone, port, mac)
             f == [item.frame EXCEPT !.src = GatewayMac[zone], !.dst = mac, !.ttl = @ - 1]
  <2>1. m = [op |-> "packet_out", to |-> CORE_DPID, frame |-> f, out |-> port]
    BY <1>2 DEF forward_ip, PacketOut
  <2>2. item.frame \in IpFrames /\ item.frame.ttl - 1 \in Nat /\ GatewayMac[zone] \in Macs
    <3>1. item.frame \in IpFrames
      BY AcceptedFrame
    <3>2. item.frame.ttl \in Nat
      BY <3>1 DEF IpFrames
    <3> QED  BY <1>2, <3>1, <3>2, PolicyAssumption
  <2>3. f \in IpFrames
    BY <2>2 DEF IpFrames
  <2>4. [f EXCEPT !.src = item.frame.src, !.dst = item.frame.dst]
          = [item.frame EXCEPT !.ttl = @ - 1]
    BY <2>2 DEF IpFrames
  <2> HIDE DEF f
  <2>5. m \in PacketOuts
    BY <2>1, <2>3, PortMapsAssumption DEF PacketOuts, Frames
  <2>6. m.to = CORE_DPID /\ AnsweredBy(item, m)
    BY <2>1, <2>4 DEF AnsweredBy
  <2> QED  BY <2>5, <2>6, RouterAssumption
<1> QED  BY <1>1, <1>2

-----------------------------------------------------------------------------
(* The steps. *)

(* Waiting packets a step does not touch keep waiting.                     *)
LEMMA Untouched ==
  ASSUME QueuedAreReachable, pending' = pending, connections \subseteq connections'
  PROVE  QueueStep /\ QueuedAreReachable'
<1>1. \A ip \in Ips : pending[ip] # None => Kept(ip)
  BY DEF Kept
<1> QED  BY <1>1 DEF QueueStep, QueuedAreReachable

(* A packet joins its queue at the end (_queue_and_resolve()).             *)
LEMMA QueueingKeeps ==
  ASSUME TypeOK, QueuedAreReachable, connections' = connections,
         NEW item \in Items, item.frame.type = "IP", item.dpid \in connections,
         NEW zone, queue_and_resolve(item, zone)
  PROVE  QueueStep /\ QueuedAreReachable'
<1> DEFINE dst_ip == item.frame.dstip
<1>1. dst_ip \in Ips
  BY DEF Items, Frames, IpFrames, ArpFrames, OtherFrames
<1> HIDE DEF dst_ip
<1>2. CASE pending[dst_ip] = None
  <2> DEFINE entry == [zone |-> zone, queue |-> <<item>>, retries |-> 1]
  <2>1. pending' = [pending EXCEPT ![dst_ip] = entry]
    BY <1>2 DEF queue_and_resolve, dst_ip
  <2>2. DOMAIN entry.queue = {1} /\ entry.queue[1] = item
    OBVIOUS
  <2> HIDE DEF entry
  <2>3. pending'[dst_ip] = entry /\ \A ip \in Ips \ {dst_ip} : pending'[ip] = pending[ip]
    BY <1>1, <2>1 DEF TypeOK
  <2>4. QueueStep
    BY <1>2, <2>3 DEF QueueStep, Kept
  <2>5. QueuedAreReachable'
    BY <2>2, <2>3 DEF QueuedAreReachable
  <2> QED  BY <2>4, <2>5
<1>3. CASE pending[dst_ip] # None
  <2> DEFINE queue == pending[dst_ip].queue
             entry == [pending[dst_ip] EXCEPT !.queue = Append(queue, item)]
  <2>1. pending' = [pending EXCEPT ![dst_ip] = entry]
    BY <1>3 DEF queue_and_resolve, dst_ip
  <2>2. pending[dst_ip] \in Resolutions /\ queue \in Seq(Items)
    BY <1>1, <1>3 DEF TypeOK, Resolutions
  <2>3. /\ Append(queue, item) \in Seq(Items)
        /\ DOMAIN queue = 1 .. Len(queue) /\ Len(queue) \in Nat
        /\ DOMAIN Append(queue, item) = 1 .. Len(queue) + 1
        /\ \A i \in 1 .. Len(queue) : Append(queue, item)[i] = queue[i]
        /\ Append(queue, item)[Len(queue) + 1] = item
    BY <2>2, AppendProperties, LenProperties
  <2>4. entry \in Resolutions /\ entry.queue = Append(queue, item)
    BY <2>2, <2>3 DEF Resolutions
  <2> HIDE DEF entry, queue
  <2>5. pending'[dst_ip] = entry /\ \A ip \in Ips \ {dst_ip} : pending'[ip] = pending[ip]
    BY <1>1, <2>1 DEF TypeOK
  <2>6. \A i \in DOMAIN queue : i \in DOMAIN entry.queue /\ entry.queue[i] = queue[i]
    BY <2>3, <2>4
  <2>7. \A i \in DOMAIN entry.queue :
          \/ i \in DOMAIN queue /\ entry.queue[i] = queue[i]
          \/ entry.queue[i] = item
    BY <2>3, <2>4
  <2>8. entry # None
    BY <2>4, RouterAssumption
  <2>9. QueueStep
    BY <2>5, <2>6, <2>8 DEF QueueStep, Kept, queue
  <2>10. QueuedAreReachable'
    BY <1>1, <1>3, <2>5, <2>7 DEF QueuedAreReachable, queue
  <2> QED  BY <2>9, <2>10
<1> QED  BY <1>2, <1>3

(* A resolution that ends, with the message for each packet that waited.   *)
LEMMA EndingAnswers ==
  ASSUME TypeOK, QueuesAreJustified, QueuedAreReachable, connections' = connections,
         NEW ip \in Ips, pending[ip] # None, pending' = [pending EXCEPT ![ip] = None],
         NEW msgs, Send(msgs), DOMAIN msgs = DOMAIN pending[ip].queue,
         \A i \in DOMAIN msgs :
           /\ msgs[i] # None
           /\ msgs[i].to \in {CORE_DPID, pending[ip].queue[i].dpid}
           /\ AnsweredBy(pending[ip].queue[i], msgs[i])
  PROVE  QueueStep /\ QueuedAreReachable'
<1>1. pending'[ip] = None /\ \A ip2 \in Ips \ {ip} : pending'[ip2] = pending[ip2]
  BY DEF TypeOK
<1>2. Answered(ip)
  <2>1. ASSUME CORE_DPID \in connections, NEW i \in DOMAIN pending[ip].queue
        PROVE  i \in DOMAIN sent' /\ AnsweredBy(pending[ip].queue[i], sent'[i])
    <3>1. msgs[i] # None /\ msgs[i].to \in connections
      BY <2>1 DEF QueuedAreReachable
    <3>2. i \in DOMAIN sent' /\ sent'[i] = msgs[i]
      BY <3>1, MessageSent
    <3> QED  BY <3>2
  <2> QED  BY <1>1, <2>1 DEF Answered
<1>3. QueueStep
  BY <1>1, <1>2 DEF QueueStep, Kept
<1>4. QueuedAreReachable'
  BY <1>1 DEF QueuedAreReachable
<1> QED  BY <1>3, <1>4

(* An answer to the probe sends every packet on (_resolve_pending()).      *)
LEMMA ResolvingAnswers ==
  ASSUME TypeOK, QueuesAreJustified, QueuedAreReachable, connections' = connections,
         NEW ip \in Ips, NEW mac \in Macs, ip_to_loc'[ip].port \in Ports,
         resolve_pending(ip, mac)
  PROVE  QueueStep /\ QueuedAreReachable'
<1>1. CASE pending[ip] = None
  BY <1>1, Untouched DEF resolve_pending
<1>2. CASE pending[ip] # None
  <2> DEFINE entry == pending[ip]
             msgs == [i \in DOMAIN entry.queue |->
                        forward_ip(entry.queue[i], entry.zone, ip_to_loc'[ip].port, mac)]
  <2>1. pending' = [pending EXCEPT ![ip] = None] /\ Send(msgs)
    BY <1>2 DEF resolve_pending
  <2>2. entry.zone \in ZONES /\ \A i \in DOMAIN entry.queue : Accepted(entry.queue[i])
    BY <1>2, QueuedAccepted DEF Resolutions
  <2>3. \A i \in DOMAIN msgs :
          /\ msgs[i] # None
          /\ msgs[i].to \in {CORE_DPID, pending[ip].queue[i].dpid}
          /\ AnsweredBy(pending[ip].queue[i], msgs[i])
    BY <2>2, ForwardAnswers
  <2>4. DOMAIN msgs = DOMAIN pending[ip].queue
    OBVIOUS
  <2> HIDE DEF msgs
  <2> QED  BY <1>2, <2>1, <2>3, <2>4, EndingAnswers
<1> QED  BY <1>1, <1>2

(* Giving up reports every packet to its sender (_retry_arp()).            *)
LEMMA GivingUpAnswers ==
  ASSUME TypeOK, QueuesAreJustified, QueuedAreReachable, NEW ip \in Ips, retry_arp(ip)
  PROVE  QueueStep /\ QueuedAreReachable'
<1> DEFINE entry == pending[ip]
<1>0. connections' = connections
  BY DEF retry_arp
<1>1. CASE entry = None
  BY <1>0, <1>1, Untouched DEF retry_arp
<1>2. CASE entry # None /\ entry.retries >= ARP_MAX_RETRIES
  <2> DEFINE msgs == [i \in DOMAIN entry.queue |-> icmp_error(entry.queue[i], "host_unreachable")]
  <2>1. ~(entry.retries < ARP_MAX_RETRIES)
    BY <1>2, RouterAssumption DEF TypeOK, Resolutions
  <2>2. pending' = [pending EXCEPT ![ip] = None] /\ Send(msgs)
    BY <1>2, <2>1 DEF retry_arp
  <2>3. \A i \in DOMAIN msgs :
          /\ msgs[i] # None
          /\ msgs[i].to \in {CORE_DPID, pending[ip].queue[i].dpid}
          /\ AnsweredBy(pending[ip].queue[i], msgs[i])
    BY <1>2, QueuedAccepted, ErrorAnswers DEF Kinds, IcmpKinds
  <2>4. DOMAIN msgs = DOMAIN pending[ip].queue
    OBVIOUS
  <2> HIDE DEF msgs
  <2> QED  BY <1>0, <1>2, <2>2, <2>3, <2>4, EndingAnswers
<1>3. CASE entry # None /\ ~(entry.retries >= ARP_MAX_RETRIES)
  <2> DEFINE next == [entry EXCEPT !.retries = @ + 1]
  <2>1. pending' = [pending EXCEPT ![ip] = next]
    BY <1>3 DEF retry_arp
  <2>2. next \in Resolutions /\ next.queue = entry.queue
    <3>1. entry \in Resolutions
      BY <1>3 DEF TypeOK
    <3>2. ARP_MAX_RETRIES \in Nat
      BY RouterAssumption
    <3> QED  BY <1>3, <3>1, <3>2 DEF Resolutions
  <2>3. next # None
    BY <2>2, RouterAssumption
  <2> HIDE DEF next
  <2>4. pending'[ip] = next /\ \A ip2 \in Ips \ {ip} : pending'[ip2] = pending[ip2]
    BY <2>1 DEF TypeOK
  <2>5. QueueStep
    BY <2>2, <2>3, <2>4 DEF QueueStep, Kept
  <2>6. QueuedAreReachable'
    BY <1>0, <1>3, <2>2, <2>4 DEF QueuedAreReachable
  <2> QED  BY <2>5, <2>6
<1> QED  BY <1>1, <1>2, <1>3

(* What a packet-in can do with waiting packets: nothing, queue one more,  *)
(* or, when it is an answer, end the resolution of its sender's address    *)
(* (_handle_PacketIn() and the handlers it calls).                         *)
LEMMA PacketInCases ==
  ASSUME NEW ev \in Items, PacketIn(ev)
  PROVE  \/ pending' = pending
         \/ ev.frame.type = "IP" /\ \E zone : queue_and_resolve(ev, zone)
         \/ /\ ev.frame.type = "ARP"
            /\ LET arp  == ev.frame
                   zone == zone_of_port(ev.dpid, ev.port)
               IN  /\ source_ip_valid_for_zone(arp.protosrc, zone)
                   /\ learn(ev.dpid, ev.port, arp.protosrc, arp.hwsrc, zone)
                   /\ resolve_pending(arp.protosrc, arp.hwsrc)
<1>1. CASE ev.frame.type \in {"INCOMPLETE", "LLDP"}
  BY <1>1 DEF PacketIn, Ignore
<1>2. CASE ev.frame.type \notin {"INCOMPLETE", "LLDP"} /\ is_leaf_uplink(ev.dpid, ev.port)
  BY <1>2 DEF PacketIn, handle_transit
<1>3. CASE ev.frame.type = "ARP" /\ ~is_leaf_uplink(ev.dpid, ev.port)
  <2>1. handle_arp(ev)
    BY <1>3 DEF PacketIn
  <2> QED  BY <1>3, <2>1 DEF handle_arp, Ignore
<1>4. CASE ev.frame.type = "IP" /\ ~is_leaf_uplink(ev.dpid, ev.port)
  <2>1. handle_ip(ev)
    BY <1>4 DEF PacketIn
  <2>2. \/ pending' = pending
        \/ handle_crossing(ev, zone_of_port(ev.dpid, ev.port), zone_for_ip(ev.frame.dstip))
    BY <2>1 DEF handle_ip, Ignore
  <2>3. ASSUME handle_crossing(ev, zone_of_port(ev.dpid, ev.port), zone_for_ip(ev.frame.dstip))
        PROVE  pending' = pending \/ queue_and_resolve(ev, zone_for_ip(ev.frame.dstip))
    <3>1. pending' = pending \/ route(ev, zone_for_ip(ev.frame.dstip))
      BY <2>3 DEF handle_crossing
    <3> QED  BY <3>1 DEF route
  <2> QED  BY <1>4, <2>2, <2>3
<1>5. CASE ev.frame.type = "OTHER" /\ ~is_leaf_uplink(ev.dpid, ev.port)
  BY <1>5 DEF PacketIn
<1> QED  BY <1>1, <1>2, <1>3, <1>4, <1>5 DEF PacketIn

LEMMA PacketInAnswers ==
  ASSUME AnswerInv, NEW ev \in Items, PacketIn(ev)
  PROVE  QueueStep /\ QueuedAreReachable'
<1>1. TypeOK /\ QueuesAreJustified /\ QueuedAreReachable /\ LocationsMatchZones
  BY DEF AnswerInv, SafetyInv, TablesInv
<1>2. connections' = connections /\ ev.dpid \in connections
  BY DEF PacketIn
<1>3. CASE pending' = pending
  BY <1>1, <1>2, <1>3, Untouched
<1>4. CASE ev.frame.type = "IP" /\ \E zone : queue_and_resolve(ev, zone)
  BY <1>1, <1>2, <1>4, QueueingKeeps
<1>5. CASE /\ ev.frame.type = "ARP"
           /\ LET arp  == ev.frame
                  zone == zone_of_port(ev.dpid, ev.port)
              IN  /\ source_ip_valid_for_zone(arp.protosrc, zone)
                  /\ learn(ev.dpid, ev.port, arp.protosrc, arp.hwsrc, zone)
                  /\ resolve_pending(arp.protosrc, arp.hwsrc)
  <2> DEFINE arp == ev.frame
  <2>1. /\ arp.protosrc \in Ips /\ arp.hwsrc \in Macs
        /\ ev.dpid \in Dpids /\ ev.port \in Ports
    BY <1>5 DEF Items, Frames, IpFrames, ArpFrames, OtherFrames
  <2>2. ip_to_loc'[arp.protosrc].port \in ZONE_CORE_PORTS(zone_for_ip(arp.protosrc))
    BY <1>1, <1>5, <2>1, LearnKeepsTables
  <2>3. ip_to_loc'[arp.protosrc].port \in Ports
    BY <2>2, PortMapsAssumption DEF ZONE_CORE_PORTS
  <2>4. resolve_pending(arp.protosrc, arp.hwsrc)
    BY <1>5
  <2> HIDE DEF arp
  <2> QED  BY <1>1, <1>2, <2>1, <2>3, <2>4, ResolvingAnswers
<1> QED  BY <1>3, <1>4, <1>5, PacketInCases

(* No queued packet is lost or overtaken: it keeps its place until the     *)
(* resolution ends, and then it is sent on or reported to its sender in    *)
(* that very step, whatever arrives in between and whichever switches      *)
(* connect when (_queue_and_resolve(), _resolve_pending(), _retry_arp()).  *)
THEOREM AnswersHold == Spec => QueuedPacketsAreAnswered
<1>1. Init => QueuedAreReachable
  BY DEF Init, QueuedAreReachable
<1>2. AnswerInv /\ [Next]_vars => QueueStep /\ QueuedAreReachable'
  <2> SUFFICES ASSUME AnswerInv, [Next]_vars PROVE QueueStep /\ QueuedAreReachable'
    OBVIOUS
  <2>1. ASSUME NEW ev \in PacketIns, PacketIn(ev) PROVE QueueStep /\ QueuedAreReachable'
    BY <2>1, PacketInAnswers, RouterAssumption
  <2>2. ASSUME NEW ip \in Ips, retry_arp(ip) PROVE QueueStep /\ QueuedAreReachable'
    BY <2>2, GivingUpAnswers DEF AnswerInv, SafetyInv, TablesInv
  <2>3. ASSUME NEW dpid \in Dpids, ConnectionUp(dpid) PROVE QueueStep /\ QueuedAreReachable'
    BY <2>3, Untouched DEF ConnectionUp, AnswerInv
  <2>4. CASE Expire \/ Elapse \/ UNCHANGED vars
    BY <2>4, Untouched DEF Expire, Elapse, vars, AnswerInv
  <2> QED  BY <2>1, <2>2, <2>3, <2>4 DEF Next
<1>3. QueueStep =>
        \A ip \in Ips : pending[ip] # None =>
          IF pending'[ip] = None
            THEN CORE_DPID \in connections =>
                   \A i \in DOMAIN pending[ip].queue :
                     i \in DOMAIN sent' /\ AnsweredBy(pending[ip].queue[i], sent'[i])
            ELSE \A i \in DOMAIN pending[ip].queue :
                   /\ i \in DOMAIN pending'[ip].queue
                   /\ pending'[ip].queue[i] = pending[ip].queue[i]
  BY DEF QueueStep, Kept, Answered
<1> QED  BY <1>1, <1>2, <1>3, Safety, PTL DEF Spec, AnswerInv, QueuedPacketsAreAnswered
=============================================================================
