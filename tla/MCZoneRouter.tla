---------------------------- MODULE MCZoneRouter ----------------------------
(***************************************************************************)
(* Three zones of the deployed layout on four switches: Dept B behind the  *)
(* leaves s3 and s4, the data center behind the leaf s5, Trust on the core *)
(* s6. The policy is theirs: Trust may not ping Dept B (rule 4), and Trust *)
(* and the data center may not start anything towards each other (rules 3  *)
(* and 7). Port numbers are those of network.json.                         *)
(***************************************************************************)
EXTENDS ZoneRouter, TLC

CONSTANTS DeptB, DataCenter, Trust,
          h201, h203, h_server, h_trust, nowhere, gw_b, gw_dc, gw_t,
          m201, m203, m_server, m_trust, mg_b, mg_dc, mg_t, bcast, group,
          s3, s4, s5, s6

MCZones == {DeptB, DataCenter, Trust}
MCIps == {h201, h203, h_server, h_trust, nowhere, gw_b, gw_dc, gw_t}
MCMacs == {m201, m203, m_server, m_trust, mg_b, mg_dc, mg_t, bcast, group}
MCMulticast == {bcast, group}
MCSubnet == DeptB :> {h201, h203, gw_b} @@ DataCenter :> {h_server, gw_dc}
              @@ Trust :> {h_trust, gw_t}
MCGateway == DeptB :> gw_b @@ DataCenter :> gw_dc @@ Trust :> gw_t
MCGatewayMac == DeptB :> mg_b @@ DataCenter :> mg_dc @@ Trust :> mg_t
MCBlockAll == {<<Trust, DataCenter>>, <<DataCenter, Trust>>}
MCBlockIcmp == {<<Trust, DeptB>>}

MCPorts == 1 .. 6
MCSwitchZone == s3 :> DeptB @@ s4 :> DeptB @@ s5 :> DataCenter
MCLeafUplink == s3 :> 3 @@ s4 :> 3 @@ s5 :> 2
MCLeafCorePort == s3 :> 3 @@ s4 :> 4 @@ s5 :> 5
MCCorePortZones == 3 :> DeptB @@ 4 :> DeptB @@ 5 :> DataCenter @@ 6 :> Trust

Event(dpid, port, frame) == [dpid |-> dpid, port |-> port, frame |-> frame]

Ip(src, dst, srcip, dstip, kind, sport, dport, ttl) ==
  [type |-> "IP", src |-> src, dst |-> dst, srcip |-> srcip, dstip |-> dstip,
   kind |-> kind, sport |-> sport, dport |-> dport, ttl |-> ttl]

Arp(src, dst, opcode, protosrc, protodst) ==
  [type |-> "ARP", src |-> src, dst |-> dst, opcode |-> opcode, hwsrc |-> src,
   protosrc |-> protosrc, protodst |-> protodst]

AskGateway201 == Event(s3, 1, Arp(m201, bcast, "REQUEST", h201, gw_b))
AskGatewayTrust == Event(s6, 6, Arp(m_trust, bcast, "REQUEST", h_trust, gw_t))

Ping(ttl) == Ip(m201, mg_b, h201, h_trust, "echo_request", 7, 7, ttl)
Pong == Ip(m_trust, mg_t, h_trust, h201, "echo_reply", 7, 7, 64)
BlockedPing == Ip(m_trust, mg_t, h_trust, h201, "echo_request", 7, 7, 64)

(* A later fragment of one of these.                                       *)
PartOf(frame) == [frame EXCEPT !.kind = "icmp_part", !.sport = 0, !.dport = 0]

(* Dept B pings Trust and Trust connects to Dept B while none of the hosts *)
(* has been located; one of the pings has no hop left.                     *)
ResolveEvents ==
  { AskGateway201, AskGatewayTrust,
    Event(s6, 6, Arp(m_trust, mg_t, "REPLY", h_trust, gw_t)),
    Event(s4, 1, Arp(m203, mg_b, "REPLY", h203, gw_b)),
    Event(s3, 1, Ping(64)), Event(s3, 1, Ping(1)),
    Event(s6, 6, Ip(m_trust, mg_t, h_trust, h203, "tcp", 1, 2, 64)) }

ResolveDpids == {s3, s4, s6}

(* Replies and blocked traffic in every direction, at a leaf and at the    *)
(* core, parts of pings and of their replies, a packet whose source does   *)
(* not belong to its port, and what the handlers drop.                     *)
FirewallEvents ==
  { AskGateway201, AskGatewayTrust,
    Event(s3, 1, Ping(64)), Event(s6, 3, PartOf(Ping(64))),
    Event(s6, 6, Pong), Event(s6, 6, PartOf(Pong)), Event(s6, 6, BlockedPing),
    Event(s6, 6, Ip(m_trust, mg_t, h_trust, h_server, "tcp", 1, 2, 64)),
    Event(s5, 1, Ip(m_server, mg_dc, h_server, h_trust, "tcp", 2, 1, 64)),
    Event(s3, 1, Ip(m201, mg_b, h201, h_server, "tcp", 1, 2, 64)),
    Event(s5, 1, Ip(m_server, mg_dc, h_server, h201, "tcp", 2, 1, 64)),
    Event(s6, 6, Ip(m_trust, mg_t, h201, h_server, "tcp", 1, 2, 64)),
    Event(s3, 1, Ip(m201, mg_b, h201, gw_t, "echo_request", 7, 7, 64)),
    Event(s3, 1, Ip(m201, mg_b, h201, nowhere, "tcp", 1, 2, 64)) }

FirewallDpids == {s3, s5, s6}

(* Two Dept B hosts on different leaves talk to each other across the      *)
(* core, next to a routed reply that comes down an uplink and a frame to a *)
(* group: every frame is shown to the controller by each switch it passes. *)
Intra == Ip(m201, m203, h201, h203, "tcp", 1, 2, 64)
WhoHas203 == Arp(m201, bcast, "REQUEST", h201, h203)
Here203 == Arp(m203, m201, "REPLY", h203, h201)

SameZoneEvents ==
  { Event(s3, 1, WhoHas203), Event(s6, 3, WhoHas203), Event(s4, 3, WhoHas203),
    Event(s4, 1, Here203), Event(s6, 4, Here203), Event(s3, 3, Here203),
    Event(s3, 1, Intra), Event(s6, 3, Intra), Event(s4, 3, Intra),
    AskGateway201, AskGatewayTrust,
    Event(s6, 6, Arp(m_trust, bcast, "REQUEST", h_trust, gw_b)),
    Event(s6, 6, Pong),
    Event(s3, 3, [Pong EXCEPT !.src = mg_b, !.dst = m201, !.ttl = 63]),
    Event(s4, 3, Arp(mg_b, bcast, "REQUEST", gw_b, h203)),
    Event(s6, 3, [type |-> "LLDP", src |-> m201, dst |-> bcast]),
    Event(s6, 3, [type |-> "OTHER", src |-> m201, dst |-> group]),
    Event(s4, 3, [type |-> "OTHER", src |-> m201, dst |-> group]) }

SameZoneDpids == {s3, s4, s6}

(* The core port each of these hosts is wired behind (network.json), which *)
(* is where its frames enter.                                              *)
Home == h201 :> 3 @@ h203 :> 4 @@ h_trust :> 6

ASSUME HomesChecked ==
  PacketIns = SameZoneEvents => \A ip \in DOMAIN Home : EntryPorts(ip) = {Home[ip]}
=============================================================================
