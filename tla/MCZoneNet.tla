------------------------------ MODULE MCZoneNet ------------------------------
(***************************************************************************)
(* One host of Dept B behind the leaf s3 and the Trust host on the core    *)
(* s6: rule 4 lets the first ping the second and not the other way round.  *)
(***************************************************************************)
EXTENDS ZoneNet, TLC

CONSTANTS DeptB, Trust, h201, h_trust, gw_b, gw_t,
          m201, m_trust, mg_b, mg_t, bcast, s3, s6

MCZones == {DeptB, Trust}
MCIps == {h201, h_trust, gw_b, gw_t}
MCMacs == {m201, m_trust, mg_b, mg_t, bcast}
MCMulticast == {bcast}
MCSubnet == DeptB :> {h201, gw_b} @@ Trust :> {h_trust, gw_t}
MCGateway == DeptB :> gw_b @@ Trust :> gw_t
MCGatewayMac == DeptB :> mg_b @@ Trust :> mg_t
MCBlockIcmp == {<<Trust, DeptB>>}

MCDpids == {s3, s6}
MCPorts == {1, 3, 6}
MCSwitchZone == s3 :> DeptB
MCLeafUplink == s3 :> 3
MCLeafCorePort == s3 :> 3
MCCorePortZones == 3 :> DeptB @@ 6 :> Trust

MCHosts == <<s3, 1>> :> [ip |-> h201, mac |-> m201]
             @@ <<s6, 6>> :> [ip |-> h_trust, mac |-> m_trust]

FromDeptB(kind, sport, dport) ==
  [dpid |-> s3, port |-> 1, frame |->
    [type |-> "IP", src |-> m201, dst |-> mg_b, srcip |-> h201, dstip |-> h_trust,
     kind |-> kind, sport |-> sport, dport |-> dport, ttl |-> 64]]

FromTrust(kind, sport, dport) ==
  [dpid |-> s6, port |-> 6, frame |->
    [type |-> "IP", src |-> m_trust, dst |-> mg_t, srcip |-> h_trust, dstip |-> h201,
     kind |-> kind, sport |-> sport, dport |-> dport, ttl |-> 64]]

(* A host asks for its gateway, as it does before its first packet to      *)
(* another zone.                                                           *)
TrustAsks ==
  [dpid |-> s6, port |-> 6, frame |->
    [type |-> "ARP", src |-> m_trust, dst |-> bcast, opcode |-> "REQUEST",
     hwsrc |-> m_trust, protosrc |-> h_trust, protodst |-> gw_t]]

(* A ping that is allowed, and the same ping the other way, which is not.  *)
OnePing == {FromDeptB("echo_request", 7, 7), FromTrust("echo_request", 7, 7), TrustAsks}

(* The same ping both ways, and a later fragment of the blocked one, which *)
(* leads to a rule for all ICMP between the two. No ARP request: the Trust *)
(* host is found by probing.                                               *)
PingInParts ==
  {FromDeptB("echo_request", 7, 7), FromTrust("echo_request", 7, 7),
   FromTrust("icmp_part", 0, 0)}

(* Two pings from the same host to the same host, as two terminals run.    *)
TwoPings == {FromDeptB("echo_request", 7, 7), FromDeptB("echo_request", 8, 8)}

(* What the theorem on router hops asks of the hosts.                      *)
ASSUME HonestyChecked == HonestHosts

(* What the theorem on recorded connections asks of them, and what the     *)
(* fragment does not give.                                                 *)
ASSUME PartsChecked == WholeHeaders <=> HostFrames # PingInParts

(* What the theorem on replies to pings asks of them besides, and what two *)
(* pings at once do not give.                                              *)
ASSUME PingsChecked == OnePingEach <=> HostFrames # TwoPings
=============================================================================
