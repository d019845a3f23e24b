----------------------------- MODULE MCConntrack -----------------------------
(***************************************************************************)
(* Two hosts, one TCP connection seen in both directions, one ping each    *)
(* way under one identifier, and what is not tracked: an ICMP error and a  *)
(* part of a TCP packet.                                                   *)
(***************************************************************************)
EXTENDS Conntrack

CONSTANTS inside, outside

Packet(src, dst, kind, sport, dport) == tracked_packet(src, dst, kind, sport, dport)

MCPackets ==
  { Packet(inside, outside, "tcp", 1, 2),
    Packet(outside, inside, "tcp", 2, 1),
    Packet(inside, outside, "echo_request", 7, 7),
    Packet(outside, inside, "echo_reply", 7, 7),
    Packet(outside, inside, "echo_request", 7, 7),
    Packet(outside, inside, "time_exceeded", 7, 7),
    Packet(inside, outside, "tcp_part", 1, 2) }

MCFlows == LET seen == {p.flow : p \in MCPackets}
           IN  seen \cup {reversed(f) : f \in seen}
=============================================================================
