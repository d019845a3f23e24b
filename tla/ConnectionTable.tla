--------------------------- MODULE ConnectionTable ---------------------------
(***************************************************************************)
(* conntrack.ConnectionTable as operators on its dictionary. A table maps  *)
(* the opening Flow of each remembered connection to its age: the time     *)
(* since a packet of it last reached the controller (clock() - timestamp). *)
(* Ages stop counting at IDLE_TIMEOUT, where the code no longer tells      *)
(* them apart.                                                             *)
(*                                                                         *)
(* A packet's kind is what its parsed transport header tells tracking. A   *)
(* TCP, UDP or ICMP packet whose header POX could not parse (a later       *)
(* fragment has none) is of one of PartKinds. For echo the ports both      *)
(* carry the echo identifier.                                              *)
(***************************************************************************)
EXTENDS Naturals, Functions

CONSTANT IDLE_TIMEOUT

ASSUME IdleTimeoutAssumption == IDLE_TIMEOUT \in Nat \ {0}

EchoKinds == {"echo_request", "echo_reply"}

PartKinds == {"icmp_part", "tcp_part", "udp_part"}

IcmpKinds == EchoKinds \cup {"time_exceeded", "host_unreachable", "icmp_part"}

Kinds == IcmpKinds \cup PartKinds \cup {"tcp", "udp", "other"}

ProtoOf(kind) ==
  CASE kind \in IcmpKinds           -> "icmp"
    [] kind \in {"tcp", "tcp_part"} -> "tcp"
    [] kind \in {"udp", "udp_part"} -> "udp"
    [] OTHER                        -> "other"

reversed(flow) ==
  [src |-> flow.dst, dst |-> flow.src, proto |-> flow.proto,
   sport |-> flow.dport, dport |-> flow.sport]

(* Fault: echo requests are taken for replies too.                         *)
tracked_packet_any_echo(src, dst, kind, sport, dport) ==
  [flow      |-> [src |-> src, dst |-> dst, proto |-> ProtoOf(kind),
                  sport |-> sport, dport |-> dport],
   may_open  |-> kind \in {"tcp", "udp", "echo_request"},
   may_reply |-> kind \in {"tcp", "udp"} \cup EchoKinds]

(* A kind that is not tracked may neither open a connection nor answer     *)
(* one, which is how check() treats a None packet.                         *)
tracked_packet(src, dst, kind, sport, dport) ==
  [flow      |-> [src |-> src, dst |-> dst, proto |-> ProtoOf(kind),
                  sport |-> sport, dport |-> dport],
   may_open  |-> kind \in {"tcp", "udp", "echo_request"},
   may_reply |-> kind \in {"tcp", "udp", "echo_reply"}]

alive(table, flow) == flow \in DOMAIN table /\ table[flow] < IDLE_TIMEOUT

(* track() and the refresh in is_reply(): the flow's age restarts.         *)
track(table, flow) ==
  [f \in DOMAIN table \cup {flow} |-> IF f = flow THEN 0 ELSE table[f]]

(* Fault: lookups leave expiry to the sweep.                               *)
is_reply_until_swept(table, flow) == reversed(flow) \in DOMAIN table

(* Fault: the flow is looked up the way the reply goes.                    *)
is_reply_unreversed(table, flow) == alive(table, flow)

is_reply(table, flow) == alive(table, reversed(flow))

(* Fault: the sweep keeps the wrong ones.                                  *)
expire_live(table) == Restrict(table, {f \in DOMAIN table : ~alive(table, f)})

expire(table) == Restrict(table, {f \in DOMAIN table : alive(table, f)})

(* One unit of time passes for every remembered connection.                *)
elapse(table) ==
  [f \in DOMAIN table |-> IF table[f] < IDLE_TIMEOUT THEN table[f] + 1 ELSE table[f]]

check_verdict(table, policy_allowed, packet) ==
  CASE policy_allowed                                       -> "new"
    [] /\ ~policy_allowed
       /\ packet.may_reply /\ is_reply(table, packet.flow)  -> "reply"
    [] OTHER                                                -> "drop"

(* Fault: connections are recorded before the policy is looked at.         *)
check_table_before_policy(table, policy_allowed, packet) ==
  CASE packet.may_open                                      -> track(table, packet.flow)
    [] check_verdict(table, policy_allowed, packet) = "reply"
                                                            -> track(table, reversed(packet.flow))
    [] OTHER                                                -> table

(* Fault: replies do not refresh the connection they answer.               *)
check_table_no_refresh(table, policy_allowed, packet) ==
  IF policy_allowed /\ packet.may_open THEN track(table, packet.flow) ELSE table

check_table(table, policy_allowed, packet) ==
  CASE policy_allowed /\ packet.may_open                    -> track(table, packet.flow)
    [] check_verdict(table, policy_allowed, packet) = "reply"
                                                            -> track(table, reversed(packet.flow))
    [] OTHER                                                -> table
=============================================================================
