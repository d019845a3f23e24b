------------------------------- MODULE ZoneNet -------------------------------
(***************************************************************************)
(* The whole network: the controller of ZoneRouter, the switches with the  *)
(* rules it gives them, the links, and the hosts. A switch sends what      *)
(* matches none of its rules to the controller and obeys the controller's  *)
(* messages in the order they were sent to it; what was sent to two        *)
(* switches may take effect in either order. Hosts send what they like     *)
(* (HostFrames) and answer pings and ARP requests.                         *)
(*                                                                         *)
(* With Faults, the channel between a switch and the controller may break  *)
(* and the controller may be restarted, at any time: the switches go on    *)
(* with the rules they have until they connect again.                      *)
(*                                                                         *)
(* Time advances by TICK seconds when nothing is on its way: a frame, an   *)
(* OpenFlow message or an address resolution takes far less.               *)
(***************************************************************************)
EXTENDS ZoneRouter

CONSTANTS
  Hosts,        \* <<dpid, port>> -> [ip, mac] of the host plugged in there
  HostFrames,   \* [dpid, port, frame]: what hosts may send unasked
  Faults,       \* whether channels break and the controller is restarted
  TICK,         \* seconds by which time advances
  MaxFlight     \* bound: a host sends while less than this is on its way

ASSUME NetAssumption ==
  /\ Faults \in BOOLEAN
  /\ TICK \in Nat \ {0}
  /\ MaxFlight \in Nat \ {0}
  /\ Hosts \in [DOMAIN Hosts -> [ip : Ips, mac : Macs]]
  /\ HostFrames \subseteq Items
  /\ \A item \in HostFrames :
       /\ <<item.dpid, item.port>> \in DOMAIN Hosts
       /\ item.frame.type = "IP" => item.frame.ttl \in {1, DefaultTtl}
       /\ item.frame.type = "IP" /\ item.frame.kind \in EchoKinds =>
            item.frame.sport = item.frame.dport
  /\ \A at \in DOMAIN Hosts : ~is_leaf_uplink(at[1], at[2])
  /\ \A leaf \in Leaves : <<CORE_DPID, LEAF_CORE_PORT[leaf]>> \notin DOMAIN Hosts

(* A connection is forgotten after 120 seconds (conntrack.py's             *)
(* IDLE_TIMEOUT), and time advances by no more than a minute at once.      *)
ASSUME TimeAssumption ==
  /\ IDLE_TIMEOUT * TICK = 120
  /\ TICK <= 60

(* Hosts that send under their own addresses, and whose MACs differ if     *)
(* they have different addresses. Nothing in the code asks this of hosts:  *)
(* what depends on it says so.                                             *)
HonestHosts ==
  /\ \A at, at2 \in DOMAIN Hosts :
       Hosts[at].mac = Hosts[at2].mac => Hosts[at].ip = Hosts[at2].ip
  /\ \A item \in HostFrames :
       LET host == Hosts[<<item.dpid, item.port>>]
           f    == item.frame
       IN  /\ f.type = "IP" => f.srcip = host.ip /\ f.src = host.mac
           /\ f.type = "ARP" => f.protosrc = host.ip /\ f.hwsrc = host.mac

(* One ping at a time between any two addresses. Nothing in the code asks  *)
(* this of hosts either.                                                   *)
OnePingEach ==
  \A a, b \in {item.frame : item \in HostFrames} :
    /\ a.type = "IP" /\ a.kind = "echo_request" /\ b.type = "IP" /\ b.kind = "echo_request"
    /\ a.srcip = b.srcip /\ a.dstip = b.dstip
    => a.sport = b.sport

(* No host sends parts of packets. Nothing in the code asks for that, nor  *)
(* do networks: a ping larger than a link's packets is sent in parts.      *)
WholeHeaders ==
  \A item \in HostFrames : item.frame.type = "IP" => item.frame.kind \notin PartKinds

VARIABLES
  wire,            \* dpid -> port -> frames about to enter there
  tables,          \* dpid -> its flow rules
  online,          \* dpids with a channel to the controller
  to_controller,   \* dpid -> packet-ins on their way
  to_switch,       \* dpid -> OpenFlow messages on their way
  delivered        \* what the last step handed to hosts

router_vars == <<connections, mac_table, ip_to_loc, pending, timers, last_seen>>
net_vars == <<wire, tables, online, to_controller, to_switch, delivered>>
all_vars == <<router_vars, sent, net_vars>>

NetInit ==
  /\ Init
  /\ wire = [dpid \in Dpids |-> [port \in Ports |-> <<>>]]
  /\ tables = [dpid \in Dpids |-> {}]
  /\ online = {}
  /\ to_controller = [dpid \in Dpids |-> <<>>]
  /\ to_switch = [dpid \in Dpids |-> <<>>]
  /\ delivered = {}

(* The controller does nothing in a switch's or a host's step.             *)
RouterWaits == sent' = <<>> /\ UNCHANGED router_vars

Total(lengths) == FoldFunction(+, 0, lengths)

(* Frames and messages on their way.                                       *)
InFlight ==
  Total([dpid \in Dpids |-> Len(to_controller[dpid]) + Len(to_switch[dpid])
                            + Total([port \in Ports |-> Len(wire[dpid][port])])])

(* Nothing is on its way.                                                  *)
Quiet ==
  \A dpid \in Dpids :
    /\ to_controller[dpid] = <<>> /\ to_switch[dpid] = <<>>
    /\ \A port \in Ports : wire[dpid][port] = <<>>
-----------------------------------------------------------------------------
(* Links and hosts. *)

Linked(dpid, port, dpid2, port2) ==
  \E leaf \in Leaves :
    {<<dpid, port>>, <<dpid2, port2>>} =
      {<<leaf, LEAF_UPLINK_PORT[leaf]>>, <<CORE_DPID, LEAF_CORE_PORT[leaf]>>}

(* What the host there says to a frame it receives: nothing, or one frame. *)
Answers(at, frame) ==
  IF at \notin DOMAIN Hosts \/ frame.dst \notin {Hosts[at].mac, Broadcast} THEN {}
  ELSE IF frame.type = "ARP" /\ frame.opcode = "REQUEST" /\ frame.protodst = Hosts[at].ip
    THEN {[frame EXCEPT !.src = Hosts[at].mac, !.dst = frame.hwsrc, !.opcode = "REPLY",
                        !.hwsrc = Hosts[at].mac, !.protosrc = frame.protodst,
                        !.protodst = frame.protosrc]}
  ELSE IF frame.type = "IP" /\ frame.kind = "echo_request" /\ frame.dstip = Hosts[at].ip
    THEN {[frame EXCEPT !.src = Hosts[at].mac, !.dst = frame.src, !.srcip = frame.dstip,
                        !.dstip = frame.srcip, !.kind = "echo_reply", !.ttl = DefaultTtl]}
  ELSE {}

(* The links after a switch emits a frame on some of its ports.            *)
Emitted(w, dpid, ports, frame) ==
  [d \in Dpids |-> [p \in Ports |->
     LET new == {f \in {frame} : \E q \in ports : Linked(dpid, q, d, p)}
                  \cup (IF d = dpid /\ p \in ports THEN Answers(<<d, p>>, frame) ELSE {})
     IN  IF new = {} THEN w[d][p] ELSE Append(w[d][p], CHOOSE f \in new : TRUE)]]

Handed(dpid, ports, frame) ==
  {[dpid |-> dpid, port |-> port, frame |-> frame] :
     port \in {p \in ports : <<dpid, p>> \in DOMAIN Hosts}}

HostSends(item) ==
  /\ InFlight < MaxFlight
  /\ wire' = [wire EXCEPT ![item.dpid][item.port] = Append(@, item.frame)]
  /\ delivered' = {}
  /\ RouterWaits
  /\ UNCHANGED <<tables, online, to_controller, to_switch>>
-----------------------------------------------------------------------------
(* Switches. *)

(* A packet on its last hop goes no further by a rule that counts hops.    *)
HopLeft(frame, actions) == "dec_ttl" \in DOMAIN actions => frame.ttl > 1

(* What a rule makes of a frame.                                           *)
Rewritten(frame, actions) ==
  IF "dec_ttl" \in DOMAIN actions
    THEN [frame EXCEPT !.src = actions.set_src, !.dst = actions.set_dst, !.ttl = @ - 1]
    ELSE frame

(* A frame on a port: the rule for exactly such a packet applies, or else  *)
(* the one that leaves its ports or type open, and is no longer idle; a    *)
(* frame without one goes to the controller, if there is a channel to it.  *)
SwitchForwards(dpid, port) ==
  /\ wire[dpid][port] # <<>>
  /\ LET frame == Head(wire[dpid][port])
         rest  == [wire EXCEPT ![dpid][port] = Tail(@)]
         exact == {r \in tables[dpid] : r.match = from_packet(frame, port)}
         wide  == {r \in tables[dpid] : r.match = from_packet(Headless(frame), port)}
         hits  == IF exact # {} THEN exact ELSE wide
     IN  \/ /\ hits = {}
            /\ wire' = rest
            /\ to_controller' =
                 IF dpid \notin online THEN to_controller
                 ELSE [to_controller EXCEPT ![dpid] =
                         Append(@, [dpid |-> dpid, port |-> port, frame |-> frame])]
            /\ delivered' = {}
            /\ UNCHANGED tables
         \/ \E r \in hits :
              LET out == IF HopLeft(frame, r.actions) THEN {r.actions.out} \ {None, port} ELSE {}
                  f   == Rewritten(frame, r.actions)
              IN  /\ tables' = [tables EXCEPT ![dpid] =
                                  (@ \ {r}) \cup {[r EXCEPT !.idle_age = 0]}]
                  /\ wire' = Emitted(rest, dpid, out, f)
                  /\ delivered' = Handed(dpid, out, f)
                  /\ UNCHANGED to_controller
  /\ RouterWaits
  /\ UNCHANGED <<online, to_switch>>

(* A message of the controller: a rule replaces the one for the same       *)
(* packets, a packet is emitted.                                           *)
SwitchObeys(dpid) ==
  /\ to_switch[dpid] # <<>>
  /\ LET m == Head(to_switch[dpid])
     IN  \/ /\ m.op = "flow_mod"
            /\ tables' = [tables EXCEPT ![dpid] =
                 {r \in @ : r.match # m.match}
                   \cup {[match |-> m.match, actions |-> m.actions, idle |-> m.idle,
                          hard |-> m.hard, idle_age |-> 0, age |-> 0]}]
            /\ delivered' = {}
            /\ UNCHANGED wire
         \/ /\ m.op = "packet_out"
            /\ LET ports == IF "in_port" \in DOMAIN m THEN Ports \ {m.in_port} ELSE {m.out}
               IN  /\ wire' = Emitted(wire, dpid, ports, m.frame)
                   /\ delivered' = Handed(dpid, ports, m.frame)
            /\ UNCHANGED tables
  /\ to_switch' = [to_switch EXCEPT ![dpid] = Tail(@)]
  /\ RouterWaits
  /\ UNCHANGED <<online, to_controller>>

Overdue(r) == r.age * TICK >= r.hard \/ r.idle_age * TICK >= r.idle

RuleExpires(dpid, r) ==
  /\ Overdue(r)
  /\ tables' = [tables EXCEPT ![dpid] = @ \ {r}]
  /\ delivered' = {}
  /\ RouterWaits
  /\ UNCHANGED <<wire, online, to_controller, to_switch>>
-----------------------------------------------------------------------------
(* The controller's steps, whose messages join the switches' channels.     *)

(* The messages of this step for one switch, in the order they were sent.  *)
InOrder(dpid) ==
  LET mine == {i \in DOMAIN sent' : sent'[i].to = dpid}
  IN  {[n \in 1 .. Cardinality(mine) |-> sent'[at[n]]] :
         at \in {a \in [1 .. Cardinality(mine) -> mine] :
                   \A i, j \in 1 .. Cardinality(mine) : i < j => a[i] < a[j]}}

(* What is sent on a channel that broke is lost; a switch that has         *)
(* disconnected stays in `connections'.                                    *)
Transmits ==
  /\ \E msgs \in [online -> UNION {InOrder(dpid) : dpid \in online}] :
       /\ \A dpid \in online : msgs[dpid] \in InOrder(dpid)
       /\ to_switch' = [dpid \in Dpids |->
            IF dpid \in online THEN to_switch[dpid] \o msgs[dpid] ELSE <<>>]
  /\ delivered' = {}
  /\ UNCHANGED wire

ControllerReceives(dpid) ==
  /\ to_controller[dpid] # <<>>
  /\ PacketIn(Head(to_controller[dpid]))
  /\ to_controller' = [to_controller EXCEPT ![dpid] = Tail(@)]
  /\ Transmits
  /\ UNCHANGED <<tables, online>>

ControllerRetries(ip) ==
  retry_arp(ip) /\ Transmits /\ UNCHANGED <<tables, online, to_controller>>

ControllerSweeps == Expire /\ Transmits /\ UNCHANGED <<tables, online, to_controller>>

(* Fault: the rules of the time before stay.                               *)
rules_kept(dpid) == tables

(* POX clears the rules of a switch that connects.                         *)
rules_cleared(dpid) == [tables EXCEPT ![dpid] = {}]

SwitchConnects(dpid) ==
  /\ dpid \notin online
  /\ online' = online \cup {dpid}
  /\ ConnectionUp(dpid)
  /\ tables' = rules_cleared(dpid)
  /\ Transmits
  /\ UNCHANGED to_controller

(* What is on its way either way is lost. The controller has no handler.   *)
ChannelBreaks(dpid) ==
  /\ Faults
  /\ dpid \in online
  /\ online' = online \ {dpid}
  /\ to_controller' = [to_controller EXCEPT ![dpid] = <<>>]
  /\ to_switch' = [to_switch EXCEPT ![dpid] = <<>>]
  /\ delivered' = {}
  /\ RouterWaits
  /\ UNCHANGED <<wire, tables>>

(* The controller begins anew, with nothing it remembered.                 *)
ControllerRestarts ==
  /\ Faults
  /\ connections' = {}
  /\ mac_table' = [dpid \in Dpids |-> [mac \in Macs |-> None]]
  /\ ip_to_loc' = [ip \in Ips |-> None]
  /\ pending' = [ip \in Ips |-> None]
  /\ timers' = [ip \in Ips |-> 0]
  /\ last_seen' = [f \in {} |-> 0]
  /\ sent' = <<>>
  /\ online' = {}
  /\ to_controller' = [dpid \in Dpids |-> <<>>]
  /\ to_switch' = [dpid \in Dpids |-> <<>>]
  /\ delivered' = {}
  /\ UNCHANGED <<wire, tables>>

Aged(r) == [r EXCEPT !.age = @ + 1, !.idle_age = @ + 1]

TimePasses ==
  /\ Quiet
  /\ \A dpid \in Dpids : \A r \in tables[dpid] : ~Overdue(r)
  /\ \A ip \in Ips : pending[ip] = None
  /\ Elapse
  /\ tables' = [dpid \in Dpids |-> {Aged(r) : r \in tables[dpid]}]
  /\ delivered' = {}
  /\ UNCHANGED <<wire, online, to_controller, to_switch>>

NetNext ==
  \/ \E item \in HostFrames : HostSends(item)
  \/ \E dpid \in Dpids, port \in Ports : SwitchForwards(dpid, port)
  \/ \E dpid \in Dpids : SwitchObeys(dpid)
  \/ \E dpid \in Dpids : \E r \in tables[dpid] : RuleExpires(dpid, r)
  \/ \E dpid \in Dpids : ControllerReceives(dpid)
  \/ \E ip \in Ips : ControllerRetries(ip)
  \/ \E dpid \in Dpids : SwitchConnects(dpid)
  \/ ControllerSweeps
  \/ \E dpid \in Dpids : ChannelBreaks(dpid)
  \/ ControllerRestarts
  \/ TimePasses

NetSpec == NetInit /\ [][NetNext]_all_vars
-----------------------------------------------------------------------------
(* What comes down a leaf's uplink and crosses zones was entitled to       *)
(* cross, whichever rules of core and leaf are installed, late or gone:    *)
(* the reason the controller may deliver it without asking the firewall    *)
(* again (_handle_transit() and the module docstring).                     *)
TransitIsJustified ==
  \A leaf \in Leaves \cap Dpids :
    /\ \A i \in DOMAIN wire[leaf][LEAF_UPLINK_PORT[leaf]] :
         LET f == wire[leaf][LEAF_UPLINK_PORT[leaf]][i] IN Crosses(f) => Justified(f)
    /\ \A i \in DOMAIN to_controller[leaf] :
         LET ev == to_controller[leaf][i]
         IN  is_leaf_uplink(leaf, ev.port) /\ Crosses(ev.frame) => Justified(ev.frame)

(* The network segments: no host ever receives traffic of another zone     *)
(* that is not entitled to cross (the firewall, the rules it leads to, and *)
(* all that happens between).                                              *)
HostsAreSegmented ==
  \A d \in delivered : Crosses(d.frame) => Justified(d.frame)

(* One router hop: traffic of another zone reaches a host under its own    *)
(* MAC only if it is meant for it, from its gateway, and with one hop less *)
(* than it was sent with, whether the controller routed it, rules did, or  *)
(* each one part of the way (_forward_ip(), _install_route_flows()).       *)
OneHop ==
  \A d \in delivered :
    LET host == Hosts[<<d.dpid, d.port>>] IN
    Crosses(d.frame) /\ d.frame.dst = host.mac =>
      /\ d.frame.dstip = host.ip
      /\ d.frame.src = GatewayMac[zone_for_ip(host.ip)]
      /\ d.frame.ttl = DefaultTtl - 1

(* A host is located behind the port of the core that it is wired to, and  *)
(* under its own MAC: no frame of it moves it that another switch shows to *)
(* the controller (_learn() and _handle_transit()).                        *)
LocatedAtHome ==
  \A ip \in Ips : ip_to_loc[ip] # None =>
    \E at \in DOMAIN Hosts :
      /\ Hosts[at].ip = ip /\ Hosts[at].mac = ip_to_loc[ip].mac
      /\ core_port_for(at[1], at[2]) = ip_to_loc[ip].port

(* The connection a rule's packets belong to: either way round, but an     *)
(* echo request belongs to one it opens and an echo reply to one it        *)
(* answers. OpenFlow 1.0 matches no echo identifier, so a rule for echo    *)
(* has many.                                                               *)
BelongsTo(p, f) ==
  /\ f.proto = ProtoOf(p.kind)
  /\ \/ /\ p.kind # "echo_reply"
        /\ f.src = p.srcip /\ f.dst = p.dstip
        /\ p.kind \in EchoKinds \/ (f.sport = p.sport /\ f.dport = p.dport)
     \/ /\ p.kind # "echo_request"
        /\ f.src = p.dstip /\ f.dst = p.srcip
        /\ p.kind \in EchoKinds \/ (f.sport = p.dport /\ f.dport = p.sport)

(* What crosses only as part of a connection: all that tracking knows but  *)
(* an echo reply that the policy lets through unasked.                     *)
NeedsConnection(p) ==
  /\ p.kind \in {"tcp", "udp"} \cup EchoKinds
  /\ p.kind = "echo_reply" => ~Permits(p.srcip, p.dstip, p.kind)

(* While a rule that was made for packets of a connection routes them, the *)
(* controller remembers it: the rule is no younger than the last packet of *)
(* a live connection it was made for, so the connection cannot be          *)
(* forgotten under it (docs/design.md on expiry: active connections stay   *)
(* recorded; check() and _install_route_flows()). Nothing is remembered of *)
(* a packet without its header, so its rule needs no connection. Rules by  *)
(* which a leaf delivers what comes down its uplink are no firewall        *)
(* decisions. A switch without a channel may have rules that a controller  *)
(* made which is no longer there.                                          *)
RulesFollowConnections ==
  \A dpid \in online : \A r \in tables[dpid] :
    LET p == r.match.frame IN
    /\ r.actions.out # None /\ Crosses(p) /\ ~is_leaf_uplink(dpid, r.match.in_port)
    /\ NeedsConnection(p)
    => \E f \in DOMAIN last_seen :
         BelongsTo(p, f) /\ alive(last_seen, f) /\ last_seen[f] <= r.age

(* The stateful firewall from end to end: whatever reaches a host from     *)
(* another zone, by a rule or by the controller, at once or after it       *)
(* waited, belongs to a connection that is still remembered. After a       *)
(* restart this need not be so: the rules of the time before go on until   *)
(* their switch connects. Nor where hosts send packets without their       *)
(* header: the rule for one covers the rest of its protocol between the    *)
(* hosts, which then passes unrecorded (the module docstring on the        *)
(* stateful firewall, check() and _install_route_flows()).                 *)
TrafficHasConnection ==
  \A d \in delivered :
    Crosses(d.frame) /\ NeedsConnection(d.frame) =>
      \E f \in DOMAIN last_seen : BelongsTo(d.frame, f) /\ alive(last_seen, f)

(* Connection tracking's purpose: replies of allowed connections get       *)
(* through. So echo replies are refused, by a rule for them or for all     *)
(* ICMP, only where hosts send replies to nothing (the module docstring on *)
(* the stateful firewall).                                                 *)
AnswersGetThrough ==
  \A i \in DOMAIN sent :
    LET p == sent[i].match.frame IN
    /\ sent[i].op = "flow_mod" /\ EmitPort(sent[i]) = None
    /\ p.kind \in {"echo_reply", "icmp_part"}
    => \E item \in HostFrames :
         /\ item.frame.type = "IP" /\ item.frame.kind = "echo_reply"
         /\ item.frame.srcip = p.srcip /\ item.frame.dstip = p.dstip
=============================================================================
