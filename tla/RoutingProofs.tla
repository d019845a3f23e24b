---------------------------- MODULE RoutingProofs ----------------------------
(***************************************************************************)
(* What the network does with traffic it routes, for every policy, layout  *)
(* and set of hosts. Its first part shows, through every fault, that such  *)
(* traffic takes exactly one router hop, whoever made it: ZoneNetProofs    *)
(* shows that what crosses zones is entitled to, here each frame is told   *)
(* by where it is whether the hop is still to come. Its second part shows  *)
(* that the rules never outlive the connections they were made for, and    *)
(* that what hosts receive belongs to such a connection.                   *)
(***************************************************************************)
EXTENDS ZoneNetProofs

-----------------------------------------------------------------------------
(* The invariant of router hops. *)

(* If hosts are honest, one has this address and this MAC.                 *)
Known(ip, mac) ==
  HonestHosts => \E at \in DOMAIN Hosts : Hosts[at].ip = ip /\ Hosts[at].mac = mac

(* If hosts are honest, such a host is behind this port of the core.       *)
Behind(port, ip, mac) ==
  HonestHosts => \E at \in DOMAIN Hosts :
    Hosts[at].ip = ip /\ Hosts[at].mac = mac /\ core_port_for(at[1], at[2]) = port

(* A frame as a host behind this port of the core sends it.                *)
FromHost(f, port) ==
  /\ f.type = "IP" => f.ttl \in {1, DefaultTtl} /\ Behind(port, f.srcip, f.src)
  /\ f.type = "ARP" => Behind(port, f.protosrc, f.hwsrc)

(* A frame that is routed already, if it has to be.                        *)
Routed(f) ==
  Crosses(f) =>
    /\ f.ttl = DefaultTtl - 1
    /\ f.src = GatewayMac[zone_for_ip(f.dstip)]
    /\ Known(f.dstip, f.dst)

(* Down an uplink comes what is routed, up an uplink goes what is not.     *)
MayEnter(dpid, port, f) ==
  IF is_leaf_uplink(dpid, port) THEN Routed(f) ELSE FromHost(f, core_port_for(dpid, port))
MayEmit(dpid, port, f) ==
  IF is_leaf_uplink(dpid, port) THEN FromHost(f, core_port_for(dpid, port)) ELSE Routed(f)

(* A rule of the core may route; any other rule for traffic that crosses   *)
(* moves it to or from a leaf's uplink.                                    *)
RuleHops(dpid, match, actions) ==
  LET h == match.frame IN
  IF "dec_ttl" \in DOMAIN actions
    THEN /\ dpid = CORE_DPID /\ Crosses(h)
         /\ actions.set_src = GatewayMac[zone_for_ip(h.dstip)]
         /\ Known(h.dstip, actions.set_dst)
    ELSE actions.out # None /\ Crosses(h) =>
           is_leaf_uplink(dpid, match.in_port) \/ is_leaf_uplink(dpid, actions.out)

OutPorts(m) == IF "in_port" \in DOMAIN m THEN Ports \ {m.in_port} ELSE {m.out}

(* A message a switch may be sent.                                         *)
MessageHops(dpid, m) ==
  /\ m.op = "packet_out" => \A port \in OutPorts(m) : MayEmit(dpid, port, m.frame)
  /\ m.op = "flow_mod" => RuleHops(dpid, m.match, m.actions)

WireHops(w) == \A d \in Dpids, p \in Ports : \A f \in Range(w[d][p]) : MayEnter(d, p, f)

TableHops == \A d \in Dpids : \A r \in tables[d] : RuleHops(d, r.match, r.actions)

EventHops ==
  \A d \in Dpids : \A ev \in Range(to_controller[d]) : MayEnter(d, ev.port, ev.frame)

OrderHops == \A d \in Dpids : \A m \in Range(to_switch[d]) : MessageHops(d, m)

(* What a host is handed has its hop behind it.                            *)
Received(x) == <<x.dpid, x.port>> \in DOMAIN Hosts /\ Routed(x.frame)

DeliveredHops == \A x \in delivered : Received(x)

(* What the controller remembers and what waits there.                     *)
LocationHops ==
  \A ip \in Ips : ip_to_loc[ip] # None => Behind(ip_to_loc[ip].port, ip, ip_to_loc[ip].mac)

Waits(item) ==
  /\ ~is_leaf_uplink(item.dpid, item.port)
  /\ FromHost(item.frame, core_port_for(item.dpid, item.port))

QueueHops ==
  \A ip \in Ips : pending[ip] # None =>
    \A i \in DOMAIN pending[ip].queue : Waits(pending[ip].queue[i])

HopInv ==
  /\ WireHops(wire) /\ TableHops /\ EventHops /\ OrderHops /\ DeliveredHops
  /\ LocationHops /\ QueueHops

-----------------------------------------------------------------------------
(* Sequences. *)

(* What a sequence holds: its first element and the rest.                  *)
LEMMA RangeOfTail ==
  ASSUME NEW S, NEW s \in Seq(S), s # <<>>
  PROVE  Head(s) \in Range(s) /\ Range(Tail(s)) \subseteq Range(s)
<1>1. /\ Tail(s) \in Seq(S) /\ Len(Tail(s)) = Len(s) - 1
      /\ Head(s) = s[1] /\ \A i \in 1 .. Len(Tail(s)) : Tail(s)[i] = s[i + 1]
  BY HeadTailProperties
<1>2. /\ Len(s) \in Nat /\ DOMAIN s = 1 .. Len(s)
      /\ DOMAIN Tail(s) = 1 .. Len(Tail(s))
  BY <1>1, LenProperties
<1>3. Len(s) # 0
  BY EmptySeq
<1>4. 1 \in DOMAIN s /\ \A i \in DOMAIN Tail(s) : i + 1 \in DOMAIN s
  BY <1>1, <1>2, <1>3
<1> QED  BY <1>1, <1>2, <1>4 DEF Range

(* One more.                                                               *)
LEMMA RangeOfAppend ==
  ASSUME NEW S, NEW s \in Seq(S), NEW x \in S
  PROVE  Range(Append(s, x)) \subseteq Range(s) \cup {x}
<1>1. /\ Append(s, x) \in Seq(S) /\ Len(Append(s, x)) = Len(s) + 1
      /\ \A i \in 1 .. Len(s) : Append(s, x)[i] = s[i]
      /\ Append(s, x)[Len(s) + 1] = x
  BY AppendProperties
<1>2. /\ Len(s) \in Nat /\ DOMAIN s = 1 .. Len(s)
      /\ DOMAIN Append(s, x) = 1 .. Len(s) + 1
  BY <1>1, LenProperties
<1>3. \A i \in DOMAIN Append(s, x) : i \in DOMAIN s \/ i = Len(s) + 1
  BY <1>2
<1> QED  BY <1>1, <1>2, <1>3 DEF Range

(* Two sequences.                                                          *)
LEMMA RangeOfConcat ==
  ASSUME NEW S, NEW s \in Seq(S), NEW t \in Seq(S)
  PROVE  Range(s \o t) \subseteq Range(s) \cup Range(t)
<1>1. /\ s \o t \in Seq(S) /\ Len(s \o t) = Len(s) + Len(t)
      /\ \A i \in 1 .. Len(s) + Len(t) :
           (s \o t)[i] = IF i <= Len(s) THEN s[i] ELSE t[i - Len(s)]
  BY ConcatProperties
<1>2. /\ DOMAIN (s \o t) = 1 .. Len(s) + Len(t)
      /\ DOMAIN s = 1 .. Len(s) /\ DOMAIN t = 1 .. Len(t)
      /\ Len(s) \in Nat /\ Len(t) \in Nat
  BY <1>1, LenProperties
<1>3. ASSUME NEW i \in DOMAIN (s \o t) PROVE (s \o t)[i] \in Range(s) \cup Range(t)
  <2>1. CASE i <= Len(s)
    BY <1>1, <1>2, <2>1 DEF Range
  <2>2. CASE ~(i <= Len(s))
    <3>1. i - Len(s) \in DOMAIN t /\ (s \o t)[i] = t[i - Len(s)]
      BY <1>1, <1>2, <2>2
    <3> QED  BY <3>1 DEF Range
  <2> QED  BY <2>1, <2>2
<1> QED  BY <1>3 DEF Range

(* Nothing.                                                                *)
LEMMA RangeOfNone == Range(<<>>) = {}
  BY DEF Range

-----------------------------------------------------------------------------
(* Links and hosts. *)

(* A link has a leaf's uplink at one end and the core at the other.        *)
LEMMA LinkEnds ==
  ASSUME NEW d, NEW p, NEW d2, NEW p2, Linked(d, p, d2, p2)
  PROVE  /\ is_leaf_uplink(d, p) <=> ~is_leaf_uplink(d2, p2)
         /\ core_port_for(d, p) = core_port_for(d2, p2)
<1>1. PICK leaf \in Leaves :
        {<<d, p>>, <<d2, p2>>} =
          {<<leaf, LEAF_UPLINK_PORT[leaf]>>, <<CORE_DPID, LEAF_CORE_PORT[leaf]>>}
  BY DEF Linked
<1>2. CORE_DPID \notin Leaves
  BY PortMapsAssumption
<1> DEFINE up == <<leaf, LEAF_UPLINK_PORT[leaf]>>
           down == <<CORE_DPID, LEAF_CORE_PORT[leaf]>>
           at == <<d, p>>
           at2 == <<d2, p2>>
<1>3. {at, at2} = {up, down} /\ up # down
  BY <1>1, <1>2
<1>4. (at = up /\ at2 = down) \/ (at = down /\ at2 = up)
  <2> HIDE DEF at, at2, up, down
  <2> QED  BY <1>3
<1>5. \/ /\ d = leaf /\ p = LEAF_UPLINK_PORT[leaf]
         /\ d2 = CORE_DPID /\ p2 = LEAF_CORE_PORT[leaf]
      \/ /\ d2 = leaf /\ p2 = LEAF_UPLINK_PORT[leaf]
         /\ d = CORE_DPID /\ p = LEAF_CORE_PORT[leaf]
  BY <1>4
<1>6. is_leaf_uplink(d, p) <=> ~is_leaf_uplink(d2, p2)
  BY <1>2, <1>5 DEF is_leaf_uplink
<1>7. core_port_for(d, p) = core_port_for(d2, p2)
  BY <1>2, <1>5 DEF core_port_for
<1> QED  BY <1>6, <1>7

(* No host is plugged into an uplink.                                      *)
LEMMA HostPort ==
  ASSUME NEW d, NEW p, <<d, p>> \in DOMAIN Hosts
  PROVE  ~is_leaf_uplink(d, p)
<1>1. ~is_leaf_uplink(<<d, p>>[1], <<d, p>>[2])
  BY NetAssumption
<1> QED  BY <1>1

(* All ports of a leaf are behind one port of the core.                    *)
LEMMA UplinkOf ==
  ASSUME NEW d, NEW p, NEW p2, is_leaf_uplink(d, p)
  PROVE  core_port_for(d, p2) = core_port_for(d, p)
<1>1. d # CORE_DPID
  BY PortMapsAssumption DEF is_leaf_uplink
<1> QED  BY <1>1 DEF core_port_for

(* A host is behind its port, under its own addresses.                     *)
LEMMA HostBehind ==
  ASSUME NEW d, NEW p, <<d, p>> \in DOMAIN Hosts
  PROVE  Behind(core_port_for(d, p), Hosts[<<d, p>>].ip, Hosts[<<d, p>>].mac)
<1> DEFINE at == <<d, p>>
<1>1. at[1] = d /\ at[2] = p /\ at \in DOMAIN Hosts
  OBVIOUS
<1> HIDE DEF at
<1>2. Behind(core_port_for(d, p), Hosts[at].ip, Hosts[at].mac)
  BY <1>1 DEF Behind
<1> QED  BY <1>2 DEF at

(* A host behind a port is a host.                                         *)
LEMMA BehindKnown ==
  ASSUME NEW port, NEW ip, NEW mac, Behind(port, ip, mac) PROVE Known(ip, mac)
  BY DEF Behind, Known

(* What a host answers it sends under its own addresses.                   *)
LEMMA AnswersFromHost ==
  ASSUME NEW d, NEW p, NEW frame \in Frames, NEW f \in Answers(<<d, p>>, frame)
  PROVE  MayEnter(d, p, f)
<1> DEFINE host == Hosts[<<d, p>>]
<1>1. <<d, p>> \in DOMAIN Hosts
  BY DEF Answers
<1>2. ~is_leaf_uplink(d, p) /\ Behind(core_port_for(d, p), host.ip, host.mac)
  BY <1>1, HostPort, HostBehind
<1> HIDE DEF host
<1>3. CASE frame.type = "ARP"
  <2>1. frame \in ArpFrames
    BY <1>3 DEF Frames, IpFrames, OtherFrames
  <2>2. /\ f = [frame EXCEPT !.src = host.mac, !.dst = frame.hwsrc, !.opcode = "REPLY",
                             !.hwsrc = host.mac, !.protosrc = frame.protodst,
                             !.protodst = frame.protosrc]
        /\ frame.protodst = host.ip
    BY <1>3 DEF Answers, host
  <2>3. f.type = "ARP" /\ f.protosrc = host.ip /\ f.hwsrc = host.mac
    BY <2>1, <2>2 DEF ArpFrames
  <2> QED  BY <1>2, <2>3 DEF MayEnter, FromHost
<1>4. CASE frame.type # "ARP"
  <2>1. /\ frame.type = "IP" /\ frame.dstip = host.ip
        /\ f = [frame EXCEPT !.src = host.mac, !.dst = frame.src, !.srcip = frame.dstip,
                             !.dstip = frame.srcip, !.kind = "echo_reply", !.ttl = DefaultTtl]
    BY <1>4 DEF Answers, host
  <2>2. frame \in IpFrames
    BY <2>1 DEF Frames, ArpFrames, OtherFrames
  <2>3. f.type = "IP" /\ f.ttl = DefaultTtl /\ f.srcip = host.ip /\ f.src = host.mac
    BY <2>1, <2>2 DEF IpFrames
  <2> QED  BY <1>2, <2>3 DEF MayEnter, FromHost
<1> QED  BY <1>3, <1>4

(* A frame may enter at the other end of a link where it may be emitted,   *)
(* and may be handed to a host there.                                      *)
LEMMA EmittedHops ==
  ASSUME NEW w, WiresInv(w), WireHops(w), NEW dpid, NEW ports, NEW frame \in Frames,
         Entitled(frame), \A port \in ports : MayEmit(dpid, port, frame)
  PROVE  /\ WireHops(Emitted(w, dpid, ports, frame))
         /\ \A x \in Handed(dpid, ports, frame) : Received(x)
<1> DEFINE new(d, p) ==
             {f \in {frame} : \E q \in ports : Linked(dpid, q, d, p)}
               \cup (IF d = dpid /\ p \in ports THEN Answers(<<d, p>>, frame) ELSE {})
           e == Emitted(w, dpid, ports, frame)
<1>1. \A d \in Dpids, p \in Ports :
        e[d][p] = IF new(d, p) = {} THEN w[d][p]
                  ELSE Append(w[d][p], CHOOSE f \in new(d, p) : TRUE)
  BY DEF Emitted
<1>2. ASSUME NEW d \in Dpids, NEW p \in Ports, NEW f \in new(d, p)
      PROVE  MayEnter(d, p, f) /\ f \in Entering(d, p)
  <2>1. CASE f \in Answers(<<d, p>>, frame)
    BY <2>1, AnswersFromHost, AnswersEnter
  <2>2. CASE f = frame /\ \E q \in ports : Linked(dpid, q, d, p)
    <3>1. PICK q \in ports : Linked(dpid, q, d, p)
      BY <2>2
    <3>2. /\ MayEmit(dpid, q, frame) /\ core_port_for(dpid, q) = core_port_for(d, p)
          /\ is_leaf_uplink(dpid, q) <=> ~is_leaf_uplink(d, p)
      BY <3>1, LinkEnds
    <3> QED  BY <2>2, <3>2 DEF MayEmit, MayEnter, Entering
  <2> QED  BY <2>1, <2>2
<1> HIDE DEF new, e
<1>3. ASSUME NEW d \in Dpids, NEW p \in Ports, NEW f \in Range(e[d][p])
      PROVE  MayEnter(d, p, f)
  <2>1. w[d][p] \in Seq(Entering(d, p)) /\ \A g \in Range(w[d][p]) : MayEnter(d, p, g)
    BY DEF WiresInv, WireHops
  <2>2. CASE new(d, p) = {}
    BY <1>1, <1>3, <2>1, <2>2
  <2>3. CASE new(d, p) # {}
    <3> DEFINE g == CHOOSE g \in new(d, p) : TRUE
    <3>1. MayEnter(d, p, g) /\ g \in Entering(d, p)
      BY <1>2, <2>3
    <3>2. e[d][p] = Append(w[d][p], g)
      BY <1>1, <2>3
    <3> HIDE DEF g
    <3>3. Range(e[d][p]) \subseteq Range(w[d][p]) \cup {g}
      BY <2>1, <3>1, <3>2, RangeOfAppend
    <3> QED  BY <1>3, <2>1, <3>1, <3>3
  <2> QED  BY <2>2, <2>3
<1>4. ASSUME NEW x \in Handed(dpid, ports, frame) PROVE Received(x)
  <2>1. PICK port \in ports : /\ <<dpid, port>> \in DOMAIN Hosts
                              /\ x = [dpid |-> dpid, port |-> port, frame |-> frame]
    BY DEF Handed
  <2>2. MayEmit(dpid, port, frame) /\ ~is_leaf_uplink(dpid, port)
    BY <2>1, HostPort
  <2> QED  BY <2>1, <2>2 DEF MayEmit, Received
<1> QED  BY <1>3, <1>4 DEF WireHops, e

-----------------------------------------------------------------------------
(* Switches. *)

(* Sequences of one port changed.                                          *)
LEMMA ChangedPort ==
  ASSUME WiresInv(wire), WireHops(wire), NEW d \in Dpids, NEW p \in Ports, NEW s,
         \A f \in Range(s) : MayEnter(d, p, f)
  PROVE  WireHops([wire EXCEPT ![d][p] = s])
<1> DEFINE w == [wire EXCEPT ![d][p] = s]
<1>1. DOMAIN wire = Dpids /\ \A d2 \in Dpids : DOMAIN wire[d2] = Ports
  BY DEF WiresInv
<1>2. w[d] = [wire[d] EXCEPT ![p] = s] /\ \A d2 \in Dpids : d2 # d => w[d2] = wire[d2]
  BY <1>1
<1> HIDE DEF w
<1>3. w[d][p] = s /\ \A p2 \in Ports : p2 # p => w[d][p2] = wire[d][p2]
  BY <1>1, <1>2
<1>4. ASSUME NEW d2 \in Dpids, NEW p2 \in Ports, NEW f \in Range(w[d2][p2])
      PROVE  MayEnter(d2, p2, f)
  <2>1. w[d2][p2] = wire[d2][p2] \/ (d2 = d /\ p2 = p /\ w[d2][p2] = s)
    BY <1>2, <1>3
  <2> QED  BY <1>4, <2>1 DEF WireHops
<1> QED  BY <1>4 DEF WireHops, w

(* Taking the first frame off a port.                                      *)
LEMMA TakenHops ==
  ASSUME WiresInv(wire), WireHops(wire), NEW d \in Dpids, NEW p \in Ports, wire[d][p] # <<>>
  PROVE  /\ MayEnter(d, p, Head(wire[d][p]))
         /\ WireHops([wire EXCEPT ![d][p] = Tail(@)])
<1>1. wire[d][p] \in Seq(Entering(d, p))
  BY DEF WiresInv
<1>2. /\ Head(wire[d][p]) \in Range(wire[d][p])
      /\ Range(Tail(wire[d][p])) \subseteq Range(wire[d][p])
  BY <1>1, RangeOfTail
<1>3. \A f \in Range(wire[d][p]) : MayEnter(d, p, f)
  BY DEF WireHops
<1>4. \A f \in Range(Tail(wire[d][p])) : MayEnter(d, p, f)
  BY <1>2, <1>3
<1>5. WireHops([wire EXCEPT ![d][p] = Tail(@)])
  BY <1>4, ChangedPort
<1> QED  BY <1>2, <1>3, <1>5

(* What a rule makes of a frame it matches may be emitted where the rule   *)
(* sends it: the core's rule makes the hop, a leaf's rule leaves it to the *)
(* core or has it behind it.                                               *)
LEMMA RuleForwards ==
  ASSUME NEW dpid, NEW port, NEW frame \in Frames, MayEnter(dpid, port, frame),
         NEW match, match \in {from_packet(frame, port), from_packet(Headless(frame), port)},
         NEW actions, RuleHops(dpid, match, actions), HopLeft(frame, actions),
         actions.out \notin {None, port}
  PROVE  MayEmit(dpid, actions.out, Rewritten(frame, actions))
<1> DEFINE h == match.frame
           f == Rewritten(frame, actions)
<1>1. /\ Crosses(h) <=> Crosses(frame)
      /\ frame.type = "IP" => h.srcip = frame.srcip /\ h.dstip = frame.dstip
  BY MatchCovers
<1>2. match.in_port = port
  BY MatchCovers
<1> HIDE DEF h
<1>3. CASE "dec_ttl" \in DOMAIN actions
  <2>1. /\ dpid = CORE_DPID /\ Crosses(h)
        /\ actions.set_src = GatewayMac[zone_for_ip(h.dstip)] /\ Known(h.dstip, actions.set_dst)
    BY <1>3 DEF RuleHops, h
  <2>2. ~is_leaf_uplink(dpid, port) /\ ~is_leaf_uplink(dpid, actions.out)
    BY <2>1, PortMapsAssumption DEF is_leaf_uplink
  <2>3. frame.type = "IP" /\ frame.ttl = DefaultTtl
    BY <1>1, <1>3, <2>1, <2>2 DEF Crosses, MayEnter, FromHost, HopLeft
  <2>4. frame \in IpFrames
    BY <2>3 DEF Frames, ArpFrames, OtherFrames
  <2>5. f = [frame EXCEPT !.src = actions.set_src, !.dst = actions.set_dst, !.ttl = @ - 1]
    BY <1>3 DEF Rewritten
  <2>6. /\ f.ttl = DefaultTtl - 1 /\ f.src = actions.set_src /\ f.dst = actions.set_dst
        /\ f.dstip = frame.dstip
    BY <2>3, <2>4, <2>5 DEF IpFrames
  <2> HIDE DEF f
  <2>7. Routed(f)
    BY <1>1, <2>1, <2>3, <2>6 DEF Routed
  <2> QED  BY <2>2, <2>7 DEF MayEmit, f
<1>4. CASE "dec_ttl" \notin DOMAIN actions
  <2>1. f = frame
    BY <1>4 DEF Rewritten
  <2>2. Crosses(frame) => is_leaf_uplink(dpid, port) \/ is_leaf_uplink(dpid, actions.out)
    BY <1>1, <1>2, <1>4 DEF RuleHops, h
  <2>3. ~(is_leaf_uplink(dpid, port) /\ is_leaf_uplink(dpid, actions.out))
    BY DEF is_leaf_uplink
  <2>4. MayEmit(dpid, actions.out, frame)
    BY <2>2, <2>3, UplinkOf DEF MayEnter, MayEmit, Routed
  <2> QED  BY <2>1, <2>4
<1> QED  BY <1>3, <1>4

(* A host sends under its own addresses, if hosts are honest.              *)
LEMMA HostSendsHops ==
  ASSUME NetInv, HopInv, NEW item \in HostFrames, HostSends(item) PROVE HopInv'
<1> DEFINE d == item.dpid
           p == item.port
           host == Hosts[<<d, p>>]
<1>1. /\ item \in Items /\ d \in Dpids /\ p \in Ports /\ item.frame \in Frames
      /\ <<d, p>> \in DOMAIN Hosts
      /\ item.frame.type = "IP" => item.frame.ttl \in {1, DefaultTtl}
  BY NetAssumption DEF Items
<1>2. ~is_leaf_uplink(d, p) /\ Behind(core_port_for(d, p), host.ip, host.mac)
  BY <1>1, HostPort, HostBehind
<1>3. FromHost(item.frame, core_port_for(d, p))
  <2>1. HonestHosts => /\ item.frame.type = "IP" =>
                            item.frame.srcip = host.ip /\ item.frame.src = host.mac
                       /\ item.frame.type = "ARP" =>
                            item.frame.protosrc = host.ip /\ item.frame.hwsrc = host.mac
    BY DEF HonestHosts
  <2>2. item.frame.type = "IP" =>
          Behind(core_port_for(d, p), item.frame.srcip, item.frame.src)
    BY <1>2, <2>1 DEF Behind
  <2>3. item.frame.type = "ARP" =>
          Behind(core_port_for(d, p), item.frame.protosrc, item.frame.hwsrc)
    BY <1>2, <2>1 DEF Behind
  <2> QED  BY <1>1, <2>2, <2>3 DEF FromHost
<1>4. MayEnter(d, p, item.frame) /\ item.frame \in Entering(d, p)
  BY <1>1, <1>2, <1>3 DEF MayEnter, Entering
<1>5. wire[d][p] \in Seq(Entering(d, p)) /\ \A f \in Range(wire[d][p]) : MayEnter(d, p, f)
  BY <1>1 DEF NetInv, WiresInv, HopInv, WireHops
<1>6. \A f \in Range(Append(wire[d][p], item.frame)) : MayEnter(d, p, f)
  <2>1. Range(Append(wire[d][p], item.frame)) \subseteq Range(wire[d][p]) \cup {item.frame}
    BY <1>4, <1>5, RangeOfAppend
  <2> QED  BY <1>4, <1>5, <2>1
<1>7. WireHops([wire EXCEPT ![d][p] = Append(@, item.frame)])
  BY <1>1, <1>6, ChangedPort DEF NetInv, HopInv
<1>8. /\ WireHops(wire') /\ delivered' = {}
      /\ UNCHANGED <<tables, to_controller, to_switch, ip_to_loc, pending>>
  BY <1>7 DEF HostSends, RouterWaits, router_vars
<1> QED  BY <1>8 DEF HopInv, WireHops, TableHops, EventHops, OrderHops, DeliveredHops,
           LocationHops, QueueHops

(* While the controller waits.                                             *)
LEMMA WaitingHops == ASSUME HopInv, RouterWaits PROVE LocationHops' /\ QueueHops'
  BY DEF RouterWaits, router_vars, HopInv, LocationHops, QueueHops

(* A frame is raised where it entered, or a rule moves it one link on.     *)
LEMMA SwitchForwardsHops ==
  ASSUME NetInv, HopInv, NEW dpid \in Dpids, NEW port \in Ports, SwitchForwards(dpid, port)
  PROVE  HopInv'
<1> DEFINE frame == Head(wire[dpid][port])
           rest  == [wire EXCEPT ![dpid][port] = Tail(@)]
           exact == {r \in tables[dpid] : r.match = from_packet(frame, port)}
           wide  == {r \in tables[dpid] : r.match = from_packet(Headless(frame), port)}
           hits  == IF exact # {} THEN exact ELSE wide
           item  == [dpid |-> dpid, port |-> port, frame |-> frame]
<1>1. /\ frame \in Entering(dpid, port) /\ WiresInv(rest)
      /\ MayEnter(dpid, port, frame) /\ WireHops(rest)
  BY TakenFromWire, TakenHops DEF NetInv, HopInv, SwitchForwards
<1>2. frame \in Frames
  BY <1>1 DEF Entering
<1>3. LocationHops' /\ QueueHops' /\ OrderHops'
  BY WaitingHops DEF SwitchForwards, HopInv, OrderHops
<1>4. CASE /\ wire' = rest
           /\ to_controller' =
                IF dpid \notin online THEN to_controller
                ELSE [to_controller EXCEPT ![dpid] = Append(@, item)]
           /\ delivered' = {}
           /\ UNCHANGED tables
  <2>1. item \in Raised(dpid) /\ MayEnter(dpid, item.port, item.frame)
    BY <1>1, <1>2 DEF Raised, Items
  <2>2. /\ to_controller[dpid] \in Seq(Raised(dpid)) /\ DOMAIN to_controller = Dpids
        /\ \A d \in Dpids : \A ev \in Range(to_controller[d]) : MayEnter(d, ev.port, ev.frame)
    BY DEF NetInv, RaisedInv, HopInv, EventHops
  <2> HIDE DEF item, rest
  <2>3. Range(Append(to_controller[dpid], item)) \subseteq Range(to_controller[dpid]) \cup {item}
    BY <2>1, <2>2, RangeOfAppend
  <2>4. ASSUME NEW d \in Dpids, NEW ev \in Range(to_controller'[d])
        PROVE  MayEnter(d, ev.port, ev.frame)
    <3>1. \/ to_controller'[d] = to_controller[d]
          \/ d = dpid /\ to_controller'[d] = Append(to_controller[dpid], item)
      BY <1>4, <2>2
    <3>2. ev \in Range(to_controller[d]) \/ (d = dpid /\ ev = item)
      BY <2>3, <2>4, <3>1
    <3> QED  BY <2>1, <2>2, <3>2
  <2>5. WireHops(wire')
    BY <1>1, <1>4
  <2>6. EventHops' /\ TableHops' /\ DeliveredHops'
    BY <1>4, <2>4 DEF HopInv, EventHops, TableHops, DeliveredHops
  <2> QED  BY <1>3, <2>5, <2>6 DEF HopInv, WireHops
<1>5. ASSUME NEW r \in hits,
             LET out == IF HopLeft(frame, r.actions) THEN {r.actions.out} \ {None, port} ELSE {}
                 f   == Rewritten(frame, r.actions)
             IN  /\ tables' = [tables EXCEPT ![dpid] =
                                 (@ \ {r}) \cup {[r EXCEPT !.idle_age = 0]}]
                 /\ wire' = Emitted(rest, dpid, out, f)
                 /\ delivered' = Handed(dpid, out, f)
                 /\ UNCHANGED to_controller
      PROVE  HopInv'
  <2> DEFINE out == IF HopLeft(frame, r.actions) THEN {r.actions.out} \ {None, port} ELSE {}
             f   == Rewritten(frame, r.actions)
             used == [r EXCEPT !.idle_age = 0]
  <2>1. /\ r \in tables[dpid]
        /\ r.match \in {from_packet(frame, port), from_packet(Headless(frame), port)}
        /\ LawfulRule(r) /\ RuleHops(dpid, r.match, r.actions)
    BY DEF NetInv, TablesLawful, HopInv, TableHops
  <2>2. used.match = r.match /\ used.actions = r.actions
    BY <2>1 DEF LawfulRule
  <2>3. TableHops'
    <3>1. tables' = [tables EXCEPT ![dpid] = (@ \ {r}) \cup {used}]
      BY <1>5
    <3> HIDE DEF used
    <3>2. \A d \in Dpids : \A x \in tables'[d] : x \in tables[d] \/ (d = dpid /\ x = used)
      BY <3>1 DEF NetInv, TablesLawful
    <3>3. \A d \in Dpids : \A x \in tables[d] : RuleHops(d, x.match, x.actions)
      BY DEF HopInv, TableHops
    <3>4. \A d \in Dpids : \A x \in tables'[d] : RuleHops(d, x.match, x.actions)
      BY <2>1, <2>2, <3>2, <3>3
    <3> QED  BY <3>4 DEF TableHops
  <2>4. WireHops(wire') /\ DeliveredHops'
    <3>1. wire' = Emitted(rest, dpid, out, f) /\ delivered' = Handed(dpid, out, f)
      BY <1>5
    <3> HIDE DEF rest, frame, f
    <3>2. CASE out = {}
      <4>1. wire' = [d \in Dpids |-> [p \in Ports |-> rest[d][p]]]
        BY <3>1, <3>2 DEF Emitted
      <4>2. WireHops(wire') /\ delivered' = {}
        BY <1>1, <3>1, <3>2, <4>1 DEF WireHops, Handed
      <4> QED  BY <4>2 DEF DeliveredHops
    <3>3. CASE out # {}
      <4>1. /\ out = {r.actions.out} /\ r.actions.out \notin {None, port}
            /\ HopLeft(frame, r.actions)
        BY <3>3
      <4>2. f \in Frames /\ Entitled(f)
        BY <1>2, <2>1, <4>1, ForwardsEntitled DEF f
      <4>3. MayEmit(dpid, r.actions.out, f)
        BY <1>1, <1>2, <2>1, <4>1, RuleForwards DEF f
      <4> HIDE DEF out
      <4>4. \A q \in out : MayEmit(dpid, q, f)
        BY <4>1, <4>3
      <4>5. WireHops(wire') /\ \A x \in delivered' : Received(x)
        BY <1>1, <3>1, <4>2, <4>4, EmittedHops
      <4> QED  BY <4>5 DEF DeliveredHops
    <3> QED  BY <3>2, <3>3
  <2>5. EventHops'
    BY <1>5 DEF HopInv, EventHops
  <2> QED  BY <1>3, <2>3, <2>4, <2>5 DEF HopInv, WireHops
<1> QED  BY <1>4, <1>5 DEF SwitchForwards

(* A switch does what it is told, a rule or a packet.                      *)
LEMMA SwitchObeysHops ==
  ASSUME NetInv, HopInv, NEW dpid \in Dpids, SwitchObeys(dpid) PROVE HopInv'
<1> DEFINE s == to_switch[dpid]
           m == Head(s)
<1>1. Obeyable(m)
  BY FirstMessage DEF NetInv, OrdersInv, SwitchObeys
<1>2. /\ DOMAIN to_switch = Dpids
      /\ \A d \in Dpids : \A x \in Range(to_switch[d]) : MessageHops(d, x)
  BY DEF NetInv, OrdersInv, HopInv, OrderHops
<1>3. m \in Range(s) /\ Range(Tail(s)) \subseteq Range(s)
  <2>1. PICK S : s \in Seq(S)
    BY DEF NetInv, OrdersInv, Messages
  <2>2. s # <<>>
    BY DEF SwitchObeys
  <2> HIDE DEF s
  <2> QED  BY <2>1, <2>2, RangeOfTail
<1>4. MessageHops(dpid, m)
  BY <1>2, <1>3
<1>5. OrderHops'
  <2>1. to_switch' = [to_switch EXCEPT ![dpid] = Tail(s)]
    BY DEF SwitchObeys
  <2>2. \A d \in Dpids : to_switch'[d] = to_switch[d] \/ (d = dpid /\ to_switch'[d] = Tail(s))
    BY <1>2, <2>1
  <2>3. \A d \in Dpids : \A x \in Range(to_switch'[d]) : MessageHops(d, x)
    BY <1>2, <1>3, <2>2
  <2> QED  BY <2>3 DEF OrderHops
<1>6. LocationHops' /\ QueueHops' /\ EventHops'
  BY WaitingHops DEF SwitchObeys, HopInv, EventHops
<1> HIDE DEF m, s
<1>7. CASE /\ m.op = "flow_mod"
           /\ tables' = [tables EXCEPT ![dpid] =
                {r \in @ : r.match # m.match}
                  \cup {[match |-> m.match, actions |-> m.actions, idle |-> m.idle,
                         hard |-> m.hard, idle_age |-> 0, age |-> 0]}]
           /\ delivered' = {}
           /\ UNCHANGED wire
  <2> DEFINE rule == [match |-> m.match, actions |-> m.actions, idle |-> m.idle,
                      hard |-> m.hard, idle_age |-> 0, age |-> 0]
  <2>1. RuleHops(dpid, rule.match, rule.actions)
    BY <1>4, <1>7 DEF MessageHops
  <2>2. tables' = [tables EXCEPT ![dpid] = {r \in @ : r.match # m.match} \cup {rule}]
    BY <1>7
  <2> HIDE DEF rule
  <2>3. \A d \in Dpids : \A x \in tables'[d] : x \in tables[d] \/ (d = dpid /\ x = rule)
    BY <2>2 DEF NetInv, TablesLawful
  <2>4. \A d \in Dpids : \A x \in tables'[d] : RuleHops(d, x.match, x.actions)
    BY <2>1, <2>3 DEF HopInv, TableHops
  <2>5. TableHops' /\ DeliveredHops' /\ wire' = wire
    BY <1>7, <2>4 DEF TableHops, DeliveredHops
  <2> QED  BY <1>5, <1>6, <2>5 DEF HopInv, WireHops
<1>8. CASE /\ m.op = "packet_out"
           /\ LET ports == IF "in_port" \in DOMAIN m THEN Ports \ {m.in_port} ELSE {m.out}
              IN  /\ wire' = Emitted(wire, dpid, ports, m.frame)
                  /\ delivered' = Handed(dpid, ports, m.frame)
           /\ UNCHANGED tables
  <2>1. /\ m.frame \in Frames /\ Entitled(m.frame)
        /\ \A port \in OutPorts(m) : MayEmit(dpid, port, m.frame)
    BY <1>1, <1>4, <1>8 DEF Obeyable, MessageHops
  <2>2. /\ wire' = Emitted(wire, dpid, OutPorts(m), m.frame)
        /\ delivered' = Handed(dpid, OutPorts(m), m.frame)
    BY <1>8 DEF OutPorts
  <2>3. WireHops(wire') /\ \A x \in delivered' : Received(x)
    BY <2>1, <2>2, EmittedHops DEF NetInv, HopInv
  <2>4. DeliveredHops' /\ TableHops'
    BY <1>8, <2>3 DEF HopInv, DeliveredHops, TableHops
  <2> QED  BY <1>5, <1>6, <2>3, <2>4 DEF HopInv, WireHops
<1> QED  BY <1>7, <1>8 DEF SwitchObeys, m, s

(* Rules that end.                                                         *)
LEMMA RuleExpiresHops ==
  ASSUME NetInv, HopInv, NEW dpid \in Dpids, NEW r, RuleExpires(dpid, r) PROVE HopInv'
<1>1. /\ LocationHops' /\ QueueHops' /\ delivered' = {}
      /\ UNCHANGED <<wire, to_controller, to_switch>>
  BY WaitingHops DEF RuleExpires
<1>2. \A d \in Dpids : tables'[d] \subseteq tables[d]
  BY DEF RuleExpires, NetInv, TablesLawful
<1>3. TableHops'
  BY <1>2 DEF HopInv, TableHops
<1> QED  BY <1>1, <1>3 DEF HopInv, WireHops, EventHops, OrderHops, DeliveredHops

(* A channel that breaks loses what is on it.                              *)
LEMMA ChannelBreaksHops ==
  ASSUME NetInv, HopInv, NEW dpid \in Dpids, ChannelBreaks(dpid) PROVE HopInv'
<1>1. /\ LocationHops' /\ QueueHops' /\ delivered' = {} /\ UNCHANGED <<wire, tables>>
      /\ to_controller' = [to_controller EXCEPT ![dpid] = <<>>]
      /\ to_switch' = [to_switch EXCEPT ![dpid] = <<>>]
  BY WaitingHops DEF ChannelBreaks
<1>2. DOMAIN to_controller = Dpids /\ DOMAIN to_switch = Dpids
  BY DEF NetInv, RaisedInv, OrdersInv
<1>3. \A d \in Dpids :
        /\ to_controller'[d] = to_controller[d] \/ to_controller'[d] = <<>>
        /\ to_switch'[d] = to_switch[d] \/ to_switch'[d] = <<>>
  BY <1>1, <1>2
<1>4. EventHops' /\ OrderHops'
  BY <1>3, RangeOfNone DEF HopInv, EventHops, OrderHops
<1> QED  BY <1>1, <1>4 DEF HopInv, WireHops, TableHops, DeliveredHops

(* A controller that starts again knows no host and holds no packet.       *)
LEMMA ControllerRestartsHops ==
  ASSUME HopInv, ControllerRestarts PROVE HopInv'
<1>1. /\ delivered' = {} /\ UNCHANGED <<wire, tables>>
      /\ \A d \in Dpids : to_controller'[d] = <<>> /\ to_switch'[d] = <<>>
      /\ \A ip \in Ips : ip_to_loc'[ip] = None /\ pending'[ip] = None
  BY DEF ControllerRestarts
<1>2. EventHops' /\ OrderHops'
  BY <1>1, RangeOfNone DEF EventHops, OrderHops
<1>3. LocationHops' /\ QueueHops'
  BY <1>1 DEF LocationHops, QueueHops
<1> QED  BY <1>1, <1>2, <1>3 DEF HopInv, WireHops, TableHops, DeliveredHops

(* Rules grow old and stay what they were.                                 *)
LEMMA TimePassesHops ==
  ASSUME NetInv, HopInv, TimePasses PROVE HopInv'
<1>1. /\ delivered' = {} /\ UNCHANGED <<wire, to_controller, to_switch, ip_to_loc, pending>>
  BY DEF TimePasses, Elapse
<1>2. ASSUME NEW r, LawfulRule(r) PROVE Aged(r).match = r.match /\ Aged(r).actions = r.actions
  BY <1>2 DEF LawfulRule, Aged
<1>3. \A d \in Dpids : \A x \in tables'[d] : \E r \in tables[d] : x = Aged(r)
  BY DEF TimePasses
<1>4. ASSUME NEW d \in Dpids, NEW x \in tables'[d] PROVE RuleHops(d, x.match, x.actions)
  <2>1. PICK r \in tables[d] : x = Aged(r)
    BY <1>3
  <2>2. LawfulRule(r) /\ RuleHops(d, r.match, r.actions)
    BY DEF NetInv, TablesLawful, HopInv, TableHops
  <2> QED  BY <1>2, <2>1, <2>2
<1> QED  BY <1>1, <1>4 DEF HopInv, WireHops, TableHops, EventHops, OrderHops, DeliveredHops,
           LocationHops, QueueHops

-----------------------------------------------------------------------------
(* The controller's messages. *)

MessagesHop(msgs) == \A i \in DOMAIN msgs : msgs[i] # None => MessageHops(msgs[i].to, msgs[i])

SentHops == \A i \in DOMAIN sent : MessageHops(sent[i].to, sent[i])

(* What is sent is of what is to be sent.                                  *)
LEMMA SendHops == ASSUME NEW msgs, MessagesHop(msgs), Send(msgs) PROVE SentHops'
<1>1. \A i \in DOMAIN sent' : i \in DOMAIN msgs /\ sent'[i] = msgs[i] /\ msgs[i] # None
  BY DEF Send, Restrict
<1>2. \A i \in DOMAIN sent' : MessageHops(sent'[i].to, sent'[i])
  BY <1>1 DEF MessagesHop
<1> QED  BY <1>2 DEF SentHops

(* No message.                                                             *)
LEMMA NothingHops == MessagesHop(<<>>)
  BY DEF MessagesHop

(* One message.                                                            *)
LEMMA OneHops ==
  ASSUME NEW m, MessageHops(m.to, m)
  PROVE  MessagesHop(<<m>>)
<1>1. DOMAIN <<m>> = {1} /\ <<m>>[1] = m
  OBVIOUS
<1> QED  BY <1>1 DEF MessagesHop

(* One after the other.                                                    *)
LEMMA ConcatHops ==
  ASSUME NEW S, NEW s \in Seq(S), NEW t \in Seq(S), MessagesHop(s), MessagesHop(t)
  PROVE  MessagesHop(s \o t)
<1>1. MessagesHop(s) <=> \A m \in Range(s) : m # None => MessageHops(m.to, m)
  BY DEF MessagesHop, Range
<1>2. MessagesHop(t) <=> \A m \in Range(t) : m # None => MessageHops(m.to, m)
  BY DEF MessagesHop, Range
<1>3. MessagesHop(s \o t) <=> \A m \in Range(s \o t) : m # None => MessageHops(m.to, m)
  BY DEF MessagesHop, Range
<1> QED  BY <1>1, <1>2, <1>3, RangeOfConcat

(* A packet sent out of one port.                                          *)
LEMMA PacketOutHops ==
  ASSUME NEW dpid, NEW frame, NEW port, MayEmit(dpid, port, frame)
  PROVE  MessageHops(PacketOut(dpid, frame, port).to, PacketOut(dpid, frame, port))
<1> DEFINE m == PacketOut(dpid, frame, port)
<1>1. /\ m.op = "packet_out" /\ m.to = dpid /\ m.frame = frame /\ m.out = port
      /\ "in_port" \notin DOMAIN m
  BY DEF PacketOut
<1> HIDE DEF m
<1>2. MessageHops(m.to, m)
  BY <1>1 DEF MessageHops, OutPorts
<1> QED  BY <1>2 DEF m

(* The core has no uplink.                                                 *)
LEMMA CorePorts ==
  ASSUME NEW port
  PROVE  ~is_leaf_uplink(CORE_DPID, port)
  BY PortMapsAssumption DEF is_leaf_uplink

(* What may stay in its zone: what came down an uplink, and otherwise what *)
(* does not cross.                                                         *)
Stays(ev) ==
  /\ MayEnter(ev.dpid, ev.port, ev.frame)
  /\ ~is_leaf_uplink(ev.dpid, ev.port) => ~Crosses(ev.frame)

(* It may be emitted anywhere else on its switch.                          *)
LEMMA StaysAnywhere ==
  ASSUME NEW ev, Stays(ev), NEW port, port # ev.port
  PROVE  MayEmit(ev.dpid, port, ev.frame)
<1>1. ~(is_leaf_uplink(ev.dpid, ev.port) /\ is_leaf_uplink(ev.dpid, port))
  BY DEF is_leaf_uplink
<1> QED  BY <1>1, UplinkOf DEF Stays, MayEnter, MayEmit, Routed

(* Flooding (_flood_in_zone()).                                            *)
LEMMA FloodHops == ASSUME NEW ev, Stays(ev) PROVE MessagesHop(flood_in_zone(ev))
<1>1. CASE ev.dpid = CORE_DPID
  <2> DEFINE ports == ZONE_CORE_PORTS(zone_of_port(CORE_DPID, ev.port)) \ {ev.port}
  <2>1. flood_in_zone(ev) = [port \in ports |-> PacketOut(CORE_DPID, ev.frame, port)]
    BY <1>1 DEF flood_in_zone
  <2>2. ASSUME NEW port \in ports
        PROVE  LET m == PacketOut(CORE_DPID, ev.frame, port) IN MessageHops(m.to, m)
    <3>1. MayEmit(CORE_DPID, port, ev.frame)
      BY <1>1, StaysAnywhere
    <3> QED  BY <3>1, PacketOutHops
  <2> HIDE DEF ports
  <2> QED  BY <2>1, <2>2 DEF MessagesHop
<1>2. CASE ev.dpid # CORE_DPID
  <2> DEFINE m == FloodOut(ev)
  <2>1. /\ m.op = "packet_out" /\ m.to = ev.dpid /\ m.frame = ev.frame
        /\ OutPorts(m) = Ports \ {ev.port}
    BY DEF FloodOut, OutPorts
  <2>2. flood_in_zone(ev) = <<m>>
    BY <1>2 DEF flood_in_zone
  <2> HIDE DEF m
  <2>3. \A port \in OutPorts(m) : MayEmit(ev.dpid, port, ev.frame)
    BY <2>1, StaysAnywhere
  <2>4. MessageHops(m.to, m)
    BY <2>1, <2>3 DEF MessageHops
  <2> QED  BY <2>2, <2>4, OneHops
<1> QED  BY <1>1, <1>2

(* Layer-2 forwarding: the rule is for what comes down an uplink or does   *)
(* not cross (_l2_forward()).                                              *)
LEMMA L2Hops == ASSUME NEW ev \in Items, Stays(ev) PROVE MessagesHop(l2_forward(ev))
<1> DEFINE port == mac_table'[ev.dpid][ev.frame.dst]
           rule == FlowMod(ev.dpid, from_packet(ev.frame, ev.port),
                           ROUTED_FLOW_IDLE_TIMEOUT, ROUTED_FLOW_HARD_TIMEOUT, Output(port))
           copy == PacketOut(ev.dpid, ev.frame, port)
           rest == IF port = ev.port THEN <<>> ELSE <<copy>>
<1>1. CASE port = None
  BY <1>1, FloodHops DEF l2_forward
<1>2. CASE port # None
  <2>1. l2_forward(ev) = <<rule>> \o rest
    BY <1>2 DEF l2_forward
  <2>2. MessageHops(rule.to, rule)
    <3>1. /\ rule.op = "flow_mod" /\ rule.to = ev.dpid
          /\ rule.match.frame = from_packet(ev.frame, ev.port).frame
          /\ rule.match.in_port = ev.port /\ "dec_ttl" \notin DOMAIN rule.actions
      BY DEF FlowMod, Output, from_packet
    <3>2. Crosses(rule.match.frame) => is_leaf_uplink(ev.dpid, ev.port)
      BY <3>1, MatchKeepsHeaders DEF Stays, Items
    <3> HIDE DEF rule
    <3> QED  BY <3>1, <3>2 DEF MessageHops, RuleHops
  <2> HIDE DEF rule
  <2>3. port # ev.port => MessageHops(copy.to, copy)
    BY StaysAnywhere, PacketOutHops
  <2> HIDE DEF copy, port
  <2>4. <<rule>> \in Seq({rule, copy}) /\ MessagesHop(<<rule>>)
    BY <2>2, OneHops
  <2>5. rest \in Seq({rule, copy}) /\ MessagesHop(rest)
    <3>1. CASE port = ev.port
      BY <3>1, NothingHops
    <3>2. CASE port # ev.port
      BY <2>3, <3>2, OneHops
    <3> QED  BY <3>1, <3>2
  <2> HIDE DEF rest
  <2>6. MessagesHop(<<rule>> \o rest)
    BY <2>4, <2>5, ConcatHops
  <2> QED  BY <2>1, <2>6
<1> QED  BY <1>1, <1>2

(* A drop rule emits nothing (_install_drop_flow()).                       *)
LEMMA DropHops == ASSUME NEW ev PROVE MessagesHop(install_drop_flow(ev))
<1> DEFINE rule == FlowMod(ev.dpid, from_packet(ev.frame, ev.port),
                           DROP_FLOW_IDLE_TIMEOUT, DROP_FLOW_HARD_TIMEOUT, DropActions)
<1>1. rule.op = "flow_mod" /\ rule.actions.out = None /\ "dec_ttl" \notin DOMAIN rule.actions
  BY DEF FlowMod, DropActions
<1>2. install_drop_flow(ev) = <<rule>>
  BY DEF install_drop_flow
<1> HIDE DEF rule
<1>3. MessageHops(rule.to, rule)
  BY <1>1 DEF MessageHops, RuleHops
<1> QED  BY <1>2, <1>3, OneHops

(* An ICMP error stays in the zone of the host it is for                   *)
(* (_send_icmp_error()).                                                   *)
LEMMA ErrorHops ==
  ASSUME NEW item, Accepted(item), Waits(item), NEW kind
  PROVE  LET m == icmp_error(item, kind) IN MessageHops(m.to, m)
<1> DEFINE zone == zone_of_port(item.dpid, item.port)
           m == icmp_error(item, kind)
<1>1. zone \in ZONES /\ zone_for_ip(item.frame.srcip) = zone /\ zone # None
  BY ValidSource, PolicyAssumption DEF Accepted
<1>2. zone_for_ip(Gateway[zone]) = zone
  BY <1>1, ZoneOfGateway
<1>3. /\ ~Crosses(m.frame) /\ m.op = "packet_out" /\ m.to = item.dpid /\ m.out = item.port
      /\ "in_port" \notin DOMAIN m
  BY <1>1, <1>2 DEF icmp_error, Crosses
<1> HIDE DEF m
<1>4. MayEmit(item.dpid, item.port, m.frame)
  BY <1>3 DEF MayEmit, Routed, Waits
<1>5. MessageHops(m.to, m)
  BY <1>3, <1>4 DEF MessageHops, OutPorts
<1> QED  BY <1>5 DEF m

(* The controller's own hop (_forward_ip()).                               *)
LEMMA ForwardHops ==
  ASSUME NEW item, Accepted(item), Waits(item), NEW port, NEW mac, NEW zone,
         zone = zone_for_ip(item.frame.dstip), Known(item.frame.dstip, mac)
  PROVE  LET m == forward_ip(item, zone, port, mac) IN MessageHops(m.to, m)
<1>1. CASE item.frame.ttl <= 1
  <2>1. forward_ip(item, zone, port, mac) = icmp_error(item, "time_exceeded")
    BY <1>1 DEF forward_ip
  <2> QED  BY <2>1, ErrorHops
<1>2. CASE ~(item.frame.ttl <= 1)
  <2>1. item.frame.ttl = DefaultTtl
    BY <1>2 DEF Waits, FromHost, Accepted
  <2> DEFINE f == [item.frame EXCEPT !.src = GatewayMac[zone], !.dst = mac, !.ttl = @ - 1]
  <2>2. forward_ip(item, zone, port, mac) = PacketOut(CORE_DPID, f, port)
    BY <1>2 DEF forward_ip
  <2>3. item.frame \in IpFrames
    BY AcceptedFrame
  <2>4. /\ f.ttl = DefaultTtl - 1 /\ f.src = GatewayMac[zone] /\ f.dst = mac
        /\ f.dstip = item.frame.dstip
    BY <2>1, <2>3 DEF IpFrames
  <2> HIDE DEF f
  <2>5. MayEmit(CORE_DPID, port, f)
    BY <2>4, CorePorts DEF MayEmit, Routed
  <2> QED  BY <2>2, <2>5, PacketOutHops
<1> QED  BY <1>1, <1>2

(* The rules that make the hop in its place (_install_route_flows()).      *)
LEMMA RouteRulesHop ==
  ASSUME NEW ev, Accepted(ev), Waits(ev), NEW port, NEW mac, NEW zone,
         zone = zone_for_ip(ev.frame.dstip), Known(ev.frame.dstip, mac),
         NEW m, MessageHops(m.to, m)
  PROVE  MessagesHop(install_route_flows(ev, zone, port, mac) \o <<m>>)
<1> DEFINE core_rule ==
             FlowMod(CORE_DPID, from_packet(ev.frame, core_port_for(ev.dpid, ev.port)),
                     ROUTED_FLOW_IDLE_TIMEOUT, ROUTED_FLOW_HARD_TIMEOUT,
                     [out |-> port, set_src |-> GatewayMac[zone],
                      set_dst |-> mac, dec_ttl |-> TRUE])
           leaf_rule ==
             FlowMod(ev.dpid, from_packet(ev.frame, ev.port),
                     ROUTED_FLOW_IDLE_TIMEOUT, ROUTED_FLOW_HARD_TIMEOUT,
                     Output(LEAF_UPLINK_PORT[ev.dpid]))
<1>1. ev.frame \in Frames /\ Crosses(ev.frame) /\ ev.frame.type = "IP"
  BY DEF Accepted, Items
<1>2. MessageHops(core_rule.to, core_rule)
  <2>1. /\ core_rule.op = "flow_mod" /\ core_rule.to = CORE_DPID
        /\ core_rule.match.frame =
             from_packet(ev.frame, core_port_for(ev.dpid, ev.port)).frame
        /\ "dec_ttl" \in DOMAIN core_rule.actions
        /\ core_rule.actions.set_src = GatewayMac[zone] /\ core_rule.actions.set_dst = mac
    BY DEF FlowMod
  <2>2. Crosses(core_rule.match.frame) /\ core_rule.match.frame.dstip = ev.frame.dstip
    BY <1>1, <2>1, MatchKeepsHeaders
  <2> HIDE DEF core_rule
  <2> QED  BY <2>1, <2>2 DEF MessageHops, RuleHops
<1>3. ASSUME ev.dpid # CORE_DPID PROVE MessageHops(leaf_rule.to, leaf_rule)
  <2>1. /\ leaf_rule.op = "flow_mod" /\ leaf_rule.to = ev.dpid
        /\ leaf_rule.actions.out = LEAF_UPLINK_PORT[ev.dpid]
        /\ "dec_ttl" \notin DOMAIN leaf_rule.actions
    BY DEF FlowMod, Output
  <2>2. ev.dpid \in Leaves
    <3>1. zone_of_port(ev.dpid, ev.port) \in ZONES
      BY ValidSource DEF Accepted
    <3>2. zone_of_port(ev.dpid, ev.port) # None
      BY <3>1, PolicyAssumption
    <3> QED  BY <1>3, <3>2 DEF zone_of_port
  <2> HIDE DEF leaf_rule
  <2>3. is_leaf_uplink(ev.dpid, leaf_rule.actions.out)
    BY <2>1, <2>2 DEF is_leaf_uplink
  <2> QED  BY <2>1, <2>3 DEF MessageHops, RuleHops
<1> HIDE DEF core_rule, leaf_rule
<1> DEFINE rules == install_route_flows(ev, zone, port, mac)
           S == {core_rule, leaf_rule, m}
           rest == IF ev.dpid = CORE_DPID THEN <<>> ELSE <<leaf_rule>>
<1>4. rules \in Seq(S) /\ MessagesHop(rules)
  <2>1. rules = <<>> \/ rules = <<core_rule>> \o rest
    BY DEF install_route_flows, core_rule, leaf_rule
  <2>2. rest \in Seq(S) /\ MessagesHop(rest)
    <3>1. CASE ev.dpid = CORE_DPID
      BY <3>1, NothingHops
    <3>2. CASE ev.dpid # CORE_DPID
      BY <1>3, <3>2, OneHops
    <3> QED  BY <3>1, <3>2
  <2>3. <<core_rule>> \in Seq(S) /\ MessagesHop(<<core_rule>>)
    BY <1>2, OneHops
  <2>4. <<>> \in Seq(S)
    OBVIOUS
  <2> HIDE DEF rest, S, rules
  <2>5. <<core_rule>> \o rest \in Seq(S) /\ MessagesHop(<<core_rule>> \o rest)
    BY <2>2, <2>3, ConcatHops, ConcatProperties
  <2> QED  BY <2>1, <2>4, <2>5, NothingHops
<1>5. <<m>> \in Seq(S) /\ MessagesHop(<<m>>)
  BY OneHops
<1> HIDE DEF rules, S
<1>6. MessagesHop(rules \o <<m>>)
  BY <1>4, <1>5, ConcatHops
<1> QED  BY <1>6 DEF rules

(* A probe crosses no zones (_send_arp_probe()).                           *)
LEMMA ProbeHops == ASSUME NEW ip, NEW zone PROVE MessagesHop(send_arp_probe(ip, zone))
<1> DEFINE probe == [type |-> "ARP", src |-> GatewayMac[zone], dst |-> Broadcast,
                     opcode |-> "REQUEST", hwsrc |-> GatewayMac[zone],
                     protosrc |-> Gateway[zone], protodst |-> ip]
<1>1. send_arp_probe(ip, zone) =
        [port \in ZONE_CORE_PORTS(zone) |-> PacketOut(CORE_DPID, probe, port)]
  BY DEF send_arp_probe
<1>2. ~Crosses(probe)
  BY DEF Crosses
<1> HIDE DEF probe
<1>3. \A port : MayEmit(CORE_DPID, port, probe)
  BY <1>2, CorePorts DEF MayEmit, Routed
<1>4. \A port : LET m == PacketOut(CORE_DPID, probe, port) IN MessageHops(m.to, m)
  BY <1>3, PacketOutHops
<1> QED  BY <1>1, <1>4 DEF MessagesHop

-----------------------------------------------------------------------------
(* The controller's handlers. *)

(* What the controller knows and what it has sent.                         *)
RouterHops == LocationHops /\ QueueHops /\ SentHops

(* A location is learned from what a host sends (_learn()).                *)
LEMMA LearnHops ==
  ASSUME TypeOK, LocationHops, NEW dpid, NEW port, NEW ip \in Ips, NEW mac, NEW zone,
         Behind(core_port_for(dpid, port), ip, mac), learn(dpid, port, ip, mac, zone)
  PROVE  LocationHops'
<1> DEFINE loc == [port |-> core_port_for(dpid, port), mac |-> mac, zone |-> zone]
<1>1. loc.mac = mac /\ loc.port = core_port_for(dpid, port)
  OBVIOUS
<1>2. ip_to_loc' = ip_to_loc \/ ip_to_loc' = [ip_to_loc EXCEPT ![ip] = loc]
  BY DEF learn
<1> HIDE DEF loc
<1>3. \A j \in Ips : ip_to_loc'[j] = ip_to_loc[j] \/ (j = ip /\ ip_to_loc'[j] = loc)
  BY <1>2 DEF TypeOK
<1>4. \A j \in Ips : ip_to_loc'[j] # None => Behind(ip_to_loc'[j].port, j, ip_to_loc'[j].mac)
  BY <1>1, <1>3 DEF LocationHops
<1> QED  BY <1>4 DEF LocationHops

(* A queue may hold what a host sends (_queue_and_resolve()).              *)
LEMMA QueueingHops ==
  ASSUME TypeOK, QueueHops, NEW item, Accepted(item), Waits(item), NEW zone,
         queue_and_resolve(item, zone)
  PROVE  QueueHops' /\ SentHops'
<1> DEFINE ip == item.frame.dstip
<1>1. ip \in Ips /\ item \in Items
  BY AcceptedFrame DEF IpFrames
<1>2. ASSUME NEW entry, pending' = [pending EXCEPT ![ip] = entry],
             \A i \in DOMAIN entry.queue : Waits(entry.queue[i])
      PROVE  QueueHops'
  <2>1. \A j \in Ips : pending'[j] = pending[j] \/ (j = ip /\ pending'[j] = entry)
    BY <1>2 DEF TypeOK
  <2>2. \A j \in Ips : pending'[j] # None =>
          \A i \in DOMAIN pending'[j].queue : Waits(pending'[j].queue[i])
    BY <1>2, <2>1 DEF QueueHops
  <2> QED  BY <2>2 DEF QueueHops
<1>3. CASE pending[ip] = None
  <2> DEFINE entry == [zone |-> zone, queue |-> <<item>>, retries |-> 1]
  <2>1. pending' = [pending EXCEPT ![ip] = entry] /\ Send(send_arp_probe(ip, zone))
    BY <1>3 DEF queue_and_resolve
  <2>2. \A i \in DOMAIN entry.queue : entry.queue[i] = item
    OBVIOUS
  <2> HIDE DEF entry
  <2>3. QueueHops'
    BY <1>2, <2>1, <2>2
  <2> QED  BY <2>1, <2>3, ProbeHops, SendHops
<1>4. CASE pending[ip] # None
  <2> DEFINE q == pending[ip].queue
             entry == [pending[ip] EXCEPT !.queue = Append(@, item)]
  <2>1. pending' = [pending EXCEPT ![ip] = entry] /\ Send(<<>>)
    BY <1>4 DEF queue_and_resolve
  <2>2. pending[ip] \in Resolutions
    BY <1>1, <1>4 DEF TypeOK
  <2>3. q \in Seq(Items) /\ entry.queue = Append(q, item)
    BY <2>2 DEF Resolutions
  <2>4. \A i \in DOMAIN q : Waits(q[i])
    BY <1>1, <1>4 DEF QueueHops
  <2> HIDE DEF entry, q
  <2>5. \A i \in DOMAIN Append(q, item) :
          (i \in DOMAIN q /\ Append(q, item)[i] = q[i]) \/ Append(q, item)[i] = item
    BY <1>1, <2>3, AppendProperties, LenProperties
  <2>6. \A i \in DOMAIN entry.queue : Waits(entry.queue[i])
    BY <2>3, <2>4, <2>5
  <2>7. QueueHops'
    BY <1>2, <2>1, <2>6
  <2> QED  BY <2>1, <2>7, NothingHops, SendHops
<1> QED  BY <1>3, <1>4

(* A queue that is flushed goes to the host that answered                  *)
(* (_resolve_pending()).                                                   *)
LEMMA ResolvingHops ==
  ASSUME TypeOK, QueuesAreJustified, QueueHops, NEW ip \in Ips, NEW mac, Known(ip, mac),
         resolve_pending(ip, mac)
  PROVE  QueueHops' /\ SentHops'
<1>1. CASE pending[ip] = None
  <2>1. pending' = pending /\ Send(<<>>)
    BY <1>1 DEF resolve_pending
  <2> QED  BY <2>1, NothingHops, SendHops DEF QueueHops
<1>2. CASE pending[ip] # None
  <2> DEFINE entry == pending[ip]
             msg(i) == forward_ip(entry.queue[i], entry.zone, ip_to_loc'[ip].port, mac)
             msgs == [i \in DOMAIN entry.queue |-> msg(i)]
  <2>1. pending' = [pending EXCEPT ![ip] = None] /\ Send(msgs)
    BY <1>2 DEF resolve_pending
  <2>2. QueueHops'
    BY <2>1 DEF QueueHops, TypeOK
  <2>3. /\ entry.zone = zone_for_ip(ip)
        /\ \A i \in DOMAIN entry.queue :
             /\ Accepted(entry.queue[i]) /\ entry.queue[i].frame.dstip = ip
             /\ Waits(entry.queue[i])
    BY <1>2, QueuedAccepted DEF QueueHops
  <2>4. \A i \in DOMAIN entry.queue : MessageHops(msg(i).to, msg(i))
    BY <2>3, ForwardHops
  <2> HIDE DEF msg
  <2>5. MessagesHop(msgs)
    BY <2>4 DEF MessagesHop
  <2> QED  BY <2>1, <2>2, <2>5, SendHops
<1> QED  BY <1>1, <1>2

(* A retry probes again, and giving up answers the senders (_retry_arp()). *)
LEMMA RetryHops ==
  ASSUME TypeOK, QueuesAreJustified, LocationHops, QueueHops, NEW ip \in Ips, retry_arp(ip)
  PROVE  RouterHops'
<1> DEFINE entry == pending[ip]
<1>1. LocationHops'
  BY DEF retry_arp, LocationHops
<1>2. CASE entry = None
  <2>1. pending' = pending /\ Send(<<>>)
    BY <1>2 DEF retry_arp
  <2> QED  BY <1>1, <2>1, NothingHops, SendHops DEF QueueHops, RouterHops
<1>3. CASE entry # None /\ entry.retries >= ARP_MAX_RETRIES
  <2> DEFINE msg(i) == icmp_error(entry.queue[i], "host_unreachable")
             msgs == [i \in DOMAIN entry.queue |-> msg(i)]
  <2>1. entry \in Resolutions
    BY <1>3 DEF TypeOK
  <2>2. ~(entry.retries < ARP_MAX_RETRIES)
    BY <1>3, <2>1, RouterAssumption DEF Resolutions
  <2>3. pending' = [pending EXCEPT ![ip] = None] /\ Send(msgs)
    BY <1>3, <2>2 DEF retry_arp
  <2>4. QueueHops'
    BY <2>3 DEF QueueHops, TypeOK
  <2>5. \A i \in DOMAIN entry.queue : Accepted(entry.queue[i]) /\ Waits(entry.queue[i])
    BY <1>3, QueuedAccepted DEF QueueHops
  <2>6. \A i \in DOMAIN entry.queue : MessageHops(msg(i).to, msg(i))
    BY <2>5, ErrorHops
  <2> HIDE DEF msg
  <2>7. MessagesHop(msgs)
    BY <2>6 DEF MessagesHop
  <2> QED  BY <1>1, <2>3, <2>4, <2>7, SendHops DEF RouterHops
<1>4. CASE entry # None /\ ~(entry.retries >= ARP_MAX_RETRIES)
  <2> DEFINE next == [entry EXCEPT !.retries = @ + 1]
  <2>1. pending' = [pending EXCEPT ![ip] = next] /\ Send(send_arp_probe(ip, entry.zone))
    BY <1>4 DEF retry_arp
  <2>2. entry \in Resolutions
    BY <1>4 DEF TypeOK
  <2>3. next.queue = entry.queue
    BY <2>2 DEF Resolutions
  <2> HIDE DEF next
  <2>4. \A j \in Ips : pending'[j] = pending[j] \/ (j = ip /\ pending'[j] = next)
    BY <2>1 DEF TypeOK
  <2>5. \A j \in Ips : pending'[j] # None =>
          \A i \in DOMAIN pending'[j].queue : Waits(pending'[j].queue[i])
    BY <1>4, <2>3, <2>4 DEF QueueHops
  <2>6. QueueHops'
    BY <2>5 DEF QueueHops
  <2> QED  BY <1>1, <2>1, <2>6, ProbeHops, SendHops DEF RouterHops
<1> QED  BY <1>2, <1>3, <1>4

(* Ignored packets leave no trace.                                         *)
LEMMA IgnoreHops == ASSUME LocationHops, QueueHops, Ignore PROVE RouterHops'
<1>1. SentHops'
  BY NothingHops, SendHops DEF Ignore
<1> QED  BY <1>1 DEF Ignore, RouterHops, LocationHops, QueueHops

(* What comes down an uplink is passed on (_handle_transit()).             *)
LEMMA TransitHops ==
  ASSUME LocationHops, QueueHops, NEW ev \in Items, MayEnter(ev.dpid, ev.port, ev.frame),
         is_leaf_uplink(ev.dpid, ev.port), handle_transit(ev)
  PROVE  RouterHops'
<1>1. Stays(ev)
  BY DEF Stays
<1>2. SentHops'
  <2>1. Send(flood_in_zone(ev)) \/ Send(l2_forward(ev))
    BY DEF handle_transit
  <2> QED  BY <1>1, <2>1, FloodHops, L2Hops, SendHops
<1> QED  BY <1>2 DEF handle_transit, RouterHops, LocationHops, QueueHops

(* ARP: a host tells where it is; the gateway answers, a probe's reply     *)
(* resolves its address, anything else stays in the zone (_handle_arp()).  *)
LEMMA ArpHops ==
  ASSUME TypeOK, QueuesAreJustified, LocationHops, QueueHops, NEW ev \in Items,
         ev.frame.type = "ARP", MayEnter(ev.dpid, ev.port, ev.frame),
         ~is_leaf_uplink(ev.dpid, ev.port), handle_arp(ev)
  PROVE  RouterHops'
<1> DEFINE arp == ev.frame
           zone == zone_of_port(ev.dpid, ev.port)
<1>1. ev.dpid \in Dpids /\ ev.port \in Ports /\ arp.protosrc \in Ips
  BY DEF Items, Frames, IpFrames, ArpFrames, OtherFrames
<1>2. /\ Behind(core_port_for(ev.dpid, ev.port), arp.protosrc, arp.hwsrc)
      /\ ~Crosses(arp) /\ Stays(ev)
  BY DEF MayEnter, FromHost, Crosses, Stays
<1>3. CASE ~source_ip_valid_for_zone(arp.protosrc, zone)
  BY <1>3, IgnoreHops DEF handle_arp
<1>4. CASE source_ip_valid_for_zone(arp.protosrc, zone)
  <2>1. learn(ev.dpid, ev.port, arp.protosrc, arp.hwsrc, zone)
    BY <1>4 DEF handle_arp
  <2>2. LocationHops'
    BY <1>1, <1>2, <2>1, LearnHops
  <2>3. CASE arp.opcode = "REQUEST" /\ IsGateway(arp.protodst)
    <3> DEFINE answer == [type |-> "ARP", src |-> GatewayMac[zone], dst |-> arp.hwsrc,
                          opcode |-> "REPLY", hwsrc |-> GatewayMac[zone],
                          protosrc |-> arp.protodst, protodst |-> arp.protosrc]
               m == PacketOut(ev.dpid, answer, ev.port)
    <3>1. pending' = pending /\ Send(<<m>>)
      BY <1>4, <2>3 DEF handle_arp
    <3>2. ~Crosses(answer)
      BY DEF Crosses
    <3> HIDE DEF answer
    <3>3. MessageHops(m.to, m)
      <4>1. MayEmit(ev.dpid, ev.port, answer)
        BY <3>2 DEF MayEmit, Routed
      <4> QED  BY <4>1, PacketOutHops
    <3> HIDE DEF m
    <3>4. SentHops'
      BY <3>1, <3>3, OneHops, SendHops
    <3> QED  BY <2>2, <3>1, <3>4 DEF RouterHops, QueueHops
  <2>4. CASE arp.opcode = "REPLY" /\ IsGateway(arp.protodst)
    <3>1. resolve_pending(arp.protosrc, arp.hwsrc)
      <4>1. arp.opcode # "REQUEST"
        BY <2>4
      <4> QED  BY <1>4, <2>4, <4>1 DEF handle_arp
    <3> QED  BY <1>1, <1>2, <2>2, <3>1, BehindKnown, ResolvingHops DEF RouterHops
  <2>5. CASE ~(arp.opcode \in {"REQUEST", "REPLY"} /\ IsGateway(arp.protodst))
    <3>1. pending' = pending /\ Send(flood_in_zone(ev))
      BY <1>4, <2>5 DEF handle_arp
    <3>2. SentHops'
      BY <1>2, <3>1, FloodHops, SendHops
    <3> QED  BY <2>2, <3>1, <3>2 DEF RouterHops, QueueHops
  <2> QED  BY <2>3, <2>4, <2>5
<1> QED  BY <1>3, <1>4

(* An accepted packet is routed at once, by a message and by rules, or     *)
(* waits (_route()).                                                       *)
LEMMA RouteHops ==
  ASSUME TypeOK, QueueHops, LocationHops', NEW ev, Accepted(ev), Waits(ev),
         route(ev, zone_for_ip(ev.frame.dstip))
  PROVE  QueueHops' /\ SentHops'
<1> DEFINE ip == ev.frame.dstip
           zone == zone_for_ip(ip)
           loc == ip_to_loc'[ip]
<1>1. ip \in Ips
  BY AcceptedFrame DEF IpFrames
<1>2. CASE loc # None
  <2> DEFINE m == forward_ip(ev, zone, loc.port, loc.mac)
             msgs == install_route_flows(ev, zone, loc.port, loc.mac) \o <<m>>
  <2>1. pending' = pending /\ Send(msgs)
    BY <1>2 DEF route
  <2>2. Known(ip, loc.mac)
    BY <1>1, <1>2, BehindKnown DEF LocationHops
  <2>3. MessageHops(m.to, m)
    BY <2>2, ForwardHops
  <2> HIDE DEF m
  <2>4. MessagesHop(msgs)
    BY <2>2, <2>3, RouteRulesHop
  <2> HIDE DEF msgs
  <2> QED  BY <2>1, <2>4, SendHops DEF QueueHops
<1>3. CASE loc = None
  <2>1. queue_and_resolve(ev, zone)
    BY <1>3 DEF route
  <2> QED  BY <2>1, QueueingHops
<1> QED  BY <1>2, <1>3

(* IP: a host is located by what it sends, and its packet stays in its     *)
(* zone, or is blocked, or is routed (_handle_ip()).                       *)
LEMMA IpHops ==
  ASSUME SafetyInv, LocationHops, QueueHops, NEW ev \in Items,
         ev.frame.type = "IP", MayEnter(ev.dpid, ev.port, ev.frame),
         ~is_leaf_uplink(ev.dpid, ev.port), handle_ip(ev)
  PROVE  RouterHops'
<1> DEFINE p == ev.frame
           src_zone == zone_of_port(ev.dpid, ev.port)
           dst_zone == zone_for_ip(p.dstip)
<1>1. p \in IpFrames /\ p.srcip \in Ips /\ TypeOK
  BY DEF Items, Frames, IpFrames, ArpFrames, OtherFrames, SafetyInv, TablesInv
<1>2. Waits(ev) /\ Behind(core_port_for(ev.dpid, ev.port), p.srcip, p.src)
  BY DEF MayEnter, FromHost, Waits
<1>3. CASE ~source_ip_valid_for_zone(p.srcip, src_zone)
  BY <1>3, IgnoreHops DEF handle_ip
<1>4. CASE source_ip_valid_for_zone(p.srcip, src_zone)
  <2>1. learn(ev.dpid, ev.port, p.srcip, p.src, src_zone)
    BY <1>4 DEF handle_ip
  <2>2. LocationHops'
    BY <1>1, <1>2, <2>1, LearnHops
  <2>3. zone_for_ip(p.srcip) = src_zone /\ src_zone \in ZONES
    BY <1>4, ValidSource
  <2>4. CASE IsGateway(p.dstip) \/ dst_zone \in {None, src_zone}
    <3>1. /\ pending' = pending
          /\ Send(IF IsGateway(p.dstip) \/ dst_zone = None THEN <<>> ELSE l2_forward(ev))
      BY <1>4, <2>4 DEF handle_ip
    <3>2. SentHops'
      <4>1. CASE IsGateway(p.dstip) \/ dst_zone = None
        <5>1. Send(<<>>)
          BY <3>1, <4>1
        <5> QED  BY <5>1, NothingHops, SendHops
      <4>2. CASE ~(IsGateway(p.dstip) \/ dst_zone = None)
        <5>1. Send(l2_forward(ev)) /\ ~Crosses(p)
          BY <2>3, <2>4, <3>1, <4>2 DEF Crosses
        <5>2. Stays(ev)
          BY <5>1 DEF Stays
        <5> QED  BY <5>1, <5>2, L2Hops, SendHops
      <4> QED  BY <4>1, <4>2
    <3> QED  BY <2>2, <3>1, <3>2 DEF RouterHops, QueueHops
  <2>5. CASE ~(IsGateway(p.dstip) \/ dst_zone \in {None, src_zone})
    <3>1. handle_crossing(ev, src_zone, dst_zone)
      BY <1>4, <2>5 DEF handle_ip
    <3>2. dst_zone \in ZONES /\ Crosses(p)
      BY <2>3, <2>5, ZoneOrNone DEF Crosses
    <3>3. PICK allowed \in backend_verdicts(src_zone, p) :
            /\ last_seen' = check_table(last_seen, allowed, tracked(p))
            /\ IF check_verdict(last_seen, allowed, tracked(p)) = "drop"
                 THEN Send(install_drop_flow(ev)) /\ UNCHANGED <<pending, timers>>
                 ELSE route(ev, dst_zone)
      BY <3>1 DEF handle_crossing
    <3>4. allowed = Permits(p.srcip, p.dstip, p.kind)
      BY <1>4, <2>5, BackendsAgree
    <3>5. check_verdict(last_seen, allowed, tracked(p)) # "drop" => Justified(p)
      BY <1>1, <3>2, <3>3, <3>4, TrackingSafe DEF SafetyInv, TablesInv
    <3>6. CASE check_verdict(last_seen, allowed, tracked(p)) = "drop"
      <4>1. Send(install_drop_flow(ev)) /\ pending' = pending
        BY <3>3, <3>6
      <4>2. SentHops'
        BY <4>1, DropHops, SendHops
      <4> QED  BY <2>2, <4>1, <4>2 DEF RouterHops, QueueHops
    <3>7. CASE check_verdict(last_seen, allowed, tracked(p)) # "drop"
      <4>1. route(ev, dst_zone) /\ Accepted(ev)
        BY <1>4, <3>2, <3>3, <3>5, <3>7 DEF Accepted
      <4>2. QueueHops' /\ SentHops'
        BY <1>1, <1>2, <2>2, <4>1, RouteHops
      <4> QED  BY <2>2, <4>2 DEF RouterHops
    <3> QED  BY <3>6, <3>7
  <2> QED  BY <2>4, <2>5
<1> QED  BY <1>3, <1>4

(* Every packet-in (_handle_PacketIn()).                                   *)
LEMMA PacketInHops ==
  ASSUME SafetyInv, LocationHops, QueueHops, NEW ev \in Items,
         MayEnter(ev.dpid, ev.port, ev.frame), PacketIn(ev)
  PROVE  RouterHops'
<1> DEFINE type == ev.frame.type
           uplink == is_leaf_uplink(ev.dpid, ev.port)
<1>1. /\ type \in {"IP", "ARP", "INCOMPLETE", "LLDP", "OTHER"}
      /\ TypeOK /\ QueuesAreJustified
  BY DEF Items, Frames, IpFrames, ArpFrames, OtherFrames, SafetyInv, TablesInv
<1>2. CASE type \in {"INCOMPLETE", "LLDP"}
  BY <1>1, <1>2, IgnoreHops DEF PacketIn
<1>3. CASE type \notin {"INCOMPLETE", "LLDP"} /\ uplink
  BY <1>1, <1>3, TransitHops DEF PacketIn
<1>4. CASE type = "ARP" /\ ~uplink
  BY <1>1, <1>4, ArpHops DEF PacketIn
<1>5. CASE type = "IP" /\ ~uplink
  BY <1>1, <1>5, IpHops DEF PacketIn
<1>6. CASE type = "OTHER" /\ ~uplink
  <2>1. Send(flood_in_zone(ev)) /\ pending' = pending /\ ip_to_loc' = ip_to_loc
    BY <1>6 DEF PacketIn
  <2>2. Stays(ev)
    BY <1>6 DEF Stays, Crosses
  <2>3. SentHops'
    BY <2>1, <2>2, FloodHops, SendHops
  <2> QED  BY <2>1, <2>3 DEF RouterHops, LocationHops, QueueHops
<1> QED  BY <1>1, <1>2, <1>3, <1>4, <1>5, <1>6

-----------------------------------------------------------------------------
(* The network's steps in which the controller takes part. *)

(* The messages for a switch are some of those sent.                       *)
LEMMA OrderedAreSent ==
  ASSUME NEW dpid, NEW s \in InOrder(dpid), NEW m \in Range(s)
  PROVE  \E i \in DOMAIN sent' : m = sent'[i] /\ m.to = dpid
<1> DEFINE mine == {i \in DOMAIN sent' : sent'[i].to = dpid}
           n == Cardinality(mine)
<1>1. PICK at \in [1 .. n -> mine] : s = [k \in 1 .. n |-> sent'[at[k]]]
  BY DEF InOrder
<1> HIDE DEF n
<1>2. PICK k \in 1 .. n : m = sent'[at[k]]
  BY <1>1 DEF Range
<1>3. at[k] \in mine
  BY <1>1
<1> QED  BY <1>2, <1>3

(* What a step of the controller puts on the channels is what it sent.     *)
LEMMA TransmitsHops ==
  ASSUME SafeSent', SentHops', OrdersInv, OrderHops, Transmits
  PROVE  OrderHops'
<1>1. PICK msgs :
        /\ \A dpid \in online : msgs[dpid] \in InOrder(dpid)
        /\ to_switch' = [dpid \in Dpids |->
             IF dpid \in online THEN to_switch[dpid] \o msgs[dpid] ELSE <<>>]
  BY DEF Transmits
<1>2. ASSUME NEW d \in Dpids, NEW m \in Range(to_switch'[d]) PROVE MessageHops(d, m)
  <2>1. CASE d \in online
    <3>1. Messages(to_switch[d]) /\ Messages(msgs[d])
      BY <1>1, <2>1, SafeOrders DEF OrdersInv
    <3>2. PICK S : to_switch[d] \in Seq(S)
      BY <3>1 DEF Messages
    <3>3. PICK T : msgs[d] \in Seq(T)
      BY <3>1 DEF Messages
    <3> DEFINE U == S \cup T
    <3>4. S \subseteq U /\ T \subseteq U
      OBVIOUS
    <3> HIDE DEF U
    <3>5. to_switch[d] \in Seq(U)
      BY <3>2, <3>4, SeqMonotonic
    <3>6. msgs[d] \in Seq(U)
      BY <3>3, <3>4, SeqMonotonic
    <3>7. Range(to_switch[d] \o msgs[d]) \subseteq Range(to_switch[d]) \cup Range(msgs[d])
      BY <3>5, <3>6, RangeOfConcat
    <3>8. to_switch'[d] = to_switch[d] \o msgs[d]
      BY <1>1, <2>1
    <3>9. CASE m \in Range(to_switch[d])
      BY <3>9 DEF OrderHops
    <3>10. CASE m \in Range(msgs[d])
      <4>1. \E i \in DOMAIN sent' : m = sent'[i] /\ m.to = d
        BY <1>1, <2>1, <3>10, OrderedAreSent
      <4> QED  BY <4>1 DEF SentHops
    <3> QED  BY <1>2, <3>7, <3>8, <3>9, <3>10
  <2>2. CASE d \notin online
    <3>1. to_switch'[d] = <<>>
      BY <1>1, <2>2
    <3> QED  BY <1>2, <3>1, RangeOfNone
  <2> QED  BY <2>1, <2>2
<1> QED  BY <1>2 DEF OrderHops

(* A step of the controller that may be transmitted keeps the invariant.   *)
LEMMA ControllerHops ==
  ASSUME NetInv, HopInv, NetInv', RouterHops', Transmits, TableHops', EventHops'
  PROVE  HopInv'
<1>1. SafeSent' /\ OrdersInv
  BY DEF NetInv, SafetyInv
<1>2. OrderHops'
  BY <1>1, TransmitsHops DEF HopInv, RouterHops
<1>3. WireHops(wire) /\ wire' = wire /\ delivered' = {}
  BY DEF Transmits, HopInv
<1> QED  BY <1>2, <1>3 DEF HopInv, RouterHops, WireHops, DeliveredHops

(* A packet-in.                                                            *)
LEMMA ControllerReceivesHops ==
  ASSUME NetInv, HopInv, NetInv', NEW dpid \in Dpids, ControllerReceives(dpid) PROVE HopInv'
<1> DEFINE s == to_controller[dpid]
           ev == Head(s)
<1>1. /\ s \in Seq(Raised(dpid)) /\ s # <<>> /\ DOMAIN to_controller = Dpids
      /\ \A x \in Range(s) : MayEnter(dpid, x.port, x.frame)
  BY DEF NetInv, RaisedInv, HopInv, EventHops, ControllerReceives
<1>2. /\ PacketIn(ev) /\ to_controller' = [to_controller EXCEPT ![dpid] = Tail(s)]
      /\ Transmits /\ tables' = tables
  BY DEF ControllerReceives
<1> HIDE DEF s
<1>3. ev \in Raised(dpid) /\ ev \in Range(s) /\ Range(Tail(s)) \subseteq Range(s)
  BY <1>1, FirstAndRest, RangeOfTail
<1>4. ev \in Items /\ MayEnter(ev.dpid, ev.port, ev.frame)
  BY <1>1, <1>3 DEF Raised
<1> HIDE DEF ev
<1>5. RouterHops'
  BY <1>2, <1>4, PacketInHops DEF NetInv, HopInv
<1>6. EventHops'
  <2>1. \A d \in Dpids : to_controller'[d] = to_controller[d] \/
                         (d = dpid /\ to_controller'[d] = Tail(s))
    BY <1>1, <1>2
  <2>2. \A d \in Dpids : \A x \in Range(to_controller'[d]) : MayEnter(d, x.port, x.frame)
    BY <1>1, <1>3, <2>1 DEF HopInv, EventHops
  <2> QED  BY <2>2 DEF EventHops
<1>7. TableHops'
  BY <1>2 DEF HopInv, TableHops
<1> QED  BY <1>2, <1>5, <1>6, <1>7, ControllerHops

(* A retry timer.                                                          *)
LEMMA ControllerRetriesHops ==
  ASSUME NetInv, HopInv, NetInv', NEW ip \in Ips, ControllerRetries(ip) PROVE HopInv'
<1>1. RouterHops'
  BY RetryHops DEF ControllerRetries, NetInv, SafetyInv, TablesInv, HopInv
<1>2. TableHops' /\ EventHops' /\ Transmits
  BY DEF ControllerRetries, HopInv, TableHops, EventHops
<1> QED  BY <1>1, <1>2, ControllerHops

(* The sweep of the connection table.                                      *)
LEMMA ControllerSweepsHops ==
  ASSUME NetInv, HopInv, NetInv', ControllerSweeps PROVE HopInv'
<1>1. SentHops'
  BY NothingHops, SendHops DEF ControllerSweeps, Expire
<1>2. RouterHops'
  BY <1>1 DEF ControllerSweeps, Expire, HopInv, RouterHops, LocationHops, QueueHops
<1>3. TableHops' /\ EventHops' /\ Transmits
  BY DEF ControllerSweeps, HopInv, TableHops, EventHops
<1> QED  BY <1>2, <1>3, ControllerHops

(* A switch that connects has no rules.                                    *)
LEMMA SwitchConnectsHops ==
  ASSUME NetInv, HopInv, NetInv', NEW dpid \in Dpids, SwitchConnects(dpid) PROVE HopInv'
<1>1. SentHops'
  BY NothingHops, SendHops DEF SwitchConnects, ConnectionUp
<1>2. RouterHops'
  BY <1>1 DEF SwitchConnects, ConnectionUp, HopInv, RouterHops, LocationHops, QueueHops
<1>3. \A d \in Dpids : tables'[d] \subseteq tables[d]
  BY DEF SwitchConnects, rules_cleared, NetInv, TablesLawful
<1>4. TableHops' /\ EventHops' /\ Transmits
  BY <1>3 DEF SwitchConnects, HopInv, TableHops, EventHops
<1> QED  BY <1>2, <1>4, ControllerHops

-----------------------------------------------------------------------------
(* The theorems on router hops. *)

(* At first nothing is on its way.                                         *)
LEMMA HopsStart == NetInit => HopInv
<1> SUFFICES ASSUME NetInit PROVE HopInv
  OBVIOUS
<1>1. /\ \A d \in Dpids, p \in Ports : wire[d][p] = <<>>
      /\ \A d \in Dpids : tables[d] = {} /\ to_controller[d] = <<>> /\ to_switch[d] = <<>>
      /\ \A ip \in Ips : ip_to_loc[ip] = None /\ pending[ip] = None
      /\ delivered = {}
  BY DEF NetInit, Init
<1> QED  BY <1>1, RangeOfNone DEF HopInv, WireHops, TableHops, EventHops, OrderHops,
           DeliveredHops, LocationHops, QueueHops

(* Every step keeps the invariant.                                         *)
LEMMA HopsStep == NetInv /\ NetInv' /\ HopInv /\ [NetNext]_all_vars => HopInv'
<1> SUFFICES ASSUME NetInv, NetInv', HopInv, [NetNext]_all_vars PROVE HopInv'
  OBVIOUS
<1>1. ASSUME UNCHANGED all_vars PROVE HopInv'
  BY <1>1 DEF all_vars, router_vars, net_vars, HopInv, WireHops, TableHops, EventHops,
       OrderHops, DeliveredHops, LocationHops, QueueHops
<1> QED  BY <1>1, HostSendsHops, SwitchForwardsHops, SwitchObeysHops, RuleExpiresHops,
           ControllerReceivesHops, ControllerRetriesHops, ControllerSweepsHops,
           SwitchConnectsHops, ChannelBreaksHops, ControllerRestartsHops, TimePassesHops
         DEF NetNext

(* In every state of the network, whatever hosts send and whichever        *)
(* messages, rules and channels are late or lost, each frame has its       *)
(* router hop still to come or behind it as befits the place where it is   *)
(* (_forward_ip(), _install_route_flows(), _handle_transit()).             *)
THEOREM HopsHold == NetSpec => []HopInv
<1> QED  BY HopsStart, HopsStep, NetSafety, PTL DEF NetSpec

(* Traffic of another zone as hosts are handed it.                         *)
RoutedOnce ==
  \A x \in delivered : Crosses(x.frame) =>
    /\ x.frame.ttl = DefaultTtl - 1
    /\ x.frame.src = GatewayMac[zone_for_ip(x.frame.dstip)]

(* Traffic of another zone is handed to hosts only by their gateway and    *)
(* with exactly one hop less than it was sent with, whatever hosts send    *)
(* (_forward_ip(), _install_route_flows()).                                *)
THEOREM RoutedOnceHolds == NetSpec => []RoutedOnce
<1>1. HopInv => RoutedOnce
  BY DEF HopInv, DeliveredHops, Received, Routed, RoutedOnce
<1> QED  BY <1>1, HopsHold, PTL

(* And if hosts send under their own addresses, a host gets under its MAC  *)
(* only the traffic that is meant for it (_learn(), _resolve_pending()).   *)
THEOREM OneRouterHop == ASSUME HonestHosts PROVE NetSpec => []OneHop
<1>1. HopInv => OneHop
  <2> SUFFICES ASSUME HopInv, NEW x \in delivered,
                      Crosses(x.frame), x.frame.dst = Hosts[<<x.dpid, x.port>>].mac
               PROVE  LET host == Hosts[<<x.dpid, x.port>>] IN
                      /\ x.frame.dstip = host.ip
                      /\ x.frame.src = GatewayMac[zone_for_ip(host.ip)]
                      /\ x.frame.ttl = DefaultTtl - 1
    BY DEF OneHop
  <2> DEFINE here == <<x.dpid, x.port>>
  <2>1. /\ here \in DOMAIN Hosts /\ Known(x.frame.dstip, x.frame.dst)
        /\ x.frame.ttl = DefaultTtl - 1
        /\ x.frame.src = GatewayMac[zone_for_ip(x.frame.dstip)]
    BY DEF HopInv, DeliveredHops, Received, Routed
  <2>2. PICK at \in DOMAIN Hosts :
          Hosts[at].ip = x.frame.dstip /\ Hosts[at].mac = x.frame.dst
    BY <2>1, HonestHosts DEF Known
  <2>3. Hosts[at].ip = Hosts[here].ip
    BY <2>1, <2>2 DEF HonestHosts
  <2> QED  BY <2>1, <2>2, <2>3
<1> QED  BY <1>1, HopsHold, PTL

(* Hosts that send under their own addresses are located where they are    *)
(* plugged in: what floods, rules or a leaf's uplink make of their frames  *)
(* on the way never moves them (_learn(), _handle_transit()).              *)
THEOREM HostsLocated == ASSUME HonestHosts PROVE NetSpec => []LocatedAtHome
<1>1. HopInv => LocatedAtHome
  BY HonestHosts DEF HopInv, LocationHops, Behind, LocatedAtHome
<1> QED  BY <1>1, HopsHold, PTL

-----------------------------------------------------------------------------
(* The invariant of rules and connections. *)

(* A packet of a connection that was refreshed just now.                   *)
Remembered(p, table) ==
  NeedsConnection(p) => \E f \in DOMAIN table : BelongsTo(p, f) /\ table[f] = 0

(* A rule that lets traffic cross where it enters the network.             *)
Decides(dpid, match, actions) ==
  actions.out # None /\ Crosses(match.frame) /\ ~is_leaf_uplink(dpid, match.in_port)

(* Nothing fails, and no host sends packets without their header.          *)
Steady == ~Faults /\ WholeHeaders

(* And a host pings another once at a time.                                *)
Orderly == Steady /\ OnePingEach

(* Then no packet on its way lacks its header.                             *)
Whole(frame) == Steady /\ frame.type = "IP" => frame.kind \notin PartKinds

(* A host sends echo replies like this one that answer nothing.            *)
Unasked(p) ==
  \E item \in HostFrames :
    /\ item.frame.type = "IP" /\ item.frame.kind = "echo_reply"
    /\ item.frame.srcip = p.srcip /\ item.frame.dstip = p.dstip

(* A host sends the echo request that opens this connection.               *)
Pinged(flow) ==
  \E item \in HostFrames :
    /\ item.frame.type = "IP" /\ item.frame.kind = "echo_request"
    /\ flow = tracked(item.frame).flow

(* A frame is whole, an echo request is one that a host sent, and the      *)
(* reply to it is known for one as long as it is on its way.               *)
Genuine(frame, table) ==
  /\ Whole(frame)
  /\ Orderly /\ frame.type = "IP" =>
       /\ frame.kind = "echo_request" => Pinged(tracked(frame).flow)
       /\ /\ frame.kind = "echo_reply" /\ Crosses(frame)
          /\ ~Permits(frame.srcip, frame.dstip, frame.kind)
          => Unasked(frame) \/ is_reply(table, tracked(frame).flow)

(* The connections of pings are those of the pings that hosts send.        *)
PingsTracked(table) ==
  Orderly => \A f \in DOMAIN table : f.proto = "icmp" => Pinged(f)

(* The connection of a frame is alive.                                     *)
Connected(frame, table) ==
  Steady /\ Crosses(frame) /\ NeedsConnection(frame) =>
    \E f \in DOMAIN table : BelongsTo(frame, f) /\ alive(table, f)

(* A frame that has been let through.                                      *)
Carried(frame, table) == Connected(frame, table) /\ Genuine(frame, table)

(* A message makes rules for packets of just now, emits what is let        *)
(* through, and drops no reply to a ping.                                  *)
MessageFollows(dpid, m, table) ==
  /\ m.op = "flow_mod" /\ Decides(dpid, m.match, m.actions) =>
       /\ m.hard = ROUTED_FLOW_HARD_TIMEOUT
       /\ Remembered(m.match.frame, table) /\ Whole(m.match.frame)
  /\ /\ Orderly /\ m.op = "flow_mod" /\ m.actions.out = None
     /\ m.match.frame.kind \in {"echo_reply", "icmp_part"}
     => Unasked(m.match.frame)
  /\ m.op = "packet_out" => Carried(m.frame, table)

(* A rule is no younger than its connection's last packet, and was not     *)
(* overdue a step of time ago.                                             *)
RuleFollows(dpid, r, table) ==
  Decides(dpid, r.match, r.actions) =>
    /\ r.hard = ROUTED_FLOW_HARD_TIMEOUT
    /\ r.age * TICK < ROUTED_FLOW_HARD_TIMEOUT + TICK
    /\ Whole(r.match.frame)
    /\ NeedsConnection(r.match.frame) =>
         \E f \in DOMAIN table : BelongsTo(r.match.frame, f) /\ table[f] <= r.age

Timed(r) == {"hard", "age"} \subseteq DOMAIN r /\ r.age \in Nat

Online == online \subseteq Dpids

RulesTimed == \A d \in Dpids : \A r \in tables[d] : Timed(r)

RulesFollow == \A d \in online : \A r \in tables[d] : RuleFollows(d, r, last_seen)

OrdersFollow ==
  \A d \in Dpids : \A m \in Range(to_switch[d]) : MessageFollows(d, m, last_seen)

(* If nothing fails, a switch has rules only while it has a channel.       *)
Blank == ~Faults => \A d \in Dpids : d \notin online => tables[d] = {} /\ to_switch[d] = <<>>

(* What comes down an uplink has been let through.                         *)
Brought(dpid, port, frame, table) ==
  /\ Genuine(frame, table)
  /\ is_leaf_uplink(dpid, port) => Carried(frame, table)

WiresBring(w, table) ==
  \A d \in Dpids, p \in Ports : \A f \in Range(w[d][p]) : Brought(d, p, f, table)

EventsBring(table) ==
  \A d \in Dpids : \A ev \in Range(to_controller[d]) : Brought(d, ev.port, ev.frame, table)

(* So has what waits and what hosts are handed.                            *)
QueuesCarry ==
  \A ip \in Ips : pending[ip] # None =>
    \A i \in DOMAIN pending[ip].queue : Carried(pending[ip].queue[i].frame, last_seen)

DeliveredCarried == \A x \in delivered : Carried(x.frame, last_seen)

(* So is what the controller sends.                                        *)
SentFollows == \A i \in DOMAIN sent : MessageFollows(sent[i].to, sent[i], last_seen)

RulesInv == Online /\ RulesTimed /\ RulesFollow /\ OrdersFollow

CarryInv ==
  /\ Blank /\ WiresBring(wire, last_seen) /\ EventsBring(last_seen)
  /\ QueuesCarry /\ DeliveredCarried /\ PingsTracked(last_seen)

FollowInv == RulesInv /\ CarryInv /\ SentFollows

-----------------------------------------------------------------------------
(* Time. *)

(* A product is less only if a factor is.                                  *)
LEMMA LessFactor ==
  ASSUME NEW a \in Nat, NEW b \in Nat, NEW k \in Nat, a * k < b * k PROVE a < b
<1> SUFFICES ASSUME ~(a < b) PROVE FALSE
  OBVIOUS
<1>1. PICK c \in Nat : a = b + c
  <2>1. a - b \in Nat /\ a = b + (a - b)
    OBVIOUS
  <2> QED  BY <2>1
<1>2. a * k = b * k + c * k
  BY <1>1
<1>3. c * k \in Nat /\ b * k \in Nat
  OBVIOUS
<1> QED  BY <1>2, <1>3

(* The connection of a rule that is still there is alive.                  *)
LEMMA FollowedAlive ==
  ASSUME TypeOK, NEW age \in Nat, age * TICK < ROUTED_FLOW_HARD_TIMEOUT + TICK,
         NEW f \in DOMAIN last_seen, last_seen[f] <= age
  PROVE  alive(last_seen, f)
<1>1. TICK \in Nat /\ IDLE_TIMEOUT \in Nat /\ last_seen[f] \in Nat
  BY NetAssumption, IdleTimeoutAssumption DEF TypeOK
<1>2. age * TICK < IDLE_TIMEOUT * TICK
  <2>1. age * TICK \in Nat
    BY <1>1
  <2> QED  BY <1>1, <2>1, TimeAssumption DEF ROUTED_FLOW_HARD_TIMEOUT
<1>3. age < IDLE_TIMEOUT
  BY <1>1, <1>2, LessFactor
<1> QED  BY <1>1, <1>3 DEF alive

(* What a step of the controller does to the connections: those alive stay *)
(* so, and pings are added by hosts' requests only.                        *)
Remembers ==
  /\ \A f \in DOMAIN last_seen : alive(last_seen, f) =>
       f \in DOMAIN last_seen' /\ last_seen'[f] <= last_seen[f]
  /\ PingsTracked(last_seen) => PingsTracked(last_seen')

(* A table that stays.                                                     *)
LEMMA UnchangedRemembers == ASSUME TypeOK, last_seen' = last_seen PROVE Remembers
<1>1. \A f \in DOMAIN last_seen : last_seen[f] \in 0 .. IDLE_TIMEOUT
  BY DEF TypeOK
<1>2. PingsTracked(last_seen) => PingsTracked(last_seen')
  BY DEF PingsTracked
<1> QED  BY <1>1, <1>2, IdleTimeoutAssumption DEF Remembers

(* Tracking a packet refreshes connections, forgets none, and takes no     *)
(* packet but a host's for a ping (ConnectionTable.check()).               *)
LEMMA TrackingRemembers ==
  ASSUME TypeOK, NEW p, p.type = "IP", Genuine(p, last_seen),
         NEW allowed, last_seen' = check_table(last_seen, allowed, tracked(p))
  PROVE  Remembers
<1> DEFINE t == tracked(p)
<1>1. \A f \in DOMAIN last_seen : last_seen[f] \in 0 .. IDLE_TIMEOUT
  BY DEF TypeOK
<1>2. /\ t.flow.proto = ProtoOf(p.kind)
      /\ t.may_open <=> p.kind \in {"tcp", "udp", "echo_request"}
  BY DEF tracked, tracked_packet
<1>3. \/ last_seen' = last_seen
      \/ t.may_open /\ last_seen' = track(last_seen, t.flow)
      \/ alive(last_seen, reversed(t.flow)) /\ last_seen' = track(last_seen, reversed(t.flow))
  BY DEF check_table, check_verdict, is_reply
<1> HIDE DEF t
<1>4. CASE last_seen' = last_seen
  BY <1>4, UnchangedRemembers
<1>5. ASSUME NEW flow, last_seen' = track(last_seen, flow),
             flow \in DOMAIN last_seen \/ (flow.proto = "icmp" /\ Orderly => Pinged(flow))
      PROVE  Remembers
  <2>1. \A f \in DOMAIN last_seen :
          f \in DOMAIN last_seen' /\ last_seen'[f] \in {0, last_seen[f]}
    BY <1>5 DEF track
  <2>2. DOMAIN last_seen' = DOMAIN last_seen \cup {flow}
    BY <1>5 DEF track
  <2>3. PingsTracked(last_seen) => PingsTracked(last_seen')
    BY <1>5, <2>2 DEF PingsTracked
  <2> QED  BY <1>1, <2>1, <2>3, IdleTimeoutAssumption DEF Remembers
<1>6. t.may_open => (t.flow.proto = "icmp" /\ Orderly => Pinged(t.flow))
  <2> SUFFICES ASSUME t.may_open, t.flow.proto = "icmp", Orderly PROVE Pinged(t.flow)
    OBVIOUS
  <2>1. p.kind = "echo_request"
    BY <1>2 DEF ProtoOf, IcmpKinds, EchoKinds
  <2> QED  BY <2>1 DEF Genuine, t
<1>7. alive(last_seen, reversed(t.flow)) => reversed(t.flow) \in DOMAIN last_seen
  BY DEF alive
<1> QED  BY <1>3, <1>4, <1>5, <1>6, <1>7

(* The sweep forgets only what is not alive (ConnectionTable.expire()).    *)
LEMMA SweepRemembers == ASSUME TypeOK, Expire PROVE Remembers
<1>1. \A f \in DOMAIN last_seen : last_seen[f] \in 0 .. IDLE_TIMEOUT
  BY DEF TypeOK
<1>2. \A f \in DOMAIN last_seen : alive(last_seen, f) =>
        f \in DOMAIN last_seen' /\ last_seen'[f] = last_seen[f]
  BY DEF Expire, expire, Restrict
<1>3. DOMAIN last_seen' \subseteq DOMAIN last_seen
  BY DEF Expire, expire, Restrict
<1>4. PingsTracked(last_seen) => PingsTracked(last_seen')
  BY <1>3 DEF PingsTracked
<1> QED  BY <1>1, <1>2, <1>4, IdleTimeoutAssumption DEF Remembers

(* So rules and messages follow connections when they did before.          *)
LEMMA RememberedStays ==
  ASSUME TypeOK, TypeOK', Remembers, NEW p, Remembered(p, last_seen)
  PROVE  Remembered(p, last_seen')
<1> SUFFICES ASSUME NeedsConnection(p)
             PROVE  \E f \in DOMAIN last_seen' : BelongsTo(p, f) /\ last_seen'[f] = 0
  BY DEF Remembered
<1>1. PICK f \in DOMAIN last_seen : BelongsTo(p, f) /\ last_seen[f] = 0
  BY DEF Remembered
<1>2. alive(last_seen, f)
  BY <1>1, IdleTimeoutAssumption DEF alive
<1>3. f \in DOMAIN last_seen' /\ last_seen'[f] <= 0
  BY <1>1, <1>2 DEF Remembers
<1>4. last_seen'[f] \in 0 .. IDLE_TIMEOUT
  BY <1>3 DEF TypeOK
<1>5. last_seen'[f] = 0
  BY <1>3, <1>4, IdleTimeoutAssumption
<1> QED  BY <1>1, <1>3, <1>5

(* What is alive stays alive.                                              *)
LEMMA AliveStays ==
  ASSUME TypeOK, TypeOK', Remembers, NEW f, alive(last_seen, f) PROVE alive(last_seen', f)
<1>1. /\ f \in DOMAIN last_seen /\ last_seen[f] < IDLE_TIMEOUT
      /\ f \in DOMAIN last_seen' /\ last_seen'[f] <= last_seen[f]
  BY DEF Remembers, alive
<1>2. last_seen'[f] \in Nat /\ last_seen[f] \in Nat /\ IDLE_TIMEOUT \in Nat
  BY <1>1, IdleTimeoutAssumption DEF TypeOK
<1> QED  BY <1>1, <1>2 DEF alive

(* A reply to a ping stays known for one.                                  *)
LEMMA GenuineStays ==
  ASSUME TypeOK, TypeOK', Remembers, NEW p, Genuine(p, last_seen)
  PROVE  Genuine(p, last_seen')
<1>1. is_reply(last_seen, tracked(p).flow) => is_reply(last_seen', tracked(p).flow)
  BY AliveStays DEF is_reply
<1> QED  BY <1>1 DEF Genuine

(* What is let through stays so.                                           *)
LEMMA CarriedStays ==
  ASSUME TypeOK, TypeOK', Remembers, NEW p, Carried(p, last_seen)
  PROVE  Carried(p, last_seen')
<1>1. Connected(p, last_seen')
  <2>1. \A f : alive(last_seen, f) => alive(last_seen', f) /\ f \in DOMAIN last_seen'
    BY AliveStays DEF alive
  <2> QED  BY <2>1 DEF Carried, Connected
<1>2. Genuine(p, last_seen')
  BY GenuineStays DEF Carried
<1> QED  BY <1>1, <1>2 DEF Carried

(* So does what entered with it.                                           *)
LEMMA BroughtStays ==
  ASSUME TypeOK, TypeOK', Remembers, NEW d, NEW p, NEW f, Brought(d, p, f, last_seen)
  PROVE  Brought(d, p, f, last_seen')
  BY CarriedStays, GenuineStays DEF Brought

(* A connection that was refreshed just now is alive.                      *)
LEMMA RememberedCarried ==
  ASSUME NEW p, NEW table, Genuine(p, table), Remembered(p, table) PROVE Carried(p, table)
  BY IdleTimeoutAssumption DEF Remembered, Carried, Connected, alive

(* A whole frame of no echo kind is genuine.                               *)
LEMMA OthersGenuine ==
  ASSUME NEW p, NEW table, p.type = "IP" => p.kind \notin EchoKinds \cup PartKinds
  PROVE  Genuine(p, table)
  BY DEF Genuine, Whole, EchoKinds

(* A router hop changes nothing that connections are told by.              *)
LEMMA HopCarried ==
  ASSUME NEW p \in IpFrames, NEW src, NEW dst, NEW ttl, NEW table, Carried(p, table)
  PROVE  Carried([p EXCEPT !.src = src, !.dst = dst, !.ttl = ttl], table)
<1> DEFINE q == [p EXCEPT !.src = src, !.dst = dst, !.ttl = ttl]
<1>1. /\ q.type = p.type /\ q.srcip = p.srcip /\ q.dstip = p.dstip /\ q.kind = p.kind
      /\ q.sport = p.sport /\ q.dport = p.dport
  BY DEF IpFrames
<1> HIDE DEF q
<1>2. Crosses(q) <=> Crosses(p)
  BY <1>1 DEF Crosses
<1>3. NeedsConnection(q) <=> NeedsConnection(p)
  BY <1>1 DEF NeedsConnection
<1>4. \A f : BelongsTo(q, f) <=> BelongsTo(p, f)
  BY <1>1 DEF BelongsTo
<1>5. Connected(q, table)
  BY <1>2, <1>3, <1>4 DEF Carried, Connected
<1>6. tracked(q).flow = tracked(p).flow
  BY <1>1 DEF tracked, tracked_packet
<1>7. Unasked(q) <=> Unasked(p)
  BY <1>1 DEF Unasked
<1>8. Genuine(q, table)
  BY <1>1, <1>2, <1>6, <1>7 DEF Carried, Genuine, Whole
<1>9. Carried(q, table)
  BY <1>5, <1>8 DEF Carried
<1> QED  BY <1>9 DEF q

(* A rule goes on following its connection.                                *)
LEMMA FollowingStays ==
  ASSUME TypeOK, TypeOK', Remembers, NEW d, NEW r, Timed(r), RuleFollows(d, r, last_seen)
  PROVE  RuleFollows(d, r, last_seen')
<1> SUFFICES ASSUME Decides(d, r.match, r.actions), NeedsConnection(r.match.frame)
             PROVE  \E f \in DOMAIN last_seen' :
                      BelongsTo(r.match.frame, f) /\ last_seen'[f] <= r.age
  BY DEF RuleFollows
<1>1. PICK f \in DOMAIN last_seen : BelongsTo(r.match.frame, f) /\ last_seen[f] <= r.age
  BY DEF RuleFollows
<1>2. alive(last_seen, f)
  BY <1>1, FollowedAlive DEF RuleFollows, Timed
<1>3. f \in DOMAIN last_seen' /\ last_seen'[f] <= last_seen[f]
  BY <1>2 DEF Remembers
<1>4. last_seen'[f] \in Nat /\ last_seen[f] \in Nat /\ r.age \in Nat
  BY <1>3, IdleTimeoutAssumption DEF TypeOK, Timed
<1> QED  BY <1>1, <1>3, <1>4

-----------------------------------------------------------------------------
(* The rules the controller sends. *)

MessagesFollow(msgs, table) ==
  \A i \in DOMAIN msgs : msgs[i] # None => MessageFollows(msgs[i].to, msgs[i], table)

(* What is sent is of what is to be sent.                                  *)
LEMMA SendFollows ==
  ASSUME NEW msgs, MessagesFollow(msgs, last_seen'), Send(msgs) PROVE SentFollows'
<1>1. \A i \in DOMAIN sent' : i \in DOMAIN msgs /\ sent'[i] = msgs[i] /\ msgs[i] # None
  BY DEF Send, Restrict
<1>2. \A i \in DOMAIN sent' : MessageFollows(sent'[i].to, sent'[i], last_seen')
  BY <1>1 DEF MessagesFollow
<1> QED  BY <1>2 DEF SentFollows, MessageFollows, Remembered, Carried, Connected, Genuine, Whole,
                     is_reply, alive

(* A message that emits what was let through.                              *)
Packet(m, table) == m.op = "packet_out" /\ Carried(m.frame, table)

(* A family of packets.                                                    *)
LEMMA PacketsFollow ==
  ASSUME NEW table, NEW msgs, \A i \in DOMAIN msgs : msgs[i] # None => Packet(msgs[i], table)
  PROVE  MessagesFollow(msgs, table)
  BY DEF MessagesFollow, MessageFollows, Packet

(* No message.                                                             *)
LEMMA NothingFollows == ASSUME NEW table PROVE MessagesFollow(<<>>, table)
  BY DEF MessagesFollow

(* One message.                                                            *)
LEMMA OneFollows ==
  ASSUME NEW table, NEW m, MessageFollows(m.to, m, table) PROVE MessagesFollow(<<m>>, table)
<1>1. DOMAIN <<m>> = {1} /\ <<m>>[1] = m
  OBVIOUS
<1> QED  BY <1>1 DEF MessagesFollow

(* One family after the other.                                             *)
LEMMA ConcatFollows ==
  ASSUME NEW table, NEW S, NEW s \in Seq(S), NEW t \in Seq(S),
         MessagesFollow(s, table), MessagesFollow(t, table)
  PROVE  MessagesFollow(s \o t, table)
<1> DEFINE F(m) == m # None => MessageFollows(m.to, m, table)
<1>1. MessagesFollow(s, table) <=> \A m \in Range(s) : F(m)
  BY DEF MessagesFollow, Range
<1>2. MessagesFollow(t, table) <=> \A m \in Range(t) : F(m)
  BY DEF MessagesFollow, Range
<1>3. MessagesFollow(s \o t, table) <=> \A m \in Range(s \o t) : F(m)
  BY DEF MessagesFollow, Range
<1> HIDE DEF F
<1> QED  BY <1>1, <1>2, <1>3, RangeOfConcat

(* Flooding passes on what was let through (_flood_in_zone()).             *)
LEMMA FloodFollows ==
  ASSUME NEW ev, NEW table, Carried(ev.frame, table)
  PROVE  MessagesFollow(flood_in_zone(ev), table)
<1>1. CASE ev.dpid = CORE_DPID
  <2>1. \A i \in DOMAIN flood_in_zone(ev) : Packet(flood_in_zone(ev)[i], table)
    BY <1>1 DEF flood_in_zone, PacketOut, Packet
  <2> QED  BY <2>1, PacketsFollow
<1>2. CASE ev.dpid # CORE_DPID
  <2> DEFINE m == FloodOut(ev)
  <2>1. m.op = "packet_out" /\ m.frame = ev.frame /\ flood_in_zone(ev) = <<m>>
    BY <1>2 DEF FloodOut, flood_in_zone
  <2> HIDE DEF m
  <2>2. MessageFollows(m.to, m, table)
    BY <2>1 DEF MessageFollows
  <2> QED  BY <2>1, <2>2, OneFollows
<1> QED  BY <1>1, <1>2

(* A layer-2 rule is for what stays in its zone or comes down an uplink.   *)
LEMMA L2Follows ==
  ASSUME NEW ev \in Items, ~is_leaf_uplink(ev.dpid, ev.port) => ~Crosses(ev.frame),
         NEW table, Carried(ev.frame, table)
  PROVE  MessagesFollow(l2_forward(ev), table)
<1> DEFINE port == mac_table'[ev.dpid][ev.frame.dst]
           rule == FlowMod(ev.dpid, from_packet(ev.frame, ev.port),
                           ROUTED_FLOW_IDLE_TIMEOUT, ROUTED_FLOW_HARD_TIMEOUT, Output(port))
           copy == PacketOut(ev.dpid, ev.frame, port)
           rest == IF port = ev.port THEN <<>> ELSE <<copy>>
<1>1. CASE port = None
  BY <1>1, FloodFollows DEF l2_forward
<1>2. CASE port # None
  <2>1. l2_forward(ev) = <<rule>> \o rest
    BY <1>2 DEF l2_forward
  <2>2. MessageFollows(rule.to, rule, table)
    <3>1. /\ rule.op = "flow_mod" /\ rule.to = ev.dpid /\ rule.match.in_port = ev.port
          /\ rule.match.frame = from_packet(ev.frame, ev.port).frame
          /\ rule.actions.out # None
      BY <1>2 DEF FlowMod, from_packet, Output
    <3>2. Crosses(rule.match.frame) => is_leaf_uplink(ev.dpid, ev.port)
      BY <3>1, MatchKeepsHeaders DEF Items
    <3> HIDE DEF rule
    <3> QED  BY <3>1, <3>2 DEF MessageFollows, Decides
  <2>3. MessageFollows(copy.to, copy, table)
    BY DEF MessageFollows, PacketOut
  <2> HIDE DEF rule, copy, port
  <2>4. <<rule>> \in Seq({rule, copy}) /\ MessagesFollow(<<rule>>, table)
    BY <2>2, OneFollows
  <2>5. rest \in Seq({rule, copy}) /\ MessagesFollow(rest, table)
    <3>1. CASE port = ev.port
      BY <3>1, NothingFollows
    <3>2. CASE port # ev.port
      BY <2>3, <3>2, OneFollows
    <3> QED  BY <3>1, <3>2
  <2> HIDE DEF rest
  <2>6. MessagesFollow(<<rule>> \o rest, table)
    BY <2>4, <2>5, ConcatFollows
  <2> QED  BY <2>1, <2>6
<1> QED  BY <1>1, <1>2

(* A drop rule lets nothing cross, and drops no reply to a ping            *)
(* (_install_drop_flow()).                                                 *)
LEMMA DropFollows ==
  ASSUME NEW ev, ev.frame \in Frames, ev.frame.type = "IP", Whole(ev.frame),
         Orderly /\ ev.frame.kind = "echo_reply" => Unasked(ev.frame), NEW table
  PROVE  MessagesFollow(install_drop_flow(ev), table)
<1> DEFINE rule == FlowMod(ev.dpid, from_packet(ev.frame, ev.port),
                           DROP_FLOW_IDLE_TIMEOUT, DROP_FLOW_HARD_TIMEOUT, DropActions)
<1>1. /\ rule.op = "flow_mod" /\ rule.actions.out = None
      /\ rule.match.frame = from_packet(ev.frame, ev.port).frame
      /\ install_drop_flow(ev) = <<rule>>
  BY DEF FlowMod, DropActions, install_drop_flow
<1> HIDE DEF rule
<1>2. /\ rule.match.frame.srcip = ev.frame.srcip /\ rule.match.frame.dstip = ev.frame.dstip
      /\ rule.match.frame.kind = ev.frame.kind
  BY <1>1, MatchKeepsHeaders
<1>3. Unasked(ev.frame) => Unasked(rule.match.frame)
  BY <1>2 DEF Unasked
<1>4. Orderly => ev.frame.kind # "icmp_part"
  BY DEF Orderly, Whole, PartKinds
<1>5. MessageFollows(rule.to, rule, table)
  BY <1>1, <1>2, <1>3, <1>4 DEF MessageFollows, Decides
<1> QED  BY <1>1, <1>5, OneFollows

(* A rule for a packet of a connection is a rule for the connection.       *)
LEMMA MatchRemembered ==
  ASSUME NEW frame \in Frames, frame.type = "IP", Whole(frame),
         NEW port, NEW table, Remembered(frame, table)
  PROVE  Remembered(from_packet(frame, port).frame, table) /\ Whole(from_packet(frame, port).frame)
<1> DEFINE h == from_packet(frame, port).frame
<1>1. /\ h.srcip = frame.srcip /\ h.dstip = frame.dstip /\ h.kind = frame.kind
      /\ frame.kind \in {"tcp", "udp"} => h.sport = frame.sport /\ h.dport = frame.dport
  BY MatchKeepsHeaders
<1> HIDE DEF h
<1>2. NeedsConnection(h) <=> NeedsConnection(frame)
  BY <1>1 DEF NeedsConnection
<1>3. ASSUME NeedsConnection(frame), NEW f, BelongsTo(frame, f) PROVE BelongsTo(h, f)
  BY <1>1, <1>3 DEF BelongsTo, NeedsConnection
<1>4. Remembered(h, table)
  BY <1>2, <1>3 DEF Remembered
<1>5. Whole(h)
  BY <1>1 DEF Whole
<1> QED  BY <1>4, <1>5 DEF h

(* An ICMP error needs no connection.                                      *)
LEMMA ErrorIsPacket ==
  ASSUME NEW item, Accepted(item), NEW kind, kind \notin EchoKinds \cup PartKinds, NEW table
  PROVE  Packet(icmp_error(item, kind), table)
<1> DEFINE zone == zone_of_port(item.dpid, item.port)
           m == icmp_error(item, kind)
<1>1. zone \in ZONES /\ zone_for_ip(item.frame.srcip) = zone /\ zone # None
  BY ValidSource, PolicyAssumption DEF Accepted
<1>2. zone_for_ip(Gateway[zone]) = zone
  BY <1>1, ZoneOfGateway
<1>3. m.op = "packet_out" /\ ~Crosses(m.frame) /\ m.frame.kind = kind
  BY <1>1, <1>2 DEF icmp_error, Crosses
<1> HIDE DEF m
<1>4. Packet(m, table)
  BY <1>3, OthersGenuine DEF Packet, Carried, Connected
<1> QED  BY <1>4 DEF m

(* What is sent on was let through, and stays so after its hop.            *)
LEMMA ForwardIsPacket ==
  ASSUME NEW item, Accepted(item), NEW table, Carried(item.frame, table),
         NEW zone, NEW port, NEW mac
  PROVE  Packet(forward_ip(item, zone, port, mac), table)
<1>1. CASE item.frame.ttl <= 1
  BY <1>1, ErrorIsPacket DEF forward_ip, EchoKinds, PartKinds
<1>2. CASE ~(item.frame.ttl <= 1)
  <2> DEFINE f == [item.frame EXCEPT !.src = GatewayMac[zone], !.dst = mac, !.ttl = @ - 1]
  <2>1. forward_ip(item, zone, port, mac) = PacketOut(CORE_DPID, f, port)
    BY <1>2 DEF forward_ip
  <2>2. item.frame \in IpFrames
    BY AcceptedFrame
  <2>3. f = [item.frame EXCEPT !.src = GatewayMac[zone], !.dst = mac,
                               !.ttl = item.frame.ttl - 1]
    OBVIOUS
  <2> HIDE DEF f
  <2>4. Carried(f, table)
    BY <2>2, <2>3, HopCarried
  <2> QED  BY <2>1, <2>4 DEF Packet, PacketOut
<1> QED  BY <1>1, <1>2

(* The rules of a route (_install_route_flows()).                          *)
LEMMA RouteRulesFollow ==
  ASSUME NEW ev, Accepted(ev), NEW table, Whole(ev.frame), Remembered(ev.frame, table),
         NEW zone, NEW port, port # None, NEW mac, NEW m, Packet(m, table)
  PROVE  MessagesFollow(install_route_flows(ev, zone, port, mac) \o <<m>>, table)
<1> DEFINE core_rule ==
             FlowMod(CORE_DPID, from_packet(ev.frame, core_port_for(ev.dpid, ev.port)),
                     ROUTED_FLOW_IDLE_TIMEOUT, ROUTED_FLOW_HARD_TIMEOUT,
                     [out |-> port, set_src |-> GatewayMac[zone],
                      set_dst |-> mac, dec_ttl |-> TRUE])
           leaf_rule ==
             FlowMod(ev.dpid, from_packet(ev.frame, ev.port),
                     ROUTED_FLOW_IDLE_TIMEOUT, ROUTED_FLOW_HARD_TIMEOUT,
                     Output(LEAF_UPLINK_PORT[ev.dpid]))
           rules == install_route_flows(ev, zone, port, mac)
           S == {core_rule, leaf_rule, m}
           rest == IF ev.dpid = CORE_DPID THEN <<>> ELSE <<leaf_rule>>
<1>1. ev.frame \in Frames /\ ev.frame.type = "IP"
  BY DEF Accepted, Items
<1>2. MessageFollows(core_rule.to, core_rule, table)
  <2>1. /\ core_rule.op = "flow_mod" /\ core_rule.hard = ROUTED_FLOW_HARD_TIMEOUT
        /\ core_rule.match.frame =
             from_packet(ev.frame, core_port_for(ev.dpid, ev.port)).frame
        /\ core_rule.actions.out # None
    BY DEF FlowMod
  <2>2. Remembered(core_rule.match.frame, table) /\ Whole(core_rule.match.frame)
    BY <1>1, <2>1, MatchRemembered
  <2> HIDE DEF core_rule
  <2> QED  BY <2>1, <2>2 DEF MessageFollows
<1>3. ev.dpid # CORE_DPID => MessageFollows(leaf_rule.to, leaf_rule, table)
  <2> SUFFICES ASSUME ev.dpid # CORE_DPID PROVE MessageFollows(leaf_rule.to, leaf_rule, table)
    OBVIOUS
  <2>1. ev.dpid \in Leaves
    BY ValidSource, PolicyAssumption DEF Accepted, zone_of_port
  <2>2. /\ leaf_rule.op = "flow_mod" /\ leaf_rule.hard = ROUTED_FLOW_HARD_TIMEOUT
        /\ leaf_rule.match.frame = from_packet(ev.frame, ev.port).frame
        /\ leaf_rule.actions.out # None
    BY <2>1, PortMapsAssumption DEF FlowMod, Output
  <2>3. Remembered(leaf_rule.match.frame, table) /\ Whole(leaf_rule.match.frame)
    BY <1>1, <2>2, MatchRemembered
  <2> HIDE DEF leaf_rule
  <2> QED  BY <2>2, <2>3 DEF MessageFollows
<1>4. rules = <<>> \/ rules = <<core_rule>> \o rest
  BY DEF install_route_flows
<1> HIDE DEF core_rule, leaf_rule, rules
<1>5. rest \in Seq(S) /\ MessagesFollow(rest, table)
  <2>1. CASE ev.dpid = CORE_DPID
    BY <2>1, NothingFollows
  <2>2. CASE ev.dpid # CORE_DPID
    BY <1>3, <2>2, OneFollows
  <2> QED  BY <2>1, <2>2
<1>6. <<core_rule>> \in Seq(S) /\ MessagesFollow(<<core_rule>>, table)
  BY <1>2, OneFollows
<1>7. <<m>> \in Seq(S) /\ MessagesFollow(<<m>>, table)
  <2>1. m # None => MessageFollows(m.to, m, table)
    BY DEF MessageFollows, Packet
  <2>2. DOMAIN <<m>> = {1} /\ <<m>>[1] = m /\ <<m>> \in Seq(S)
    OBVIOUS
  <2> QED  BY <2>1, <2>2 DEF MessagesFollow
<1>8. <<>> \in Seq(S)
  OBVIOUS
<1> HIDE DEF rest, S
<1>9. <<core_rule>> \o rest \in Seq(S) /\ MessagesFollow(<<core_rule>> \o rest, table)
  BY <1>5, <1>6, ConcatFollows, ConcatProperties
<1>10. rules \in Seq(S) /\ MessagesFollow(rules, table)
  BY <1>4, <1>8, <1>9, NothingFollows
<1>11. MessagesFollow(rules \o <<m>>, table)
  BY <1>7, <1>10, ConcatFollows
<1> QED  BY <1>11 DEF rules

(* A packet that is let through is of a connection the controller          *)
(* remembers from now on (ConnectionTable.check()).                        *)
LEMMA TrackingFollows ==
  ASSUME NEW p \in IpFrames, NEW allowed, allowed = Permits(p.srcip, p.dstip, p.kind),
         last_seen' = check_table(last_seen, allowed, tracked(p)),
         check_verdict(last_seen, allowed, tracked(p)) # "drop"
  PROVE  Remembered(p, last_seen')
<1> DEFINE t == tracked(p)
<1>1. /\ t.flow.src = p.srcip /\ t.flow.dst = p.dstip /\ t.flow.proto = ProtoOf(p.kind)
      /\ t.flow.sport = p.sport /\ t.flow.dport = p.dport
      /\ t.may_open <=> p.kind \in {"tcp", "udp", "echo_request"}
      /\ t.may_reply <=> p.kind \in {"tcp", "udp", "echo_reply"}
  BY DEF tracked, tracked_packet
<1>2. /\ reversed(t.flow).src = p.dstip /\ reversed(t.flow).dst = p.srcip
      /\ reversed(t.flow).proto = ProtoOf(p.kind)
      /\ reversed(t.flow).sport = p.dport /\ reversed(t.flow).dport = p.sport
  BY <1>1 DEF reversed
<1> HIDE DEF t
<1>3. ASSUME NEW flow, last_seen' = track(last_seen, flow)
      PROVE  flow \in DOMAIN last_seen' /\ last_seen'[flow] = 0
  BY <1>3 DEF track
<1>4. CASE allowed
  <2>1. NeedsConnection(p) => p.kind \in {"tcp", "udp", "echo_request"}
    BY <1>4 DEF NeedsConnection, EchoKinds
  <2>2. check_verdict(last_seen, allowed, t) = "new"
    BY <1>4 DEF check_verdict
  <2>3. NeedsConnection(p) => last_seen' = track(last_seen, t.flow)
    BY <1>1, <1>4, <2>1, <2>2 DEF check_table, t
  <2>4. NeedsConnection(p) => BelongsTo(p, t.flow)
    BY <1>1, <2>1 DEF BelongsTo
  <2> QED  BY <1>3, <2>3, <2>4 DEF Remembered
<1>5. CASE ~allowed
  <2>1. check_verdict(last_seen, allowed, t) = "reply" /\ t.may_reply
    BY <1>5 DEF check_verdict, t
  <2>2. last_seen' = track(last_seen, reversed(t.flow))
    BY <1>5, <2>1 DEF check_table, t
  <2>3. BelongsTo(p, reversed(t.flow))
    BY <1>1, <1>2, <2>1 DEF BelongsTo
  <2> QED  BY <1>3, <2>2, <2>3 DEF Remembered
<1> QED  BY <1>4, <1>5

-----------------------------------------------------------------------------
(* The controller's handlers: none forgets a live connection, sends a rule *)
(* or a packet without one, or keeps such a packet.                        *)

RouterFollows == Remembers /\ SentFollows' /\ QueuesCarry'

(* Queues that stay.                                                       *)
LEMMA QueuesKept ==
  ASSUME TypeOK, TypeOK', Remembers, QueuesCarry, pending' = pending PROVE QueuesCarry'
<1>1. ASSUME NEW ip \in Ips, pending[ip] # None, NEW i \in DOMAIN pending[ip].queue
      PROVE  Carried(pending[ip].queue[i].frame, last_seen')
  <2>1. Carried(pending[ip].queue[i].frame, last_seen)
    BY <1>1 DEF QueuesCarry
  <2> QED  BY <2>1, CarriedStays
<1>2. \A ip \in Ips : pending'[ip] # None =>
        \A i \in DOMAIN pending'[ip].queue : Carried(pending'[ip].queue[i].frame, last_seen')
  BY <1>1
<1> QED  BY <1>2 DEF QueuesCarry, Carried, Connected, Genuine, Whole, is_reply, alive

(* A queue that ends, connections unchanged.                               *)
LEMMA QueueEnds ==
  ASSUME TypeOK, QueuesCarry, last_seen' = last_seen,
         NEW ip \in Ips, pending' = [pending EXCEPT ![ip] = None]
  PROVE  QueuesCarry'
<1>1. \A j \in Ips : pending'[j] = pending[j] \/ pending'[j] = None
  BY DEF TypeOK
<1>2. \A j \in Ips : pending'[j] # None =>
        \A i \in DOMAIN pending'[j].queue : Carried(pending'[j].queue[i].frame, last_seen)
  BY <1>1 DEF QueuesCarry
<1> QED  BY <1>2 DEF QueuesCarry, Carried, Connected, Genuine, Whole, is_reply, alive

(* A handler that keeps its tables and sends what it may.                  *)
LEMMA HandlerFollows ==
  ASSUME TypeOK, TypeOK', QueuesCarry, last_seen' = last_seen, pending' = pending, SentFollows'
  PROVE  RouterFollows
<1>1. Remembers
  BY UnchangedRemembers
<1>2. QueuesCarry'
  BY <1>1, QueuesKept
<1> QED  BY <1>1, <1>2 DEF RouterFollows

(* Packets ignored.                                                        *)
LEMMA IgnoreFollows ==
  ASSUME TypeOK, TypeOK', QueuesCarry, Ignore PROVE RouterFollows
<1>1. last_seen' = last_seen /\ pending' = pending /\ Send(<<>>)
  BY DEF Ignore
<1>2. SentFollows'
  BY <1>1, NothingFollows, SendFollows
<1> QED  BY <1>1, <1>2, HandlerFollows

(* Probes are packets that cross nothing (_send_arp_probe()).              *)
LEMMA ProbesFollow ==
  ASSUME NEW ip, NEW zone, NEW table PROVE MessagesFollow(send_arp_probe(ip, zone), table)
<1>1. \A i \in DOMAIN send_arp_probe(ip, zone) : Packet(send_arp_probe(ip, zone)[i], table)
  BY DEF send_arp_probe, PacketOut, Packet, Carried, Connected, Genuine, Whole, Crosses
<1> QED  BY <1>1, PacketsFollow

(* What comes down an uplink has been let through (_handle_transit()).     *)
LEMMA TransitFollows ==
  ASSUME TypeOK, TypeOK', QueuesCarry, NEW ev \in Items,
         is_leaf_uplink(ev.dpid, ev.port), Carried(ev.frame, last_seen), handle_transit(ev)
  PROVE  RouterFollows
<1>1. /\ last_seen' = last_seen /\ pending' = pending
      /\ Send(flood_in_zone(ev)) \/ Send(l2_forward(ev))
  BY DEF handle_transit
<1>2. SentFollows'
  BY <1>1, FloodFollows, L2Follows, SendFollows
<1> QED  BY <1>1, <1>2, HandlerFollows

(* A resolution that ends sends its packets on (_resolve_pending()).       *)
LEMMA ResolvingFollows ==
  ASSUME TypeOK, TypeOK', QueuesAreJustified, QueuesCarry, last_seen' = last_seen,
         NEW ip \in Ips, NEW mac, resolve_pending(ip, mac)
  PROVE  RouterFollows
<1>1. Remembers
  BY UnchangedRemembers
<1>2. CASE pending[ip] = None
  <2>1. pending' = pending /\ Send(<<>>)
    BY <1>2 DEF resolve_pending
  <2>2. SentFollows'
    BY <2>1, NothingFollows, SendFollows
  <2> QED  BY <2>1, <2>2, HandlerFollows
<1>3. CASE pending[ip] # None
  <2> DEFINE entry == pending[ip]
             msg(i) == forward_ip(entry.queue[i], entry.zone, ip_to_loc'[ip].port, mac)
             msgs == [i \in DOMAIN entry.queue |-> msg(i)]
  <2>1. pending' = [pending EXCEPT ![ip] = None] /\ Send(msgs)
    BY <1>3 DEF resolve_pending
  <2>2. QueuesCarry'
    BY <2>1, QueueEnds
  <2>3. \A i \in DOMAIN entry.queue :
          Accepted(entry.queue[i]) /\ Carried(entry.queue[i].frame, last_seen')
    BY <1>3, QueuedAccepted DEF QueuesCarry
  <2>4. \A i \in DOMAIN entry.queue : Packet(msg(i), last_seen')
    BY <2>3, ForwardIsPacket
  <2> HIDE DEF msg
  <2>5. MessagesFollow(msgs, last_seen')
    BY <2>4, PacketsFollow
  <2>6. SentFollows'
    BY <2>1, <2>5, SendFollows
  <2> QED  BY <1>1, <2>2, <2>6 DEF RouterFollows
<1> QED  BY <1>2, <1>3

(* ARP crosses nothing (_handle_arp()).                                    *)
LEMMA ArpFollows ==
  ASSUME TypeOK, TypeOK', QueuesAreJustified, QueuesCarry, NEW ev \in Items,
         ev.frame.type = "ARP", handle_arp(ev)
  PROVE  RouterFollows
<1> DEFINE arp == ev.frame
           zone == zone_of_port(ev.dpid, ev.port)
<1>1. arp.protosrc \in Ips /\ \A table : Carried(arp, table)
  BY DEF Items, Frames, IpFrames, ArpFrames, OtherFrames, Carried, Connected, Genuine, Whole, Crosses
<1>2. CASE ~source_ip_valid_for_zone(arp.protosrc, zone)
  BY <1>2, IgnoreFollows DEF handle_arp
<1>3. CASE source_ip_valid_for_zone(arp.protosrc, zone)
  <2>1. last_seen' = last_seen
    BY <1>3 DEF handle_arp
  <2>2. CASE arp.opcode = "REQUEST" /\ IsGateway(arp.protodst)
    <3> DEFINE answer == [type |-> "ARP", src |-> GatewayMac[zone], dst |-> arp.hwsrc,
                          opcode |-> "REPLY", hwsrc |-> GatewayMac[zone],
                          protosrc |-> arp.protodst, protodst |-> arp.protosrc]
               m == PacketOut(ev.dpid, answer, ev.port)
    <3>1. pending' = pending /\ Send(<<m>>)
      BY <1>3, <2>2 DEF handle_arp
    <3>2. \A table : Carried(answer, table)
      BY DEF Carried, Connected, Genuine, Whole, Crosses
    <3> HIDE DEF answer
    <3>3. MessageFollows(m.to, m, last_seen')
      BY <3>2 DEF MessageFollows, PacketOut
    <3> HIDE DEF m
    <3>4. SentFollows'
      BY <3>1, <3>3, OneFollows, SendFollows
    <3> QED  BY <2>1, <3>1, <3>4, HandlerFollows
  <2>3. CASE arp.opcode = "REPLY" /\ IsGateway(arp.protodst)
    <3>1. arp.opcode # "REQUEST"
      BY <2>3
    <3>2. resolve_pending(arp.protosrc, arp.hwsrc)
      BY <1>3, <2>3, <3>1 DEF handle_arp
    <3> QED  BY <1>1, <2>1, <3>2, ResolvingFollows
  <2>4. CASE ~(arp.opcode \in {"REQUEST", "REPLY"} /\ IsGateway(arp.protodst))
    <3>1. pending' = pending /\ Send(flood_in_zone(ev))
      BY <1>3, <2>4 DEF handle_arp
    <3>2. SentFollows'
      BY <1>1, <3>1, FloodFollows, SendFollows
    <3> QED  BY <2>1, <3>1, <3>2, HandlerFollows
  <2> QED  BY <2>2, <2>3, <2>4
<1> QED  BY <1>2, <1>3

(* A packet that waits was let through (_queue_and_resolve()).             *)
LEMMA QueueingFollows ==
  ASSUME TypeOK, TypeOK', Remembers, QueuesCarry, NEW item, Accepted(item),
         Carried(item.frame, last_seen'), NEW zone, queue_and_resolve(item, zone)
  PROVE  QueuesCarry' /\ SentFollows'
<1> DEFINE ip == item.frame.dstip
           Let(x) == Carried(x.frame, last_seen')
<1>1. ip \in Ips /\ item \in Items
  BY AcceptedFrame DEF IpFrames
<1>2. \A j \in Ips : pending[j] # None =>
        \A i \in DOMAIN pending[j].queue : Let(pending[j].queue[i])
  BY CarriedStays DEF QueuesCarry
<1>3. Let(item)
  OBVIOUS
<1>4. QueuesCarry' <=>
        \A j \in Ips : pending'[j] # None =>
          \A i \in DOMAIN pending'[j].queue : Let(pending'[j].queue[i])
  BY DEF QueuesCarry, Carried, Connected, Genuine, Whole, is_reply, alive
<1> HIDE DEF Let
<1>5. ASSUME NEW entry, pending' = [pending EXCEPT ![ip] = entry],
             \A i \in DOMAIN entry.queue : Let(entry.queue[i])
      PROVE  QueuesCarry'
  <2>1. \A j \in Ips : pending'[j] = pending[j] \/ (j = ip /\ pending'[j] = entry)
    BY <1>5 DEF TypeOK
  <2> QED  BY <1>2, <1>4, <1>5, <2>1
<1>6. CASE pending[ip] = None
  <2> DEFINE entry == [zone |-> zone, queue |-> <<item>>, retries |-> 1]
  <2>1. pending' = [pending EXCEPT ![ip] = entry] /\ Send(send_arp_probe(ip, zone))
    BY <1>6 DEF queue_and_resolve
  <2>2. \A i \in DOMAIN entry.queue : entry.queue[i] = item
    OBVIOUS
  <2> HIDE DEF entry
  <2>3. QueuesCarry'
    BY <1>3, <1>5, <2>1, <2>2
  <2> QED  BY <2>1, <2>3, ProbesFollow, SendFollows
<1>7. CASE pending[ip] # None
  <2> DEFINE q == pending[ip].queue
             entry == [pending[ip] EXCEPT !.queue = Append(@, item)]
  <2>1. pending' = [pending EXCEPT ![ip] = entry] /\ Send(<<>>)
    BY <1>7 DEF queue_and_resolve
  <2>2. pending[ip] \in Resolutions
    BY <1>1, <1>7 DEF TypeOK
  <2>3. q \in Seq(Items) /\ entry.queue = Append(q, item)
    BY <2>2 DEF Resolutions
  <2>4. \A i \in DOMAIN q : Let(q[i])
    BY <1>1, <1>2, <1>7
  <2> HIDE DEF entry, q
  <2>5. \A i \in DOMAIN Append(q, item) :
          (i \in DOMAIN q /\ Append(q, item)[i] = q[i]) \/ Append(q, item)[i] = item
    BY <1>1, <2>3, AppendProperties, LenProperties
  <2>6. \A i \in DOMAIN entry.queue : Let(entry.queue[i])
    BY <1>3, <2>3, <2>4, <2>5
  <2>7. QueuesCarry'
    BY <1>5, <2>1, <2>6
  <2> QED  BY <2>1, <2>7, NothingFollows, SendFollows
<1> QED  BY <1>6, <1>7

(* A packet of a remembered connection is routed (_route()).               *)
LEMMA RouteFollows ==
  ASSUME TypeOK, TypeOK', Remembers, QueuesCarry, NEW ev, Accepted(ev),
         Genuine(ev.frame, last_seen'), Remembered(ev.frame, last_seen'),
         NEW zone, route(ev, zone)
  PROVE  RouterFollows
<1> DEFINE loc == ip_to_loc'[ev.frame.dstip]
           m == forward_ip(ev, zone, loc.port, loc.mac)
<1>1. Carried(ev.frame, last_seen')
  BY RememberedCarried
<1>2. CASE loc # None
  <2>1. /\ pending' = pending
        /\ Send(install_route_flows(ev, zone, loc.port, loc.mac) \o <<m>>)
    BY <1>2 DEF route
  <2>2. Packet(m, last_seen') /\ loc.port # None
    <3>1. loc \in Locations
      BY <1>2, AcceptedFrame DEF IpFrames, TypeOK
    <3> QED  BY <1>1, <3>1, ForwardIsPacket, PortMapsAssumption DEF Locations
  <2> HIDE DEF m
  <2>3. MessagesFollow(install_route_flows(ev, zone, loc.port, loc.mac) \o <<m>>, last_seen')
    BY <2>2, RouteRulesFollow DEF Genuine
  <2>4. SentFollows' /\ QueuesCarry'
    BY <2>1, <2>3, SendFollows, QueuesKept
  <2> QED  BY <2>4 DEF RouterFollows
<1>3. CASE loc = None
  <2>1. queue_and_resolve(ev, zone)
    BY <1>3 DEF route
  <2>2. SentFollows' /\ QueuesCarry'
    BY <1>1, <2>1, QueueingFollows
  <2> QED  BY <2>2 DEF RouterFollows
<1> QED  BY <1>2, <1>3

(* IP: what stays in its zone needs no connection, what crosses has one    *)
(* (_handle_ip()).                                                         *)
LEMMA IpFollows ==
  ASSUME SafetyInv, TypeOK', QueuesCarry, NEW ev \in Items, ev.frame.type = "IP",
         Genuine(ev.frame, last_seen), ~is_leaf_uplink(ev.dpid, ev.port), handle_ip(ev)
  PROVE  RouterFollows
<1> DEFINE p == ev.frame
           src_zone == zone_of_port(ev.dpid, ev.port)
           dst_zone == zone_for_ip(p.dstip)
<1>1. p \in IpFrames /\ TypeOK
  BY DEF Items, Frames, IpFrames, ArpFrames, OtherFrames, SafetyInv, TablesInv
<1>2. CASE ~source_ip_valid_for_zone(p.srcip, src_zone)
  BY <1>1, <1>2, IgnoreFollows DEF handle_ip
<1>3. CASE source_ip_valid_for_zone(p.srcip, src_zone)
  <2>1. zone_for_ip(p.srcip) = src_zone /\ src_zone \in ZONES
    BY <1>3, ValidSource
  <2>2. CASE IsGateway(p.dstip) \/ dst_zone \in {None, src_zone}
    <3>1. /\ last_seen' = last_seen /\ pending' = pending
          /\ Send(IF IsGateway(p.dstip) \/ dst_zone = None THEN <<>> ELSE l2_forward(ev))
      BY <1>3, <2>2 DEF handle_ip
    <3>2. SentFollows'
      <4>1. CASE IsGateway(p.dstip) \/ dst_zone = None
        <5>1. Send(<<>>)
          BY <3>1, <4>1
        <5> QED  BY <5>1, NothingFollows, SendFollows
      <4>2. CASE ~(IsGateway(p.dstip) \/ dst_zone = None)
        <5>1. Send(l2_forward(ev)) /\ ~Crosses(p)
          BY <2>1, <2>2, <3>1, <4>2 DEF Crosses
        <5>2. Carried(p, last_seen')
          BY <3>1, <5>1 DEF Carried, Connected
        <5> QED  BY <5>1, <5>2, L2Follows, SendFollows
      <4> QED  BY <4>1, <4>2
    <3> QED  BY <1>1, <3>1, <3>2, HandlerFollows
  <2>3. CASE ~(IsGateway(p.dstip) \/ dst_zone \in {None, src_zone})
    <3>1. handle_crossing(ev, src_zone, dst_zone)
      BY <1>3, <2>3 DEF handle_ip
    <3>2. dst_zone \in ZONES /\ Crosses(p)
      BY <2>1, <2>3, ZoneOrNone DEF Crosses
    <3>3. PICK allowed \in backend_verdicts(src_zone, p) :
            /\ last_seen' = check_table(last_seen, allowed, tracked(p))
            /\ IF check_verdict(last_seen, allowed, tracked(p)) = "drop"
                 THEN Send(install_drop_flow(ev)) /\ UNCHANGED <<pending, timers>>
                 ELSE route(ev, dst_zone)
      BY <3>1 DEF handle_crossing
    <3>4. allowed = Permits(p.srcip, p.dstip, p.kind)
      BY <1>3, <2>3, BackendsAgree
    <3>5. Remembers
      BY <1>1, <3>3, TrackingRemembers
    <3>6. CASE check_verdict(last_seen, allowed, tracked(p)) = "drop"
      <4>1. Send(install_drop_flow(ev)) /\ pending' = pending
        BY <3>3, <3>6
      <4>2. Orderly /\ p.kind = "echo_reply" => Unasked(p)
        <5> SUFFICES ASSUME Orderly, p.kind = "echo_reply" PROVE Unasked(p)
          OBVIOUS
        <5>1. tracked(p).may_reply
          BY DEF tracked, tracked_packet
        <5>2. ~allowed /\ ~is_reply(last_seen, tracked(p).flow)
          BY <3>6, <5>1 DEF check_verdict
        <5> QED  BY <3>2, <3>4, <5>2 DEF Genuine
      <4>3. p \in Frames
        BY DEF Items
      <4>4. SentFollows' /\ QueuesCarry'
        BY <1>1, <3>5, <4>1, <4>2, <4>3, DropFollows, SendFollows, QueuesKept DEF Genuine
      <4> QED  BY <3>5, <4>4 DEF RouterFollows
    <3>7. CASE check_verdict(last_seen, allowed, tracked(p)) # "drop"
      <4>1. route(ev, dst_zone)
        BY <3>3, <3>7
      <4>2. Justified(p)
        BY <1>1, <3>2, <3>3, <3>4, <3>7, TrackingSafe DEF SafetyInv, TablesInv
      <4>3. Accepted(ev)
        BY <1>3, <3>2, <4>2 DEF Accepted
      <4>4. Remembered(p, last_seen')
        BY <1>1, <3>3, <3>4, <3>7, TrackingFollows
      <4>5. Genuine(p, last_seen')
        BY <1>1, <3>5, GenuineStays
      <4> QED  BY <1>1, <3>5, <4>1, <4>3, <4>4, <4>5, RouteFollows
    <3> QED  BY <3>6, <3>7
  <2> QED  BY <2>2, <2>3
<1> QED  BY <1>2, <1>3

(* Every packet-in (_handle_PacketIn()).                                   *)
LEMMA PacketInFollows ==
  ASSUME SafetyInv, TypeOK', QueuesCarry, NEW ev \in Items,
         Brought(ev.dpid, ev.port, ev.frame, last_seen), PacketIn(ev)
  PROVE  RouterFollows
<1> DEFINE type == ev.frame.type
           uplink == is_leaf_uplink(ev.dpid, ev.port)
<1>1. /\ type \in {"IP", "ARP", "INCOMPLETE", "LLDP", "OTHER"}
      /\ TypeOK /\ QueuesAreJustified
  BY DEF Items, Frames, IpFrames, ArpFrames, OtherFrames, SafetyInv, TablesInv
<1>2. CASE type \in {"INCOMPLETE", "LLDP"}
  BY <1>1, <1>2, IgnoreFollows DEF PacketIn
<1>3. CASE type \notin {"INCOMPLETE", "LLDP"} /\ uplink
  BY <1>1, <1>3, TransitFollows DEF PacketIn, Brought
<1>4. CASE type = "ARP" /\ ~uplink
  BY <1>1, <1>4, ArpFollows DEF PacketIn
<1>5. CASE type = "IP" /\ ~uplink
  BY <1>1, <1>5, IpFollows DEF PacketIn, Brought
<1>6. CASE type = "OTHER" /\ ~uplink
  <2>1. Send(flood_in_zone(ev)) /\ last_seen' = last_seen /\ pending' = pending
    BY <1>6 DEF PacketIn
  <2>2. Carried(ev.frame, last_seen')
    BY <1>6 DEF Carried, Connected, Genuine, Whole, Crosses
  <2>3. SentFollows'
    BY <2>1, <2>2, FloodFollows, SendFollows
  <2> QED  BY <1>1, <2>1, <2>3, HandlerFollows
<1> QED  BY <1>1, <1>2, <1>3, <1>4, <1>5, <1>6

(* A retry probes again or gives up (_retry_arp()).                        *)
LEMMA RetryFollows ==
  ASSUME TypeOK, TypeOK', QueuesAreJustified, QueuesCarry, NEW ip \in Ips, retry_arp(ip)
  PROVE  RouterFollows
<1> DEFINE entry == pending[ip]
<1>1. last_seen' = last_seen
  BY DEF retry_arp
<1>2. Remembers
  BY <1>1, UnchangedRemembers
<1>3. CASE entry = None
  <2>1. pending' = pending /\ Send(<<>>)
    BY <1>3 DEF retry_arp
  <2>2. SentFollows'
    BY <2>1, NothingFollows, SendFollows
  <2> QED  BY <1>1, <2>1, <2>2, HandlerFollows
<1>4. CASE entry # None /\ entry.retries >= ARP_MAX_RETRIES
  <2> DEFINE msg(i) == icmp_error(entry.queue[i], "host_unreachable")
             msgs == [i \in DOMAIN entry.queue |-> msg(i)]
  <2>1. entry \in Resolutions
    BY <1>4 DEF TypeOK
  <2>2. ~(entry.retries < ARP_MAX_RETRIES)
    BY <1>4, <2>1, RouterAssumption DEF Resolutions
  <2>3. pending' = [pending EXCEPT ![ip] = None] /\ Send(msgs)
    BY <1>4, <2>2 DEF retry_arp
  <2>4. QueuesCarry'
    BY <1>1, <2>3, QueueEnds
  <2>5. \A i \in DOMAIN entry.queue : Accepted(entry.queue[i])
    BY <1>4, QueuedAccepted
  <2>6. \A i \in DOMAIN entry.queue : Packet(msg(i), last_seen')
    BY <2>5, ErrorIsPacket DEF EchoKinds, PartKinds
  <2> HIDE DEF msg
  <2>7. MessagesFollow(msgs, last_seen')
    BY <2>6, PacketsFollow
  <2>8. SentFollows'
    BY <2>3, <2>7, SendFollows
  <2> QED  BY <1>2, <2>4, <2>8 DEF RouterFollows
<1>5. CASE entry # None /\ ~(entry.retries >= ARP_MAX_RETRIES)
  <2> DEFINE next == [entry EXCEPT !.retries = @ + 1]
  <2>1. pending' = [pending EXCEPT ![ip] = next] /\ Send(send_arp_probe(ip, entry.zone))
    BY <1>5 DEF retry_arp
  <2>2. entry \in Resolutions
    BY <1>5 DEF TypeOK
  <2>3. next.queue = entry.queue
    BY <2>2 DEF Resolutions
  <2> HIDE DEF next
  <2>4. \A j \in Ips : pending'[j] = pending[j] \/ (j = ip /\ pending'[j] = next)
    BY <2>1 DEF TypeOK
  <2>5. \A j \in Ips : pending'[j] # None =>
          \A i \in DOMAIN pending'[j].queue : Carried(pending'[j].queue[i].frame, last_seen)
    BY <1>5, <2>3, <2>4 DEF QueuesCarry
  <2>6. QueuesCarry'
    BY <1>1, <2>5 DEF QueuesCarry, Carried, Connected, Genuine, Whole, is_reply, alive
  <2>7. SentFollows'
    BY <2>1, ProbesFollow, SendFollows
  <2> QED  BY <1>2, <2>6, <2>7 DEF RouterFollows
<1> QED  BY <1>3, <1>4, <1>5

-----------------------------------------------------------------------------
(* The network's steps. *)

(* What is let through stays so where it is while the controller acts.     *)
LEMMA ControllerCarries ==
  ASSUME TypeOK, TypeOK', CarryInv, Remembers, QueuesCarry', Transmits,
         online \subseteq online', \A d \in Dpids : tables'[d] \subseteq tables[d],
         \A d \in Dpids : Range(to_controller'[d]) \subseteq Range(to_controller[d])
  PROVE  CarryInv'
<1>1. ASSUME NEW d, NEW p, NEW f, Brought(d, p, f, last_seen) PROVE Brought(d, p, f, last_seen')
  BY <1>1, BroughtStays
<1>2. wire' = wire /\ delivered' = {} /\ \A d \in Dpids : d \notin online => to_switch'[d] = <<>>
  BY DEF Transmits
<1>3. WiresBring(wire', last_seen')
  BY <1>1, <1>2 DEF CarryInv, WiresBring
<1>4. \A d \in Dpids : \A ev \in Range(to_controller'[d]) :
        Brought(d, ev.port, ev.frame, last_seen')
  BY <1>1 DEF CarryInv, EventsBring
<1>5. Blank'
  BY <1>2 DEF CarryInv, Blank
<1>6. DeliveredCarried'
  BY <1>2 DEF DeliveredCarried
<1>7. PingsTracked(last_seen')
  BY DEF CarryInv, Remembers
<1> QED  BY <1>3, <1>4, <1>5, <1>6, <1>7
         DEF CarryInv, WiresBring, EventsBring, Brought, PingsTracked, Carried, Connected,
             Genuine, Whole, is_reply, alive

(* What a step of the controller puts on the channels is what it sent.     *)
LEMMA TransmitsFollows ==
  ASSUME TypeOK, TypeOK', SafeSent', OrdersInv, RulesInv,
         Remembers, SentFollows', Transmits
  PROVE  OrdersFollow'
<1>1. PICK msgs :
        /\ \A dpid \in online : msgs[dpid] \in InOrder(dpid)
        /\ to_switch' = [dpid \in Dpids |->
             IF dpid \in online THEN to_switch[dpid] \o msgs[dpid] ELSE <<>>]
  BY DEF Transmits
<1>2. ASSUME NEW d, NEW m, MessageFollows(d, m, last_seen) PROVE MessageFollows(d, m, last_seen')
  BY <1>2, RememberedStays, CarriedStays DEF MessageFollows
<1>3. ASSUME NEW d \in Dpids, NEW m \in Range(to_switch'[d])
      PROVE  MessageFollows(d, m, last_seen')
  <2>1. CASE d \in online
    <3>1. Messages(to_switch[d]) /\ Messages(msgs[d])
      BY <1>1, <2>1, SafeOrders DEF OrdersInv
    <3>2. PICK S : to_switch[d] \in Seq(S)
      BY <3>1 DEF Messages
    <3>3. PICK T : msgs[d] \in Seq(T)
      BY <3>1 DEF Messages
    <3> DEFINE U == S \cup T
    <3>4. S \subseteq U /\ T \subseteq U
      OBVIOUS
    <3> HIDE DEF U
    <3>5. to_switch[d] \in Seq(U)
      BY <3>2, <3>4, SeqMonotonic
    <3>6. msgs[d] \in Seq(U)
      BY <3>3, <3>4, SeqMonotonic
    <3>7. Range(to_switch[d] \o msgs[d]) \subseteq Range(to_switch[d]) \cup Range(msgs[d])
      BY <3>5, <3>6, RangeOfConcat
    <3>8. to_switch'[d] = to_switch[d] \o msgs[d]
      BY <1>1, <2>1
    <3>9. CASE m \in Range(to_switch[d])
      BY <1>2, <3>9 DEF RulesInv, OrdersFollow
    <3>10. CASE m \in Range(msgs[d])
      <4>1. \E i \in DOMAIN sent' : m = sent'[i] /\ m.to = d
        BY <1>1, <2>1, <3>10, OrderedAreSent
      <4> QED  BY <4>1 DEF SentFollows
    <3> QED  BY <1>3, <3>7, <3>8, <3>9, <3>10
  <2>2. CASE d \notin online
    <3>1. to_switch'[d] = <<>>
      BY <1>1, <2>2
    <3> QED  BY <1>3, <3>1, RangeOfNone
  <2> QED  BY <2>1, <2>2
<1> QED  BY <1>3 DEF OrdersFollow

(* A step of the controller leaves the rules of the switches it had before *)
(* to the connections they follow, and what is on its way to them.         *)
LEMMA ControllerFollows ==
  ASSUME NetInv, NetInv', FollowInv, RouterFollows, Transmits, UNCHANGED <<tables, online>>,
         \A d \in Dpids : Range(to_controller'[d]) \subseteq Range(to_controller[d])
  PROVE  FollowInv'
<1>1. TypeOK /\ TypeOK' /\ SafeSent' /\ OrdersInv /\ Remembers
  BY DEF NetInv, SafetyInv, TablesInv, RouterFollows
<1>2. OrdersFollow'
  BY <1>1, TransmitsFollows DEF FollowInv, RouterFollows
<1>3. ASSUME NEW d \in online, NEW r \in tables[d] PROVE RuleFollows(d, r, last_seen')
  <2>1. Timed(r) /\ RuleFollows(d, r, last_seen)
    BY DEF FollowInv, RulesInv, Online, RulesTimed, RulesFollow
  <2> QED  BY <1>1, <2>1, FollowingStays
<1>4. Online' /\ RulesTimed'
  BY DEF FollowInv, RulesInv, Online, RulesTimed
<1>5. RulesFollow'
  BY <1>3 DEF RulesFollow
<1>6. RulesInv'
  BY <1>2, <1>4, <1>5 DEF RulesInv
<1>7. CarryInv'
  BY <1>1, ControllerCarries DEF FollowInv, RouterFollows
<1> QED  BY <1>6, <1>7 DEF FollowInv, RouterFollows

(* A switch connects: its table is empty.                                  *)
LEMMA SwitchConnectsFollows ==
  ASSUME NetInv, NetInv', FollowInv, NEW dpid \in Dpids, SwitchConnects(dpid) PROVE FollowInv'
<1>1. /\ TypeOK /\ TypeOK' /\ SafeSent' /\ OrdersInv /\ last_seen' = last_seen
      /\ online' = online \cup {dpid} /\ tables' = [tables EXCEPT ![dpid] = {}] /\ Transmits
  BY DEF NetInv, SafetyInv, TablesInv, SwitchConnects, ConnectionUp, rules_cleared
<1>2. SentFollows'
  BY NothingFollows, SendFollows DEF SwitchConnects, ConnectionUp
<1>3. OrdersFollow'
  BY <1>1, <1>2, UnchangedRemembers, TransmitsFollows DEF FollowInv
<1>4. \A d \in Dpids : tables'[d] = {} \/ (d # dpid /\ tables'[d] = tables[d])
  BY <1>1 DEF NetInv, TablesLawful
<1>5. tables'[dpid] = {}
  BY <1>1 DEF NetInv, TablesLawful
<1>6. Online' /\ RulesTimed'
  BY <1>1, <1>4 DEF FollowInv, RulesInv, Online, RulesTimed
<1>7. RulesFollow'
  <2>1. \A d \in online' : \A r \in tables'[d] : RuleFollows(d, r, last_seen)
    BY <1>1, <1>4, <1>5 DEF FollowInv, RulesInv, Online, RulesFollow
  <2> QED  BY <1>1, <2>1 DEF RulesFollow
<1>8. CarryInv'
  <2>1. Remembers /\ pending' = pending /\ to_controller' = to_controller
    BY <1>1, UnchangedRemembers DEF SwitchConnects, ConnectionUp
  <2>2. QueuesCarry'
    BY <1>1, <2>1, QueuesKept DEF FollowInv, CarryInv
  <2>3. \A d \in Dpids : tables'[d] \subseteq tables[d]
    BY <1>4
  <2> QED  BY <1>1, <2>1, <2>2, <2>3, ControllerCarries DEF FollowInv
<1>9. RulesInv'
  BY <1>3, <1>6, <1>7 DEF RulesInv
<1> QED  BY <1>2, <1>8, <1>9 DEF FollowInv

(* Steps in which the controller waits.                                    *)
LEMMA WaitingFollows ==
  ASSUME RulesInv, last_seen' = last_seen, online' \subseteq online,
         RulesTimed', \A d \in online : \A r \in tables'[d] : RuleFollows(d, r, last_seen),
         \A d \in Dpids : Range(to_switch'[d]) \subseteq Range(to_switch[d])
  PROVE  RulesInv'
<1>1. Online' /\ RulesFollow'
  BY DEF RulesInv, Online, RulesFollow
<1>2. \A d \in Dpids : \A m \in Range(to_switch'[d]) : MessageFollows(d, m, last_seen)
  BY DEF RulesInv, OrdersFollow
<1>3. OrdersFollow'
  BY <1>2 DEF OrdersFollow
<1> QED  BY <1>1, <1>3 DEF RulesInv

(* A rule that is used stays the rule it was.                              *)
LEMMA SwitchForwardsFollows ==
  ASSUME NetInv, RulesInv, NEW dpid \in Dpids, NEW port \in Ports,
         SwitchForwards(dpid, port)
  PROVE  RulesInv'
<1>1. UNCHANGED <<last_seen, online, to_switch>>
  BY DEF SwitchForwards, RouterWaits, router_vars
<1>2. CASE tables' = tables
  BY <1>1, <1>2, WaitingFollows DEF RulesInv, Online, RulesTimed, RulesFollow
<1>3. ASSUME NEW r \in tables[dpid],
             tables' = [tables EXCEPT ![dpid] = (@ \ {r}) \cup {[r EXCEPT !.idle_age = 0]}]
      PROVE  RulesInv'
  <2> DEFINE used == [r EXCEPT !.idle_age = 0]
  <2>1. LawfulRule(r) /\ Timed(r)
    BY DEF NetInv, TablesLawful, RulesInv, RulesTimed
  <2>2. /\ used.match = r.match /\ used.actions = r.actions
        /\ used.hard = r.hard /\ used.age = r.age /\ DOMAIN used = DOMAIN r
    BY <2>1 DEF LawfulRule, Timed
  <2>3. tables' = [tables EXCEPT ![dpid] = (@ \ {r}) \cup {used}]
    BY <1>3
  <2> HIDE DEF used
  <2>4. \A d \in Dpids : \A x \in tables'[d] : x \in tables[d] \/ (d = dpid /\ x = used)
    BY <2>3 DEF NetInv, TablesLawful
  <2>5. RulesTimed'
    BY <2>1, <2>2, <2>4 DEF RulesInv, RulesTimed, Timed
  <2>6. \A d \in online : RuleFollows(d, r, last_seen) => RuleFollows(d, used, last_seen)
    BY <2>2 DEF RuleFollows
  <2>7. \A d \in online : \A x \in tables'[d] : RuleFollows(d, x, last_seen)
    BY <2>4, <2>6 DEF RulesInv, Online, RulesFollow
  <2> QED  BY <1>1, <2>5, <2>7, WaitingFollows
<1> QED  BY <1>2, <1>3 DEF SwitchForwards

(* A rule is made for a connection whose last packet it is made for.       *)
LEMMA SwitchObeysFollows ==
  ASSUME NetInv, RulesInv, NEW dpid \in Dpids, SwitchObeys(dpid) PROVE RulesInv'
<1> DEFINE s == to_switch[dpid]
           m == Head(s)
<1>1. UNCHANGED <<last_seen, online>> /\ to_switch' = [to_switch EXCEPT ![dpid] = Tail(s)]
  BY DEF SwitchObeys, RouterWaits, router_vars
<1>2. DOMAIN to_switch = Dpids
  BY DEF NetInv, OrdersInv
<1>3. m \in Range(s) /\ Range(Tail(s)) \subseteq Range(s)
  <2>1. PICK S : s \in Seq(S)
    BY DEF NetInv, OrdersInv, Messages
  <2>2. s # <<>>
    BY DEF SwitchObeys
  <2> HIDE DEF s
  <2> QED  BY <2>1, <2>2, RangeOfTail
<1>4. MessageFollows(dpid, m, last_seen)
  BY <1>3 DEF RulesInv, OrdersFollow
<1>5. \A d \in Dpids : Range(to_switch'[d]) \subseteq Range(to_switch[d])
  BY <1>1, <1>2, <1>3
<1> HIDE DEF m, s
<1>6. CASE tables' = tables
  BY <1>1, <1>5, <1>6, WaitingFollows DEF RulesInv, Online, RulesTimed, RulesFollow
<1>7. CASE /\ m.op = "flow_mod"
           /\ tables' = [tables EXCEPT ![dpid] =
                {r \in @ : r.match # m.match}
                  \cup {[match |-> m.match, actions |-> m.actions, idle |-> m.idle,
                         hard |-> m.hard, idle_age |-> 0, age |-> 0]}]
  <2> DEFINE rule == [match |-> m.match, actions |-> m.actions, idle |-> m.idle,
                      hard |-> m.hard, idle_age |-> 0, age |-> 0]
  <2>1. /\ rule.match = m.match /\ rule.actions = m.actions /\ rule.hard = m.hard
        /\ rule.age = 0 /\ Timed(rule)
    BY DEF Timed
  <2>2. tables' = [tables EXCEPT ![dpid] = {r \in @ : r.match # m.match} \cup {rule}]
    BY <1>7
  <2> HIDE DEF rule
  <2>3. \A d \in Dpids : \A x \in tables'[d] : x \in tables[d] \/ (d = dpid /\ x = rule)
    BY <2>2 DEF NetInv, TablesLawful
  <2>4. RulesTimed'
    BY <2>1, <2>3 DEF RulesInv, RulesTimed
  <2>5. RuleFollows(dpid, rule, last_seen)
    <3> SUFFICES ASSUME Decides(dpid, rule.match, rule.actions)
                 PROVE  /\ rule.hard = ROUTED_FLOW_HARD_TIMEOUT
                        /\ rule.age * TICK < ROUTED_FLOW_HARD_TIMEOUT + TICK
                        /\ Whole(rule.match.frame)
                        /\ NeedsConnection(rule.match.frame) =>
                             \E f \in DOMAIN last_seen :
                               BelongsTo(rule.match.frame, f) /\ last_seen[f] <= rule.age
      BY DEF RuleFollows
    <3>1. /\ m.hard = ROUTED_FLOW_HARD_TIMEOUT /\ Whole(m.match.frame)
          /\ Remembered(m.match.frame, last_seen)
      BY <1>4, <1>7, <2>1 DEF MessageFollows
    <3>2. 0 * TICK < ROUTED_FLOW_HARD_TIMEOUT + TICK
      BY NetAssumption DEF ROUTED_FLOW_HARD_TIMEOUT
    <3>3. ASSUME NEW f \in DOMAIN last_seen, last_seen[f] = 0 PROVE last_seen[f] <= 0
      BY <3>3
    <3> QED  BY <2>1, <3>1, <3>2, <3>3 DEF Remembered
  <2>6. \A d \in online : \A x \in tables'[d] : RuleFollows(d, x, last_seen)
    BY <2>3, <2>5 DEF RulesInv, Online, RulesFollow
  <2> QED  BY <1>1, <1>5, <2>4, <2>6, WaitingFollows
<1> QED  BY <1>6, <1>7 DEF SwitchObeys, m, s

(* Hosts that send, rules that end, channels that break.                   *)
LEMMA FewerRulesFollow ==
  ASSUME RulesInv, last_seen' = last_seen, online' \subseteq online,
         \A d \in Dpids : tables'[d] \subseteq tables[d],
         \A d \in Dpids : Range(to_switch'[d]) \subseteq Range(to_switch[d])
  PROVE  RulesInv'
<1>1. RulesTimed'
  BY DEF RulesInv, RulesTimed
<1>2. \A d \in online : \A r \in tables'[d] : RuleFollows(d, r, last_seen)
  BY DEF RulesInv, Online, RulesFollow
<1> QED  BY <1>1, <1>2, WaitingFollows

(* A host that sends changes no rule.                                      *)
LEMMA HostSendsFollows ==
  ASSUME RulesInv, NEW item \in HostFrames, HostSends(item) PROVE RulesInv'
  BY FewerRulesFollow DEF HostSends, RouterWaits, router_vars

(* A rule that ends.                                                       *)
LEMMA RuleExpiresFollows ==
  ASSUME NetInv, RulesInv, NEW dpid \in Dpids, NEW r, RuleExpires(dpid, r) PROVE RulesInv'
<1>1. \A d \in Dpids : tables'[d] \subseteq tables[d]
  BY DEF RuleExpires, NetInv, TablesLawful
<1> QED  BY <1>1, FewerRulesFollow DEF RuleExpires, RouterWaits, router_vars

(* A channel that breaks.                                                  *)
LEMMA ChannelBreaksFollows ==
  ASSUME NetInv, RulesInv, NEW dpid \in Dpids, ChannelBreaks(dpid) PROVE RulesInv'
<1>1. /\ DOMAIN to_switch = Dpids /\ to_switch' = [to_switch EXCEPT ![dpid] = <<>>]
      /\ online' = online \ {dpid} /\ UNCHANGED <<tables, last_seen>>
  BY DEF ChannelBreaks, NetInv, OrdersInv, RouterWaits, router_vars
<1>2. \A d \in Dpids : Range(to_switch'[d]) \subseteq Range(to_switch[d])
  BY <1>1, RangeOfNone
<1> QED  BY <1>1, <1>2, FewerRulesFollow

(* A controller that starts again has no switch yet.                       *)
LEMMA ControllerRestartsFollows ==
  ASSUME RulesInv, ControllerRestarts PROVE RulesInv'
<1>1. online' = {} /\ tables' = tables /\ \A d \in Dpids : to_switch'[d] = <<>>
  BY DEF ControllerRestarts
<1>2. Online' /\ RulesTimed' /\ RulesFollow'
  BY <1>1 DEF RulesInv, Online, RulesTimed, RulesFollow
<1>3. OrdersFollow'
  BY <1>1, RangeOfNone DEF OrdersFollow
<1> QED  BY <1>2, <1>3 DEF RulesInv

(* Time passes for rules and connections alike, and only when no rule is   *)
(* overdue and none on its way.                                            *)
LEMMA TimePassesFollows ==
  ASSUME NetInv, RulesInv, TimePasses PROVE RulesInv'
<1>1. /\ last_seen' = elapse(last_seen) /\ UNCHANGED <<online, to_switch>>
      /\ \A d \in Dpids : to_switch[d] = <<>>
      /\ \A d \in Dpids : tables'[d] = {Aged(r) : r \in tables[d]}
      /\ \A d \in Dpids : \A r \in tables[d] : ~Overdue(r)
  BY DEF TimePasses, Elapse, Quiet
<1>2. OrdersFollow'
  BY <1>1, RangeOfNone DEF OrdersFollow
<1>3. TypeOK
  BY DEF NetInv, SafetyInv, TablesInv
<1>4. ASSUME NEW f \in DOMAIN last_seen, NEW age \in Nat, last_seen[f] <= age
      PROVE  f \in DOMAIN last_seen' /\ last_seen'[f] <= age + 1
  <2>1. last_seen[f] \in Nat
    BY <1>3, IdleTimeoutAssumption DEF TypeOK
  <2>2. f \in DOMAIN last_seen' /\ last_seen'[f] \in {last_seen[f], last_seen[f] + 1}
    BY <1>1 DEF elapse
  <2> QED  BY <1>4, <2>1, <2>2
<1>5. ASSUME NEW d \in Dpids, NEW r \in tables[d]
      PROVE  /\ Timed(Aged(r)) /\ Aged(r).age = r.age + 1 /\ Aged(r).hard = r.hard
             /\ Aged(r).match = r.match /\ Aged(r).actions = r.actions
  <2>1. LawfulRule(r) /\ Timed(r)
    BY DEF NetInv, TablesLawful, RulesInv, RulesTimed
  <2> QED  BY <2>1 DEF LawfulRule, Timed, Aged
<1>6. RulesTimed'
  BY <1>1, <1>5 DEF RulesTimed
<1>7. ASSUME NEW d \in online, NEW r \in tables[d], RuleFollows(d, r, last_seen)
      PROVE  RuleFollows(d, Aged(r), last_seen')
  <2> SUFFICES ASSUME Decides(d, r.match, r.actions)
               PROVE  /\ r.hard = ROUTED_FLOW_HARD_TIMEOUT
                      /\ (r.age + 1) * TICK < ROUTED_FLOW_HARD_TIMEOUT + TICK
                      /\ Whole(r.match.frame)
                      /\ NeedsConnection(r.match.frame) =>
                           \E f \in DOMAIN last_seen' :
                             BelongsTo(r.match.frame, f) /\ last_seen'[f] <= r.age + 1
    BY <1>5 DEF RuleFollows, RulesInv, Online
  <2>1. r.hard = ROUTED_FLOW_HARD_TIMEOUT /\ r.age \in Nat /\ ~Overdue(r)
    BY <1>1, <1>7 DEF RuleFollows, RulesInv, Online, RulesTimed, Timed
  <2>2. (r.age + 1) * TICK < ROUTED_FLOW_HARD_TIMEOUT + TICK
    <3>1. TICK \in Nat /\ r.age * TICK \in Nat
      BY <2>1, NetAssumption
    <3>2. r.age * TICK < ROUTED_FLOW_HARD_TIMEOUT
      BY <2>1, <3>1 DEF Overdue, ROUTED_FLOW_HARD_TIMEOUT
    <3>3. (r.age + 1) * TICK = r.age * TICK + TICK
      BY <2>1, <3>1
    <3> QED  BY <3>1, <3>2, <3>3 DEF ROUTED_FLOW_HARD_TIMEOUT
  <2>3. ASSUME NeedsConnection(r.match.frame)
        PROVE  \E f \in DOMAIN last_seen' :
                 BelongsTo(r.match.frame, f) /\ last_seen'[f] <= r.age + 1
    <3>1. PICK f \in DOMAIN last_seen :
            BelongsTo(r.match.frame, f) /\ last_seen[f] <= r.age
      BY <1>7, <2>3 DEF RuleFollows
    <3> QED  BY <1>4, <2>1, <3>1
  <2> QED  BY <1>7, <2>1, <2>2, <2>3 DEF RuleFollows
<1>8. \A d \in online : \A x \in tables'[d] : RuleFollows(d, x, last_seen')
  <2>1. \A d \in online : \A x \in tables'[d] : \E r \in tables[d] : x = Aged(r)
    BY <1>1 DEF RulesInv, Online
  <2> QED  BY <1>7, <2>1 DEF RulesInv, RulesFollow
<1>9. Online' /\ RulesFollow'
  BY <1>1, <1>8 DEF RulesInv, Online, RulesFollow
<1> QED  BY <1>2, <1>6, <1>9 DEF RulesInv

-----------------------------------------------------------------------------
(* What the network's steps do to what has been let through. *)

(* While the controller waits, it is told where it is.                     *)
LEMMA WaitingCarries ==
  ASSUME CarryInv, RouterWaits, Blank', WiresBring(wire', last_seen),
         \A d \in Dpids : \A ev \in Range(to_controller'[d]) :
           Brought(d, ev.port, ev.frame, last_seen),
         \A x \in delivered' : Carried(x.frame, last_seen)
  PROVE  CarryInv'
<1>1. UNCHANGED <<last_seen, pending>>
  BY DEF RouterWaits, router_vars
<1>2. QueuesCarry' /\ DeliveredCarried'
  BY <1>1 DEF CarryInv, QueuesCarry, DeliveredCarried, Carried, Connected, Genuine, Whole, is_reply,
              alive
<1>3. PingsTracked(last_seen)'
  BY <1>1 DEF CarryInv, PingsTracked
<1> QED  BY <1>1, <1>2, <1>3 DEF CarryInv, WiresBring, EventsBring, Brought, Carried, Connected,
                                 Genuine, Whole, is_reply, alive

(* Other frames on one port.                                               *)
LEMMA ChangedBrings ==
  ASSUME WiresInv(wire), NEW table, WiresBring(wire, table),
         NEW d \in Dpids, NEW p \in Ports, NEW s,
         \A f \in Range(s) : Brought(d, p, f, table)
  PROVE  WiresBring([wire EXCEPT ![d][p] = s], table)
<1> DEFINE w == [wire EXCEPT ![d][p] = s]
<1>1. DOMAIN wire = Dpids /\ \A d2 \in Dpids : DOMAIN wire[d2] = Ports
  BY DEF WiresInv
<1>2. w[d] = [wire[d] EXCEPT ![p] = s] /\ \A d2 \in Dpids : d2 # d => w[d2] = wire[d2]
  BY <1>1
<1> HIDE DEF w
<1>3. w[d][p] = s /\ \A p2 \in Ports : p2 # p => w[d][p2] = wire[d][p2]
  BY <1>1, <1>2
<1>4. ASSUME NEW d2 \in Dpids, NEW p2 \in Ports, NEW f \in Range(w[d2][p2])
      PROVE  Brought(d2, p2, f, table)
  <2>1. w[d2][p2] = wire[d2][p2] \/ (d2 = d /\ p2 = p /\ w[d2][p2] = s)
    BY <1>2, <1>3
  <2> QED  BY <1>4, <2>1 DEF WiresBring
<1> QED  BY <1>4 DEF WiresBring, w

(* What a host answers to a ping that was let through is known for a reply *)
(* of its connection.                                                      *)
LEMMA AnswersGenuine ==
  ASSUME NEW d, NEW p, NEW frame \in Frames, NEW table, Carried(frame, table),
         PingsTracked(table), NEW f \in Answers(<<d, p>>, frame)
  PROVE  Genuine(f, table)
<1>1. CASE frame.type = "ARP"
  <2>1. frame \in ArpFrames
    BY <1>1 DEF Frames, IpFrames, OtherFrames
  <2>2. f.type = "ARP"
    BY <1>1, <2>1 DEF Answers, ArpFrames
  <2> QED  BY <2>2 DEF Genuine, Whole
<1>2. CASE frame.type # "ARP"
  <2>1. /\ frame.type = "IP" /\ frame.kind = "echo_request"
        /\ f = [frame EXCEPT !.src = Hosts[<<d, p>>].mac, !.dst = frame.src,
                             !.srcip = frame.dstip, !.dstip = frame.srcip,
                             !.kind = "echo_reply", !.ttl = DefaultTtl]
    BY <1>2 DEF Answers
  <2>2. frame \in IpFrames
    BY <2>1 DEF Frames, ArpFrames, OtherFrames
  <2>3. /\ f.type = "IP" /\ f.srcip = frame.dstip /\ f.dstip = frame.srcip
        /\ f.kind = "echo_reply" /\ f.sport = frame.sport /\ f.dport = frame.dport
    BY <2>1, <2>2 DEF IpFrames
  <2> SUFFICES ASSUME Orderly, Crosses(f) PROVE is_reply(table, tracked(f).flow)
    BY <2>3 DEF Genuine, Whole, PartKinds
  <2>4. Crosses(frame) /\ NeedsConnection(frame)
    BY <2>1, <2>3 DEF Crosses, NeedsConnection, EchoKinds
  <2>5. PICK g \in DOMAIN table : BelongsTo(frame, g) /\ alive(table, g)
    BY <2>4 DEF Carried, Connected, Orderly
  <2>6. g.proto = "icmp" /\ g.src = frame.srcip /\ g.dst = frame.dstip
    BY <2>1, <2>5 DEF BelongsTo, ProtoOf, IcmpKinds, EchoKinds
  <2>7. PICK i \in HostFrames :
          /\ i.frame.type = "IP" /\ i.frame.kind = "echo_request"
          /\ g = tracked(i.frame).flow
    BY <2>6 DEF PingsTracked, Pinged
  <2>8. PICK j \in HostFrames :
          /\ j.frame.type = "IP" /\ j.frame.kind = "echo_request"
          /\ tracked(frame).flow = tracked(j.frame).flow
    BY <2>1 DEF Carried, Genuine, Pinged
  <2>9. /\ g.src = i.frame.srcip /\ g.dst = i.frame.dstip
        /\ g.sport = i.frame.sport /\ g.dport = i.frame.dport
        /\ frame.srcip = j.frame.srcip /\ frame.dstip = j.frame.dstip
        /\ frame.sport = j.frame.sport /\ frame.dport = j.frame.dport
    BY <2>7, <2>8 DEF tracked, tracked_packet
  <2>10. i.frame.sport = i.frame.dport /\ j.frame.sport = j.frame.dport
    BY <2>7, <2>8, NetAssumption DEF EchoKinds
  <2>11. i.frame.sport = j.frame.sport
    BY <2>6, <2>7, <2>8, <2>9 DEF Orderly, OnePingEach
  <2>12. tracked(f).flow = [src |-> f.srcip, dst |-> f.dstip, proto |-> "icmp",
                            sport |-> f.sport, dport |-> f.dport]
    BY <2>3 DEF tracked, tracked_packet, ProtoOf, IcmpKinds, EchoKinds
  <2>13. g = [src |-> g.src, dst |-> g.dst, proto |-> g.proto,
              sport |-> g.sport, dport |-> g.dport]
    BY <2>7 DEF tracked, tracked_packet
  <2>14. reversed(tracked(f).flow) = [src |-> f.dstip, dst |-> f.srcip, proto |-> "icmp",
                                      sport |-> f.dport, dport |-> f.sport]
    BY <2>12 DEF reversed
  <2>15. /\ f.dstip = g.src /\ f.srcip = g.dst /\ f.dport = g.sport /\ f.sport = g.dport
    BY <2>3, <2>6, <2>9, <2>10, <2>11
  <2>16. reversed(tracked(f).flow) = g
    BY <2>6, <2>13, <2>14, <2>15
  <2> QED  BY <2>5, <2>16 DEF is_reply
<1> QED  BY <1>1, <1>2

(* What is emitted was let through; what hosts answer enters where they    *)
(* are, which is no uplink.                                                *)
LEMMA EmittedBrings ==
  ASSUME NEW w, WiresInv(w), NEW table, WiresBring(w, table), NEW dpid, NEW ports,
         NEW frame \in Frames, Entitled(frame), Carried(frame, table), PingsTracked(table)
  PROVE  WiresBring(Emitted(w, dpid, ports, frame), table)
<1> DEFINE new(d, p) ==
             {f \in {frame} : \E q \in ports : Linked(dpid, q, d, p)}
               \cup (IF d = dpid /\ p \in ports THEN Answers(<<d, p>>, frame) ELSE {})
           e == Emitted(w, dpid, ports, frame)
<1>1. \A d \in Dpids, p \in Ports :
        e[d][p] = IF new(d, p) = {} THEN w[d][p]
                  ELSE Append(w[d][p], CHOOSE f \in new(d, p) : TRUE)
  BY DEF Emitted
<1>2. ASSUME NEW d \in Dpids, NEW p \in Ports, NEW f \in new(d, p)
      PROVE  Brought(d, p, f, table) /\ f \in Entering(d, p)
  <2>1. CASE f \in Answers(<<d, p>>, frame)
    <3>1. <<d, p>> \in DOMAIN Hosts
      BY <2>1 DEF Answers
    <3> QED  BY <2>1, <3>1, HostPort, AnswersEnter, AnswersGenuine DEF Brought
  <2>2. CASE f = frame
    BY <2>2 DEF Brought, Entering, Carried
  <2> QED  BY <2>1, <2>2
<1> HIDE DEF new, e
<1>3. ASSUME NEW d \in Dpids, NEW p \in Ports, NEW f \in Range(e[d][p])
      PROVE  Brought(d, p, f, table)
  <2>1. w[d][p] \in Seq(Entering(d, p)) /\ \A g \in Range(w[d][p]) : Brought(d, p, g, table)
    BY DEF WiresInv, WiresBring
  <2>2. CASE new(d, p) = {}
    BY <1>1, <1>3, <2>1, <2>2
  <2>3. CASE new(d, p) # {}
    <3> DEFINE g == CHOOSE g \in new(d, p) : TRUE
    <3>1. Brought(d, p, g, table) /\ g \in Entering(d, p)
      BY <1>2, <2>3
    <3>2. e[d][p] = Append(w[d][p], g)
      BY <1>1, <2>3
    <3> HIDE DEF g
    <3>3. Range(e[d][p]) \subseteq Range(w[d][p]) \cup {g}
      BY <2>1, <3>1, <3>2, RangeOfAppend
    <3> QED  BY <1>3, <2>1, <3>1, <3>3
  <2> QED  BY <2>2, <2>3
<1> QED  BY <1>3 DEF WiresBring, e

(* A rule passes on what was let through, down an uplink or by a rule that *)
(* follows a connection.                                                   *)
LEMMA RuleCarries ==
  ASSUME NetInv, RulesInv, Blank, NEW dpid \in Dpids, NEW port, NEW frame \in Frames,
         Brought(dpid, port, frame, last_seen), NEW r \in tables[dpid],
         r.match \in {from_packet(frame, port), from_packet(Headless(frame), port)},
         r.actions.out # None
  PROVE  Carried(Rewritten(frame, r.actions), last_seen)
<1> DEFINE h == r.match.frame
<1>1. /\ h.type = frame.type
      /\ Crosses(h) <=> Crosses(frame)
      /\ r.match.in_port = port
      /\ frame.type = "IP" => h.kind \in PartKinds \/ r.match = from_packet(frame, port)
  BY MatchCovers
<1>2. LawfulRule(r) /\ Timed(r) /\ TypeOK
  BY DEF NetInv, TablesLawful, SafetyInv, TablesInv, RulesInv, RulesTimed
<1> HIDE DEF h
<1>3. Carried(frame, last_seen)
  <2> SUFFICES ASSUME Steady, Crosses(frame), NeedsConnection(frame),
                      ~is_leaf_uplink(dpid, port)
               PROVE  \E f \in DOMAIN last_seen : BelongsTo(frame, f) /\ alive(last_seen, f)
    BY DEF Carried, Connected, Brought
  <2>1. dpid \in online
    BY DEF Blank, Steady
  <2>2. RuleFollows(dpid, r, last_seen) /\ Decides(dpid, r.match, r.actions)
    BY <1>1, <1>2, <2>1 DEF RulesInv, RulesFollow, Decides, h
  <2>3. frame.type = "IP"
    BY DEF Crosses
  <2>a. h.kind \notin PartKinds
    BY <1>1, <2>2, <2>3 DEF RuleFollows, Whole, h
  <2>b. h = from_packet(frame, port).frame
    BY <1>1, <2>3, <2>a DEF h
  <2>c. /\ h.srcip = frame.srcip /\ h.dstip = frame.dstip /\ h.kind = frame.kind
        /\ frame.kind \in {"tcp", "udp"} => h.sport = frame.sport /\ h.dport = frame.dport
    BY <2>3, <2>b, MatchKeepsHeaders
  <2>4. NeedsConnection(h)
    BY <2>c DEF NeedsConnection
  <2>5. PICK f \in DOMAIN last_seen : BelongsTo(h, f) /\ last_seen[f] <= r.age
    BY <2>2, <2>4 DEF RuleFollows, h
  <2>6. alive(last_seen, f)
    BY <1>2, <2>2, <2>5, FollowedAlive DEF RuleFollows, Timed
  <2>7. BelongsTo(frame, f)
    BY <2>c, <2>5 DEF BelongsTo, NeedsConnection
  <2> QED  BY <2>6, <2>7
<1>4. CASE "dec_ttl" \notin DOMAIN r.actions
  BY <1>3, <1>4 DEF Rewritten
<1>5. CASE "dec_ttl" \in DOMAIN r.actions
  <2>1. frame \in IpFrames
    BY <1>1, <1>2, <1>5 DEF LawfulRule, Lawful, h, Frames, ArpFrames, OtherFrames
  <2> DEFINE f == [frame EXCEPT !.src = r.actions.set_src, !.dst = r.actions.set_dst,
                                !.ttl = frame.ttl - 1]
  <2>2. Rewritten(frame, r.actions) = f
    BY <1>5 DEF Rewritten
  <2>3. Carried(f, last_seen)
    BY <1>3, <2>1, HopCarried
  <2> HIDE DEF f
  <2> QED  BY <2>2, <2>3
<1> QED  BY <1>4, <1>5

(* What a host sends enters at its port.                                   *)
LEMMA HostSendsCarries ==
  ASSUME NetInv, CarryInv, NEW item \in HostFrames, HostSends(item) PROVE CarryInv'
<1> DEFINE d == item.dpid
           p == item.port
<1>1. /\ d \in Dpids /\ p \in Ports /\ item.frame \in Frames /\ <<d, p>> \in DOMAIN Hosts
  BY NetAssumption DEF Items
<1>2. ~is_leaf_uplink(d, p)
  BY <1>1, HostPort
<1>3. Brought(d, p, item.frame, last_seen)
  <2>1. Genuine(item.frame, last_seen)
    BY DEF Genuine, Whole, Steady, WholeHeaders, Pinged, Unasked
  <2> QED  BY <1>2, <2>1 DEF Brought
<1>4. WiresBring([wire EXCEPT ![d][p] = Append(@, item.frame)], last_seen)
  <2> DEFINE s == Append(wire[d][p], item.frame)
  <2>1. wire[d][p] \in Seq(Entering(d, p)) /\ item.frame \in Entering(d, p)
    BY <1>1, <1>2 DEF Entering, NetInv, WiresInv
  <2>2. Range(s) \subseteq Range(wire[d][p]) \cup {item.frame}
    BY <2>1, RangeOfAppend
  <2> HIDE DEF s
  <2>3. \A f \in Range(s) : Brought(d, p, f, last_seen)
    BY <1>1, <1>3, <2>2 DEF CarryInv, WiresBring
  <2>4. WiresBring([wire EXCEPT ![d][p] = s], last_seen)
    BY <1>1, <2>3, ChangedBrings DEF NetInv, CarryInv
  <2> QED  BY <2>4 DEF s
<1>5. /\ WiresBring(wire', last_seen) /\ delivered' = {} /\ RouterWaits
      /\ UNCHANGED <<tables, online, to_controller, to_switch>>
  BY <1>4 DEF HostSends
<1>6. Blank'
  BY <1>5 DEF CarryInv, Blank
<1> QED  BY <1>5, <1>6, WaitingCarries DEF CarryInv, EventsBring

(* A frame is raised where it entered, or a rule passes it on.             *)
LEMMA SwitchForwardsCarries ==
  ASSUME NetInv, FollowInv, NEW dpid \in Dpids, NEW port \in Ports, SwitchForwards(dpid, port)
  PROVE  CarryInv'
<1> DEFINE frame == Head(wire[dpid][port])
           rest  == [wire EXCEPT ![dpid][port] = Tail(@)]
           exact == {r \in tables[dpid] : r.match = from_packet(frame, port)}
           wide  == {r \in tables[dpid] : r.match = from_packet(Headless(frame), port)}
           hits  == IF exact # {} THEN exact ELSE wide
           item  == [dpid |-> dpid, port |-> port, frame |-> frame]
<1>1. frame \in Entering(dpid, port) /\ WiresInv(rest)
  BY TakenFromWire DEF NetInv, SwitchForwards
<1>2. Brought(dpid, port, frame, last_seen) /\ WiresBring(rest, last_seen)
  <2>1. wire[dpid][port] \in Seq(Entering(dpid, port)) /\ wire[dpid][port] # <<>>
    BY DEF NetInv, WiresInv, SwitchForwards
  <2>2. /\ frame \in Range(wire[dpid][port])
        /\ Range(Tail(wire[dpid][port])) \subseteq Range(wire[dpid][port])
    BY <2>1, RangeOfTail
  <2>3. \A f \in Range(wire[dpid][port]) : Brought(dpid, port, f, last_seen)
    BY DEF FollowInv, CarryInv, WiresBring
  <2>4. \A f \in Range(Tail(wire[dpid][port])) : Brought(dpid, port, f, last_seen)
    BY <2>2, <2>3
  <2>5. WiresBring(rest, last_seen)
    BY <2>4, ChangedBrings DEF NetInv, FollowInv, CarryInv
  <2> QED  BY <2>2, <2>3, <2>5
<1>3. frame \in Frames
  BY <1>1 DEF Entering
<1>4. RouterWaits /\ UNCHANGED <<online, to_switch>>
  BY DEF SwitchForwards
<1>5. \A d \in Dpids : \A ev \in Range(to_controller[d]) :
        Brought(d, ev.port, ev.frame, last_seen)
  BY DEF FollowInv, CarryInv, EventsBring
<1>6. CASE /\ wire' = rest
           /\ to_controller' =
                IF dpid \notin online THEN to_controller
                ELSE [to_controller EXCEPT ![dpid] = Append(@, item)]
           /\ delivered' = {}
           /\ UNCHANGED tables
  <2>1. item \in Raised(dpid) /\ Brought(dpid, item.port, item.frame, last_seen)
    BY <1>1, <1>2, <1>3 DEF Raised, Items
  <2>2. to_controller[dpid] \in Seq(Raised(dpid)) /\ DOMAIN to_controller = Dpids
    BY DEF NetInv, RaisedInv
  <2> HIDE DEF item, rest
  <2>3. Range(Append(to_controller[dpid], item)) \subseteq Range(to_controller[dpid]) \cup {item}
    BY <2>1, <2>2, RangeOfAppend
  <2>4. ASSUME NEW d \in Dpids, NEW ev \in Range(to_controller'[d])
        PROVE  Brought(d, ev.port, ev.frame, last_seen)
    <3>1. \/ to_controller'[d] = to_controller[d]
          \/ d = dpid /\ to_controller'[d] = Append(to_controller[dpid], item)
      BY <1>6, <2>2
    <3>2. ev \in Range(to_controller[d]) \/ (d = dpid /\ ev = item)
      BY <2>3, <2>4, <3>1
    <3> QED  BY <1>5, <2>1, <3>2
  <2>5. WiresBring(wire', last_seen) /\ Blank'
    BY <1>2, <1>4, <1>6 DEF FollowInv, CarryInv, Blank
  <2> QED  BY <1>4, <1>6, <2>4, <2>5, WaitingCarries DEF FollowInv
<1>7. ASSUME NEW r \in hits,
             LET out == IF HopLeft(frame, r.actions) THEN {r.actions.out} \ {None, port} ELSE {}
                 f   == Rewritten(frame, r.actions)
             IN  /\ tables' = [tables EXCEPT ![dpid] =
                                 (@ \ {r}) \cup {[r EXCEPT !.idle_age = 0]}]
                 /\ wire' = Emitted(rest, dpid, out, f)
                 /\ delivered' = Handed(dpid, out, f)
                 /\ UNCHANGED to_controller
      PROVE  CarryInv'
  <2> DEFINE out == IF HopLeft(frame, r.actions) THEN {r.actions.out} \ {None, port} ELSE {}
             f   == Rewritten(frame, r.actions)
  <2>1. /\ r \in tables[dpid] /\ LawfulRule(r)
        /\ r.match \in {from_packet(frame, port), from_packet(Headless(frame), port)}
    BY DEF NetInv, TablesLawful
  <2>2. Blank'
    <3>1. \A d \in Dpids : d # dpid => tables'[d] = tables[d]
      BY <1>7 DEF NetInv, TablesLawful
    <3> QED  BY <1>4, <2>1, <3>1 DEF FollowInv, CarryInv, Blank
  <2>3. /\ WiresBring(wire', last_seen)
        /\ \A x \in delivered' : Carried(x.frame, last_seen)
    <3>1. wire' = Emitted(rest, dpid, out, f) /\ delivered' = Handed(dpid, out, f)
      BY <1>7
    <3> HIDE DEF rest, frame, f
    <3>2. CASE out = {}
      <4>1. wire' = [d \in Dpids |-> [p \in Ports |-> rest[d][p]]]
        BY <3>1, <3>2 DEF Emitted
      <4>2. WiresBring(wire', last_seen) /\ delivered' = {}
        BY <1>2, <3>1, <3>2, <4>1 DEF WiresBring, Handed
      <4> QED  BY <4>2
    <3>3. CASE out # {}
      <4>1. r.actions.out # None /\ HopLeft(frame, r.actions)
        BY <3>3
      <4>2. f \in Frames /\ Entitled(f)
        BY <1>3, <2>1, <4>1, ForwardsEntitled DEF f
      <4>3. Carried(f, last_seen)
        BY <1>2, <1>3, <2>1, <4>1, RuleCarries DEF f, FollowInv, CarryInv
      <4> HIDE DEF out
      <4>4. WiresBring(wire', last_seen)
        BY <1>1, <1>2, <3>1, <4>2, <4>3, EmittedBrings DEF FollowInv, CarryInv
      <4>5. \A x \in delivered' : x.frame = f
        BY <3>1, HandedFrame
      <4> QED  BY <4>3, <4>4, <4>5
    <3> QED  BY <3>2, <3>3
  <2>4. to_controller' = to_controller
    BY <1>7
  <2> QED  BY <1>4, <1>5, <2>2, <2>3, <2>4, WaitingCarries DEF FollowInv
<1> QED  BY <1>6, <1>7 DEF SwitchForwards

(* What the controller has a switch emit was let through.                  *)
LEMMA SwitchObeysCarries ==
  ASSUME NetInv, FollowInv, NEW dpid \in Dpids, SwitchObeys(dpid) PROVE CarryInv'
<1> DEFINE s == to_switch[dpid]
           m == Head(s)
<1>1. Obeyable(m)
  BY FirstMessage DEF NetInv, OrdersInv, SwitchObeys
<1>2. s # <<>> /\ DOMAIN to_switch = Dpids /\ DOMAIN tables = Dpids
  BY DEF NetInv, OrdersInv, TablesLawful, SwitchObeys
<1>3. MessageFollows(dpid, m, last_seen)
  <2>1. PICK S : s \in Seq(S)
    BY DEF NetInv, OrdersInv, Messages
  <2>2. m \in Range(s)
    <3> HIDE DEF s
    <3> QED  BY <1>2, <2>1, RangeOfTail
  <2> QED  BY <2>2 DEF FollowInv, RulesInv, OrdersFollow
<1>4. /\ to_switch' = [to_switch EXCEPT ![dpid] = Tail(s)] /\ RouterWaits
      /\ UNCHANGED <<online, to_controller>>
  BY DEF SwitchObeys
<1>5. Blank'
  <2>1. \A d \in Dpids : d # dpid => tables'[d] = tables[d] /\ to_switch'[d] = to_switch[d]
    BY <1>2, <1>4 DEF SwitchObeys
  <2> QED  BY <1>2, <1>4, <2>1 DEF FollowInv, CarryInv, Blank
<1> HIDE DEF m, s
<1>6. CASE m.op = "flow_mod" /\ delivered' = {} /\ UNCHANGED wire
  BY <1>4, <1>5, <1>6, WaitingCarries DEF FollowInv, CarryInv, EventsBring
<1>7. CASE /\ m.op = "packet_out"
           /\ LET ports == IF "in_port" \in DOMAIN m THEN Ports \ {m.in_port} ELSE {m.out}
              IN  /\ wire' = Emitted(wire, dpid, ports, m.frame)
                  /\ delivered' = Handed(dpid, ports, m.frame)
  <2>1. m.frame \in Frames /\ Entitled(m.frame) /\ Carried(m.frame, last_seen)
    BY <1>1, <1>3, <1>7 DEF Obeyable, MessageFollows
  <2>2. /\ wire' = Emitted(wire, dpid, OutPorts(m), m.frame)
        /\ delivered' = Handed(dpid, OutPorts(m), m.frame)
    BY <1>7 DEF OutPorts
  <2>3. WiresBring(wire', last_seen)
    BY <2>1, <2>2, EmittedBrings DEF NetInv, FollowInv, CarryInv
  <2>4. \A x \in delivered' : x.frame = m.frame
    BY <2>2, HandedFrame
  <2> QED  BY <1>4, <1>5, <2>1, <2>3, <2>4, WaitingCarries DEF FollowInv, CarryInv, EventsBring
<1> QED  BY <1>6, <1>7 DEF SwitchObeys, m, s

(* Rules that end.                                                         *)
LEMMA RuleExpiresCarries ==
  ASSUME NetInv, CarryInv, NEW dpid \in Dpids, NEW r, RuleExpires(dpid, r) PROVE CarryInv'
<1>1. \A d \in Dpids : tables'[d] \subseteq tables[d]
  BY DEF RuleExpires, NetInv, TablesLawful
<1>2. /\ RouterWaits /\ delivered' = {}
      /\ UNCHANGED <<wire, online, to_controller, to_switch>>
  BY DEF RuleExpires
<1>3. Blank'
  BY <1>1, <1>2 DEF CarryInv, Blank
<1> QED  BY <1>2, <1>3, WaitingCarries DEF CarryInv, EventsBring

(* With faults, nothing is said.                                           *)
LEMMA FaultsCarry == ASSUME Faults, delivered' = {} PROVE CarryInv'
<1>1. \A f, table : Carried(f, table)
  BY DEF Carried, Connected, Genuine, Whole, Orderly, Steady
<1>2. \A d, p, f, table : Brought(d, p, f, table)
  BY <1>1 DEF Brought, Carried
<1>3. Blank' /\ DeliveredCarried' /\ PingsTracked(last_seen)'
  BY DEF Blank, DeliveredCarried, PingsTracked, Orderly, Steady
<1>4. QueuesCarry'
  BY <1>1 DEF QueuesCarry, Carried, Connected, Genuine, Whole, is_reply, alive
<1>5. WiresBring(wire, last_seen)' /\ EventsBring(last_seen)'
  BY <1>2 DEF WiresBring, EventsBring, Brought, Carried, Connected, Genuine, Whole, is_reply, alive
<1> QED  BY <1>3, <1>4, <1>5 DEF CarryInv

(* Time passes when nothing is on its way and nothing waits.               *)
LEMMA TimePassesCarries == ASSUME CarryInv, TimePasses PROVE CarryInv'
<1>1. /\ delivered' = {} /\ UNCHANGED <<wire, online, to_controller, to_switch, pending>>
      /\ \A ip \in Ips : pending[ip] = None
      /\ \A d \in Dpids : tables'[d] = {Aged(r) : r \in tables[d]}
      /\ \A d \in Dpids : to_controller[d] = <<>> /\ \A p \in Ports : wire[d][p] = <<>>
  BY DEF TimePasses, Quiet, Elapse
<1>2. Blank'
  BY <1>1 DEF CarryInv, Blank
<1>3. WiresBring(wire', last_seen') /\ QueuesCarry' /\ DeliveredCarried'
  BY <1>1, RangeOfNone DEF WiresBring, QueuesCarry, DeliveredCarried
<1>4. \A d \in Dpids : \A ev \in Range(to_controller'[d]) :
        Brought(d, ev.port, ev.frame, last_seen')
  BY <1>1, RangeOfNone
<1>5. PingsTracked(last_seen')
  <2>1. DOMAIN last_seen' = DOMAIN last_seen
    BY DEF TimePasses, Elapse, elapse
  <2> QED  BY <2>1 DEF CarryInv, PingsTracked
<1> QED  BY <1>2, <1>3, <1>4, <1>5
         DEF CarryInv, WiresBring, EventsBring, Brought, PingsTracked, Carried, Connected,
             Genuine, Whole, is_reply, alive

-----------------------------------------------------------------------------
(* The controller's steps, and all. *)

(* A packet-in.                                                            *)
LEMMA ControllerReceivesFollows ==
  ASSUME NetInv, FollowInv, NetInv', NEW dpid \in Dpids, ControllerReceives(dpid)
  PROVE  FollowInv'
<1> DEFINE s == to_controller[dpid]
           ev == Head(s)
<1>1. /\ s \in Seq(Raised(dpid)) /\ s # <<>> /\ DOMAIN to_controller = Dpids
      /\ \A x \in Range(s) : Brought(dpid, x.port, x.frame, last_seen)
  BY DEF NetInv, RaisedInv, FollowInv, CarryInv, EventsBring, ControllerReceives
<1>2. /\ PacketIn(ev) /\ to_controller' = [to_controller EXCEPT ![dpid] = Tail(s)]
      /\ Transmits /\ UNCHANGED <<tables, online>>
  BY DEF ControllerReceives
<1> HIDE DEF s
<1>3. ev \in Raised(dpid) /\ ev \in Range(s) /\ Range(Tail(s)) \subseteq Range(s)
  BY <1>1, FirstAndRest, RangeOfTail
<1>4. ev \in Items /\ Brought(ev.dpid, ev.port, ev.frame, last_seen)
  BY <1>1, <1>3 DEF Raised
<1>5. \A d \in Dpids : Range(to_controller'[d]) \subseteq Range(to_controller[d])
  BY <1>1, <1>2, <1>3 DEF s
<1> HIDE DEF ev
<1>6. RouterFollows
  BY <1>2, <1>4, PacketInFollows DEF NetInv, SafetyInv, TablesInv, FollowInv, CarryInv
<1> QED  BY <1>2, <1>5, <1>6, ControllerFollows

(* A retry timer.                                                          *)
LEMMA ControllerRetriesFollows ==
  ASSUME NetInv, FollowInv, NetInv', NEW ip \in Ips, ControllerRetries(ip) PROVE FollowInv'
<1>1. /\ TypeOK /\ TypeOK' /\ QueuesAreJustified /\ QueuesCarry /\ retry_arp(ip)
      /\ Transmits /\ UNCHANGED <<tables, online, to_controller>>
  BY DEF ControllerRetries, NetInv, SafetyInv, TablesInv, FollowInv, CarryInv
<1>2. RouterFollows
  BY <1>1, RetryFollows
<1> QED  BY <1>1, <1>2, ControllerFollows

(* The sweep of the connection table.                                      *)
LEMMA ControllerSweepsFollows ==
  ASSUME NetInv, FollowInv, NetInv', ControllerSweeps PROVE FollowInv'
<1>1. /\ TypeOK /\ TypeOK' /\ QueuesCarry /\ Expire /\ Send(<<>>) /\ pending' = pending
      /\ Transmits /\ UNCHANGED <<tables, online, to_controller>>
  BY DEF ControllerSweeps, Expire, NetInv, SafetyInv, TablesInv, FollowInv, CarryInv
<1>2. Remembers /\ SentFollows'
  BY <1>1, SweepRemembers, NothingFollows, SendFollows
<1>3. RouterFollows
  BY <1>1, <1>2, QueuesKept DEF RouterFollows
<1> QED  BY <1>1, <1>3, ControllerFollows

(* At first there is no rule and nothing is on its way.                    *)
LEMMA FollowStart == NetInit => FollowInv
<1> SUFFICES ASSUME NetInit PROVE FollowInv
  OBVIOUS
<1>1. /\ online = {} /\ delivered = {} /\ \A ip \in Ips : pending[ip] = None
      /\ sent = <<>> /\ DOMAIN last_seen = {}
      /\ \A d \in Dpids : /\ tables[d] = {} /\ to_switch[d] = <<>> /\ to_controller[d] = <<>>
                          /\ \A p \in Ports : wire[d][p] = <<>>
  BY DEF NetInit, Init
<1>2. RulesInv
  BY <1>1, RangeOfNone DEF RulesInv, Online, RulesTimed, RulesFollow, OrdersFollow
<1>3. CarryInv
  BY <1>1, RangeOfNone
  DEF CarryInv, Blank, WiresBring, EventsBring, QueuesCarry, DeliveredCarried, PingsTracked
<1>4. SentFollows
  BY <1>1 DEF SentFollows
<1> QED  BY <1>2, <1>3, <1>4 DEF FollowInv

(* Every step keeps the invariant.                                         *)
LEMMA FollowStep == NetInv /\ NetInv' /\ FollowInv /\ [NetNext]_all_vars => FollowInv'
<1> SUFFICES ASSUME NetInv, NetInv', FollowInv, [NetNext]_all_vars PROVE FollowInv'
  OBVIOUS
<1>1. RulesInv /\ CarryInv
  BY DEF FollowInv
<1>2. ASSUME UNCHANGED all_vars PROVE FollowInv'
  <2>1. RulesInv'
    BY <1>1, <1>2, FewerRulesFollow DEF all_vars, router_vars, net_vars
  <2>2. CarryInv'
    BY <1>1, <1>2 DEF all_vars, router_vars, net_vars, CarryInv, Blank, WiresBring,
                      EventsBring, Brought, QueuesCarry, DeliveredCarried, PingsTracked, Carried,
                      Connected, Genuine, Whole, is_reply, alive
  <2>3. SentFollows'
    BY <1>2 DEF all_vars, router_vars, FollowInv, SentFollows, MessageFollows, Remembered,
                Carried, Connected, Genuine, Whole, is_reply, alive
  <2> QED  BY <2>1, <2>2, <2>3 DEF FollowInv
<1>a. ASSUME sent' = <<>> PROVE SentFollows'
  BY <1>a DEF SentFollows
<1>b. ASSUME RouterWaits PROVE SentFollows'
  BY <1>a, <1>b DEF RouterWaits
<1>3. ASSUME NEW item \in HostFrames, HostSends(item) PROVE FollowInv'
  BY <1>1, <1>b, <1>3, HostSendsFollows, HostSendsCarries DEF HostSends, FollowInv
<1>4. ASSUME NEW dpid \in Dpids, NEW port \in Ports, SwitchForwards(dpid, port) PROVE FollowInv'
  BY <1>1, <1>b, <1>4, SwitchForwardsFollows, SwitchForwardsCarries DEF SwitchForwards, FollowInv
<1>5. ASSUME NEW dpid \in Dpids, SwitchObeys(dpid) PROVE FollowInv'
  BY <1>1, <1>b, <1>5, SwitchObeysFollows, SwitchObeysCarries DEF SwitchObeys, FollowInv
<1>6. ASSUME NEW dpid \in Dpids, NEW r \in tables[dpid], RuleExpires(dpid, r) PROVE FollowInv'
  BY <1>1, <1>b, <1>6, RuleExpiresFollows, RuleExpiresCarries DEF RuleExpires, FollowInv
<1>7. ASSUME NEW dpid \in Dpids, ChannelBreaks(dpid) PROVE FollowInv'
  <2>1. Faults /\ delivered' = {} /\ SentFollows'
    BY <1>b, <1>7 DEF ChannelBreaks
  <2> QED  BY <1>1, <1>7, <2>1, ChannelBreaksFollows, FaultsCarry DEF FollowInv
<1>8. ASSUME ControllerRestarts PROVE FollowInv'
  <2>1. Faults /\ delivered' = {} /\ SentFollows'
    BY <1>a, <1>8 DEF ControllerRestarts
  <2> QED  BY <1>1, <1>8, <2>1, ControllerRestartsFollows, FaultsCarry DEF FollowInv
<1>9. ASSUME TimePasses PROVE FollowInv'
  <2>1. SentFollows'
    BY <1>9, NothingFollows, SendFollows DEF TimePasses, Elapse
  <2> QED  BY <1>1, <1>9, <2>1, TimePassesFollows, TimePassesCarries DEF FollowInv
<1> QED  BY <1>2, <1>3, <1>4, <1>5, <1>6, <1>7, <1>8, <1>9, SwitchConnectsFollows,
           ControllerReceivesFollows, ControllerRetriesFollows, ControllerSweepsFollows
         DEF NetNext

(* In every state of the network, a rule of a switch that is connected     *)
(* follows a remembered connection, and so does every rule on its way      *)
(* (check(), _install_route_flows() and the timeouts of both). If nothing  *)
(* fails, what crosses belongs to a live connection wherever it is once it *)
(* is let through: on a link to a leaf, in a message, in a queue.          *)
THEOREM FollowingHolds == NetSpec => []FollowInv
<1> QED  BY FollowStart, FollowStep, NetSafety, PTL DEF NetSpec

(* The controller remembers the connection of every rule that routes one   *)
(* and is no younger than its last packet (_install_route_flows(), the     *)
(* hard timeout, ConnectionTable.expire()).                                *)
THEOREM ConnectionsOutliveRules == NetSpec => []RulesFollowConnections
<1>1. NetInv /\ FollowInv => RulesFollowConnections
  <2> SUFFICES ASSUME NetInv, FollowInv, NEW d \in online, NEW r \in tables[d],
                      Decides(d, r.match, r.actions), NeedsConnection(r.match.frame)
               PROVE  \E f \in DOMAIN last_seen :
                        /\ BelongsTo(r.match.frame, f)
                        /\ alive(last_seen, f) /\ last_seen[f] <= r.age
    BY DEF RulesFollowConnections, Decides, NeedsConnection
  <2>1. TypeOK /\ Timed(r) /\ RuleFollows(d, r, last_seen)
    BY DEF NetInv, SafetyInv, TablesInv, FollowInv, RulesInv, Online, RulesTimed, RulesFollow
  <2>2. PICK f \in DOMAIN last_seen : BelongsTo(r.match.frame, f) /\ last_seen[f] <= r.age
    BY <2>1 DEF RuleFollows
  <2>3. alive(last_seen, f)
    BY <2>1, <2>2, FollowedAlive DEF RuleFollows, Timed
  <2> QED  BY <2>2, <2>3
<1> QED  BY <1>1, FollowingHolds, NetSafety, PTL

(* The stateful firewall from end to end: as long as no channel breaks,    *)
(* the controller is not restarted and hosts send no packets without their *)
(* transport header, whatever TCP, UDP or echo traffic reaches a host from *)
(* another zone belongs to a connection that is still remembered, also     *)
(* what a rule forwarded that nobody asked the controller about, and what  *)
(* waited. A rule for a packet without its header covers the whole         *)
(* protocol, so other connections' packets pass by it unrecorded           *)
(* (check(), _install_route_flows(), _resolve_pending()).                  *)
THEOREM TrafficConnected ==
  ASSUME ~Faults, WholeHeaders PROVE NetSpec => []TrafficHasConnection
<1>1. FollowInv => TrafficHasConnection
  BY DEF FollowInv, CarryInv, DeliveredCarried, Carried, Connected, Steady,
         TrafficHasConnection
<1> QED  BY <1>1, FollowingHolds, PTL

(* Connection tracking's purpose, from end to end: as long as nothing      *)
(* fails, a host pings another once at a time and hosts send no packets    *)
(* without their header, the controller never has the reply to a ping      *)
(* dropped, by a rule for it or for all ICMP: the ping's connection is     *)
(* alive when its reply comes in, whichever rules carried the ping and     *)
(* however long it waited. Each of the hypotheses is needed: a fragment of *)
(* a ping has a rule made that carries requests unseen, a fragment of a    *)
(* reply one that drops them all (the module docstring on the stateful     *)
(* firewall, check(), is_reply(), _install_drop_flow()).                   *)
THEOREM AnswersPass ==
  ASSUME ~Faults, OnePingEach, WholeHeaders PROVE NetSpec => []AnswersGetThrough
<1>1. FollowInv => AnswersGetThrough
  <2> SUFFICES ASSUME FollowInv, NEW i \in DOMAIN sent, sent[i].op = "flow_mod",
                      EmitPort(sent[i]) = None,
                      sent[i].match.frame.kind \in {"echo_reply", "icmp_part"}
               PROVE  Unasked(sent[i].match.frame)
    BY DEF AnswersGetThrough, Unasked
  <2>1. MessageFollows(sent[i].to, sent[i], last_seen)
    BY DEF FollowInv, SentFollows
  <2> QED  BY <2>1 DEF MessageFollows, EmitPort, Orderly, Steady
<1> QED  BY <1>1, FollowingHolds, PTL

=============================================================================
