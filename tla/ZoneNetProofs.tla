---------------------------- MODULE ZoneNetProofs ----------------------------
(***************************************************************************)
(* The whole network keeps its zones apart, for every policy, layout and   *)
(* set of hosts, whatever they send, and also while channels break and the *)
(* controller is restarted. The controller's own safety is proved in       *)
(* ZoneRouterProofs of packet-ins that are entitled to be where they are;  *)
(* here it is shown that no others are raised.                             *)
(***************************************************************************)
EXTENDS ZoneNet, ZoneRouterProofs

-----------------------------------------------------------------------------
(* The invariant. *)

(* A frame that is entitled to cross, if it crosses.                       *)
Entitled(f) == Crosses(f) => Justified(f)

(* What may enter a switch there: down an uplink, entitled frames only.    *)
Entering(dpid, port) == {f \in Frames : is_leaf_uplink(dpid, port) => Entitled(f)}

WiresInv(w) ==
  /\ DOMAIN w = Dpids
  /\ \A d \in Dpids : DOMAIN w[d] = Ports
  /\ \A d \in Dpids, p \in Ports : w[d][p] \in Seq(Entering(d, p))

LawfulRule(r) == {"match", "actions"} \subseteq DOMAIN r /\ Lawful(r.match.frame, r.actions)

TablesLawful ==
  DOMAIN tables = Dpids /\ \A d \in Dpids : \A r \in tables[d] : LawfulRule(r)

(* The packet-ins a switch may raise.                                      *)
Raised(dpid) == {ev \in Items : ev.dpid = dpid /\ ev.frame \in Entering(dpid, ev.port)}

RaisedInv ==
  DOMAIN to_controller = Dpids /\ \A d \in Dpids : to_controller[d] \in Seq(Raised(d))

(* A message a switch may obey.                                            *)
Obeyable(m) ==
  /\ m.op = "packet_out" => m.frame \in Frames /\ Entitled(m.frame)
  /\ m.op = "flow_mod" => Lawful(m.match.frame, m.actions)

Messages(s) == \E S : s \in Seq(S) /\ \A m \in S : Obeyable(m)

OrdersInv == DOMAIN to_switch = Dpids /\ \A d \in Dpids : Messages(to_switch[d])

DeliveredInv == \A x \in delivered : Entitled(x.frame)

NetInv ==
  SafetyInv /\ WiresInv(wire) /\ TablesLawful /\ RaisedInv /\ OrdersInv /\ DeliveredInv

-----------------------------------------------------------------------------
(* Sequences. *)

(* The first element of a sequence and the rest of it.                     *)
LEMMA FirstAndRest ==
  ASSUME NEW S, NEW s \in Seq(S), s # <<>>
  PROVE  Head(s) \in S /\ Tail(s) \in Seq(S)
  BY HeadTailProperties

(* Messages for a switch: the first one and the rest, more of them, none.  *)
LEMMA FirstMessage ==
  ASSUME NEW s, Messages(s), s # <<>>
  PROVE  Obeyable(Head(s)) /\ Messages(Tail(s))
<1>1. PICK S : s \in Seq(S) /\ \A m \in S : Obeyable(m)
  BY DEF Messages
<1>2. Head(s) \in S /\ Tail(s) \in Seq(S)
  BY <1>1, FirstAndRest
<1> QED  BY <1>1, <1>2 DEF Messages

LEMMA MoreMessages ==
  ASSUME NEW s, Messages(s), NEW t, Messages(t)
  PROVE  Messages(s \o t)
<1>1. PICK S : s \in Seq(S) /\ \A m \in S : Obeyable(m)
  BY DEF Messages
<1>2. PICK T : t \in Seq(T) /\ \A m \in T : Obeyable(m)
  BY DEF Messages
<1> DEFINE U == S \cup T
<1>3. S \subseteq U /\ T \subseteq U /\ \A m \in U : Obeyable(m)
  BY <1>1, <1>2
<1> HIDE DEF U
<1>4. s \in Seq(U)
  BY <1>1, <1>3, SeqMonotonic
<1>5. t \in Seq(U)
  BY <1>2, <1>3, SeqMonotonic
<1>6. s \o t \in Seq(U)
  BY <1>4, <1>5, ConcatProperties
<1> QED  BY <1>3, <1>6 DEF Messages

LEMMA NoMessages == Messages(<<>>)
<1> DEFINE none == {}
<1>1. <<>> \in Seq(none) /\ \A m \in none : Obeyable(m)
  OBVIOUS
<1> HIDE DEF none
<1>2. \E S : <<>> \in Seq(S) /\ \A m \in S : Obeyable(m)
  BY <1>1, Zenon
<1> QED  BY <1>2 DEF Messages

-----------------------------------------------------------------------------
(* Frames on links. *)

(* An address where a host is plugged in is no uplink, and what the host   *)
(* answers is a frame.                                                     *)
LEMMA AnswersEnter ==
  ASSUME NEW d, NEW p, NEW frame \in Frames, NEW f \in Answers(<<d, p>>, frame)
  PROVE  f \in Entering(d, p)
<1>1. <<d, p>> \in DOMAIN Hosts
  BY DEF Answers
<1>2. ~is_leaf_uplink(d, p) /\ Hosts[<<d, p>>].ip \in Ips /\ Hosts[<<d, p>>].mac \in Macs
  <2>1. ~is_leaf_uplink(<<d, p>>[1], <<d, p>>[2])
    BY <1>1, NetAssumption
  <2>2. Hosts[<<d, p>>] \in [ip : Ips, mac : Macs]
    BY <1>1, NetAssumption
  <2> QED  BY <2>1, <2>2
<1>3. f \in Frames
  <2>1. CASE frame.type = "ARP"
    <3>1. frame \in ArpFrames
      BY <2>1 DEF Frames, IpFrames, OtherFrames
    <3>2. f = [frame EXCEPT !.src = Hosts[<<d, p>>].mac, !.dst = frame.hwsrc,
                            !.opcode = "REPLY", !.hwsrc = Hosts[<<d, p>>].mac,
                            !.protosrc = frame.protodst, !.protodst = frame.protosrc]
      BY <2>1 DEF Answers
    <3>3. f \in ArpFrames
      BY <1>2, <3>1, <3>2 DEF ArpFrames
    <3> QED  BY <3>3 DEF Frames
  <2>2. CASE frame.type # "ARP"
    <3>1. /\ frame.type = "IP"
          /\ f = [frame EXCEPT !.src = Hosts[<<d, p>>].mac, !.dst = frame.src,
                               !.srcip = frame.dstip, !.dstip = frame.srcip,
                               !.kind = "echo_reply", !.ttl = DefaultTtl]
      BY <2>2 DEF Answers
    <3>2. frame \in IpFrames
      BY <3>1 DEF Frames, ArpFrames, OtherFrames
    <3>3. f \in IpFrames
      BY <1>2, <3>1, <3>2 DEF IpFrames, Kinds, IcmpKinds, EchoKinds, DefaultTtl
    <3> QED  BY <3>3 DEF Frames
  <2> QED  BY <2>1, <2>2
<1> QED  BY <1>2, <1>3 DEF Entering

(* A frame that is entitled to cross may be emitted anywhere.              *)
LEMMA EmittedEnters ==
  ASSUME NEW w, WiresInv(w), NEW dpid, NEW ports, NEW frame \in Frames, Entitled(frame)
  PROVE  WiresInv(Emitted(w, dpid, ports, frame))
<1> DEFINE new(d, p) ==
             {f \in {frame} : \E q \in ports : Linked(dpid, q, d, p)}
               \cup (IF d = dpid /\ p \in ports THEN Answers(<<d, p>>, frame) ELSE {})
           e == Emitted(w, dpid, ports, frame)
<1>1. e = [d \in Dpids |-> [p \in Ports |->
             IF new(d, p) = {} THEN w[d][p]
             ELSE Append(w[d][p], CHOOSE f \in new(d, p) : TRUE)]]
  BY DEF Emitted
<1>2. ASSUME NEW d \in Dpids, NEW p \in Ports PROVE new(d, p) \subseteq Entering(d, p)
  <2>1. frame \in Entering(d, p)
    BY DEF Entering
  <2> QED  BY <2>1, AnswersEnter
<1> HIDE DEF new, e
<1>3. ASSUME NEW d \in Dpids, NEW p \in Ports PROVE e[d][p] \in Seq(Entering(d, p))
  <2>1. w[d][p] \in Seq(Entering(d, p))
    BY DEF WiresInv
  <2>2. CASE new(d, p) = {}
    BY <1>1, <2>1, <2>2
  <2>3. CASE new(d, p) # {}
    <3> DEFINE f == CHOOSE f \in new(d, p) : TRUE
    <3>1. f \in Entering(d, p)
      BY <1>2, <2>3
    <3>2. e[d][p] = Append(w[d][p], f)
      BY <1>1, <2>3
    <3> HIDE DEF f
    <3> QED  BY <2>1, <3>1, <3>2, AppendProperties
  <2> QED  BY <2>2, <2>3
<1>4. DOMAIN e = Dpids /\ \A d \in Dpids : DOMAIN e[d] = Ports
  BY <1>1
<1> QED  BY <1>3, <1>4 DEF WiresInv, e

(* Other frames on one port.                                               *)
LEMMA RewiredPort ==
  ASSUME WiresInv(wire), NEW d \in Dpids, NEW p \in Ports, NEW s \in Seq(Entering(d, p))
  PROVE  WiresInv([wire EXCEPT ![d][p] = s])
<1> DEFINE w == [wire EXCEPT ![d][p] = s]
<1>1. DOMAIN wire = Dpids /\ \A d2 \in Dpids : DOMAIN wire[d2] = Ports
  BY DEF WiresInv
<1>2. DOMAIN w = Dpids /\ w[d] = [wire[d] EXCEPT ![p] = s]
  BY <1>1
<1>3. \A d2 \in Dpids : d2 # d => w[d2] = wire[d2]
  BY <1>1
<1> HIDE DEF w
<1>4. w[d][p] = s /\ DOMAIN w[d] = Ports /\ \A p2 \in Ports : p2 # p => w[d][p2] = wire[d][p2]
  BY <1>1, <1>2
<1>5. \A d2 \in Dpids : DOMAIN w[d2] = Ports
  BY <1>1, <1>3, <1>4
<1>6. ASSUME NEW d2 \in Dpids, NEW p2 \in Ports PROVE w[d2][p2] \in Seq(Entering(d2, p2))
  <2>1. wire[d2][p2] \in Seq(Entering(d2, p2))
    BY DEF WiresInv
  <2> QED  BY <1>3, <1>4, <2>1
<1> QED  BY <1>2, <1>5, <1>6 DEF WiresInv, w

(* Taking the first frame off a port.                                      *)
LEMMA TakenFromWire ==
  ASSUME WiresInv(wire), NEW d \in Dpids, NEW p \in Ports, wire[d][p] # <<>>
  PROVE  /\ Head(wire[d][p]) \in Entering(d, p)
         /\ WiresInv([wire EXCEPT ![d][p] = Tail(@)])
<1>1. wire[d][p] \in Seq(Entering(d, p))
  BY DEF WiresInv
<1>2. Head(wire[d][p]) \in Entering(d, p) /\ Tail(wire[d][p]) \in Seq(Entering(d, p))
  BY <1>1, FirstAndRest
<1>3. WiresInv([wire EXCEPT ![d][p] = Tail(@)])
  BY <1>2, RewiredPort
<1> QED  BY <1>2, <1>3

(* A rule passes on a frame it matches, and only what is entitled to.      *)
LEMMA ForwardsEntitled ==
  ASSUME NEW frame \in Frames, NEW port, NEW r, LawfulRule(r),
         r.match \in {from_packet(frame, port), from_packet(Headless(frame), port)},
         r.actions.out # None, HopLeft(frame, r.actions)
  PROVE  LET f == Rewritten(frame, r.actions) IN f \in Frames /\ Entitled(f)
<1> DEFINE h == r.match.frame
           f == Rewritten(frame, r.actions)
<1>1. /\ h.type = frame.type
      /\ Crosses(h) <=> Crosses(frame)
      /\ frame.type = "IP" => (Justified(h) => Justified(frame))
  BY MatchCovers
<1>2. Entitled(frame)
  BY <1>1 DEF LawfulRule, Lawful, Entitled, Crosses
<1>3. CASE "dec_ttl" \notin DOMAIN r.actions
  BY <1>2, <1>3 DEF Rewritten
<1>4. CASE "dec_ttl" \in DOMAIN r.actions
  <2>1. /\ frame.type = "IP" /\ frame.ttl > 1
        /\ r.actions.set_src \in Macs /\ r.actions.set_dst \in Macs
    BY <1>1, <1>4 DEF LawfulRule, Lawful, HopLeft
  <2>2. frame \in IpFrames
    BY <2>1 DEF Frames, ArpFrames, OtherFrames
  <2>3. f = [frame EXCEPT !.src = r.actions.set_src, !.dst = r.actions.set_dst, !.ttl = @ - 1]
    BY <1>4 DEF Rewritten
  <2>4. frame.ttl - 1 \in Nat
    BY <2>1, <2>2 DEF IpFrames
  <2>5. /\ f \in IpFrames /\ f.type = frame.type /\ f.kind = frame.kind
        /\ f.srcip = frame.srcip /\ f.dstip = frame.dstip
    BY <2>1, <2>2, <2>3, <2>4 DEF IpFrames
  <2> HIDE DEF f
  <2>6. (Crosses(f) <=> Crosses(frame)) /\ (Justified(f) <=> Justified(frame))
    BY <2>5 DEF Crosses, Justified
  <2>7. f \in Frames /\ Entitled(f)
    BY <1>2, <2>5, <2>6 DEF Frames, Entitled
  <2> QED  BY <2>7 DEF f
<1> QED  BY <1>3, <1>4

(* What is emitted on no port goes nowhere.                                *)
LEMMA EmittedNowhere ==
  ASSUME NEW w, WiresInv(w), NEW dpid, NEW frame
  PROVE  WiresInv(Emitted(w, dpid, {}, frame))
<1>1. Emitted(w, dpid, {}, frame) = [d \in Dpids |-> [p \in Ports |-> w[d][p]]]
  BY DEF Emitted
<1> QED  BY <1>1 DEF WiresInv

(* What is handed to hosts is the frame that was emitted.                  *)
LEMMA HandedFrame ==
  ASSUME NEW dpid, NEW ports, NEW frame, NEW x \in Handed(dpid, ports, frame)
  PROVE  x.frame = frame
<1>1. PICK port \in ports : x = [dpid |-> dpid, port |-> port, frame |-> frame]
  BY DEF Handed
<1> QED  BY <1>1

-----------------------------------------------------------------------------
(* The controller's messages. *)

(* A safe message may be obeyed, so a switch is sent none that may not.    *)
LEMMA SafeOrders ==
  ASSUME SafeSent', NEW dpid, NEW s \in InOrder(dpid)
  PROVE  Messages(s)
<1> DEFINE mine == {i \in DOMAIN sent' : sent'[i].to = dpid}
           n == Cardinality(mine)
           S == {sent'[i] : i \in mine}
<1>1. n \in Nat
  <2>1. IsFiniteSet(mine)
    BY FS_Subset DEF SafeSent
  <2> QED  BY <2>1, FS_CardinalityType
<1>2. PICK at \in [1 .. n -> mine] : s = [k \in 1 .. n |-> sent'[at[k]]]
  BY DEF InOrder
<1>3. \A m \in S : Obeyable(m)
  BY DEF SafeSent, Safe, Obeyable, Entitled
<1>4. s \in [1 .. n -> S]
  BY <1>2
<1> HIDE DEF n, S
<1>5. s \in Seq(S)
  BY <1>1, <1>4, SeqDef
<1> QED  BY <1>3, <1>5 DEF Messages

LEMMA TransmitsKeeps ==
  ASSUME SafeSent', OrdersInv, Transmits
  PROVE  OrdersInv' /\ DeliveredInv' /\ wire' = wire
<1>1. PICK msgs :
        /\ \A dpid \in online : msgs[dpid] \in InOrder(dpid)
        /\ to_switch' = [dpid \in Dpids |->
             IF dpid \in online THEN to_switch[dpid] \o msgs[dpid] ELSE <<>>]
  BY DEF Transmits
<1>2. ASSUME NEW dpid \in Dpids PROVE Messages(to_switch'[dpid])
  <2>1. CASE dpid \in online
    <3>1. Messages(to_switch[dpid]) /\ Messages(msgs[dpid])
      BY <1>1, <2>1, SafeOrders DEF OrdersInv
    <3>2. to_switch'[dpid] = to_switch[dpid] \o msgs[dpid]
      BY <1>1, <2>1
    <3> QED  BY <3>1, <3>2, MoreMessages
  <2>2. CASE dpid \notin online
    <3>1. to_switch'[dpid] = <<>>
      BY <1>1, <2>2
    <3> QED  BY <3>1, NoMessages
  <2> QED  BY <2>1, <2>2
<1>3. DOMAIN to_switch' = Dpids
  BY <1>1
<1>4. DeliveredInv' /\ wire' = wire
  BY DEF Transmits, DeliveredInv
<1> QED  BY <1>2, <1>3, <1>4 DEF OrdersInv, Messages, Obeyable

(* While the controller waits it sends nothing.                            *)
LEMMA WaitingSafe == ASSUME SafetyInv, RouterWaits PROVE SafetyInv'
<1>1. SafeSent'
  <2>1. sent' = <<>> /\ DOMAIN <<>> = {}
    BY DEF RouterWaits
  <2> QED  BY <2>1, FS_EmptySet DEF SafeSent
<1> QED  BY <1>1 DEF RouterWaits, router_vars, SafetyInv, TablesInv, TypeOK,
           OneTimerPerResolution, LocationsMatchZones, TrackedArePermitted, QueuesAreJustified

-----------------------------------------------------------------------------
(* The steps. *)

LEMMA HostSendsSafe ==
  ASSUME NetInv, NEW item \in HostFrames, HostSends(item) PROVE NetInv'
<1> DEFINE d == item.dpid
           p == item.port
<1>1. item \in Items /\ d \in Dpids /\ p \in Ports /\ item.frame \in Frames
  BY NetAssumption DEF Items
<1>2. ~is_leaf_uplink(d, p)
  <2>1. <<d, p>> \in DOMAIN Hosts
    BY NetAssumption
  <2>2. ~is_leaf_uplink(<<d, p>>[1], <<d, p>>[2])
    BY <2>1, NetAssumption
  <2> QED  BY <2>2
<1>3. item.frame \in Entering(d, p) /\ wire[d][p] \in Seq(Entering(d, p))
  BY <1>1, <1>2 DEF Entering, NetInv, WiresInv
<1>4. Append(wire[d][p], item.frame) \in Seq(Entering(d, p))
  BY <1>3, AppendProperties
<1>5. WiresInv([wire EXCEPT ![d][p] = Append(@, item.frame)])
  BY <1>1, <1>4, RewiredPort DEF NetInv
<1>6. WiresInv(wire') /\ delivered' = {} /\ UNCHANGED <<tables, to_controller, to_switch>>
  BY <1>5 DEF HostSends
<1>7. SafetyInv'
  BY WaitingSafe DEF HostSends, NetInv
<1> QED  BY <1>6, <1>7 DEF NetInv, WiresInv, TablesLawful, RaisedInv, OrdersInv, DeliveredInv

(* A frame without a rule is raised where it entered; a rule passes on     *)
(* only what is entitled to cross.                                         *)
LEMMA SwitchForwardsSafe ==
  ASSUME NetInv, NEW dpid \in Dpids, NEW port \in Ports, SwitchForwards(dpid, port)
  PROVE  NetInv'
<1> DEFINE frame == Head(wire[dpid][port])
           rest  == [wire EXCEPT ![dpid][port] = Tail(@)]
           exact == {r \in tables[dpid] : r.match = from_packet(frame, port)}
           wide  == {r \in tables[dpid] : r.match = from_packet(Headless(frame), port)}
           hits  == IF exact # {} THEN exact ELSE wide
           item  == [dpid |-> dpid, port |-> port, frame |-> frame]
<1>1. frame \in Entering(dpid, port) /\ WiresInv(rest)
  BY TakenFromWire DEF NetInv, SwitchForwards
<1>2. frame \in Frames
  BY <1>1 DEF Entering
<1>3. SafetyInv' /\ OrdersInv'
  BY WaitingSafe DEF SwitchForwards, NetInv, OrdersInv
<1>4. CASE /\ wire' = rest
           /\ to_controller' =
                IF dpid \notin online THEN to_controller
                ELSE [to_controller EXCEPT ![dpid] = Append(@, item)]
           /\ delivered' = {}
           /\ UNCHANGED tables
  <2>1. item \in Raised(dpid)
    BY <1>1, <1>2 DEF Raised, Items
  <2>2. to_controller[dpid] \in Seq(Raised(dpid))
    BY DEF NetInv, RaisedInv
  <2> HIDE DEF item
  <2>3. Append(to_controller[dpid], item) \in Seq(Raised(dpid))
    BY <2>1, <2>2, AppendProperties
  <2>4. RaisedInv'
    BY <1>4, <2>3 DEF NetInv, RaisedInv
  <2>5. WiresInv(wire') /\ TablesLawful' /\ DeliveredInv'
    BY <1>1, <1>4 DEF NetInv, TablesLawful, DeliveredInv
  <2> QED  BY <1>3, <2>4, <2>5 DEF NetInv, WiresInv
<1>5. ASSUME NEW r \in hits,
             LET out == IF HopLeft(frame, r.actions) THEN {r.actions.out} \ {None, port} ELSE {}
                 f   == Rewritten(frame, r.actions)
             IN  /\ tables' = [tables EXCEPT ![dpid] =
                                 (@ \ {r}) \cup {[r EXCEPT !.idle_age = 0]}]
                 /\ wire' = Emitted(rest, dpid, out, f)
                 /\ delivered' = Handed(dpid, out, f)
                 /\ UNCHANGED to_controller
      PROVE  NetInv'
  <2> DEFINE out == IF HopLeft(frame, r.actions) THEN {r.actions.out} \ {None, port} ELSE {}
             f   == Rewritten(frame, r.actions)
  <2>1. /\ LawfulRule(r) /\ r \in tables[dpid]
        /\ r.match \in {from_packet(frame, port), from_packet(Headless(frame), port)}
    BY DEF NetInv, TablesLawful
  <2>2. LawfulRule([r EXCEPT !.idle_age = 0])
    BY <2>1 DEF LawfulRule
  <2>3. TablesLawful'
    <3>1. tables' = [tables EXCEPT ![dpid] = (@ \ {r}) \cup {[r EXCEPT !.idle_age = 0]}]
      BY <1>5
    <3>2. DOMAIN tables' = Dpids /\ \A d \in Dpids : \A x \in tables'[d] :
            x \in tables[d] \/ x = [r EXCEPT !.idle_age = 0]
      BY <3>1 DEF NetInv, TablesLawful
    <3> QED  BY <2>2, <3>2 DEF NetInv, TablesLawful, LawfulRule, Lawful
  <2>4. WiresInv(wire') /\ DeliveredInv'
    <3>1. wire' = Emitted(rest, dpid, out, f) /\ delivered' = Handed(dpid, out, f)
      BY <1>5
    <3> HIDE DEF rest, frame, f
    <3>2. CASE out = {}
      <4>1. WiresInv(wire')
        BY <1>1, <3>1, <3>2, EmittedNowhere
      <4>2. delivered' = {}
        BY <3>1, <3>2 DEF Handed
      <4> QED  BY <4>1, <4>2 DEF DeliveredInv
    <3>3. CASE out # {}
      <4>1. r.actions.out # None /\ HopLeft(frame, r.actions)
        BY <3>3
      <4>2. f \in Frames /\ Entitled(f)
        BY <1>2, <2>1, <4>1, ForwardsEntitled DEF f
      <4>3. WiresInv(wire')
        BY <1>1, <3>1, <4>2, EmittedEnters
      <4>4. \A x \in delivered' : x.frame = f
        BY <3>1, HandedFrame
      <4> QED  BY <4>2, <4>3, <4>4 DEF DeliveredInv, Entitled
    <3> QED  BY <3>2, <3>3
  <2>5. RaisedInv'
    BY <1>5 DEF NetInv, RaisedInv
  <2> QED  BY <1>3, <2>3, <2>4, <2>5 DEF NetInv, WiresInv
<1> QED  BY <1>4, <1>5 DEF SwitchForwards

LEMMA SwitchObeysSafe ==
  ASSUME NetInv, NEW dpid \in Dpids, SwitchObeys(dpid) PROVE NetInv'
<1> DEFINE m == Head(to_switch[dpid])
<1>1. Obeyable(m) /\ Messages(Tail(to_switch[dpid]))
  BY FirstMessage DEF NetInv, OrdersInv, SwitchObeys
<1>2. SafetyInv' /\ RaisedInv'
  BY WaitingSafe DEF SwitchObeys, NetInv, RaisedInv
<1>3. OrdersInv'
  <2>1. to_switch' = [to_switch EXCEPT ![dpid] = Tail(@)]
    BY DEF SwitchObeys
  <2> QED  BY <1>1, <2>1 DEF NetInv, OrdersInv, Messages, Obeyable
<1> HIDE DEF m
<1>4. CASE /\ m.op = "flow_mod"
           /\ tables' = [tables EXCEPT ![dpid] =
                {r \in @ : r.match # m.match}
                  \cup {[match |-> m.match, actions |-> m.actions, idle |-> m.idle,
                         hard |-> m.hard, idle_age |-> 0, age |-> 0]}]
           /\ delivered' = {}
           /\ UNCHANGED wire
  <2> DEFINE rule == [match |-> m.match, actions |-> m.actions, idle |-> m.idle,
                      hard |-> m.hard, idle_age |-> 0, age |-> 0]
  <2>1. LawfulRule(rule)
    BY <1>1, <1>4 DEF LawfulRule, Obeyable
  <2>2. DOMAIN tables' = Dpids /\ \A d \in Dpids : \A x \in tables'[d] :
          x \in tables[d] \/ x = rule
    BY <1>4 DEF NetInv, TablesLawful
  <2> HIDE DEF rule
  <2>3. TablesLawful'
    BY <2>1, <2>2 DEF NetInv, TablesLawful, LawfulRule, Lawful
  <2>4. WiresInv(wire') /\ DeliveredInv'
    BY <1>4 DEF NetInv, DeliveredInv
  <2> QED  BY <1>2, <1>3, <2>3, <2>4 DEF NetInv, WiresInv
<1>5. CASE /\ m.op = "packet_out"
           /\ LET ports == IF "in_port" \in DOMAIN m THEN Ports \ {m.in_port} ELSE {m.out}
              IN  /\ wire' = Emitted(wire, dpid, ports, m.frame)
                  /\ delivered' = Handed(dpid, ports, m.frame)
           /\ UNCHANGED tables
  <2>1. m.frame \in Frames /\ Entitled(m.frame)
    BY <1>1, <1>5 DEF Obeyable
  <2>2. PICK ports : /\ wire' = Emitted(wire, dpid, ports, m.frame)
                     /\ delivered' = Handed(dpid, ports, m.frame)
    BY <1>5
  <2>3. WiresInv(wire')
    BY <2>1, <2>2, EmittedEnters DEF NetInv
  <2>4. \A x \in delivered' : x.frame = m.frame
    BY <2>2, HandedFrame
  <2>5. DeliveredInv' /\ TablesLawful'
    BY <1>5, <2>1, <2>4 DEF NetInv, DeliveredInv, TablesLawful, Entitled
  <2> QED  BY <1>2, <1>3, <2>3, <2>5 DEF NetInv, WiresInv
<1> QED  BY <1>4, <1>5 DEF SwitchObeys, m

LEMMA RuleExpiresSafe ==
  ASSUME NetInv, NEW dpid \in Dpids, NEW r, RuleExpires(dpid, r) PROVE NetInv'
<1>1. SafetyInv' /\ RaisedInv' /\ OrdersInv' /\ DeliveredInv' /\ wire' = wire
  BY WaitingSafe DEF RuleExpires, NetInv, RaisedInv, OrdersInv, DeliveredInv
<1>2. DOMAIN tables' = Dpids /\ \A d \in Dpids : tables'[d] \subseteq tables[d]
  BY DEF RuleExpires, NetInv, TablesLawful
<1>3. TablesLawful'
  BY <1>2 DEF NetInv, TablesLawful, LawfulRule, Lawful
<1> QED  BY <1>1, <1>3 DEF NetInv, WiresInv

(* What the controller does about a packet-in that may be raised is safe.  *)
LEMMA ControllerReceivesSafe ==
  ASSUME NetInv, NEW dpid \in Dpids, ControllerReceives(dpid) PROVE NetInv'
<1> DEFINE ev == Head(to_controller[dpid])
<1>1. ev \in Raised(dpid) /\ Tail(to_controller[dpid]) \in Seq(Raised(dpid))
  <2>1. to_controller[dpid] \in Seq(Raised(dpid)) /\ to_controller[dpid] # <<>>
    BY DEF NetInv, RaisedInv, ControllerReceives
  <2> QED  BY <2>1, FirstAndRest
<1>2. /\ ev \in Items
      /\ is_leaf_uplink(ev.dpid, ev.port) /\ Crosses(ev.frame) => Justified(ev.frame)
  BY <1>1 DEF Raised, Entering, Entitled, is_leaf_uplink
<1>3. PacketIn(ev)
  BY DEF ControllerReceives
<1> HIDE DEF ev
<1>4. SafetyInv'
  BY <1>2, <1>3, PacketInSafe DEF NetInv
<1>5. OrdersInv' /\ DeliveredInv' /\ wire' = wire
  BY <1>4, TransmitsKeeps DEF NetInv, SafetyInv, ControllerReceives
<1>6. RaisedInv' /\ TablesLawful'
  BY <1>1 DEF ControllerReceives, NetInv, RaisedInv, TablesLawful
<1> QED  BY <1>4, <1>5, <1>6 DEF NetInv, WiresInv

(* A safe step of the controller that concerns no packet-in.               *)
LEMMA ControllerSafe ==
  ASSUME NetInv, SafetyInv', Transmits, UNCHANGED to_controller, TablesLawful'
  PROVE  NetInv'
<1>1. OrdersInv' /\ DeliveredInv' /\ wire' = wire
  BY TransmitsKeeps DEF NetInv, SafetyInv
<1> QED  BY <1>1 DEF NetInv, WiresInv, RaisedInv

LEMMA SwitchConnectsSafe ==
  ASSUME NetInv, NEW dpid \in Dpids, SwitchConnects(dpid) PROVE NetInv'
<1>1. SafetyInv'
  BY ConnectSafe DEF NetInv, SwitchConnects
<1>2. TablesLawful'
  BY DEF NetInv, TablesLawful, SwitchConnects, rules_cleared
<1> QED  BY <1>1, <1>2, ControllerSafe DEF SwitchConnects

LEMMA ChannelBreaksSafe ==
  ASSUME NetInv, NEW dpid \in Dpids, ChannelBreaks(dpid) PROVE NetInv'
<1>1. SafetyInv' /\ TablesLawful' /\ DeliveredInv' /\ wire' = wire
  BY WaitingSafe DEF ChannelBreaks, NetInv, TablesLawful, DeliveredInv
<1>2. RaisedInv'
  <2>1. <<>> \in Seq(Raised(dpid))
    OBVIOUS
  <2>2. to_controller' = [to_controller EXCEPT ![dpid] = <<>>]
    BY DEF ChannelBreaks
  <2> QED  BY <2>1, <2>2 DEF NetInv, RaisedInv
<1>3. OrdersInv'
  <2>1. to_switch' = [to_switch EXCEPT ![dpid] = <<>>]
    BY DEF ChannelBreaks
  <2> QED  BY <2>1, NoMessages DEF NetInv, OrdersInv, Messages, Obeyable
<1> QED  BY <1>1, <1>2, <1>3 DEF NetInv, WiresInv

(* What was on its way to or from the controller is gone with it.          *)
LEMMA EmptyChannels ==
  ASSUME to_controller' = [dpid \in Dpids |-> <<>>], to_switch' = [dpid \in Dpids |-> <<>>]
  PROVE  RaisedInv' /\ OrdersInv'
<1>1. \A d \in Dpids : <<>> \in Seq(Raised(d))
  OBVIOUS
<1>2. RaisedInv'
  BY <1>1 DEF RaisedInv
<1>3. OrdersInv'
  BY NoMessages DEF OrdersInv, Messages, Obeyable
<1> QED  BY <1>2, <1>3

(* A new controller is safe, and the rules of the old one still are.       *)
LEMMA ControllerRestartsSafe ==
  ASSUME NetInv, ControllerRestarts PROVE NetInv'
<1>1. Init' => SafetyInv'
  BY StartSafe, PTL
<1>2. Init'
  BY DEF ControllerRestarts, Init
<1>3. RaisedInv' /\ OrdersInv'
  BY EmptyChannels DEF ControllerRestarts
<1>4. DeliveredInv' /\ TablesLawful' /\ wire' = wire
  BY DEF ControllerRestarts, NetInv, DeliveredInv, TablesLawful
<1> QED  BY <1>1, <1>2, <1>3, <1>4 DEF NetInv, WiresInv

LEMMA TimePassesSafe ==
  ASSUME NetInv, TimePasses PROVE NetInv'
<1>1. SafetyInv'
  BY ElapseSafe DEF NetInv, TimePasses
<1>2. ASSUME NEW r, LawfulRule(r) PROVE LawfulRule(Aged(r))
  BY <1>2 DEF LawfulRule, Aged
<1>3. TablesLawful'
  <2>1. DOMAIN tables' = Dpids /\ \A d \in Dpids : \A x \in tables'[d] :
          \E r \in tables[d] : x = Aged(r)
    BY DEF TimePasses
  <2> QED  BY <1>2, <2>1 DEF NetInv, TablesLawful, LawfulRule, Lawful
<1>4. RaisedInv' /\ OrdersInv' /\ DeliveredInv' /\ wire' = wire
  BY DEF TimePasses, NetInv, RaisedInv, OrdersInv, DeliveredInv
<1> QED  BY <1>1, <1>3, <1>4 DEF NetInv, WiresInv

-----------------------------------------------------------------------------
(* The theorems. *)

(* The controller's safety, entitled traffic on every uplink and towards   *)
(* every host, and lawful rules in every switch: in every state the        *)
(* network can reach (every handler, with the module docstring on leaf     *)
(* uplinks).                                                               *)
THEOREM NetSafety == NetSpec => []NetInv
<1>1. NetInit => NetInv
  <2> SUFFICES ASSUME NetInit PROVE NetInv
    OBVIOUS
  <2>1. SafetyInv
    BY StartSafe DEF NetInit
  <2>2. \A d \in Dpids, p \in Ports : <<>> \in Seq(Entering(d, p))
    OBVIOUS
  <2>3. \A d \in Dpids : <<>> \in Seq(Raised(d))
    OBVIOUS
  <2>4. WiresInv(wire) /\ RaisedInv
    BY <2>2, <2>3 DEF NetInit, WiresInv, RaisedInv
  <2>5. TablesLawful /\ OrdersInv /\ DeliveredInv
    BY NoMessages DEF NetInit, TablesLawful, OrdersInv, DeliveredInv
  <2> QED  BY <2>1, <2>4, <2>5 DEF NetInv
<1>2. NetInv /\ [NetNext]_all_vars => NetInv'
  <2> SUFFICES ASSUME NetInv, [NetNext]_all_vars PROVE NetInv'
    OBVIOUS
  <2>1. ASSUME NEW ip \in Ips, ControllerRetries(ip) PROVE NetInv'
    <3>1. SafetyInv' /\ TablesLawful'
      BY <2>1, TimerSafe DEF ControllerRetries, NetInv, TablesLawful
    <3> QED  BY <2>1, <3>1, ControllerSafe DEF ControllerRetries
  <2>2. ASSUME ControllerSweeps PROVE NetInv'
    <3>1. SafetyInv' /\ TablesLawful'
      BY <2>2, SweepSafe DEF ControllerSweeps, NetInv, TablesLawful
    <3> QED  BY <2>2, <3>1, ControllerSafe DEF ControllerSweeps
  <2>3. ASSUME UNCHANGED all_vars PROVE NetInv'
    BY <2>3 DEF all_vars, router_vars, net_vars, NetInv, SafetyInv, TablesInv, TypeOK,
         OneTimerPerResolution, LocationsMatchZones, TrackedArePermitted, QueuesAreJustified,
         SafeSent, WiresInv, TablesLawful, RaisedInv, OrdersInv, DeliveredInv
  <2> QED  BY <2>1, <2>2, <2>3, HostSendsSafe, SwitchForwardsSafe, SwitchObeysSafe,
             RuleExpiresSafe, ControllerReceivesSafe, SwitchConnectsSafe, ChannelBreaksSafe,
             ControllerRestartsSafe, TimePassesSafe DEF NetNext
<1> QED  BY <1>1, <1>2, PTL DEF NetSpec

(* What comes down a leaf's uplink was entitled to cross, so that the      *)
(* controller may deliver it without asking the firewall again             *)
(* (_handle_transit()).                                                    *)
THEOREM TransitHolds == NetSpec => []TransitIsJustified
<1>1. NetInv => TransitIsJustified
  <2> SUFFICES ASSUME NetInv, NEW leaf \in Leaves \cap Dpids
      PROVE  /\ \A i \in DOMAIN wire[leaf][LEAF_UPLINK_PORT[leaf]] :
                  LET f == wire[leaf][LEAF_UPLINK_PORT[leaf]][i] IN Crosses(f) => Justified(f)
             /\ \A i \in DOMAIN to_controller[leaf] :
                  LET ev == to_controller[leaf][i]
                  IN  is_leaf_uplink(leaf, ev.port) /\ Crosses(ev.frame) => Justified(ev.frame)
    BY DEF TransitIsJustified
  <2> DEFINE port == LEAF_UPLINK_PORT[leaf]
  <2>1. port \in Ports /\ is_leaf_uplink(leaf, port)
    BY PortMapsAssumption DEF is_leaf_uplink
  <2> HIDE DEF port
  <2>2. wire[leaf][port] \in Seq(Entering(leaf, port))
    BY <2>1 DEF NetInv, WiresInv
  <2>3. \A i \in DOMAIN wire[leaf][port] : wire[leaf][port][i] \in Entering(leaf, port)
    BY <2>2, LenProperties, ElementOfSeq
  <2>4. \A i \in DOMAIN wire[leaf][port] :
          LET f == wire[leaf][port][i] IN Crosses(f) => Justified(f)
    BY <2>1, <2>3 DEF Entering, Entitled
  <2>5. to_controller[leaf] \in Seq(Raised(leaf))
    BY DEF NetInv, RaisedInv
  <2>6. \A i \in DOMAIN to_controller[leaf] : to_controller[leaf][i] \in Raised(leaf)
    BY <2>5, LenProperties, ElementOfSeq
  <2>7. \A i \in DOMAIN to_controller[leaf] :
          LET ev == to_controller[leaf][i]
          IN  is_leaf_uplink(leaf, ev.port) /\ Crosses(ev.frame) => Justified(ev.frame)
    BY <2>6 DEF Raised, Entering, Entitled
  <2> QED  BY <2>4, <2>7 DEF port
<1> QED  BY <1>1, NetSafety, PTL

(* The network segments, for every policy, layout, set of hosts and        *)
(* traffic, and through faults of the channels and of the controller: no   *)
(* host is ever handed traffic that is not entitled to cross to it.        *)
THEOREM HostsSegmented == NetSpec => []HostsAreSegmented
<1>1. NetInv => HostsAreSegmented
  BY DEF NetInv, DeliveredInv, Entitled, HostsAreSegmented
<1> QED  BY <1>1, NetSafety, PTL
=============================================================================
