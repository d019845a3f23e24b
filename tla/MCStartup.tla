------------------------------ MODULE MCStartup ------------------------------
(***************************************************************************)
(* Files in two families: every spelling of two zones with every kind of   *)
(* rule (the layout is then a core without hosts), and one policy with     *)
(* many layouts of a core, up to two leaves and up to two hosts.           *)
(***************************************************************************)
EXTENDS Startup

CONSTANTS aa, AA, bb, bad

MCMacTexts == {aa, AA, bb}
MCLower == aa :> aa @@ AA :> aa @@ bb :> bb

Zone(net, prefix, gateway, mac) ==
  [net |-> net, prefix |-> prefix, gateway |-> gateway, mac |-> mac]

(* Prefix lengths 0 to full, a subnet with a host bit set, one too long.   *)
ZoneA == {Zone(s[1], s[2], gw, m) :
            s \in {<<0, 0>>, <<0, 1>>, <<8, 1>>, <<6, 3>>, <<6, 4>>, <<6, 1>>, <<0, 5>>},
            gw \in {1, 6, 9, None}, m \in {aa, AA, bad}}
ZoneB == {Zone(s[1], s[2], gw, m) :
            s \in {<<0, 0>>, <<8, 1>>, <<8, 2>>, <<9, 4>>, <<4, 3>>}, gw \in {4, 9}, m \in {aa, bb}}

Rule(from, to, block) == [from |-> from, to |-> to, block |-> block]
RuleSets == {{}, {Rule({"B"}, {"A", "B"}, "icmp")},
             {Rule({"A"}, {"B"}, "all"), Rule({"A"}, {"A"}, "icmp")}, {Rule({"A"}, {}, "all")}, {Rule({"A"}, {"C"}, "icmp")}, {Rule({"A"}, {"B"}, "tcp")}}

OnlyCore == "s6" :> [dpid |-> 6, core |-> TRUE, zone |-> None]

File(zones, rules, switches, uplinks, hosts) ==
  [zones |-> zones, rules |-> rules, switches |-> switches, uplinks |-> uplinks, hosts |-> hosts]

PolicyFiles ==
  {File("A" :> a @@ "B" :> b, rules, OnlyCore, <<>>, <<>>) :
     a \in ZoneA, b \in ZoneB, rules \in RuleSets}
  \cup {File("A" :> a @@ "Unknown" :> b, {}, OnlyCore, <<>>, <<>>) : a \in ZoneA, b \in ZoneB}
  \cup {File("A" :> a, {}, OnlyCore, <<>>, <<>>) : a \in ZoneA}
  \cup {File(<<>>, {}, OnlyCore, <<>>, <<>>)}

Deployed == "A" :> Zone(0, 1, 1, aa) @@ "B" :> Zone(8, 1, 9, bb)

Switch(dpid, core, zone) == [dpid |-> dpid, core |-> core, zone |-> zone]
Leaf(dpid, zone) == Switch(dpid, FALSE, zone)

SwitchTables ==
  { "s6" :> Switch(6, TRUE, None) @@ "s1" :> s1 @@ "s2" :> s2 :
      s1 \in {Leaf(1, "A")}, s2 \in {Leaf(2, "A"), Leaf(2, "B")} }
BadSwitchTables ==
  { "s6" :> s6 @@ "s1" :> s1 :
      s6 \in {Switch(6, TRUE, None), Switch(6, FALSE, None)},
      s1 \in {Leaf(1, "A"), Leaf(6, "A"), Leaf(0, "A"), Leaf(None, "A"), Leaf(1, "C"), Switch(1, TRUE, None)} }

Uplink(leaf, leaf_port, core_port) ==
  [leaf |-> leaf, leaf_port |-> leaf_port, core_port |-> core_port]
UplinkLists ==
  { <<Uplink("s1", 3, 1), Uplink(leaf, lp, cp)>> :
      leaf \in {"s2"}, lp \in {1, 3, None}, cp \in {1, 2} }
  \cup { <<Uplink("s1", 3, 1), Uplink(leaf, 3, 2)>> : leaf \in {"s1", "s6"} }
  \cup { <<Uplink("s1", 3, 1)>> }

Host(ip, switch, port) == [ip |-> ip, switch |-> switch, port |-> port]
OneHost == {Host(ip, s, p) : ip \in {2, 9, 10}, s \in {"s1", "s2", "s6"}, p \in {1, 2, 3}}
HostTables ==
  { "h1" :> h1 @@ "h2" :> h2 :
      h1 \in {h \in OneHost : h.port # 3}, h2 \in {h \in OneHost : h.switch # "s1"} }
  \cup { "h1" :> Host(ip, s, 2) : ip \in Addresses, s \in {"s1", "s6", "s9"} }

NetworkFiles ==
  {File(Deployed, {}, switches, uplinks, hosts) :
     switches \in SwitchTables, uplinks \in UplinkLists, hosts \in HostTables}
  \cup {File(Deployed, {}, switches, <<Uplink("s1", 3, 1)>>, <<>>) : switches \in BadSwitchTables}

MCFiles == PolicyFiles \cup NetworkFiles
=============================================================================
