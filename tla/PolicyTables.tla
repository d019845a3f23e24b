---------------------------- MODULE PolicyTables ----------------------------
(***************************************************************************)
(* What becomes of policy.json: firewall_rules.load_policy(). A raw file   *)
(* has zones, a function from names to [net, prefix, gateway, mac], and    *)
(* rules, a set of [from, to, block]. Addresses are the numbers of Width   *)
(* bits. What is missing or does not parse is None.                        *)
(***************************************************************************)
EXTENDS Bits, Sequences, FiniteSets

CONSTANTS
  MacTexts,   \* spellings of Ethernet addresses that match _MAC_RE
  Lower,      \* MacTexts -> MacTexts: str.lower()
  None

ASSUME TablesAssumption == Lower \in [MacTexts -> MacTexts]

BLOCK_KINDS == {"all", "icmp"}

Size(prefix) == pow2[Width - prefix]

(* ip_network(): no bit is set beyond the prefix.                          *)
is_network(z) ==
  /\ z.net \in Addresses /\ z.prefix \in 0 .. Width
  /\ z.net % Size(z.prefix) = 0

subnet(z) == {ip \in Addresses : z.net <= ip /\ ip < z.net + Size(z.prefix)}

zone_ok(z) == is_network(z) /\ z.gateway \in subnet(z) /\ z.mac \in MacTexts

(* Fault: addresses are compared as they were spelled.                     *)
shares_spelling(y, z) == subnet(y) \cap subnet(z) # {} \/ y.mac = z.mac

clash(y, z) == subnet(y) \cap subnet(z) # {} \/ Lower[y.mac] = Lower[z.mac]

rule_ok(rule, names) ==
  /\ rule.block \in BLOCK_KINDS
  /\ rule.from \subseteq names /\ rule.from # {}
  /\ rule.to \subseteq names /\ rule.to # {}

policy_ok(raw) ==
  LET zones == raw.zones
  IN  /\ DOMAIN zones # {}
      /\ \A n \in DOMAIN zones : zone_ok(zones[n])
      /\ \A n, m \in DOMAIN zones : n # m => ~clash(zones[n], zones[m])
      /\ \A rule \in raw.rules : rule_ok(rule, DOMAIN zones)

blocks(raw, kind) == UNION {rule.from \X rule.to : rule \in {r \in raw.rules : r.block = kind}}

(* The tables of an accepted file: ZONES and the two block sets.           *)
load_policy(raw) ==
  [zones |-> [n \in DOMAIN raw.zones |->
                [net |-> raw.zones[n].net, prefix |-> raw.zones[n].prefix,
                 gateway |-> raw.zones[n].gateway, mac |-> Lower[raw.zones[n].mac]]],
   block_all_ip |-> blocks(raw, "all"),
   block_icmp |-> blocks(raw, "icmp")]
=============================================================================
