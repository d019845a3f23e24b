---------------------------- MODULE DaemonTables ----------------------------
(***************************************************************************)
(* The policy a second time: the C++ tables tools/gen_policy_header.py     *)
(* renders, and the daemon's classification and verdict over them, with    *)
(* its mask arithmetic on unsigned integers of Width bits.                 *)
(***************************************************************************)
EXTENDS PolicyTables, SequencesExt

CONSTANT Identifiers   \* zone names that are C++ identifiers

RESERVED == {"Unknown"}

names_ok(zones) == DOMAIN zones \subseteq Identifiers \ RESERVED

(* C++ has no empty array: an empty table is a placeholder that the count  *)
(* keeps unread.                                                           *)
pairs(table, order) ==
  IF table = {} THEN [rows |-> <<<<order[1], order[1]>>>>, count |-> 0]
  ELSE [rows |-> SetToSeq(table), count |-> Cardinality(table)]

render(tables) ==
  LET order == SetToSeq(DOMAIN tables.zones)
  IN  [kZones |-> [i \in DOMAIN order |->
                     [zone |-> order[i], network |-> tables.zones[order[i]].net,
                      prefix_len |-> tables.zones[order[i]].prefix]],
       kBlockAllIp |-> pairs(tables.block_all_ip, order),
       kBlockIcmp |-> pairs(tables.block_icmp, order)]

ContainsPair(table, src, dst) == \E i \in 1 .. table.count : table.rows[i] = <<src, dst>>

AllOnes == pow2[Width] - 1

(* Fault: a shift by the full width, which the processor takes for none.   *)
mask_unguarded(prefix_len) == shiftL(AllOnes, (Width - prefix_len) % Width)

mask(prefix_len) == IF prefix_len = 0 THEN 0 ELSE shiftL(AllOnes, Width - prefix_len)

(* The first row that matches, or Zone::Unknown.                           *)
ClassifyZone(header, ip) ==
  LET rows == header.kZones
      hits == {i \in DOMAIN rows :
                 And(ip, mask(rows[i].prefix_len)) = And(rows[i].network, mask(rows[i].prefix_len))}
  IN  IF hits = {} THEN "Unknown" ELSE rows[Min(hits)].zone

DecideZones(header, src_zone, dst_zone, is_icmp) ==
  /\ "Unknown" \notin {src_zone, dst_zone}
  /\ ~ContainsPair(header.kBlockAllIp, src_zone, dst_zone)
  /\ ~(is_icmp /\ ContainsPair(header.kBlockIcmp, src_zone, dst_zone))
=============================================================================
