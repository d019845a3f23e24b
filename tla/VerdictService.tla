--------------------------- MODULE VerdictService ---------------------------
(***************************************************************************)
(* What the controller's firewall dispatch promises, without sockets,      *)
(* daemon or fallback: a caller that asks about a packet gets the policy's *)
(* verdict for that packet, unless the caller itself goes away.            *)
(***************************************************************************)
EXTENDS ZonePolicy

CONSTANTS
  Clients,    \* processes that ask
  Requests    \* << <<src_ip, dst_ip>>, is_icmp >>

VARIABLES
  asking,     \* client -> the request it waits for, or None
  verdict     \* client -> the verdict it got last; None while it waits

ServiceInit ==
  /\ asking = [c \in Clients |-> None]
  /\ verdict = [c \in Clients |-> None]

Ask(c) ==
  /\ asking[c] = None
  /\ \E r \in Requests : asking' = [asking EXCEPT ![c] = r]
  /\ verdict' = [verdict EXCEPT ![c] = None]

Answer(c) ==
  /\ asking[c] # None
  /\ verdict' = [verdict EXCEPT ![c] =
       firewall_allowed(zone_for_ip(asking[c][1][1]), zone_for_ip(asking[c][1][2]), asking[c][2])]
  /\ asking' = [asking EXCEPT ![c] = None]

Leave(c) ==
  /\ asking' = [asking EXCEPT ![c] = None]
  /\ verdict' = [verdict EXCEPT ![c] = None]

ServiceNext == \E c \in Clients : Ask(c) \/ Answer(c) \/ Leave(c)

ServiceSpec == ServiceInit /\ [][ServiceNext]_<<asking, verdict>>
=============================================================================
