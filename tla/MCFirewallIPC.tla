---------------------------- MODULE MCFirewallIPC ----------------------------
(***************************************************************************)
(* Two zones: Trust may start nothing towards the data center. The two     *)
(* requests are answered by two different byte pairs.                      *)
(***************************************************************************)
EXTENDS FirewallIPC, TLC

CONSTANTS DataCenter, Trust, h_server, h_trust, h_gw_dc, h_gw_t, mg_dc, mg_t

MCZones == {DataCenter, Trust}
MCIps == {h_server, h_trust, h_gw_dc, h_gw_t}
MCSubnet == DataCenter :> {h_server, h_gw_dc} @@ Trust :> {h_trust, h_gw_t}
MCGateway == DataCenter :> h_gw_dc @@ Trust :> h_gw_t
MCGatewayMac == DataCenter :> mg_dc @@ Trust :> mg_t
MCBlockAll == {<<Trust, DataCenter>>}
MCRequests == { << <<h_trust, h_server>>, FALSE >>, << <<h_server, h_trust>>, FALSE >> }
MCIngressZone == [r \in MCRequests |-> IF r[1][1] = h_trust THEN Trust ELSE DataCenter]
=============================================================================
