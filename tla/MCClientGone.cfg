CONSTANTS
  DataCenter = DataCenter Trust = Trust
  h_server = h_server h_trust = h_trust h_gw_dc = h_gw_dc h_gw_t = h_gw_t mg_dc = mg_dc mg_t = mg_t
  None = None
  ZONES <- MCZones
  Ips <- MCIps
  Macs = {mg_dc, mg_t}
  Subnet <- MCSubnet
  Gateway <- MCGateway
  GatewayMac <- MCGatewayMac
  BLOCK_ALL_IP <- MCBlockAll
  BLOCK_ICMP = {}
  Clients = {c1}
  Daemons = {d1}
  Conns = {k1, k2}
  Requests <- MCRequests
  IngressZone <- MCIngressZone
  Kills = FALSE
SPECIFICATION Spec
PROPERTY ServesUntilTold
