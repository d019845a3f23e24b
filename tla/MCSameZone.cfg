CONSTANTS
  DeptB = DeptB DataCenter = DataCenter Trust = Trust
  h201 = h201 h203 = h203 h_server = h_server h_trust = h_trust nowhere = nowhere
  gw_b = gw_b gw_dc = gw_dc gw_t = gw_t
  m201 = m201 m203 = m203 m_server = m_server m_trust = m_trust
  mg_b = mg_b mg_dc = mg_dc mg_t = mg_t bcast = bcast group = group
  s3 = s3 s4 = s4 s5 = s5 s6 = s6
  None = None
  ZONES <- MCZones
  Ips <- MCIps
  Macs <- MCMacs
  Subnet <- MCSubnet
  Gateway <- MCGateway
  GatewayMac <- MCGatewayMac
  BLOCK_ALL_IP <- MCBlockAll
  BLOCK_ICMP <- MCBlockIcmp
  Ports <- MCPorts
  CORE_DPID = s6
  SWITCH_ZONE <- MCSwitchZone
  LEAF_UPLINK_PORT <- MCLeafUplink
  LEAF_CORE_PORT <- MCLeafCorePort
  CORE_PORT_ZONES <- MCCorePortZones
  Broadcast = bcast
  Multicast <- MCMulticast
  ARP_MAX_RETRIES = 3
  IDLE_TIMEOUT = 2
  MaxQueue = 1
  Dpids <- SameZoneDpids
  PacketIns <- SameZoneEvents
SPECIFICATION Spec
INVARIANTS ArpStaysInZone LocationsPointHome
