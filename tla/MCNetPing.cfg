CONSTANTS
  DeptB = DeptB Trust = Trust
  h201 = h201 h_trust = h_trust gw_b = gw_b gw_t = gw_t
  m201 = m201 m_trust = m_trust mg_b = mg_b mg_t = mg_t bcast = bcast
  s3 = s3 s6 = s6
  None = None
  ZONES <- MCZones
  Ips <- MCIps
  Macs <- MCMacs
  Subnet <- MCSubnet
  Gateway <- MCGateway
  GatewayMac <- MCGatewayMac
  BLOCK_ALL_IP = {}
  BLOCK_ICMP <- MCBlockIcmp
  Dpids <- MCDpids
  Ports <- MCPorts
  CORE_DPID = s6
  SWITCH_ZONE <- MCSwitchZone
  LEAF_UPLINK_PORT <- MCLeafUplink
  LEAF_CORE_PORT <- MCLeafCorePort
  CORE_PORT_ZONES <- MCCorePortZones
  PacketIns = {}
  Broadcast = bcast
  Multicast <- MCMulticast
  ARP_MAX_RETRIES = 1
  IDLE_TIMEOUT = 4
  MaxQueue = 1
  Faults = FALSE
  TICK = 30
  MaxFlight = 2
  Hosts <- MCHosts
  HostFrames <- OnePing
SPECIFICATION NetSpec
INVARIANTS TransitIsJustified HostsAreSegmented OneHop LocatedAtHome AnswersGetThrough
  RulesFollowConnections TrafficHasConnection
